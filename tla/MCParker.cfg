SPECIFICATION ParkerFairSpec
CONSTANTS
  Unparkers = {u1, u2, u3}
  NoUnparker = NoUnparker
INVARIANTS
  NoLostUnpark
  NoUseAfterDelete
PROPERTIES
  UnparkedReturns
