SPECIFICATION ParkerSpec
CONSTANTS
  Unparkers = {u1}
  NoUnparker = NoUnparker
INVARIANTS
  LockKeepsThread
