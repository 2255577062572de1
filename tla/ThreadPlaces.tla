---------------------------- MODULE ThreadPlaces ----------------------------
(***************************************************************************)
(* The threads of a model, and where in the code each of them is.          *)
(***************************************************************************)
EXTENDS FiniteSets

CONSTANTS
  Threads,
  NoThread  \* the value 0 of a thread id, or nullptr

ASSUME ThreadsAssumption == IsFiniteSet(Threads) /\ NoThread \notin Threads

VARIABLE pc

Goto(t, label) == pc' = [pc EXCEPT ![t] = label]
=============================================================================
