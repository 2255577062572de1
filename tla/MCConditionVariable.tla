------------------------ MODULE MCConditionVariable -------------------------
(* ConditionVariable for TLC: three threads that wait and signal.          *)
EXTENDS ConditionVariable
=============================================================================
