---------------------------- MODULE MCMonitor ----------------------------
(* Monitor for TLC.                                                        *)
EXTENDS Monitor, TLC
CONSTANTS t1, t2, t3

(* Two threads that between them call everything; two that wait and a     *)
(* third that notifies and interrupts.                                    *)
MCPrograms ==
  {[ops |-> t1 :> Operations \ {"interrupt"} @@
            t2 :> Operations \ {"tryenter", "notifyAll"} @@ t3 :> {},
    depth |-> 2, barrier |-> TRUE],
   [ops |-> t1 :> {"enter", "exit", "wait"} @@ t2 :> {"enter", "exit", "wait"} @@
            t3 :> {"enter", "exit", "notify", "notifyAll", "interrupt"},
    depth |-> 1, barrier |-> FALSE]}
=============================================================================
