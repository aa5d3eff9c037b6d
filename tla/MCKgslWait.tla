---------------------------- MODULE MCKgslWait ----------------------------
(* Two waiting threads; a millisecond is two time units, so that deadlines   *)
(* fall inside one.                                                          *)
EXTENDS KgslWait, TLC

CONSTANTS w1, w2

MCWaiters  == {w1, w2}
MCSymmetry == Permutations(MCWaiters)
MCForever  == 12
MCTimeouts == {0, 3, MCForever}

\* For liveness: a deadline one millisecond away, which soon passes, and none.
MCFinite   == {1, MCForever}
===========================================================================
