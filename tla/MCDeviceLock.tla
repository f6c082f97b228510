---------------------------- MODULE MCDeviceLock ----------------------------
(***************************************************************************)
(* Instances of DeviceLock for TLC: programs with one thread each, and one *)
(* program with two threads.                                               *)
(***************************************************************************)
EXTENDS DeviceLock, TLC

CONSTANTS p1, p2, t1, t2

OneThreadEach == (t1 :> p1) @@ (t2 :> p2)
TwoThreadsInOne == (t1 :> p1) @@ (t2 :> p1)
=============================================================================
