-------------------------- MODULE DeviceOwnership --------------------------
(***************************************************************************)
(* What the lock file promises to the programs that share one ATSHA204:    *)
(* the I2C device is handed from one user to the next, never to two users  *)
(* at once, and no user keeps it for ever, whatever happens to its         *)
(* program.  Nothing is said of how the hand-over is done.                 *)
(***************************************************************************)
CONSTANT Thread

VARIABLE users      \* the threads whose handle has the device open

Init == users = {}

Acquire(t) == users = {} /\ users' = {t}

Release == users # {} /\ users' = {}

Next == Release \/ \E t \in Thread : Acquire(t)

SafeSpec == Init /\ [][Next]_users

Spec == SafeSpec /\ WF_users(Release)
=============================================================================
