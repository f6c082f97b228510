----------------------------- MODULE DeviceLock -----------------------------
(***************************************************************************)
(* Opening and closing a handle of the native I2C layer (api.c).  Programs *)
(* that share the chip serialise on flock(LOCK_FILE); a handle arms        *)
(* alarm(KILL_UNRELEASED_LOCK_AFTER) with the default action of SIGALRM,   *)
(* so that the kernel kills a program that keeps the lock too long, and    *)
(* the death of a program releases its locks.                              *)
(*                                                                         *)
(* A thread is one caller of atsha_open_ni2c_dev .. atsha_close, and holds *)
(* at most one handle.  The pending alarm and the disposition of SIGALRM   *)
(* belong to the process.  One action is one system call of the library    *)
(* (a step of a thread) or of the kernel; Tick is the passing of a second. *)
(***************************************************************************)
EXTENDS Integers, FiniteSets

CONSTANTS
  Process, Thread,
  ProcessOf,                    \* the process of each thread
  NoThread,                     \* no open file description has the flock
  KILL_UNRELEASED_LOCK_AFTER,   \* seconds (10 in configuration.h)
  LOCK_TRY_MAX,                 \* whole seconds a caller tries (2.2 there)
  AppAlarms                     \* what the programs themselves give alarm()

ASSUME ThreadAssumption ==
  /\ ProcessOf \in [Thread -> Process]
  /\ NoThread \notin Thread

ASSUME TimeAssumption ==
  /\ KILL_UNRELEASED_LOCK_AFTER \in Nat \ {0}
  /\ LOCK_TRY_MAX \in Nat
  /\ AppAlarms \subseteq Nat \ {0}

VARIABLES
  pc,           \* where a thread is in atsha_open_ni2c_dev or atsha_close
  lock,         \* the thread whose lockfile descriptor has the flock
  alarm,        \* seconds left of the alarm of a process, or NotArmed
  sigact,       \* the disposition of SIGALRM in a process
  orig_alarm,   \* handle->orig_alarm of a thread's handle
  orig_sigact,  \* handle->orig_sigact
  elapsed,      \* seconds in atsha_lock, then since alarm(KILL..), else 0
  wanted,       \* the program has an alarm of its own that has not come yet
  handler       \* the disposition the program itself asked for

lockVars  == <<pc, lock>>
alarmVars == <<alarm, sigact>>
handleVars == <<orig_alarm, orig_sigact, elapsed>>
appVars   == <<wanted, handler>>
vars == <<pc, lock, alarm, sigact, orig_alarm, orig_sigact, elapsed,
          wanted, handler>>

NotArmed == -1

\* Steps of atsha_open_ni2c_dev, then of atsha_close, named for what has
\* been done: app (no handle), locking (lock file open, flock not got),
\* locked, opened (device), bound (I2C address), allocated (handle), armed
\* (alarm set), open (handle returned), closing (device closed), unlocked,
\* handler_back, alarm_back.
DeviceSteps == {"opened", "bound", "allocated", "armed", "open"}
LockSteps   == DeviceSteps \cup {"locked", "closing"}
GuardSteps  == {"armed", "open", "closing", "unlocked", "handler_back"}
Steps == LockSteps \cup GuardSteps \cup {"app", "locking", "alarm_back"}

ThreadsOf(p) == {t \in Thread : ProcessOf[t] = p}

\* Some thread of p is between the library's two calls of alarm().
Guarded(p) == \E t \in ThreadsOf(p) : pc[t] \in GuardSteps

MaxElapsed == KILL_UNRELEASED_LOCK_AFTER + LOCK_TRY_MAX + 1

Init ==
  /\ pc = [t \in Thread |-> "app"]
  /\ lock = NoThread
  /\ alarm = [p \in Process |-> NotArmed]
  /\ sigact = [p \in Process |-> "dfl"]
  /\ orig_alarm = [t \in Thread |-> 0]
  /\ orig_sigact = [t \in Thread |-> "dfl"]
  /\ elapsed = [t \in Thread |-> 0]
  /\ wanted = [p \in Process |-> FALSE]
  /\ handler = [p \in Process |-> "dfl"]

-----------------------------------------------------------------------------
(* alarm(2): the return value is the seconds left of the earlier alarm,    *)
(* which is never 0 when there is one; alarm(0) cancels.                   *)

AlarmLeft(p) == IF alarm[p] = NotArmed THEN 0
                ELSE IF alarm[p] = 0 THEN 1 ELSE alarm[p]

AlarmSet(n) == IF n = 0 THEN NotArmed ELSE n

Goto(t, step) == pc' = [pc EXCEPT ![t] = step]

\* close(lockfile): the flock of that descriptor goes with it.
Unflock(t) == lock' = IF lock = t THEN NoThread ELSE lock

\* Mutant: an early return that leaves the lock file open.
AbandonLeaking(t) ==
  /\ Goto(t, "app")
  /\ elapsed' = [elapsed EXCEPT ![t] = 0]
  /\ UNCHANGED lock

\* An early return of NULL: close(try_lockfile).
Abandon(t) ==
  /\ Goto(t, "app")
  /\ Unflock(t)
  /\ elapsed' = [elapsed EXCEPT ![t] = 0]

-----------------------------------------------------------------------------
(* The program: alarms and handlers of its own, outside any handle.        *)

AppArmsAlarm(p) ==
  /\ \A t \in ThreadsOf(p) : pc[t] = "app"
  /\ \E n \in AppAlarms : alarm' = [alarm EXCEPT ![p] = n]
  /\ wanted' = [wanted EXCEPT ![p] = TRUE]
  /\ UNCHANGED <<pc, lock, sigact, orig_alarm, orig_sigact, elapsed, handler>>

AppInstallsHandler(p) ==
  /\ \A t \in ThreadsOf(p) : pc[t] = "app"
  /\ sigact[p] = "dfl"
  /\ sigact' = [sigact EXCEPT ![p] = "user"]
  /\ handler' = [handler EXCEPT ![p] = "user"]
  /\ UNCHANGED <<pc, lock, alarm, orig_alarm, orig_sigact, elapsed, wanted>>

-----------------------------------------------------------------------------
(* atsha_open_ni2c_dev                                                     *)

\* atsha_try_lock_file; a failing open() returns NULL and changes nothing.
TryLockFile(t) ==
  /\ pc[t] = "app"
  /\ Goto(t, "locking")
  /\ elapsed' = [elapsed EXCEPT ![t] = 0]
  /\ UNCHANGED <<lock, alarm, sigact, orig_alarm, orig_sigact, appVars>>

\* Mutants: the result of flock() is not looked at; the loop never gives up.
LockUnchecked(t) ==
  /\ pc[t] = "locking"
  /\ lock' = IF lock = NoThread THEN t ELSE lock
  /\ Goto(t, "locked")
  /\ elapsed' = [elapsed EXCEPT ![t] = 0]
  /\ UNCHANGED <<alarm, sigact, orig_alarm, orig_sigact, appVars>>

LockForEver(t) ==
  /\ pc[t] = "locking"
  /\ lock = NoThread
  /\ lock' = t
  /\ Goto(t, "locked")
  /\ elapsed' = [elapsed EXCEPT ![t] = 0]
  /\ UNCHANGED <<alarm, sigact, orig_alarm, orig_sigact, appVars>>

\* One round of atsha_lock that returns.  The round that finds the lock
\* taken in time sleeps LOCK_TRY_TOUT and leaves the state alone.
Lock(t) ==
  /\ pc[t] = "locking"
  /\ \/ /\ lock = NoThread
        /\ lock' = t
        /\ Goto(t, "locked")
        /\ elapsed' = [elapsed EXCEPT ![t] = 0]
     \/ /\ lock # NoThread
        /\ elapsed[t] > LOCK_TRY_MAX
        /\ Abandon(t)
  /\ UNCHANGED <<alarm, sigact, orig_alarm, orig_sigact, appVars>>

\* open(path), ioctl(I2C_SLAVE) and calloc: each may fail and return NULL.
OpenStep(t, from, to) ==
  /\ pc[t] = from
  /\ \/ Goto(t, to) /\ UNCHANGED <<lock, elapsed>>
     \/ Abandon(t)
  /\ UNCHANGED <<alarm, sigact, orig_alarm, orig_sigact, appVars>>

OpenDevice(t)  == OpenStep(t, "locked", "opened")
BindAddress(t) == OpenStep(t, "opened", "bound")
AllocHandle(t) == OpenStep(t, "bound", "allocated")

\* Mutants: no alarm is armed; what is left of the old alarm counts from the
\* new one; a handler of the program's stays in place.
SanitizeLater(t) ==
  LET p == ProcessOf[t] IN
  /\ pc[t] = "allocated"
  /\ Goto(t, "armed")
  /\ orig_alarm' = [orig_alarm EXCEPT ![t] = AlarmLeft(p) - KILL_UNRELEASED_LOCK_AFTER]
  /\ alarm' = [alarm EXCEPT ![p] = KILL_UNRELEASED_LOCK_AFTER]
  /\ elapsed' = [elapsed EXCEPT ![t] = 0]
  /\ UNCHANGED <<lock, sigact, orig_sigact, appVars>>

SanitizeNoAlarm(t) ==
  /\ pc[t] = "allocated"
  /\ Goto(t, "armed")
  /\ elapsed' = [elapsed EXCEPT ![t] = 0]
  /\ UNCHANGED <<lock, alarm, sigact, orig_alarm, orig_sigact, appVars>>

SanitizeNoHandler(t) ==
  /\ pc[t] = "armed"
  /\ Goto(t, "open")
  /\ orig_sigact' = [orig_sigact EXCEPT ![t] = sigact[ProcessOf[t]]]
  /\ UNCHANGED <<lock, alarm, sigact, orig_alarm, elapsed, appVars>>

\* sanitize_lock, first call: alarm(KILL_UNRELEASED_LOCK_AFTER).
SanitizeAlarm(t) ==
  LET p == ProcessOf[t] IN
  /\ pc[t] = "allocated"
  /\ Goto(t, "armed")
  /\ orig_alarm' = [orig_alarm EXCEPT ![t] = AlarmLeft(p)]
  /\ alarm' = [alarm EXCEPT ![p] = KILL_UNRELEASED_LOCK_AFTER]
  /\ elapsed' = [elapsed EXCEPT ![t] = 0]
  /\ UNCHANGED <<lock, sigact, orig_sigact, appVars>>

\* sanitize_lock, second call: sigaction(SIGALRM, SIG_DFL).
SanitizeHandler(t) ==
  LET p == ProcessOf[t] IN
  /\ pc[t] = "armed"
  /\ Goto(t, "open")
  /\ orig_sigact' = [orig_sigact EXCEPT ![t] = sigact[p]]
  /\ sigact' = [sigact EXCEPT ![p] = "dfl"]
  /\ UNCHANGED <<lock, alarm, orig_alarm, elapsed, appVars>>

-----------------------------------------------------------------------------
(* atsha_close                                                             *)

CloseDevice(t) ==
  /\ pc[t] = "open"
  /\ Goto(t, "closing")
  /\ UNCHANGED <<lock, alarmVars, handleVars, appVars>>

Unlock(t) ==
  /\ pc[t] = "closing"
  /\ Goto(t, "unlocked")
  /\ Unflock(t)
  /\ elapsed' = [elapsed EXCEPT ![t] = 0]
  /\ UNCHANGED <<alarmVars, orig_alarm, orig_sigact, appVars>>

RestoreHandler(t) ==
  LET p == ProcessOf[t] IN
  /\ pc[t] = "unlocked"
  /\ Goto(t, "handler_back")
  /\ sigact' = [sigact EXCEPT ![p] = orig_sigact[t]]
  /\ UNCHANGED <<lock, alarm, handleVars, appVars>>

\* Mutant: the alarm of the library stays armed.
RestoreNoAlarm(t) ==
  /\ pc[t] = "handler_back"
  /\ Goto(t, "alarm_back")
  /\ UNCHANGED <<lock, alarmVars, handleVars, appVars>>

RestoreAlarm(t) ==
  LET p == ProcessOf[t] IN
  /\ pc[t] = "handler_back"
  /\ Goto(t, "alarm_back")
  /\ alarm' = [alarm EXCEPT ![p] = AlarmSet(orig_alarm[t])]
  /\ UNCHANGED <<lock, sigact, handleVars, appVars>>

\* close(lockfile) and free(handle).
CloseLockFile(t) ==
  /\ pc[t] = "alarm_back"
  /\ Abandon(t)
  /\ orig_alarm' = [orig_alarm EXCEPT ![t] = 0]
  /\ orig_sigact' = [orig_sigact EXCEPT ![t] = "dfl"]
  /\ UNCHANGED <<alarmVars, appVars>>

-----------------------------------------------------------------------------
(* The kernel                                                              *)

\* A process ends: its descriptors, and so its flocks, go; a new process of
\* the same program takes its place.
EndProcess(p) ==
  /\ pc' = [t \in Thread |-> IF ProcessOf[t] = p THEN "app" ELSE pc[t]]
  /\ lock' = IF lock \in ThreadsOf(p) THEN NoThread ELSE lock
  /\ alarm' = [alarm EXCEPT ![p] = NotArmed]
  /\ sigact' = [sigact EXCEPT ![p] = "dfl"]
  /\ orig_alarm' = [t \in Thread |-> IF ProcessOf[t] = p THEN 0 ELSE orig_alarm[t]]
  /\ orig_sigact' = [t \in Thread |-> IF ProcessOf[t] = p THEN "dfl" ELSE orig_sigact[t]]
  /\ elapsed' = [t \in Thread |-> IF ProcessOf[t] = p THEN 0 ELSE elapsed[t]]
  /\ wanted' = [wanted EXCEPT ![p] = FALSE]
  /\ handler' = [handler EXCEPT ![p] = "dfl"]

\* SIGALRM: the default action kills, a handler of the program runs.  An
\* alarm that comes between the library's two is not the program's own.
AlarmFires(p) ==
  /\ alarm[p] = 0
  /\ \/ sigact[p] = "dfl" /\ EndProcess(p)
     \/ /\ sigact[p] = "user"
        /\ alarm' = [alarm EXCEPT ![p] = NotArmed]
        /\ wanted' = [wanted EXCEPT ![p] = Guarded(p) /\ wanted[p]]
        /\ UNCHANGED <<lockVars, sigact, handleVars, handler>>

\* The program exits or crashes at any point.
Dies(p) == EndProcess(p)

\* A second passes.  A due alarm comes first, and the two adjacent calls of
\* sanitize_lock are not KILL_UNRELEASED_LOCK_AFTER seconds apart.
Tick ==
  /\ \A p \in Process : alarm[p] # 0
  /\ \A t \in Thread : pc[t] = "armed" => alarm[ProcessOf[t]] # 1
  /\ alarm' = [p \in Process |-> IF alarm[p] = NotArmed THEN NotArmed
                                 ELSE alarm[p] - 1]
  /\ elapsed' = [t \in Thread |->
                   IF pc[t] \in {"locking", "armed", "open", "closing"}
                      /\ elapsed[t] < MaxElapsed
                   THEN elapsed[t] + 1 ELSE elapsed[t]]
  /\ UNCHANGED <<lockVars, sigact, orig_alarm, orig_sigact, appVars>>

-----------------------------------------------------------------------------
\* What the library does without waiting for its caller.
LibraryStep(t) ==
  \/ Lock(t) \/ OpenDevice(t) \/ BindAddress(t) \/ AllocHandle(t)
  \/ SanitizeAlarm(t) \/ SanitizeHandler(t)
  \/ Unlock(t) \/ RestoreHandler(t) \/ RestoreAlarm(t) \/ CloseLockFile(t)

Next ==
  \/ \E t \in Thread : TryLockFile(t) \/ CloseDevice(t) \/ LibraryStep(t)
  \/ \E p \in Process : AppArmsAlarm(p) \/ AppInstallsHandler(p)
                        \/ AlarmFires(p) \/ Dies(p)
  \/ Tick

\* Threads in the library are scheduled, signals are delivered and time goes
\* on.  No program has to call atsha_close, nor to open anything.
Fairness ==
  /\ \A t \in Thread : WF_vars(LibraryStep(t))
  /\ \A p \in Process : WF_vars(AlarmFires(p))
  /\ WF_vars(Tick)

Spec == Init /\ [][Next]_vars
FairSpec == Spec /\ Fairness

-----------------------------------------------------------------------------
TypeOK ==
  /\ pc \in [Thread -> Steps]
  /\ lock \in Thread \cup {NoThread}
  /\ alarm \in [Process -> Nat \cup {NotArmed}]
  /\ sigact \in [Process -> {"dfl", "user"}]
  /\ orig_alarm \in [Thread -> Nat]
  /\ orig_sigact \in [Thread -> {"dfl", "user"}]
  /\ elapsed \in [Thread -> 0..MaxElapsed]
  /\ wanted \in [Process -> BOOLEAN]
  /\ handler \in [Process -> {"dfl", "user"}]

\* The flock belongs to the thread that is between its flock() and its
\* unlock, on every path: early returns of atsha_open_ni2c_dev, atsha_close
\* and the death of the process all give it back, and no step of a program
\* that never got it takes it away from its owner.
LockHeldWhereExpected ==
  \A t \in Thread : lock = t <=> pc[t] \in LockSteps

\* Two handles never have the I2C device open at once, whatever the programs,
\* the signals and the failing system calls do.
DeviceExclusive ==
  \A t, u \in Thread :
    pc[t] \in DeviceSteps /\ pc[u] \in DeviceSteps => t = u

\* From the moment atsha_open_ni2c_dev returns a handle until the lock is
\* given back, the library's own alarm is pending with the default action: a
\* program that hangs with the handle is killed and the lock with it.
GuardedHold ==
  \A t \in Thread : pc[t] \in {"open", "closing"} =>
    LET p == ProcessOf[t] IN
    /\ sigact[p] = "dfl"
    /\ alarm[p] # NotArmed
    /\ elapsed[t] + alarm[p] = KILL_UNRELEASED_LOCK_AFTER

\* A handle remembers what the program itself had set, so that atsha_close can
\* put it back: orig_alarm is an alarm of the program, if it has one pending,
\* and orig_sigact the disposition the program asked for.
OriginalStored ==
  \A t \in Thread :
    LET p == ProcessOf[t] IN
    /\ pc[t] \in GuardSteps => (orig_alarm[t] # 0 <=> wanted[p])
    /\ pc[t] \in GuardSteps \ {"armed"} => orig_sigact[t] = handler[p]

\* Outside a handle SIGALRM is as the program left it: its own alarm is still
\* pending if it has not come, and no alarm of the library's is left to kill
\* the program after atsha_close.
SignalsRestored ==
  \A p \in Process :
    (\A t \in ThreadsOf(p) : pc[t] = "app") =>
      /\ alarm[p] # NotArmed <=> wanted[p]
      /\ sigact[p] = handler[p]

\* A program waits for the lock only for a bounded time: atsha_lock returns,
\* with the lock or without it, even when the owner hangs.
OpenReturns ==
  \A t \in Thread : pc[t] = "locking" ~> pc[t] # "locking"

\* The device changes hands as DeviceOwnership says: one user at a time, and
\* every user leaves it, if only by being killed.
Ownership == INSTANCE DeviceOwnership
               WITH users <- {t \in Thread : pc[t] \in DeviceSteps}
OwnershipSpec == Ownership!Spec
=============================================================================
