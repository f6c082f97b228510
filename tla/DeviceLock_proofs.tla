------------------------- MODULE DeviceLock_proofs -------------------------
(***************************************************************************)
(* Theorems about DeviceLock, for every set of processes and threads and   *)
(* every value of the time-outs.                                           *)
(***************************************************************************)
EXTENDS DeviceLock, TLAPS

LEMMA StepSets ==
  /\ DeviceSteps \subseteq LockSteps
  /\ LockSteps \subseteq Steps
  /\ GuardSteps \subseteq Steps
  /\ {"app", "locking", "alarm_back"} \subseteq Steps
  /\ {"app", "locking", "alarm_back"} \cap LockSteps = {}
BY DEF DeviceSteps, LockSteps, GuardSteps, Steps

LEMMA TypeInit == Init => TypeOK
BY ThreadAssumption, TimeAssumption
   DEF Init, TypeOK, Steps, MaxElapsed, NotArmed

\* Every action keeps every variable in its range.
LEMMA TypeStep == TypeOK /\ [Next]_vars => TypeOK'
<1> SUFFICES ASSUME TypeOK, [Next]_vars PROVE TypeOK'
  OBVIOUS
<1> USE ThreadAssumption, TimeAssumption
<1>0. MaxElapsed \in Nat
  BY DEF MaxElapsed
<1>1. ASSUME NEW t \in Thread, TryLockFile(t) PROVE TypeOK'
  BY <1>0, <1>1 DEF TypeOK, TryLockFile, Goto, Steps, appVars
<1>2. ASSUME NEW t \in Thread, Lock(t) PROVE TypeOK'
  BY <1>0, <1>2 DEF TypeOK, Lock, Abandon, Unflock, Goto, Steps, LockSteps, appVars
<1>3. ASSUME NEW t \in Thread, NEW from \in Steps, NEW to \in Steps,
             OpenStep(t, from, to)
      PROVE TypeOK'
  BY <1>0, <1>3 DEF TypeOK, OpenStep, Abandon, Unflock, Goto, Steps, appVars
<1>4. ASSUME NEW t \in Thread, SanitizeAlarm(t) PROVE TypeOK'
  BY <1>0, <1>4 DEF TypeOK, SanitizeAlarm, AlarmLeft, NotArmed, Goto, Steps, GuardSteps, appVars
<1>5. ASSUME NEW t \in Thread, SanitizeHandler(t) PROVE TypeOK'
  BY <1>5 DEF TypeOK, SanitizeHandler, Goto, Steps, GuardSteps, appVars
<1>6. ASSUME NEW t \in Thread, CloseDevice(t) PROVE TypeOK'
  BY <1>6 DEF TypeOK, CloseDevice, Goto, Steps, GuardSteps, alarmVars, handleVars, appVars
<1>7. ASSUME NEW t \in Thread, Unlock(t) PROVE TypeOK'
  BY <1>0, <1>7 DEF TypeOK, Unlock, Unflock, Goto, Steps, GuardSteps, alarmVars, appVars
<1>8. ASSUME NEW t \in Thread, RestoreHandler(t) PROVE TypeOK'
  BY <1>8 DEF TypeOK, RestoreHandler, Goto, Steps, GuardSteps, handleVars, appVars
<1>9. ASSUME NEW t \in Thread, RestoreAlarm(t) PROVE TypeOK'
  BY <1>9 DEF TypeOK, RestoreAlarm, AlarmSet, NotArmed, Goto, Steps, GuardSteps, handleVars, appVars
<1>10. ASSUME NEW t \in Thread, CloseLockFile(t) PROVE TypeOK'
  BY <1>0, <1>10 DEF TypeOK, CloseLockFile, Abandon, Unflock, Goto, Steps, alarmVars, appVars
<1>11. ASSUME NEW p \in Process, AppArmsAlarm(p) PROVE TypeOK'
  BY <1>11 DEF TypeOK, AppArmsAlarm
<1>12. ASSUME NEW p \in Process, AppInstallsHandler(p) PROVE TypeOK'
  BY <1>12 DEF TypeOK, AppInstallsHandler
<1>13. ASSUME NEW p \in Process, EndProcess(p) PROVE TypeOK'
  BY <1>0, <1>13 DEF TypeOK, EndProcess, Steps, NotArmed
<1>14. ASSUME NEW p \in Process, AlarmFires(p) PROVE TypeOK'
  <2>1. CASE sigact[p] = "dfl"
    BY <1>13, <1>14, <2>1 DEF AlarmFires
  <2>2. CASE sigact[p] = "user"
    <3>1. (Guarded(p) /\ wanted[p]) \in BOOLEAN
      OBVIOUS
    <3> QED
      BY <1>14, <2>2, <3>1 DEF TypeOK, AlarmFires, NotArmed, lockVars, handleVars
  <2> QED BY <2>1, <2>2, <1>14 DEF TypeOK
<1>15. ASSUME Tick PROVE TypeOK'
  BY <1>0, <1>15 DEF TypeOK, Tick, NotArmed, lockVars, appVars
<1>16. ASSUME UNCHANGED vars PROVE TypeOK'
  BY <1>16 DEF TypeOK, vars
<1>17. {"locked", "opened", "bound", "allocated"} \subseteq Steps
  BY DEF Steps, LockSteps, DeviceSteps
<1> QED
  BY <1>1, <1>2, <1>3, <1>4, <1>5, <1>6, <1>7, <1>8, <1>9, <1>10, <1>11,
     <1>12, <1>13, <1>14, <1>15, <1>16, <1>17
  DEF Next, LibraryStep, OpenDevice, BindAddress, AllocHandle, Dies

\* Type correctness of the model of api.c's open and close.
THEOREM TypeCorrect == Spec => []TypeOK
BY TypeInit, TypeStep, PTL DEF Spec

-----------------------------------------------------------------------------
(***************************************************************************)
(* Mutual exclusion.  The inductive invariant is the exact place of the    *)
(* flock: a thread has it if and only if it is at a step of LockSteps.     *)
(* It needs nothing of the alarm, so it holds for threads of one process   *)
(* too, where the alarms of two handles disturb each other.                *)
(***************************************************************************)
LEMMA LockInit == Init => LockHeldWhereExpected
BY ThreadAssumption DEF Init, LockHeldWhereExpected, LockSteps, DeviceSteps

LEMMA LockStep ==
  TypeOK /\ LockHeldWhereExpected /\ [Next]_vars => LockHeldWhereExpected'
<1> SUFFICES ASSUME TypeOK, LockHeldWhereExpected, [Next]_vars
             PROVE LockHeldWhereExpected'
  OBVIOUS
<1> USE ThreadAssumption, StepSets DEF TypeOK, LockHeldWhereExpected
<1>1. ASSUME NEW t \in Thread, TryLockFile(t) PROVE LockHeldWhereExpected'
  BY <1>1 DEF TryLockFile, Goto
<1>2. ASSUME NEW t \in Thread, Lock(t) PROVE LockHeldWhereExpected'
  BY <1>2 DEF Lock, Abandon, Unflock, Goto, LockSteps
<1>3. ASSUME NEW t \in Thread, NEW from \in LockSteps, NEW to \in LockSteps,
             OpenStep(t, from, to)
      PROVE LockHeldWhereExpected'
  BY <1>3 DEF OpenStep, Abandon, Unflock, Goto
<1>4. ASSUME NEW t \in Thread, SanitizeAlarm(t) PROVE LockHeldWhereExpected'
  BY <1>4 DEF SanitizeAlarm, Goto, LockSteps, DeviceSteps
<1>5. ASSUME NEW t \in Thread, SanitizeHandler(t) PROVE LockHeldWhereExpected'
  BY <1>5 DEF SanitizeHandler, Goto, LockSteps, DeviceSteps
<1>6. ASSUME NEW t \in Thread, CloseDevice(t) PROVE LockHeldWhereExpected'
  BY <1>6 DEF CloseDevice, Goto, LockSteps, DeviceSteps
<1>7. ASSUME NEW t \in Thread, Unlock(t) PROVE LockHeldWhereExpected'
  BY <1>7 DEF Unlock, Unflock, Goto, LockSteps, DeviceSteps
<1>8. ASSUME NEW t \in Thread, RestoreHandler(t) PROVE LockHeldWhereExpected'
  BY <1>8 DEF RestoreHandler, Goto, LockSteps, DeviceSteps
<1>9. ASSUME NEW t \in Thread, RestoreAlarm(t) PROVE LockHeldWhereExpected'
  BY <1>9 DEF RestoreAlarm, Goto, LockSteps, DeviceSteps
<1>10. ASSUME NEW t \in Thread, CloseLockFile(t) PROVE LockHeldWhereExpected'
  BY <1>10 DEF CloseLockFile, Abandon, Unflock, Goto, LockSteps, DeviceSteps
<1>11. ASSUME NEW p \in Process, AppArmsAlarm(p) \/ AppInstallsHandler(p)
       PROVE LockHeldWhereExpected'
  BY <1>11 DEF AppArmsAlarm, AppInstallsHandler
<1>12. ASSUME NEW p \in Process, EndProcess(p) PROVE LockHeldWhereExpected'
  BY <1>12 DEF EndProcess, ThreadsOf
<1>13. ASSUME NEW p \in Process, AlarmFires(p) PROVE LockHeldWhereExpected'
  BY <1>12, <1>13 DEF AlarmFires, lockVars
<1>14. ASSUME Tick \/ UNCHANGED vars PROVE LockHeldWhereExpected'
  BY <1>14 DEF Tick, lockVars, vars
<1>15. {"locked", "opened", "bound", "allocated"} \subseteq LockSteps
  BY DEF LockSteps, DeviceSteps
<1> QED
  BY <1>1, <1>2, <1>3, <1>4, <1>5, <1>6, <1>7, <1>8, <1>9, <1>10, <1>11,
     <1>12, <1>13, <1>14, <1>15
  DEF Next, LibraryStep, OpenDevice, BindAddress, AllocHandle, Dies

\* The flock is held exactly between atsha_lock and atsha_unlock, on every
\* path through atsha_open_ni2c_dev and atsha_close and through every death.
THEOREM LockPlaced == Spec => []LockHeldWhereExpected
BY TypeInit, TypeStep, LockInit, LockStep, PTL DEF Spec

LEMMA LockExcludes == LockHeldWhereExpected => DeviceExclusive
BY StepSets DEF LockHeldWhereExpected, DeviceExclusive

\* Two handles never have the device open at once, for any number of
\* programs and threads and any time-outs.
THEOREM MutualExclusion == Spec => []DeviceExclusive
BY LockPlaced, LockExcludes, PTL

-----------------------------------------------------------------------------
(***************************************************************************)
(* The refinement of DeviceOwnership.  The device can only be entered from *)
(* the step "locked", by the owner of the flock; hence it is free then.    *)
(***************************************************************************)
LEMMA DeviceEntry ==
  TypeOK /\ [Next]_vars =>
    \A t \in Thread : pc'[t] \in DeviceSteps => pc[t] \in LockSteps
<1> SUFFICES ASSUME TypeOK, [Next]_vars, NEW t \in Thread,
                    pc'[t] \in DeviceSteps
             PROVE pc[t] \in LockSteps
  OBVIOUS
<1>1. ASSUME pc'[t] = pc[t] PROVE pc[t] \in LockSteps
  BY <1>1, StepSets
<1>2. ASSUME NEW u \in Thread,
             TryLockFile(u) \/ Lock(u) \/ CloseDevice(u) \/ Unlock(u)
             \/ RestoreHandler(u) \/ RestoreAlarm(u) \/ CloseLockFile(u)
      PROVE pc[t] \in LockSteps
  BY <1>1, <1>2 DEF TryLockFile, Lock, CloseDevice, Unlock, RestoreHandler,
     RestoreAlarm, CloseLockFile, Abandon, Goto, TypeOK, DeviceSteps
<1>3. ASSUME NEW u \in Thread, NEW from \in LockSteps, NEW to \in Steps,
             OpenStep(u, from, to)
      PROVE pc[t] \in LockSteps
  BY <1>1, <1>3 DEF OpenStep, Abandon, Goto, TypeOK, DeviceSteps
<1>4. ASSUME NEW u \in Thread, SanitizeAlarm(u) \/ SanitizeHandler(u)
      PROVE pc[t] \in LockSteps
  BY <1>1, <1>4 DEF SanitizeAlarm, SanitizeHandler, Goto, TypeOK, LockSteps, DeviceSteps
<1>5. ASSUME NEW p \in Process, EndProcess(p) PROVE pc[t] \in LockSteps
  BY <1>1, <1>5 DEF EndProcess, DeviceSteps
<1>6. ASSUME NEW p \in Process, AlarmFires(p) PROVE pc[t] \in LockSteps
  BY <1>1, <1>5, <1>6 DEF AlarmFires, lockVars
<1>7. ASSUME \/ Tick \/ UNCHANGED vars
             \/ \E p \in Process : AppArmsAlarm(p) \/ AppInstallsHandler(p)
      PROVE pc[t] \in LockSteps
  BY <1>1, <1>7 DEF Tick, vars, lockVars, AppArmsAlarm, AppInstallsHandler
<1>8. {"locked", "opened", "bound"} \subseteq LockSteps
      /\ {"opened", "bound", "allocated"} \subseteq Steps
  BY DEF LockSteps, DeviceSteps, Steps
<1> QED
  BY <1>2, <1>3, <1>4, <1>5, <1>6, <1>7, <1>8
  DEF Next, LibraryStep, OpenDevice, BindAddress, AllocHandle, Dies

\* Opening and closing handles hands the device from one user to the next as
\* DeviceOwnership says (its fairness is left to the model checker).
THEOREM OwnershipSafe == Spec => Ownership!SafeSpec
<1> DEFINE U == {t \in Thread : pc[t] \in DeviceSteps}
<1>1. Init => Ownership!Init
  BY DEF Init, Ownership!Init, DeviceSteps
<1>2. TypeOK /\ LockHeldWhereExpected /\ LockHeldWhereExpected' /\ [Next]_vars
      => [Ownership!Next]_U
  <2> SUFFICES ASSUME TypeOK, LockHeldWhereExpected, LockHeldWhereExpected',
                      [Next]_vars
               PROVE Ownership!Next \/ U' = U
    OBVIOUS
  <2>1. CASE U' = {}
    BY <2>1 DEF Ownership!Next, Ownership!Release
  <2>2. CASE U' # {}
    <3>1. PICK u \in Thread : u \in U'
      BY <2>2
    <3>2. lock = u
      BY <3>1, DeviceEntry DEF LockHeldWhereExpected
    <3>3. U \subseteq {u}
      BY <3>2, StepSets DEF LockHeldWhereExpected
    <3>4. U' = {u}
      BY <3>1, StepSets DEF LockHeldWhereExpected
    <3>5. CASE U = {}
      BY <3>4, <3>5 DEF Ownership!Next, Ownership!Acquire
    <3>6. CASE U # {}
      BY <3>3, <3>4, <3>6
    <3> QED BY <3>5, <3>6
  <2> QED BY <2>1, <2>2
<1>3. QED
  BY <1>1, <1>2, TypeInit, TypeStep, LockInit, LockStep, TypeCorrect, LockPlaced, PTL
  DEF Spec, Ownership!SafeSpec

-----------------------------------------------------------------------------
(***************************************************************************)
(* The alarm.  When every process has one thread that opens handles, the   *)
(* alarm of a process is the library's from the first step of              *)
(* sanitize_lock to the last of restore_lock, and the program's own at any *)
(* other time.  SignalInv says so step by step; without the assumption the *)
(* alarm of one handle is cancelled by the close of another.               *)
(***************************************************************************)
OneThreadPerProcess ==
  \A t, u \in Thread : ProcessOf[t] = ProcessOf[u] => t = u

SignalInv ==
  /\ GuardedHold
  /\ OriginalStored
  /\ \A t \in Thread : LET p == ProcessOf[t] IN
       /\ pc[t] = "armed" =>
            /\ alarm[p] \in Nat \ {0}
            /\ elapsed[t] + alarm[p] = KILL_UNRELEASED_LOCK_AFTER
       /\ pc[t] \in {"armed", "handler_back"} => sigact[p] = handler[p]
  /\ \A p \in Process : ~Guarded(p) =>
       /\ alarm[p] # NotArmed <=> wanted[p]
       /\ sigact[p] = handler[p]

LEMMA SignalInit == Init => SignalInv
BY ThreadAssumption
   DEF Init, SignalInv, GuardedHold, OriginalStored, Guarded, ThreadsOf,
       GuardSteps, NotArmed

\* A step of thread t that leaves the signal state of its process alone, and
\* does not enter or leave the guarded steps, keeps the invariant.
LEMMA SignalQuiet ==
  ASSUME TypeOK, SignalInv, NEW t \in Thread, NEW s \in Steps \ GuardSteps,
         pc[t] \notin GuardSteps, Goto(t, s),
         \A u \in Thread \ {t} : /\ elapsed'[u] = elapsed[u]
                                 /\ orig_alarm'[u] = orig_alarm[u]
                                 /\ orig_sigact'[u] = orig_sigact[u],
         UNCHANGED <<alarm, sigact, appVars>>
  PROVE  SignalInv'
<1> USE ThreadAssumption DEF TypeOK, SignalInv, GuardSteps, ThreadsOf, Goto, appVars
<1>1. \A p \in Process : Guarded(p)' <=> Guarded(p)
  BY DEF Guarded
<1>2. \A u \in Thread : pc'[u] \in GuardSteps => u # t /\ pc'[u] = pc[u]
  OBVIOUS
<1>3. GuardedHold'
  BY <1>2 DEF GuardedHold
<1>4. OriginalStored'
  BY <1>2 DEF OriginalStored
<1> QED BY <1>1, <1>2, <1>3, <1>4

\* SignalInv is inductive when no two threads share a process.
LEMMA SignalStep ==
  ASSUME OneThreadPerProcess, TypeOK, SignalInv, [Next]_vars
  PROVE  SignalInv'
<1> USE ThreadAssumption, TimeAssumption
<1>0. {"locked", "opened", "bound", "allocated", "app", "locking"}
        \subseteq Steps \ GuardSteps
  BY DEF Steps, LockSteps, DeviceSteps, GuardSteps
<1>1. ASSUME NEW t \in Thread, TryLockFile(t) PROVE SignalInv'
  BY <1>0, <1>1, SignalQuiet DEF TryLockFile, GuardSteps, TypeOK
<1>2. ASSUME NEW t \in Thread, Lock(t) PROVE SignalInv'
  BY <1>0, <1>2, SignalQuiet DEF Lock, Abandon, Goto, GuardSteps, TypeOK
<1>3. ASSUME NEW t \in Thread, NEW from \in Steps \ GuardSteps,
             NEW to \in Steps \ GuardSteps, OpenStep(t, from, to)
      PROVE SignalInv'
  BY <1>0, <1>3, SignalQuiet DEF OpenStep, Abandon, Goto, TypeOK
<1>4. ASSUME NEW t \in Thread, SanitizeAlarm(t) PROVE SignalInv'
  <2> DEFINE p == ProcessOf[t]
  <2>1. ~Guarded(p) /\ Guarded(p)'
    BY <1>4 DEF SanitizeAlarm, Guarded, ThreadsOf, GuardSteps, OneThreadPerProcess, Goto, TypeOK
  <2>2. \A q \in Process \ {p} : Guarded(q)' <=> Guarded(q)
    BY <1>4 DEF SanitizeAlarm, Guarded, ThreadsOf, Goto, TypeOK
  <2>3. GuardedHold' /\ OriginalStored'
    BY <1>4, <2>1 DEF SignalInv, GuardedHold, OriginalStored, SanitizeAlarm,
       AlarmLeft, Goto, TypeOK, OneThreadPerProcess, GuardSteps, NotArmed, appVars
  <2> QED
    BY <1>4, <2>1, <2>2, <2>3 DEF SignalInv, SanitizeAlarm, Goto, TypeOK,
       OneThreadPerProcess, NotArmed, appVars
<1>5. ASSUME NEW t \in Thread, SanitizeHandler(t) PROVE SignalInv'
  <2>1. \A q \in Process : Guarded(q)' <=> Guarded(q)
    BY <1>5 DEF SanitizeHandler, Guarded, ThreadsOf, GuardSteps, Goto, TypeOK
  <2>2. GuardedHold' /\ OriginalStored'
    BY <1>5 DEF SignalInv, GuardedHold, OriginalStored, SanitizeHandler,
       Goto, TypeOK, OneThreadPerProcess, GuardSteps, NotArmed, appVars
  <2>3. Guarded(ProcessOf[t])
    BY <1>5 DEF SanitizeHandler, Guarded, ThreadsOf, GuardSteps
  <2> QED
    BY <1>5, <2>1, <2>2, <2>3 DEF SignalInv, SanitizeHandler, Goto, TypeOK,
       OneThreadPerProcess, appVars
<1>6. ASSUME NEW t \in Thread, CloseDevice(t) PROVE SignalInv'
  <2>1. \A q \in Process : Guarded(q)' <=> Guarded(q)
    BY <1>6 DEF CloseDevice, Guarded, ThreadsOf, GuardSteps, Goto, TypeOK
  <2> QED
    BY <1>6, <2>1 DEF SignalInv, GuardedHold, OriginalStored, CloseDevice,
       Goto, TypeOK, GuardSteps, alarmVars, handleVars, appVars
<1>7. ASSUME NEW t \in Thread, Unlock(t) PROVE SignalInv'
  <2>1. \A q \in Process : Guarded(q)' <=> Guarded(q)
    BY <1>7 DEF Unlock, Guarded, ThreadsOf, GuardSteps, Goto, TypeOK
  <2> QED
    BY <1>7, <2>1 DEF SignalInv, GuardedHold, OriginalStored, Unlock,
       Goto, TypeOK, GuardSteps, alarmVars, appVars
<1>8. ASSUME NEW t \in Thread, RestoreHandler(t) PROVE SignalInv'
  <2>1. \A q \in Process : Guarded(q)' <=> Guarded(q)
    BY <1>8 DEF RestoreHandler, Guarded, ThreadsOf, GuardSteps, Goto, TypeOK
  <2>2. Guarded(ProcessOf[t])
    BY <1>8 DEF RestoreHandler, Guarded, ThreadsOf, GuardSteps
  <2> QED
    BY <1>8, <2>1, <2>2 DEF SignalInv, GuardedHold, OriginalStored, RestoreHandler,
       Goto, TypeOK, OneThreadPerProcess, GuardSteps, handleVars, appVars
<1>9. ASSUME NEW t \in Thread, RestoreAlarm(t) PROVE SignalInv'
  <2> DEFINE p == ProcessOf[t]
  <2>1. \A q \in Process \ {p} : Guarded(q)' <=> Guarded(q)
    BY <1>9 DEF RestoreAlarm, Guarded, ThreadsOf, Goto, TypeOK
  <2>2. orig_alarm[t] # 0 <=> wanted[p]
    BY <1>9 DEF RestoreAlarm, SignalInv, OriginalStored, GuardSteps
  <2>3. GuardedHold' /\ OriginalStored'
    BY <1>9 DEF SignalInv, GuardedHold, OriginalStored, RestoreAlarm,
       Goto, TypeOK, OneThreadPerProcess, GuardSteps, handleVars, appVars
  <2> QED
    BY <1>9, <2>1, <2>2, <2>3 DEF SignalInv, RestoreAlarm, AlarmSet, NotArmed,
       Goto, TypeOK, OneThreadPerProcess, handleVars, appVars
<1>10. ASSUME NEW t \in Thread, CloseLockFile(t) PROVE SignalInv'
  BY <1>0, <1>10, SignalQuiet
  DEF CloseLockFile, Abandon, alarmVars, GuardSteps, TypeOK
<1>11. ASSUME NEW p \in Process, AppArmsAlarm(p) \/ AppInstallsHandler(p)
       PROVE SignalInv'
  <2>1. \A q \in Process : Guarded(q)' <=> Guarded(q)
    BY <1>11 DEF AppArmsAlarm, AppInstallsHandler, Guarded
  <2>2. GuardedHold' /\ OriginalStored'
    BY <1>11 DEF SignalInv, GuardedHold, OriginalStored, AppArmsAlarm,
       AppInstallsHandler, ThreadsOf, GuardSteps, TypeOK
  <2> QED
    BY <1>11, <2>1, <2>2 DEF SignalInv, AppArmsAlarm, AppInstallsHandler,
       ThreadsOf, TypeOK, NotArmed
<1>12. ASSUME NEW p \in Process, EndProcess(p) PROVE SignalInv'
  <2>1. \A q \in Process \ {p} : Guarded(q)' <=> Guarded(q)
    BY <1>12 DEF EndProcess, Guarded, ThreadsOf, TypeOK
  <2>2. GuardedHold' /\ OriginalStored'
    BY <1>12 DEF SignalInv, GuardedHold, OriginalStored, EndProcess, ThreadsOf,
       GuardSteps, TypeOK
  <2> QED
    BY <1>12, <2>1, <2>2 DEF SignalInv, EndProcess, ThreadsOf, TypeOK
<1>13. ASSUME NEW p \in Process, AlarmFires(p), sigact[p] = "user"
       PROVE SignalInv'
  <2>1. \A q \in Process : Guarded(q)' <=> Guarded(q)
    BY <1>13 DEF AlarmFires, Guarded, lockVars
  <2>2. \A t \in ThreadsOf(p) : pc[t] \notin {"armed", "open", "closing"}
    BY <1>13 DEF AlarmFires, SignalInv, GuardedHold, ThreadsOf
  <2>3. GuardedHold'
    BY <1>13, <2>2 DEF SignalInv, GuardedHold, AlarmFires, lockVars, handleVars,
       ThreadsOf, TypeOK
  <2>4. \A t \in Thread : pc[t] \in GuardSteps => wanted'[ProcessOf[t]] = wanted[ProcessOf[t]]
    BY <1>13 DEF AlarmFires, Guarded, ThreadsOf, TypeOK
  <2>5. OriginalStored'
    BY <1>13, <2>4 DEF SignalInv, OriginalStored, AlarmFires, lockVars, handleVars, TypeOK
  <2>6. sigact[p] # "dfl"
    BY <1>13
  <2>7. /\ alarm' = [alarm EXCEPT ![p] = NotArmed]
        /\ wanted' = [wanted EXCEPT ![p] = Guarded(p) /\ wanted[p]]
        /\ UNCHANGED <<pc, lock, sigact, orig_alarm, orig_sigact, elapsed, handler>>
    BY <1>13, <2>6 DEF AlarmFires, lockVars, handleVars
  <2>8. \A t \in Thread : pc'[t] = "armed" => ProcessOf[t] # p
    BY <2>2, <2>7 DEF ThreadsOf
  <2>9. \A q \in Process : ~Guarded(q)' =>
          /\ alarm'[q] # NotArmed <=> wanted'[q]
          /\ sigact'[q] = handler'[q]
    <3> TAKE q \in Process
    <3>1. CASE q = p
      BY <2>1, <2>7, <3>1 DEF SignalInv, TypeOK
    <3>2. CASE q # p
      BY <2>1, <2>7, <3>2 DEF SignalInv, TypeOK
    <3> QED BY <3>1, <3>2
  <2> QED
    BY <2>3, <2>5, <2>7, <2>8, <2>9 DEF SignalInv, TypeOK
<1>14. ASSUME Tick PROVE SignalInv'
  <2>1. \A q \in Process : Guarded(q)' <=> Guarded(q)
    BY <1>14 DEF Tick, Guarded, lockVars
  <2>2. \A t \in Thread : pc[t] \in {"armed", "open", "closing"} =>
          /\ alarm[ProcessOf[t]] \in Nat \ {0}
          /\ elapsed[t] + alarm[ProcessOf[t]] = KILL_UNRELEASED_LOCK_AFTER
    BY <1>14 DEF Tick, SignalInv, GuardedHold, TypeOK, NotArmed
  <2>3. \A t \in Thread : pc[t] \in {"armed", "open", "closing"} =>
          /\ elapsed'[t] = elapsed[t] + 1
          /\ alarm'[ProcessOf[t]] = alarm[ProcessOf[t]] - 1
    BY <1>14, <2>2 DEF Tick, TypeOK, MaxElapsed, NotArmed
  <2>4. UNCHANGED <<pc, lock, sigact, orig_alarm, orig_sigact, wanted, handler>>
    BY <1>14 DEF Tick, lockVars, appVars
  <2>5. OriginalStored'
    BY <2>4 DEF SignalInv, OriginalStored
  <2>6. GuardedHold'
    <3> SUFFICES ASSUME NEW t \in Thread, pc[t] \in {"open", "closing"}
                 PROVE  /\ sigact[ProcessOf[t]] = "dfl"
                        /\ alarm'[ProcessOf[t]] # NotArmed
                        /\ elapsed'[t] + alarm'[ProcessOf[t]] = KILL_UNRELEASED_LOCK_AFTER
      BY <2>4 DEF GuardedHold
    <3>1. elapsed[t] \in Nat
      BY DEF TypeOK
    <3> QED BY <2>2, <2>3, <3>1 DEF SignalInv, GuardedHold, NotArmed
  <2>7. \A t \in Thread : pc[t] = "armed" =>
          /\ alarm'[ProcessOf[t]] \in Nat \ {0}
          /\ elapsed'[t] + alarm'[ProcessOf[t]] = KILL_UNRELEASED_LOCK_AFTER
    <3> TAKE t \in Thread
    <3> HAVE pc[t] = "armed"
    <3>1. alarm[ProcessOf[t]] # 1 /\ elapsed[t] \in Nat
      BY <1>14 DEF Tick, TypeOK
    <3> QED BY <2>2, <2>3, <3>1
  <2>8. \A p \in Process : alarm'[p] # NotArmed <=> alarm[p] # NotArmed
    BY <1>14 DEF Tick, TypeOK, NotArmed
  <2> QED
    BY <2>1, <2>4, <2>5, <2>6, <2>7, <2>8 DEF SignalInv
<1>15. ASSUME UNCHANGED vars PROVE SignalInv'
  BY <1>15 DEF vars, SignalInv, GuardedHold, OriginalStored, Guarded
<1> QED
  BY <1>0, <1>1, <1>2, <1>3, <1>4, <1>5, <1>6, <1>7, <1>8, <1>9, <1>10, <1>11,
     <1>12, <1>13, <1>14, <1>15
  DEF Next, LibraryStep, OpenDevice, BindAddress, AllocHandle, Dies, AlarmFires

\* With one thread per process, a handle that a program has is guarded by the
\* library's alarm: the lock outlives atsha_open by KILL_UNRELEASED_LOCK_AFTER
\* seconds at most.
THEOREM HoldIsGuarded == OneThreadPerProcess => (Spec => []GuardedHold)
<1> SUFFICES ASSUME OneThreadPerProcess PROVE Spec => []GuardedHold
  OBVIOUS
<1>1. TypeOK /\ SignalInv /\ [Next]_vars => SignalInv'
  BY SignalStep
<1>2. SignalInv => GuardedHold
  BY DEF SignalInv
<1> QED
  BY <1>1, <1>2, SignalInit, TypeCorrect, PTL DEF Spec

\* With one thread per process, a program's own alarm and handler of SIGALRM
\* survive a handle: atsha_close leaves an alarm pending if and only if the
\* program's own has not come yet.
THEOREM SignalsComeBack == OneThreadPerProcess => (Spec => []SignalsRestored)
<1> SUFFICES ASSUME OneThreadPerProcess PROVE Spec => []SignalsRestored
  OBVIOUS
<1>1. TypeOK /\ SignalInv /\ [Next]_vars => SignalInv'
  BY SignalStep
<1>2. SignalInv => SignalsRestored
  BY DEF SignalInv, SignalsRestored, Guarded, GuardSteps
<1> QED
  BY <1>1, <1>2, SignalInit, TypeCorrect, PTL DEF Spec
=============================================================================
