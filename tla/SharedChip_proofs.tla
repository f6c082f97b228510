-------------------------- MODULE SharedChip_proofs --------------------------
(***************************************************************************)
(* Two programs do not disturb each other's handles, for every set of      *)
(* challenges, slots and addresses, any number of tries and any watchdog.  *)
(***************************************************************************)
EXTENDS SharedChip, Calls_proofs

\* One user at a time, and a call in progress is a call of that user.
Exclusive ==
  /\ users \in {{}, {"A"}, {"B"}}
  /\ pcA # "app" => "A" \in users
  /\ pcB # "app" => "B" \in users

\* The library works on a call only while one is in progress.
LEMMA StepInCallA == A!HostStep => pcA # "app"
BY DEF A!HostStep, A!SendWake, A!ReceiveWake, A!NoPacket, A!SendToAwake,
       A!SendToAsleep, A!Receive, A!Idle
LEMMA StepInCallB == B!HostStep => pcB # "app"
BY DEF B!HostStep, B!SendWake, B!ReceiveWake, B!NoPacket, B!SendToAwake,
       B!SendToAsleep, B!Receive, B!Idle

LEMMA ExclusiveInit == Init => Exclusive
BY DEF Init, Exclusive, Device!Init, A!NewHandle, B!NewHandle

LEMMA ExclusiveStep == Exclusive /\ [Next]_vars => Exclusive'
<1> SUFFICES ASSUME Exclusive, [Next]_vars PROVE Exclusive'
  OBVIOUS
<1>1. ASSUME NEW p \in {"A", "B"}, Open(p) PROVE Exclusive'
  BY <1>1 DEF Exclusive, Open, Device!Acquire, handleA, handleB
<1>2. CASE LeaveA
  BY <1>2 DEF Exclusive, LeaveA, A!Forget, handleB
<1>3. CASE LeaveB
  BY <1>3 DEF Exclusive, LeaveB, B!Forget, handleA
<1>4. CASE CallA
  BY <1>4 DEF Exclusive, CallA, handleB
<1>5. CASE CallB
  BY <1>5 DEF Exclusive, CallB, handleA
<1>6. CASE StepA
  BY <1>6, StepInCallA DEF Exclusive, StepA, handleB
<1>7. CASE StepB
  BY <1>7, StepInCallB DEF Exclusive, StepB, handleA
<1>8. CASE AppWaits
  BY <1>8 DEF Exclusive, AppWaits, handleA, handleB
<1>9. CASE UNCHANGED vars
  BY <1>9 DEF Exclusive, vars, handleA, handleB
<1> QED
  BY <1>1, <1>2, <1>3, <1>4, <1>5, <1>6, <1>7, <1>8, <1>9 DEF Next

LEMMA AloneA ==
  ASSUME Exclusive, [Next]_vars, "A" \in users \cap users'
  PROVE  [A!Next]_(A!vars)
<1>0. "B" \notin users
  BY DEF Exclusive
<1>1. ASSUME NEW p \in {"A", "B"}, Open(p) PROVE FALSE
  BY <1>1 DEF Open, Device!Acquire
<1>2. CASE LeaveA
  BY <1>2 DEF LeaveA
<1>3. CASE LeaveB \/ CallB
  BY <1>0, <1>3 DEF LeaveB, CallB
<1>4. CASE CallA
  BY <1>4 DEF CallA, A!Next
<1>5. CASE StepA
  BY <1>5 DEF StepA, A!Next
<1>6. CASE StepB
  BY <1>0, <1>6, StepInCallB DEF StepB, Exclusive
<1>7. CASE AppWaits
  BY <1>7 DEF AppWaits, A!AppWaits, A!hostVars, A!Next, handleA
<1>8. CASE UNCHANGED vars
  BY <1>8 DEF vars, theChip, handleA, A!vars, A!hostVars
<1> QED
  BY <1>1, <1>2, <1>3, <1>4, <1>5, <1>6, <1>7, <1>8 DEF Next

LEMMA AloneB ==
  ASSUME Exclusive, [Next]_vars, "B" \in users \cap users'
  PROVE  [B!Next]_(B!vars)
<1>0. "A" \notin users
  BY DEF Exclusive
<1>1. ASSUME NEW p \in {"A", "B"}, Open(p) PROVE FALSE
  BY <1>1 DEF Open, Device!Acquire
<1>2. CASE LeaveB
  BY <1>2 DEF LeaveB
<1>3. CASE LeaveA \/ CallA
  BY <1>0, <1>3 DEF LeaveA, CallA
<1>4. CASE CallB
  BY <1>4 DEF CallB, B!Next
<1>5. CASE StepB
  BY <1>5 DEF StepB, B!Next
<1>6. CASE StepA
  BY <1>0, <1>6, StepInCallA DEF StepA, Exclusive
<1>7. CASE AppWaits
  BY <1>7 DEF AppWaits, A!Wait, B!Wait, A!AfterWait, B!AfterWait, A!Asleep,
     B!Asleep, A!Nothing, B!Nothing, B!AppWaits, B!hostVars, B!Next, handleB
<1>8. CASE UNCHANGED vars
  BY <1>8 DEF vars, theChip, handleB, B!vars, B!hostVars
<1> QED
  BY <1>1, <1>2, <1>3, <1>4, <1>5, <1>6, <1>7, <1>8 DEF Next

\* While a program has its handle open every step of the whole system is a
\* step of that handle as Communication describes it, or does not concern it.
THEOREM HandlesAreAlone == Spec => HandleAlone
<1>1. Exclusive /\ [Next]_vars =>
        ["A" \in users \cap users' => [A!Next]_(A!vars)]_vars
  BY AloneA
<1>2. Exclusive /\ [Next]_vars =>
        ["B" \in users \cap users' => [B!Next]_(B!vars)]_vars
  BY AloneB
<1> QED
  BY <1>1, <1>2, ExclusiveInit, ExclusiveStep, PTL DEF Spec, HandleAlone

-----------------------------------------------------------------------------
(* A handle and the chip's store, as values, so that what a step of a      *)
(* handle does is said and proved about once for both programs.            *)

HandleA ==
  [pc |-> pcA, call |-> callA, step |-> stepA, tries |-> triesA, wake |-> wakeA,
   status |-> statusA, answer |-> answerA, trouble |-> troubleA]
HandleB ==
  [pc |-> pcB, call |-> callB, step |-> stepB, tries |-> triesB, wake |-> wakeB,
   status |-> statusB, answer |-> answerB, trouble |-> troubleB]
Store == [chip |-> chip, mem |-> mem, locked |-> locked]

FirstTry == TRY_SEND_RECV_ON_COMM_ERROR + 1

\* A handle no call has been made with.
Fresh(h) ==
  /\ h.pc = "app" /\ h.call = NoCall /\ h.step = 1 /\ h.tries = 0
  /\ h.wake = FALSE /\ h.status = "none" /\ h.answer = NoAnswer
  /\ h.trouble = "none"

\* The chip carries out no command: it waits, wakes, gives its answer away, or
\* is made to say that it has not understood.
Unmoved(c, d) ==
  \E e \in {c, WakePulse(c), [c EXCEPT !.out = Nothing], [c EXCEPT !.out = Status("comm")]} :
    d = e \/ d \in AfterWait(e)

SameStore(g, g2) == g2.mem = g.mem /\ g2.locked = g.locked
SameRound(h, h2) == h2.step = h.step /\ h2.status = h.status /\ h2.answer = h.answer

\* The rest of a round of wake() or command(), or the next round.
GoesOn(h, h2, g, g2) ==
  /\ h2.pc \in {"wake", "woken", "command", "sent"}
  /\ SameRound(h, h2)
  /\ \/ h2.tries \in {h.tries, FirstTry}
     \/ h2.tries = h.tries - 1 /\ h.pc \in {"wake", "command"}
  /\ h2.pc \in {"wake", "command"} => h2.tries >= 0
  /\ Unmoved(g.chip, g2.chip)
  /\ h2.pc = "sent" => g2.chip.out \in Noise
  /\ SameStore(g, g2)

GivesUp(h, h2, g, g2) ==
  /\ h2.pc = "app" /\ h2.step = 1 /\ h2.tries = 0
  /\ h2.status \in {"comm", "bad", "memory"} /\ h2.answer = NoAnswer
  /\ Unmoved(g.chip, g2.chip)
  /\ SameStore(g, g2)

\* The chip takes a command, and carries it out if it can.
Sends(h, h2, g, g2) ==
  LET cmd == h.call[h.step] IN
  /\ h.pc = "command" /\ h2.pc = "sent"
  /\ SameRound(h, h2) /\ h2.tries = h.tries - 1
  /\ g2.chip \in AfterWait(Answering(g.chip, cmd, g.mem, g.locked))
  /\ IF Accepts(cmd, g.chip.key, g.locked)
     THEN g2.mem = MemAfter(cmd, g.mem) /\ g2.locked = LockedAfter(cmd, g.locked)
     ELSE SameStore(g, g2)

\* The answer is taken: the call's next command, or its end.
Hears(h, h2, g, g2) ==
  /\ h.pc = "sent" /\ g.chip.out \notin Noise
  /\ IF h.step < Len(h.call)
     THEN h2.step = h.step + 1 /\ h2.pc = "command" /\ h2.tries = FirstTry
     ELSE h2.step = h.step /\ h2.pc = "idle" /\ h2.tries = h.tries
  /\ h2.status = h.status /\ h2.answer = g.chip.out
  /\ g2.chip = [g.chip EXCEPT !.out = Nothing]
  /\ SameStore(g, g2)

Finishes(h, h2, g, g2) ==
  /\ h.pc = "idle"
  /\ h2.pc = "app" /\ h2.step = 1 /\ h2.tries = 0
  /\ h2.status = "ok" /\ h2.answer = h.answer
  /\ g2.chip \in {g.chip, IdleWord(g.chip)}
  /\ SameStore(g, g2)

Works(h, h2, g, g2) ==
  /\ h.pc # "app" /\ h2.call = h.call
  /\ h2.wake \in {h.wake, TRUE, FALSE} /\ h2.trouble \in {h.trouble, "bus"}
  /\ \/ GoesOn(h, h2, g, g2) \/ GivesUp(h, h2, g, g2) \/ Sends(h, h2, g, g2)
     \/ Hears(h, h2, g, g2) \/ Finishes(h, h2, g, g2)

\* A request is refused, or the library sets to work on it.
Starts(h, h2, request) ==
  /\ h.pc = "app" /\ h2.call = request /\ h2.wake = h.wake
  /\ h2.trouble \in {"none", "start"}
  /\ h2.step = 1 /\ h2.answer = NoAnswer
  /\ \/ h2.pc = "app" /\ h2.status = "invalid" /\ h2.tries = 0
     \/ h2.pc \in {"wake", "command"} /\ h2.status = "none" /\ h2.tries = FirstTry

\* What Communication knows of the chip is what Chip says of it.
LEMMA SameChipA ==
  /\ A!Nothing = Nothing /\ A!FirstTry = FirstTry
  /\ \A code : A!Status(code) = Status(code)
  /\ \A c : /\ A!AfterWait(c) = AfterWait(c)
           /\ A!WakePulse(c) = WakePulse(c) /\ A!IdleWord(c) = IdleWord(c)
  /\ \A c, x, m, l : A!Answering(c, x, m, l) = Answering(c, x, m, l)
  /\ \A x, k, l : A!Accepts(x, k, l) = Accepts(x, k, l)
  /\ \A x, m : A!MemAfter(x, m) = MemAfter(x, m)
  /\ \A x, l : A!LockedAfter(x, l) = LockedAfter(x, l)
<1>1. A!Nothing = Nothing /\ A!FirstTry = FirstTry /\ \A code : A!Status(code) = Status(code)
  BY DEF A!Nothing, Nothing, A!FirstTry, FirstTry, A!Status, Status
<1>2. A!Asleep = Asleep
  BY <1>1 DEF A!Asleep, Asleep
<1>3. \A c : A!AfterWait(c) = AfterWait(c)
  BY <1>2 DEF A!AfterWait, AfterWait
<1>4. \A c : A!WakePulse(c) = WakePulse(c) /\ A!IdleWord(c) = IdleWord(c)
  BY <1>1 DEF A!WakePulse, WakePulse, A!IdleWord, IdleWord
<1>5. \A x, k, l : A!Accepts(x, k, l) = Accepts(x, k, l)
  BY DEF A!Accepts, Accepts, A!Readable, Readable, A!Writable, Writable,
     A!Lockable, Lockable
<1>6. \A x, k, m : A!AnswerTo(x, k, m) = AnswerTo(x, k, m)
  BY <1>1 DEF A!AnswerTo, AnswerTo
<1>7. \A c, x, m, l : A!Answering(c, x, m, l) = Answering(c, x, m, l)
  BY <1>1, <1>5, <1>6 DEF A!Answering, Answering
<1>8. /\ \A x, m : A!MemAfter(x, m) = MemAfter(x, m)
      /\ \A x, l : A!LockedAfter(x, l) = LockedAfter(x, l)
  BY DEF A!MemAfter, MemAfter, A!LockedAfter, LockedAfter
<1> QED BY <1>1, <1>3, <1>4, <1>5, <1>7, <1>8

LEMMA StartsA ==
  ASSUME NEW request, A!Call(request)
  PROVE  Starts(HandleA, HandleA', request)
BY SameChipA DEF A!Call, A!Return, Starts, HandleA

LEMMA WorksA ==
  ASSUME IsChip(chip), A!HostStep
  PROVE  Works(HandleA, HandleA', Store, Store')
<1> DEFINE read == [chip EXCEPT !.out = Nothing]
           noise == [chip EXCEPT !.out = Status("comm")]
<1>a. /\ IsChip(read) /\ read.out = Nothing
      /\ IsChip(noise) /\ noise.out = Status("comm")
      /\ IsChip(WakePulse(chip))
      /\ chip.mode # "awake" => WakePulse(chip).out = Status("wake")
  BY DEF IsChip, WakePulse
<1> HIDE DEF read, noise
<1>b. ASSUME NEW c, A!Wait(c) PROVE chip' \in AfterWait(c)
  BY <1>b, SameChipA DEF A!Wait
<1>r. /\ read = [chip EXCEPT !.out = A!Nothing]
      /\ noise = [chip EXCEPT !.out = A!Status("comm")]
      /\ WakePulse(chip) = A!WakePulse(chip)
  BY SameChipA DEF read, noise
<1>u. ASSUME NEW c \in {chip, WakePulse(chip), read, noise}, chip' = c \/ A!Wait(c)
      PROVE  Unmoved(chip, chip')
  BY <1>u, <1>b DEF Unmoved, read, noise
\* The next round of wake() or command(), or its end.
<1>c. ASSUME NEW c \in {chip, read}, NEW n, NEW st \in {"comm", "bad"},
             A!CommandFailed(c, n, st), pcA \in {"command", "sent"},
             n \in {triesA, -1} \/ (n = triesA - 1 /\ pcA = "command"),
             UNCHANGED <<callA, wakeA, mem, locked>>, troubleA' \in {troubleA, "bus"}
      PROVE  Works(HandleA, HandleA', Store, Store')
  <2>1. Unmoved(chip, chip')
    BY <1>c, <1>u DEF A!CommandFailed
  <2>2. CASE n >= 0 /\ pcA' = "command" /\ triesA' = n /\ UNCHANGED <<stepA, statusA, answerA>>
    <3>1. n = triesA \/ (n = triesA - 1 /\ pcA = "command")
      BY <2>2, <1>c
    <3>2. GoesOn(HandleA, HandleA', Store, Store')
      BY <1>c, <2>1, <2>2, <3>1 DEF GoesOn, SameRound, SameStore, HandleA, Store
    <3> QED BY <1>c, <3>2 DEF Works, HandleA
  <2>3. CASE A!Return(st)
    BY <1>c, <2>1, <2>3 DEF Works, GivesUp, SameStore, A!Return, HandleA, Store
  <2> QED BY <1>c, <2>2, <2>3 DEF A!CommandFailed
<1>1. CASE A!SendWake
  <2>1. Unmoved(chip, chip')
    BY <1>1, <1>u, <1>r DEF A!SendWake
  <2> QED BY <1>1, <2>1 DEF A!SendWake, A!BusFails, Works, GoesOn, SameRound, SameStore,
          HandleA, Store
<1>2. CASE A!ReceiveWake
  <2>0. /\ pcA = "woken" /\ UNCHANGED <<callA, mem, locked>>
        /\ troubleA' \in {troubleA, "bus"}
    BY <1>2 DEF A!ReceiveWake, A!BusFails
  <2>1. CASE /\ chip' = read /\ pcA' = "command" /\ triesA' = FirstTry
             /\ wakeA' = TRUE /\ UNCHANGED <<stepA, statusA, answerA>>
    <3>1. Unmoved(chip, chip') /\ FirstTry >= 0
      BY <2>1, <1>u, SharedAssumption DEF FirstTry
    <3> QED BY <2>0, <2>1, <3>1 DEF Works, GoesOn, SameRound, SameStore, HandleA, Store
  <2>2. CASE \E c \in {read, chip} : A!WakeFailed(c)
    <3>1. PICK c \in {read, chip} : A!WakeFailed(c)
      BY <2>2
    <3>2. Unmoved(chip, chip')
      BY <3>1, <1>u DEF A!WakeFailed
    <3>3. CASE triesA >= 0 /\ pcA' = "wake" /\ UNCHANGED <<stepA, triesA, statusA, answerA, wakeA>>
      BY <2>0, <3>2, <3>3 DEF Works, GoesOn, SameRound, SameStore, HandleA, Store
    <3>4. CASE A!Return("comm") /\ wakeA' = TRUE
      BY <2>0, <3>2, <3>4 DEF Works, GivesUp, SameStore, A!Return, HandleA, Store
    <3> QED BY <3>1, <3>3, <3>4 DEF A!WakeFailed
  <2> QED BY <1>2, <1>r, <2>1, <2>2, SameChipA DEF A!ReceiveWake
<1>3. CASE A!NoPacket
  <2>1. Unmoved(chip, chip')
    BY <1>3, <1>u DEF A!NoPacket
  <2> QED BY <1>3, <2>1 DEF A!NoPacket, A!BusFails, Works, GivesUp, SameStore,
          A!Return, HandleA, Store
<1>4. CASE A!SendToAwake
  <2>0. /\ pcA = "command" /\ UNCHANGED <<callA, wakeA>>
        /\ troubleA' \in {troubleA, "bus"}
    BY <1>4 DEF A!SendToAwake, A!BusFails
  <2>1. CASE /\ A!Wait(A!Answering(chip, A!cmd, mem, locked))
             /\ IF A!Accepts(A!cmd, chip.key, locked)
                THEN mem' = A!MemAfter(A!cmd, mem) /\ locked' = A!LockedAfter(A!cmd, locked)
                ELSE UNCHANGED <<mem, locked>>
             /\ pcA' = "sent" /\ triesA' = triesA - 1
             /\ UNCHANGED <<stepA, statusA, answerA>>
    <3>1. chip' \in AfterWait(Answering(chip, callA[stepA], mem, locked))
      BY <2>1, <1>b, SameChipA DEF A!cmd
    <3>2. IF Accepts(callA[stepA], chip.key, locked)
          THEN mem' = MemAfter(callA[stepA], mem) /\ locked' = LockedAfter(callA[stepA], locked)
          ELSE UNCHANGED <<mem, locked>>
      BY <2>1, SameChipA DEF A!cmd
    <3>3. Sends(HandleA, HandleA', Store, Store')
      BY <2>0, <2>1, <3>1, <3>2 DEF Sends, SameRound, SameStore, HandleA, Store
    <3> QED BY <2>0, <3>3 DEF Works, HandleA
  <2>2. CASE /\ A!Wait(noise)
             /\ pcA' = "sent" /\ triesA' = triesA - 1
             /\ UNCHANGED <<stepA, statusA, answerA, mem, locked>>
    <3>1. Unmoved(chip, chip')
      BY <2>2, <1>u
    <3>2. chip'.out \in Noise
      BY <2>2, <1>a, <1>b, WaitFacts DEF Noise
    <3> QED BY <2>0, <2>2, <3>1, <3>2 DEF Works, GoesOn, SameRound, SameStore, HandleA, Store
  <2>3. CASE A!CommandFailed(chip, triesA - 1, "comm") /\ UNCHANGED <<mem, locked>>
    BY <1>c, <2>0, <2>3
  <2> QED BY <1>4, <1>r, <2>1, <2>2, <2>3 DEF A!SendToAwake
<1>5. CASE A!SendToAsleep
  <2>0. /\ pcA = "command" /\ UNCHANGED <<callA, wakeA, mem, locked>>
        /\ troubleA' \in {troubleA, "bus"} /\ chip.mode # "awake"
    BY <1>5 DEF A!SendToAsleep, A!BusFails
  <2>1. CASE A!CommandFailed(chip, triesA - 1, "comm")
    BY <1>c, <2>0, <2>1
  <2>2. CASE /\ A!Wait(WakePulse(chip)) /\ pcA' = "sent" /\ triesA' = triesA - 1
             /\ UNCHANGED <<stepA, statusA, answerA>>
    <3>1. Unmoved(chip, chip')
      BY <2>2, <1>u
    <3>2. chip'.out \in Noise
      BY <2>0, <2>2, <1>a, <1>b, WaitFacts DEF Noise
    <3> QED BY <2>0, <2>2, <3>1, <3>2 DEF Works, GoesOn, SameRound, SameStore, HandleA, Store
  <2> QED BY <1>5, <1>r, <2>1, <2>2 DEF A!SendToAsleep
<1>6. CASE A!Receive
  <2>0. /\ pcA = "sent" /\ UNCHANGED <<callA, wakeA, mem, locked>>
        /\ troubleA' \in {troubleA, "bus"}
    BY <1>6 DEF A!Receive, A!BusFails
  <2>1. CASE \E c \in {read, chip}, n \in {triesA, -1}, st \in {"comm", "bad"} :
               A!CommandFailed(c, n, st)
    <3>1. PICK c \in {read, chip}, n \in {triesA, -1}, st \in {"comm", "bad"} :
            A!CommandFailed(c, n, st)
      BY <2>1
    <3> QED BY <1>c, <2>0, <3>1
  <2>2. CASE chip' = read /\ A!Return("bad")
    <3>1. Unmoved(chip, chip')
      BY <2>2, <1>u
    <3> QED BY <2>0, <2>2, <3>1 DEF Works, GivesUp, SameStore, A!Return, HandleA, Store
  <2>3. CASE /\ chip.out \notin Noise
             /\ chip' = read
             /\ IF stepA < Len(callA)
                THEN stepA' = stepA + 1 /\ pcA' = "command" /\ triesA' = FirstTry
                ELSE pcA' = "idle" /\ UNCHANGED <<stepA, triesA>>
             /\ answerA' = chip.out /\ UNCHANGED statusA
    <3>1. Hears(HandleA, HandleA', Store, Store')
      BY <2>0, <2>3 DEF Hears, SameStore, HandleA, Store, read
    <3> QED BY <2>0, <3>1 DEF Works, HandleA
  <2>4. chip.out # A!Nothing /\ ~A!Refused(chip.out) /\ ~A!Hopeless(chip.out)
        => chip.out \notin Noise
    BY SameChipA DEF A!Refused, A!Hopeless, Noise
  <2> QED BY <1>6, <1>r, <2>1, <2>2, <2>3, <2>4, SameChipA DEF A!Receive
<1>7. CASE A!Idle
  BY <1>7, SameChipA DEF A!Idle, A!BusFails, A!Return, Works, Finishes, SameStore,
     HandleA, Store
<1> QED BY <1>1, <1>2, <1>3, <1>4, <1>5, <1>6, <1>7 DEF A!HostStep

\* The same of the other program.
LEMMA SameChipB ==
  /\ B!Nothing = Nothing /\ B!FirstTry = FirstTry
  /\ \A code : B!Status(code) = Status(code)
  /\ \A c : /\ B!AfterWait(c) = AfterWait(c)
           /\ B!WakePulse(c) = WakePulse(c) /\ B!IdleWord(c) = IdleWord(c)
  /\ \A c, x, m, l : B!Answering(c, x, m, l) = Answering(c, x, m, l)
  /\ \A x, k, l : B!Accepts(x, k, l) = Accepts(x, k, l)
  /\ \A x, m : B!MemAfter(x, m) = MemAfter(x, m)
  /\ \A x, l : B!LockedAfter(x, l) = LockedAfter(x, l)
<1>1. B!Nothing = Nothing /\ B!FirstTry = FirstTry /\ \A code : B!Status(code) = Status(code)
  BY DEF B!Nothing, Nothing, B!FirstTry, FirstTry, B!Status, Status
<1>2. B!Asleep = Asleep
  BY <1>1 DEF B!Asleep, Asleep
<1>3. \A c : B!AfterWait(c) = AfterWait(c)
  BY <1>2 DEF B!AfterWait, AfterWait
<1>4. \A c : B!WakePulse(c) = WakePulse(c) /\ B!IdleWord(c) = IdleWord(c)
  BY <1>1 DEF B!WakePulse, WakePulse, B!IdleWord, IdleWord
<1>5. \A x, k, l : B!Accepts(x, k, l) = Accepts(x, k, l)
  BY DEF B!Accepts, Accepts, B!Readable, Readable, B!Writable, Writable,
     B!Lockable, Lockable
<1>6. \A x, k, m : B!AnswerTo(x, k, m) = AnswerTo(x, k, m)
  BY <1>1 DEF B!AnswerTo, AnswerTo
<1>7. \A c, x, m, l : B!Answering(c, x, m, l) = Answering(c, x, m, l)
  BY <1>1, <1>5, <1>6 DEF B!Answering, Answering
<1>8. /\ \A x, m : B!MemAfter(x, m) = MemAfter(x, m)
      /\ \A x, l : B!LockedAfter(x, l) = LockedAfter(x, l)
  BY DEF B!MemAfter, MemAfter, B!LockedAfter, LockedAfter
<1> QED BY <1>1, <1>3, <1>4, <1>5, <1>7, <1>8

LEMMA StartsB ==
  ASSUME NEW request, B!Call(request)
  PROVE  Starts(HandleB, HandleB', request)
BY SameChipB DEF B!Call, B!Return, Starts, HandleB

LEMMA WorksB ==
  ASSUME IsChip(chip), B!HostStep
  PROVE  Works(HandleB, HandleB', Store, Store')
<1> DEFINE read == [chip EXCEPT !.out = Nothing]
           noise == [chip EXCEPT !.out = Status("comm")]
<1>a. /\ IsChip(read) /\ read.out = Nothing
      /\ IsChip(noise) /\ noise.out = Status("comm")
      /\ IsChip(WakePulse(chip))
      /\ chip.mode # "awake" => WakePulse(chip).out = Status("wake")
  BY DEF IsChip, WakePulse
<1> HIDE DEF read, noise
<1>b. ASSUME NEW c, B!Wait(c) PROVE chip' \in AfterWait(c)
  BY <1>b, SameChipB DEF B!Wait
<1>r. /\ read = [chip EXCEPT !.out = B!Nothing]
      /\ noise = [chip EXCEPT !.out = B!Status("comm")]
      /\ WakePulse(chip) = B!WakePulse(chip)
  BY SameChipB DEF read, noise
<1>u. ASSUME NEW c \in {chip, WakePulse(chip), read, noise}, chip' = c \/ B!Wait(c)
      PROVE  Unmoved(chip, chip')
  BY <1>u, <1>b DEF Unmoved, read, noise
\* The next round of wake() or command(), or its end.
<1>c. ASSUME NEW c \in {chip, read}, NEW n, NEW st \in {"comm", "bad"},
             B!CommandFailed(c, n, st), pcB \in {"command", "sent"},
             n \in {triesB, -1} \/ (n = triesB - 1 /\ pcB = "command"),
             UNCHANGED <<callB, wakeB, mem, locked>>, troubleB' \in {troubleB, "bus"}
      PROVE  Works(HandleB, HandleB', Store, Store')
  <2>1. Unmoved(chip, chip')
    BY <1>c, <1>u DEF B!CommandFailed
  <2>2. CASE n >= 0 /\ pcB' = "command" /\ triesB' = n /\ UNCHANGED <<stepB, statusB, answerB>>
    <3>1. n = triesB \/ (n = triesB - 1 /\ pcB = "command")
      BY <2>2, <1>c
    <3>2. GoesOn(HandleB, HandleB', Store, Store')
      BY <1>c, <2>1, <2>2, <3>1 DEF GoesOn, SameRound, SameStore, HandleB, Store
    <3> QED BY <1>c, <3>2 DEF Works, HandleB
  <2>3. CASE B!Return(st)
    BY <1>c, <2>1, <2>3 DEF Works, GivesUp, SameStore, B!Return, HandleB, Store
  <2> QED BY <1>c, <2>2, <2>3 DEF B!CommandFailed
<1>1. CASE B!SendWake
  <2>1. Unmoved(chip, chip')
    BY <1>1, <1>u, <1>r DEF B!SendWake
  <2> QED BY <1>1, <2>1 DEF B!SendWake, B!BusFails, Works, GoesOn, SameRound, SameStore,
          HandleB, Store
<1>2. CASE B!ReceiveWake
  <2>0. /\ pcB = "woken" /\ UNCHANGED <<callB, mem, locked>>
        /\ troubleB' \in {troubleB, "bus"}
    BY <1>2 DEF B!ReceiveWake, B!BusFails
  <2>1. CASE /\ chip' = read /\ pcB' = "command" /\ triesB' = FirstTry
             /\ wakeB' = TRUE /\ UNCHANGED <<stepB, statusB, answerB>>
    <3>1. Unmoved(chip, chip') /\ FirstTry >= 0
      BY <2>1, <1>u, SharedAssumption DEF FirstTry
    <3> QED BY <2>0, <2>1, <3>1 DEF Works, GoesOn, SameRound, SameStore, HandleB, Store
  <2>2. CASE \E c \in {read, chip} : B!WakeFailed(c)
    <3>1. PICK c \in {read, chip} : B!WakeFailed(c)
      BY <2>2
    <3>2. Unmoved(chip, chip')
      BY <3>1, <1>u DEF B!WakeFailed
    <3>3. CASE triesB >= 0 /\ pcB' = "wake" /\ UNCHANGED <<stepB, triesB, statusB, answerB, wakeB>>
      BY <2>0, <3>2, <3>3 DEF Works, GoesOn, SameRound, SameStore, HandleB, Store
    <3>4. CASE B!Return("comm") /\ wakeB' = TRUE
      BY <2>0, <3>2, <3>4 DEF Works, GivesUp, SameStore, B!Return, HandleB, Store
    <3> QED BY <3>1, <3>3, <3>4 DEF B!WakeFailed
  <2> QED BY <1>2, <1>r, <2>1, <2>2, SameChipB DEF B!ReceiveWake
<1>3. CASE B!NoPacket
  <2>1. Unmoved(chip, chip')
    BY <1>3, <1>u DEF B!NoPacket
  <2> QED BY <1>3, <2>1 DEF B!NoPacket, B!BusFails, Works, GivesUp, SameStore,
          B!Return, HandleB, Store
<1>4. CASE B!SendToAwake
  <2>0. /\ pcB = "command" /\ UNCHANGED <<callB, wakeB>>
        /\ troubleB' \in {troubleB, "bus"}
    BY <1>4 DEF B!SendToAwake, B!BusFails
  <2>1. CASE /\ B!Wait(B!Answering(chip, B!cmd, mem, locked))
             /\ IF B!Accepts(B!cmd, chip.key, locked)
                THEN mem' = B!MemAfter(B!cmd, mem) /\ locked' = B!LockedAfter(B!cmd, locked)
                ELSE UNCHANGED <<mem, locked>>
             /\ pcB' = "sent" /\ triesB' = triesB - 1
             /\ UNCHANGED <<stepB, statusB, answerB>>
    <3>1. chip' \in AfterWait(Answering(chip, callB[stepB], mem, locked))
      BY <2>1, <1>b, SameChipB DEF B!cmd
    <3>2. IF Accepts(callB[stepB], chip.key, locked)
          THEN mem' = MemAfter(callB[stepB], mem) /\ locked' = LockedAfter(callB[stepB], locked)
          ELSE UNCHANGED <<mem, locked>>
      BY <2>1, SameChipB DEF B!cmd
    <3>3. Sends(HandleB, HandleB', Store, Store')
      BY <2>0, <2>1, <3>1, <3>2 DEF Sends, SameRound, SameStore, HandleB, Store
    <3> QED BY <2>0, <3>3 DEF Works, HandleB
  <2>2. CASE /\ B!Wait(noise)
             /\ pcB' = "sent" /\ triesB' = triesB - 1
             /\ UNCHANGED <<stepB, statusB, answerB, mem, locked>>
    <3>1. Unmoved(chip, chip')
      BY <2>2, <1>u
    <3>2. chip'.out \in Noise
      BY <2>2, <1>a, <1>b, WaitFacts DEF Noise
    <3> QED BY <2>0, <2>2, <3>1, <3>2 DEF Works, GoesOn, SameRound, SameStore, HandleB, Store
  <2>3. CASE B!CommandFailed(chip, triesB - 1, "comm") /\ UNCHANGED <<mem, locked>>
    BY <1>c, <2>0, <2>3
  <2> QED BY <1>4, <1>r, <2>1, <2>2, <2>3 DEF B!SendToAwake
<1>5. CASE B!SendToAsleep
  <2>0. /\ pcB = "command" /\ UNCHANGED <<callB, wakeB, mem, locked>>
        /\ troubleB' \in {troubleB, "bus"} /\ chip.mode # "awake"
    BY <1>5 DEF B!SendToAsleep, B!BusFails
  <2>1. CASE B!CommandFailed(chip, triesB - 1, "comm")
    BY <1>c, <2>0, <2>1
  <2>2. CASE /\ B!Wait(WakePulse(chip)) /\ pcB' = "sent" /\ triesB' = triesB - 1
             /\ UNCHANGED <<stepB, statusB, answerB>>
    <3>1. Unmoved(chip, chip')
      BY <2>2, <1>u
    <3>2. chip'.out \in Noise
      BY <2>0, <2>2, <1>a, <1>b, WaitFacts DEF Noise
    <3> QED BY <2>0, <2>2, <3>1, <3>2 DEF Works, GoesOn, SameRound, SameStore, HandleB, Store
  <2> QED BY <1>5, <1>r, <2>1, <2>2 DEF B!SendToAsleep
<1>6. CASE B!Receive
  <2>0. /\ pcB = "sent" /\ UNCHANGED <<callB, wakeB, mem, locked>>
        /\ troubleB' \in {troubleB, "bus"}
    BY <1>6 DEF B!Receive, B!BusFails
  <2>1. CASE \E c \in {read, chip}, n \in {triesB, -1}, st \in {"comm", "bad"} :
               B!CommandFailed(c, n, st)
    <3>1. PICK c \in {read, chip}, n \in {triesB, -1}, st \in {"comm", "bad"} :
            B!CommandFailed(c, n, st)
      BY <2>1
    <3> QED BY <1>c, <2>0, <3>1
  <2>2. CASE chip' = read /\ B!Return("bad")
    <3>1. Unmoved(chip, chip')
      BY <2>2, <1>u
    <3> QED BY <2>0, <2>2, <3>1 DEF Works, GivesUp, SameStore, B!Return, HandleB, Store
  <2>3. CASE /\ chip.out \notin Noise
             /\ chip' = read
             /\ IF stepB < Len(callB)
                THEN stepB' = stepB + 1 /\ pcB' = "command" /\ triesB' = FirstTry
                ELSE pcB' = "idle" /\ UNCHANGED <<stepB, triesB>>
             /\ answerB' = chip.out /\ UNCHANGED statusB
    <3>1. Hears(HandleB, HandleB', Store, Store')
      BY <2>0, <2>3 DEF Hears, SameStore, HandleB, Store, read
    <3> QED BY <2>0, <3>1 DEF Works, HandleB
  <2>4. chip.out # B!Nothing /\ ~B!Refused(chip.out) /\ ~B!Hopeless(chip.out)
        => chip.out \notin Noise
    BY SameChipB DEF B!Refused, B!Hopeless, Noise
  <2> QED BY <1>6, <1>r, <2>1, <2>2, <2>3, <2>4, SameChipB DEF B!Receive
<1>7. CASE B!Idle
  BY <1>7, SameChipB DEF B!Idle, B!BusFails, B!Return, Works, Finishes, SameStore,
     HandleB, Store
<1> QED BY <1>1, <1>2, <1>3, <1>4, <1>5, <1>6, <1>7 DEF B!HostStep

-----------------------------------------------------------------------------
(* What holds of a handle and the chip in every state.                     *)

StoreTypes(g) ==
  /\ g.chip \in A!Chips
  /\ g.mem \in [Word -> Value]
  /\ g.locked \in A!LockStates

HandleTypes(requests, h) ==
  /\ h.pc \in {"app", "wake", "woken", "command", "sent", "idle"}
  /\ h.call \in requests \cup {NoCall}
  /\ h.pc # "app" => /\ h.call \in requests /\ h.step \in DOMAIN h.call
                     /\ h.status = "none"
  /\ h.tries \in -1..FirstTry
  /\ h.pc \in {"wake", "command"} => h.tries >= 0
  /\ h.wake \in BOOLEAN
  /\ h.status \in A!Statuses
  /\ h.answer \in A!Answers \cup {NoAnswer}
  /\ h.trouble \in {"none", "start", "bus"}

\* The answer of an exchange under way is right or will be refused; between
\* the commands of a call TempKey is its own challenge or nothing.
HandleAnswers(h, g) ==
  /\ h.pc # "app" /\ h.step # 1 => g.chip.key \in {NoKey, h.call[1][2]}
  /\ h.pc = "sent" =>
       \/ g.chip.out \in Noise
       \/ Right(h.call, h.step, g.chip.key, g.chip.out, g.mem, g.locked)
  /\ h.pc = "idle" => Satisfies(h.call, h.answer, g.mem, g.locked)
  /\ h.pc = "app" /\ h.status = "ok" => Satisfies(h.call, h.answer, g.mem, g.locked)

\* A word that is being written has the writer's field and all that is done:
\* nobody has changed the word since the writer read it.
HandleUpdates(h, field) ==
  h.pc # "app" /\ h.call[1][1] = "write" =>
    \E v \in Value : /\ h.call = RawConfWrite(4, v)
                     /\ field \in v /\ done \subseteq v

SharedInv ==
  /\ Exclusive
  /\ "A" \notin users => Fresh(HandleA)
  /\ "B" \notin users => Fresh(HandleB)
  /\ StoreTypes(Store)
  /\ HandleTypes(RequestsOfA, HandleA) /\ HandleTypes(RequestsOfB, HandleB)
  /\ HandleAnswers(HandleA, Store) /\ HandleAnswers(HandleB, Store)
  /\ HandleUpdates(HandleA, "address") /\ HandleUpdates(HandleB, "otp_mode")
  /\ done \subseteq Field
  /\ NoLostUpdate

LEMMA RequestsAreCalls == RequestsOfA \subseteq ApiCall /\ RequestsOfB \subseteq ApiCall
BY SharedAssumption DEF RequestsOfA, RequestsOfB, ApiCall

LEMMA ChipsAreChips == \A c \in A!Chips : IsChip(c)
BY DEF A!Chips, IsChip

LEMMA WaitTypes ==
  ASSUME NEW c \in A!Chips, NEW d \in AfterWait(c)
  PROVE  d \in A!Chips
<1>1. Asleep \in A!Chips
  BY ChipAssumption, SameChipA DEF Asleep, A!Chips
<1>2. ASSUME c.age + 1 < WD_MAX PROVE [c EXCEPT !.age = @ + 1] \in A!Chips
  BY <1>2, ChipAssumption DEF A!Chips
<1> QED BY <1>1, <1>2 DEF AfterWait

LEMMA UnmovedFacts ==
  ASSUME NEW c \in A!Chips, NEW d, Unmoved(c, d)
  PROVE  d \in A!Chips /\ d.key \in {c.key, NoKey}
<1>1. PICK f \in {c, WakePulse(c), [c EXCEPT !.out = Nothing],
                  [c EXCEPT !.out = Status("comm")]} : d = f \/ d \in AfterWait(f)
  BY DEF Unmoved
<1>2. 0 \in 0..WD_MAX
  BY ChipAssumption
<1>3. {Nothing, Status("wake"), Status("comm")} \subseteq A!Answers \cup {A!Nothing}
  BY SameChipA DEF A!Answers
<1>4. WakePulse(c) \in A!Chips /\ WakePulse(c).key = c.key
  BY <1>2, <1>3 DEF A!Chips, WakePulse
<1>5. /\ [c EXCEPT !.out = Nothing] \in A!Chips
      /\ [c EXCEPT !.out = Status("comm")] \in A!Chips
      /\ [c EXCEPT !.out = Nothing].key = c.key
      /\ [c EXCEPT !.out = Status("comm")].key = c.key
  BY <1>3 DEF A!Chips
<1>6. f \in A!Chips /\ f.key = c.key
  BY <1>1, <1>4, <1>5
<1>7. IsChip(f)
  BY <1>6, ChipsAreChips
<1> QED BY <1>1, <1>6, <1>7, WaitFacts, WaitTypes

LEMMA AnsweringTypes ==
  ASSUME NEW r \in ApiCall, NEW s \in DOMAIN r, NEW m \in [Word -> Value],
         NEW l \in A!LockStates, NEW c \in A!Chips
  PROVE  /\ Answering(c, r[s], m, l) \in A!Chips
         /\ Accepts(r[s], c.key, l) => LockedAfter(r[s], l) \in A!LockStates
<1> DEFINE x == r[s]
<1>1. \/ x \in {<<"devrev">>, <<"random">>, <<"serial">>}
      \/ x \in {<<"lock", "conf">>, <<"lock", "data">>}
      \/ \E t \in Slot, h \in Challenge : x = <<"mac", t, h>>
      \/ \E w \in Word : x = <<"read", w>>
      \/ \E w \in Word, v \in Value : x = <<"write", w, v>>
      \/ \E h \in Challenge : x = <<"nonce", h>>
      \/ \E t \in Slot : x = <<"hmac", t>>
  BY CommandShape
<1> HIDE DEF x
<1>2. c.key \in Challenge \cup {NoKey}
  BY DEF A!Chips
<1>s. \A code \in {"success", "wake", "comm", "exec"} : Status(code) \in A!Answers
  BY SameChipA DEF A!Answers
<1>3. Accepts(x, c.key, l) => AnswerTo(x, c.key, m) \in A!Answers
  BY <1>1, <1>2, <1>s DEF Accepts, AnswerTo, A!Answers
<1>4. (IF x[1] = "nonce" THEN x[2] ELSE NoKey) \in Challenge \cup {NoKey}
  BY <1>1
<1>5. Answering(c, x, m, l) \in A!Chips
  <2>1. (IF Accepts(x, c.key, l) THEN AnswerTo(x, c.key, m) ELSE Status("exec")) \in A!Answers
    BY <1>3, <1>s
  <2> QED BY <1>4, <2>1 DEF Answering, A!Chips
<1>6. Accepts(x, c.key, l) => LockedAfter(x, l) \in A!LockStates
  BY <1>1 DEF Accepts, Lockable, LockedAfter, A!LockStates
<1> QED BY <1>5, <1>6 DEF x

\* A step of the library keeps the chip, the handle and its answers in order.
LEMMA WorksKeeps ==
  ASSUME NEW requests \in SUBSET ApiCall, NEW h, NEW h2, NEW g, NEW g2,
         StoreTypes(g), HandleTypes(requests, h), HandleAnswers(h, g),
         Works(h, h2, g, g2)
  PROVE  StoreTypes(g2) /\ HandleTypes(requests, h2) /\ HandleAnswers(h2, g2)
<1>0. /\ h.pc # "app" /\ h2.call = h.call /\ h.status = "none"
      /\ h.call \in requests /\ h.call \in ApiCall /\ h.step \in DOMAIN h.call
      /\ h2.wake \in BOOLEAN /\ h2.trouble \in {"none", "start", "bus"}
  BY DEF Works, HandleTypes
<1>c. /\ IsChip(g.chip)
      /\ 1 \in DOMAIN h.call /\ Len(h.call) \in Nat /\ DOMAIN h.call = 1..Len(h.call)
  BY <1>0, CallFacts, ChipsAreChips DEF StoreTypes
<1>f. FirstTry \in Nat /\ FirstTry >= 1 /\ h.tries \in -1..FirstTry
  BY SharedAssumption DEF FirstTry, HandleTypes
<1>1. CASE GoesOn(h, h2, g, g2)
  <2>1. g2.chip \in A!Chips /\ g2.chip.key \in {g.chip.key, NoKey}
    BY <1>1, UnmovedFacts DEF GoesOn, StoreTypes
  <2>2. StoreTypes(g2)
    BY <1>1, <2>1 DEF GoesOn, SameStore, StoreTypes
  <2>3. HandleAnswers(h2, g2)
    BY <1>0, <1>1, <2>1 DEF GoesOn, SameRound, HandleAnswers
  <2>4. h2.tries \in -1..FirstTry /\ (h2.pc \in {"wake", "command"} => h2.tries >= 0)
    BY <1>1, <1>f DEF GoesOn, HandleTypes
  <2>5. HandleTypes(requests, h2)
    BY <1>0, <1>1, <2>4 DEF GoesOn, SameRound, HandleTypes
  <2> QED BY <2>2, <2>3, <2>5
<1>2. CASE GivesUp(h, h2, g, g2)
  <2>1. g2.chip \in A!Chips
    BY <1>2, UnmovedFacts DEF GivesUp, StoreTypes
  <2>2. StoreTypes(g2)
    BY <1>2, <2>1 DEF GivesUp, SameStore, StoreTypes
  <2>3. HandleAnswers(h2, g2)
    BY <1>2 DEF GivesUp, HandleAnswers
  <2>4. HandleTypes(requests, h2)
    BY <1>0, <1>2, <1>f DEF GivesUp, HandleTypes, A!Statuses
  <2> QED BY <2>2, <2>3, <2>4
<1>3. CASE Sends(h, h2, g, g2)
  <2> DEFINE x == h.call[h.step]
             d == Answering(g.chip, x, g.mem, g.locked)
  <2>1. /\ IsChip(d)
        /\ d.out \in Noise \/ Right(h.call, h.step, d.key, d.out, g2.mem, g2.locked)
        /\ h.step # 1 => d.key = NoKey
        /\ g2.mem \in [Word -> Value]
    BY <1>0, <1>3, <1>c, SendFacts DEF StoreTypes, HandleAnswers, Sends, SameStore
  <2>2. /\ d \in A!Chips
        /\ Accepts(x, g.chip.key, g.locked) => LockedAfter(x, g.locked) \in A!LockStates
    BY <1>0, AnsweringTypes DEF StoreTypes
  <2>3. g2.chip \in AfterWait(d)
    BY <1>3 DEF Sends
  <2>4. g2.locked \in A!LockStates
    BY <1>3, <2>2 DEF Sends, SameStore, StoreTypes
  <2> HIDE DEF d
  <2>5. /\ g2.chip \in A!Chips
        /\ g2.chip.key \in {d.key, NoKey} /\ g2.chip.out \in {d.out, Nothing}
        /\ g2.chip.key = d.key \/ g2.chip.out = Nothing
    BY <2>1, <2>2, <2>3, WaitFacts, WaitTypes
  <2>6. StoreTypes(g2)
    BY <2>1, <2>4, <2>5 DEF StoreTypes
  <2>7. \/ g2.chip.out \in Noise
        \/ Right(h.call, h.step, g2.chip.key, g2.chip.out, g2.mem, g2.locked)
    BY <2>1, <2>5 DEF Noise
  <2>8. HandleAnswers(h2, g2)
    BY <1>0, <1>3, <2>1, <2>5, <2>7 DEF Sends, SameRound, HandleAnswers
  <2>9. h2.tries \in -1..FirstTry
    BY <1>3, <1>f DEF Sends, HandleTypes
  <2>10. HandleTypes(requests, h2)
    BY <1>0, <1>3, <2>9 DEF Sends, SameRound, HandleTypes
  <2> QED BY <2>6, <2>8, <2>10
<1>4. CASE Hears(h, h2, g, g2)
  <2>1. g2.chip \in A!Chips /\ g2.chip.key = g.chip.key /\ g.chip.out \in A!Answers \cup {Nothing}
    BY <1>4, SameChipA DEF Hears, StoreTypes, A!Chips
  <2>2. StoreTypes(g2)
    BY <1>4, <2>1 DEF Hears, SameStore, StoreTypes
  <2>3. Right(h.call, h.step, g.chip.key, g.chip.out, g.mem, g.locked)
    BY <1>4 DEF Hears, HandleAnswers
  <2>4. h2.answer \in A!Answers \cup {NoAnswer}
    BY <1>4, <2>1 DEF Hears, Noise
  <2>5. CASE h.step < Len(h.call)
    <3>1. h2.step \in DOMAIN h.call /\ h.step # Len(h.call)
      BY <1>0, <1>4, <1>c, <2>5 DEF Hears
    <3>2. g.chip.key = h.call[1][2]
      BY <2>3, <3>1 DEF Right
    <3>3. HandleAnswers(h2, g2)
      BY <1>0, <1>4, <2>1, <2>5, <3>2 DEF Hears, HandleAnswers
    <3>4. HandleTypes(requests, h2)
      BY <1>0, <1>4, <1>f, <2>4, <2>5, <3>1 DEF Hears, HandleTypes
    <3> QED BY <2>2, <3>3, <3>4
  <2>6. CASE ~(h.step < Len(h.call))
    <3>1. h.step = Len(h.call)
      BY <1>0, <1>c, <2>6
    <3>2. Satisfies(h.call, g.chip.out, g.mem, g.locked)
      BY <2>3, <3>1 DEF Right
    <3>3. HandleAnswers(h2, g2)
      <4>1. h2.pc = "idle" /\ h2.answer = g.chip.out /\ g2.mem = g.mem /\ g2.locked = g.locked
            /\ h2.step = h.step
        BY <1>4, <2>6 DEF Hears, SameStore
      <4> QED BY <1>0, <2>1, <3>2, <4>1 DEF HandleAnswers
    <3>4. HandleTypes(requests, h2)
      BY <1>0, <1>4, <1>f, <2>4, <2>6 DEF Hears, HandleTypes
    <3> QED BY <2>2, <3>3, <3>4
  <2> QED BY <2>5, <2>6
<1>5. CASE Finishes(h, h2, g, g2)
  <2>a. 0 \in 0..WD_MAX
    BY ChipAssumption
  <2>1. IdleWord(g.chip) \in A!Chips
    BY <2>a, SameChipA DEF IdleWord, StoreTypes, A!Chips
  <2>2. StoreTypes(g2)
    BY <1>5, <2>1 DEF Finishes, SameStore, StoreTypes
  <2>3. HandleAnswers(h2, g2)
    <3>1. Satisfies(h2.call, h2.answer, g2.mem, g2.locked)
      BY <1>0, <1>5 DEF Finishes, SameStore, HandleAnswers
    <3> QED BY <1>5, <3>1 DEF Finishes, HandleAnswers
  <2>4. HandleTypes(requests, h2)
    BY <1>0, <1>5, <1>f DEF Finishes, HandleTypes, A!Statuses
  <2> QED BY <2>2, <2>3, <2>4
<1> QED BY <1>1, <1>2, <1>3, <1>4, <1>5 DEF Works

\* The calls of the two programs, for the fate of the word both change.
UpdateCall(r) ==
  \/ r \in {RawConfRead(4), LockConfig}
  \/ \E c \in Challenge : r = LowChallengeResponse(0, c)
  \/ \E v \in Value : r = RawConfWrite(4, v)

LEMMA RequestsUpdate == \A r \in RequestsOfA \cup RequestsOfB : UpdateCall(r)
BY SharedAssumption DEF RequestsOfA, RequestsOfB, UpdateCall

\* A command changes the memory only by writing the word of its call.
LEMMA MemoryStep ==
  ASSUME NEW r, UpdateCall(r), NEW s \in DOMAIN r, NEW m
  PROVE  \/ MemAfter(r[s], m) = m
         \/ \E v \in Value : /\ r = RawConfWrite(4, v)
                            /\ MemAfter(r[s], m) = [m EXCEPT ![ConfigLine] = v]
<1>1. CASE r \in {RawConfRead(4), LockConfig}
  BY <1>1 DEF RawConfRead, LockConfig, MemAfter
<1>2. CASE \E c \in Challenge : r = LowChallengeResponse(0, c)
  BY <1>2 DEF LowChallengeResponse, MemAfter
<1>3. CASE \E v \in Value : r = RawConfWrite(4, v)
  <2>1. PICK v \in Value : r = RawConfWrite(4, v)
    BY <1>3
  <2>2. r[s] = <<"write", ConfigLine, v>>
    BY <2>1 DEF RawConfWrite, ConfigLine
  <2>3. MemAfter(r[s], m) = [m EXCEPT ![ConfigLine] = v]
    BY <2>2 DEF MemAfter
  <2> QED BY <2>1, <2>3
<1> QED BY <1>1, <1>2, <1>3 DEF UpdateCall

LEMMA OneWrite ==
  ASSUME NEW v
  PROVE  LET r == RawConfWrite(4, v) IN
         /\ r[1][1] = "write" /\ r[1][3] = v /\ r[Len(r)] = <<"write", ConfigLine, v>>
         /\ Len(r) = 1
BY DEF RawConfWrite, ConfigLine

\* A step of the library loses none of the changes that are done, and the
\* change it completes is made.
LEMMA WorksUpdates ==
  ASSUME NEW requests, \A r \in requests : UpdateCall(r),
         NEW h, NEW h2, NEW g, NEW g2, NEW field \in Field,
         StoreTypes(g), HandleTypes(requests, h), HandleAnswers(h, g),
         HandleUpdates(h, field), done \subseteq g.mem[ConfigLine],
         Works(h, h2, g, g2),
         done' = Done(field, h.call, h2.status)
  PROVE  /\ done' \subseteq g2.mem[ConfigLine]
         /\ h2.pc # "app" => done' = done
<1>0. /\ h.pc # "app" /\ h2.call = h.call /\ h.status = "none"
      /\ UpdateCall(h.call) /\ h.step \in DOMAIN h.call
  BY DEF Works, HandleTypes
<1>w. ConfigLine \in Word
  BY SharedAssumption DEF ConfigLine, Word
<1>1. CASE Finishes(h, h2, g, g2)
  <2>1. h2.pc = "app" /\ g2.mem = g.mem /\ h2.status = "ok"
        /\ Satisfies(h.call, h.answer, g.mem, g.locked)
    BY <1>1 DEF Finishes, SameStore, HandleAnswers
  <2>2. CASE h.call[1][1] = "write"
    <3>1. PICK v \in Value : h.call = RawConfWrite(4, v) /\ field \in v /\ done \subseteq v
      BY <1>0, <2>2 DEF HandleUpdates
    <3>2. g.mem[ConfigLine] = v
      <4>1. h.call[Len(h.call)] = <<"write", ConfigLine, v>>
        BY <3>1, OneWrite
      <4> QED BY <2>1, <4>1 DEF Satisfies
    <3> QED BY <2>1, <2>2, <3>1, <3>2 DEF Done
  <2>3. CASE h.call[1][1] # "write"
    BY <2>1, <2>3 DEF Done
  <2> QED BY <2>2, <2>3
<1>2. CASE Sends(h, h2, g, g2)
  <2>1. h2.status = "none" /\ done' = done
    BY <1>0, <1>2 DEF Sends, SameRound, Done
  <2>2. CASE g2.mem = g.mem
    BY <2>1, <2>2
  <2>3. CASE g2.mem = MemAfter(h.call[h.step], g.mem) /\ g2.mem # g.mem
    <3>1. PICK v \in Value : /\ h.call = RawConfWrite(4, v)
                            /\ g2.mem = [g.mem EXCEPT ![ConfigLine] = v]
      BY <1>0, <2>3, MemoryStep
    <3>2. done \subseteq v
      BY <1>0, <3>1, OneWrite DEF HandleUpdates
    <3>3. g2.mem[ConfigLine] = v
      BY <1>w, <3>1 DEF StoreTypes
    <3> QED BY <2>1, <3>2, <3>3
  <2> QED BY <1>2, <2>2, <2>3 DEF Sends, SameStore
<1>3. CASE GoesOn(h, h2, g, g2) \/ GivesUp(h, h2, g, g2) \/ Hears(h, h2, g, g2)
  <2>1. g2.mem = g.mem /\ h2.status # "ok"
    BY <1>0, <1>3 DEF GoesOn, GivesUp, Hears, SameRound, SameStore
  <2> QED BY <2>1 DEF Done
<1> QED BY <1>1, <1>2, <1>3 DEF Works

-----------------------------------------------------------------------------
(* The invariant of both programs and the chip.                            *)

LEMMA FreshKeeps ==
  ASSUME NEW h, Fresh(h), NEW requests, NEW g, NEW field
  PROVE  HandleTypes(requests, h) /\ HandleAnswers(h, g) /\ HandleUpdates(h, field)
<1>1. 0 \in -1..FirstTry
  BY SharedAssumption DEF FirstTry
<1> QED BY <1>1 DEF Fresh, HandleTypes, HandleAnswers, HandleUpdates, A!Statuses

LEMMA SharedInit == Init => SharedInv
<1> SUFFICES ASSUME Init PROVE SharedInv
  OBVIOUS
<1>1. Fresh(HandleA) /\ Fresh(HandleB)
  BY DEF Init, Fresh, HandleA, HandleB, A!NewHandle, B!NewHandle
<1>2. Exclusive
  BY ExclusiveInit
<1>3. StoreTypes(Store)
  <2>1. Asleep \in A!Chips
    BY ChipAssumption, SameChipA DEF Asleep, A!Chips
  <2>2. mem \in [Word -> Value]
    BY SharedAssumption DEF Init
  <2> QED BY <2>1, <2>2 DEF Init, StoreTypes, Store
<1>4. done \subseteq Field /\ NoLostUpdate
  BY DEF Init, NoLostUpdate
<1> QED BY <1>1, <1>2, <1>3, <1>4, FreshKeeps DEF SharedInv

\* A request is answered at once, or starts a call.
LEMMA StartsKeeps ==
  ASSUME NEW requests \in SUBSET ApiCall, NEW h, NEW h2, NEW g, NEW field,
         NEW r \in requests, HandleTypes(requests, h),
         Starts(h, h2, r),
         r[1][1] = "write" =>
           \E v \in Value : r = RawConfWrite(4, v) /\ field \in v /\ done \subseteq v
  PROVE  HandleTypes(requests, h2) /\ HandleAnswers(h2, g) /\ HandleUpdates(h2, field)
<1>1. 1 \in DOMAIN r
  BY CallFacts
<1>2. FirstTry \in -1..FirstTry /\ 0 \in -1..FirstTry /\ FirstTry >= 0
  BY SharedAssumption DEF FirstTry
<1>3. HandleTypes(requests, h2)
  BY <1>1, <1>2 DEF Starts, HandleTypes, A!Statuses
<1>4. HandleAnswers(h2, g)
  BY DEF Starts, HandleAnswers
<1>5. HandleUpdates(h2, field)
  BY DEF Starts, HandleUpdates
<1> QED BY <1>3, <1>4, <1>5

\* What a program writes to the word is what it has just read and its field.
LEMMA AskedWrite ==
  ASSUME NEW r, UpdateCall(r), NEW h, NEW field \in Field, StoreTypes(Store), NoLostUpdate,
         h.pc = "app", HandleAnswers(h, Store),
         Asks(r, field, h.call, h.status, h.answer),
         r[1][1] = "write"
  PROVE  \E v \in Value : r = RawConfWrite(4, v) /\ field \in v /\ done \subseteq v
<1>1. h.call = RawConfRead(4) /\ h.status = "ok" /\ r[1][3] = h.answer[2] \cup {field}
  BY DEF Asks
<1>2. Satisfies(RawConfRead(4), h.answer, mem, locked)
  BY <1>1 DEF HandleAnswers, Store
<1>3. h.answer = <<"data", mem[ConfigLine]>>
  <2> DEFINE read == RawConfRead(4)
  <2>1. read[Len(read)] = <<"read", ConfigLine>>
    BY DEF RawConfRead, ConfigLine
  <2>2. Satisfies(read, h.answer, mem, locked)
    BY <1>2
  <2> HIDE DEF read
  <2> QED BY <2>1, <2>2 DEF Satisfies
<1>4. PICK v \in Value : r = RawConfWrite(4, v)
  BY DEF UpdateCall, RawConfRead, LockConfig, LowChallengeResponse
<1>5. v = mem[ConfigLine] \cup {field}
  BY <1>1, <1>3, <1>4, OneWrite
<1> QED BY <1>4, <1>5 DEF NoLostUpdate

LEMMA SharedStep == SharedInv /\ [Next]_vars => SharedInv'
<1> SUFFICES ASSUME SharedInv, [Next]_vars PROVE SharedInv'
  OBVIOUS
<1>x. Exclusive /\ Exclusive'
  BY ExclusiveStep DEF SharedInv
<1>c. IsChip(chip)
  BY ChipsAreChips DEF SharedInv, StoreTypes, Store
<1>r. RequestsOfA \in SUBSET ApiCall /\ RequestsOfB \in SUBSET ApiCall
  BY RequestsAreCalls
\* Nothing but the device changes hands.
<1>u. ASSUME UNCHANGED <<done, HandleA, HandleB, Store>>,
             "A" \notin users' => Fresh(HandleA'), "B" \notin users' => Fresh(HandleB')
      PROVE  SharedInv'
  <2>1. StoreTypes(Store)' /\ NoLostUpdate'
    BY <1>u DEF SharedInv, StoreTypes, NoLostUpdate, Store
  <2>2. HandleUpdates(HandleA, "address")' /\ HandleUpdates(HandleB, "otp_mode")'
    BY <1>u DEF SharedInv, HandleUpdates
  <2>3. /\ HandleTypes(RequestsOfA, HandleA)' /\ HandleTypes(RequestsOfB, HandleB)'
        /\ HandleAnswers(HandleA, Store)' /\ HandleAnswers(HandleB, Store)'
    BY <1>u DEF SharedInv, HandleTypes, HandleAnswers
  <2> QED BY <1>x, <1>u, <2>1, <2>2, <2>3 DEF SharedInv
<1>1. ASSUME NEW p \in {"A", "B"}, Open(p) PROVE SharedInv'
  BY <1>1, <1>u DEF Open, Device!Acquire, theChip, handleA, handleB, HandleA, HandleB,
     Store, SharedInv
<1>2. CASE LeaveA
  <2>1. /\ Fresh(HandleA)' /\ UNCHANGED <<done, HandleB, Store>>
        /\ "B" \notin users' => Fresh(HandleB)'
    BY <1>2 DEF LeaveA, A!Forget, Fresh, HandleA, HandleB, handleB, theChip, Store, SharedInv
  <2>2. /\ HandleTypes(RequestsOfA, HandleA)' /\ HandleAnswers(HandleA, Store)'
        /\ HandleUpdates(HandleA, "address")'
    BY <2>1, FreshKeeps DEF HandleTypes, HandleAnswers, HandleUpdates
  <2>3. StoreTypes(Store)' /\ NoLostUpdate'
    BY <2>1 DEF SharedInv, StoreTypes, NoLostUpdate, Store
  <2>4. /\ HandleTypes(RequestsOfB, HandleB)' /\ HandleAnswers(HandleB, Store)'
        /\ HandleUpdates(HandleB, "otp_mode")'
    BY <2>1 DEF SharedInv, HandleTypes, HandleAnswers, HandleUpdates
  <2> QED BY <1>x, <2>1, <2>2, <2>3, <2>4 DEF SharedInv
<1>3. CASE LeaveB
  <2>1. /\ Fresh(HandleB)' /\ UNCHANGED <<done, HandleA, Store>>
        /\ "A" \notin users' => Fresh(HandleA)'
    BY <1>3 DEF LeaveB, B!Forget, Fresh, HandleA, HandleB, handleA, theChip, Store, SharedInv
  <2>2. /\ HandleTypes(RequestsOfB, HandleB)' /\ HandleAnswers(HandleB, Store)'
        /\ HandleUpdates(HandleB, "otp_mode")'
    BY <2>1, FreshKeeps DEF HandleTypes, HandleAnswers, HandleUpdates
  <2>3. StoreTypes(Store)' /\ NoLostUpdate'
    BY <2>1 DEF SharedInv, StoreTypes, NoLostUpdate, Store
  <2>4. /\ HandleTypes(RequestsOfA, HandleA)' /\ HandleAnswers(HandleA, Store)'
        /\ HandleUpdates(HandleA, "address")'
    BY <2>1 DEF SharedInv, HandleTypes, HandleAnswers, HandleUpdates
  <2> QED BY <1>x, <2>1, <2>2, <2>3, <2>4 DEF SharedInv
<1>4. CASE CallA
  <2>1. PICK r \in RequestsOfA : /\ Asks(r, "address", callA, statusA, answerA)
                                /\ A!Call(r)
    BY <1>4 DEF CallA
  <2>2. /\ UNCHANGED <<users, done, HandleB, Store>> /\ pcA = "app"
    BY <1>4, <2>1 DEF CallA, A!Call, HandleB, handleB, Store
  <2>3. r[1][1] = "write" =>
          \E v \in Value : r = RawConfWrite(4, v) /\ "address" \in v /\ done \subseteq v
    BY <2>1, <2>2, AskedWrite, RequestsUpdate DEF SharedInv, HandleA, Field
  <2>4. /\ HandleTypes(RequestsOfA, HandleA') /\ HandleAnswers(HandleA', Store)
        /\ HandleUpdates(HandleA', "address")
    BY <1>r, <2>1, <2>3, StartsA, StartsKeeps DEF SharedInv
  <2>5. /\ HandleTypes(RequestsOfA, HandleA)' /\ HandleAnswers(HandleA, Store)'
        /\ HandleUpdates(HandleA, "address")'
    BY <2>2, <2>4 DEF HandleTypes, HandleAnswers, HandleUpdates
  <2>6. StoreTypes(Store)' /\ NoLostUpdate'
    BY <2>2 DEF SharedInv, StoreTypes, NoLostUpdate, Store
  <2>7. /\ HandleTypes(RequestsOfB, HandleB)' /\ HandleAnswers(HandleB, Store)'
        /\ HandleUpdates(HandleB, "otp_mode")'
    BY <2>2 DEF SharedInv, HandleTypes, HandleAnswers, HandleUpdates
  <2>9. "B" \notin users' => Fresh(HandleB)'
    BY <2>2 DEF SharedInv, Fresh
  <2>8. "A" \in users'
    BY <1>4 DEF CallA
  <2> QED BY <1>x, <2>2, <2>5, <2>6, <2>7, <2>8, <2>9 DEF SharedInv
<1>5. CASE CallB
  <2>1. PICK r \in RequestsOfB : /\ Asks(r, "otp_mode", callB, statusB, answerB)
                                /\ B!Call(r)
    BY <1>5 DEF CallB
  <2>2. /\ UNCHANGED <<users, done, HandleA, Store>> /\ pcB = "app"
    BY <1>5, <2>1 DEF CallB, B!Call, HandleA, handleA, Store
  <2>3. r[1][1] = "write" =>
          \E v \in Value : r = RawConfWrite(4, v) /\ "otp_mode" \in v /\ done \subseteq v
    BY <2>1, <2>2, AskedWrite, RequestsUpdate DEF SharedInv, HandleB, Field
  <2>4. /\ HandleTypes(RequestsOfB, HandleB') /\ HandleAnswers(HandleB', Store)
        /\ HandleUpdates(HandleB', "otp_mode")
    BY <1>r, <2>1, <2>3, StartsB, StartsKeeps DEF SharedInv
  <2>5. /\ HandleTypes(RequestsOfB, HandleB)' /\ HandleAnswers(HandleB, Store)'
        /\ HandleUpdates(HandleB, "otp_mode")'
    BY <2>2, <2>4 DEF HandleTypes, HandleAnswers, HandleUpdates
  <2>6. StoreTypes(Store)' /\ NoLostUpdate'
    BY <2>2 DEF SharedInv, StoreTypes, NoLostUpdate, Store
  <2>7. /\ HandleTypes(RequestsOfA, HandleA)' /\ HandleAnswers(HandleA, Store)'
        /\ HandleUpdates(HandleA, "address")'
    BY <2>2 DEF SharedInv, HandleTypes, HandleAnswers, HandleUpdates
  <2>9. "A" \notin users' => Fresh(HandleA)'
    BY <2>2 DEF SharedInv, Fresh
  <2>8. "B" \in users'
    BY <1>5 DEF CallB
  <2> QED BY <1>x, <2>2, <2>5, <2>6, <2>7, <2>8, <2>9 DEF SharedInv
<1>6. CASE StepA
  <2>1. /\ Works(HandleA, HandleA', Store, Store')
        /\ done' = Done("address", HandleA.call, HandleA'.status)
    BY <1>6, <1>c, WorksA DEF StepA, HandleA
  <2>2. UNCHANGED <<users, HandleB>> /\ "A" \in users /\ "B" \notin users
    BY <1>6, <1>x, StepInCallA DEF StepA, HandleB, handleB, Exclusive
  <2>3. /\ StoreTypes(Store') /\ HandleTypes(RequestsOfA, HandleA')
        /\ HandleAnswers(HandleA', Store')
    BY <1>r, <2>1, WorksKeeps DEF SharedInv
  <2>4. /\ done' \subseteq Store'.mem[ConfigLine]
        /\ HandleA'.pc # "app" => done' = done
    <3>1. \A r \in RequestsOfA : UpdateCall(r)
      BY RequestsUpdate
    <3>2. done \subseteq Store.mem[ConfigLine] /\ "address" \in Field
      BY DEF SharedInv, NoLostUpdate, Store, Field
    <3> QED BY <2>1, <3>1, <3>2, WorksUpdates DEF SharedInv
  <2>5. HandleUpdates(HandleA, "address")'
    BY <2>1, <2>4 DEF Works, SharedInv, HandleUpdates
  <2>6. Fresh(HandleB)' /\ done' \subseteq Field /\ NoLostUpdate'
    BY <2>1, <2>2, <2>4 DEF SharedInv, Fresh, Done, Field, NoLostUpdate, Store
  <2>7. /\ HandleTypes(RequestsOfB, HandleB)' /\ HandleAnswers(HandleB, Store)'
        /\ HandleUpdates(HandleB, "otp_mode")'
    <3>1. HandleUpdates(HandleB, "otp_mode")'
      BY <2>6 DEF Fresh, HandleUpdates
    <3> QED BY <2>6, <3>1, FreshKeeps DEF HandleTypes, HandleAnswers
  <2> QED BY <1>x, <2>2, <2>3, <2>5, <2>6, <2>7 DEF SharedInv, StoreTypes, HandleTypes, HandleAnswers
<1>7. CASE StepB
  <2>1. /\ Works(HandleB, HandleB', Store, Store')
        /\ done' = Done("otp_mode", HandleB.call, HandleB'.status)
    BY <1>7, <1>c, WorksB DEF StepB, HandleB
  <2>2. UNCHANGED <<users, HandleA>> /\ "B" \in users /\ "A" \notin users
    BY <1>7, <1>x, StepInCallB DEF StepB, HandleA, handleA, Exclusive
  <2>3. /\ StoreTypes(Store') /\ HandleTypes(RequestsOfB, HandleB')
        /\ HandleAnswers(HandleB', Store')
    BY <1>r, <2>1, WorksKeeps DEF SharedInv
  <2>4. /\ done' \subseteq Store'.mem[ConfigLine]
        /\ HandleB'.pc # "app" => done' = done
    <3>1. \A r \in RequestsOfB : UpdateCall(r)
      BY RequestsUpdate
    <3>2. done \subseteq Store.mem[ConfigLine] /\ "otp_mode" \in Field
      BY DEF SharedInv, NoLostUpdate, Store, Field
    <3> QED BY <2>1, <3>1, <3>2, WorksUpdates DEF SharedInv
  <2>5. HandleUpdates(HandleB, "otp_mode")'
    BY <2>1, <2>4 DEF Works, SharedInv, HandleUpdates
  <2>6. Fresh(HandleA)' /\ done' \subseteq Field /\ NoLostUpdate'
    BY <2>1, <2>2, <2>4 DEF SharedInv, Fresh, Done, Field, NoLostUpdate, Store
  <2>7. /\ HandleTypes(RequestsOfA, HandleA)' /\ HandleAnswers(HandleA, Store)'
        /\ HandleUpdates(HandleA, "address")'
    <3>1. HandleUpdates(HandleA, "address")'
      BY <2>6 DEF Fresh, HandleUpdates
    <3> QED BY <2>6, <3>1, FreshKeeps DEF HandleTypes, HandleAnswers
  <2> QED BY <1>x, <2>2, <2>3, <2>5, <2>6, <2>7 DEF SharedInv, StoreTypes, HandleTypes, HandleAnswers
<1>8. CASE AppWaits
  <2>1. /\ pcA = "app" /\ pcB = "app" /\ chip' \in AfterWait(chip)
        /\ UNCHANGED <<users, mem, locked, done, HandleA, HandleB>>
    BY <1>8, SameChipA DEF AppWaits, A!Wait, handleA, handleB, HandleA, HandleB
  <2>2. StoreTypes(Store)' /\ NoLostUpdate'
    BY <2>1, WaitTypes DEF SharedInv, StoreTypes, NoLostUpdate, Store
  <2>3. HandleTypes(RequestsOfA, HandleA)' /\ HandleTypes(RequestsOfB, HandleB)'
    BY <2>1 DEF SharedInv, HandleTypes
  <2>4. HandleAnswers(HandleA, Store)' /\ HandleAnswers(HandleB, Store)'
    BY <2>1 DEF SharedInv, HandleAnswers, HandleA, HandleB, Store
  <2>5. HandleUpdates(HandleA, "address")' /\ HandleUpdates(HandleB, "otp_mode")'
    BY <2>1 DEF SharedInv, HandleUpdates
  <2>6. /\ "A" \notin users' => Fresh(HandleA)'
        /\ "B" \notin users' => Fresh(HandleB)'
    BY <2>1 DEF SharedInv, Fresh
  <2> QED BY <1>x, <2>1, <2>2, <2>3, <2>4, <2>5, <2>6 DEF SharedInv
<1>9. CASE UNCHANGED vars
  BY <1>9, <1>u DEF vars, theChip, handleA, handleB, HandleA, HandleB, Store, SharedInv
<1> QED
  BY <1>1, <1>2, <1>3, <1>4, <1>5, <1>6, <1>7, <1>8, <1>9 DEF Next

LEMMA SharedInvariant == Spec => []SharedInv
BY SharedInit, SharedStep, PTL DEF Spec

\* The states of both handles and of the chip are those Communication knows:
\* handing the device over, or dying with it, makes no others.
THEOREM SharedTypesAreRight == Spec => []TypeOK
<1>1. SharedInv => TypeOK
  <2> SUFFICES ASSUME SharedInv PROVE TypeOK
    OBVIOUS
  <2>1. users \subseteq {"A", "B"} /\ done \subseteq Field
    BY DEF SharedInv, Exclusive
  <2>2. A!TypeOK
    <3>1. callA \in RequestsOfA => callA # NoCall
      BY RequestsAreCalls, SharedAssumption
    <3>2. A!FirstTry = FirstTry
      BY SameChipA
    <3>3. chip \in A!Chips /\ mem \in [Word -> Value] /\ locked \in A!LockStates
      BY DEF SharedInv, StoreTypes, Store
    <3>4. HandleTypes(RequestsOfA, HandleA)
      BY DEF SharedInv
    <3> QED BY <3>1, <3>2, <3>3, <3>4 DEF HandleTypes, HandleA, A!TypeOK, A!Word, Word
  <2>3. B!TypeOK
    <3>1. callB \in RequestsOfB => callB # NoCall
      BY RequestsAreCalls, SharedAssumption
    <3>2. B!Answers = A!Answers /\ B!Statuses = A!Statuses /\ B!LockStates = A!LockStates
      BY DEF B!Answers, A!Answers, B!Status, A!Status, B!Statuses, A!Statuses,
         B!LockStates, A!LockStates
    <3>3. B!Chips = A!Chips
      BY <3>2, SameChipA, SameChipB DEF B!Chips, A!Chips
    <3>4. B!FirstTry = FirstTry
      BY SameChipB
    <3>5. chip \in B!Chips /\ mem \in [Word -> Value] /\ locked \in B!LockStates
      BY <3>2, <3>3 DEF SharedInv, StoreTypes, Store
    <3>6. HandleTypes(RequestsOfB, HandleB)
      BY DEF SharedInv
    <3> QED BY <3>1, <3>2, <3>4, <3>5, <3>6 DEF HandleTypes, HandleB, B!TypeOK, B!Word, Word
  <2> QED BY <2>1, <2>2, <2>3 DEF TypeOK
<1> QED BY <1>1, SharedInvariant, PTL

\* What a program has been told of the chip by its last successful call is so
\* for as long as it keeps its handle, whatever the other program did before
\* and wherever it died.
THEOREM KnowsTheChip == Spec => []KnownWhileOpen
<1>1. SharedInv => KnownWhileOpen
  <2> SUFFICES ASSUME SharedInv PROVE KnownWhileOpen
    OBVIOUS
  <2>1. A!OkMeansDone
    <3>1. \A r, a, m, l : A!Satisfies(r, a, m, l) = Satisfies(r, a, m, l)
      BY DEF A!Satisfies, Satisfies
    <3> QED BY <3>1 DEF SharedInv, HandleAnswers, HandleA, Store, A!OkMeansDone
  <2>2. B!OkMeansDone
    <3>1. \A r, a, m, l : B!Satisfies(r, a, m, l) = Satisfies(r, a, m, l)
      BY DEF B!Satisfies, Satisfies
    <3> QED BY <3>1 DEF SharedInv, HandleAnswers, HandleB, Store, B!OkMeansDone
  <2> QED BY <2>1, <2>2 DEF KnownWhileOpen
<1> QED BY <1>1, SharedInvariant, PTL

\* atsha_change_address and the OTP mode of chiptools init write the same word
\* after reading it, from two programs, and neither undoes the other.
THEOREM UpdatesAreKept == Spec => []NoLostUpdate
<1>1. SharedInv => NoLostUpdate
  BY DEF SharedInv
<1> QED BY <1>1, SharedInvariant, PTL

-----------------------------------------------------------------------------
(* Two programs are one caller of ChipService.                             *)

\* What the service sees of a handle, and of both.
Pending(h) == IF h.pc = "app" THEN NoCall ELSE h.call
Answered(h) == IF h.pc = "app" /\ h.status = "ok" THEN h.answer ELSE NoAnswer

pending ==
  IF pcA # "app" THEN callA ELSE IF pcB # "app" THEN callB ELSE NoCall
answered ==
  IF pcA = "app" /\ statusA = "ok" THEN answerA
  ELSE IF pcB = "app" /\ statusB = "ok" THEN answerB ELSE NoAnswer

\* The steps of the service.
Serves(p, a, p2, a2, g, g2) ==
  \/ p2 = p /\ a2 = a /\ SameStore(g, g2)
  \/ p = NoCall /\ p2 = NoCall /\ a2 = NoAnswer /\ SameStore(g, g2)
  \/ /\ p = NoCall /\ p2 \in RequestsOfA \cup RequestsOfB
     /\ a2 = NoAnswer /\ SameStore(g, g2)
  \/ /\ p # NoCall /\ p2 = NoCall /\ SameStore(g, g2)
     /\ a2 # NoAnswer => Satisfies(p, a2, g.mem, g.locked)
  \/ /\ p # NoCall /\ p2 = p /\ a2 = a
     /\ \E i \in DOMAIN p :
          \/ /\ p[i][1] = "write" /\ g2.locked = g.locked
             /\ g2.mem = [g.mem EXCEPT ![p[i][2]] = p[i][3]]
          \/ /\ p[i][1] = "lock" /\ g2.mem = g.mem
             /\ g2.locked = g.locked \cup {p[i][2]}

LEMMA ServesIsService ==
  ASSUME Serves(pending, answered, pending', answered', Store, Store')
  PROVE  [Service!Next]_(Service!vars)
<1> DEFINE P == pending  A0 == answered  P2 == pending'  A2 == answered'
<1>s. \A r, a, m, l : Service!Satisfies(r, a, m, l) = Satisfies(r, a, m, l)
  BY DEF Service!Satisfies, Satisfies
<1>1. CASE P2 = P /\ A2 = A0 /\ SameStore(Store, Store')
  BY <1>1 DEF pending, answered, SameStore, Store, Service!vars
<1>2. CASE P = NoCall /\ P2 = NoCall /\ A2 = NoAnswer /\ SameStore(Store, Store')
  <2>1. Service!Reject
    BY <1>2 DEF pending, answered, SameStore, Store, Service!Reject
  <2> QED BY <2>1 DEF Service!Next
<1>3. CASE /\ P = NoCall /\ P2 \in RequestsOfA \cup RequestsOfB
           /\ A2 = NoAnswer /\ SameStore(Store, Store')
  <2>1. Service!Begin(P2)
    BY <1>3 DEF pending, answered, SameStore, Store, Service!Begin
  <2> QED BY <1>3, <2>1 DEF Service!Next
<1>4. CASE /\ P # NoCall /\ P2 = NoCall /\ SameStore(Store, Store')
           /\ A2 # NoAnswer => Satisfies(P, A2, Store.mem, Store.locked)
  <2>1. Service!Return
    BY <1>4, <1>s DEF pending, answered, SameStore, Store, Service!Return
  <2> QED BY <2>1 DEF Service!Next
<1>5. CASE /\ P # NoCall /\ P2 = P /\ A2 = A0
           /\ \E i \in DOMAIN P :
                \/ /\ P[i][1] = "write" /\ Store'.locked = Store.locked
                   /\ Store'.mem = [Store.mem EXCEPT ![P[i][2]] = P[i][3]]
                \/ /\ P[i][1] = "lock" /\ Store'.mem = Store.mem
                   /\ Store'.locked = Store.locked \cup {P[i][2]}
  <2>1. Service!Change
    BY <1>5 DEF pending, answered, Store, Service!Change
  <2> QED BY <2>1 DEF Service!Next
<1> QED BY <1>1, <1>2, <1>3, <1>4, <1>5 DEF Serves

\* A command of a call makes the change the call asks for, or none.
LEMMA SendsServes ==
  ASSUME NEW r \in ApiCall, NEW s \in DOMAIN r, NEW m, NEW l
  PROVE  \/ MemAfter(r[s], m) = m /\ LockedAfter(r[s], l) = l
         \/ /\ r[s][1] = "write" /\ LockedAfter(r[s], l) = l
            /\ MemAfter(r[s], m) = [m EXCEPT ![r[s][2]] = r[s][3]]
         \/ /\ r[s][1] = "lock" /\ MemAfter(r[s], m) = m
            /\ LockedAfter(r[s], l) = l \cup {r[s][2]}
BY DEF MemAfter, LockedAfter

\* A step of the library is a step of the service.
LEMMA WorksServes ==
  ASSUME NEW requests \in SUBSET ApiCall, NEW h, NEW h2, NEW g, NEW g2,
         HandleTypes(requests, h), HandleAnswers(h, g), Works(h, h2, g, g2)
  PROVE  Serves(Pending(h), Answered(h), Pending(h2), Answered(h2), g, g2)
<1>0. /\ h.pc # "app" /\ h2.call = h.call /\ h.step \in DOMAIN h.call
      /\ h.call \in ApiCall /\ h.call # NoCall
  BY SharedAssumption DEF Works, HandleTypes
<1>p. Pending(h) = h.call /\ Answered(h) = NoAnswer
  BY <1>0 DEF Pending, Answered
<1>1. CASE GoesOn(h, h2, g, g2) \/ Hears(h, h2, g, g2)
  <2>1. h2.pc # "app" /\ SameStore(g, g2)
    BY <1>1 DEF GoesOn, Hears
  <2> QED BY <1>0, <1>p, <2>1 DEF Serves, Pending, Answered
<1>2. CASE GivesUp(h, h2, g, g2)
  <2>1. Pending(h2) = NoCall /\ Answered(h2) = NoAnswer /\ SameStore(g, g2)
    BY <1>2 DEF GivesUp, Pending, Answered
  <2> QED BY <1>0, <1>p, <2>1 DEF Serves
<1>3. CASE Sends(h, h2, g, g2)
  <2>1. Pending(h2) = h.call /\ Answered(h2) = NoAnswer
    BY <1>0, <1>3 DEF Sends, Pending, Answered
  <2>2. CASE SameStore(g, g2)
    BY <1>p, <2>1, <2>2 DEF Serves
  <2>3. CASE /\ g2.mem = MemAfter(h.call[h.step], g.mem)
             /\ g2.locked = LockedAfter(h.call[h.step], g.locked)
             /\ ~SameStore(g, g2)
    <3>1. \/ /\ h.call[h.step][1] = "write" /\ g2.locked = g.locked
             /\ g2.mem = [g.mem EXCEPT ![h.call[h.step][2]] = h.call[h.step][3]]
          \/ /\ h.call[h.step][1] = "lock" /\ g2.mem = g.mem
             /\ g2.locked = g.locked \cup {h.call[h.step][2]}
      BY <1>0, <2>3, SendsServes DEF SameStore
    <3> QED BY <1>0, <1>p, <2>1, <3>1 DEF Serves
  <2> QED BY <1>3, <2>2, <2>3 DEF Sends
<1>4. CASE Finishes(h, h2, g, g2)
  <2>1. /\ Pending(h2) = NoCall /\ Answered(h2) = h.answer /\ SameStore(g, g2)
        /\ Satisfies(h.call, h.answer, g.mem, g.locked)
    BY <1>4 DEF Finishes, Pending, Answered, HandleAnswers
  <2> QED BY <1>0, <1>p, <2>1 DEF Serves
<1> QED BY <1>1, <1>2, <1>3, <1>4 DEF Works

\* A call that starts, or is refused.
LEMMA StartsServes ==
  ASSUME NEW r \in RequestsOfA \cup RequestsOfB, NEW h, NEW h2, Starts(h, h2, r), NEW g,
         NEW a
  PROVE  Serves(NoCall, a, Pending(h2), Answered(h2), g, g)
BY DEF Starts, Pending, Answered, Serves, SameStore

LEMMA ServiceStep == SharedInv /\ SharedInv' /\ [Next]_vars => [Service!Next]_(Service!vars)
<1> SUFFICES ASSUME SharedInv, SharedInv', [Next]_vars
             PROVE  Serves(pending, answered, pending', answered', Store, Store')
  BY ServesIsService
<1>r. RequestsOfA \in SUBSET ApiCall /\ RequestsOfB \in SUBSET ApiCall
  BY RequestsAreCalls
<1>c. IsChip(chip)
  BY ChipsAreChips DEF SharedInv, StoreTypes, Store
<1>x. Exclusive /\ Exclusive'
  BY DEF SharedInv
<1>u. ASSUME UNCHANGED <<pcA, callA, statusA, answerA, pcB, callB, statusB, answerB, mem, locked>>
      PROVE  Serves(pending, answered, pending', answered', Store, Store')
  BY <1>u DEF pending, answered, Serves, SameStore, Store
<1>1. CASE (\E p \in {"A", "B"} : Open(p)) \/ AppWaits \/ UNCHANGED vars
  BY <1>1, <1>u DEF Open, AppWaits, vars, theChip, handleA, handleB
\* A program that has gone has no call in progress and no answer.
<1>g. ASSUME pending' = NoCall, answered' = NoAnswer, UNCHANGED <<mem, locked>>
      PROVE  Serves(pending, answered, pending', answered', Store, Store')
  BY <1>g DEF Serves, SameStore, Store
<1>2. CASE LeaveA
  <2>1. pending' = NoCall /\ answered' = NoAnswer
    <3>1. "B" \notin users'
      BY <1>2, <1>x DEF LeaveA, Exclusive
    <3>2. Fresh(HandleB)' /\ Fresh(HandleA)'
      BY <1>2, <3>1 DEF LeaveA, A!Forget, SharedInv, Fresh, HandleA
    <3> QED BY <3>2 DEF Fresh, HandleA, HandleB, pending, answered
  <2> QED BY <1>2, <1>g, <2>1 DEF LeaveA, theChip
<1>3. CASE LeaveB
  <2>1. pending' = NoCall /\ answered' = NoAnswer
    <3>1. "A" \notin users'
      BY <1>3, <1>x DEF LeaveB, Exclusive
    <3>2. Fresh(HandleA)' /\ Fresh(HandleB)'
      BY <1>3, <3>1 DEF LeaveB, B!Forget, SharedInv, Fresh, HandleB
    <3> QED BY <3>2 DEF Fresh, HandleA, HandleB, pending, answered
  <2> QED BY <1>3, <1>g, <2>1 DEF LeaveB, theChip
\* The other handle is fresh while this one is used.
<1>a. ASSUME "A" \in users, users' = users
      PROVE  /\ pending = Pending(HandleA) /\ answered = Answered(HandleA)
             /\ pending' = Pending(HandleA') /\ answered' = Answered(HandleA')
  <2>1. Fresh(HandleB) /\ Fresh(HandleB)'
    BY <1>a, <1>x DEF SharedInv, Exclusive
  <2> QED BY <2>1 DEF Fresh, HandleA, HandleB, pending, answered, Pending, Answered
<1>b. ASSUME "B" \in users, users' = users
      PROVE  /\ pending = Pending(HandleB) /\ answered = Answered(HandleB)
             /\ pending' = Pending(HandleB') /\ answered' = Answered(HandleB')
  <2>1. Fresh(HandleA) /\ Fresh(HandleA)'
    BY <1>b, <1>x DEF SharedInv, Exclusive
  <2> QED BY <2>1 DEF Fresh, HandleA, HandleB, pending, answered, Pending, Answered
<1>4. CASE CallA
  <2>1. PICK r \in RequestsOfA : A!Call(r)
    BY <1>4 DEF CallA
  <2>2. Starts(HandleA, HandleA', r) /\ Pending(HandleA) = NoCall
    BY <2>1, StartsA DEF Starts, Pending
  <2>3. Store' = Store /\ "A" \in users /\ users' = users
    BY <1>4, <2>1 DEF CallA, A!Call, Store
  <2>4. Serves(NoCall, answered, Pending(HandleA'), Answered(HandleA'), Store, Store)
    BY <2>2, StartsServes
  <2> QED BY <1>a, <2>2, <2>3, <2>4
<1>5. CASE CallB
  <2>1. PICK r \in RequestsOfB : B!Call(r)
    BY <1>5 DEF CallB
  <2>2. Starts(HandleB, HandleB', r) /\ Pending(HandleB) = NoCall
    BY <2>1, StartsB DEF Starts, Pending
  <2>3. Store' = Store /\ "B" \in users /\ users' = users
    BY <1>5, <2>1 DEF CallB, B!Call, Store
  <2>4. Serves(NoCall, answered, Pending(HandleB'), Answered(HandleB'), Store, Store)
    BY <2>2, StartsServes
  <2> QED BY <1>b, <2>2, <2>3, <2>4
<1>6. CASE StepA
  <2>1. Works(HandleA, HandleA', Store, Store')
    BY <1>6, <1>c, WorksA DEF StepA
  <2>2. "A" \in users /\ users' = users
    BY <1>6, <1>x, StepInCallA DEF StepA, Exclusive
  <2>3. HandleTypes(RequestsOfA, HandleA) /\ HandleAnswers(HandleA, Store)
    BY DEF SharedInv
  <2>4. Serves(Pending(HandleA), Answered(HandleA), Pending(HandleA'), Answered(HandleA'),
               Store, Store')
    BY <1>r, <2>1, <2>3, WorksServes
  <2> QED BY <1>a, <2>2, <2>4
<1>7. CASE StepB
  <2>1. Works(HandleB, HandleB', Store, Store')
    BY <1>7, <1>c, WorksB DEF StepB
  <2>2. "B" \in users /\ users' = users
    BY <1>7, <1>x, StepInCallB DEF StepB, Exclusive
  <2>3. HandleTypes(RequestsOfB, HandleB) /\ HandleAnswers(HandleB, Store)
    BY DEF SharedInv
  <2>4. Serves(Pending(HandleB), Answered(HandleB), Pending(HandleB'), Answered(HandleB'),
               Store, Store')
    BY <1>r, <2>1, <2>3, WorksServes
  <2> QED BY <1>b, <2>2, <2>4
<1> QED BY <1>1, <1>2, <1>3, <1>4, <1>5, <1>6, <1>7 DEF Next

\* Nothing the two programs do together is more than one caller could see: their
\* calls follow one another, and the memory of the chip changes only as the
\* call in progress asks.
THEOREM ProgramsAreOneCaller == Spec => ServiceSpec
<1>1. Init => Service!Init
  BY DEF Init, A!NewHandle, B!NewHandle, Service!Init
<1> QED BY <1>1, SharedInvariant, ServiceStep, PTL DEF Spec, ServiceSpec, Service!Spec
=============================================================================
