------------------------ MODULE Communication_proofs ------------------------
(***************************************************************************)
(* What an ATSHA_ERR_OK is worth, and when there is one: for every set of  *)
(* slots, addresses, challenges and values, any number of tries and any    *)
(* watchdog.                                                               *)
(***************************************************************************)
EXTENDS Communication, Calls_proofs

-----------------------------------------------------------------------------
(* The strengthening of OkMeansDone.  An exchange that is under way has an *)
(* answer that is right or that command() refuses; between the commands of *)
(* a call TempKey is its own challenge or nothing; after the last one the  *)
(* answer kept is right.                                                   *)

AnswerInv ==
  /\ mem \in [Word -> Value]
  /\ call \in Requests \cup {NoCall}
  /\ IsChip(chip)
  /\ pc # "app" => call \in Requests /\ step \in DOMAIN call
  /\ pc # "app" /\ step # 1 => chip.key \in {NoKey, call[1][2]}
  /\ pc = "sent" => \/ chip.out \in Noise
                    \/ Right(call, step, chip.key, chip.out, mem, locked)
  /\ pc = "idle" => Satisfies(call, answer, mem, locked)
  /\ OkMeansDone

LEMMA RequestFacts ==
  ASSUME NEW r \in Requests
  PROVE  r \in ApiCall /\ 1 \in DOMAIN r /\ r # NoCall
         /\ Len(r) \in Nat /\ DOMAIN r = 1..Len(r)
BY CommunicationAssumption, CallFacts

LEMMA AnswerInit == Init => AnswerInv
BY DEF Init, NewHandle, AnswerInv, OkMeansDone, IsChip, Asleep

\* A step that returns to the program without ATSHA_ERR_OK.
LEMMA FailedReturn ==
  ASSUME AnswerInv, NEW st, st # "ok", Return(st), IsChip(chip'),
         UNCHANGED <<call, mem, locked>>
  PROVE  AnswerInv'
BY DEF AnswerInv, Return, OkMeansDone

LEMMA AnswerStep == AnswerInv /\ [Next]_vars => AnswerInv'
<1> SUFFICES ASSUME AnswerInv, [Next]_vars PROVE AnswerInv'
  OBVIOUS
<1>1. ASSUME NEW r \in Requests, Call(r) PROVE AnswerInv'
  <2>1. r \in ApiCall /\ 1 \in DOMAIN r
    BY RequestFacts
  <2>2. CASE pc' = "app"
    BY <1>1, <2>2 DEF AnswerInv, Call, Return, OkMeansDone
  <2>3. CASE pc' # "app"
    BY <1>1, <2>1, <2>3 DEF AnswerInv, Call, Return, OkMeansDone
  <2> QED BY <2>2, <2>3
<1>2. CASE AppWaits
  <2>1. IsChip(chip')
    BY <1>2, WaitFacts DEF AnswerInv, AppWaits, Wait
  <2> QED BY <1>2, <2>1 DEF AnswerInv, AppWaits, hostVars, OkMeansDone
<1>3. CASE Reopen
  BY <1>3 DEF AnswerInv, Reopen, OkMeansDone
<1>4. CASE Killed
  BY <1>4, FailedReturn DEF Killed, AnswerInv
<1>5. CASE SendWake
  <2>1. PICK c \in {WakePulse(chip), chip} : chip' \in AfterWait(c)
    BY <1>5 DEF SendWake, Wait
  <2>2. IsChip(c) /\ c.key = chip.key
    BY <2>1 DEF WakePulse, AnswerInv, IsChip
  <2>3. IsChip(chip') /\ chip'.key \in {chip.key, NoKey}
    BY <2>1, <2>2, WaitFacts
  <2> QED BY <1>5, <2>3 DEF AnswerInv, SendWake, OkMeansDone
<1>6. CASE ReceiveWake
  <2> DEFINE read == [chip EXCEPT !.out = Nothing]
  <2>1. IsChip(read) /\ read.key = chip.key
    BY DEF AnswerInv, IsChip
  <2> HIDE DEF read
  <2>2. CASE chip' = read /\ pc' = "command" /\ UNCHANGED <<step, status, answer>>
    BY <1>6, <2>1, <2>2 DEF AnswerInv, ReceiveWake, OkMeansDone
  <2>3. CASE \E c \in {read, chip} : WakeFailed(c)
    <3>1. PICK c \in {read, chip} : WakeFailed(c)
      BY <2>3
    <3>2. IsChip(chip') /\ chip'.key \in {chip.key, NoKey}
      BY <2>1, <3>1, WaitFacts DEF WakeFailed, Wait, AnswerInv
    <3>3. UNCHANGED <<call, mem, locked>> /\ pc = "woken"
      BY <1>6 DEF ReceiveWake
    <3>4. CASE pc' = "wake" /\ UNCHANGED <<step, status, answer>>
      BY <3>2, <3>3, <3>4 DEF AnswerInv, OkMeansDone
    <3>5. CASE Return("comm")
      BY <3>2, <3>3, <3>5, FailedReturn
    <3> QED BY <3>1, <3>4, <3>5 DEF WakeFailed
  <2> QED BY <1>6, <2>2, <2>3 DEF ReceiveWake, read
<1>7. CASE NoPacket
  BY <1>7, FailedReturn DEF NoPacket, AnswerInv
\* A failed try of command() loses nothing but TempKey and the answer.
<1>a. ASSUME NEW c, IsChip(c), c.key = chip.key, NEW n, NEW st, st # "ok",
             CommandFailed(c, n, st), pc # "app",
             UNCHANGED <<call, mem, locked>>
      PROVE  AnswerInv'
  <2>1. IsChip(chip') /\ chip'.key \in {chip.key, NoKey}
    BY <1>a, WaitFacts DEF CommandFailed, Wait
  <2>2. CASE pc' = "command" /\ UNCHANGED <<step, status, answer>>
    BY <1>a, <2>1, <2>2 DEF AnswerInv, OkMeansDone
  <2>3. CASE Return(st)
    BY <1>a, <2>1, <2>3, FailedReturn
  <2> QED BY <1>a, <2>2, <2>3 DEF CommandFailed
<1>8. CASE SendToAwake
  <2>1. /\ pc = "command" /\ call \in ApiCall /\ step \in DOMAIN call
        /\ UNCHANGED call
    BY <1>8, RequestFacts DEF SendToAwake, AnswerInv
  <2>2. CASE /\ Wait(Answering(chip, cmd, mem, locked))
             /\ IF Accepts(cmd, chip.key, locked)
                THEN mem' = MemAfter(cmd, mem) /\ locked' = LockedAfter(cmd, locked)
                ELSE UNCHANGED <<mem, locked>>
             /\ pc' = "sent" /\ UNCHANGED <<step, status, answer>>
    <3> DEFINE d == Answering(chip, call[step], mem, locked)
    <3>1. /\ IsChip(d)
          /\ d.out \in Noise \/ Right(call, step, d.key, d.out, mem', locked')
          /\ step # 1 => d.key = NoKey
          /\ mem' \in [Word -> Value]
      BY <2>1, <2>2, SendFacts DEF AnswerInv, cmd
    <3> HIDE DEF d
    <3>2. chip' \in AfterWait(d)
      BY <2>2 DEF Wait, d, cmd
    <3>3. /\ IsChip(chip')
          /\ chip'.key \in {d.key, NoKey}
          /\ chip'.out \in {d.out, Nothing}
          /\ chip'.key = d.key \/ chip'.out = Nothing
      BY <3>1, <3>2, WaitFacts
    <3>4. \/ chip'.out \in Noise
          \/ Right(call, step, chip'.key, chip'.out, mem', locked')
      BY <3>1, <3>3 DEF Noise
    <3>5. step # 1 => chip'.key \in {NoKey, call[1][2]}
      BY <3>1, <3>3
    <3> QED BY <2>1, <2>2, <3>1, <3>3, <3>4, <3>5 DEF AnswerInv, OkMeansDone
  <2>3. CASE /\ Wait([chip EXCEPT !.out = Status("comm")])
             /\ pc' = "sent" /\ UNCHANGED <<step, status, answer, mem, locked>>
    <3> DEFINE d == [chip EXCEPT !.out = Status("comm")]
    <3>1. IsChip(d) /\ d.key = chip.key /\ d.out = Status("comm")
      BY DEF AnswerInv, IsChip
    <3>2. chip' \in AfterWait(d)
      BY <2>3 DEF Wait
    <3> HIDE DEF d
    <3>3. IsChip(chip') /\ chip'.key \in {chip.key, NoKey} /\ chip'.out \in Noise
      BY <3>1, <3>2, WaitFacts DEF Noise
    <3> QED BY <2>1, <2>3, <3>3 DEF AnswerInv, OkMeansDone
  <2>4. CASE CommandFailed(chip, tries - 1, "comm") /\ UNCHANGED <<mem, locked>>
    BY <1>a, <2>1, <2>4 DEF AnswerInv
  <2> QED BY <1>8, <2>2, <2>3, <2>4 DEF SendToAwake
<1>9. CASE SendToAsleep
  <2>1. pc = "command" /\ UNCHANGED <<call, mem, locked>>
    BY <1>9 DEF SendToAsleep
  <2>2. CASE CommandFailed(chip, tries - 1, "comm")
    BY <1>a, <2>1, <2>2 DEF AnswerInv
  <2>3. CASE /\ Wait(WakePulse(chip)) /\ chip.mode # "awake"
             /\ pc' = "sent" /\ UNCHANGED <<step, status, answer>>
    <3> DEFINE d == WakePulse(chip)
    <3>1. IsChip(d) /\ d.key = chip.key /\ d.out = Status("wake")
      BY <2>3 DEF WakePulse, AnswerInv, IsChip
    <3>2. chip' \in AfterWait(d)
      BY <2>3 DEF Wait
    <3> HIDE DEF d
    <3>3. IsChip(chip') /\ chip'.key \in {chip.key, NoKey} /\ chip'.out \in Noise
      BY <3>1, <3>2, WaitFacts DEF Noise
    <3> QED BY <2>1, <2>3, <3>3 DEF AnswerInv, OkMeansDone
  <2> QED BY <1>9, <2>2, <2>3 DEF SendToAsleep
<1>10. CASE Receive
  <2> DEFINE read == [chip EXCEPT !.out = Nothing]
  <2>1. IsChip(read) /\ read.key = chip.key
    BY DEF AnswerInv, IsChip
  <2> HIDE DEF read
  <2>2. /\ pc = "sent" /\ UNCHANGED <<call, mem, locked>>
        /\ call \in Requests /\ step \in DOMAIN call
    BY <1>10 DEF Receive, AnswerInv
  <2>3. CASE \E c \in {read, chip}, n \in {tries, -1}, st \in {"comm", "bad"} :
               CommandFailed(c, n, st)
    BY <1>a, <2>1, <2>2, <2>3 DEF AnswerInv
  <2>4. CASE chip' = read /\ Return("bad")
    BY <2>1, <2>2, <2>4, FailedReturn
  <2>5. CASE /\ chip.out # Nothing /\ ~Refused(chip.out) /\ ~Hopeless(chip.out)
             /\ chip' = read
             /\ IF step < Len(call)
                THEN step' = step + 1 /\ pc' = "command"
                ELSE pc' = "idle" /\ UNCHANGED step
             /\ answer' = chip.out
    <3>1. Right(call, step, chip.key, chip.out, mem, locked)
      BY <2>2, <2>5 DEF AnswerInv, Noise, Refused, Hopeless
    <3>n. Len(call) \in Nat /\ DOMAIN call = 1..Len(call)
      BY <2>2, RequestFacts
    <3>2. step \in Nat /\ 1 <= step /\ step <= Len(call)
      BY <2>2, <3>n
    <3>m. \A n \in Nat : step <= n => (step < n <=> step # n)
      BY <3>2
    <3>3. CASE step < Len(call)
      <4>0. step # Len(call)
        BY <3>2, <3>3, <3>n, <3>m
      <4>1. chip'.key = call[1][2]
        BY <2>1, <2>5, <3>1, <4>0 DEF Right
      <4>2. step' \in DOMAIN call
        BY <2>5, <3>2, <3>3, <3>n
      <4> QED BY <2>1, <2>2, <2>5, <3>3, <4>1, <4>2 DEF AnswerInv, OkMeansDone
    <3>4. CASE ~(step < Len(call))
      <4>0. step = Len(call)
        BY <3>2, <3>4, <3>n, <3>m
      <4>1. Satisfies(call, chip.out, mem, locked)
        BY <3>1, <4>0 DEF Right
      <4> QED BY <2>1, <2>2, <2>5, <3>4, <4>1 DEF AnswerInv, OkMeansDone
    <3> QED BY <3>3, <3>4
  <2> QED BY <1>10, <2>3, <2>4, <2>5 DEF Receive, read
<1>11. CASE Idle
  <2>1. IsChip(IdleWord(chip))
    BY DEF AnswerInv, IsChip, IdleWord
  <2> QED BY <1>11, <2>1 DEF AnswerInv, Idle, Return, OkMeansDone
<1>12. CASE UNCHANGED vars
  BY <1>12 DEF AnswerInv, vars, hostVars, OkMeansDone
<1> QED
  BY <1>1, <1>2, <1>3, <1>4, <1>5, <1>6, <1>7, <1>8, <1>9, <1>10, <1>11, <1>12
  DEF Next, HostStep

\* A call that returns ATSHA_ERR_OK has done what it was asked and returns the
\* answer to its own request, whatever the bus loses, corrupts or repeats,
\* whenever the chip falls asleep, and whatever was left by earlier calls.
THEOREM AnswersAreRight == Spec => []OkMeansDone
<1>1. AnswerInv => OkMeansDone
  BY DEF AnswerInv
<1> QED BY <1>1, AnswerInit, AnswerStep, PTL DEF Spec

-----------------------------------------------------------------------------
(* Types, given the invariant above.                                       *)

LEMMA WaitTypes ==
  ASSUME NEW c \in Chips, NEW d \in AfterWait(c)
  PROVE  d \in Chips
<1>1. Asleep \in Chips
  BY ChipAssumption DEF Asleep, Chips
<1>2. ASSUME c.age + 1 < WD_MAX PROVE [c EXCEPT !.age = @ + 1] \in Chips
  BY <1>2, ChipAssumption DEF Chips
<1> QED BY <1>1, <1>2 DEF AfterWait

LEMMA ChipTypes ==
  ASSUME NEW c \in Chips
  PROVE  /\ WakePulse(c) \in Chips /\ IdleWord(c) \in Chips
         /\ [c EXCEPT !.out = Nothing] \in Chips
         /\ [c EXCEPT !.out = Status("comm")] \in Chips
<1>1. 0 \in 0..WD_MAX
  BY ChipAssumption
<1>2. Status("wake") \in Answers /\ Status("comm") \in Answers
  BY DEF Answers
<1>3. WakePulse(c) \in Chips
  BY <1>1, <1>2 DEF Chips, WakePulse
<1>4. IdleWord(c) \in Chips
  BY <1>1 DEF Chips, IdleWord
<1>5. [c EXCEPT !.out = Nothing] \in Chips /\ [c EXCEPT !.out = Status("comm")] \in Chips
  BY <1>2 DEF Chips
<1> QED BY <1>3, <1>4, <1>5

\* What the chip makes of a command of a call.
LEMMA AnsweringTypes ==
  ASSUME NEW r \in ApiCall, NEW s \in DOMAIN r, NEW m \in [Word -> Value],
         NEW l \in LockStates, NEW c \in Chips
  PROVE  /\ Answering(c, r[s], m, l) \in Chips
         /\ Accepts(r[s], c.key, l) => LockedAfter(r[s], l) \in LockStates
<1> DEFINE x == r[s]
<1>1. \/ x \in {<<"devrev">>, <<"random">>, <<"serial">>}
      \/ x \in {<<"lock", "conf">>, <<"lock", "data">>}
      \/ \E t \in Slot, h \in Challenge : x = <<"mac", t, h>>
      \/ \E w \in Word : x = <<"read", w>>
      \/ \E w \in Word, v \in Value : x = <<"write", w, v>>
      \/ \E h \in Challenge : x = <<"nonce", h>>
      \/ \E t \in Slot : x = <<"hmac", t>>
  BY CommandShape
<1> HIDE DEF x
<1>2. c.key \in Challenge \cup {NoKey}
  BY DEF Chips
<1>3. Accepts(x, c.key, l) => AnswerTo(x, c.key, m) \in Answers
  BY <1>1, <1>2 DEF Accepts, AnswerTo, Answers
<1>4. (IF x[1] = "nonce" THEN x[2] ELSE NoKey) \in Challenge \cup {NoKey}
  BY <1>1
<1>5. Answering(c, x, m, l) \in Chips
  <2>1. Status("exec") \in Answers
    BY DEF Answers
  <2>2. (IF Accepts(x, c.key, l) THEN AnswerTo(x, c.key, m) ELSE Status("exec")) \in Answers
    BY <1>3, <2>1
  <2> QED BY <1>4, <2>2 DEF Answering, Chips
<1>6. Accepts(x, c.key, l) => LockedAfter(x, l) \in LockStates
  BY <1>1 DEF Accepts, Lockable, LockedAfter, LockStates
<1> QED BY <1>5, <1>6 DEF x

TypeInv ==
  /\ TypeOK
  /\ pc \in {"wake", "command"} => tries >= 0
  /\ pc \in {"woken", "sent"} => tries < FirstTry

LEMMA TypeInit == Init => TypeInv
<1>1. Asleep \in Chips
  BY ChipAssumption DEF Asleep, Chips
<1>2. 0 \in -1..FirstTry
  BY CommunicationAssumption DEF FirstTry
<1> QED
  BY <1>1, <1>2 DEF Init, NewHandle, TypeInv, TypeOK, Statuses

LEMMA TypeStep == AnswerInv /\ AnswerInv' /\ TypeInv /\ [Next]_vars => TypeInv'
<1> SUFFICES ASSUME AnswerInv, AnswerInv', TypeInv, [Next]_vars PROVE TypeInv'
  OBVIOUS
<1>0. /\ mem' \in [Word -> Value] /\ call' \in Requests \cup {NoCall}
      /\ pc' # "app" => call' # NoCall /\ step' \in DOMAIN call'
  BY RequestFacts DEF AnswerInv
<1>a. FirstTry \in Nat /\ FirstTry >= 1 /\ tries \in -1..FirstTry
  BY CommunicationAssumption DEF FirstTry, TypeInv, TypeOK
<1>b. ASSUME NEW st \in Statuses, Return(st)
      PROVE  /\ pc' = "app" /\ tries' \in -1..FirstTry /\ status' \in Statuses
             /\ answer' \in Answers \cup {NoAnswer}
  BY <1>b, <1>a DEF Return, TypeInv, TypeOK
<1>c. ASSUME NEW c \in {WakePulse(chip), IdleWord(chip), [chip EXCEPT !.out = Nothing],
                        [chip EXCEPT !.out = Status("comm")], chip}
      PROVE  c \in Chips /\ (Wait(c) => chip' \in Chips)
  <2>1. c \in Chips
    BY ChipTypes DEF TypeInv, TypeOK
  <2> QED BY <2>1, WaitTypes DEF Wait
<1>1. ASSUME NEW r \in Requests, Call(r) PROVE TypeInv'
  <2>1. CASE Return("invalid")
    BY <1>0, <1>1, <1>b, <2>1 DEF Call, TypeInv, TypeOK, Statuses
  <2>2. CASE ~Return("invalid")
    BY <1>0, <1>1, <1>a, <2>2 DEF Call, TypeInv, TypeOK, Statuses
  <2> QED BY <2>1, <2>2
<1>2. CASE AppWaits
  BY <1>0, <1>2, <1>c DEF AppWaits, hostVars, TypeInv, TypeOK
<1>3. CASE Reopen
  BY <1>3 DEF Reopen, TypeInv, TypeOK
<1>4. CASE Killed
  BY <1>0, <1>4, <1>b DEF Killed, BusFails, TypeInv, TypeOK, Statuses
<1>5. CASE SendWake
  <2>1. chip' \in Chips
    BY <1>5, <1>c DEF SendWake
  <2>2. tries' \in -1..FirstTry /\ tries' < FirstTry
    BY <1>5, <1>a DEF SendWake, TypeInv
  <2> QED BY <1>0, <1>5, <2>1, <2>2 DEF SendWake, BusFails, TypeInv, TypeOK
<1>6. CASE ReceiveWake
  <2>1. CASE chip' = [chip EXCEPT !.out = Nothing] /\ pc' = "command" /\ tries' = FirstTry
             /\ wake_is_expected' = TRUE /\ UNCHANGED <<step, status, answer>>
    <3>1. chip' \in Chips
      BY <2>1, <1>c
    <3>2. trouble' \in {"none", "start", "bus"} /\ UNCHANGED <<call, mem, locked>>
      BY <1>6 DEF ReceiveWake, BusFails, TypeInv, TypeOK
    <3> QED BY <1>0, <1>a, <2>1, <3>1, <3>2 DEF TypeInv, TypeOK
  <2>2. CASE \E c \in {[chip EXCEPT !.out = Nothing], chip} : WakeFailed(c)
    <3>1. chip' \in Chips
      BY <2>2, <1>c DEF WakeFailed
    <3>2. trouble' \in {"none", "start", "bus"} /\ UNCHANGED <<call, mem, locked>>
      BY <1>6 DEF ReceiveWake, BusFails, TypeInv, TypeOK
    <3>3. CASE Return("comm") /\ wake_is_expected' = TRUE
      BY <1>0, <1>b, <3>1, <3>2, <3>3 DEF TypeInv, TypeOK, Statuses
    <3>4. CASE tries >= 0 /\ pc' = "wake"
               /\ UNCHANGED <<step, tries, status, answer, wake_is_expected>>
      BY <1>0, <3>1, <3>2, <3>4 DEF TypeInv, TypeOK
    <3> QED BY <2>2, <3>3, <3>4 DEF WakeFailed
  <2> QED BY <1>6, <2>1, <2>2 DEF ReceiveWake
<1>7. CASE NoPacket
  BY <1>0, <1>7, <1>b DEF NoPacket, BusFails, TypeInv, TypeOK, Statuses
<1>d. ASSUME NEW c, NEW n \in -1..FirstTry, NEW st \in Statuses, CommandFailed(c, n, st),
             chip' \in Chips, trouble' \in {"none", "start", "bus"},
             UNCHANGED <<call, wake_is_expected, mem, locked>>
      PROVE  TypeInv'
  <2>1. CASE Return(st)
    BY <1>0, <1>b, <1>d, <2>1 DEF TypeInv, TypeOK
  <2>2. CASE n >= 0 /\ pc' = "command" /\ tries' = n /\ UNCHANGED <<step, status, answer>>
    BY <1>0, <1>d, <2>2 DEF TypeInv, TypeOK
  <2> QED BY <1>d, <2>1, <2>2 DEF CommandFailed
<1>8. CASE SendToAwake
  <2>1. /\ pc = "command" /\ call \in ApiCall /\ step \in DOMAIN call
        /\ UNCHANGED <<call, wake_is_expected>>
        /\ trouble' \in {"none", "start", "bus"}
    BY <1>8, RequestFacts DEF SendToAwake, AnswerInv, BusFails, TypeInv, TypeOK
  <2>2. tries - 1 \in -1..FirstTry /\ tries - 1 < FirstTry
    BY <1>a, <2>1 DEF TypeInv
  <2>3. CASE /\ Wait(Answering(chip, cmd, mem, locked))
             /\ IF Accepts(cmd, chip.key, locked)
                THEN mem' = MemAfter(cmd, mem) /\ locked' = LockedAfter(cmd, locked)
                ELSE UNCHANGED <<mem, locked>>
             /\ pc' = "sent" /\ tries' = tries - 1
             /\ UNCHANGED <<step, status, answer>>
    <3>1. /\ Answering(chip, cmd, mem, locked) \in Chips
          /\ Accepts(cmd, chip.key, locked) => LockedAfter(cmd, locked) \in LockStates
      BY <2>1, AnsweringTypes DEF cmd, TypeInv, TypeOK
    <3>2. chip' \in Chips
      BY <2>3, <3>1, WaitTypes DEF Wait
    <3>3. locked' \in LockStates
      BY <2>3, <3>1 DEF TypeInv, TypeOK
    <3> QED BY <1>0, <2>1, <2>2, <2>3, <3>2, <3>3 DEF TypeInv, TypeOK
  <2>4. CASE /\ Wait([chip EXCEPT !.out = Status("comm")])
             /\ pc' = "sent" /\ tries' = tries - 1
             /\ UNCHANGED <<step, status, answer, mem, locked>>
    <3>1. chip' \in Chips
      BY <2>4, <1>c
    <3> QED BY <1>0, <2>1, <2>2, <2>4, <3>1 DEF TypeInv, TypeOK
  <2>5. CASE CommandFailed(chip, tries - 1, "comm") /\ UNCHANGED <<mem, locked>>
    <3>1. chip' \in Chips
      BY <2>5, <1>c DEF CommandFailed
    <3> QED BY <1>d, <2>1, <2>2, <2>5, <3>1 DEF Statuses
  <2> QED BY <1>8, <2>3, <2>4, <2>5 DEF SendToAwake
<1>9. CASE SendToAsleep
  <2>1. /\ pc = "command" /\ UNCHANGED <<call, wake_is_expected, mem, locked>>
        /\ trouble' \in {"none", "start", "bus"}
    BY <1>9 DEF SendToAsleep, BusFails, TypeInv, TypeOK
  <2>2. tries - 1 \in -1..FirstTry /\ tries - 1 < FirstTry
    BY <1>a, <2>1 DEF TypeInv
  <2>3. CASE CommandFailed(chip, tries - 1, "comm")
    <3>1. chip' \in Chips
      BY <2>3, <1>c DEF CommandFailed
    <3> QED BY <1>d, <2>1, <2>2, <2>3, <3>1 DEF Statuses
  <2>4. CASE /\ Wait(WakePulse(chip)) /\ pc' = "sent" /\ tries' = tries - 1
             /\ UNCHANGED <<step, status, answer>>
    <3>1. chip' \in Chips
      BY <2>4, <1>c
    <3> QED BY <1>0, <2>1, <2>2, <2>4, <3>1 DEF TypeInv, TypeOK
  <2> QED BY <1>9, <2>3, <2>4 DEF SendToAsleep
<1>10. CASE Receive
  <2> DEFINE read == [chip EXCEPT !.out = Nothing]
  <2>1. /\ UNCHANGED <<call, wake_is_expected, mem, locked>>
        /\ trouble' \in {"none", "start", "bus"}
    BY <1>10 DEF Receive, BusFails, TypeInv, TypeOK
  <2>2. read \in Chips /\ chip.out \in Answers \cup {Nothing}
    BY <1>c DEF TypeInv, TypeOK, Chips
  <2>3. CASE \E c \in {read, chip}, n \in {tries, -1}, st \in {"comm", "bad"} :
               CommandFailed(c, n, st)
    <3>1. PICK c \in {read, chip}, n \in {tries, -1}, st \in {"comm", "bad"} :
            CommandFailed(c, n, st)
      BY <2>3
    <3>2. chip' \in Chips
      BY <1>c, <3>1 DEF CommandFailed
    <3> QED BY <1>a, <1>d, <2>1, <3>1, <3>2 DEF Statuses
  <2>4. CASE chip' = read /\ Return("bad")
    BY <1>0, <1>b, <2>1, <2>2, <2>4 DEF TypeInv, TypeOK, Statuses
  <2>5. CASE /\ chip' = read /\ chip.out # Nothing /\ answer' = chip.out
             /\ IF step < Len(call) THEN pc' = "command" /\ tries' = FirstTry
                ELSE pc' = "idle" /\ UNCHANGED tries
             /\ UNCHANGED status
    BY <1>0, <1>a, <2>1, <2>2, <2>5 DEF TypeInv, TypeOK
  <2> QED BY <1>10, <2>3, <2>4, <2>5 DEF Receive, read
<1>11. CASE Idle
  <2>1. chip' \in Chips /\ trouble' \in {"none", "start", "bus"}
    BY <1>11, <1>c DEF Idle, BusFails, TypeInv, TypeOK
  <2> QED BY <1>0, <1>11, <1>b, <2>1 DEF Idle, TypeInv, TypeOK, Statuses
<1>12. CASE UNCHANGED vars
  BY <1>12 DEF vars, hostVars, TypeInv, TypeOK
<1> QED
  BY <1>1, <1>2, <1>3, <1>4, <1>5, <1>6, <1>7, <1>8, <1>9, <1>10, <1>11, <1>12
  DEF Next, HostStep

\* The retry loops end where their counters do, the chip's answers are those
\* of commands that were sent, and the zones are locked in their order.
THEOREM TypesAreRight == Spec => []TypeOK
<1>1. TypeInv => TypeOK
  BY DEF TypeInv
<1> QED BY <1>1, AnswerInit, AnswerStep, TypeInit, TypeStep, PTL DEF Spec

-----------------------------------------------------------------------------
(* The library implements ChipService.  Inside a call a step either leaves *)
(* the memory and the locks alone, or is the chip carrying out a command   *)
(* of the call; the call that ends without ATSHA_ERR_OK promises nothing.  *)

LEMMA ServiceStutter ==
  ASSUME pc # "app", pc' # "app", UNCHANGED <<call, mem, locked>>
  PROVE  UNCHANGED Service!vars
BY DEF Service!vars

LEMMA ServiceFailure ==
  ASSUME AnswerInv, pc # "app", NEW st, st # "ok", Return(st),
         UNCHANGED <<call, mem, locked>>
  PROVE  Service!Next
<1>1. call # NoCall
  BY RequestFacts DEF AnswerInv
<1>2. Service!Return
  BY <1>1 DEF Service!Return, Return
<1> QED BY <1>2 DEF Service!Next

\* A command changes the memory, or the locks, or neither.
LEMMA ServiceChange ==
  ASSUME AnswerInv, pc = "command", pc' # "app", UNCHANGED call,
         IF Accepts(cmd, chip.key, locked)
         THEN mem' = MemAfter(cmd, mem) /\ locked' = LockedAfter(cmd, locked)
         ELSE UNCHANGED <<mem, locked>>
  PROVE  Service!Change \/ UNCHANGED Service!vars
<1>1. call \in Requests /\ call # NoCall /\ step \in DOMAIN call
  BY RequestFacts DEF AnswerInv
<1>2. CASE UNCHANGED <<mem, locked>>
  BY <1>2, ServiceStutter
<1>3. CASE cmd[1] = "write" /\ mem' = MemAfter(cmd, mem) /\ locked' = LockedAfter(cmd, locked)
  <2>1. mem' = [mem EXCEPT ![call[step][2]] = call[step][3]] /\ locked' = locked
    BY <1>3 DEF MemAfter, LockedAfter, cmd
  <2> QED BY <1>1, <1>3, <2>1 DEF Service!Change, cmd
<1>4. CASE cmd[1] = "lock" /\ mem' = MemAfter(cmd, mem) /\ locked' = LockedAfter(cmd, locked)
  <2>1. locked' = locked \cup {call[step][2]} /\ mem' = mem
    BY <1>4 DEF MemAfter, LockedAfter, cmd
  <2> QED BY <1>1, <1>4, <2>1 DEF Service!Change, cmd
<1> QED BY <1>2, <1>3, <1>4 DEF MemAfter, LockedAfter

LEMMA ServiceStep == AnswerInv /\ [Next]_vars => [Service!Next]_(Service!vars)
<1> SUFFICES ASSUME AnswerInv, [Next]_vars PROVE [Service!Next]_(Service!vars)
  OBVIOUS
<1>1. ASSUME NEW r \in Requests, Call(r) PROVE Service!Next
  <2>1. CASE pc' = "app"
    <3>1. Service!Reject
      BY <1>1, <2>1 DEF Call, Return, Service!Reject
    <3> QED BY <3>1 DEF Service!Next
  <2>2. CASE pc' # "app"
    <3>1. Service!Begin(r)
      BY <1>1, <2>2 DEF Call, Return, Service!Begin
    <3> QED BY <3>1 DEF Service!Next
  <2> QED BY <2>1, <2>2
<1>2. CASE AppWaits \/ Reopen
  BY <1>2 DEF AppWaits, Reopen, hostVars, Service!vars
<1>3. CASE Killed
  BY <1>3, ServiceFailure DEF Killed
<1>4. CASE SendWake
  BY <1>4, ServiceStutter DEF SendWake
<1>5. CASE ReceiveWake
  <2>1. UNCHANGED <<call, mem, locked>> /\ pc = "woken"
    BY <1>5 DEF ReceiveWake
  <2>2. CASE pc' \in {"command", "wake"}
    BY <2>1, <2>2, ServiceStutter
  <2>3. CASE Return("comm")
    BY <2>1, <2>3, ServiceFailure
  <2> QED BY <1>5, <2>2, <2>3 DEF ReceiveWake, WakeFailed
<1>6. CASE NoPacket
  BY <1>6, ServiceFailure DEF NoPacket
<1>7. ASSUME NEW c, NEW n, NEW st, st # "ok", CommandFailed(c, n, st),
             pc # "app", UNCHANGED <<call, mem, locked>>
      PROVE  [Service!Next]_(Service!vars)
  BY <1>7, ServiceFailure, ServiceStutter DEF CommandFailed
<1>8. CASE SendToAwake
  <2>1. pc = "command" /\ UNCHANGED call
    BY <1>8 DEF SendToAwake
  <2>2. CASE /\ IF Accepts(cmd, chip.key, locked)
                THEN mem' = MemAfter(cmd, mem) /\ locked' = LockedAfter(cmd, locked)
                ELSE UNCHANGED <<mem, locked>>
             /\ pc' = "sent"
    BY <2>1, <2>2, ServiceChange DEF Service!Next
  <2>3. CASE pc' = "sent" /\ UNCHANGED <<mem, locked>>
    BY <2>1, <2>3, ServiceStutter
  <2>4. CASE CommandFailed(chip, tries - 1, "comm") /\ UNCHANGED <<mem, locked>>
    BY <1>7, <2>1, <2>4
  <2> QED BY <1>8, <2>2, <2>3, <2>4 DEF SendToAwake
<1>9. CASE SendToAsleep
  <2>1. pc = "command" /\ UNCHANGED <<call, mem, locked>>
    BY <1>9 DEF SendToAsleep
  <2>2. CASE CommandFailed(chip, tries - 1, "comm")
    BY <1>7, <2>1, <2>2
  <2>3. CASE pc' = "sent"
    BY <2>1, <2>3, ServiceStutter
  <2> QED BY <1>9, <2>2, <2>3 DEF SendToAsleep
<1>10. CASE Receive
  <2>1. pc = "sent" /\ UNCHANGED <<call, mem, locked>>
    BY <1>10 DEF Receive
  <2>2. CASE \E c, n, st : st # "ok" /\ CommandFailed(c, n, st)
    BY <1>7, <2>1, <2>2
  <2>3. CASE Return("bad")
    BY <2>1, <2>3, ServiceFailure
  <2>4. CASE pc' \in {"command", "idle"}
    BY <2>1, <2>4, ServiceStutter
  <2> QED BY <1>10, <2>2, <2>3, <2>4 DEF Receive
<1>11. CASE Idle
  <2>1. call # NoCall /\ Satisfies(call, answer, mem, locked)
    BY <1>11, RequestFacts DEF AnswerInv, Idle
  <2>a. /\ pc = "idle" /\ pc' = "app" /\ status' = "ok"
        /\ UNCHANGED <<call, answer, mem, locked>>
    BY <1>11 DEF Idle, Return
  <2>b. Service!Satisfies(call, answer, mem, locked)
    BY <2>1 DEF Satisfies, Service!Satisfies
  <2>2. Service!Return
    BY <2>1, <2>a, <2>b DEF Service!Return
  <2> QED BY <2>2 DEF Service!Next
<1>12. CASE UNCHANGED vars
  BY <1>12 DEF vars, hostVars, Service!vars
<1> QED
  BY <1>1, <1>2, <1>3, <1>4, <1>5, <1>6, <1>8, <1>9, <1>10, <1>11, <1>12
  DEF Next, HostStep

\* What a caller of the library may rely on is ChipService: the memory and the
\* locks of the chip change only as the call in progress asks, and a call that
\* returns ATSHA_ERR_OK has the answer to its own request.
THEOREM ImplementsService == Spec => ServiceSpec
<1>1. Init => Service!Init
  BY DEF Init, NewHandle, Service!Init
<1> QED BY <1>1, AnswerInit, AnswerStep, ServiceStep, PTL
        DEF Spec, ServiceSpec, Service!Spec

-----------------------------------------------------------------------------
(* A handle in step with its chip stays so.                                *)

LEMMA NotAwakeWaits ==
  ASSUME NEW c, c.mode # "awake", NEW d \in AfterWait(c)
  PROVE  d = c
BY DEF AfterWait

LEMMA KeepsStart == Init => HandleKeepsWorking
BY DEF Init, NewHandle, HandleKeepsWorking

LEMMA KeepsStep == AnswerInv /\ HandleKeepsWorking /\ [Next]_vars => HandleKeepsWorking'
<1> SUFFICES ASSUME AnswerInv, HandleKeepsWorking, [Next]_vars
             PROVE  HandleKeepsWorking'
  OBVIOUS
\* Only idle() returns ATSHA_ERR_OK.
<1>a. ASSUME NEW st, st # "ok", Return(st) PROVE HandleKeepsWorking'
  BY <1>a DEF Return, HandleKeepsWorking
<1>b. CASE pc' # "app"
  BY <1>b DEF HandleKeepsWorking
<1>1. ASSUME NEW r \in Requests, Call(r) PROVE HandleKeepsWorking'
  BY <1>1, <1>a, <1>b DEF Call
<1>2. CASE AppWaits
  <2>1. chip.mode # "awake" => chip' = chip
    BY <1>2, NotAwakeWaits DEF AppWaits, Wait
  <2> QED BY <1>2, <2>1 DEF AppWaits, hostVars, HandleKeepsWorking
<1>3. CASE Reopen
  BY <1>3 DEF Reopen, HandleKeepsWorking
<1>4. CASE Killed
  BY <1>4, <1>a DEF Killed
<1>5. CASE SendWake
  BY <1>5, <1>b DEF SendWake
<1>6. CASE ReceiveWake
  BY <1>6, <1>a, <1>b DEF ReceiveWake, WakeFailed
<1>7. CASE NoPacket
  BY <1>7, <1>a DEF NoPacket
<1>8. CASE SendToAwake
  BY <1>8, <1>a, <1>b DEF SendToAwake, CommandFailed
<1>9. CASE SendToAsleep
  BY <1>9, <1>a, <1>b DEF SendToAsleep, CommandFailed
<1>10. CASE Receive
  <2>1. ASSUME NEW c, NEW n, NEW st, st # "ok", CommandFailed(c, n, st)
        PROVE  HandleKeepsWorking'
    BY <2>1, <1>a, <1>b DEF CommandFailed
  <2>2. \/ \E c, n : CommandFailed(c, n, "comm") \/ CommandFailed(c, n, "bad")
        \/ Return("bad")
        \/ pc' \in {"command", "idle"}
    BY <1>10 DEF Receive
  <2> QED BY <2>1, <2>2, <1>a, <1>b
<1>11. CASE Idle
  <2>1. IdleWord(chip).mode # "awake"
    BY DEF AnswerInv, IsChip, IdleWord
  <2> QED BY <1>11, <2>1 DEF Idle, BusFails, HandleKeepsWorking
<1>12. CASE UNCHANGED vars
  BY <1>12 DEF vars, hostVars, HandleKeepsWorking
<1> QED
  BY <1>1, <1>2, <1>3, <1>4, <1>5, <1>6, <1>7, <1>8, <1>9, <1>10, <1>11, <1>12
  DEF Next, HostStep

\* A handle goes on working as long as no transfer fails.
THEOREM HandleGoesOn == Spec => []HandleKeepsWorking
BY AnswerInit, AnswerStep, KeepsStart, KeepsStep, PTL DEF Spec

-----------------------------------------------------------------------------
(* What the chip makes of a call that it can carry out                     *)

\* An answer that command() and its caller take for one.
Good(x, out) ==
  /\ out # Nothing /\ ~Refused(out) /\ ~Hopeless(out)
  /\ x[1] \in {"nonce", "write", "lock"} => out = Status("success")

\* Which commands are accepted depends on TempKey for HMAC only.
LEMMA AllowedFacts ==
  ASSUME NEW r \in ApiCall, NEW s \in DOMAIN r, NEW k
  PROVE  /\ Allowed(r) /\ (s # 1 => k # NoKey) => Accepts(r[s], k, locked)
         /\ ~Allowed(r) => ~Accepts(r[s], k, locked)
<1>1. CASE \E x \in Lone : r = <<x>>
  <2>1. PICK x \in Lone : r = <<x>>
    BY <1>1
  <2>2. s = 1 /\ r[s] = x /\ DOMAIN r = {1}
    BY <2>1
  <2>3. x[1] # "hmac"
    BY DEF Lone
  <2>4. Accepts(x, k, locked) = Accepts(x, NoKey, locked)
    BY <2>3 DEF Accepts
  <2>5. Allowed(r) <=> Accepts(x, NoKey, locked)
    BY <2>2, <2>3 DEF Allowed
  <2> QED BY <2>2, <2>4, <2>5
<1>2. CASE \E t \in Slot, h \in Challenge : r = LowChallengeResponse(t, h)
  <2>1. PICK t \in Slot, h \in Challenge : r = << <<"nonce", h>>, <<"hmac", t>> >>
    BY <1>2 DEF LowChallengeResponse
  <2>2. DOMAIN r = {1, 2} /\ r[1] = <<"nonce", h>> /\ r[2] = <<"hmac", t>>
    BY <2>1
  <2>3. \A key : Accepts(<<"nonce", h>>, key, locked)
    BY DEF Accepts
  <2>4. k # NoKey => Accepts(<<"hmac", t>>, k, locked)
    BY DEF Accepts
  <2>5. Allowed(r)
    BY <2>2, <2>3 DEF Allowed
  <2> QED BY <2>2, <2>3, <2>4, <2>5
<1> QED BY <1>1, <1>2, CallShape

\* The answer to a command is a good one.
LEMMA GoodAnswers ==
  ASSUME NEW r \in ApiCall, NEW s \in DOMAIN r, NEW k, NEW m
  PROVE  Good(r[s], AnswerTo(r[s], k, m))
<1>1. r[s][1] \in {"devrev", "random", "serial", "lock", "mac", "read", "write", "nonce", "hmac"}
  <2>1. CASE \E x \in Lone : r = <<x>>
    <3>1. PICK x \in Lone : r = <<x>>
      BY <2>1
    <3>2. r[s] = x
      BY <3>1
    <3> QED BY <3>2 DEF Lone
  <2>2. CASE \E t \in Slot, h \in Challenge : r = LowChallengeResponse(t, h)
    BY <2>2 DEF LowChallengeResponse
  <2> QED BY <2>1, <2>2, CallShape
<1> DEFINE x == r[s]
           a == AnswerTo(x, k, m)
<1>2. \/ a = <<"hmac", x[2], k>> /\ x[1] = "hmac"
      \/ a = <<"mac", x[2], x[3]>> /\ x[1] = "mac"
      \/ a = <<"data", m[x[2]]>> /\ x[1] = "read"
      \/ a = <<"random">> /\ x[1] = "random"
      \/ a = <<"devrev">> /\ x[1] = "devrev"
      \/ a = <<"serial">> /\ x[1] = "serial"
      \/ a = Status("success")
  BY <1>1 DEF AnswerTo
<1> HIDE DEF x, a
<1>3. a # Nothing
  <2>1. Len(a) # 0
    <3>1. Len(<<"hmac", x[2], k>>) = 3 /\ Len(<<"mac", x[2], x[3]>>) = 3
          /\ Len(<<"data", m[x[2]]>>) = 2 /\ Len(Status("success")) = 2
      BY DEF Status
    <3>2. Len(<<"random">>) = 1 /\ Len(<<"devrev">>) = 1 /\ Len(<<"serial">>) = 1
      OBVIOUS
    <3> QED BY <1>2, <3>1, <3>2
  <2>2. Len(Nothing) = 0
    BY DEF Nothing
  <2> QED BY <2>1, <2>2
<1>4. ~Refused(a) /\ ~Hopeless(a)
  BY <1>2 DEF Refused, Hopeless, Status
<1>5. x[1] \in {"nonce", "write", "lock"} => a = Status("success")
  BY <1>2
<1> QED BY <1>3, <1>4, <1>5 DEF Good, x, a

-----------------------------------------------------------------------------
(* A call without trouble, place by place: the chip is awake and younger   *)
(* than the watchdog, no try has failed, and TempKey is there for HMAC.    *)

AwakeFor(c, n) == c.mode = "awake" /\ c.age \in 0..n

QuietInv ==
  /\ QuietCallSucceeds
  /\ trouble = "none" =>
       /\ pc \in {"wake", "woken"} => step = 1
       /\ pc = "wake" => chip.mode # "awake"
       /\ pc = "woken" => AwakeFor(chip, 1) /\ chip.out = Status("wake")
       /\ pc = "command" /\ Allowed(call) =>
            AwakeFor(chip, step) /\ (step # 1 => chip.key # NoKey)
       /\ pc = "sent" =>
            \/ ~Allowed(call)
            \/ /\ AwakeFor(chip, step + 1) /\ Good(cmd, chip.out)
               /\ step < Len(call) => chip.key # NoKey

\* Three waits are too short for the watchdog.
LEMMA YoungWaits ==
  ASSUME WD_MIN > 3, NEW c, IsChip(c), NEW n \in 0..2, AwakeFor(c, n),
         NEW d \in AfterWait(c)
  PROVE  IsChip(d) /\ AwakeFor(d, n + 1) /\ d.out = c.out /\ d.key = c.key
<1>1. c.age + 1 < WD_MIN
  BY ChipAssumption DEF AwakeFor
<1>2. d = [c EXCEPT !.age = @ + 1]
  BY <1>1, ChipAssumption DEF AfterWait, AwakeFor
<1> QED BY <1>2 DEF IsChip, AwakeFor

LEMMA QuietStart == Init => QuietInv
BY DEF Init, NewHandle, QuietInv, QuietCallSucceeds

\* The steps of a request.
LEMMA Steps ==
  ASSUME AnswerInv, pc # "app"
  PROVE  /\ call \in ApiCall /\ step \in DOMAIN call /\ step \in {1, 2}
         /\ step < Len(call) => step = 1 /\ call[1][1] = "nonce" /\ call[1][2] \in Challenge
<1>1. call \in ApiCall /\ step \in DOMAIN call
  BY RequestFacts DEF AnswerInv
<1>2. CASE \E x \in Lone : call = <<x>>
  <2>1. PICK x \in Lone : call = <<x>>
    BY <1>2
  <2>2. DOMAIN call = {1} /\ Len(call) = 1
    BY <2>1
  <2> QED BY <1>1, <2>2
<1>3. CASE \E t \in Slot, h \in Challenge : call = LowChallengeResponse(t, h)
  <2>1. PICK t \in Slot, h \in Challenge : call = << <<"nonce", h>>, <<"hmac", t>> >>
    BY <1>3 DEF LowChallengeResponse
  <2>2. DOMAIN call = {1, 2} /\ Len(call) = 2 /\ call[1] = <<"nonce", h>>
    BY <2>1
  <2> QED BY <1>1, <2>2
<1> QED BY <1>1, <1>2, <1>3, CallShape

\* A step into trouble, and one that fails because the chip cannot do it.
LEMMA TroubleIsQuiet == trouble' = "bus" => QuietInv'
BY DEF QuietInv, QuietCallSucceeds

LEMMA NotAllowedFails ==
  ASSUME ~Allowed(call), UNCHANGED <<call, locked>>, pc' \in {"app", "command", "sent", "idle"}
  PROVE  QuietInv'
BY DEF QuietInv, QuietCallSucceeds, Allowed

LEMMA QuietStep ==
  ASSUME WD_MIN > 3, AnswerInv, QuietInv, [Next]_vars
  PROVE  QuietInv'
<1>1. ASSUME NEW r \in Requests, Call(r) PROVE QuietInv'
  <2>1. CASE pc' = "app"
    BY <1>1, <2>1 DEF Call, QuietInv, QuietCallSucceeds
  <2>2. CASE pc' # "app"
    BY <1>1, <2>2 DEF Call, Return, QuietInv, QuietCallSucceeds
  <2> QED BY <2>1, <2>2
<1>2. CASE AppWaits
  BY <1>2 DEF AppWaits, hostVars, QuietInv, QuietCallSucceeds, Allowed
<1>3. CASE Reopen
  BY <1>3 DEF Reopen, QuietInv, QuietCallSucceeds, Allowed
<1>4. CASE Killed
  BY <1>4, TroubleIsQuiet DEF Killed, BusFails
<1>5. CASE SendWake
  <2>1. CASE Wait(WakePulse(chip)) /\ UNCHANGED trouble /\ trouble = "none"
    <3> DEFINE c == WakePulse(chip)
    <3>1. chip.mode # "awake" /\ step = 1
      BY <1>5, <2>1 DEF SendWake, QuietInv
    <3>2. IsChip(c) /\ AwakeFor(c, 0) /\ c.out = Status("wake")
      BY <3>1 DEF WakePulse, AnswerInv, IsChip, AwakeFor
    <3> HIDE DEF c
    <3>3. AwakeFor(chip', 1) /\ chip'.out = Status("wake")
      <4>1. chip' \in AfterWait(c)
        BY <2>1 DEF Wait, c
      <4> QED BY <3>2, <4>1, YoungWaits
    <3> QED BY <1>5, <3>1, <3>3 DEF SendWake, QuietInv, QuietCallSucceeds
  <2>2. CASE trouble' # "none"
    BY <2>2 DEF QuietInv, QuietCallSucceeds
  <2> QED BY <1>5, <2>1, <2>2 DEF SendWake, BusFails
<1>6. CASE ReceiveWake
  <2>1. CASE trouble' = "none"
    <3>1. trouble = "none"
      BY <1>6, <2>1 DEF ReceiveWake, BusFails
    <3>2. step = 1 /\ AwakeFor(chip, 1) /\ chip.out = Status("wake")
      BY <1>6, <3>1 DEF ReceiveWake, QuietInv
    <3>3. /\ chip' = [chip EXCEPT !.out = Nothing]
          /\ pc' = "command" /\ UNCHANGED <<step, call>>
      BY <1>6, <2>1, <3>2 DEF ReceiveWake, BusFails, Confirms, AwakeFor
    <3>4. AwakeFor(chip', 1)
      BY <3>2, <3>3 DEF AnswerInv, IsChip, AwakeFor
    <3> QED BY <3>2, <3>3, <3>4 DEF QuietInv, QuietCallSucceeds
  <2>2. CASE trouble' # "none"
    BY <2>2 DEF QuietInv, QuietCallSucceeds
  <2> QED BY <2>1, <2>2
<1>7. CASE NoPacket
  BY <1>7, TroubleIsQuiet DEF NoPacket, BusFails
<1>8. CASE SendToAwake
  <2>1. pc = "command" /\ UNCHANGED call /\ call \in ApiCall /\ step \in DOMAIN call
        /\ step \in {1, 2}
    BY <1>8, Steps DEF SendToAwake
  <2>2. CASE trouble' = "none"
    <3> DEFINE d == Answering(chip, cmd, mem, locked)
    <3>1. /\ chip' \in AfterWait(d) /\ pc' = "sent" /\ trouble = "none"
          /\ UNCHANGED step
          /\ IF Accepts(cmd, chip.key, locked)
             THEN mem' = MemAfter(cmd, mem) /\ locked' = LockedAfter(cmd, locked)
             ELSE UNCHANGED <<mem, locked>>
      BY <1>8, <2>2 DEF SendToAwake, BusFails, Wait
    <3>2. CASE ~Allowed(call)
      <4>1. ~Accepts(cmd, chip.key, locked)
        BY <2>1, <3>2, AllowedFacts DEF cmd
      <4> QED BY <2>1, <3>1, <3>2, <4>1, NotAllowedFails
    <3>3. CASE Allowed(call)
      <4>1. AwakeFor(chip, step) /\ (step # 1 => chip.key # NoKey)
        BY <2>1, <3>1, <3>3 DEF QuietInv
      <4>2. Accepts(cmd, chip.key, locked)
        BY <2>1, <3>3, <4>1, AllowedFacts DEF cmd
      <4>3. /\ IsChip(d) /\ d.out = AnswerTo(cmd, chip.key, mem)
            /\ d.key = IF cmd[1] = "nonce" THEN cmd[2] ELSE NoKey
        BY <4>2, AnsweringFields DEF AnswerInv
      <4>4. AwakeFor(d, step)
        BY <4>1 DEF AwakeFor, Answering, AnswerInv, IsChip
      <4>5. Good(cmd, d.out)
        BY <2>1, <4>3, GoodAnswers DEF cmd
      <4>6. step < Len(call) => d.key # NoKey
        BY <2>1, <4>3, Steps, CommunicationAssumption DEF cmd
      <4> HIDE DEF d
      <4>7. AwakeFor(chip', step + 1) /\ chip'.out = d.out /\ chip'.key = d.key
        BY <2>1, <3>1, <4>3, <4>4, YoungWaits
      <4>8. Good(cmd', chip'.out) /\ (step' < Len(call') => chip'.key # NoKey)
        BY <2>1, <3>1, <4>5, <4>6, <4>7 DEF cmd
      <4> QED BY <3>1, <4>7, <4>8 DEF QuietInv, QuietCallSucceeds
    <3> QED BY <3>2, <3>3
  <2>3. CASE trouble' # "none"
    BY <2>3 DEF QuietInv, QuietCallSucceeds
  <2> QED BY <2>2, <2>3
<1>9. CASE SendToAsleep
  <2>1. CASE trouble' = "none"
    <3>1. /\ trouble = "none" /\ pc = "command" /\ chip.mode # "awake"
          /\ pc' \in {"app", "command"} /\ UNCHANGED <<call, locked>>
      BY <1>9, <2>1 DEF SendToAsleep, BusFails, CommandFailed, Return
    <3>2. ~Allowed(call)
      BY <3>1 DEF QuietInv, AwakeFor
    <3> QED BY <3>1, <3>2, NotAllowedFails
  <2>2. CASE trouble' # "none"
    BY <2>2 DEF QuietInv, QuietCallSucceeds
  <2> QED BY <2>1, <2>2
<1>10. CASE Receive
  <2>1. pc = "sent" /\ UNCHANGED <<call, locked>> /\ pc' \in {"app", "command", "idle"}
    BY <1>10 DEF Receive, CommandFailed, Return
  <2>2. CASE ~Allowed(call)
    BY <2>1, <2>2, NotAllowedFails
  <2>3. CASE trouble' # "none"
    BY <2>3 DEF QuietInv, QuietCallSucceeds
  <2>4. CASE trouble' = "none" /\ Allowed(call)
    <3>1. trouble = "none"
      BY <1>10, <2>4 DEF Receive, BusFails
    <3>2. /\ AwakeFor(chip, step + 1) /\ Good(cmd, chip.out)
          /\ step < Len(call) => chip.key # NoKey
      BY <2>1, <2>4, <3>1 DEF QuietInv
    <3>3. /\ chip' = [chip EXCEPT !.out = Nothing]
          /\ IF step < Len(call) THEN step' = step + 1 /\ pc' = "command"
             ELSE pc' = "idle"
      <4>1. chip.mode = "awake" /\ chip.out # Nothing /\ ~Refused(chip.out)
            /\ ~Hopeless(chip.out) /\ Received(chip.out)
        BY <3>2 DEF AwakeFor, Good, Received
      <4> QED BY <1>10, <2>4, <4>1 DEF Receive, BusFails
    <3>4. AwakeFor(chip', step + 1) /\ chip'.key = chip.key
      BY <3>2, <3>3 DEF AnswerInv, IsChip, AwakeFor
    <3> QED BY <3>2, <3>3, <3>4 DEF QuietInv, QuietCallSucceeds
  <2> QED BY <2>2, <2>3, <2>4
<1>11. CASE Idle
  BY <1>11 DEF Idle, Return, BusFails, QuietInv, QuietCallSucceeds
<1>12. CASE UNCHANGED vars
  BY <1>12 DEF vars, hostVars, QuietInv, QuietCallSucceeds, Allowed, AwakeFor, cmd
<1> QED
  BY <1>1, <1>2, <1>3, <1>4, <1>5, <1>6, <1>7, <1>8, <1>9, <1>10, <1>11, <1>12
  DEF Next, HostStep

\* If the watchdog leaves the chip three waits, a call that the chip can carry
\* out succeeds whenever none of its transfers fails, whatever was left behind.
THEOREM QuietSucceeds == WD_MIN > 3 => (Spec => []QuietCallSucceeds)
<1> SUFFICES ASSUME WD_MIN > 3 PROVE Spec => []QuietCallSucceeds
  OBVIOUS
<1>1. AnswerInv /\ QuietInv /\ [Next]_vars => QuietInv'
  BY QuietStep
<1>2. QuietInv => QuietCallSucceeds
  BY DEF QuietInv
<1> QED
  BY <1>1, <1>2, AnswerInit, AnswerStep, QuietStart, PTL DEF Spec
-----------------------------------------------------------------------------
(* Tries run out.                                                          *)

LEMMA CallLength ==
  ASSUME NEW r \in Requests
  PROVE  Len(r) \in {1, 2} /\ DOMAIN r = 1..Len(r)
<1>1. (\A x : Len(<<x>>) = 1) /\ (\A x, y : Len(<<x, y>>) = 2)
  OBVIOUS
<1>2. r \in ApiCall
  BY RequestFacts
<1>3. Len(r) \in {1, 2}
  BY <1>1, <1>2, CallShape DEF LowChallengeResponse
<1> QED BY <1>2, <1>3, RequestFacts

\* StepsLeft in numbers: at most one command is still to follow another one.
StepsLeftShape ==
  LET more == IF step = Len(call) THEN 0 ELSE CommandSteps
      all  == IF Len(call) = 1 THEN CommandSteps ELSE 2 * CommandSteps
  IN  /\ pc = "app"     => StepsLeft = 0
      /\ pc = "idle"    => StepsLeft = 1
      /\ pc = "sent"    => StepsLeft = more + 2 * tries + 4
      /\ pc = "command" => StepsLeft = more + 2 * tries + 3
      /\ pc = "woken"   => StepsLeft = all + 2 * tries + 4
      /\ pc = "wake"    => StepsLeft = all + 2 * tries + 3

LEMMA StepsLeftIs == TypeInv => StepsLeftShape
<1> SUFFICES ASSUME TypeInv PROVE StepsLeftShape
  OBVIOUS
<1>a. CASE pc = "app"
  BY <1>a DEF StepsLeftShape, StepsLeft
<1>b. CASE pc # "app"
  <2>1. call \in Requests /\ step \in DOMAIN call
    BY <1>b DEF TypeInv, TypeOK
  <2>2. Len(call) \in {1, 2} /\ step \in 1..Len(call)
    BY <2>1, CallLength
  <2>3. CommandSteps \in Nat
    BY CommunicationAssumption DEF CommandSteps, FirstTry
  <2>4. \A n \in Nat : 0 * n = 0 /\ 1 * n = n
    OBVIOUS
  <2>5. Len(call) * CommandSteps
          = IF Len(call) = 1 THEN CommandSteps ELSE 2 * CommandSteps
    BY <2>2, <2>3, <2>4
  <2>a. \A n \in {1, 2} : \A i \in 1..n : n - i = IF i = n THEN 0 ELSE 1
    OBVIOUS
  <2>6. Len(call) - step = IF step = Len(call) THEN 0 ELSE 1
    BY <2>2, <2>a, Zenon
  <2>7. (Len(call) - step) * CommandSteps
          = IF step = Len(call) THEN 0 ELSE CommandSteps
    BY <2>3, <2>4, <2>6
  <2> QED BY <1>b, <2>5, <2>7 DEF StepsLeftShape, StepsLeft
<1> QED BY <1>a, <1>b

LEMMA StepsLeftBounds ==
  ASSUME TypeInv
  PROVE  /\ StepsLeft \in 0..(6 * FirstTry + 7)
         /\ pc # "app" => StepsLeft > 0
<1>1. FirstTry \in Nat /\ FirstTry >= 1 /\ tries \in -1..FirstTry
  BY CommunicationAssumption DEF FirstTry, TypeInv, TypeOK
<1>2. pc \in {"app", "wake", "woken", "command", "sent", "idle"}
  BY DEF TypeInv, TypeOK
<1>3. \/ pc = "app" /\ StepsLeft = 0
      \/ StepsLeft = 1
      \/ /\ pc \in {"wake", "command"}
         /\ \E b \in {0, CommandSteps, 2 * CommandSteps} :
              StepsLeft = b + 2 * tries + 3
      \/ /\ pc \in {"woken", "sent"}
         /\ \E b \in {0, CommandSteps, 2 * CommandSteps} :
              StepsLeft = b + 2 * tries + 4
  BY <1>2, StepsLeftIs DEF StepsLeftShape
<1>4. tries < FirstTry \/ pc \notin {"woken", "sent"}
  BY DEF TypeInv
<1> QED BY <1>1, <1>3, <1>4 DEF CommandSteps

LEMMA StepsLeftFall ==
  ASSUME TypeInv, TypeInv', StepsLeftShape', HostStep
  PROVE  StepsLeft' < StepsLeft
<1>1. /\ FirstTry \in Nat /\ FirstTry >= 1
      /\ tries \in -1..FirstTry /\ tries' \in -1..FirstTry
      /\ CommandSteps = 2 * FirstTry + 2
  BY CommunicationAssumption DEF FirstTry, CommandSteps, TypeInv, TypeOK
<1>2. StepsLeft \in Nat /\ (pc # "app" => StepsLeft > 0)
  BY <1>1, StepsLeftBounds
<1>3. pc # "app" /\ call' = call
  BY DEF HostStep, SendWake, ReceiveWake, NoPacket, SendToAwake, SendToAsleep,
         Receive, Idle
<1>4. call \in Requests /\ step \in DOMAIN call
  BY <1>3 DEF TypeInv, TypeOK
<1>5. Len(call) \in {1, 2} /\ step \in 1..Len(call)
  BY <1>4, CallLength
<1>6. CASE pc' = "app"
  <2>1. StepsLeft' = 0
    BY <1>6 DEF StepsLeftShape
  <2> QED BY <1>2, <1>3, <2>1
<1> HIDE DEF StepsLeft
<1>a. ASSUME NEW c, NEW n, NEW st, CommandFailed(c, n, st), pc' # "app",
             pc \in {"command", "sent"},
             n = IF pc = "command" THEN tries - 1 ELSE tries
      PROVE  StepsLeft' < StepsLeft
  <2>1. pc' = "command" /\ tries' = n /\ step' = step
    BY <1>a DEF CommandFailed, Return
  <2>2. CASE pc = "command"
    BY <1>1, <1>3, <1>a, <2>1, <2>2, StepsLeftIs DEF StepsLeftShape
  <2>3. CASE pc = "sent"
    BY <1>1, <1>3, <1>a, <2>1, <2>3, StepsLeftIs DEF StepsLeftShape
  <2> QED BY <1>a, <2>2, <2>3
<1>b. ASSUME pc = "command", pc' = "sent", tries' = tries - 1, step' = step
      PROVE  StepsLeft' < StepsLeft
  BY <1>1, <1>3, <1>b, StepsLeftIs DEF StepsLeftShape
<1>7. CASE pc' # "app"
  <2>1. CASE SendWake
    BY <1>1, <1>3, <2>1, StepsLeftIs DEF StepsLeftShape, SendWake
  <2>2. CASE ReceiveWake
    <3>1. pc = "woken"
      BY <2>2 DEF ReceiveWake
    <3>2. CASE pc' = "wake" /\ tries' = tries
      BY <1>1, <1>3, <3>1, <3>2, StepsLeftIs DEF StepsLeftShape
    <3>3. CASE pc' = "command" /\ tries' = FirstTry /\ step' = step
      <4>1. Len(call) = 1 => step = Len(call)
        BY <1>5
      <4>2. StepsLeft = (IF Len(call) = 1 THEN CommandSteps ELSE 2 * CommandSteps)
                          + 2 * tries + 4
        BY <3>1, StepsLeftIs DEF StepsLeftShape
      <4>3. StepsLeft' = (IF step = Len(call) THEN 0 ELSE CommandSteps)
                           + 2 * FirstTry + 3
        BY <1>1, <1>3, <3>3 DEF StepsLeftShape
      <4> QED BY <1>1, <4>1, <4>2, <4>3
    <3> QED BY <1>7, <2>2, <3>2, <3>3 DEF ReceiveWake, WakeFailed, Return
  <2>3. CASE NoPacket
    BY <1>7, <2>3 DEF NoPacket, Return
  <2>4. CASE SendToAwake
    BY <1>7, <1>a, <1>b, <2>4 DEF SendToAwake
  <2>5. CASE SendToAsleep
    BY <1>7, <1>a, <1>b, <2>5 DEF SendToAsleep
  <2>6. CASE Receive
    <3>1. pc = "sent"
      BY <2>6 DEF Receive
    <3>2. CASE \E c, st : CommandFailed(c, tries, st)
      BY <1>7, <1>a, <3>1, <3>2
    <3>3. CASE \E c : CommandFailed(c, -1, "bad")
      BY <1>7, <3>3 DEF CommandFailed, Return
    <3>4. CASE step < Len(call) /\ step' = step + 1 /\ pc' = "command" /\ tries' = FirstTry
      <4>1. \A n \in {1, 2} : \A i \in 1..n : i < n => i # n /\ i + 1 = n
        OBVIOUS
      <4>2. step # Len(call) /\ step' = Len(call)
        BY <1>5, <3>4, <4>1, Zenon
      <4>3. StepsLeft = CommandSteps + 2 * tries + 4
        BY <3>1, <4>2, StepsLeftIs DEF StepsLeftShape
      <4>4. StepsLeft' = 2 * FirstTry + 3
        BY <1>1, <1>3, <3>4, <4>2 DEF StepsLeftShape
      <4> QED BY <1>1, <4>3, <4>4
    <3>5. CASE pc' = "idle"
      BY <1>1, <1>3, <3>1, <3>5, StepsLeftIs DEF StepsLeftShape
    <3> QED BY <1>7, <2>6, <3>2, <3>3, <3>4, <3>5 DEF Receive, Return
  <2>7. CASE Idle
    BY <1>7, <2>7 DEF Idle, Return
  <2> QED BY <2>1, <2>2, <2>3, <2>4, <2>5, <2>6, <2>7 DEF HostStep
<1> QED BY <1>6, <1>7

\* No call goes on for ever: whatever the bus and the chip do, each step of the
\* library brings the call in progress nearer to its end, and it never has more
\* than a wake-up and two commands with all their tries to go.
THEOREM TriesDoRunOut == Spec => TriesRunOut
<1>1. TypeInv => StepsLeft \in 0..(6 * FirstTry + 7)
  BY StepsLeftBounds
<1>2. TypeInv /\ TypeInv' /\ StepsLeftShape' /\ [Next]_vars
        => [HostStep => StepsLeft' < StepsLeft]_vars
  BY StepsLeftFall
<1>3. (StepsLeft \in 0..(6 * FirstTry + 7))'
        /\ [HostStep => StepsLeft' < StepsLeft]_vars
        => [ /\ HostStep => StepsLeft' < StepsLeft
             /\ StepsLeft' \in 0..(6 * FirstTry + 7) ]_vars
  BY DEF FirstTry
<1>4. [](StepsLeft \in 0..(6 * FirstTry + 7)) /\ [][HostStep => StepsLeft' < StepsLeft]_vars
        => TriesRunOut
  BY <1>3, PTL DEF TriesRunOut
<1> QED BY <1>1, <1>2, <1>4, StepsLeftIs, AnswerInit, AnswerStep, TypeInit, TypeStep, PTL
        DEF Spec
=============================================================================
