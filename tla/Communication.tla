--------------------------- MODULE Communication ---------------------------
(***************************************************************************)
(* One handle of the native I2C layer and its chip: wake(), command() and  *)
(* idle() of communication.c over layer_ni2c.c, driven by the functions of *)
(* api.c.  A send (write and 100 ms wait) and a receive (read, check, 100  *)
(* ms wait before the next try) are steps of their own, because the chip's *)
(* watchdog may expire at every wait; the bus may fail at every transfer.  *)
(***************************************************************************)
EXTENDS Api, Chip, Integers

CONSTANTS
  Requests,                     \* the calls the program makes
  TRY_SEND_RECV_ON_COMM_ERROR,  \* 5 in configuration.h
  NoCall, NoAnswer

ASSUME CommunicationAssumption ==
  /\ TRY_SEND_RECV_ON_COMM_ERROR \in Nat
  /\ Requests \subseteq ApiCall /\ NoCall \notin ApiCall
  /\ NoKey \notin Challenge

VARIABLES
  pc,      \* app, wake, woken (pulse sent), command, sent, idle
  call,    \* the call in progress or made last, or NoCall
  step,    \* the command of the call that is being exchanged
  tries,   \* `tries' of wake() or command()
  wake_is_expected,             \* handle->wake_is_expected
  status,  \* what the last call returned
  answer,  \* the answer it delivers
  chip, mem, locked,            \* the chip, see Chip
  trouble  \* none, start (the call found the chip awake or the handle
           \* expecting so) or bus (a transfer of the call failed): history

hostVars == <<pc, call, step, tries, wake_is_expected, status, answer>>
vars == <<hostVars, chip, mem, locked, trouble>>

Statuses == {"ok", "comm", "bad", "invalid", "memory", "none"}
FirstTry == TRY_SEND_RECV_ON_COMM_ERROR + 1

LockStates == {{}, {"conf"}, {"conf", "data"}}

\* A handle that has just been allocated, before any call.
NewHandle ==
  /\ pc = "app" /\ call = NoCall /\ step = 1 /\ tries = 0
  /\ wake_is_expected = FALSE
  /\ status = "none" /\ answer = NoAnswer
  /\ trouble = "none"

\* A chip with any contents, in any state of its life, and a new handle.
Init ==
  /\ NewHandle
  /\ chip = Asleep
  /\ mem \in [Word -> Value] /\ locked \in LockStates

\* The handle is gone, and with it all that was known of its calls.
Forget ==
  /\ pc' = "app" /\ call' = NoCall /\ step' = 1 /\ tries' = 0
  /\ wake_is_expected' = FALSE
  /\ status' = "none" /\ answer' = NoAnswer
  /\ trouble' = "none"

cmd == call[step]

\* The API function returns; there is no idle() on the error paths.
Return(st) ==
  /\ pc' = "app" /\ step' = 1 /\ tries' = 0
  /\ status' = st
  /\ answer' = IF st = "ok" THEN answer ELSE NoAnswer

\* ni2c_wait() while the chip is c.
Wait(c) == \E d \in AfterWait(c) : chip' = d

BusFails == trouble' = "bus"

-----------------------------------------------------------------------------
(* The program                                                             *)

Call(request) ==
  /\ pc = "app"
  /\ call' = request
  /\ trouble' = IF wake_is_expected \/ chip.mode = "awake" THEN "start" ELSE "none"
  /\ \/ InvalidInput(request) /\ Return("invalid")
     \/ /\ ~InvalidInput(request)
        /\ pc' = IF wake_is_expected THEN "command" ELSE "wake"
        /\ step' = 1 /\ tries' = FirstTry
        /\ status' = "none" /\ answer' = NoAnswer
  /\ UNCHANGED <<wake_is_expected, chip, mem, locked>>

\* Time passes between two calls.
AppWaits ==
  /\ pc = "app"
  /\ Wait(chip)
  /\ UNCHANGED <<hostVars, mem, locked, trouble>>

\* Mutant: a new handle that trusts the old one's wake flag.
ReopenTrusting ==
  /\ pc = "app"
  /\ UNCHANGED vars

\* atsha_close and a new handle.
Reopen ==
  /\ pc = "app"
  /\ wake_is_expected' = FALSE
  /\ UNCHANGED <<pc, call, step, tries, status, answer, chip, mem, locked, trouble>>

\* The process ends in the middle of a call, by SIGALRM for one, and a new
\* process opens a new handle.  The chip stays as it is; trouble remembers that
\* something else than the library cut the call short.
Killed ==
  /\ pc # "app"
  /\ Return("none")
  /\ wake_is_expected' = FALSE
  /\ BusFails
  /\ UNCHANGED <<call, chip, mem, locked>>

-----------------------------------------------------------------------------
(* wake()                                                                  *)

\* ni2c_wake up to its wait: the pulse may be lost, or not even sent.
SendWake ==
  /\ pc = "wake"
  /\ pc' = "woken"
  /\ tries' = tries - 1
  /\ \/ Wait(WakePulse(chip)) /\ UNCHANGED trouble
     \/ Wait(chip) /\ BusFails
  /\ UNCHANGED <<call, step, wake_is_expected, status, answer, mem, locked>>

\* Mutant: tries is set anew in each round.
WakeForEver(c) ==
  /\ Wait(c)
  /\ pc' = "wake" /\ tries' = FirstTry
  /\ UNCHANGED <<step, status, answer, wake_is_expected>>

\* The next round of the loop, or its end: the handle expects an awake chip
\* after either.
WakeFailed(c) ==
  /\ Wait(c)
  /\ IF tries >= 0
     THEN pc' = "wake" /\ UNCHANGED <<step, tries, status, answer, wake_is_expected>>
     ELSE Return("comm") /\ wake_is_expected' = TRUE

\* Mutant: the wrong status is taken for the confirmation.
ConfirmsSuccess(out) == out = Status("success")

Confirms(out) == out = Status("wake")

\* ni2c_read and the check of the wake confirmation.
ReceiveWake ==
  /\ pc = "woken"
  /\ \/ /\ chip.mode = "awake" /\ Confirms(chip.out)
        /\ chip' = [chip EXCEPT !.out = Nothing]
        /\ pc' = "command" /\ tries' = FirstTry /\ wake_is_expected' = TRUE
        /\ UNCHANGED <<step, status, answer, trouble>>
     \/ /\ chip.mode # "awake" \/ ~Confirms(chip.out)
        /\ WakeFailed([chip EXCEPT !.out = Nothing])
        /\ UNCHANGED trouble
     \/ /\ \/ WakeFailed([chip EXCEPT !.out = Nothing])
           \/ WakeFailed(chip)
        /\ BusFails
  /\ UNCHANGED <<call, mem, locked>>

-----------------------------------------------------------------------------
(* command()                                                               *)

\* Mutant: one try too many.
CommandFailedLate(c, left, st) ==
  /\ Wait(c)
  /\ IF left >= -1
     THEN pc' = "command" /\ tries' = left /\ UNCHANGED <<step, status, answer>>
     ELSE Return(st)

\* The wait after a failed try, and the next try if any is left.
CommandFailed(c, left, st) ==
  /\ Wait(c)
  /\ IF left >= 0
     THEN pc' = "command" /\ tries' = left /\ UNCHANGED <<step, status, answer>>
     ELSE Return(st)

\* op_xxx() has no memory for the packet.
NoPacket ==
  /\ pc = "command" /\ tries = FirstTry
  /\ Return("memory")
  /\ BusFails
  /\ UNCHANGED <<call, wake_is_expected, chip, mem, locked>>

\* ni2c_command up to its wait, when the chip is awake: it carries the
\* command out, or finds its CRC wrong, or does not acknowledge.
SendToAwake ==
  /\ pc = "command" /\ chip.mode = "awake"
  /\ \/ /\ Wait(Answering(chip, cmd, mem, locked))
        /\ IF Accepts(cmd, chip.key, locked)
           THEN mem' = MemAfter(cmd, mem) /\ locked' = LockedAfter(cmd, locked)
           ELSE UNCHANGED <<mem, locked>>
        /\ pc' = "sent" /\ tries' = tries - 1
        /\ UNCHANGED <<step, status, answer, trouble>>
     \/ /\ Wait([chip EXCEPT !.out = Status("comm")])
        /\ pc' = "sent" /\ tries' = tries - 1
        /\ BusFails
        /\ UNCHANGED <<step, status, answer, mem, locked>>
     \/ /\ CommandFailed(chip, tries - 1, "comm")
        /\ BusFails
        /\ UNCHANGED <<mem, locked>>
  /\ UNCHANGED <<call, wake_is_expected>>

\* A chip that sleeps or idles does not acknowledge; noise on the bus may
\* wake it instead, and the write seems to succeed.
SendToAsleep ==
  /\ pc = "command" /\ chip.mode # "awake"
  /\ \/ /\ CommandFailed(chip, tries - 1, "comm")
        /\ UNCHANGED trouble
     \/ /\ Wait(WakePulse(chip))
        /\ pc' = "sent" /\ tries' = tries - 1
        /\ BusFails
        /\ UNCHANGED <<step, status, answer>>
  /\ UNCHANGED <<call, wake_is_expected, mem, locked>>

\* Mutants: statuses that are taken for an answer.
RefusedButExec(out) == out \in {Status("parse"), Status("comm")}
NeverHopeless(out) == FALSE

\* What command() makes of a packet with a good CRC.
Refused(out)  == out \in {Status("parse"), Status("exec"), Status("comm")}
Hopeless(out) == out = Status("wake")

\* just_check_status for Nonce, Write and Lock; any data for the others.
Received(out) ==
  cmd[1] \in {"nonce", "write", "lock"} => out = Status("success")

\* ni2c_read and the rest of the round.
Receive ==
  /\ pc = "sent"
  /\ LET out  == chip.out
         read == [chip EXCEPT !.out = Nothing]
         heard == chip.mode = "awake" /\ out # Nothing
     IN
     \/ /\ ~heard
        /\ CommandFailed(read, tries, "comm")
        /\ UNCHANGED trouble
     \/ /\ heard /\ Refused(out)
        /\ CommandFailed(read, tries, "bad")
        /\ UNCHANGED trouble
     \/ /\ heard /\ Hopeless(out)
        /\ CommandFailed(read, -1, "bad")
        /\ UNCHANGED trouble
     \/ /\ heard /\ ~Refused(out) /\ ~Hopeless(out) /\ ~Received(out)
        /\ chip' = read
        /\ Return("bad")
        /\ UNCHANGED trouble
     \/ /\ heard /\ ~Refused(out) /\ ~Hopeless(out) /\ Received(out)
        /\ chip' = read
        /\ IF step < Len(call)
           THEN step' = step + 1 /\ pc' = "command" /\ tries' = FirstTry
           ELSE pc' = "idle" /\ UNCHANGED <<step, tries>>
        /\ answer' = out
        /\ UNCHANGED <<status, trouble>>
     \/ /\ \/ CommandFailed(read, tries, "comm")
           \/ CommandFailed(chip, tries, "comm")
        /\ BusFails
  /\ UNCHANGED <<call, wake_is_expected, mem, locked>>

-----------------------------------------------------------------------------
(* idle()                                                                  *)

\* Mutant: the handle still expects an awake chip.
IdleExpecting ==
  /\ pc = "idle"
  /\ \/ chip' = IdleWord(chip) /\ UNCHANGED trouble
     \/ chip' = chip /\ BusFails
  /\ Return("ok")
  /\ UNCHANGED <<call, wake_is_expected, mem, locked>>

\* ni2c_idle does not look at the result of its write: the loop of idle() ends
\* at once and api.c has nothing to warn of, though the word may be lost.
Idle ==
  /\ pc = "idle"
  /\ \/ chip' = IdleWord(chip) /\ UNCHANGED trouble
     \/ chip' = chip /\ BusFails
  /\ wake_is_expected' = FALSE
  /\ Return("ok")
  /\ UNCHANGED <<call, mem, locked>>

-----------------------------------------------------------------------------
HostStep ==
  \/ SendWake \/ ReceiveWake
  \/ NoPacket \/ SendToAwake \/ SendToAsleep \/ Receive
  \/ Idle

Next ==
  \/ \E request \in Requests : Call(request)
  \/ HostStep \/ AppWaits \/ Reopen \/ Killed

Spec == Init /\ [][Next]_vars

\* The host keeps running: a call in progress goes on.  The program goes on
\* calling, and does not put off for ever to take a new handle for one whose
\* calls leave the chip awake or unanswered.
CallAgain == \E request \in Requests : Call(request)
TakeNewHandle == wake_is_expected /\ Reopen
FairSpec ==
  Spec /\ WF_vars(HostStep) /\ WF_vars(CallAgain) /\ SF_vars(TakeNewHandle)

\* A program whose transfers never fail.
SpecQuiet == Init /\ [][Next /\ trouble' # "bus"]_vars

-----------------------------------------------------------------------------
Answers ==
  {Status(code) : code \in {"success", "wake", "comm", "exec"}}
  \cup {<<"random">>, <<"devrev">>, <<"serial">>} \cup {<<"data", v>> : v \in Value}
  \cup {<<"hmac", s, c>> : s \in Slot, c \in Challenge}
  \cup {<<"mac", s, c>> : s \in Slot, c \in Challenge}

Chips ==
  [mode : {"awake", "idle", "asleep"}, key : Challenge \cup {NoKey},
   out : Answers \cup {Nothing}, age : 0..WD_MAX]

TypeOK ==
  /\ pc \in {"app", "wake", "woken", "command", "sent", "idle"}
  /\ call \in Requests \cup {NoCall}
  /\ pc # "app" => call # NoCall /\ step \in DOMAIN call
  /\ tries \in -1..FirstTry
  /\ wake_is_expected \in BOOLEAN
  /\ status \in Statuses
  /\ answer \in Answers \cup {NoAnswer}
  /\ chip \in Chips
  /\ mem \in [Word -> Value]
  /\ locked \in LockStates
  /\ trouble \in {"none", "start", "bus"}

\* A call that returned ATSHA_ERR_OK has its own answer: the HMAC of this
\* challenge and not of one left in TempKey, the word as it is in the chip;
\* a write or a lock that is reported done is done.  No lost, corrupted or
\* repeated exchange and no reset of the chip makes it otherwise.
OkMeansDone ==
  pc = "app" /\ status = "ok" => Satisfies(call, answer, mem, locked)

\* A request the chip can carry out succeeds if no transfer fails and the
\* handle starts in step with the chip: no retry is needed, the watchdog
\* leaves time for both commands of a challenge-response, and nothing that
\* earlier calls left behind (TempKey, an idle chip) disturbs it.
Allowed(request) ==
  \A i \in DOMAIN request :
    request[i][1] = "hmac" \/ Accepts(request[i], NoKey, locked)
QuietCallSucceeds ==
  pc = "app" /\ call # NoCall /\ trouble = "none" =>
    status = "ok" \/ InvalidInput(call) \/ ~Allowed(call)

\* A successful call without trouble leaves handle and chip in step, however
\* long the program waits then: its next call finds no trouble either, so that
\* a handle goes on answering as long as no transfer fails.
HandleKeepsWorking ==
  pc = "app" /\ status = "ok" /\ trouble = "none" =>
    ~wake_is_expected /\ chip.mode # "awake"

\* Every call returns, however the bus fails.
CallReturns == pc # "app" ~> pc = "app"

\* How many steps of the library the call in progress can still take, when
\* each try, a send and a receive, fails but the last one of each loop.
CommandSteps == 2 * (FirstTry + 1)
StepsLeft ==
  LET more(n) == n * CommandSteps IN
  CASE pc = "app"     -> 0
    [] pc = "idle"    -> 1
    [] pc = "sent"    -> more(Len(call) - step) + 2 * tries + 4
    [] pc = "command" -> more(Len(call) - step) + 2 * tries + 3
    [] pc = "woken"   -> more(Len(call)) + 2 * tries + 4
    [] pc = "wake"    -> more(Len(call)) + 2 * tries + 3

\* Tries run out: each step of wake(), command() and idle() brings the call
\* nearer to its end, whatever the bus and the chip do, and no call has more
\* to go than a wake-up and two commands with all their tries.
TriesRunOut ==
  [][ /\ HostStep => StepsLeft' < StepsLeft
      /\ StepsLeft' \in 0..(6 * FirstTry + 7) ]_vars

\* A program that takes a new handle sooner or later after failures gets its
\* answers again once transfers stop failing, in whatever state the chip was
\* left: awake, idle, asleep, or with an answer nobody has read.
Recovers ==
  <>[](trouble # "bus") => []<>(pc = "app" /\ status = "ok")

\* The library implements ChipService.
Service == INSTANCE ChipService
  WITH pending <- IF pc = "app" THEN NoCall ELSE call,
       answer  <- IF pc = "app" /\ status = "ok" THEN answer ELSE NoAnswer
ServiceSpec == Service!Spec

-----------------------------------------------------------------------------
(* What the comments of the code say, and the code does not do.            *)

\* After "Wakeup device" succeeded the chip is awake: it hears the first
\* command of the call.
WakeupDevice ==
  pc = "command" /\ step = 1 /\ tries = FirstTry => chip.mode = "awake"
=============================================================================
