----------------------------- MODULE SharedChip -----------------------------
(***************************************************************************)
(* Two programs with one chip: each opens a handle, calls the library, and *)
(* closes the handle or dies at any point, and the chip is left as it is.  *)
(* The calls of a handle are those of Communication, one instance for each *)
(* program; the device changes hands as DeviceOwnership says, which is     *)
(* what DeviceLock implements.  Nothing else keeps the programs apart.     *)
(*                                                                         *)
(* Both ask for digests of a challenge of their own, and both change a     *)
(* byte of the same word of the configuration zone, by reading the word    *)
(* and writing it back: A the I2C address (atsha_change_address), B the    *)
(* OTP mode (set_otp_mode of chiptools init).  The contents of a word are  *)
(* the set of the fields that have been changed in it.                     *)
(***************************************************************************)
EXTENDS Api, Chip, Integers

CONSTANTS
  TRY_SEND_RECV_ON_COMM_ERROR, NoCall, NoAnswer,
  ChallengeA, ChallengeB    \* what A and B send to be digested

Field == {"address", "otp_mode"}
ConfigLine == <<"conf", 4>>

ASSUME SharedAssumption ==
  /\ Value = SUBSET Field /\ 4 \in ConfAddr
  /\ 0 \in Slot /\ {ChallengeA, ChallengeB} \subseteq Challenge
  /\ TRY_SEND_RECV_ON_COMM_ERROR \in Nat /\ NoCall \notin ApiCall

VARIABLES
  users,                    \* who has the device open
  chip, mem, locked,        \* the chip
  done,                     \* the fields whose change was reported done
  pcA, callA, stepA, triesA, wakeA, statusA, answerA, troubleA,
  pcB, callB, stepB, triesB, wakeB, statusB, answerB, troubleB

theChip == <<chip, mem, locked>>
handleA == <<pcA, callA, stepA, triesA, wakeA, statusA, answerA, troubleA>>
handleB == <<pcB, callB, stepB, triesB, wakeB, statusB, answerB, troubleB>>
vars == <<users, theChip, done, handleA, handleB>>

\* init locks the configuration zone in the end, and A's writes fail then.
RequestsOfA ==
  {LowChallengeResponse(0, ChallengeA), RawConfRead(4)}
  \cup {RawConfWrite(4, v) : v \in Value}
RequestsOfB ==
  {LowChallengeResponse(0, ChallengeB), RawConfRead(4), LockConfig}
  \cup {RawConfWrite(4, v) : v \in Value}

A == INSTANCE Communication WITH
       Requests <- RequestsOfA,
       pc <- pcA, call <- callA, step <- stepA, tries <- triesA,
       wake_is_expected <- wakeA, status <- statusA, answer <- answerA,
       trouble <- troubleA
B == INSTANCE Communication WITH
       Requests <- RequestsOfB,
       pc <- pcB, call <- callB, step <- stepB, tries <- triesB,
       wake_is_expected <- wakeB, status <- statusB, answer <- answerB,
       trouble <- troubleB
Device == INSTANCE DeviceOwnership WITH Thread <- {"A", "B"}

Init ==
  /\ Device!Init
  /\ chip = Asleep /\ mem = [w \in Word |-> {}] /\ locked \in A!LockStates
  /\ done = {}
  /\ A!NewHandle /\ B!NewHandle

-----------------------------------------------------------------------------
\* Mutant: the device is opened while another program has the lock.
OpenUnlocked(p) ==
  /\ p \notin users /\ users' = users \cup {p}
  /\ UNCHANGED <<theChip, done, handleA, handleB>>

\* atsha_open_ni2c_dev returns a handle.
Open(p) ==
  /\ Device!Acquire(p)
  /\ UNCHANGED <<theChip, done, handleA, handleB>>

\* atsha_close, or the death of the program in the middle of a call.
LeaveA ==
  /\ "A" \in users /\ users' = users \ {"A"}
  /\ A!Forget
  /\ UNCHANGED <<theChip, done, handleB>>
LeaveB ==
  /\ "B" \in users /\ users' = users \ {"B"}
  /\ B!Forget
  /\ UNCHANGED <<theChip, done, handleA>>

\* Mutant: the line of the configuration is written without a look at it.
WritesBlindly(request, field, call, status, answer) ==
  request[1][1] = "write" => request[1][3] = {field}

\* A program writes the configuration line only with its field set in what a
\* successful read has just told.
Asks(request, field, call, status, answer) ==
  request[1][1] = "write" =>
    /\ call = RawConfRead(4) /\ status = "ok"
    /\ request[1][3] = answer[2] \cup {field}

CallA ==
  /\ "A" \in users
  /\ \E request \in RequestsOfA :
       /\ Asks(request, "address", callA, statusA, answerA)
       /\ A!Call(request)
  /\ UNCHANGED <<users, done, handleB>>
CallB ==
  /\ "B" \in users
  /\ \E request \in RequestsOfB :
       /\ Asks(request, "otp_mode", callB, statusB, answerB)
       /\ B!Call(request)
  /\ UNCHANGED <<users, done, handleA>>

\* The fields that are reported done after a step of a call.
Done(field, call, newStatus) ==
  IF newStatus = "ok" /\ call[1][1] = "write" THEN done \cup {field} ELSE done

StepA ==
  /\ A!HostStep
  /\ done' = Done("address", callA, statusA')
  /\ UNCHANGED <<users, handleB>>
StepB ==
  /\ B!HostStep
  /\ done' = Done("otp_mode", callB, statusB')
  /\ UNCHANGED <<users, handleA>>

\* Time passes between two calls, with a handle or without.
AppWaits ==
  /\ pcA = "app" /\ pcB = "app"
  /\ A!Wait(chip)
  /\ UNCHANGED <<users, mem, locked, done, handleA, handleB>>

Next ==
  \/ \E p \in {"A", "B"} : Open(p)
  \/ LeaveA \/ LeaveB \/ CallA \/ CallB \/ StepA \/ StepB \/ AppWaits

Spec == Init /\ [][Next]_vars

-----------------------------------------------------------------------------
TypeOK ==
  /\ users \subseteq {"A", "B"}
  /\ done \subseteq Field
  /\ A!TypeOK /\ B!TypeOK

\* While a handle is open, what its last successful call told or did is still
\* so: the digest is of the program's own challenge, not of one the other
\* program left in TempKey when it died; the word read is what the chip holds;
\* what was written has not been overwritten.
KnownWhileOpen ==
  /\ "A" \in users => A!OkMeansDone
  /\ "B" \in users => B!OkMeansDone

\* A handle has the chip to itself from atsha_open_ni2c_dev to atsha_close:
\* whatever both programs do, a step is a step of this handle, or changes
\* neither the handle nor the chip.
HandleAlone ==
  /\ []["A" \in users \cap users' => [A!Next]_(A!vars)]_vars
  /\ []["B" \in users \cap users' => [B!Next]_(B!vars)]_vars

\* No update is lost: a field whose change was reported done stays changed,
\* though the other program writes the whole word it read before.
NoLostUpdate == done \subseteq mem[ConfigLine]

\* Two programs with the library are one caller with the promised service: the
\* calls of both follow one another, and the memory of the chip changes only as
\* the call in progress asks.
Service == INSTANCE ChipService WITH
  Requests <- RequestsOfA \cup RequestsOfB,
  pending <- IF pcA # "app" THEN callA ELSE IF pcB # "app" THEN callB ELSE NoCall,
  answer  <- IF pcA = "app" /\ statusA = "ok" THEN answerA
             ELSE IF pcB = "app" /\ statusB = "ok" THEN answerB ELSE NoAnswer
ServiceSpec == Service!Spec
=============================================================================
