-------------------------------- MODULE Tools --------------------------------
(***************************************************************************)
(* The commands of chiptools and atsha204cmd that talk to the chip, each a *)
(* program that opens a handle, makes calls of the library one after the   *)
(* other, reports and ends.  A call may fail with its work done or undone, *)
(* the program may die between any two steps, and the alarm of its handle  *)
(* kills it after KILL_UNRELEASED_LOCK_AFTER.  Commands are run one after  *)
(* the other, in any order, with any files and numbers.                    *)
(***************************************************************************)
EXTENDS Provision, Chip, Integers

CONSTANTS
  Command,       \* the command lines, tuples headed by the name
  Factory,       \* the configuration words of a new chip but for the address
  FactoryAddress,
  Blank,         \* contents of a slot or OTP word never written
  Suffix(_),     \* the number in an OTP word with a MAC address
  CharIsSigned,  \* is the type char of the compiler signed?
  CallTimes,     \* waits of 100 ms that a call may need
  KILL_UNRELEASED_LOCK_AFTER    \* in the same unit

ASSUME ToolsAssumption ==
  /\ CallTimes \subseteq Nat \ {0} /\ KILL_UNRELEASED_LOCK_AFTER \in Nat
  /\ CharIsSigned \in BOOLEAN

CommandName ==
  {"init", "test", "dump-config", "dump-otp", "dump-data", "sn", "chipsn",
   "random", "devrev", "set-address", "mac"}

ASSUME CommandAssumption ==
  \A c \in Command :
    /\ c[1] \in CommandName
    /\ c[1] \in {"set-address", "mac"} => c[2] \in Int

VARIABLES
  run,      \* the program: none, running, printing, done, failed, alarmed, dead
  command,  \* its command line
  pos,      \* the call it makes next
  elapsed,  \* waits since atsha_open
  record,   \* the configuration word it has read last
  config,   \* the buffer of init from which the CRC is computed
  said,     \* the last thing it reported
  printed,  \* MAC addresses it has printed
  mem, locked   \* the chip

vars == <<run, command, pos, elapsed, record, config, said, printed, mem, locked>>

ATSHA204_OTP_MEMORY_MAP_MAC_PREFIX == 3
ATSHA204_OTP_MEMORY_MAP_MAC_ADDR == 4
AddressWord == <<"conf", OtpModeAddr>>

BlankWord == [first |-> Blank, rest |-> Blank]
NoBuffer == [a \in ConfAddr |-> BlankWord]

-----------------------------------------------------------------------------
(* What the commands ask of the library                                    *)

\* Mutant: the address is not shifted past the bit for reading and writing.
change_address_unshifted(n) ==
  << RawConfRead(4), RawConfWrite(4, [record EXCEPT !.first = n % 256]) >>

\* The number becomes an unsigned char, which is shifted by one bit.
atsha_change_address(n) ==
  << RawConfRead(4),
     RawConfWrite(4, [record EXCEPT !.first = (2 * (n % 256)) % 256]) >>

OtpReads == [i \in 1..16 |-> RawOtpRead(i - 1)]
ConfReads == [i \in 1..CONFIG_CNT |-> RawConfRead(i - 1)]
SlotReads == [i \in 1..16 |-> RawSlotRead(i - 1)]
SerialNumber == << RawOtpRead(0), RawOtpRead(1) >>

\* Each digest twice, with and without the serial number.
Digests(slot) ==
  << LowChallengeResponse(slot, "challenge"), LowChallengeResponse(slot, "challenge"),
     LowChallengeResponseMac(slot, "challenge"), LowChallengeResponseMac(slot, "challenge") >>
TestCalls ==
  [n \in 1..104 |->
     IF n <= 2 THEN SerialNumber[n]
     ELSE IF n <= 66 THEN Digests((n - 3) \div 4)[1 + ((n - 3) % 4)]
     ELSE IF n <= 82 THEN OtpReads[n - 66] ELSE ConfReads[n - 82]]

Calls ==
  CASE command[1] = "init" -> InitCalls(command[2], record)
    [] command[1] = "test" -> TestCalls
    [] command[1] = "dump-config" -> ConfReads
    [] command[1] = "dump-otp" -> OtpReads
    [] command[1] = "dump-data" -> SlotReads
    [] command[1] = "sn" -> SerialNumber
    [] command[1] = "chipsn" -> <<ChipSerialNumber>>
    [] command[1] = "random" -> <<Random>>
    [] command[1] = "devrev" -> <<DevRev>>
    [] command[1] = "set-address" -> atsha_change_address(command[2])
    [] command[1] = "mac" -> << RawOtpRead(ATSHA204_OTP_MEMORY_MAP_MAC_PREFIX),
                               RawOtpRead(ATSHA204_OTP_MEMORY_MAP_MAC_ADDR) >>

\* Command lines that are refused before the first call: files that init or
\* the emulation cannot read, and the two checks of numbers as they are.
Refused(c) ==
  \/ c[1] = "init" /\ ~CompleteFile(c[2])
  \/ c[1] = "test" /\ \E a \in {0, 1, 2} : EmulReadOtp(c[2], a) = Bad
  \/ c[1] = "set-address" /\ c[2] < 1 /\ c[2] > 126
  \/ c[1] = "mac" /\ c[2] % 256 <= 0

call == Calls[pos]
cmd == call[Len(call)]

LastCall == pos = Len(Calls)

\* init says whether each of its two parts succeeded.
Zone == IF pos <= CONFIG_CALLS THEN "conf" ELSE "data"

\* What the command reports when its last call has succeeded.
Report ==
  CASE command[1] = "test" -> <<"same">>
    [] command[1] = "set-address" -> <<"address", command[2]>>
    [] cmd[1] = "lock" -> <<Zone, "locked">>
    [] OTHER -> said

-----------------------------------------------------------------------------
(* What the chip does                                                      *)

\* The CRC sent along with a lock is that of what the zone holds.
CrcMatches ==
  IF cmd[2] = "conf"
  THEN \A a \in ConfAddr : config[a] = mem[<<"conf", a>>]
  ELSE \A w \in DataZone : mem[w] = Programmed(command[2])[w]

\* A write to the OTP zone is one of eight words.
Stored ==
  IF cmd[1] = "write" /\ cmd[2][1] = "otp"
  THEN [w \in Word |-> IF w[1] = "otp" /\ w[2] \div 8 = cmd[2][2] \div 8
                       THEN cmd[3][w[2] % 8] ELSE mem[w]]
  ELSE MemAfter(cmd, mem)

\* HMAC finds the challenge in TempKey: its call has put it there.
Executes ==
  /\ Accepts(cmd, "challenge", locked)
  /\ cmd[1] = "lock" => CrcMatches
  /\ mem' = Stored
  /\ locked' = LockedAfter(cmd, locked)

Undone == UNCHANGED <<mem, locked>>

\* test: a digest is of the key in the slot and, at odd calls, of the serial
\* number; it is the same for the chip and the file if these are.
SameSerial ==
  \A a \in {0, 1} : mem[<<"otp", a>>] = EmulReadOtp(command[2], a)

\* Mutant: the keys are not compared.
SameIgnoringKeys == cmd[1] = "read" => SameSerial
SameAnswer ==
  CASE pos = 1 -> TRUE
    [] pos = 2 -> SameSerial
    [] cmd[1] \in {"hmac", "mac"} ->
         /\ mem[<<"slot", cmd[2]>>] = EmulReadSlot(command[2], get_slot_address(cmd[2]))
         /\ pos % 2 = 1 => SameSerial
    [] cmd[1] = "read" /\ pos > 2 /\ cmd[2][1] = "otp" ->
         mem[cmd[2]] = EmulReadOtp(command[2], cmd[2][2])
    [] OTHER -> TRUE    \* test does not compare these

-----------------------------------------------------------------------------
\* The process is gone, with all that it had in memory.
Ends(how, report) ==
  /\ run' = how /\ said' = report
  /\ pos' = 1 /\ elapsed' = 0 /\ record' = BlankWord /\ config' = NoBuffer

Init ==
  /\ run = "none" /\ command = <<"none">> /\ pos = 1 /\ elapsed = 0
  /\ record = BlankWord /\ config = NoBuffer /\ said = <<"none">> /\ printed = 0
  /\ mem = [w \in Word |->
              IF w[1] # "conf" THEN Blank
              ELSE [first |-> IF w = AddressWord THEN FactoryAddress ELSE Factory,
                    rest |-> Factory]]
  /\ locked = {}

\* The chip is opened and the command line and its file are read.
Start(c) ==
  /\ run \notin {"running", "printing"}
  /\ command' = c /\ printed' = 0
  /\ Ends(IF Refused(c) THEN "failed" ELSE "running", <<"none">>)
  /\ Undone

\* The answer of a configuration word, and what set_otp_mode and
\* set_slot_config enter into the buffer besides writing it to the chip.
Noted ==
  IF cmd[1] = "read" /\ cmd[2][1] = "conf"
  THEN /\ record' = mem[cmd[2]]
       /\ config' = IF command[1] = "init" /\ pos <= CONFIG_CNT
                    THEN [config EXCEPT ![cmd[2][2]] = mem[cmd[2]]] ELSE config
  ELSE /\ UNCHANGED record
       /\ config' = IF command[1] = "init" /\ cmd[1] = "write" /\ Zone = "conf"
                    THEN [config EXCEPT ![cmd[2][2]] = WithConfig(@, cmd[2][2])]
                    ELSE config

\* Mutant: no alarm is armed.
GoesOnForEver ==
  /\ \E time \in CallTimes : elapsed' = elapsed + time
  /\ pos' = pos + 1
  /\ UNCHANGED <<run, command, printed>>

\* The call that has succeeded is not the last one.
GoesOn ==
  /\ \E time \in CallTimes :
       /\ elapsed + time <= KILL_UNRELEASED_LOCK_AFTER
       /\ elapsed' = elapsed + time
  /\ pos' = pos + 1
  /\ UNCHANGED <<run, command, printed>>

CallSucceeds ==
  /\ run = "running" /\ ~LastCall
  /\ Executes
  /\ command[1] = "test" => SameAnswer
  /\ Noted /\ GoesOn
  /\ said' = IF cmd[1] = "lock" THEN <<Zone, "locked">> ELSE said

\* mac goes on with its handle open and the alarm armed; how much of its time
\* is gone does not matter, the printing takes as long as its reader lets it.
LastCallSucceeds ==
  /\ run = "running" /\ LastCall
  /\ Executes
  /\ \E time \in CallTimes : elapsed + time <= KILL_UNRELEASED_LOCK_AFTER
  /\ Ends(IF command[1] = "mac" THEN "printing" ELSE "done", Report)
  /\ UNCHANGED <<command, printed>>

\* test: the chip and the file have different answers, or the file has none.
AnswersDiffer ==
  /\ run = "running" /\ command[1] = "test"
  /\ Executes /\ ~SameAnswer
  /\ Ends("failed", <<"differs">>)
  /\ UNCHANGED <<command, printed>>

\* The call returns an error and the program ends.  The chip may have executed
\* the command, and only the answer been lost.
CallFails ==
  /\ run = "running"
  /\ ~(command[1] = "test" /\ cmd[1] = "read" /\ cmd[2][1] = "conf")
  /\ Executes \/ Undone
  /\ Ends("failed", IF command[1] = "init" THEN <<Zone, "NOT locked">> ELSE said)
  /\ UNCHANGED <<command, printed>>

\* test does not ask whether it could read the configuration: it prints what
\* was in the variable before.
ReadIgnored ==
  /\ run = "running" /\ command[1] = "test"
  /\ cmd[1] = "read" /\ cmd[2][1] = "conf"
  /\ Undone
  /\ \/ ~LastCall /\ GoesOn /\ UNCHANGED <<record, config, said>>
     \/ LastCall /\ Ends("done", Report) /\ UNCHANGED <<command, printed>>

\* SIGALRM comes in the middle of the call.
AlarmKills ==
  /\ run = "running"
  /\ \E time \in CallTimes : elapsed + time > KILL_UNRELEASED_LOCK_AFTER
  /\ Executes \/ Undone
  /\ Ends("alarmed", said)
  /\ UNCHANGED <<command, printed>>

Dies ==
  /\ run = "running"
  /\ Executes \/ Undone
  /\ Ends("dead", said)
  /\ UNCHANGED <<command, printed>>

-----------------------------------------------------------------------------
(* atsha204cmd mac n                                                       *)

count == command[2] % 256      \* n, an unsigned char
mac_as_number == Suffix(mem[<<"otp", ATSHA204_OTP_MEMORY_MAP_MAC_ADDR>>])

\* The char that counts the addresses.
i == IF CharIsSigned THEN ((printed + 128) % 256) - 128 ELSE printed % 256

\* Mutant: the count is not taken into account.
TooManyIgnoringCount == mac_as_number > 16777215
TooMany == mac_as_number > 16777215 - count

More == i < count

PrintMac ==
  /\ run = "printing"
  /\ IF printed = 0 /\ TooMany
     THEN run' = "failed" /\ UNCHANGED printed
     ELSE IF More THEN printed' = printed + 1 /\ UNCHANGED run
     ELSE run' = "done" /\ UNCHANGED printed
  /\ UNCHANGED <<command, pos, elapsed, record, config, said, mem, locked>>

\* atsha_close comes after the printing: until then SIGALRM ends the program,
\* or something else does.
PrintingStops ==
  /\ run = "printing"
  /\ \E how \in {"alarmed", "dead"} : Ends(how, said)
  /\ UNCHANGED <<command, printed, mem, locked>>

Next ==
  \/ \E c \in Command : Start(c)
  \/ CallSucceeds \/ LastCallSucceeds \/ AnswersDiffer \/ CallFails
  \/ ReadIgnored \/ AlarmKills \/ Dies \/ PrintMac \/ PrintingStops

Spec == Init /\ [][Next]_vars

-----------------------------------------------------------------------------
TypeOK ==
  /\ run \in {"none", "running", "printing", "failed", "done", "alarmed", "dead"}
  /\ command \in Command \cup {<<"none">>}
  /\ pos \in 1..104
  /\ elapsed \in 0..KILL_UNRELEASED_LOCK_AFTER
  /\ DOMAIN mem = Word /\ DOMAIN config = ConfAddr
  /\ \A a \in ConfAddr : DOMAIN mem[<<"conf", a>>] = {"first", "rest"}
  /\ locked \in {{}, {"conf"}, {"conf", "data"}}
  /\ printed > 0 => command[1] = "mac"

\* The files init was started with.
Files == {c[2] : c \in {d \in Command : d[1] = "init"}}

\* Suffix stands for three bytes put together.
ASSUME SuffixAssumption ==
  \A f \in Files : CompleteFile(f) =>
    Suffix(Otp(f, ATSHA204_OTP_MEMORY_MAP_MAC_ADDR)) \in Nat

\* However often init was started, killed and started again, with whatever
\* files, and whatever other commands came in between: a zone is locked only as
\* a whole, the configuration with all its words set and the data with the
\* contents of one file.
LockedIsWhole ==
  /\ "conf" \in locked =>
       /\ mem[AddressWord].rest = Configured
       /\ \A a \in SlotConfigAddrs :
            mem[<<"conf", a>>] = [first |-> Configured, rest |-> Configured]
  /\ "data" \in locked =>
       \E f \in Files : CompleteFile(f) /\ \A w \in DataZone : mem[w] = Programmed(f)[w]

\* What the emulation reads from file f is what the chip holds.
ChipIsLike(f) ==
  /\ \A s \in Slot : mem[<<"slot", s>>] = EmulReadSlot(f, get_slot_address(s))
  /\ \A a \in 0..15 : mem[<<"otp", a>>] = EmulReadOtp(f, a)

\* When init says that the zones are locked they are, and the emulation layer
\* reads from the same file what the chip holds.
LockedAgreesWithEmulation ==
  said = <<"data", "locked">> => locked = {"conf", "data"} /\ ChipIsLike(command[2])

\* `chiptools test' succeeds only on a locked chip with all keys and OTP words
\* of its file, and sees a difference only where there is one: whether the
\* chip was programmed, or left half programmed, from this or another file.
TestTellsTruth ==
  /\ said = <<"same">> => "data" \in locked /\ ChipIsLike(command[2])
  /\ said = <<"differs">> => ~ChipIsLike(command[2])

\* set-address that succeeds has set the address of the chip to the one asked
\* for, if that is one of 1 to 0x7E.
AddressAsAsked ==
  said[1] = "address" /\ said[2] \in 1..126 => mem[AddressWord].first = 2 * said[2]

\* The address and the OTP mode share a word, which both set-address and init
\* read, change and write back: neither changes what belongs to the other,
\* whatever became of earlier runs.
SharedWordKept ==
  [][/\ mem'[AddressWord].first # mem[AddressWord].first => command[1] = "set-address"
     /\ mem'[AddressWord].rest # mem[AddressWord].rest => command[1] = "init"]_vars

\* `mac n' prints n addresses, and none beyond the 24 bits of the suffix.
MacsAsAsked ==
  command[1] = "mac" =>
    /\ run = "done" /\ command[2] \in 1..255 => printed = command[2]
    /\ printed > 0 => mac_as_number + printed <= 16777215

\* "print n MAC address to stdout": never more than that.
NoMoreThanAsked == command[1] = "mac" => printed <= command[2]

\* "Initialize ATSHA204 with memory content defined FILE": a run none of whose
\* calls fails, of a program that nobody kills, gets there.
HealthyRunFinishes == run # "alarmed"
=============================================================================
