---------------------------- MODULE Tools_proofs ----------------------------
(***************************************************************************)
(* What becomes of a chip under any commands of the tools, with any files  *)
(* and numbers, whenever they fail, die or are killed by the alarm.        *)
(***************************************************************************)
EXTENDS Tools, TLAPS

-----------------------------------------------------------------------------
(* What the commands ask of the chip, call by call.                        *)

CallCount(name) ==
  CASE name = "init" -> 60
    [] name = "test" -> 104
    [] name = "dump-config" -> 22
    [] name = "dump-otp" -> 16
    [] name = "dump-data" -> 16
    [] name \in {"sn", "set-address", "mac"} -> 2
    [] name \in {"chipsn", "random", "devrev"} -> 1

LEMMA CallsCounted ==
  ASSUME command \in Command
  PROVE  Len(Calls) = CallCount(command[1])
<1>1. command[1] \in CommandName
  BY CommandAssumption
<1>2. /\ Len(InitCalls(command[2], record)) = 60
      /\ Len(TestCalls) = 104
  BY DEF InitCalls, CONFIG_CALLS, DATA_CALLS, TestCalls
<1>3. /\ Len(ConfReads) = 22 /\ Len(OtpReads) = 16 /\ Len(SlotReads) = 16
      /\ Len(SerialNumber) = 2 /\ Len(atsha_change_address(command[2])) = 2
  BY DEF ConfReads, CONFIG_CNT, OtpReads, SlotReads, SerialNumber, atsha_change_address
<1> QED BY <1>1, <1>2, <1>3 DEF Calls, CallCount, CommandName

LEMMA OneCommand ==
  ASSUME NEW x, call = <<x>>
  PROVE  cmd = x
BY DEF cmd

LEMMA InitAsks ==
  ASSUME command[1] = "init", pos \in 1..60
  PROVE  /\ pos \in 1..22 => cmd = <<"read", <<"conf", pos - 1>> >>
         /\ pos \in 23..40 /\ pos % 2 = 1 =>
              cmd = <<"read", <<"conf", 4 + ((pos - 23) \div 2)>> >>
         /\ pos \in 23..40 /\ pos % 2 = 0 =>
              LET a == 4 + ((pos - 24) \div 2)
              IN  cmd = <<"write", <<"conf", a>>, WithConfig(record, a)>>
         /\ pos = 41 => cmd = <<"lock", "conf">>
         /\ pos \in 42..57 => cmd = <<"write", <<"slot", pos - 42>>, Key(command[2], pos - 42)>>
         /\ pos \in 58..59 => cmd = <<"write", <<"otp", 8 * (pos - 58)>>,
                                      OtpBlock(command[2], 8 * (pos - 58))>>
         /\ pos = 60 => cmd = <<"lock", "data">>
<1> DEFINE f == command[2]
<1>1. Calls = InitCalls(f, record)
  BY DEF Calls
<1>2. pos <= 41 => Calls[pos] = create_and_lock_config(record)[pos]
  BY <1>1 DEF InitCalls, CONFIG_CALLS, DATA_CALLS
<1>3. pos > 41 => Calls[pos] = write_and_lock_data(f)[pos - 41]
  BY <1>1 DEF InitCalls, CONFIG_CALLS, DATA_CALLS
<1> HIDE DEF f
<1>4. CASE pos \in 1..22
  <2>1. call = RawConfRead(pos - 1)
    BY <1>2, <1>4 DEF call, create_and_lock_config, CONFIG_CALLS, CONFIG_CNT
  <2>2. cmd = <<"read", <<"conf", pos - 1>> >>
    BY <2>1, OneCommand DEF RawConfRead
  <2> QED BY <1>4, <2>2
<1>5. CASE pos \in 23..40
  <2>1. call = UpdateCall(pos, record)
    BY <1>2, <1>5 DEF call, create_and_lock_config, CONFIG_CALLS, CONFIG_CNT
  <2>2. CASE pos % 2 = 1
    <3> DEFINE a == 4 + ((pos - 23) \div 2)
    <3>1. (pos - 22 - 1) % 2 = 0 /\ pos - 22 - 1 = pos - 23
      BY <1>5, <2>2
    <3>2. call = RawConfRead(a)
      BY <2>1, <3>1 DEF UpdateCall, Update, CONFIG_CNT, OtpModeAddr
    <3> HIDE DEF a
    <3>3. cmd = <<"read", <<"conf", a>> >>
      BY <3>2, OneCommand DEF RawConfRead
    <3> QED BY <1>5, <2>2, <3>3 DEF a
  <2>3. CASE pos % 2 = 0
    <3> DEFINE a == 4 + ((pos - 24) \div 2)
    <3>1. (pos - 22 - 1) % 2 = 1 /\ (pos - 22 - 1) \div 2 = (pos - 24) \div 2
      BY <1>5, <2>3
    <3>2. call = RawConfWrite(a, WithConfig(record, a))
      BY <2>1, <3>1 DEF UpdateCall, Update, CONFIG_CNT, OtpModeAddr
    <3> HIDE DEF a
    <3>3. cmd = <<"write", <<"conf", a>>, WithConfig(record, a)>>
      BY <3>2, OneCommand DEF RawConfWrite
    <3> QED BY <1>5, <2>3, <3>3 DEF a
  <2> QED BY <1>5, <2>2, <2>3
<1>6. CASE pos = 41
  <2>1. call = LockConfig
    BY <1>2, <1>6 DEF call, create_and_lock_config, CONFIG_CALLS, CONFIG_CNT
  <2>2. cmd = <<"lock", "conf">>
    BY <2>1, OneCommand DEF LockConfig
  <2> QED BY <1>6, <2>2
<1>7. CASE pos \in 42..57
  <2>1. pos - 41 \in 1..16 /\ pos - 41 - 1 = pos - 42
    BY <1>7
  <2>2. call = RawSlotWrite(pos - 42, Key(f, pos - 42))
    BY <1>3, <1>7, <2>1 DEF call, write_and_lock_data, DATA_CALLS, SLOT_CNT
  <2>3. cmd = <<"write", <<"slot", pos - 42>>, Key(f, pos - 42)>>
    BY <2>2, OneCommand DEF RawSlotWrite
  <2> QED BY <1>7, <2>3 DEF f
<1>8. CASE pos \in 58..59
  <2> DEFINE base == 8 * (pos - 58)
  <2>1. pos - 41 \in 17..18 /\ pos - 41 - 16 - 1 = pos - 58
    BY <1>8
  <2>2. call = RawOtp32Write(base, OtpBlock(f, base))
    BY <1>3, <1>8, <2>1 DEF call, write_and_lock_data, DATA_CALLS, SLOT_CNT
  <2> HIDE DEF base
  <2>3. cmd = <<"write", <<"otp", base>>, OtpBlock(f, base)>>
    BY <2>2, OneCommand DEF RawOtp32Write
  <2> QED BY <1>8, <2>3 DEF f, base
<1>9. CASE pos = 60
  <2>1. call = LockData
    BY <1>3, <1>9 DEF call, write_and_lock_data, DATA_CALLS, SLOT_CNT
  <2>2. cmd = <<"lock", "data">>
    BY <2>1, OneCommand DEF LockData
  <2> QED BY <1>9, <2>2
<1> QED BY <1>4, <1>5, <1>6, <1>7, <1>8, <1>9

LEMMA AddressAsks ==
  ASSUME command[1] = "set-address"
  PROVE  /\ pos = 1 => cmd = <<"read", <<"conf", 4>> >>
         /\ pos = 2 => cmd = <<"write", <<"conf", 4>>,
                               [record EXCEPT !.first = (2 * (command[2] % 256)) % 256]>>
BY DEF Calls, call, cmd, atsha_change_address, RawConfRead, RawConfWrite

LEMMA MacAsks ==
  ASSUME command[1] = "mac"
  PROVE  /\ pos = 1 => cmd = <<"read", <<"otp", 3>> >>
         /\ pos = 2 => cmd = <<"read", <<"otp", 4>> >>
BY DEF Calls, call, cmd, RawOtpRead,
       ATSHA204_OTP_MEMORY_MAP_MAC_PREFIX, ATSHA204_OTP_MEMORY_MAP_MAC_ADDR

LEMMA TestAsks ==
  ASSUME command[1] = "test", pos \in 1..104
  PROVE  /\ pos \in 1..2 => cmd = <<"read", <<"otp", pos - 1>> >>
         /\ pos \in 3..66 =>
              /\ cmd[1] \in {"hmac", "mac"}
              /\ cmd[2] = (pos - 3) \div 4
         /\ pos \in 67..82 => cmd = <<"read", <<"otp", pos - 67>> >>
         /\ pos \in 83..104 => cmd = <<"read", <<"conf", pos - 83>> >>
<1>1. call = TestCalls[pos]
  BY DEF Calls, call
<1>2. CASE pos \in 1..2
  <2>1. call = RawOtpRead(pos - 1)
    BY <1>1, <1>2 DEF TestCalls, SerialNumber
  <2>2. cmd = <<"read", <<"otp", pos - 1>> >>
    BY <2>1, OneCommand DEF RawOtpRead
  <2> QED BY <1>2, <2>2
<1>3. CASE pos \in 3..66
  <2> DEFINE slot == (pos - 3) \div 4
             k == (pos - 3) % 4
  <2>1. call = Digests(slot)[1 + k]
    BY <1>1, <1>3 DEF TestCalls
  <2>2. k \in 0..3
    BY <1>3
  <2> HIDE DEF slot, k
  <2>3. \/ call = LowChallengeResponse(slot, "challenge")
        \/ call = LowChallengeResponseMac(slot, "challenge")
    BY <2>1, <2>2 DEF Digests
  <2>4. CASE call = LowChallengeResponse(slot, "challenge")
    <3>1. Len(call) = 2 /\ call[2] = <<"hmac", slot>>
      BY <2>4 DEF LowChallengeResponse
    <3> QED BY <1>3, <3>1 DEF cmd, slot
  <2>5. CASE call = LowChallengeResponseMac(slot, "challenge")
    <3>1. cmd = <<"mac", slot, "challenge">>
      BY <2>5, OneCommand DEF LowChallengeResponseMac
    <3> QED BY <1>3, <3>1 DEF slot
  <2> QED BY <2>3, <2>4, <2>5
<1>4. CASE pos \in 67..82
  <2>1. call = RawOtpRead(pos - 67)
    BY <1>1, <1>4 DEF TestCalls, OtpReads
  <2>2. cmd = <<"read", <<"otp", pos - 67>> >>
    BY <2>1, OneCommand DEF RawOtpRead
  <2> QED BY <1>4, <2>2
<1>5. CASE pos \in 83..104
  <2>1. call = RawConfRead(pos - 83)
    BY <1>1, <1>5 DEF TestCalls, ConfReads, CONFIG_CNT
  <2>2. cmd = <<"read", <<"conf", pos - 83>> >>
    BY <2>1, OneCommand DEF RawConfRead
  <2> QED BY <1>5, <2>2
<1> QED BY <1>2, <1>3, <1>4, <1>5

\* Only two commands change a chip.
LEMMA OthersOnlyAsk ==
  ASSUME command \in Command, command[1] \notin {"init", "set-address"},
         pos \in 1..CallCount(command[1])
  PROVE  cmd[1] \notin {"write", "lock"}
<1>1. command[1] \in CommandName
  BY CommandAssumption
<1>2. CASE command[1] = "test"
  <2>1. pos \in 1..104
    BY <1>2 DEF CallCount
  <2> QED BY <1>2, <2>1, TestAsks
<1>3. CASE command[1] = "dump-config"
  <2>1. call = RawConfRead(pos - 1)
    BY <1>3 DEF CallCount, Calls, call, ConfReads, CONFIG_CNT
  <2> QED BY <2>1, OneCommand DEF RawConfRead
<1>4. CASE command[1] = "dump-otp"
  <2>1. call = RawOtpRead(pos - 1)
    BY <1>4 DEF CallCount, Calls, call, OtpReads
  <2> QED BY <2>1, OneCommand DEF RawOtpRead
<1>5. CASE command[1] = "dump-data"
  <2>1. call = RawSlotRead(pos - 1)
    BY <1>5 DEF CallCount, Calls, call, SlotReads
  <2> QED BY <2>1, OneCommand DEF RawSlotRead
<1>6. CASE command[1] = "sn"
  <2>1. call = RawOtpRead(pos - 1)
    BY <1>6 DEF CallCount, Calls, call, SerialNumber
  <2> QED BY <2>1, OneCommand DEF RawOtpRead
<1>7. CASE command[1] \in {"chipsn", "random", "devrev"}
  <2>1. call \in {ChipSerialNumber, Random, DevRev}
    BY <1>7 DEF CallCount, Calls, call
  <2> QED BY <2>1, OneCommand DEF ChipSerialNumber, Random, DevRev
<1>8. CASE command[1] = "mac"
  <2>1. pos \in 1..2
    BY <1>8 DEF CallCount
  <2> QED BY <1>8, <2>1, MacAsks
<1> QED BY <1>1, <1>2, <1>3, <1>4, <1>5, <1>6, <1>7, <1>8 DEF CommandName

-----------------------------------------------------------------------------
(* The inductive invariant                                                 *)

IsRecord(r) == r = [first |-> r.first, rest |-> r.rest]

Types ==
  /\ run \in {"none", "running", "printing", "failed", "done", "alarmed", "dead"}
  /\ run = "none" => command = <<"none">>
  /\ run # "none" => command \in Command
  /\ elapsed \in 0..KILL_UNRELEASED_LOCK_AFTER
  /\ printed \in Nat
  /\ mem = [w \in Word |-> mem[w]] /\ config = [a \in ConfAddr |-> config[a]]
  /\ IsRecord(record)
  /\ \A a \in ConfAddr : IsRecord(mem[<<"conf", a>>]) /\ IsRecord(config[a])
  /\ locked \in {{}, {"conf"}, {"conf", "data"}}

\* Where a program can be, and what it has said and printed by then.
ProgramInv ==
  /\ run = "running" =>
       /\ pos \in 1..CallCount(command[1]) /\ ~Refused(command)
       /\ said \in {<<"none">>, <<"conf", "locked">>}
       /\ printed = 0
  /\ run # "running" => pos = 1
  /\ run = "printing" => command[1] = "mac" /\ "data" \in locked
  /\ printed > 0 => command[1] = "mac" /\ "data" \in locked

\* The buffer of init has what it has written to a word that it sets.
WasSet(a, r) ==
  /\ r.rest = Configured
  /\ a # OtpModeAddr => r.first = Configured
BufferInv ==
  run = "running" /\ command[1] = "init" =>
    \A a \in 4..12 : pos > 24 + 2 * (a - 4) => WasSet(a, config[a])

\* The word that is about to be written back is as it was read.
RecordInv ==
  /\ run = "running" /\ command[1] = "init" /\ pos = 24 => record = mem[AddressWord]
  /\ run = "running" /\ command[1] = "set-address" /\ pos = 2 => record = mem[AddressWord]

\* What test has compared by now.
TestInv ==
  run = "running" /\ command[1] = "test" =>
    /\ pos > 1 => "data" \in locked
    /\ pos > 2 => SameSerial
    /\ \A s \in 0..15 : pos > 3 + 4 * s =>
         mem[<<"slot", s>>] = EmulReadSlot(command[2], get_slot_address(s))
    /\ \A a \in 0..15 : pos > 67 + a =>
         mem[<<"otp", a>>] = EmulReadOtp(command[2], a)

\* The loop of `mac n', where it ends for every n.
MacInv ==
  ~CharIsSigned /\ command[1] = "mac" =>
    /\ printed <= count
    /\ printed > 0 => mac_as_number <= 16777215 - count
    /\ run = "done" => printed = count

ToolsInv ==
  /\ Types /\ ProgramInv /\ BufferInv /\ RecordInv /\ TestInv /\ MacInv
  /\ LockedIsWhole /\ LockedAgreesWithEmulation /\ TestTellsTruth /\ AddressAsAsked

-----------------------------------------------------------------------------
(* What a call may do to the chip                                          *)

ConfWritten(addr, r) ==
  /\ locked = {} /\ UNCHANGED locked
  /\ mem' = [mem EXCEPT ![<<"conf", addr>>] = r]

InitWritesConf ==
  /\ command[1] = "init" /\ pos \in 23..40 /\ pos % 2 = 0
  /\ LET a == 4 + ((pos - 24) \div 2) IN ConfWritten(a, WithConfig(record, a))

AddressWritten ==
  /\ command[1] = "set-address" /\ pos = 2
  /\ ConfWritten(4, [record EXCEPT !.first = (2 * (command[2] % 256)) % 256])

DataWritten ==
  /\ command[1] = "init" /\ pos \in 42..59
  /\ "data" \notin locked /\ UNCHANGED locked
  /\ mem' = [w \in Word |-> mem'[w]]
  /\ \A a \in ConfAddr : mem'[<<"conf", a>>] = mem[<<"conf", a>>]

ConfLocked ==
  /\ command[1] = "init" /\ pos = 41
  /\ locked = {} /\ locked' = {"conf"} /\ UNCHANGED mem
  /\ \A a \in ConfAddr : config[a] = mem[<<"conf", a>>]

DataLocked ==
  /\ command[1] = "init" /\ pos = 60
  /\ locked = {"conf"} /\ locked' = {"conf", "data"} /\ UNCHANGED mem
  /\ \A w \in DataZone : mem[w] = Programmed(command[2])[w]

Effect ==
  \/ Undone \/ InitWritesConf \/ AddressWritten \/ DataWritten
  \/ ConfLocked \/ DataLocked

LEMMA WriteEffect ==
  ASSUME Types, Executes, NEW addr \in 0..21, NEW r, cmd = <<"write", <<"conf", addr>>, r>>
  PROVE  ConfWritten(addr, r)
<1>1. Writable(<<"conf", addr>>, locked)
  BY DEF Executes, Accepts
<1>2. locked = {}
  BY <1>1 DEF Writable, Types
<1>3. mem' = [mem EXCEPT ![<<"conf", addr>>] = r]
  BY DEF Executes, Stored, MemAfter
<1>4. UNCHANGED locked
  BY DEF Executes, LockedAfter
<1> QED BY <1>2, <1>3, <1>4 DEF ConfWritten

LEMMA LockEffect ==
  ASSUME Executes, NEW zone, cmd = <<"lock", zone>>
  PROVE  /\ UNCHANGED mem /\ locked' = locked \cup {zone} /\ CrcMatches
         /\ Lockable(zone, locked)
BY DEF Executes, Accepts, Stored, MemAfter, LockedAfter

LEMMA CallEffect ==
  ASSUME Types, ProgramInv, run = "running", Executes \/ Undone
  PROVE  Effect
<1> SUFFICES ASSUME Executes PROVE Effect
  BY DEF Effect
<1>1. command \in Command /\ pos \in 1..CallCount(command[1])
  BY DEF Types, ProgramInv
<1>2. cmd[1] \notin {"write", "lock"} => Undone
  BY DEF Executes, Stored, MemAfter, LockedAfter, Undone
<1>3. CASE command[1] = "init"
  <2>1. pos \in 1..60
    BY <1>1, <1>3 DEF CallCount
  <2>2. CASE pos \in 1..22
    BY <1>2, <1>3, <2>1, <2>2, InitAsks DEF Effect
  <2>3. CASE pos \in 23..40
    <3>1. CASE pos % 2 = 1
      <4>1. cmd = <<"read", <<"conf", 4 + ((pos - 23) \div 2)>> >>
        BY <1>3, <2>1, <2>3, <3>1, InitAsks
      <4> QED BY <1>2, <4>1 DEF Effect
    <3>2. CASE pos % 2 = 0
      <4> DEFINE a == 4 + ((pos - 24) \div 2)
      <4>1. cmd = <<"write", <<"conf", a>>, WithConfig(record, a)>>
        BY <1>3, <2>1, <2>3, <3>2, InitAsks
      <4>2. a \in 0..21
        BY <2>3, <3>2
      <4>3. ConfWritten(a, WithConfig(record, a))
        <5> HIDE DEF a
        <5> QED BY <4>1, <4>2, WriteEffect
      <4> QED BY <1>3, <2>3, <3>2, <4>3 DEF Effect, InitWritesConf
    <3> QED BY <2>3, <3>1, <3>2
  <2>4. CASE pos = 41
    <3>1. cmd = <<"lock", "conf">>
      BY <1>3, <2>1, <2>4, InitAsks
    <3>2. /\ UNCHANGED mem /\ locked' = locked \cup {"conf"} /\ CrcMatches
          /\ Lockable("conf", locked)
      BY <3>1, LockEffect
    <3>3. locked = {}
      BY <3>2 DEF Lockable, Types
    <3>4. \A a \in ConfAddr : config[a] = mem[<<"conf", a>>]
      BY <3>1, <3>2 DEF CrcMatches
    <3> QED BY <1>3, <2>4, <3>2, <3>3, <3>4 DEF Effect, ConfLocked
  <2>5. CASE pos \in 42..57
    <3>1. cmd = <<"write", <<"slot", pos - 42>>, Key(command[2], pos - 42)>>
      BY <1>3, <2>1, <2>5, InitAsks
    <3>2. "data" \notin locked /\ UNCHANGED locked
      BY <3>1 DEF Executes, Accepts, Writable, LockedAfter
    <3>3. mem' = [mem EXCEPT ![<<"slot", pos - 42>>] = Key(command[2], pos - 42)]
      BY <3>1 DEF Executes, Stored, MemAfter
    <3>4. mem' = [w \in Word |-> mem'[w]]
      BY <3>3 DEF Types
    <3>5. \A a \in ConfAddr : mem'[<<"conf", a>>] = mem[<<"conf", a>>]
      BY <3>3 DEF Types, Word
    <3> QED BY <1>3, <2>5, <3>2, <3>4, <3>5 DEF Effect, DataWritten
  <2>6. CASE pos \in 58..59
    <3>1. cmd = <<"write", <<"otp", 8 * (pos - 58)>>, OtpBlock(command[2], 8 * (pos - 58))>>
      BY <1>3, <2>1, <2>6, InitAsks
    <3>2. "data" \notin locked /\ UNCHANGED locked
      BY <3>1 DEF Executes, Accepts, Writable, LockedAfter
    <3>3. mem' = Stored /\ cmd[1] = "write" /\ cmd[2][1] = "otp"
      BY <3>1 DEF Executes
    <3>4. mem' = [w \in Word |-> IF w[1] = "otp" /\ w[2] \div 8 = cmd[2][2] \div 8
                                 THEN cmd[3][w[2] % 8] ELSE mem[w]]
      BY <3>3 DEF Stored
    <3>5. mem' = [w \in Word |-> mem'[w]]
      BY <3>4
    <3>6. \A a \in ConfAddr : mem'[<<"conf", a>>] = mem[<<"conf", a>>]
      BY <3>4 DEF Word
    <3> QED BY <1>3, <2>6, <3>2, <3>5, <3>6 DEF Effect, DataWritten
  <2>7. CASE pos = 60
    <3>1. cmd = <<"lock", "data">>
      BY <1>3, <2>1, <2>7, InitAsks
    <3>2. /\ UNCHANGED mem /\ locked' = locked \cup {"data"} /\ CrcMatches
          /\ Lockable("data", locked)
      BY <3>1, LockEffect
    <3>3. locked = {"conf"}
      BY <3>2 DEF Lockable, Types
    <3>4. \A w \in DataZone : mem[w] = Programmed(command[2])[w]
      BY <3>1, <3>2 DEF CrcMatches
    <3> QED BY <1>3, <2>7, <3>2, <3>3, <3>4 DEF Effect, DataLocked
  <2> QED BY <2>1, <2>2, <2>3, <2>4, <2>5, <2>6, <2>7
<1>4. CASE command[1] = "set-address"
  <2>1. pos \in 1..2
    BY <1>1, <1>4 DEF CallCount
  <2>2. CASE pos = 1
    BY <1>2, <1>4, <2>2, AddressAsks DEF Effect
  <2>3. CASE pos = 2
    <3>1. cmd = <<"write", <<"conf", 4>>,
                  [record EXCEPT !.first = (2 * (command[2] % 256)) % 256]>>
      BY <1>4, <2>3, AddressAsks
    <3> QED BY <1>4, <2>3, <3>1, WriteEffect DEF Effect, AddressWritten
  <2> QED BY <2>1, <2>2, <2>3
<1>5. CASE command[1] \notin {"init", "set-address"}
  BY <1>1, <1>2, <1>5, OthersOnlyAsk DEF Effect
<1> QED BY <1>3, <1>4, <1>5

-----------------------------------------------------------------------------
(* Types                                                                   *)

LEMMA ConfAddrs == ConfAddr = 0..21
BY AddressAssumption DEF CONFIG_CNT

LEMMA SlotNumbers == Slot = 0..15
BY AddressAssumption DEF SLOT_CNT

LEMMA ConfReadAddress ==
  ASSUME Types, ProgramInv, run = "running", cmd[1] = "read", cmd[2][1] = "conf"
  PROVE  \E a \in 0..21 : cmd[2] = <<"conf", a>>
<1>1. command[1] \in CommandName /\ pos \in 1..CallCount(command[1])
  BY CommandAssumption DEF Types, ProgramInv
<1>2. CASE command[1] = "init"
  <2>1. pos \in 1..60
    BY <1>1, <1>2 DEF CallCount
  <2>2. CASE pos \in 1..22
    BY <1>2, <2>1, <2>2, InitAsks
  <2>3. CASE pos \in 23..40 /\ pos % 2 = 1
    <3> DEFINE a == 4 + ((pos - 23) \div 2)
    <3>1. cmd = <<"read", <<"conf", a>> >> /\ a \in 0..21
      BY <1>2, <2>1, <2>3, InitAsks
    <3> QED BY <3>1
  <2>4. CASE (pos \in 23..40 /\ pos % 2 = 0) \/ pos \in 41..60
    <3>1. cmd[1] \in {"write", "lock"}
      BY <1>2, <2>1, <2>4, InitAsks
    <3> QED BY <3>1
  <2> QED BY <2>1, <2>2, <2>3, <2>4
<1>3. CASE command[1] = "test"
  <2>1. pos \in 1..104
    BY <1>1, <1>3 DEF CallCount
  <2> QED BY <1>3, <2>1, TestAsks
<1>4. CASE command[1] = "dump-config"
  <2>1. call = RawConfRead(pos - 1) /\ pos - 1 \in 0..21
    BY <1>1, <1>4 DEF CallCount, Calls, call, ConfReads, CONFIG_CNT
  <2> QED BY <2>1, OneCommand DEF RawConfRead
<1>5. CASE command[1] = "dump-otp"
  <2>1. call = RawOtpRead(pos - 1)
    BY <1>1, <1>5 DEF CallCount, Calls, call, OtpReads
  <2> QED BY <2>1, OneCommand DEF RawOtpRead
<1>6. CASE command[1] = "dump-data"
  <2>1. call = RawSlotRead(pos - 1)
    BY <1>1, <1>6 DEF CallCount, Calls, call, SlotReads
  <2> QED BY <2>1, OneCommand DEF RawSlotRead
<1>7. CASE command[1] = "sn"
  <2>1. call = RawOtpRead(pos - 1)
    BY <1>1, <1>7 DEF CallCount, Calls, call, SerialNumber
  <2> QED BY <2>1, OneCommand DEF RawOtpRead
<1>8. CASE command[1] \in {"chipsn", "random", "devrev"}
  <2>1. call \in {ChipSerialNumber, Random, DevRev}
    BY <1>1, <1>8 DEF CallCount, Calls, call
  <2> QED BY <2>1, OneCommand DEF ChipSerialNumber, Random, DevRev
<1>9. CASE command[1] = "set-address"
  <2>1. pos \in 1..2
    BY <1>1, <1>9 DEF CallCount
  <2> QED BY <1>9, <2>1, AddressAsks
<1>10. CASE command[1] = "mac"
  <2>1. pos \in 1..2
    BY <1>1, <1>10 DEF CallCount
  <2> QED BY <1>10, <2>1, MacAsks
<1> QED
  BY <1>1, <1>2, <1>3, <1>4, <1>5, <1>6, <1>7, <1>8, <1>9, <1>10 DEF CommandName

LEMMA WithConfigRecord ==
  ASSUME NEW r, NEW addr, IsRecord(r)
  PROVE  /\ IsRecord(WithConfig(r, addr))
         /\ WasSet(addr, WithConfig(r, addr))
         /\ addr = 4 => WithConfig(r, addr).first = r.first
BY DEF IsRecord, WithConfig, WasSet, OtpModeAddr

\* The chip keeps its shape, and a word of the configuration its two parts.
LEMMA EffectTypes ==
  ASSUME Types, Effect
  PROVE  /\ mem' = [w \in Word |-> mem'[w]]
         /\ \A a \in ConfAddr : IsRecord(mem'[<<"conf", a>>])
         /\ locked' \in {{}, {"conf"}, {"conf", "data"}}
         /\ locked \subseteq locked'
<1>1. ASSUME NEW addr, NEW r, IsRecord(r), ConfWritten(addr, r)
      PROVE  /\ mem' = [w \in Word |-> mem'[w]]
             /\ \A a \in ConfAddr : IsRecord(mem'[<<"conf", a>>])
  <2>1. mem' = [w \in Word |-> mem'[w]]
    BY <1>1 DEF ConfWritten, Types
  <2>2. ASSUME NEW a \in ConfAddr PROVE IsRecord(mem'[<<"conf", a>>])
    <3>1. <<"conf", a>> \in Word
      BY DEF Word
    <3>2. mem'[<<"conf", a>>] = r \/ mem'[<<"conf", a>>] = mem[<<"conf", a>>]
      BY <1>1, <3>1 DEF ConfWritten, Types
    <3> QED BY <1>1, <3>2 DEF Types
  <2> QED BY <2>1, <2>2
<1>2. CASE Undone
  BY <1>2 DEF Undone, Types
<1>3. CASE InitWritesConf
  <2> DEFINE a == 4 + ((pos - 24) \div 2)
  <2>1. ConfWritten(a, WithConfig(record, a))
    BY <1>3 DEF InitWritesConf
  <2>2. IsRecord(WithConfig(record, a))
    BY WithConfigRecord DEF Types
  <2> HIDE DEF a
  <2> QED BY <1>1, <2>1, <2>2 DEF ConfWritten
<1>4. CASE AddressWritten
  <2> DEFINE r == [record EXCEPT !.first = (2 * (command[2] % 256)) % 256]
  <2>1. ConfWritten(4, r)
    BY <1>4 DEF AddressWritten
  <2>2. IsRecord(r)
    BY DEF Types, IsRecord
  <2> HIDE DEF r
  <2> QED BY <1>1, <2>1, <2>2 DEF ConfWritten
<1>5. CASE DataWritten
  BY <1>5 DEF DataWritten, Types
<1>6. CASE ConfLocked
  BY <1>6 DEF ConfLocked, Types
<1>7. CASE DataLocked
  BY <1>7 DEF DataLocked, Types
<1> QED BY <1>2, <1>3, <1>4, <1>5, <1>6, <1>7 DEF Effect
 
LEMMA NotedTypes ==
  ASSUME Types, ProgramInv, run = "running", Noted
  PROVE  /\ IsRecord(record')
         /\ config' = [a \in ConfAddr |-> config'[a]]
         /\ \A a \in ConfAddr : IsRecord(config'[a])
<1>1. CASE cmd[1] = "read" /\ cmd[2][1] = "conf"
  <2>1. PICK a \in ConfAddr : cmd[2] = <<"conf", a>>
    BY <1>1, ConfReadAddress, ConfAddrs
  <2>2. record' = mem[<<"conf", a>>]
    BY <1>1, <2>1 DEF Noted
  <2>3. config' = config \/ config' = [config EXCEPT ![a] = mem[<<"conf", a>>]]
    BY <1>1, <2>1 DEF Noted
  <2> QED BY <2>2, <2>3 DEF Types
<1>2. CASE ~(cmd[1] = "read" /\ cmd[2][1] = "conf")
  <2>1. record' = record
    BY <1>2 DEF Noted
  <2>2. \/ config' = config
        \/ config' = [config EXCEPT ![cmd[2][2]] = WithConfig(@, cmd[2][2])]
    BY <1>2 DEF Noted
  <2>3. IsRecord(record')
    BY <2>1 DEF Types
  <2>4. CASE config' = config
    BY <2>3, <2>4 DEF Types
  <2>5. CASE config' = [config EXCEPT ![cmd[2][2]] = WithConfig(@, cmd[2][2])]
    <3>1. \A a \in ConfAddr : IsRecord(WithConfig(config[a], a))
      BY WithConfigRecord DEF Types
    <3>2. config' = [a \in ConfAddr |-> IF a = cmd[2][2] THEN WithConfig(config[a], a)
                                        ELSE config[a]]
      BY <2>5 DEF Types
    <3>3. config' = [a \in ConfAddr |-> config'[a]]
      BY <3>2
    <3>4. \A a \in ConfAddr : IsRecord(config'[a])
      BY <3>1, <3>2 DEF Types
    <3> QED BY <2>3, <3>3, <3>4
  <2> QED BY <2>2, <2>4, <2>5
<1> QED BY <1>1, <1>2

-----------------------------------------------------------------------------
(* One step of a program, whether it goes on or ends                       *)

\* A call keeps the zones whole, whatever becomes of its answer.
LEMMA WholeStep ==
  ASSUME Types, ProgramInv, BufferInv, LockedIsWhole, run = "running", Effect
  PROVE  LockedIsWhole'
<1>1. CASE Undone
  BY <1>1 DEF Undone, LockedIsWhole
<1>2. CASE InitWritesConf \/ AddressWritten
  <2>1. locked' = {}
    BY <1>2 DEF InitWritesConf, AddressWritten, ConfWritten
  <2> QED BY <2>1 DEF LockedIsWhole
<1>3. CASE DataWritten
  <2>1. "data" \notin locked' /\ locked' = locked
    BY <1>3 DEF DataWritten
  <2>2. \A a \in 4..12 : mem'[<<"conf", a>>] = mem[<<"conf", a>>]
    BY <1>3, ConfAddrs DEF DataWritten
  <2> QED BY <2>1, <2>2 DEF LockedIsWhole, AddressWord, OtpModeAddr, SlotConfigAddrs
<1>4. CASE ConfLocked
  <2>1. \A a \in 4..12 : WasSet(a, config[a]) /\ config[a] = mem[<<"conf", a>>]
    BY <1>4, ConfAddrs DEF ConfLocked, BufferInv
  <2>2. \A a \in 4..12 : IsRecord(config[a])
    BY ConfAddrs DEF Types
  <2>3. mem[AddressWord].rest = Configured
    BY <2>1 DEF AddressWord, OtpModeAddr, WasSet
  <2>4. \A a \in 5..12 : mem[<<"conf", a>>] = [first |-> Configured, rest |-> Configured]
    BY <2>1, <2>2 DEF WasSet, OtpModeAddr, IsRecord
  <2>5. mem' = mem /\ "data" \notin locked'
    BY <1>4 DEF ConfLocked
  <2> QED BY <2>3, <2>4, <2>5 DEF LockedIsWhole, SlotConfigAddrs
<1>5. CASE DataLocked
  <2>1. command[2] \in Files
    BY <1>5 DEF DataLocked, Types, Files
  <2>2. CompleteFile(command[2])
    BY <1>5 DEF DataLocked, ProgramInv, Refused
  <2>3. mem' = mem /\ "conf" \in locked
    BY <1>5 DEF DataLocked
  <2>4. \A w \in DataZone : mem'[w] = Programmed(command[2])[w]
    BY <1>5, <2>3 DEF DataLocked
  <2> QED BY <2>1, <2>2, <2>3, <2>4 DEF LockedIsWhole
<1> QED BY <1>1, <1>2, <1>3, <1>4, <1>5 DEF Effect

\* What has ended leaves nothing in memory.
LEMMA EndTypes ==
  ASSUME Types, Effect, NEW how, NEW report, Ends(how, report),
         how \in {"running", "printing", "failed", "done", "alarmed", "dead"},
         command' \in Command, printed' \in Nat
  PROVE  Types'
<1>1. /\ mem' = [w \in Word |-> mem'[w]]
      /\ \A a \in ConfAddr : IsRecord(mem'[<<"conf", a>>])
      /\ locked' \in {{}, {"conf"}, {"conf", "data"}}
  BY EffectTypes
<1>2. run' = how /\ elapsed' = 0 /\ record' = BlankWord /\ config' = NoBuffer
  BY DEF Ends
<1>3. IsRecord(BlankWord)
  BY DEF IsRecord, BlankWord
<1>4. /\ config' = [a \in ConfAddr |-> config'[a]]
      /\ \A a \in ConfAddr : IsRecord(config'[a])
  BY <1>2, <1>3 DEF NoBuffer
<1>5. 0 \in 0..KILL_UNRELEASED_LOCK_AFTER
  BY ToolsAssumption
<1> QED BY <1>1, <1>2, <1>3, <1>4, <1>5 DEF Types

\* A program that ends without success.
LEMMA FailureStep ==
  ASSUME ToolsInv, run = "running", Effect,
         NEW how, how \in {"failed", "alarmed", "dead"}, NEW report, Ends(how, report),
         report[1] \notin {"address", "same", "differs"}, report # <<"data", "locked">>,
         UNCHANGED <<command, printed>>
  PROVE  ToolsInv'
<1> USE DEF ToolsInv
<1>1. Types'
  BY EndTypes DEF Types
<1>2. run' = how /\ pos' = 1 /\ said' = report /\ printed = 0
  BY DEF Ends, ProgramInv
<1>3. ProgramInv'
  BY <1>2 DEF ProgramInv
<1>4. BufferInv' /\ RecordInv' /\ TestInv'
  BY <1>2 DEF BufferInv, RecordInv, TestInv
<1>5. MacInv'
  BY <1>2 DEF MacInv, count
<1>6. LockedIsWhole'
  BY WholeStep
<1>7. LockedAgreesWithEmulation' /\ TestTellsTruth' /\ AddressAsAsked'
  BY <1>2 DEF LockedAgreesWithEmulation, TestTellsTruth, AddressAsAsked
<1> QED BY <1>1, <1>3, <1>4, <1>5, <1>6, <1>7

LEMMA StartStep ==
  ASSUME ToolsInv, NEW c \in Command, Start(c)
  PROVE  ToolsInv'
<1> USE DEF ToolsInv
<1> DEFINE how == IF Refused(c) THEN "failed" ELSE "running"
<1>1. /\ command' = c /\ printed' = 0 /\ Undone
      /\ Ends(how, <<"none">>)
  BY DEF Start
<1>2. run' = how /\ pos' = 1 /\ said' = <<"none">>
  BY <1>1 DEF Ends
<1>3. Types'
  BY <1>1, EndTypes DEF Effect
<1>4. c[1] \in CommandName
  BY CommandAssumption
<1>5. 1 \in 1..CallCount(c[1])
  BY <1>4 DEF CallCount, CommandName
<1>6. ProgramInv'
  BY <1>1, <1>2, <1>5 DEF ProgramInv
<1>7. BufferInv' /\ RecordInv'
  BY <1>2 DEF BufferInv, RecordInv
<1>8. TestInv'
  BY <1>2 DEF TestInv
<1>9. MacInv'
  <2>1. c[1] = "mac" => c[2] % 256 \in 0..255
    BY CommandAssumption
  <2> QED BY <1>1, <1>2, <2>1 DEF MacInv, count
<1>10. LockedIsWhole'
  BY <1>1 DEF Undone, LockedIsWhole
<1>11. LockedAgreesWithEmulation' /\ TestTellsTruth' /\ AddressAsAsked'
  BY <1>2 DEF LockedAgreesWithEmulation, TestTellsTruth, AddressAsAsked
<1> QED BY <1>3, <1>6, <1>7, <1>8, <1>9, <1>10, <1>11

LEMMA CallFailsStep == ASSUME ToolsInv, CallFails PROVE ToolsInv'
<1>1. Effect
  BY CallEffect DEF CallFails, ToolsInv
<1>2. UNCHANGED <<command, printed>> /\ run = "running"
  BY DEF CallFails
<1>3. CASE Ends("failed", said)
  <2>1. said \in {<<"none">>, <<"conf", "locked">>}
    BY DEF CallFails, ToolsInv, ProgramInv
  <2>2. said[1] \notin {"address", "same", "differs"} /\ said # <<"data", "locked">>
    BY <2>1
  <2> QED BY <1>1, <1>2, <1>3, <2>2, FailureStep
<1>4. CASE Ends("failed", <<Zone, "NOT locked">>)
  <2>1. Zone \in {"conf", "data"}
    BY DEF Zone
  <2> DEFINE report == <<Zone, "NOT locked">>
  <2>2. report[1] \notin {"address", "same", "differs"} /\ report # <<"data", "locked">>
    BY <2>1
  <2> QED BY <1>1, <1>2, <1>4, <2>2, FailureStep
<1> QED BY <1>3, <1>4 DEF CallFails

LEMMA KilledStep == ASSUME ToolsInv, AlarmKills \/ Dies PROVE ToolsInv'
<1>1. Effect
  BY CallEffect DEF AlarmKills, Dies, ToolsInv
<1>2. said \in {<<"none">>, <<"conf", "locked">>}
  BY DEF AlarmKills, Dies, ToolsInv, ProgramInv
<1>3. said[1] \notin {"address", "same", "differs"} /\ said # <<"data", "locked">>
  BY <1>2
<1> QED BY <1>1, <1>3, FailureStep DEF AlarmKills, Dies

\* What test finds is so.
LEMMA TestCallKeeps ==
  ASSUME Types, ProgramInv, run = "running", command[1] = "test", Executes \/ Undone
  PROVE  Undone /\ pos \in 1..104
<1>1. pos \in 1..104
  BY DEF ProgramInv, CallCount
<1>2. cmd[1] \notin {"write", "lock"}
  BY <1>1, TestAsks
<1> QED BY <1>1, <1>2 DEF Executes, Undone, Stored, MemAfter, LockedAfter

LEMMA SameAnswerMeans ==
  ASSUME command[1] = "test", pos \in 1..104
  PROVE  /\ pos = 2 => (SameAnswer <=> SameSerial)
         /\ pos \in 3..66 => LET s == (pos - 3) \div 4 IN
              /\ SameAnswer =>
                   mem[<<"slot", s>>] = EmulReadSlot(command[2], get_slot_address(s))
              /\ ~SameAnswer =>
                   \/ mem[<<"slot", s>>] # EmulReadSlot(command[2], get_slot_address(s))
                   \/ ~SameSerial
         /\ pos \in 67..82 => LET a == pos - 67 IN
              (SameAnswer <=> mem[<<"otp", a>>] = EmulReadOtp(command[2], a))
         /\ pos = 1 \/ pos \in 83..104 => SameAnswer
<1>1. pos \in 1..2 => cmd = <<"read", <<"otp", pos - 1>> >>
  BY TestAsks
<1>2. pos \in 3..66 => cmd[1] \in {"hmac", "mac"} /\ cmd[2] = (pos - 3) \div 4
  BY TestAsks
<1>3. pos \in 67..82 => cmd = <<"read", <<"otp", pos - 67>> >>
  BY TestAsks
<1>4. pos \in 83..104 => cmd = <<"read", <<"conf", pos - 83>> >>
  BY TestAsks
<1>5. CASE pos \in 1..2
  BY <1>1, <1>5 DEF SameAnswer
<1>6. CASE pos \in 3..66
  <2> DEFINE s == (pos - 3) \div 4
             same == mem[<<"slot", s>>] = EmulReadSlot(command[2], get_slot_address(s))
  <2>1. SameAnswer <=> same /\ (pos % 2 = 1 => SameSerial)
    BY <1>2, <1>6 DEF SameAnswer
  <2> QED BY <1>6, <2>1
<1>7. CASE pos \in 67..82
  BY <1>3, <1>7 DEF SameAnswer
<1>8. CASE pos \in 83..104
  BY <1>4, <1>8 DEF SameAnswer
<1> QED BY <1>5, <1>6, <1>7, <1>8

LEMMA AnswersDifferStep == ASSUME ToolsInv, AnswersDiffer PROVE ToolsInv'
<1> USE DEF ToolsInv
<1>1. /\ run = "running" /\ command[1] = "test" /\ Executes /\ ~SameAnswer
      /\ Ends("failed", <<"differs">>) /\ UNCHANGED <<command, printed>>
  BY DEF AnswersDiffer
<1>2. Undone /\ pos \in 1..104
  BY <1>1, TestCallKeeps
<1>3. run' = "failed" /\ pos' = 1 /\ said' = <<"differs">> /\ printed = 0
  BY <1>1 DEF Ends, ProgramInv
<1>4. Types'
  BY <1>1, <1>2, EndTypes DEF Types, Effect
<1>5. ProgramInv'
  BY <1>1, <1>3 DEF ProgramInv
<1>6. BufferInv' /\ RecordInv' /\ TestInv'
  BY <1>3 DEF BufferInv, RecordInv, TestInv
<1>7. MacInv'
  BY <1>1, <1>3 DEF MacInv
<1>8. LockedIsWhole'
  BY <1>2 DEF Undone, LockedIsWhole
<1>9. LockedAgreesWithEmulation' /\ AddressAsAsked'
  BY <1>3 DEF LockedAgreesWithEmulation, AddressAsAsked
<1>10. ~ChipIsLike(command[2])
  <2>1. ~SameSerial => ~ChipIsLike(command[2])
    BY DEF SameSerial, ChipIsLike
  <2>2. \A s \in 0..15 :
          mem[<<"slot", s>>] # EmulReadSlot(command[2], get_slot_address(s)) =>
            ~ChipIsLike(command[2])
    BY SlotNumbers DEF ChipIsLike
  <2>3. CASE pos = 2
    BY <1>1, <1>2, <2>1, <2>3, SameAnswerMeans
  <2>4. CASE pos \in 3..66
    BY <1>1, <1>2, <2>1, <2>2, <2>4, SameAnswerMeans
  <2>5. CASE pos \in 67..82
    BY <1>1, <1>2, <2>5, SameAnswerMeans DEF ChipIsLike
  <2> QED BY <1>1, <1>2, <2>3, <2>4, <2>5, SameAnswerMeans
<1>11. TestTellsTruth'
  <2>1. ~ChipIsLike(command[2])'
    BY <1>1, <1>2, <1>10 DEF Undone, ChipIsLike
  <2> QED BY <1>3, <2>1 DEF TestTellsTruth
<1> QED BY <1>4, <1>5, <1>6, <1>7, <1>8, <1>9, <1>11

-----------------------------------------------------------------------------
(* Calls that succeed                                                      *)

LEMMA BufferStep ==
  ASSUME ToolsInv, run = "running", Effect, Noted, pos' = pos + 1,
         UNCHANGED <<run, command>>
  PROVE  BufferInv'
<1> USE DEF ToolsInv
<1> SUFFICES ASSUME command[1] = "init", NEW a \in 4..12, pos + 1 > 24 + 2 * (a - 4)
             PROVE  WasSet(a, config'[a])
  BY DEF BufferInv, WasSet
<1>1. pos \in 24..60
  BY DEF ProgramInv, CallCount
<1>2. config = [b \in 0..21 |-> config[b]] /\ IsRecord(config[a])
  BY ConfAddrs DEF Types
<1>3. CASE pos \in 23..40 /\ pos % 2 = 0
  <2> DEFINE w == 4 + ((pos - 24) \div 2)
  <2>1. cmd = <<"write", <<"conf", w>>, WithConfig(record, w)>>
    BY <1>1, <1>3, InitAsks
  <2>2. w \in 0..21 /\ (a # w => pos > 24 + 2 * (a - 4))
    BY <1>1, <1>3
  <2> HIDE DEF w
  <2>3. config' = [config EXCEPT ![w] = WithConfig(@, w)]
    BY <1>3, <2>1 DEF Noted, Zone, CONFIG_CALLS
  <2>4. CASE a = w
    BY <1>2, <2>3, <2>4, WithConfigRecord
  <2>5. CASE a # w
    BY <1>1, <1>2, <2>2, <2>3, <2>5 DEF BufferInv
  <2> QED BY <2>4, <2>5
<1>4. CASE (pos \in 23..40 /\ pos % 2 = 1) \/ pos \in 41..60
  <2>1. pos \in 23..40 => cmd[1] = "read"
    BY <1>1, <1>4, InitAsks
  <2>2. config' = config
    <3>1. pos \in 41..60 => cmd[1] # "write" \/ Zone = "data"
      BY <1>1, InitAsks DEF Zone, CONFIG_CALLS
    <3>2. cmd[1] # "write" \/ Zone = "data"
      BY <1>4, <2>1, <3>1
    <3> QED BY <1>1, <3>2 DEF Noted, CONFIG_CNT
  <2>3. pos > 24 + 2 * (a - 4)
    BY <1>1, <1>4
  <2> QED BY <2>2, <2>3 DEF BufferInv
<1> QED BY <1>1, <1>3, <1>4

LEMMA RecordStep ==
  ASSUME ToolsInv, run = "running", Effect, Noted, pos' = pos + 1,
         UNCHANGED <<run, command>>
  PROVE  RecordInv'
<1> USE DEF ToolsInv
<1>1. pos \in Nat
  BY DEF ProgramInv
<1>2. ASSUME \/ command[1] = "init" /\ pos = 23
             \/ command[1] = "set-address" /\ pos = 1
      PROVE  record' = mem'[AddressWord]
  <2>1. cmd = <<"read", <<"conf", 4>> >>
    <3>1. pos = 23 => 4 + ((pos - 23) \div 2) = 4 /\ pos % 2 = 1
      OBVIOUS
    <3> QED BY <1>2, <3>1, InitAsks, AddressAsks
  <2>2. record' = mem[AddressWord]
    BY <2>1 DEF Noted, AddressWord, OtpModeAddr
  <2>3. UNCHANGED mem
    BY <1>2 DEF Effect, Undone, InitWritesConf, AddressWritten, DataWritten,
         ConfLocked, DataLocked
  <2> QED BY <2>2, <2>3
<1>3. (command[1] = "init" /\ pos' = 24) \/ (command[1] = "set-address" /\ pos' = 2) =>
        record' = mem'[AddressWord]
  <2>1. (pos' = 24 => pos = 23) /\ (pos' = 2 => pos = 1)
    BY <1>1
  <2> QED BY <1>2, <2>1
<1> QED BY <1>3 DEF RecordInv, AddressWord

LEMMA TestStep ==
  ASSUME ToolsInv, run = "running", pos' = pos + 1, UNCHANGED <<run, command, mem, locked>>,
         command[1] = "test", pos \in 1..104,
         SameAnswer, pos = 1 => "data" \in locked
  PROVE  TestInv'
<1> USE DEF ToolsInv
<1>1. pos + 1 > 1 => "data" \in locked
  BY DEF TestInv
<1>2. pos + 1 > 2 => SameSerial
  BY SameAnswerMeans DEF TestInv
<1>3. ASSUME NEW s \in 0..15, pos + 1 > 3 + 4 * s
      PROVE  mem[<<"slot", s>>] = EmulReadSlot(command[2], get_slot_address(s))
  <2>1. CASE pos = 3 + 4 * s
    <3>1. pos \in 3..66 /\ (pos - 3) \div 4 = s
      BY <2>1
    <3> QED BY <3>1, SameAnswerMeans
  <2>2. CASE pos > 3 + 4 * s
    BY <2>2 DEF TestInv
  <2> QED BY <1>3, <2>1, <2>2
<1>4. ASSUME NEW a \in 0..15, pos + 1 > 67 + a
      PROVE  mem[<<"otp", a>>] = EmulReadOtp(command[2], a)
  <2>1. CASE pos = 67 + a
    BY <2>1, SameAnswerMeans
  <2>2. CASE pos > 67 + a
    BY <2>2 DEF TestInv
  <2> QED BY <1>4, <2>1, <2>2
<1> QED BY <1>1, <1>2, <1>3, <1>4 DEF TestInv, SameSerial

LEMMA CallSucceedsStep == ASSUME ToolsInv, CallSucceeds PROVE ToolsInv'
<1> USE DEF ToolsInv
<1>1. /\ run = "running" /\ ~LastCall /\ Executes /\ Noted /\ GoesOn
      /\ command[1] = "test" => SameAnswer
      /\ said' = IF cmd[1] = "lock" THEN <<Zone, "locked">> ELSE said
  BY DEF CallSucceeds
<1>2. /\ elapsed' \in 0..KILL_UNRELEASED_LOCK_AFTER /\ pos' = pos + 1
      /\ UNCHANGED <<run, command, printed>>
  BY <1>1, ToolsAssumption DEF GoesOn, Types
<1>3. Effect
  BY <1>1, CallEffect
<1>4. pos \in 1..CallCount(command[1]) /\ pos # CallCount(command[1]) /\ command \in Command
  BY <1>1, CallsCounted DEF ProgramInv, Types, LastCall
<1>5. CallCount(command[1]) \in Nat
  BY <1>4, CommandAssumption DEF CallCount, CommandName
<1>6. Types'
  BY <1>1, <1>2, <1>3, EffectTypes, NotedTypes DEF Types
<1>7. said' \in {<<"none">>, <<"conf", "locked">>}
  <2>1. CASE cmd[1] = "lock"
    <3>1. cmd[1] \notin {"read", "write"} /\ LockedAfter(cmd, locked) = locked \cup {cmd[2]}
      BY <2>1 DEF LockedAfter
    <3>2. Lockable(cmd[2], locked)
      BY <1>1, <2>1 DEF Executes, Accepts
    <3>3. locked' # locked
      BY <1>1, <3>1, <3>2 DEF Executes, Lockable
    <3>4. ConfLocked \/ DataLocked
      BY <1>3, <3>3 DEF Effect, Undone, InitWritesConf, AddressWritten, ConfWritten,
           DataWritten
    <3>5. pos = 41
      BY <1>4, <3>4 DEF ConfLocked, DataLocked, CallCount
    <3> QED BY <1>1, <2>1, <3>5 DEF Zone, CONFIG_CALLS
  <2>2. CASE cmd[1] # "lock"
    BY <1>1, <2>2 DEF ProgramInv
  <2> QED BY <2>1, <2>2
<1>8. ProgramInv'
  <2>1. pos + 1 \in 1..CallCount(command[1])
    BY <1>4, <1>5
  <2> QED BY <1>1, <1>2, <1>7, <2>1 DEF ProgramInv
<1>9. BufferInv' /\ RecordInv'
  BY <1>1, <1>2, <1>3, BufferStep, RecordStep
<1>10. TestInv'
  <2>1. CASE command[1] = "test"
    <3>1. Undone /\ pos \in 1..104
      BY <1>1, <2>1, TestCallKeeps
    <3>2. pos = 1 => "data" \in locked
      <4>1. pos = 1 => cmd = <<"read", <<"otp", 0>> >>
        BY <2>1, TestAsks
      <4> QED BY <1>1, <4>1 DEF Executes, Accepts, Readable
    <3> QED BY <1>1, <1>2, <2>1, <3>1, <3>2, TestStep DEF Undone
  <2>2. CASE command[1] # "test"
    BY <1>2, <2>2 DEF TestInv
  <2> QED BY <2>1, <2>2
<1>11. MacInv'
  BY <1>1, <1>2 DEF MacInv, ProgramInv, count
<1>12. LockedIsWhole'
  BY <1>1, <1>3, WholeStep
<1>13. LockedAgreesWithEmulation' /\ TestTellsTruth' /\ AddressAsAsked'
  BY <1>7 DEF LockedAgreesWithEmulation, TestTellsTruth, AddressAsAsked
<1> QED BY <1>6, <1>8, <1>9, <1>10, <1>11, <1>12, <1>13

\* A file that init accepts reads like the chip programmed from it.
LEMMA ProgrammedIsRead ==
  ASSUME NEW f, CompleteFile(f), \A w \in DataZone : mem[w] = Programmed(f)[w]
  PROVE  ChipIsLike(f)
<1>1. SLOT_CNT = 16 /\ SLOT_CNT - 1 = 15
  BY DEF SLOT_CNT
<1>2. OtpAddr = 0..15
  BY AddressAssumption
<1>3. ASSUME NEW s \in 0..15
      PROVE  mem[<<"slot", s>>] = EmulReadSlot(f, get_slot_address(s))
  <2>1. <<"slot", s>> \in DataZone
    BY SlotNumbers DEF DataZone, Word
  <2>2. mem[<<"slot", s>>] = Key(f, s)
    BY <2>1 DEF Programmed
  <2>3. ReadConfig(f, 0) /\ 0 + s = s
    BY DEF CompleteFile
  <2>4. s < Len(f)
    BY <1>1, <2>3, Zenon DEF ReadConfig
  <2>5. get_slot_address(s) \div 8 = s
    BY DEF get_slot_address, SLOT_ADDRESSES
  <2> QED BY <2>2, <2>4, <2>5 DEF EmulReadSlot, LineAfter, Key
<1>4. ASSUME NEW a \in 0..15 PROVE mem[<<"otp", a>>] = EmulReadOtp(f, a)
  <2>1. <<"otp", a>> \in DataZone
    BY <1>2 DEF DataZone, Word
  <2>2. mem[<<"otp", a>>] = Otp(f, a)
    BY <2>1 DEF Programmed
  <2>3. ReadConfig(f, SLOT_CNT)
    BY DEF CompleteFile
  <2>4. SLOT_CNT + a < Len(f)
    BY <1>1, <2>3, Zenon DEF ReadConfig
  <2> QED BY <2>2, <2>4 DEF EmulReadOtp, LineAfter, Otp, SLOT_CNT
<1> QED BY <1>3, <1>4, SlotNumbers DEF ChipIsLike

\* At its last call test has compared everything.
LEMMA TestComplete ==
  ASSUME TestInv, run = "running", command[1] = "test", pos = 104
  PROVE  "data" \in locked /\ ChipIsLike(command[2])
<1>1. \A s \in 0..15 : 104 > 3 + 4 * s
  OBVIOUS
<1>2. \A a \in 0..15 : 104 > 67 + a
  OBVIOUS
<1> QED BY <1>1, <1>2, SlotNumbers DEF TestInv, ChipIsLike

LEMMA ReadIgnoredStep == ASSUME ToolsInv, ReadIgnored PROVE ToolsInv'
<1> USE DEF ToolsInv
<1>1. /\ run = "running" /\ command[1] = "test" /\ Undone /\ cmd[1] = "read"
      /\ cmd[2][1] = "conf" /\ UNCHANGED <<command, printed>>
  BY DEF ReadIgnored, GoesOn
<1>2. pos \in 1..104
  BY <1>1 DEF ProgramInv, CallCount
<1>3. pos \in 83..104
  BY <1>1, <1>2, TestAsks
<1>4. CASE ~LastCall /\ GoesOn /\ UNCHANGED <<record, config, said>>
  <2>1. /\ elapsed' \in 0..KILL_UNRELEASED_LOCK_AFTER /\ pos' = pos + 1
        /\ UNCHANGED <<run, record, config, said>>
    BY <1>4, ToolsAssumption DEF GoesOn, Types
  <2>2. pos # 104
    BY <1>1, <1>4, CallsCounted DEF Types, LastCall, CallCount
  <2>3. Types'
    BY <1>1, <2>1 DEF Types, Undone
  <2>4. ProgramInv'
    BY <1>1, <1>2, <2>1, <2>2 DEF ProgramInv, CallCount
  <2>5. BufferInv' /\ RecordInv'
    BY <1>1, <2>1 DEF BufferInv, RecordInv
  <2>6. TestInv'
    <3>1. SameAnswer
      BY <1>1, <1>2, <1>3, SameAnswerMeans
    <3> QED BY <1>1, <1>2, <1>3, <2>1, <3>1, TestStep DEF Undone
  <2>7. MacInv'
    BY <1>1, <2>1 DEF MacInv
  <2>8. LockedIsWhole'
    BY <1>1 DEF Undone, LockedIsWhole
  <2>9. said \in {<<"none">>, <<"conf", "locked">>}
    BY <1>1 DEF ProgramInv
  <2>10. LockedAgreesWithEmulation' /\ TestTellsTruth' /\ AddressAsAsked'
    BY <2>1, <2>9 DEF LockedAgreesWithEmulation, TestTellsTruth, AddressAsAsked
  <2> QED BY <2>3, <2>4, <2>5, <2>6, <2>7, <2>8, <2>10
<1>5. CASE LastCall /\ Ends("done", Report) /\ UNCHANGED <<command, printed>>
  <2>1. run' = "done" /\ pos' = 1 /\ said' = <<"same">> /\ printed = 0
    BY <1>1, <1>5 DEF Ends, Report, ProgramInv
  <2>2. pos = 104
    BY <1>1, <1>5, CallsCounted DEF Types, LastCall, CallCount
  <2>3. Types'
    BY <1>1, <1>5, EndTypes DEF Types, Effect
  <2>4. ProgramInv'
    BY <1>1, <2>1 DEF ProgramInv
  <2>5. BufferInv' /\ RecordInv' /\ TestInv'
    BY <2>1 DEF BufferInv, RecordInv, TestInv
  <2>6. MacInv'
    BY <1>1, <2>1 DEF MacInv
  <2>7. LockedIsWhole'
    BY <1>1 DEF Undone, LockedIsWhole
  <2>8. LockedAgreesWithEmulation' /\ AddressAsAsked'
    BY <2>1 DEF LockedAgreesWithEmulation, AddressAsAsked
  <2>9. TestTellsTruth'
    BY <1>1, <2>1, <2>2, TestComplete DEF TestTellsTruth, ChipIsLike, Undone
  <2> QED BY <2>3, <2>4, <2>5, <2>6, <2>7, <2>8, <2>9
<1> QED BY <1>4, <1>5 DEF ReadIgnored

\* What is reported with success is so.
LEMMA LastCallReports ==
  ASSUME ToolsInv, LastCallSucceeds
  PROVE  LockedAgreesWithEmulation' /\ TestTellsTruth' /\ AddressAsAsked'
<1> USE DEF ToolsInv
<1>1. /\ run = "running" /\ LastCall /\ Executes /\ said' = Report /\ UNCHANGED command
  BY DEF LastCallSucceeds, Ends
<1>2. pos = CallCount(command[1]) /\ command \in Command /\ command[1] \in CommandName
  BY <1>1, CallsCounted, CommandAssumption DEF LastCall, Types
<1>3. CASE command[1] = "init"
  <2>1. pos = 60
    BY <1>2, <1>3 DEF CallCount
  <2>2. cmd = <<"lock", "data">>
    BY <1>3, <2>1, InitAsks
  <2>3. said' = <<"data", "locked">>
    BY <1>1, <1>3, <2>1, <2>2 DEF Report, Zone, CONFIG_CALLS
  <2>4. /\ UNCHANGED mem /\ locked' = locked \cup {"data"} /\ CrcMatches
        /\ Lockable("data", locked)
    BY <1>1, <2>2, LockEffect
  <2>5. locked' = {"conf", "data"}
    BY <2>4 DEF Lockable, Types
  <2>6. \A w \in DataZone : mem[w] = Programmed(command[2])[w]
    BY <2>2, <2>4 DEF CrcMatches
  <2>7. CompleteFile(command[2])
    BY <1>1, <1>3 DEF ProgramInv, Refused
  <2>8. ChipIsLike(command[2])
    BY <2>6, <2>7, ProgrammedIsRead
  <2>9. LockedAgreesWithEmulation'
    BY <1>1, <2>4, <2>5, <2>8 DEF LockedAgreesWithEmulation, ChipIsLike
  <2> QED BY <2>3, <2>9 DEF TestTellsTruth, AddressAsAsked
<1>4. CASE command[1] = "test"
  <2>1. pos = 104
    BY <1>2, <1>4 DEF CallCount
  <2>2. said' = <<"same">>
    BY <1>1, <1>4, <2>1, TestAsks DEF Report
  <2>3. Undone
    BY <1>1, <1>4, TestCallKeeps
  <2>4. TestTellsTruth'
    BY <1>1, <1>4, <2>1, <2>2, <2>3, TestComplete DEF TestTellsTruth, ChipIsLike, Undone
  <2> QED BY <2>2, <2>4 DEF LockedAgreesWithEmulation, AddressAsAsked
<1>5. CASE command[1] = "set-address"
  <2> DEFINE r == [record EXCEPT !.first = (2 * (command[2] % 256)) % 256]
  <2>1. pos = 2
    BY <1>2, <1>5 DEF CallCount
  <2>2. cmd = <<"write", <<"conf", 4>>, r>>
    BY <1>5, <2>1, AddressAsks
  <2>3. said' = <<"address", command[2]>>
    BY <1>1, <1>5, <2>2 DEF Report
  <2>4. mem'[AddressWord] = r
    <3> HIDE DEF r
    <3>1. mem' = [mem EXCEPT ![<<"conf", 4>>] = r]
      BY <1>1, <2>2, WriteEffect DEF ConfWritten
    <3>2. <<"conf", 4>> \in Word
      BY ConfAddrs DEF Word
    <3> QED BY <3>1, <3>2 DEF Types, AddressWord, OtpModeAddr
  <2>5. r.first = (2 * (command[2] % 256)) % 256
    BY DEF Types, IsRecord
  <2>6. command[2] \in 1..126 => (2 * (command[2] % 256)) % 256 = 2 * command[2]
    OBVIOUS
  <2>7. AddressAsAsked'
    <3> HIDE DEF r
    <3>1. mem'[AddressWord].first = (2 * (command[2] % 256)) % 256
      BY <2>4, <2>5
    <3>2. command[2] \in 1..126 => mem'[AddressWord].first = 2 * command[2]
      BY <2>6, <3>1
    <3> QED BY <2>3, <3>2 DEF AddressAsAsked, AddressWord
  <2> QED BY <2>3, <2>7 DEF LockedAgreesWithEmulation, TestTellsTruth
<1>6. CASE command[1] \notin {"init", "test", "set-address"}
  <2>1. pos \in 1..CallCount(command[1])
    BY <1>1 DEF ProgramInv
  <2>2. said' = said
    BY <1>1, <1>2, <1>6, <2>1, OthersOnlyAsk DEF Report
  <2>3. said \in {<<"none">>, <<"conf", "locked">>}
    BY <1>1 DEF ProgramInv
  <2> QED BY <2>2, <2>3 DEF LockedAgreesWithEmulation, TestTellsTruth, AddressAsAsked
<1> QED BY <1>3, <1>4, <1>5, <1>6

LEMMA LastCallSucceedsStep == ASSUME ToolsInv, LastCallSucceeds PROVE ToolsInv'
<1> USE DEF ToolsInv
<1> DEFINE how == IF command[1] = "mac" THEN "printing" ELSE "done"
<1>1. /\ run = "running" /\ LastCall /\ Executes /\ Ends(how, Report)
      /\ UNCHANGED <<command, printed>>
  BY DEF LastCallSucceeds
<1>2. run' = how /\ pos' = 1 /\ printed = 0 /\ command \in Command
  BY <1>1 DEF Ends, ProgramInv, Types
<1>3. Effect
  BY <1>1, CallEffect
<1>4. Types'
  BY <1>1, <1>2, <1>3, EndTypes DEF Types
<1>5. command[1] = "mac" => "data" \in locked'
  <2> SUFFICES ASSUME command[1] = "mac" PROVE "data" \in locked'
    OBVIOUS
  <2>1. pos = 2
    BY <1>1, <1>2, CallsCounted DEF LastCall, CallCount
  <2>2. cmd = <<"read", <<"otp", 4>> >>
    BY <2>1, MacAsks
  <2> QED BY <1>1, <2>2 DEF Executes, Accepts, Readable, LockedAfter
<1>6. ProgramInv'
  BY <1>1, <1>2, <1>5 DEF ProgramInv
<1>7. BufferInv' /\ RecordInv' /\ TestInv'
  BY <1>2 DEF BufferInv, RecordInv, TestInv
<1>8. MacInv'
  BY <1>1, <1>2 DEF MacInv, count
<1>9. LockedIsWhole'
  BY <1>1, <1>3, WholeStep
<1> QED BY <1>4, <1>6, <1>7, <1>8, <1>9, LastCallReports

\* The loop of `mac n' makes its way to n.
LEMMA SuffixIsNumber ==
  ASSUME LockedIsWhole, "data" \in locked
  PROVE  mac_as_number \in Nat
<1>1. PICK f \in Files : CompleteFile(f) /\ \A w \in DataZone : mem[w] = Programmed(f)[w]
  BY DEF LockedIsWhole
<1>2. <<"otp", 4>> \in DataZone
  BY AddressAssumption DEF DataZone, Word
<1>3. mem[<<"otp", 4>>] = Otp(f, 4)
  BY <1>1, <1>2 DEF Programmed
<1> QED
  BY <1>1, <1>3, SuffixAssumption DEF mac_as_number, ATSHA204_OTP_MEMORY_MAP_MAC_ADDR

LEMMA PrintMacStep == ASSUME ToolsInv, PrintMac PROVE ToolsInv'
<1> USE DEF ToolsInv
<1>1. /\ run = "printing" /\ run' \in {"printing", "failed", "done"}
      /\ UNCHANGED <<command, pos, elapsed, record, config, said, mem, locked>>
      /\ printed' = printed \/ (printed' = printed + 1 /\ More)
  BY DEF PrintMac
<1>2. command[1] = "mac" /\ "data" \in locked /\ pos = 1 /\ printed \in Nat
  BY <1>1 DEF ProgramInv, Types
<1>3. Types'
  BY <1>1, <1>2 DEF Types
<1>4. ProgramInv'
  BY <1>1, <1>2 DEF ProgramInv
<1>5. BufferInv' /\ RecordInv' /\ TestInv'
  BY <1>1 DEF BufferInv, RecordInv, TestInv
<1>6. MacInv'
  <2> SUFFICES ASSUME ~CharIsSigned PROVE MacInv'
    BY DEF MacInv
  <2>1. mac_as_number \in Nat
    BY <1>2, SuffixIsNumber
  <2>2. count \in 0..255
    BY <1>1, <1>2, CommandAssumption DEF Types, count
  <2>3. printed <= count
    BY <1>2 DEF MacInv
  <2>4. More <=> printed < count
    BY <1>2, <2>2, <2>3 DEF More, i
  <2>5. count' = count /\ mac_as_number' = mac_as_number
    BY <1>1 DEF count, mac_as_number
  <2>6. TooMany <=> mac_as_number > 16777215 - count
    BY DEF TooMany
  <2>7. CASE printed = 0 /\ TooMany
    BY <1>1, <2>5, <2>7, <2>3 DEF PrintMac, MacInv
  <2>8. CASE ~(printed = 0 /\ TooMany)
    <3>1. mac_as_number <= 16777215 - count
      BY <1>2, <2>1, <2>2, <2>6, <2>8 DEF MacInv
    <3>2. \/ printed < count /\ printed' = printed + 1 /\ run' = run
          \/ printed >= count /\ printed' = printed /\ run' = "done"
      BY <1>2, <2>2, <2>4, <2>8 DEF PrintMac
    <3> QED BY <1>1, <1>2, <2>2, <2>3, <2>5, <3>1, <3>2 DEF MacInv
  <2> QED BY <2>7, <2>8
<1>7. LockedIsWhole'
  BY <1>1 DEF LockedIsWhole
<1>8. LockedAgreesWithEmulation' /\ TestTellsTruth' /\ AddressAsAsked'
  BY <1>1 DEF LockedAgreesWithEmulation, TestTellsTruth, AddressAsAsked, ChipIsLike
<1> QED BY <1>3, <1>4, <1>5, <1>6, <1>7, <1>8

\* What has been printed stays printed.
LEMMA PrintingStopsStep == ASSUME ToolsInv, PrintingStops PROVE ToolsInv'
<1> USE DEF ToolsInv
<1>1. /\ run' \in {"alarmed", "dead"} /\ said' = said /\ pos' = 1
      /\ UNCHANGED <<command, printed, mem, locked>>
  BY DEF PrintingStops, Ends
<1>2. Types'
  <2>1. PICK how \in {"alarmed", "dead"} : Ends(how, said)
    BY DEF PrintingStops
  <2>2. 0 \in 0..KILL_UNRELEASED_LOCK_AFTER
    BY ToolsAssumption
  <2>3. run' = how /\ elapsed' = 0 /\ record' = BlankWord /\ config' = NoBuffer
    BY <2>1 DEF Ends
  <2>4. IsRecord(BlankWord)
    BY DEF IsRecord, BlankWord
  <2>5. /\ config' = [a \in ConfAddr |-> config'[a]]
        /\ \A a \in ConfAddr : IsRecord(config'[a])
    BY <2>3, <2>4 DEF NoBuffer
  <2>6. \A a \in ConfAddr : IsRecord(mem'[<<"conf", a>>])
    BY <1>1 DEF Types
  <2>7. run # "none" /\ run' # "none"
    BY <1>1 DEF PrintingStops
  <2> QED BY <1>1, <2>2, <2>3, <2>4, <2>5, <2>6, <2>7 DEF Types
<1>3. ProgramInv'
  BY <1>1 DEF ProgramInv, PrintingStops
<1>4. BufferInv' /\ RecordInv' /\ TestInv'
  BY <1>1 DEF BufferInv, RecordInv, TestInv
<1>5. MacInv'
  BY <1>1 DEF MacInv, count, mac_as_number
<1>6. LockedIsWhole'
  BY <1>1 DEF LockedIsWhole
<1>7. LockedAgreesWithEmulation' /\ TestTellsTruth' /\ AddressAsAsked'
  BY <1>1 DEF LockedAgreesWithEmulation, TestTellsTruth, AddressAsAsked, ChipIsLike
<1> QED BY <1>2, <1>3, <1>4, <1>5, <1>6, <1>7

-----------------------------------------------------------------------------
(* The theorems                                                            *)

LEMMA ToolsInit == Init => ToolsInv
<1> SUFFICES ASSUME Init PROVE ToolsInv
  OBVIOUS
<1>1. Types
  <2>1. \A a \in ConfAddr : <<"conf", a>> \in Word /\ IsRecord(mem[<<"conf", a>>])
    BY DEF Init, IsRecord, Word
  <2>2. IsRecord(BlankWord)
    BY DEF IsRecord, BlankWord
  <2>3. mem = [w \in Word |-> mem[w]]
    BY DEF Init
  <2>4. 0 \in 0..KILL_UNRELEASED_LOCK_AFTER
    BY ToolsAssumption
  <2>5. config = [a \in ConfAddr |-> config[a]] /\ \A a \in ConfAddr : IsRecord(config[a])
    BY <2>2 DEF Init, NoBuffer
  <2> QED BY <2>1, <2>2, <2>3, <2>4, <2>5 DEF Init, Types
<1>2. ProgramInv /\ BufferInv /\ RecordInv /\ TestInv
  BY DEF Init, ProgramInv, BufferInv, RecordInv, TestInv
<1>3. MacInv
  BY DEF Init, MacInv
<1>4. LockedIsWhole
  BY DEF Init, LockedIsWhole
<1>5. LockedAgreesWithEmulation /\ TestTellsTruth /\ AddressAsAsked
  BY DEF Init, LockedAgreesWithEmulation, TestTellsTruth, AddressAsAsked
<1> QED BY <1>1, <1>2, <1>3, <1>4, <1>5 DEF ToolsInv

LEMMA ToolsStep == ToolsInv /\ [Next]_vars => ToolsInv'
<1> SUFFICES ASSUME ToolsInv, [Next]_vars PROVE ToolsInv'
  OBVIOUS
<1>1. CASE UNCHANGED vars
  <2> USE <1>1 DEF vars, ToolsInv
  <2>1. Types' /\ ProgramInv' /\ BufferInv' /\ RecordInv'
    BY DEF Types, ProgramInv, BufferInv, RecordInv
  <2>2. TestInv' /\ MacInv'
    BY DEF TestInv, SameSerial, MacInv, count, mac_as_number
  <2>3. LockedIsWhole'
    BY DEF LockedIsWhole
  <2>4. LockedAgreesWithEmulation' /\ TestTellsTruth' /\ AddressAsAsked'
    BY DEF LockedAgreesWithEmulation, TestTellsTruth, AddressAsAsked, ChipIsLike
  <2> QED BY <2>1, <2>2, <2>3, <2>4
<1>2. ASSUME NEW c \in Command, Start(c) PROVE ToolsInv'
  BY <1>2, StartStep
<1>3. CASE CallSucceeds
  BY <1>3, CallSucceedsStep
<1>4. CASE LastCallSucceeds
  BY <1>4, LastCallSucceedsStep
<1>5. CASE AnswersDiffer
  BY <1>5, AnswersDifferStep
<1>6. CASE CallFails
  BY <1>6, CallFailsStep
<1>7. CASE ReadIgnored
  BY <1>7, ReadIgnoredStep
<1>8. CASE AlarmKills \/ Dies
  BY <1>8, KilledStep
<1>9. CASE PrintMac
  BY <1>9, PrintMacStep
<1>10. CASE PrintingStops
  BY <1>10, PrintingStopsStep
<1> QED
  BY <1>1, <1>2, <1>3, <1>4, <1>5, <1>6, <1>7, <1>8, <1>9, <1>10 DEF Next

LEMMA ToolsInvariant == Spec => []ToolsInv
BY ToolsInit, ToolsStep, PTL DEF Spec

LEMMA SharedWordStep ==
  ASSUME ToolsInv, Effect, run = "running"
  PROVE  /\ mem'[AddressWord].first # mem[AddressWord].first => command[1] = "set-address"
         /\ mem'[AddressWord].rest # mem[AddressWord].rest => command[1] = "init"
<1> USE DEF ToolsInv
<1>1. AddressWord = <<"conf", 4>> /\ AddressWord \in Word
  BY ConfAddrs DEF AddressWord, OtpModeAddr, Word
<1>2. ASSUME NEW addr, NEW r, ConfWritten(addr, r)
      PROVE  /\ addr = 4 => mem'[AddressWord] = r
             /\ addr # 4 => mem'[AddressWord] = mem[AddressWord]
  BY <1>1, <1>2 DEF ConfWritten, Types
<1>3. IsRecord(record)
  BY DEF Types
<1>4. CASE InitWritesConf
  <2> DEFINE a == 4 + ((pos - 24) \div 2)
  <2>1. ConfWritten(a, WithConfig(record, a))
    BY <1>4 DEF InitWritesConf
  <2>2. a = 4 => pos = 24
    BY <1>4 DEF InitWritesConf
  <2>3. a = 4 => record = mem[AddressWord]
    BY <1>4, <2>2 DEF RecordInv, InitWritesConf
  <2>4. WithConfig(record, 4).first = record.first
    BY <1>3, WithConfigRecord
  <2>5. mem'[AddressWord].first = mem[AddressWord].first
    <3> HIDE DEF a
    <3> QED BY <1>2, <2>1, <2>3, <2>4
  <2> QED BY <1>4, <2>5 DEF InitWritesConf
<1>5. CASE AddressWritten
  <2> DEFINE r == [record EXCEPT !.first = (2 * (command[2] % 256)) % 256]
  <2>1. mem'[AddressWord] = r
    <3>1. ConfWritten(4, r)
      BY <1>5 DEF AddressWritten
    <3> HIDE DEF r
    <3> QED BY <1>2, <3>1
  <2>2. record = mem[AddressWord]
    BY <1>5 DEF AddressWritten, RecordInv
  <2>3. r.rest = record.rest
    BY <1>3 DEF IsRecord
  <2> QED BY <1>5, <2>1, <2>2, <2>3 DEF AddressWritten
<1>6. CASE DataWritten
  BY <1>1, <1>6, ConfAddrs DEF DataWritten
<1>7. CASE Undone \/ ConfLocked \/ DataLocked
  BY <1>7 DEF Undone, ConfLocked, DataLocked
<1> QED BY <1>4, <1>5, <1>6, <1>7 DEF Effect

\* Whatever values the constants of the tools have: the variables keep their
\* types, and the alarm lets no program go on for longer than it allows.
THEOREM ToolsTypesAreRight == Spec => []TypeOK
<1>1. ToolsInv => TypeOK
  <2> SUFFICES ASSUME ToolsInv PROVE TypeOK
    OBVIOUS
  <2>1. \A a \in ConfAddr : DOMAIN mem[<<"conf", a>>] = {"first", "rest"}
    <3>1. ASSUME NEW r, IsRecord(r) PROVE DOMAIN r = {"first", "rest"}
      <4>1. r = [first |-> r.first, rest |-> r.rest]
        BY <3>1 DEF IsRecord
      <4>2. DOMAIN [first |-> r.first, rest |-> r.rest] = {"first", "rest"}
        OBVIOUS
      <4> QED BY <4>1, <4>2, Zenon
    <3>2. \A a \in ConfAddr : IsRecord(mem[<<"conf", a>>])
      BY DEF ToolsInv, Types
    <3> QED BY <3>1, <3>2
  <2>2. run = "running" => CallCount(command[1]) \in 1..104
    BY CommandAssumption DEF ToolsInv, Types, CallCount, CommandName
  <2>3. pos \in 1..104
    BY <2>2 DEF ToolsInv, ProgramInv
  <2>4. DOMAIN mem = Word /\ DOMAIN config = ConfAddr
    BY DEF ToolsInv, Types
  <2> QED BY <2>1, <2>3, <2>4 DEF ToolsInv, Types, ProgramInv, TypeOK
<1> QED BY <1>1, ToolsInvariant, PTL

\* However often init and the other commands are started, fail, die and are
\* started again: a zone is locked only as a whole.
THEOREM LockedOnlyWhole == Spec => []LockedIsWhole
<1>1. ToolsInv => LockedIsWhole
  BY DEF ToolsInv
<1> QED BY <1>1, ToolsInvariant, PTL

\* When init says that the zones are locked they are, and an emulated device
\* with the same file reads what the chip holds.
THEOREM EmulationAgrees == Spec => []LockedAgreesWithEmulation
<1>1. ToolsInv => LockedAgreesWithEmulation
  BY DEF ToolsInv
<1> QED BY <1>1, ToolsInvariant, PTL

\* What `chiptools test' says of a chip and a file is so.
THEOREM TestIsTruthful == Spec => []TestTellsTruth
<1>1. ToolsInv => TestTellsTruth
  BY DEF ToolsInv
<1> QED BY <1>1, ToolsInvariant, PTL

\* A successful set-address has set the address it was asked to set.
THEOREM AddressIsAsAsked == Spec => []AddressAsAsked
<1>1. ToolsInv => AddressAsAsked
  BY DEF ToolsInv
<1> QED BY <1>1, ToolsInvariant, PTL

\* Where the type char has no sign, `mac n' prints n addresses and none beyond
\* the 24 bits of the suffix.
THEOREM MacsAreAsAsked == ASSUME ~CharIsSigned PROVE Spec => []MacsAsAsked
<1>1. ToolsInv => MacsAsAsked
  <2> SUFFICES ASSUME ToolsInv, command[1] = "mac" PROVE MacsAsAsked
    BY DEF MacsAsAsked
  <2>1. command \in Command
    BY DEF ToolsInv, Types
  <2>2. count \in 0..255 /\ (command[2] \in 1..255 => count = command[2])
    BY <2>1, CommandAssumption DEF count
  <2>3. printed > 0 => mac_as_number \in Nat
    BY SuffixIsNumber DEF ToolsInv, ProgramInv
  <2> QED BY <2>2, <2>3 DEF ToolsInv, MacInv, Types, MacsAsAsked
<1> QED BY <1>1, ToolsInvariant, PTL

\* set-address never changes the OTP mode that shares a word with the address,
\* and init never changes the address, in whatever order the two are started,
\* fail and are killed.
THEOREM SharedWordIsKept == Spec => SharedWordKept
<1>1. ToolsInv /\ [Next]_vars =>
        [/\ mem'[AddressWord].first # mem[AddressWord].first => command[1] = "set-address"
         /\ mem'[AddressWord].rest # mem[AddressWord].rest => command[1] = "init"]_vars
  <2> SUFFICES ASSUME ToolsInv, Next
               PROVE  /\ mem'[AddressWord].first # mem[AddressWord].first =>
                           command[1] = "set-address"
                      /\ mem'[AddressWord].rest # mem[AddressWord].rest =>
                           command[1] = "init"
    OBVIOUS
  <2>1. CASE UNCHANGED mem
    BY <2>1
  <2>2. CASE mem' # mem
    <3>1. run = "running" /\ (Executes \/ Undone)
      BY <2>2 DEF Next, Start, CallSucceeds, LastCallSucceeds, AnswersDiffer, CallFails,
           ReadIgnored, AlarmKills, Dies, PrintMac, PrintingStops, Undone
    <3>2. Effect
      BY <3>1, CallEffect DEF ToolsInv
    <3> QED BY <3>1, <3>2, SharedWordStep
  <2> QED BY <2>1, <2>2
<1> QED BY <1>1, ToolsInvariant, PTL DEF Spec, SharedWordKept
=============================================================================
