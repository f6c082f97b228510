-------------------------- MODULE Emulation_proofs --------------------------
(***************************************************************************)
(* An emulated device stands for the chip that was programmed from its     *)
(* file, for every set of files, complete or not, and of calls.            *)
(***************************************************************************)
EXTENDS Emulation, TLAPS

-----------------------------------------------------------------------------
(* The two readers of a file find the same lines.                          *)

LEMMA SlotLine ==
  ASSUME NEW f, NEW s \in 0..15
  PROVE  LET line == EmulReadSlot(f, get_slot_address(s)) IN
         line # Bad => line = Key(f, s)
<1>1. get_slot_address(s) \div 8 = s
  BY DEF get_slot_address, SLOT_ADDRESSES
<1> QED BY <1>1 DEF EmulReadSlot, LineAfter, Key

LEMMA OtpLine ==
  ASSUME NEW f, NEW a
  PROVE  EmulReadOtp(f, a) # Bad => EmulReadOtp(f, a) = Otp(f, a)
BY DEF EmulReadOtp, LineAfter, Otp, SLOT_CNT

\* A file that init accepts has them all.
LEMMA CompleteLines ==
  ASSUME NEW f, CompleteFile(f)
  PROVE  /\ \A s \in 0..15 : EmulReadSlot(f, get_slot_address(s)) # Bad
         /\ \A a \in 0..15 : EmulReadOtp(f, a) # Bad
<1>1. ASSUME NEW s \in 0..15 PROVE EmulReadSlot(f, get_slot_address(s)) # Bad
  <2>1. get_slot_address(s) \div 8 = s
    BY DEF get_slot_address, SLOT_ADDRESSES
  <2>2. s < Len(f) /\ f[s + 1] # Bad
    <3>1. ReadConfig(f, 0)
      BY DEF CompleteFile
    <3>2. SLOT_CNT - 1 = 15 /\ 0 + s = s
      BY DEF SLOT_CNT
    <3> QED BY <3>1, <3>2, Zenon DEF ReadConfig
  <2> QED BY <2>1, <2>2 DEF EmulReadSlot, LineAfter
<1>2. ASSUME NEW a \in 0..15 PROVE EmulReadOtp(f, a) # Bad
  <2>1. ReadConfig(f, SLOT_CNT)
    BY DEF CompleteFile
  <2>2. SLOT_CNT - 1 = 15
    BY DEF SLOT_CNT
  <2>3. SLOT_CNT + a < Len(f) /\ f[SLOT_CNT + a + 1] # Bad
    BY <2>1, <2>2, Zenon DEF ReadConfig
  <2> QED BY <2>3 DEF EmulReadOtp, LineAfter, SLOT_CNT
<1> QED BY <1>1, <1>2

-----------------------------------------------------------------------------
(* What a handle has in memory is what its file says.                      *)

HandleInv ==
  /\ handle \in {"none", "file", "server"}
  /\ handle # "none" => sn = ChipSerial
  /\ handle = "server" => key = Key(file, slot_id)

LEMMA HandleStart == Init => HandleInv
BY DEF Init, HandleInv

LEMMA HandleStep == HandleInv /\ [Next]_vars => HandleInv'
<1> SUFFICES ASSUME HandleInv, [Next]_vars PROVE HandleInv'
  OBVIOUS
<1>1. ASSUME NEW f \in File, atsha_open_emulation(f) PROVE HandleInv'
  <2>1. CASE handle' = "none"
    BY <2>1 DEF HandleInv
  <2>2. CASE handle' # "none"
    <3>1. /\ handle' = "file" /\ file' = f
          /\ EmulReadOtp(f, 0) # Bad /\ EmulReadOtp(f, 1) # Bad
          /\ sn' = <<EmulReadOtp(f, 0), EmulReadOtp(f, 1)>>
      BY <1>1, <2>2 DEF atsha_open_emulation, ATSHA204_OTP_MEMORY_MAP_REV_NUMBER,
           ATSHA204_OTP_MEMORY_MAP_SERIAL_NUMBER
    <3> QED BY <3>1, OtpLine DEF HandleInv, ChipSerial
  <2> QED BY <2>1, <2>2
<1>2. ASSUME NEW f \in File, NEW s \in Slot, atsha_open_server_emulation(f, s)
      PROVE HandleInv'
  BY <1>2 DEF atsha_open_server_emulation, HandleInv, ChipSerial
<1>3. CASE atsha_close
  BY <1>3 DEF atsha_close, HandleInv
<1>4. ASSUME NEW request \in Requests, Call(request) PROVE HandleInv'
  BY <1>4 DEF Call, handleVars, HandleInv, ChipSerial
<1>5. CASE atsha_serial_number
  BY <1>5 DEF atsha_serial_number, handleVars, HandleInv, ChipSerial
<1>6. CASE UNCHANGED vars
  BY <1>6 DEF vars, handleVars, HandleInv, ChipSerial
<1> QED
  BY <1>1, <1>2, <1>3, <1>4, <1>5, <1>6 DEF Next

-----------------------------------------------------------------------------
(* The answers of the layer                                                *)

\* What emul_read finds in a slot: the key, of the slot that the handle has.
LEMMA SlotRead ==
  ASSUME HandleInv, handle # "none", NEW s \in 0..15,
         handle = "server" => s = slot_id
  PROVE  LET read == emul_read(<<"slot", s>>) IN
         /\ read.status = "ok" => read.data = Key(file, s)
         /\ handle = "file" /\ CompleteFile(file) => read.status = "ok"
<1> DEFINE line == EmulReadSlot(file, get_slot_address(s))
<1>1. CASE handle = "server"
  <2>1. emul_read(<<"slot", s>>) = Ok(key)
    BY <1>1 DEF emul_read
  <2> QED BY <1>1, <2>1 DEF Ok, HandleInv
<1>2. CASE handle = "file"
  <2>1. emul_read(<<"slot", s>>) = LineResult(line)
    BY <1>2 DEF emul_read
  <2>2. line # Bad => line = Key(file, s)
    BY SlotLine
  <2>3. CompleteFile(file) => line # Bad
    BY CompleteLines
  <2> HIDE DEF line
  <2> QED BY <1>2, <2>1, <2>2, <2>3 DEF LineResult, Ok, Error
<1> QED BY <1>1, <1>2 DEF HandleInv

LEMMA OtpRead ==
  ASSUME HandleInv, handle # "none", NEW a
  PROVE  LET read == emul_read(<<"otp", a>>) IN
         /\ read.status = "ok" => read.data = Otp(file, a)
         /\ read.status = "ok" => handle = "file"
         /\ handle = "file" /\ CompleteFile(file) /\ a \in 0..15 => read.status = "ok"
<1> DEFINE line == EmulReadOtp(file, a)
<1>1. CASE handle = "server"
  BY <1>1 DEF emul_read, Error
<1>2. CASE handle = "file"
  <2>1. emul_read(<<"otp", a>>) = LineResult(line)
    BY <1>2 DEF emul_read
  <2>2. line # Bad => line = Otp(file, a)
    BY OtpLine
  <2>3. CompleteFile(file) /\ a \in 0..15 => line # Bad
    BY CompleteLines
  <2> HIDE DEF line
  <2> QED BY <1>2, <2>1, <2>2, <2>3 DEF LineResult, Ok, Error
<1> QED BY <1>1, <1>2 DEF HandleInv

\* The nine bytes that are taken out of the block are the last line.
LEMMA SerialRead ==
  ASSUME handle = "file"
  PROVE  LET result == emul_read(<<"conf", 0>>) IN
         /\ result.status = "ok" => Received(<<"serial">>, result) = Serial(file)
         /\ result.status \in {"ok", "bad_format"}
<1> DEFINE line == EmulReadSerial(file)
<1>1. emul_read(<<"conf", 0>>) =
        IF line = Bad THEN Error("bad_format") ELSE Ok(Block(line))
  BY DEF emul_read
<1>2. line # Bad => line = Serial(file)
  BY DEF EmulReadSerial, LineAfter, Serial
<1>3. <<"serial">>[1] = "serial" /\ Block(line)[2] = line
  BY DEF Block
<1> HIDE DEF line
<1> QED BY <1>1, <1>2, <1>3 DEF Received, Ok, Error

LEMMA DigestRight ==
  ASSUME HandleInv, handle # "none", NEW kind, NEW s \in 0..15, NEW c,
         handle = "server" => s = slot_id
  PROVE  LET digest == Digest(kind, s, c) IN
         /\ digest.status = "ok" => digest.data = <<kind, Key(file, s), s, c, ChipSerial>>
         /\ handle = "file" /\ CompleteFile(file) => digest.status = "ok"
<1> DEFINE read == emul_read(<<"slot", s>>)
<1>1. /\ read.status = "ok" => read.data = Key(file, s)
      /\ handle = "file" /\ CompleteFile(file) => read.status = "ok"
  BY SlotRead
<1>2. Digest(kind, s, c) =
        IF read.status = "ok" THEN Ok(<<kind, read.data, s, c, sn>>)
        ELSE Error("bad_status")
  BY DEF Digest
<1> HIDE DEF read
<1> QED BY <1>1, <1>2 DEF Ok, Error, HandleInv

-----------------------------------------------------------------------------
(* Calls: what they leave in call, status and answer is right.             *)

Right == AnswersAsChip /\ TestPasses

\* A call of one command.
LEMMA OneCommand ==
  ASSUME NEW cmd, Call(<<cmd>>), ~InvalidInput(<<cmd>>), cmd[1] # "nonce"
  PROVE  /\ status' = emul_command(cmd, nonce).status
         /\ answer' = Received(cmd, emul_command(cmd, nonce))
         /\ cmd[1] # "serial" => answer' = emul_command(cmd, nonce).data
         /\ call' = <<cmd>> /\ LastCommand' = cmd
<1>1. /\ status' = emul_command(cmd, nonce).status
      /\ answer' = Received(cmd, emul_command(cmd, nonce))
      /\ call' = <<cmd>> /\ LastCommand' = cmd
  BY DEF Call, LastCommand
<1> QED BY <1>1 DEF Received

\* A challenge that goes to the nonce, and HMAC.
LEMMA TwoCommands ==
  ASSUME NEW c, NEW cmd, Call(<< <<"nonce", c>>, cmd >>),
         ~InvalidInput(<< <<"nonce", c>>, cmd >>), cmd[1] # "serial"
  PROVE  /\ status' = emul_command(cmd, c).status
         /\ answer' = emul_command(cmd, c).data
         /\ call' = << <<"nonce", c>>, cmd >> /\ LastCommand' = cmd
<1> DEFINE request == << <<"nonce", c>>, cmd >>
<1>1. emul_command(request[1], nonce) = Ok("success")
  BY DEF emul_command
<1>2. request[1][1] = "nonce" /\ request[1][2] = c /\ Len(request) = 2
      /\ request[2] = cmd
  OBVIOUS
<1> HIDE DEF request
<1>3. Call(request) /\ ~InvalidInput(request)
  BY DEF request
<1>4. /\ status' = emul_command(cmd, c).status
      /\ answer' = emul_command(cmd, c).data
      /\ call' = request
  BY <1>1, <1>2, <1>3 DEF Call, Ok, Received
<1> QED BY <1>2, <1>4 DEF request, LastCommand

\* The serial number is asked for by two reads, and no call of one command is.
LEMMA SerialNumberIs ==
  /\ SerialNumber = << <<"read", <<"otp", 0>> >>, <<"read", <<"otp", 1>> >> >>
  /\ \A cmd : <<cmd>> # SerialNumber
<1>1. SerialNumber = << <<"read", <<"otp", 0>> >>, <<"read", <<"otp", 1>> >> >>
  BY DEF SerialNumber, RawOtpRead, ATSHA204_OTP_MEMORY_MAP_REV_NUMBER,
         ATSHA204_OTP_MEMORY_MAP_SERIAL_NUMBER
<1>2. \A cmd : Len(<<cmd>>) = 1
  OBVIOUS
<1>3. Len(SerialNumber) = 2
  BY <1>1
<1> QED BY <1>1, <1>2, <1>3

\* The answers to single commands.
LEMMA DigestCall ==
  ASSUME HandleInv, HandleInv', handle # "none", UNCHANGED handleVars,
         NEW kind \in {"hmac", "mac"}, NEW s \in 0..15, NEW c,
         status' = Digest(kind, s, c).status, answer' = Digest(kind, s, c).data,
         LastCommand'[1] = kind, LastCommand'[2] = s,
         kind = "hmac" => call'[1][2] = c,
         kind = "mac" => LastCommand'[3] = c,
         call' # SerialNumber
  PROVE  Right'
<1>1. /\ file' = file /\ handle' = handle /\ slot_id' = slot_id
      /\ ChipSerial' = ChipSerial
  BY DEF handleVars, ChipSerial
<1>2. ASSUME (status = "ok" /\ ~ReadsConf
                /\ (handle = "server" => IsDigest /\ LastCommand[2] = slot_id))'
      PROVE  (answer = ChipAnswers)'
  <2>1. handle = "server" => s = slot_id
    BY <1>1, <1>2
  <2>2. answer' = <<kind, Key(file, s), s, c, ChipSerial>>
    <3>1. Digest(kind, s, c).status = "ok" =>
            Digest(kind, s, c).data = <<kind, Key(file, s), s, c, ChipSerial>>
      BY <2>1, DigestRight
    <3> QED BY <1>2, <3>1
  <2>3. SerialNumber' = SerialNumber
    BY DEF SerialNumber
  <2>4. ChipAnswers' = <<kind, Key(file, s), s, c, ChipSerial>>
    BY <1>1, <2>3 DEF ChipAnswers
  <2> QED BY <2>2, <2>4
<1>3. TestPasses'
  <2>1. ASSUME CompleteFile(file'), handle' = "file" PROVE status' = "ok"
    BY <1>1, <2>1, DigestRight
  <2>2. status' # "no handle"
    BY DEF Digest, Ok, Error
  <2> QED BY <2>1, <2>2 DEF TestPasses
<1> QED BY <1>2, <1>3 DEF Right, AnswersAsChip

\* Reading a word.
LEMMA ReadCall ==
  ASSUME HandleInv, handle # "none", UNCHANGED handleVars,
         NEW zone \in {"slot", "conf", "otp"}, NEW a,
         zone = "slot" => a \in 0..15, zone = "otp" => a \in 0..15,
         status' = emul_read(<<zone, a>>).status,
         answer' = emul_read(<<zone, a>>).data,
         LastCommand' = <<"read", <<zone, a>> >>, call' # SerialNumber
  PROVE  Right'
<1>1. /\ file' = file /\ handle' = handle
      /\ SerialNumber' = SerialNumber
  BY DEF handleVars, SerialNumber
<1>2. ASSUME (status = "ok" /\ ~ReadsConf
                /\ (handle = "server" => IsDigest /\ LastCommand[2] = slot_id))'
      PROVE  (answer = ChipAnswers)'
  <2>1. handle = "file"
    BY <1>1, <1>2 DEF HandleInv, IsDigest
  <2>2. CASE zone = "slot"
    <3>1. answer' = Key(file, a)
      BY <1>2, <2>1, <2>2, SlotRead
    <3> QED BY <1>1, <2>2, <3>1 DEF ChipAnswers, ChipHolds
  <2>3. zone # "conf"
    BY <1>2 DEF ReadsConf
  <2>4. CASE zone = "otp"
    <3>1. answer' = Otp(file, a)
      BY <1>2, <2>1, <2>4, OtpRead
    <3> QED BY <1>1, <2>4, <3>1 DEF ChipAnswers, ChipHolds
  <2> QED BY <2>2, <2>3, <2>4
<1>3. TestPasses'
  <2>1. ASSUME CompleteFile(file'), handle' = "file", InTest' PROVE status' = "ok"
    <3>1. zone = "otp"
      BY <2>1 DEF InTest, IsDigest
    <3> QED BY <1>1, <2>1, <3>1, OtpRead
  <2>2. status' # "no handle"
    <3>1. emul_read(<<zone, a>>).status # "no handle"
      BY DEF emul_read, LineResult, Ok, Error, HandleInv
    <3> QED BY <3>1
  <2> QED BY <2>1, <2>2 DEF TestPasses
<1> QED BY <1>2, <1>3 DEF Right, AnswersAsChip

\* The serial number of the chip.
LEMMA SerialCall ==
  ASSUME HandleInv, handle # "none", UNCHANGED handleVars,
         status' = emul_read(<<"conf", 0>>).status,
         answer' = Received(<<"serial">>, emul_read(<<"conf", 0>>)),
         LastCommand' = <<"serial">>, call' # SerialNumber
  PROVE  Right'
<1>1. /\ file' = file /\ handle' = handle
      /\ SerialNumber' = SerialNumber
  BY DEF handleVars, SerialNumber
<1>2. LastCommand'[1] = "serial" /\ ~IsDigest' /\ ~InTest'
  BY DEF IsDigest, InTest
<1>3. ASSUME status' = "ok", handle' # "server" PROVE answer' = ChipAnswers'
  <2>1. answer' = Serial(file)
    BY <1>1, <1>3, SerialRead DEF HandleInv
  <2> QED BY <1>1, <1>2, <2>1 DEF ChipAnswers
<1>4. status' # "no handle"
  <2>1. CASE handle = "file"
    BY <2>1, SerialRead
  <2>2. CASE handle = "server"
    BY <2>2 DEF emul_read, Ok
  <2> QED BY <2>1, <2>2 DEF HandleInv
<1> QED BY <1>2, <1>3, <1>4 DEF Right, AnswersAsChip, TestPasses

\* What the layer does not offer, and random numbers.
LEMMA OtherCall ==
  ASSUME NEW cmd, cmd[1] \in {"devrev", "random", "lock", "write"},
         status' = emul_command(cmd, nonce).status,
         answer' = emul_command(cmd, nonce).data,
         LastCommand' = cmd, call' # SerialNumber
  PROVE  Right'
<1>1. SerialNumber' = SerialNumber
  BY DEF SerialNumber
<1>2. CASE cmd[1] = "random"
  <2>1. status' = "ok" /\ answer' = "random"
    BY <1>2 DEF emul_command, Ok
  <2>2. ChipAnswers' = "random"
    BY <1>1, <1>2 DEF ChipAnswers
  <2>3. ~InTest'
    BY <1>2 DEF InTest, IsDigest
  <2> QED BY <2>1, <2>2, <2>3 DEF Right, AnswersAsChip, TestPasses
<1>3. CASE cmd[1] # "random"
  <2>1. status' = "not_implemented"
    BY <1>3 DEF emul_command, Error
  <2>2. ~InTest'
    BY <1>3 DEF InTest, IsDigest
  <2> QED BY <2>1, <2>2 DEF Right, AnswersAsChip, TestPasses
<1> QED BY <1>2, <1>3

\* The requests there are.
LEMMA RequestShape ==
  ASSUME NEW r \in ApiCall
  PROVE  \/ r = << <<"serial">> >>
         \/ \E cmd : r = <<cmd>> /\ cmd[1] \in {"devrev", "random", "lock", "write"}
         \/ \E zone \in {"slot", "conf", "otp"} : \E a :
              /\ r = << <<"read", <<zone, a>> >> >>
              /\ zone = "slot" => a \in Slot
              /\ zone = "otp" => a \in OtpAddr
         \/ \E s \in Slot, c \in Challenge : r = << <<"mac", s, c>> >>
         \/ \E s \in Slot, c \in Challenge : r = << <<"nonce", c>>, <<"hmac", s>> >>
<1>1. CASE r \in {DevRev, Random, ChipSerialNumber, LockConfig, LockData}
  BY <1>1 DEF DevRev, Random, ChipSerialNumber, LockConfig, LockData
<1>2. CASE \E s \in Slot, v \in Value : r = RawSlotWrite(s, v)
  BY <1>2 DEF RawSlotWrite
<1>3. CASE \E s \in Slot : r = RawSlotRead(s)
  BY <1>3 DEF RawSlotRead
<1>4. CASE \E s \in Slot, c \in Challenge :
             r \in {LowChallengeResponse(s, c), LowChallengeResponseMac(s, c)}
  BY <1>4 DEF LowChallengeResponse, LowChallengeResponseMac
<1>5. CASE \E a \in ConfAddr : r = RawConfRead(a)
  BY <1>5 DEF RawConfRead
<1>6. CASE \E a \in ConfAddr, v \in Value : r = RawConfWrite(a, v)
  BY <1>6 DEF RawConfWrite
<1>7. CASE \E a \in OtpAddr : r = RawOtpRead(a)
  BY <1>7 DEF RawOtpRead
<1>8. CASE \E a \in OtpAddr, v \in Value : r = RawOtpWrite(a, v) \/ r = RawOtp32Write(a, v)
  BY <1>8 DEF RawOtpWrite, RawOtp32Write
<1> QED BY <1>1, <1>2, <1>3, <1>4, <1>5, <1>6, <1>7, <1>8 DEF ApiCall

LEMMA CallRight ==
  ASSUME HandleInv, HandleInv', NEW request \in Requests, Call(request)
  PROVE  Right'
<1>1. handle # "none" /\ UNCHANGED handleVars /\ call' = request
  BY DEF Call
<1>2. CASE InvalidInput(request)
  <2>1. status' = "invalid"
    BY <1>2 DEF Call
  <2>2. ~InTest'
    BY <1>1, <1>2 DEF InTest
  <2> QED BY <2>1, <2>2 DEF Right, AnswersAsChip, TestPasses
<1>3. CASE ~InvalidInput(request)
  <2>1. request \in ApiCall
    BY EmulationAssumption
  <2>2. ASSUME NEW cmd, request = <<cmd>>, cmd[1] \in {"devrev", "random", "lock", "write"}
        PROVE  Right'
    BY <1>1, <1>3, <2>2, OneCommand, SerialNumberIs, OtherCall
  <2>3. ASSUME NEW zone \in {"slot", "conf", "otp"}, NEW a,
               zone = "slot" => a \in Slot, zone = "otp" => a \in OtpAddr,
               request = << <<"read", <<zone, a>> >> >>
        PROVE  Right'
    <3> DEFINE cmd == <<"read", <<zone, a>> >>
    <3>1. zone = "slot" => a \in 0..15
      <4>1. ~SlotTooBig(cmd)
        BY <1>3, <2>3 DEF InvalidInput
      <4>2. ASSUME zone = "slot" PROVE ~(a > ATSHA204_MAX_SLOT_NUMBER) /\ a \in Nat
        BY <2>3, <4>1, <4>2, ApiAssumption DEF SlotTooBig
      <4> QED BY <4>2, EmulationAssumption
    <3>2. zone = "otp" => a \in 0..15
      BY <2>3, EmulationAssumption
    <3>3. cmd[1] = "read" /\ emul_command(cmd, nonce) = emul_read(<<zone, a>>)
      BY DEF emul_command
    <3>4. /\ status' = emul_command(cmd, nonce).status
          /\ answer' = emul_command(cmd, nonce).data
          /\ LastCommand' = cmd /\ call' # SerialNumber
      BY <1>1, <1>3, <2>3, <3>3, OneCommand, SerialNumberIs
    <3> QED BY <1>1, <3>1, <3>2, <3>3, <3>4, ReadCall
  <2>4. ASSUME NEW s \in Slot, NEW c, request = << <<"mac", s, c>> >>
        PROVE  Right'
    <3>1. s \in 0..15
      <4>1. ~SlotTooBig(request[1])
        BY <1>3, <2>4 DEF InvalidInput
      <4> QED BY <2>4, <4>1, ApiAssumption, EmulationAssumption DEF SlotTooBig
    <3>2. emul_command(<<"mac", s, c>>, nonce) = Digest("mac", s, c)
      BY DEF emul_command, emul_mac
    <3>3. /\ status' = Digest("mac", s, c).status /\ answer' = Digest("mac", s, c).data
          /\ LastCommand' = <<"mac", s, c>> /\ call' # SerialNumber
      BY <1>1, <1>3, <2>4, <3>2, OneCommand, SerialNumberIs
    <3> QED BY <1>1, <3>1, <3>3, DigestCall
  <2>5. ASSUME NEW s \in Slot, NEW c, request = << <<"nonce", c>>, <<"hmac", s>> >>
        PROVE  Right'
    <3>1. s \in 0..15
      <4>1. ~SlotTooBig(request[2])
        BY <1>3, <2>5 DEF InvalidInput
      <4> QED BY <2>5, <4>1, ApiAssumption, EmulationAssumption DEF SlotTooBig
    <3>2. emul_command(<<"hmac", s>>, c) = Digest("hmac", s, c)
      BY DEF emul_command, emul_hmac
    <3>3. /\ status' = Digest("hmac", s, c).status /\ answer' = Digest("hmac", s, c).data
          /\ LastCommand' = <<"hmac", s>>
          /\ call' = << <<"nonce", c>>, <<"hmac", s>> >> /\ call' # SerialNumber
      <4>1. << <<"nonce", c>>, <<"hmac", s>> >> # SerialNumber
        BY SerialNumberIs
      <4> QED BY <1>3, <2>5, <3>2, <4>1, TwoCommands
    <3> QED BY <1>1, <3>1, <3>3, DigestCall
  <2>6. CASE request = << <<"serial">> >>
    <3>1. emul_command(<<"serial">>, nonce) = emul_read(<<"conf", 0>>)
      BY DEF emul_command
    <3>2. /\ status' = emul_read(<<"conf", 0>>).status
          /\ answer' = Received(<<"serial">>, emul_read(<<"conf", 0>>))
          /\ LastCommand' = <<"serial">> /\ call' # SerialNumber
      BY <1>1, <1>3, <2>6, <3>1, OneCommand, SerialNumberIs
    <3> QED BY <1>1, <3>2, SerialCall
  <2>7. CASE \E cmd : request = <<cmd>> /\ cmd[1] \in {"devrev", "random", "lock", "write"}
    BY <2>2, <2>7
  <2>8. CASE \E zone \in {"slot", "conf", "otp"} : \E a :
               /\ request = << <<"read", <<zone, a>> >> >>
               /\ zone = "slot" => a \in Slot
               /\ zone = "otp" => a \in OtpAddr
    BY <2>3, <2>8
  <2>9. CASE \E s \in Slot, c \in Challenge : request = << <<"mac", s, c>> >>
    BY <2>4, <2>9
  <2>10. CASE \E s \in Slot, c \in Challenge :
                request = << <<"nonce", c>>, <<"hmac", s>> >>
    BY <2>5, <2>10
  <2>11. \/ request = << <<"serial">> >>
         \/ \E cmd : request = <<cmd>> /\ cmd[1] \in {"devrev", "random", "lock", "write"}
         \/ \E zone \in {"slot", "conf", "otp"} : \E a :
              /\ request = << <<"read", <<zone, a>> >> >>
              /\ zone = "slot" => a \in Slot
              /\ zone = "otp" => a \in OtpAddr
         \/ \E s \in Slot, c \in Challenge : request = << <<"mac", s, c>> >>
         \/ \E s \in Slot, c \in Challenge :
              request = << <<"nonce", c>>, <<"hmac", s>> >>
    BY <2>1, RequestShape
  <2> QED BY <2>6, <2>7, <2>8, <2>9, <2>10, <2>11
<1> QED BY <1>2, <1>3

LEMMA SerialRight == HandleInv /\ atsha_serial_number => Right'
<1> SUFFICES ASSUME HandleInv, atsha_serial_number PROVE Right'
  OBVIOUS
<1> DEFINE rev    == emul_read(<<"otp", 0>>)
           serial == emul_read(<<"otp", 1>>)
<1>1. /\ handle # "none" /\ UNCHANGED handleVars /\ call' = SerialNumber
      /\ IF rev.status = "ok" /\ serial.status = "ok"
         THEN status' = "ok" /\ answer' = <<rev.data, serial.data>>
         ELSE status' = IF rev.status = "ok" THEN serial.status ELSE rev.status
  BY DEF atsha_serial_number, ATSHA204_OTP_MEMORY_MAP_REV_NUMBER,
         ATSHA204_OTP_MEMORY_MAP_SERIAL_NUMBER
<1>2. /\ rev.status = "ok" => rev.data = Otp(file, 0)
      /\ serial.status = "ok" => serial.data = Otp(file, 1)
      /\ handle = "file" /\ CompleteFile(file) => rev.status = "ok" /\ serial.status = "ok"
  BY <1>1, OtpRead
<1>3. rev.status # "no handle" /\ serial.status # "no handle"
  BY <1>1 DEF emul_read, LineResult, Ok, Error, HandleInv
<1> HIDE DEF rev, serial
<1>4. SerialNumber' = SerialNumber /\ file' = file /\ handle' = handle
  BY <1>1 DEF SerialNumber, handleVars
<1>5. LastCommand'[1] = "read"
  BY <1>1, SerialNumberIs DEF LastCommand
<1>6. AnswersAsChip'
  <2>1. ASSUME status' = "ok" PROVE answer' = <<Otp(file, 0), Otp(file, 1)>>
    BY <1>1, <1>2, <2>1
  <2>2. ChipAnswers' = <<Otp(file, 0), Otp(file, 1)>>
    BY <1>1, <1>4, <1>5 DEF ChipAnswers, ChipSerial
  <2> QED BY <2>1, <2>2 DEF AnswersAsChip
<1>7. TestPasses'
  BY <1>1, <1>2, <1>3, <1>4 DEF TestPasses
<1> QED BY <1>6, <1>7 DEF Right

-----------------------------------------------------------------------------
LEMMA RightStart == Init => Right
BY DEF Init, Right, AnswersAsChip, TestPasses

LEMMA RightStep == HandleInv /\ HandleInv' /\ Right /\ [Next]_vars => Right'
<1> SUFFICES ASSUME HandleInv, HandleInv', Right, [Next]_vars PROVE Right'
  OBVIOUS
<1>1. ASSUME NEW f \in File, atsha_open_emulation(f) PROVE Right'
  <2>1. /\ status' \in {"no handle", "none"} /\ file' = f /\ call' = NoCall
        /\ status' = "no handle" =>
             EmulReadOtp(f, 0) = Bad \/ EmulReadOtp(f, 1) = Bad \/ EmulReadOtp(f, 2) = Bad
    BY <1>1 DEF atsha_open_emulation, ATSHA204_OTP_MEMORY_MAP_REV_NUMBER,
         ATSHA204_OTP_MEMORY_MAP_SERIAL_NUMBER, ATSHA204_OTP_MEMORY_MAP_ORIGIN_KEY_SET
  <2>2. CompleteFile(f) => status' # "no handle"
    <3>1. 0 \in 0..15 /\ 1 \in 0..15 /\ 2 \in 0..15
      OBVIOUS
    <3> QED BY <2>1, <3>1, CompleteLines, Zenon
  <2>3. ~InTest'
    BY <2>1 DEF InTest, NoCall
  <2> QED BY <2>1, <2>2, <2>3 DEF Right, AnswersAsChip, TestPasses
<1>2. ASSUME NEW f \in File, NEW s \in Slot, atsha_open_server_emulation(f, s)
      PROVE Right'
  BY <1>2 DEF atsha_open_server_emulation, Right, AnswersAsChip, TestPasses
<1>3. CASE atsha_close
  BY <1>3 DEF atsha_close, Right, AnswersAsChip, TestPasses
<1>4. ASSUME NEW request \in Requests, Call(request) PROVE Right'
  BY <1>4, CallRight
<1>5. CASE atsha_serial_number
  BY <1>5, SerialRight
<1>6. CASE UNCHANGED vars
  <2>1. UNCHANGED <<handle, file, slot_id, key, sn, call, status, answer>>
    BY <1>6 DEF vars, handleVars
  <2> QED BY <2>1 DEF Right, AnswersAsChip, TestPasses, ChipAnswers, IsDigest, InTest, ReadsConf,
                      LastCommand, ChipHolds, ChipSerial, SerialNumber, NoCall
<1> QED
  BY <1>1, <1>2, <1>3, <1>4, <1>5, <1>6 DEF Next

LEMMA AlwaysRight == Spec => [](HandleInv /\ Right)
BY HandleStart, HandleStep, RightStart, RightStep, PTL DEF Spec

\* Whatever the file, an answer of the emulation layer to a call other than a
\* read of a configuration word is the answer of the chip that was programmed
\* from it.
THEOREM AnswersRight == Spec => []AnswersAsChip
<1>1. Right => AnswersAsChip
  BY DEF Right
<1> QED BY <1>1, AlwaysRight, PTL

\* A file that chiptools init accepts can be tested against its chip.
THEOREM CompleteFilesPass == Spec => []TestPasses
<1>1. Right => TestPasses
  BY DEF Right
<1> QED BY <1>1, AlwaysRight, PTL

-----------------------------------------------------------------------------
(* The types: a line that is missing never gets into the handle or into an *)
(* answer, and there is an answer exactly when the layer reports success.  *)

EmulationInv ==
  /\ TypeOK
  /\ file \in Seq(Line)
  /\ handle # "none" => sn \in Line \X Line
  /\ handle = "server" => key \in Line

LEMMA LineFound ==
  ASSUME NEW f \in Seq(Line), NEW skip \in Nat, LineAfter(f, skip) # Bad
  PROVE  LineAfter(f, skip) \in Line
<1>1. skip < Len(f) /\ LineAfter(f, skip) = f[skip + 1]
  BY DEF LineAfter
<1>2. Len(f) \in Nat /\ skip + 1 \in 1..Len(f)
  BY <1>1
<1> QED BY <1>1, <1>2

\* A result of emul_command.
Fits(result) ==
  /\ result.status \in {"ok", "bad_format", "bad_status", "not_implemented"}
  /\ result.data # Bad
  /\ result.data = NoAnswer <=> result.status # "ok"

LEMMA ErrorFits ==
  ASSUME NEW error \in {"bad_format", "bad_status", "not_implemented"}
  PROVE  Fits(Error(error)) /\ Error(error).status # "ok"
BY AnswerAssumption DEF Error, Fits

LEMMA OkFits ==
  ASSUME NEW data, data # Bad, data # NoAnswer
  PROVE  Fits(Ok(data)) /\ Ok(data).data = data
BY DEF Ok, Fits

LEMMA LineFits ==
  ASSUME NEW f \in Seq(Line), NEW skip \in Nat
  PROVE  LET result == LineResult(LineAfter(f, skip)) IN
         Fits(result) /\ (result.status = "ok" => result.data \in Line)
<1>1. ASSUME NEW line, line # Bad => line \in Line /\ line # NoAnswer
      PROVE  Fits(LineResult(line))
             /\ (LineResult(line).status = "ok" => LineResult(line).data \in Line)
  <2>1. CASE line = Bad
    <3>1. LineResult(line) = Error("bad_format")
      BY <2>1 DEF LineResult
    <3> QED BY <3>1, ErrorFits
  <2>2. CASE line # Bad
    <3>1. LineResult(line) = Ok(line)
      BY <2>2 DEF LineResult
    <3> QED BY <1>1, <2>2, <3>1, OkFits
  <2> QED BY <2>1, <2>2
<1>2. LineAfter(f, skip) # Bad => LineAfter(f, skip) \in Line /\ LineAfter(f, skip) # NoAnswer
  BY LineFound, AnswerAssumption
<1> QED BY <1>1, <1>2, Zenon

\* The block of the configuration zone, and the serial number in it.
LEMMA ConfFits ==
  ASSUME EmulationInv, handle # "none"
  PROVE  LET result == emul_read(<<"conf", 0>>) IN
         /\ Fits(result)
         /\ Fits([status |-> result.status, data |-> Received(<<"serial">>, result)])
<1> DEFINE result == emul_read(<<"conf", 0>>)
           Serials == Line \cup ({"made of"} \X (Line \X Line))
<1> SUFFICES /\ Fits(result)
             /\ Fits([status |-> result.status, data |-> Received(<<"serial">>, result)])
  OBVIOUS
<1> HIDE DEF result
<1>1. ASSUME NEW serial \in Serials, serial # Bad, serial # NoAnswer,
             result = Ok(Block(serial))
      PROVE  /\ Fits(result)
             /\ Fits([status |-> result.status, data |-> Received(<<"serial">>, result)])
  <2>1. Block(serial) \in {"block"} \X Serials /\ Block(serial)[2] = serial
    BY DEF Block
  <2>2. Block(serial) # Bad /\ Block(serial) # NoAnswer
    BY <2>1, AnswerAssumption
  <2>3. result.status = "ok" /\ result.data = Block(serial)
    BY <1>1 DEF Ok
  <2>4. Received(<<"serial">>, result) = serial
    BY <2>1, <2>3 DEF Received
  <2> QED BY <1>1, <2>2, <2>3, <2>4 DEF Fits
<1>2. file \in Seq(Line) /\ handle \in {"file", "server"}
  BY DEF EmulationInv, TypeOK
<1>3. CASE handle = "server"
  <2>1. result = Ok(Block(<<"made of", sn>>))
    BY <1>3 DEF emul_read, result
  <2>2. <<"made of", sn>> \in {"made of"} \X (Line \X Line)
    BY <1>3 DEF EmulationInv
  <2>3. <<"made of", sn>> # Bad /\ <<"made of", sn>> # NoAnswer
    BY <2>2, AnswerAssumption
  <2> QED BY <1>1, <2>1, <2>2, <2>3
<1>4. CASE handle = "file"
  <2> DEFINE line == LineAfter(file, 32)
  <2>1. result = IF line = Bad THEN Error("bad_format") ELSE Ok(Block(line))
    BY <1>4 DEF emul_read, EmulReadSerial, result
  <2>2. line # Bad => line \in Line /\ line # NoAnswer
    BY <1>2, LineFound, AnswerAssumption
  <2> HIDE DEF line
  <2>3. CASE line = Bad
    <3>1. result = Error("bad_format") /\ result.status # "ok"
      BY <2>1, <2>3 DEF Error
    <3>2. Received(<<"serial">>, result) = result.data /\ result.data = NoAnswer
      BY <3>1 DEF Received, Error
    <3>3. Fits(result) /\ result.status = "bad_format"
      BY <3>1, ErrorFits DEF Error
    <3> QED BY <3>2, <3>3 DEF Fits
  <2>4. CASE line # Bad
    BY <1>1, <2>1, <2>2, <2>4
  <2> QED BY <2>3, <2>4
<1> QED BY <1>2, <1>3, <1>4

LEMMA ReadFits ==
  ASSUME EmulationInv, handle # "none", NEW zone \in {"slot", "conf", "otp"},
         NEW a, zone = "slot" => a \in 0..15, zone = "otp" => a \in 0..15
  PROVE  LET result == emul_read(<<zone, a>>) IN
         Fits(result) /\ (zone # "conf" /\ result.status = "ok" => result.data \in Line)
<1>1. file \in Seq(Line) /\ handle \in {"file", "server"}
  BY DEF EmulationInv, TypeOK
<1>2. CASE zone = "slot"
  <2>1. CASE handle = "server"
    <3>1. emul_read(<<zone, a>>) = Ok(key)
      BY <1>2, <2>1 DEF emul_read
    <3>2. key \in Line /\ key # Bad /\ key # NoAnswer
      BY <2>1, AnswerAssumption DEF EmulationInv, TypeOK
    <3> QED BY <3>1, <3>2, OkFits
  <2>2. CASE handle = "file"
    <3>1. get_slot_address(a) \div 8 = a
      BY <1>2 DEF get_slot_address, SLOT_ADDRESSES
    <3>2. emul_read(<<zone, a>>) = LineResult(LineAfter(file, a))
      BY <1>2, <2>2, <3>1 DEF emul_read, EmulReadSlot
    <3> QED BY <1>1, <1>2, <3>2, LineFits
  <2> QED BY <1>1, <2>1, <2>2
<1>3. CASE zone = "conf"
  <2>1. CASE a # 0
    BY <1>3, <2>1, ErrorFits DEF emul_read
  <2>2. CASE a = 0
    BY <1>3, <2>2, ConfFits
  <2> QED BY <2>1, <2>2
<1>4. CASE zone = "otp"
  <2>1. CASE handle = "server"
    BY <1>4, <2>1, ErrorFits DEF emul_read
  <2>2. CASE handle = "file"
    <3>1. emul_read(<<zone, a>>) = LineResult(LineAfter(file, 16 + a))
      BY <1>4, <2>2 DEF emul_read, EmulReadOtp
    <3>2. 16 + a \in Nat
      BY <1>4
    <3> QED BY <1>1, <1>4, <3>1, <3>2, LineFits
  <2> QED BY <1>1, <2>1, <2>2
<1> QED BY <1>2, <1>3, <1>4

LEMMA DigestFits ==
  ASSUME EmulationInv, handle # "none", NEW kind \in {"hmac", "mac"},
         NEW s \in 0..15, NEW c \in Challenge
  PROVE  Fits(Digest(kind, s, c))
<1> DEFINE read == emul_read(<<"slot", s>>)
<1>1. read.status = "ok" => read.data \in Line
  BY ReadFits
<1>2. CASE read.status = "ok"
  <2> DEFINE digest == <<kind, read.data, s, c, sn>>
  <2>1. Digest(kind, s, c) = Ok(digest)
    BY <1>2 DEF Digest
  <2>2. sn \in Line \X Line
    BY DEF EmulationInv
  <2>3. digest \in {"hmac", "mac"} \X Line \X (0..15) \X Challenge \X (Line \X Line)
    BY <1>1, <1>2, <2>2
  <2>4. digest # Bad /\ digest # NoAnswer
    BY <2>3, AnswerAssumption
  <2> HIDE DEF digest
  <2> QED BY <2>1, <2>4, OkFits
<1>3. CASE read.status # "ok"
  <2>1. Digest(kind, s, c) = Error("bad_status")
    BY <1>3 DEF Digest
  <2> QED BY <2>1, ErrorFits
<1> QED BY <1>2, <1>3

LEMMA OtherFits ==
  ASSUME NEW cmd, NEW tempkey, cmd[1] \in {"nonce", "devrev", "random", "lock", "write"}
  PROVE  Fits(emul_command(cmd, tempkey))
<1>1. CASE cmd[1] \in {"nonce", "random"}
  <2>1. /\ emul_command(cmd, tempkey) \in {Ok("success"), Ok("random")}
        /\ \A word \in {"success", "random"} : word # Bad /\ word # NoAnswer
    BY <1>1, AnswerAssumption DEF emul_command
  <2> QED BY <2>1, OkFits
<1>2. CASE cmd[1] \in {"devrev", "lock", "write"}
  <2>1. emul_command(cmd, tempkey) = Error("not_implemented")
    BY <1>2 DEF emul_command
  <2> QED BY <2>1, ErrorFits
<1> QED BY <1>1, <1>2

\* What any call leaves, when its last command fits.
AnswerFits == Fits([status |-> status, data |-> answer]) \/ (status = "invalid" /\ answer = NoAnswer)

LEMMA CallFits ==
  ASSUME EmulationInv, NEW request \in Requests, Call(request)
  PROVE  AnswerFits' /\ nonce' \in Challenge \cup {Nil}
<1> DEFINE result == [status |-> status', data |-> answer']
<1>1. handle # "none" /\ nonce \in Challenge \cup {Nil}
  BY DEF Call, EmulationInv, TypeOK
<1>2. CASE InvalidInput(request)
  BY <1>1, <1>2 DEF Call, AnswerFits
<1>3. CASE ~InvalidInput(request)
  <2>1. request \in ApiCall
    BY EmulationAssumption
  <2>2. ASSUME NEW cmd, request = <<cmd>>, cmd[1] \notin {"nonce", "serial"},
               Fits(emul_command(cmd, nonce))
        PROVE  AnswerFits' /\ nonce' = nonce
    <3>1. /\ status' = emul_command(cmd, nonce).status
          /\ answer' = emul_command(cmd, nonce).data
      BY <1>3, <2>2, OneCommand
    <3>2. nonce' = nonce
      BY <1>3, <2>2 DEF Call
    <3> QED BY <2>2, <3>1, <3>2 DEF AnswerFits, Fits
  <2>3. ASSUME NEW cmd, request = <<cmd>>, cmd[1] \in {"devrev", "random", "lock", "write"}
        PROVE  AnswerFits' /\ nonce' = nonce
    BY <2>2, <2>3, OtherFits
  <2>4. ASSUME NEW zone \in {"slot", "conf", "otp"}, NEW a,
               zone = "slot" => a \in Slot, zone = "otp" => a \in OtpAddr,
               request = << <<"read", <<zone, a>> >> >>
        PROVE  AnswerFits' /\ nonce' = nonce
    <3> DEFINE cmd == <<"read", <<zone, a>> >>
    <3>1. zone = "slot" => a \in 0..15
      <4>1. ~SlotTooBig(cmd)
        BY <1>3, <2>4 DEF InvalidInput
      <4>2. ASSUME zone = "slot" PROVE ~(a > ATSHA204_MAX_SLOT_NUMBER) /\ a \in Nat
        BY <2>4, <4>1, <4>2, ApiAssumption DEF SlotTooBig
      <4> QED BY <4>2, EmulationAssumption
    <3>2. zone = "otp" => a \in 0..15
      BY <2>4, EmulationAssumption
    <3>3. cmd[1] = "read" /\ emul_command(cmd, nonce) = emul_read(<<zone, a>>)
      BY DEF emul_command
    <3>4. Fits(emul_command(cmd, nonce))
      BY <1>1, <3>1, <3>2, <3>3, ReadFits
    <3> QED BY <2>2, <2>4, <3>3, <3>4
  <2>5. ASSUME NEW s \in Slot, NEW c \in Challenge, request = << <<"mac", s, c>> >>
        PROVE  AnswerFits' /\ nonce' = nonce
    <3>1. s \in 0..15
      <4>1. ~SlotTooBig(request[1])
        BY <1>3, <2>5 DEF InvalidInput
      <4> QED BY <2>5, <4>1, ApiAssumption, EmulationAssumption DEF SlotTooBig
    <3>2. emul_command(<<"mac", s, c>>, nonce) = Digest("mac", s, c)
      BY DEF emul_command, emul_mac
    <3>3. Fits(emul_command(<<"mac", s, c>>, nonce))
      BY <1>1, <3>1, <3>2, DigestFits
    <3> QED BY <2>2, <2>5, <3>3
  <2>6. ASSUME NEW s \in Slot, NEW c \in Challenge,
               request = << <<"nonce", c>>, <<"hmac", s>> >>
        PROVE  AnswerFits' /\ nonce' = c
    <3>1. s \in 0..15
      <4>1. ~SlotTooBig(request[2])
        BY <1>3, <2>6 DEF InvalidInput
      <4> QED BY <2>6, <4>1, ApiAssumption, EmulationAssumption DEF SlotTooBig
    <3>2. emul_command(<<"hmac", s>>, c) = Digest("hmac", s, c)
      BY DEF emul_command, emul_hmac
    <3>3. Fits(emul_command(<<"hmac", s>>, c))
      BY <1>1, <3>1, <3>2, DigestFits
    <3>4. /\ status' = emul_command(<<"hmac", s>>, c).status
          /\ answer' = emul_command(<<"hmac", s>>, c).data
      BY <1>3, <2>6, TwoCommands
    <3>5. nonce' = c
      BY <1>3, <2>6 DEF Call
    <3> QED BY <3>3, <3>4, <3>5 DEF AnswerFits, Fits
  <2>8. ASSUME request = << <<"serial">> >>
        PROVE  AnswerFits' /\ nonce' = nonce
    <3>1. emul_command(<<"serial">>, nonce) = emul_read(<<"conf", 0>>)
      BY DEF emul_command
    <3>2. /\ status' = emul_read(<<"conf", 0>>).status
          /\ answer' = Received(<<"serial">>, emul_read(<<"conf", 0>>))
      BY <1>3, <2>8, <3>1, OneCommand
    <3>3. nonce' = nonce
      BY <1>3, <2>8 DEF Call
    <3> QED BY <1>1, <3>2, <3>3, ConfFits DEF AnswerFits
  <2>7. AnswerFits' /\ (nonce' = nonce \/ nonce' \in Challenge)
    BY <2>1, <2>3, <2>4, <2>5, <2>6, <2>8, RequestShape
  <2> QED BY <1>1, <2>7
<1> QED BY <1>2, <1>3

LEMMA SerialFits ==
  ASSUME EmulationInv, atsha_serial_number
  PROVE  AnswerFits'
<1> DEFINE rev    == emul_read(<<"otp", 0>>)
           serial == emul_read(<<"otp", 1>>)
<1>1. /\ handle # "none" /\ 0 \in 0..15 /\ 1 \in 0..15
      /\ IF rev.status = "ok" /\ serial.status = "ok"
         THEN status' = "ok" /\ answer' = <<rev.data, serial.data>>
         ELSE /\ status' = IF rev.status = "ok" THEN serial.status ELSE rev.status
              /\ answer' = NoAnswer
  BY DEF atsha_serial_number, ATSHA204_OTP_MEMORY_MAP_REV_NUMBER,
         ATSHA204_OTP_MEMORY_MAP_SERIAL_NUMBER
<1>2. Fits(rev) /\ Fits(serial)
  BY <1>1, ReadFits
<1>3. rev.status = "ok" => rev.data \in Line
  BY <1>1, ReadFits
<1>4. serial.status = "ok" => serial.data \in Line
  BY <1>1, ReadFits
<1> HIDE DEF rev, serial
<1>5. CASE rev.status = "ok" /\ serial.status = "ok"
  <2>1. answer' \in Line \X Line
    BY <1>1, <1>3, <1>4, <1>5
  <2>2. answer' # Bad /\ answer' # NoAnswer
    BY <2>1, AnswerAssumption
  <2> QED BY <1>1, <1>5, <2>2 DEF AnswerFits, Fits
<1>6. CASE ~(rev.status = "ok" /\ serial.status = "ok")
  BY <1>1, <1>2, <1>6, AnswerAssumption DEF AnswerFits, Fits
<1> QED BY <1>5, <1>6

LEMMA TypesStart == Init => EmulationInv
<1> SUFFICES ASSUME Init PROVE EmulationInv
  OBVIOUS
<1>1. <<>> \in Seq(Line) /\ 0 \in 0..ATSHA204_MAX_SLOT_NUMBER
  BY EmulationAssumption
<1>2. TypeOK
  BY <1>1, AnswerAssumption DEF Init, TypeOK, NoCall
<1> QED BY <1>1, <1>2 DEF Init, EmulationInv

\* A call changes nothing else that has a type.
LEMMA CallTypes ==
  ASSUME EmulationInv, AnswerFits', UNCHANGED handleVars, handle # "none",
         nonce' \in Challenge \cup {Nil}, wake_is_expected' \in BOOLEAN,
         call' \in Requests \cup {NoCall, SerialNumber}
  PROVE  EmulationInv'
<1>1. /\ handle' = handle /\ file' = file /\ slot_id' = slot_id
      /\ key' = key /\ sn' = sn /\ key_origin' = key_origin
  BY DEF handleVars
<1>2. SerialNumber' = SerialNumber
  BY DEF SerialNumber
<1>3. /\ status' \in {"ok", "invalid", "bad_format", "bad_status", "not_implemented"}
      /\ answer' # Bad /\ (answer' = NoAnswer <=> status' # "ok")
  BY AnswerAssumption DEF AnswerFits, Fits
<1> QED BY <1>1, <1>2, <1>3 DEF EmulationInv, TypeOK, NoCall

LEMMA TypesStep == EmulationInv /\ [Next]_vars => EmulationInv'
<1> SUFFICES ASSUME EmulationInv, [Next]_vars PROVE EmulationInv'
  OBVIOUS
<1>1. ASSUME NEW f \in File, atsha_open_emulation(f) PROVE EmulationInv'
  <2>1. f \in Seq(Line)
    BY AnswerAssumption
  <2>2. /\ file' = f /\ status' \in {"none", "no handle"} /\ answer' = NoAnswer
        /\ call' = NoCall /\ nonce' = Nil /\ wake_is_expected' = FALSE
        /\ slot_id' = slot_id /\ key' = key /\ key = Nil
    BY <1>1 DEF atsha_open_emulation, EmulationInv, TypeOK
  <2>3. handle' \in {"none", "file"} /\ key_origin' # Bad
        /\ (handle' = "file" => sn' \in Line \X Line)
    <3>1. CASE handle' = "none"
      BY <1>1, <3>1 DEF atsha_open_emulation, EmulationInv, TypeOK
    <3>2. CASE handle' # "none"
      <4>1. /\ handle' = "file"
            /\ EmulReadOtp(f, 0) # Bad /\ EmulReadOtp(f, 1) # Bad /\ EmulReadOtp(f, 2) # Bad
            /\ sn' = <<EmulReadOtp(f, 0), EmulReadOtp(f, 1)>>
            /\ key_origin' = EmulReadOtp(f, 2)
        BY <1>1, <3>2 DEF atsha_open_emulation, ATSHA204_OTP_MEMORY_MAP_REV_NUMBER,
             ATSHA204_OTP_MEMORY_MAP_SERIAL_NUMBER, ATSHA204_OTP_MEMORY_MAP_ORIGIN_KEY_SET
      <4>2. \A a \in {0, 1} : EmulReadOtp(f, a) \in Line
        <5>1. \A a \in {0, 1} : EmulReadOtp(f, a) # Bad /\ 16 + a \in Nat
          BY <4>1
        <5> QED BY <2>1, <5>1, LineFound DEF EmulReadOtp
      <4> QED BY <4>1, <4>2
    <3> QED BY <3>1, <3>2
  <2> QED BY <2>1, <2>2, <2>3, AnswerAssumption DEF EmulationInv, TypeOK
<1>2. ASSUME NEW f \in File, NEW s \in Slot, CompleteFile(f),
             s <= ATSHA204_MAX_SLOT_NUMBER, atsha_open_server_emulation(f, s)
      PROVE  EmulationInv'
  <2>1. f \in Seq(Line) /\ s \in 0..ATSHA204_MAX_SLOT_NUMBER
    <3>1. f \in Seq(Line)
      BY AnswerAssumption
    <3>2. s \in 0..ATSHA204_MAX_SLOT_NUMBER
      BY <1>2, ApiAssumption
    <3> QED BY <3>1, <3>2
  <2>2. s \in 0..15
    BY <2>1, EmulationAssumption
  <2>3. Key(f, s) \in Line /\ Key(f, s) # Bad
    <3>1. get_slot_address(s) \div 8 = s
      BY <2>2 DEF get_slot_address, SLOT_ADDRESSES
    <3>2. LineAfter(f, s) # Bad
      BY <1>2, <2>2, <3>1, CompleteLines DEF EmulReadSlot
    <3>3. LineAfter(f, s) = Key(f, s)
      BY <3>2 DEF LineAfter, Key
    <3> QED BY <2>1, <2>2, <3>2, <3>3, LineFound
  <2>4. \A a \in {0, 1} : Otp(f, a) \in Line
    <3>1. \A a \in {0, 1} : a \in 0..15 /\ 16 + a \in Nat
      OBVIOUS
    <3>2. \A a \in {0, 1} : EmulReadOtp(f, a) # Bad
      BY <1>2, <3>1, CompleteLines
    <3>3. \A a \in {0, 1} : EmulReadOtp(f, a) \in Line
      BY <2>1, <3>1, <3>2, LineFound DEF EmulReadOtp
    <3> QED BY <3>2, <3>3, OtpLine
  <2> QED
    BY <1>2, <2>1, <2>3, <2>4, AnswerAssumption
    DEF atsha_open_server_emulation, EmulationInv, TypeOK, NoCall
<1>3. CASE atsha_close
  <2>1. <<>> \in Seq(Line) /\ 0 \in 0..ATSHA204_MAX_SLOT_NUMBER
    BY EmulationAssumption
  <2> QED BY <1>3, <2>1, AnswerAssumption DEF atsha_close, EmulationInv, TypeOK, NoCall
<1>4. ASSUME NEW request \in Requests, Call(request) PROVE EmulationInv'
  <2>1. AnswerFits' /\ nonce' \in Challenge \cup {Nil}
    BY <1>4, CallFits
  <2>2. /\ UNCHANGED handleVars /\ handle # "none" /\ call' \in Requests
        /\ wake_is_expected' \in BOOLEAN
    BY <1>4 DEF Call, EmulationInv, TypeOK
  <2> QED BY <2>1, <2>2, CallTypes
<1>5. CASE atsha_serial_number
  <2>1. AnswerFits'
    BY <1>5, SerialFits
  <2>2. /\ UNCHANGED handleVars /\ handle # "none" /\ call' = SerialNumber
        /\ wake_is_expected' \in BOOLEAN /\ nonce' \in Challenge \cup {Nil}
    BY <1>5 DEF atsha_serial_number, EmulationInv, TypeOK
  <2> QED BY <2>1, <2>2, CallTypes
<1>6. CASE UNCHANGED vars
  BY <1>6 DEF vars, handleVars, EmulationInv, TypeOK, SerialNumber
<1> QED
  BY <1>1, <1>2, <1>3, <1>4, <1>5, <1>6 DEF Next

\* Every variable has its type; among others the layer never hands out a line
\* that its file does not have, and never a success without an answer.
THEOREM EmulationTypes == Spec => []TypeOK
<1>1. EmulationInv => TypeOK
  BY DEF EmulationInv
<1> QED BY <1>1, TypesStart, TypesStep, PTL DEF Spec
=============================================================================
