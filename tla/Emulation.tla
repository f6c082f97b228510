----------------------------- MODULE Emulation -----------------------------
(***************************************************************************)
(* The emulation layer (emulation.c) below the functions of api.c: a       *)
(* configuration file, or one key in the memory of a server, takes the     *)
(* place of the chip.  A call of the library is one step here: the layer   *)
(* has no bus, no other user and nothing to wait for.                      *)
(***************************************************************************)
EXTENDS Api, ConfigFile

CONSTANTS File, Requests, NoAnswer

ASSUME EmulationAssumption ==
  /\ Requests \subseteq ApiCall
  /\ ATSHA204_MAX_SLOT_NUMBER \in 0..15 /\ OtpAddr \subseteq 0..15

VARIABLES
  handle,     \* none, file or server
  file,       \* the file that is read, or that the server's device came from
  slot_id, key, sn,  \* of the handle; a server has the key of one slot only
  key_origin,
  nonce,      \* handle->nonce, in place of TempKey
  wake_is_expected,
  call, status, answer

handleVars == <<handle, file, slot_id, key, sn, key_origin>>
vars == <<handleVars, nonce, wake_is_expected, call, status, answer>>

ATSHA204_OTP_MEMORY_MAP_REV_NUMBER     == 0
ATSHA204_OTP_MEMORY_MAP_SERIAL_NUMBER  == 1
ATSHA204_OTP_MEMORY_MAP_ORIGIN_KEY_SET == 2

NoCall == <<>>
Nil == <<"nil">>      \* memory that calloc has cleared

\* What the layer makes its answers of: lines of the files and, for a digest or
\* the configuration of a server, the two lines of the serial number.  Bad and
\* NoAnswer stand for the lack of a line and of an answer: they are neither.
Line == UNION {{f[i] : i \in DOMAIN f} : f \in File}

ASSUME AnswerAssumption ==
  /\ File \subseteq Seq(Line)
  /\ Bad # Nil /\ Bad # NoAnswer /\ NoAnswer \notin Line
  /\ \A none \in {Bad, NoAnswer} :
       /\ none \notin {"random", "success"}
       /\ none \notin Line \X Line
       /\ none \notin {"made of"} \X (Line \X Line)
       /\ none \notin {"block"} \X (Line \cup ({"made of"} \X (Line \X Line)))
       /\ none \notin {"hmac", "mac"} \X Line \X (0..15) \X Challenge \X (Line \X Line)

\* The results of emul_command.
Ok(data)     == [status |-> "ok", data |-> data]
Error(error) == [status |-> error, data |-> NoAnswer]
\* Mutant: a short line is not noticed.
LineUnchecked(line) == Ok(line)
LineResult(line) == IF line = Bad THEN Error("bad_format") ELSE Ok(line)

Init ==
  /\ handle = "none" /\ file = <<>> /\ slot_id = 0 /\ key = Nil /\ sn = Nil
  /\ key_origin = Nil /\ nonce = Nil /\ wake_is_expected = FALSE
  /\ call = NoCall /\ status = "none" /\ answer = NoAnswer

-----------------------------------------------------------------------------
(* emulation.c                                                             *)

\* 32 bytes with a serial number in their places.
Block(serial) == <<"block", serial>>

\* Of the configuration zone there is a block of 32 bytes with the serial number,
\* whether 32 bytes or 4 were asked for.  A server makes it up from sn, of which
\* it has eight bytes and reads nine.
emul_read(word) ==
  CASE word[1] = "conf" /\ word[2] # 0   -> Error("not_implemented")
    [] word = <<"conf", 0>> /\ handle = "server" -> Ok(Block(<<"made of", sn>>))
    [] word = <<"conf", 0>> /\ handle = "file" ->
         IF EmulReadSerial(file) = Bad THEN Error("bad_format")
         ELSE Ok(Block(EmulReadSerial(file)))
    [] word[1] = "slot" /\ handle = "server" -> Ok(key)
    [] word[1] = "slot" /\ handle = "file" ->
         LineResult(EmulReadSlot(file, get_slot_address(word[2])))
    [] word[1] = "otp" /\ handle = "server" -> Error("not_implemented")
    [] word[1] = "otp" /\ handle = "file" -> LineResult(EmulReadOtp(file, word[2]))

\* The digests take the key from a slot by a call of atsha_raw_slot_read.
Digest(kind, slot, challenge) ==
  LET read == emul_read(<<"slot", slot>>) IN
  IF read.status = "ok" THEN Ok(<<kind, read.data, slot, challenge, sn>>)
  ELSE Error("bad_status")

\* Mutant: the nonce of the call before.
emul_hmac_stale(slot, tempkey) == Digest("hmac", slot, nonce)

emul_hmac(slot, tempkey) == Digest("hmac", slot, tempkey)
emul_mac(slot, challenge) == Digest("mac", slot, challenge)

\* tempkey is the nonce that an emul_nonce of the same call leaves.
emul_command(cmd, tempkey) ==
  CASE cmd[1] = "nonce"  -> Ok("success")
    [] cmd[1] = "hmac"   -> emul_hmac(cmd[2], tempkey)
    [] cmd[1] = "mac"    -> emul_mac(cmd[2], cmd[3])
    [] cmd[1] = "read"   -> emul_read(cmd[2])
    [] cmd[1] = "serial" -> emul_read(<<"conf", 0>>)
    [] cmd[1] = "random" -> Ok("random")
    [] OTHER             -> Error("not_implemented")

\* What a caller gets of an answer: op_serial_number_recv takes nine bytes out
\* of the block, the other functions copy all bytes there are.
Received(cmd, result) ==
  IF cmd[1] = "serial" /\ result.status = "ok" THEN result.data[2] ELSE result.data

-----------------------------------------------------------------------------
(* api.c                                                                   *)

\* The serial number and the key origin are read ahead: without them there is
\* no handle.
atsha_open_emulation(f) ==
  LET Word4(a) == EmulReadOtp(f, a) IN
  /\ handle = "none"
  /\ file' = f
  /\ IF \E a \in {ATSHA204_OTP_MEMORY_MAP_REV_NUMBER,
                  ATSHA204_OTP_MEMORY_MAP_SERIAL_NUMBER,
                  ATSHA204_OTP_MEMORY_MAP_ORIGIN_KEY_SET} : Word4(a) = Bad
     THEN handle' = "none" /\ status' = "no handle" /\ UNCHANGED <<sn, key_origin>>
     ELSE /\ handle' = "file" /\ status' = "none"
          /\ sn' = <<Word4(ATSHA204_OTP_MEMORY_MAP_REV_NUMBER),
                     Word4(ATSHA204_OTP_MEMORY_MAP_SERIAL_NUMBER)>>
          /\ key_origin' = Word4(ATSHA204_OTP_MEMORY_MAP_ORIGIN_KEY_SET)
  /\ answer' = NoAnswer /\ call' = NoCall
  /\ nonce' = Nil /\ wake_is_expected' = FALSE
  /\ UNCHANGED <<slot_id, key>>

\* The server knows one key of the device and its serial number.
atsha_open_server_emulation(f, slot) ==
  /\ handle = "none"
  /\ handle' = "server" /\ file' = f
  /\ slot_id' = slot /\ key' = Key(f, slot) /\ sn' = <<Otp(f, 0), Otp(f, 1)>>
  /\ status' = "none" /\ answer' = NoAnswer /\ call' = NoCall
  /\ key_origin' = Nil /\ nonce' = Nil /\ wake_is_expected' = FALSE

atsha_close ==
  /\ handle # "none"
  /\ handle' = "none" /\ file' = <<>>
  /\ slot_id' = 0 /\ key' = Nil /\ sn' = Nil /\ key_origin' = Nil
  /\ call' = NoCall /\ status' = "none" /\ answer' = NoAnswer
  /\ nonce' = Nil /\ wake_is_expected' = FALSE

\* The commands of a call up to the first that fails; wake and idle always
\* succeed, and a call that fails leaves out its idle.
Call(request) ==
  LET first == emul_command(request[1], nonce)
      hold  == IF request[1][1] = "nonce" THEN request[1][2] ELSE nonce
      last  == IF first.status = "ok" /\ Len(request) = 2
               THEN emul_command(request[2], hold) ELSE first
  IN
  /\ handle # "none"
  /\ call' = request
  /\ IF InvalidInput(request)
     THEN /\ status' = "invalid" /\ answer' = NoAnswer
          /\ UNCHANGED <<nonce, wake_is_expected>>
     ELSE /\ status' = last.status
          /\ answer' = Received(request[Len(request)], last)
          /\ nonce' = hold
          /\ wake_is_expected' = (last.status # "ok")
  /\ UNCHANGED handleVars

\* atsha_serial_number is two calls of atsha_raw_otp_read.
SerialNumber ==
  << RawOtpRead(ATSHA204_OTP_MEMORY_MAP_REV_NUMBER)[1],
     RawOtpRead(ATSHA204_OTP_MEMORY_MAP_SERIAL_NUMBER)[1] >>
atsha_serial_number ==
  LET rev    == emul_read(<<"otp", ATSHA204_OTP_MEMORY_MAP_REV_NUMBER>>)
      serial == emul_read(<<"otp", ATSHA204_OTP_MEMORY_MAP_SERIAL_NUMBER>>)
  IN
  /\ handle # "none"
  /\ call' = SerialNumber
  /\ IF rev.status = "ok" /\ serial.status = "ok"
     THEN /\ status' = "ok" /\ answer' = <<rev.data, serial.data>>
          /\ wake_is_expected' = FALSE
     ELSE /\ status' = (IF rev.status = "ok" THEN serial.status ELSE rev.status)
          /\ answer' = NoAnswer /\ wake_is_expected' = TRUE
  /\ UNCHANGED <<handleVars, nonce>>

Next ==
  \/ \E f \in File : atsha_open_emulation(f)
  \/ \E f \in File, slot \in Slot :
       /\ CompleteFile(f) /\ slot <= ATSHA204_MAX_SLOT_NUMBER
       /\ atsha_open_server_emulation(f, slot)
  \/ atsha_close
  \/ \E request \in Requests : Call(request)
  \/ atsha_serial_number

Spec == Init /\ [][Next]_vars

-----------------------------------------------------------------------------
TypeOK ==
  /\ handle \in {"none", "file", "server"}
  /\ file \in File \cup {<<>>}
  /\ slot_id \in 0..ATSHA204_MAX_SLOT_NUMBER
  /\ nonce \in Challenge \cup {Nil}
  /\ wake_is_expected \in BOOLEAN
  /\ call \in Requests \cup {NoCall, SerialNumber}
  /\ status \in {"none", "ok", "invalid", "no handle", "bad_format",
                "bad_status", "not_implemented"}
  /\ answer = NoAnswer <=> status # "ok"
  /\ Bad \notin {answer, key, key_origin}
  /\ handle = "none" => <<key, nonce, wake_is_expected>> = <<Nil, Nil, FALSE>>

-----------------------------------------------------------------------------
(* A chip that chiptools init has programmed from the file.                *)

ChipHolds(word) ==
  CASE word[1] = "slot" -> Key(file, word[2])
    [] word[1] = "otp"  -> Otp(file, word[2])

ChipSerial == <<Otp(file, 0), Otp(file, 1)>>

LastCommand == call[Len(call)]

ChipAnswers ==
  LET cmd == LastCommand IN
  CASE call = SerialNumber -> ChipSerial
    [] cmd[1] = "hmac" -> <<"hmac", Key(file, cmd[2]), cmd[2], call[1][2], ChipSerial>>
    [] cmd[1] = "mac"  -> <<"mac", Key(file, cmd[2]), cmd[2], cmd[3], ChipSerial>>
    [] cmd[1] = "read" /\ call # SerialNumber -> ChipHolds(cmd[2])
    [] cmd[1] = "serial" -> Serial(file)
    [] cmd[1] = "random" -> "random"

IsDigest == call # NoCall /\ LastCommand[1] \in {"hmac", "mac"}

\* Reads of single configuration words, of which the emulation knows one.
ReadsConf == LastCommand[1] = "read" /\ LastCommand[2][1] = "conf"

\* An emulated device gives the answers of the chip that was programmed from
\* the same file, to every call that it answers, on files however incomplete;
\* a server gives the digests of its device for the slot it has the key of.
\* Not so for a word of the configuration zone: four bytes are asked for, and
\* the emulation answers address 0 with 32.  A slot counts as what the chip
\* holds in it, which a locked chip tells nobody.
AnswersAsChip ==
  (status = "ok" /\ ~ReadsConf
     /\ (handle = "server" => IsDigest /\ LastCommand[2] = slot_id))
    => answer = ChipAnswers

\* A file that chiptools init accepts opens, and answers all the calls of
\* `chiptools test': the serial number, both digests of each slot, OTP words.
InTest ==
  /\ call # NoCall /\ ~InvalidInput(call)
  /\ IsDigest \/ (LastCommand[1] = "read" /\ LastCommand[2][1] = "otp")
TestPasses ==
  CompleteFile(file) =>
    /\ status # "no handle"
    /\ (handle = "file" /\ InTest => status = "ok")
=============================================================================
