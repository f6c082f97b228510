------------------------------ MODULE Packets ------------------------------
(***************************************************************************)
(* One exchange with the chip byte by byte: the packets of operations.c    *)
(* and tools.c, what the chip makes of them, noise on the bus, and what    *)
(* ni2c_read, check_packet, command() and the receiving functions make of  *)
(* the answer.  Communication abstracts all this to answers that come or   *)
(* are lost.                                                               *)
(*                                                                         *)
(* A byte is a number, a packet a sequence of bytes.  A command is a tuple:*)
(*   <<"devrev">>  <<"random">>  <<"serial">>  <<"nonce", data>>           *)
(*   <<"read", zone, address, size>>  <<"write", zone, address, data>>     *)
(*   <<"hmac", slot, use_sn>>  <<"mac", slot, data, use_sn>>               *)
(*   <<"lock", zone, crc>>                                                 *)
(* where the address of zone "slot" is the number of the slot.             *)
(***************************************************************************)
EXTENDS Integers, Sequences, FiniteSets, FiniteSetsExt

CONSTANTS
  Command,      \* the commands that are sent
  Noisy,        \* those of them whose exchange noise may hit
  MaxFlips(_)   \* the bits of a packet of this length that noise may flip

Byte == 0..255
Bytes(n) == [1..n -> Byte]

\* What api.c hands to operations.c: slots up to the highest one, challenges of
\* 32 bytes, addresses in a byte, words of 4 bytes or 32.
WellFormed ==
  {<<"devrev">>, <<"random">>, <<"serial">>}
  \cup ({"read"} \X {"slot"} \X (0..15) \X {4, 32})
  \cup ({"read"} \X {"conf", "otp"} \X Byte \X {4, 32})
  \cup ({"write"} \X {"slot"} \X (0..15) \X (Bytes(4) \cup Bytes(32)))
  \cup ({"write"} \X {"conf", "otp"} \X Byte \X (Bytes(4) \cup Bytes(32)))
  \cup ({"nonce"} \X Bytes(32))
  \cup ({"hmac"} \X (0..15) \X BOOLEAN)
  \cup ({"mac"} \X (0..15) \X Bytes(32) \X BOOLEAN)
  \cup ({"lock"} \X {"conf", "data"} \X Bytes(2))

ASSUME PacketsAssumption == Command \subseteq WellFormed /\ Noisy \subseteq Command

VARIABLES
  phase,    \* idle, sending, answering, received
  command,  \* the command, or <<>>
  wire,     \* the packet on the bus
  flipped,  \* the bits of it that noise has flipped
  heard,    \* what the chip has understood
  reply,    \* what the chip has said: a status, data, or nothing at all
  result    \* what the function of the library makes of it

vars == <<phase, command, wire, flipped, heard, reply, result>>

\* Mutant: room for the data alone.
BufferForData == 32
BUFFSIZE_NI2C == 84

-----------------------------------------------------------------------------
(* tools.c                                                                 *)

Bit(byte, b) == (byte \div 2 ^ b) % 2 = 1
ToByte(bits) ==
  LET Value(b) == IF b \in bits THEN 2 ^ b ELSE 0
  IN  Value(0) + Value(1) + Value(2) + Value(3)
      + Value(4) + Value(5) + Value(6) + Value(7)
BitAt(bytes, k) == Bit(bytes[k \div 8 + 1], k % 8)

POLYNOM == {0, 2, 15}     \* 0x8005

\* Mutant: the bits of a byte are taken high bit first.
CrcStepReflected(register, byte, b) ==
  LET shifted == {c + 1 : c \in register \ {15}} IN
  IF Bit(byte, 7 - b) # (15 \in register) THEN SymDiff(shifted, POLYNOM) ELSE shifted

\* crc_register, the set of its bits that are 1, after bit b of the byte.
CrcStep(register, byte, b) ==
  LET shifted == {c + 1 : c \in register \ {15}} IN
  IF Bit(byte, b) # (15 \in register) THEN SymDiff(shifted, POLYNOM) ELSE shifted

\* The inner loop: the register after each bit of a byte.
BitRegisters(register, byte) ==
  LET after[b \in 0..8] ==
        IF b = 0 THEN register ELSE CrcStep(after[b - 1], byte, b - 1)
  IN  after

CrcOfByte[of \in (SUBSET (0..15)) \X Byte] == BitRegisters(of[1], of[2])[8]

\* The outer loop: the register after each byte.
Registers(bytes) ==
  LET after[n \in 0..Len(bytes)] ==
        IF n = 0 THEN {} ELSE CrcOfByte[<<after[n - 1], bytes[n]>>]
  IN  after
crc_register(bytes) == Registers(bytes)[Len(bytes)]

calculate_crc(bytes) ==
  LET last == crc_register(bytes)
  IN  << ToByte({b \in last : b < 8}), ToByte({b - 8 : b \in {c \in last : c >= 8}}) >>

WithCrc(bytes) == bytes \o calculate_crc(bytes)

\* Mutant: the two bytes of the CRC are not compared both.
check_packet_low(packet) ==
  LET size == packet[1] IN
  packet[size - 1] = calculate_crc(SubSeq(packet, 1, size - 2))[1]

check_packet(packet) ==
  LET size == packet[1] IN
  <<packet[size - 1], packet[size]>> = calculate_crc(SubSeq(packet, 1, size - 2))

generate_command_packet(opcode, param1, param2, data) ==
  WithCrc(<<7 + Len(data), opcode, param1, param2 % 256, param2 \div 256>> \o data)
generate_answer_packet(data) == WithCrc(<<3 + Len(data)>> \o data)

-----------------------------------------------------------------------------
(* operations.c                                                            *)

IO_MEM == [slot |-> 2, conf |-> 0, otp |-> 1]
get_zone_config(zone, size) == IO_MEM[zone] + (IF size = 32 THEN 128 ELSE 0)
get_lock_config(zone) == IF zone = "conf" THEN 0 ELSE 1
get_slot_address(slot) == 8 * slot
WordAddress(zone, address) == IF zone = "slot" THEN get_slot_address(address) ELSE address
Mode(bits, use_sn) == bits + (IF use_sn THEN 32 ELSE 0)

\* Mutant: the high byte of the CRC first.
LockCrcSwapped(crc) == 256 * crc[1] + crc[2]
LockCrc(crc) == 256 * crc[2] + crc[1]

Packet(c) ==
  CASE c[1] = "devrev" -> generate_command_packet(48, 0, 0, <<>>)
    [] c[1] = "random" -> generate_command_packet(27, 0, 0, <<>>)
    [] c[1] = "serial" ->
         generate_command_packet(2, get_zone_config("conf", 32), 0, <<>>)
    [] c[1] = "read" ->
         generate_command_packet(2, get_zone_config(c[2], c[4]), WordAddress(c[2], c[3]), <<>>)
    [] c[1] = "write" ->
         generate_command_packet(18, get_zone_config(c[2], Len(c[4])), WordAddress(c[2], c[3]), c[4])
    [] c[1] = "nonce" -> generate_command_packet(22, 3, 0, c[2])
    [] c[1] = "hmac"  -> generate_command_packet(17, Mode(4, c[3]), c[2], <<>>)
    [] c[1] = "mac"   -> generate_command_packet(8, Mode(0, c[4]), c[2], c[3])
    [] c[1] = "lock"  -> generate_command_packet(23, get_lock_config(c[2]), LockCrc(c[3]), <<>>)

\* just_check_status, read_long_data and their like on a packet that has passed
\* all checks.
Error(what) == <<"error", what>>
Ok(data) == <<"ok", data>>
SerialBytes == <<2, 3, 4, 5, 10, 11, 12, 13, 14>>

Received(c, packet) ==
  LET size == packet[1] - 3 IN
  CASE c[1] \in {"write", "nonce", "lock"} ->
         IF packet[2] = 0 THEN Ok(<<>>) ELSE Error("bad status")
    [] c[1] = "devrev" -> Ok(<<packet[3], 0, packet[4], packet[5]>>)
    [] c[1] = "serial" -> Ok([n \in 1..9 |-> packet[SerialBytes[n]]])
    [] OTHER -> IF size > 32 \/ size = 0 THEN Error("memory")
                ELSE Ok(SubSeq(packet, 2, size + 1))

-----------------------------------------------------------------------------
(* The chip, by its data sheet                                             *)

\* The CRC as the remainder of the data, a polynomial over GF(2) given by the
\* set of its exponents, times x^16 by x^16 + x^15 + x^2 + 1.
Divided(poly, e) ==
  IF e \in poly THEN SymDiff(poly, {e, e - 1, e - 14, e - 16}) ELSE poly
Rests(poly, top) ==
  LET rest[i \in 0..8] == IF i = 0 THEN poly ELSE Divided(rest[i - 1], top - i + 1)
  IN  rest
EightDivided[of \in (SUBSET Nat) \X Nat] == Rests(of[1], of[2])[8]

Dividend(bytes) ==
  LET n == 8 * Len(bytes)
  IN  {n + 15 - k : k \in {l \in 0..n - 1 : BitAt(bytes, l)}}
Divisions(bytes) ==
  LET division[i \in 0..Len(bytes)] ==
        IF i = 0 THEN Dividend(bytes)
        ELSE EightDivided[<<division[i - 1], 8 * Len(bytes) + 15 - 8 * (i - 1)>>]
  IN  division
Remainder(bytes) == Divisions(bytes)[Len(bytes)]

Intact(p) ==
  /\ Len(p) >= 7 /\ p[1] = Len(p)
  /\ Remainder(SubSeq(p, 1, Len(p) - 2)) =
       {b \in 0..15 : BitAt(SubSeq(p, Len(p) - 1, Len(p)), b)}

Unheard == <<"unheard">>
ZoneOf(param1) == <<"conf", "otp", "slot">>[(param1 % 4) + 1]
SizeOf(param1) == IF param1 >= 128 THEN 32 ELSE 4
AddressOf(param1, param2) == IF param1 % 4 = 2 THEN param2 \div 8 ELSE param2

Decode(p) ==
  LET opcode == p[2]
      param1 == p[3]
      param2 == p[4] + 256 * p[5]
      data == SubSeq(p, 6, Len(p) - 2)
      use_sn == Bit(param1, 5)
  IN
  IF ~Intact(p) THEN Unheard ELSE
  CASE opcode = 48 -> <<"devrev">>
    [] opcode = 27 -> <<"random">>
    [] opcode = 2 /\ param1 % 4 < 3 ->
         <<"read", ZoneOf(param1), AddressOf(param1, param2), SizeOf(param1)>>
    [] opcode = 18 /\ param1 % 4 < 3 /\ Len(data) = SizeOf(param1) ->
         <<"write", ZoneOf(param1), AddressOf(param1, param2), data>>
    [] opcode = 22 /\ param1 % 4 = 3 -> <<"nonce", data>>
    [] opcode = 17 /\ Bit(param1, 2) -> <<"hmac", param2, use_sn>>
    [] opcode = 8 /\ param1 % 4 = 0 -> <<"mac", param2, data, use_sn>>
    [] opcode = 23 -> <<"lock", IF param1 % 2 = 0 THEN "conf" ELSE "data",
                        <<p[4], p[5]>> >>
    [] OTHER -> Unheard

\* Contents that tell words and bytes apart.
Sample(seed, size) == [n \in 1..size |-> (17 * seed + 29 * n) % 256]
Contents(c) ==
  CASE c[1] \in {"write", "nonce", "lock"} -> <<0>>
    [] c[1] = "devrev" -> Sample(1, 4)
    [] c[1] = "random" -> Sample(2, 32)
    [] c[1] = "read" -> Sample(3 + 8 * c[3] + IO_MEM[c[2]], c[4])
    [] c[1] = "hmac" -> Sample(5 + c[2], 32)
    [] c[1] = "mac"  -> Sample(6 + c[2], 32)

Meant(c) == IF c[1] = "serial" THEN <<"read", "conf", 0, 32>> ELSE c

-----------------------------------------------------------------------------
Init ==
  /\ phase = "idle" /\ command = <<>> /\ wire = <<>> /\ flipped = {}
  /\ heard = Unheard /\ reply = <<>> /\ result = Error("none")

Send(c) ==
  /\ phase = "idle"
  /\ phase' = "sending" /\ command' = c /\ wire' = Packet(c)
  /\ UNCHANGED <<flipped, heard, reply, result>>

Flip(byte, b) == IF Bit(byte, b) THEN byte - 2 ^ b ELSE byte + 2 ^ b

\* Bits are flipped on the way, the lower ones first.
Noise ==
  /\ phase \in {"sending", "answering"} /\ command \in Noisy
  /\ Cardinality(flipped) < MaxFlips(Len(wire))
  /\ \E k \in 0..8 * Len(wire) - 1 :
       /\ \A l \in flipped : l < k
       /\ flipped' = flipped \cup {k}
       /\ wire' = [wire EXCEPT ![k \div 8 + 1] = Flip(@, k % 8)]
  /\ UNCHANGED <<phase, command, heard, reply, result>>

\* The chip answers with what was asked for, or with a status: a parse error, an
\* execution error, or the answer to a wake pulse; a communication error if the
\* packet is not intact.
ChipAnswers ==
  /\ phase = "sending" /\ phase' = "answering"
  /\ heard' = Decode(wire)
  /\ reply' \in IF heard' = Unheard THEN {<<255>>}
                ELSE {Contents(heard'), <<3>>, <<15>>, <<17>>}
  /\ wire' = generate_answer_packet(reply')
  /\ flipped' = {}
  /\ UNCHANGED <<command, result>>

\* Nobody drives the bus, or something pulls it down.
Silence ==
  /\ phase = "sending" /\ phase' = "answering"
  /\ \E level \in {0, 255} : wire' = [n \in 1..BUFFSIZE_NI2C |-> level]
  /\ flipped' = {}
  /\ UNCHANGED <<command, heard, reply, result>>

\* ni2c_read reads 84 bytes, which a chip fills up with 255, and takes the first
\* for the length of the packet.
Buffer == [n \in 1..BUFFSIZE_NI2C |-> IF n <= Len(wire) THEN wire[n] ELSE 255]

LengthOutOfBounds == Buffer[1] < 2 \/ Buffer[1] > BUFFSIZE_NI2C

\* command() and the receiving function.
Checked(packet) ==
  IF ~check_packet(packet) THEN Error("crc")
  ELSE IF packet[1] = 4 /\ packet[2] \in {3, 15, 255, 17} THEN Error("bad status")
  ELSE Received(command, packet)

\* A length below 2 or beyond the buffer makes memcpy or check_packet use memory
\* outside of the packet: whatever is there may pass for a packet or not.
HostReads ==
  /\ phase = "answering" /\ phase' = "received"
  /\ \/ /\ LengthOutOfBounds
        /\ result' \in {Error("crc"), <<"garbage">>}
     \/ /\ ~LengthOutOfBounds
        /\ result' = Checked(SubSeq(Buffer, 1, Buffer[1]))
  /\ UNCHANGED <<command, wire, flipped, heard, reply>>

Return ==
  /\ phase = "received" /\ phase' = "idle"
  /\ command' = <<>> /\ wire' = <<>> /\ flipped' = {}
  /\ heard' = Unheard /\ reply' = <<>> /\ result' = Error("none")

Next ==
  \/ \E c \in Command : Send(c)
  \/ Noise \/ ChipAnswers \/ Silence \/ HostReads \/ Return

Spec == Init /\ [][Next]_vars

-----------------------------------------------------------------------------
TypeOK ==
  /\ phase \in {"idle", "sending", "answering", "received"}
  /\ command \in Command \cup {<<>>}
  /\ Len(wire) <= BUFFSIZE_NI2C
  /\ \A n \in DOMAIN wire : wire[n] \in 0..255
  /\ flipped \subseteq 0..8 * Len(wire) - 1
  /\ result[1] \in {"ok", "error", "garbage"}

\* The chip carries out the command that was meant, with its zone, word, size,
\* mode and CRC, or none: no flipped bits turn a command into another one.
HeardAsMeant == heard = Unheard \/ heard = Meant(command)

\* What the caller gets out of the bytes of the reply.
Expected ==
  CASE command[1] \in {"write", "nonce", "lock"} -> Ok(<<>>)
    [] command[1] = "serial" -> Ok(SubSeq(reply, 1, 4) \o SubSeq(reply, 9, 13))
    [] OTHER -> Ok(reply)

\* An exchange without noise gives the caller the contents the chip was asked
\* for: both CRCs agree with the polynomial, the fields with the data sheet.
\* For one command it does not: op_dev_rev_recv shifts the first byte of the
\* revision out and a zero in, so of that answer only the command is promised.
QuietExchange ==
  phase = "received" /\ Len(wire) # BUFFSIZE_NI2C /\ command \notin Noisy =>
    /\ heard = Meant(command)
    /\ reply = Contents(heard) /\ command # <<"devrev">> => result = Expected

\* An answer has come, and its first byte is the length that was sent.
LengthArrived == Len(wire) # BUFFSIZE_NI2C /\ wire[1] = Len(wire)

\* Flipped bits never make an answer out of something that is none: an accepted
\* packet is the undamaged reply of the chip to what was meant.  Only when the
\* length has arrived: one flip makes 7 bytes 5, and then two bytes of data can
\* pass for the CRC.
DamageIsNoticed ==
  phase = "received" /\ result[1] # "error" /\ LengthArrived =>
    /\ flipped = {} /\ heard = Meant(command)
    /\ result[1] = "ok"
=============================================================================
