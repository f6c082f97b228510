-------------------------------- MODULE Api --------------------------------
(***************************************************************************)
(* The functions of api.c that talk to the chip, each as the sequence of   *)
(* chip commands it sends between one wake() and one idle().               *)
(***************************************************************************)
EXTENDS Naturals, Sequences

CONSTANTS
  ATSHA204_MAX_SLOT_NUMBER,
  Slot, ConfAddr, OtpAddr,   \* slot numbers and addresses callers ask for
  Challenge, Value           \* 32 byte challenges, contents of a word

ASSUME ApiAssumption ==
  ATSHA204_MAX_SLOT_NUMBER \in Nat /\ Slot \subseteq Nat

Word == ({"slot"} \X Slot) \cup ({"conf"} \X ConfAddr) \cup ({"otp"} \X OtpAddr)

DevRev == << <<"devrev">> >>
Random == << <<"random">> >>

RawSlotRead(slot)         == << <<"read", <<"slot", slot>> >> >>
RawSlotWrite(slot, value) == << <<"write", <<"slot", slot>>, value>> >>

\* Mutant: the challenge that is already in TempKey is taken.
ResponseToOldChallenge(slot, challenge) == << <<"hmac", slot>> >>

\* The challenge goes to TempKey, and HMAC answers for what is in TempKey.
LowChallengeResponse(slot, challenge) ==
  << <<"nonce", challenge>>, <<"hmac", slot>> >>
LowChallengeResponseMac(slot, challenge) == << <<"mac", slot, challenge>> >>

\* A read of the first 32 bytes of the configuration zone, of which it keeps the
\* nine of the serial number: no word of four bytes, and never changed.
ChipSerialNumber == << <<"serial">> >>

RawConfRead(addr)         == << <<"read", <<"conf", addr>> >> >>
RawConfWrite(addr, value) == << <<"write", <<"conf", addr>>, value>> >>
RawOtpRead(addr)          == << <<"read", <<"otp", addr>> >> >>
RawOtpWrite(addr, value)  == << <<"write", <<"otp", addr>>, value>> >>
RawOtp32Write(addr, value) == << <<"write", <<"otp", addr>>, value>> >>
LockConfig == << <<"lock", "conf">> >>
LockData   == << <<"lock", "data">> >>

ApiCall ==
  {DevRev, Random, ChipSerialNumber, LockConfig, LockData}
  \cup {RawSlotRead(s) : s \in Slot}
  \cup {RawSlotWrite(s, v) : s \in Slot, v \in Value}
  \cup {LowChallengeResponse(s, c) : s \in Slot, c \in Challenge}
  \cup {LowChallengeResponseMac(s, c) : s \in Slot, c \in Challenge}
  \cup {RawConfRead(a) : a \in ConfAddr}
  \cup {RawConfWrite(a, v) : a \in ConfAddr, v \in Value}
  \cup {RawOtpRead(a) : a \in OtpAddr}
  \cup {RawOtpWrite(a, v) : a \in OtpAddr, v \in Value}
  \cup {RawOtp32Write(a, v) : a \in OtpAddr, v \in Value}

\* The early return of ATSHA_ERR_INVALID_INPUT.  All challenges here have 32
\* bytes, so that the check of their length never fails.
SlotTooBig(cmd) ==
  \/ cmd[1] \in {"hmac", "mac"} /\ cmd[2] > ATSHA204_MAX_SLOT_NUMBER
  \/ /\ cmd[1] \in {"read", "write"}
     /\ cmd[2][1] = "slot" /\ cmd[2][2] > ATSHA204_MAX_SLOT_NUMBER
InvalidInput(call) == \E i \in DOMAIN call : SlotTooBig(call[i])

\* What the caller may rely on when a call returns ATSHA_ERR_OK with this
\* answer: it is the answer to this very request, or the change is made.
Satisfies(call, answer, mem, locked) ==
  LET cmd == call[Len(call)] IN
  CASE cmd[1] = "hmac"  -> answer = <<"hmac", cmd[2], call[1][2]>>
    [] cmd[1] = "mac"   -> answer = <<"mac", cmd[2], cmd[3]>>
    [] cmd[1] = "read"  -> answer = <<"data", mem[cmd[2]]>>
    [] cmd[1] = "write" -> mem[cmd[2]] = cmd[3]
    [] cmd[1] = "lock"  -> cmd[2] \in locked
    [] OTHER            -> answer = <<cmd[1]>>
=============================================================================
