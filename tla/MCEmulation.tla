---------------------------- MODULE MCEmulation ----------------------------
(***************************************************************************)
(* Instances of Emulation for TLC: complete files with and without the     *)
(* serial number, files cut short and files with one line too short.       *)
(***************************************************************************)
EXTENDS Emulation

CONSTANTS c1, c2

Lines(count) == [n \in 1..count |-> <<"line", n>>]
Files ==
  {Lines(n) : n \in {0, 15, 17, 18, 19, 31, 32, 33}}
  \cup {[Lines(33) EXCEPT ![n] = Bad] : n \in {1, 8, 17, 19, 32, 33}}

Slots == {0, 1, 7, 15, 16}
ConfAddrs == {0, 4}
OtpAddrs == {0, 2, 14, 15}

Digests ==
  {LowChallengeResponse(s, c) : s \in Slots, c \in {c1, c2}} \cup
  {LowChallengeResponseMac(s, c1) : s \in Slots}
Reads ==
  {RawSlotRead(s) : s \in Slots} \cup {RawOtpRead(a) : a \in OtpAddrs}
  \cup {RawConfRead(a) : a \in ConfAddrs} \cup {ChipSerialNumber}
AllRequests == Digests \cup Reads \cup {DevRev, Random, LockData}
=============================================================================
