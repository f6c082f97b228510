----------------------------- MODULE SlotNumber -----------------------------
(***************************************************************************)
(* Which slot holds the current key (dnsmagic.c).  The keys of all devices *)
(* are numbered; a TXT record of the DNS says the number of the current    *)
(* one, a word of the OTP memory the number of the first key of the chip.  *)
(* The handle reads that word once and caches it.                          *)
(*                                                                         *)
(* A 32 bit word is a sequence of its four bytes, high byte first: that is *)
(* how OTP words are written down, and what shifts by whole bytes act on.  *)
(***************************************************************************)
EXTENDS Integers, Sequences

CONSTANTS
  OtpBytes,     \* the bytes that occur in the OTP word
  Record,       \* numbers that the TXT record may name
  DNS_ERR_CONST \* 255

ASSUME SlotNumberAssumption ==
  OtpBytes \subseteq 0..255 /\ Record \subseteq Nat /\ DNS_ERR_CONST = 255

VARIABLES
  otp,                \* the word in the chip
  record,             \* the number in the TXT record now
  key_origin,         \* handle->key_origin
  key_origin_cached,  \* handle->key_origin_cached
  slot,               \* what atsha_find_slot_number returned last, or none
  cause,              \* why: none, found, dns or otp (history)
  asked               \* the number that the DNS answered then (history)

slotVars == <<otp, record, key_origin, key_origin_cached, slot, cause, asked>>

-----------------------------------------------------------------------------
Zero == <<0, 0, 0, 0>>

\* w << 8 * n, in 32 bits, and w | byte for a word whose low byte is 0.
ShiftLeft(w, n) == [i \in 1..4 |-> IF i + n <= 4 THEN w[i + n] ELSE 0]
OrByte(w, byte) == [w EXCEPT ![4] = byte]

uint32_from_4_bytes(data) ==
  LET r1 == ShiftLeft(OrByte(Zero, data[1]), 3)
      r2 == ShiftLeft(OrByte(r1, data[2]), 2)
      r3 == ShiftLeft(OrByte(r2, data[3]), 1)
  IN  OrByte(r3, data[4])

\* (unsigned char)(offset - key_origin): the low bytes alone decide.
SlotOf(offset, origin) == (offset - origin[4]) % 256

\* Mutant: the number is not cast.
UncastKey == record

\* Mutant: a number that does not fit is cut to the largest that does.
SaturatedKey == IF record > 255 THEN 255 ELSE record

\* resolve_key casts the number of the record to an unsigned char.
ResolvedKey == record % 256

-----------------------------------------------------------------------------
SlotInit ==
  /\ otp \in [1..4 -> OtpBytes]
  /\ record \in Record
  /\ key_origin = Zero /\ key_origin_cached = FALSE
  /\ slot = -1 /\ cause = "none" /\ asked = 0

\* The key is changed for all devices.
RecordChanges ==
  /\ record' \in Record
  /\ UNCHANGED <<otp, key_origin, key_origin_cached, slot, cause, asked>>

\* libunbound fails in any of its steps, or there is no such record.
ResolveFails ==
  /\ slot' = DNS_ERR_CONST /\ cause' = "dns"
  /\ UNCHANGED <<otp, record, key_origin, key_origin_cached, asked>>

\* Mutant: the origin counts as cached before it was read.
OriginFailsCached ==
  /\ ~key_origin_cached
  /\ key_origin_cached' = TRUE
  /\ slot' = DNS_ERR_CONST /\ cause' = "otp"
  /\ asked' = ResolvedKey
  /\ UNCHANGED <<otp, record, key_origin>>

\* atsha_raw_otp_read fails; nothing is cached.
OriginFails ==
  /\ ~key_origin_cached
  /\ slot' = DNS_ERR_CONST /\ cause' = "otp"
  /\ asked' = ResolvedKey
  /\ UNCHANGED <<otp, record, key_origin, key_origin_cached>>

FindSlotNumber ==
  /\ key_origin' = IF key_origin_cached THEN key_origin ELSE uint32_from_4_bytes(otp)
  /\ key_origin_cached' = TRUE
  /\ slot' = SlotOf(ResolvedKey, key_origin')
  /\ cause' = "found" /\ asked' = ResolvedKey
  /\ UNCHANGED <<otp, record>>

\* atsha_close and a new handle, for the same chip.
Reopen ==
  /\ key_origin' = Zero /\ key_origin_cached' = FALSE
  /\ slot' = -1 /\ cause' = "none" /\ asked' = 0
  /\ UNCHANGED <<otp, record>>

SlotNext == RecordChanges \/ ResolveFails \/ OriginFails \/ FindSlotNumber \/ Reopen

SlotSpec == SlotInit /\ [][SlotNext]_slotVars

-----------------------------------------------------------------------------
\* The slot is the number of the key counted from the first key of the chip,
\* modulo 256: the shifts lose some bytes of the origin, none that matter, and
\* neither a failed lookup nor the cache makes a later slot a wrong one.
SlotIsRight ==
  cause = "found" => slot \in 0..255 /\ (slot + otp[4]) % 256 = asked
=============================================================================
