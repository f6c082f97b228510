--------------------------- MODULE Authentication ---------------------------
(***************************************************************************)
(* A device proves itself with the current key.  The server sends a        *)
(* challenge; a program of the device has the chip digest it, in the slot  *)
(* that SlotNumber finds (atsha_challenge_response of api.c, by a handle   *)
(* it keeps or by hmac() of the Python binding, which opens one for each   *)
(* challenge); the server has an emulated chip digest it with the key that *)
(* its database holds (emulate_hmac()) and compares.  The DNS and the      *)
(* database are changed at different times, and an answer may come after   *)
(* the server has moved on to another challenge.                           *)
(*                                                                         *)
(* A digest is told by its slot and its challenge: the database holds the  *)
(* key that the slot of the device holds.                                  *)
(***************************************************************************)
EXTENDS SlotNumber

CONSTANTS
  Challenge, NoChallenge,
  ATSHA204_MAX_SLOT_NUMBER    \* 15

ASSUME AuthenticationAssumption ==
  /\ NoChallenge \notin Challenge
  /\ ATSHA204_MAX_SLOT_NUMBER \in 0..254

VARIABLES
  key,        \* the number of the current key in the server's database
  challenge,  \* the challenge the server sent last, or NoChallenge
  answer,     \* what the device answered last: a digest or an error
  verdict,    \* of the server on that answer: none, accepted, refused
  calm        \* the DNS and the database have named the same key since the
              \* challenge was sent (history)

clientVars == <<key, challenge, answer, verdict, calm>>
vars == <<slotVars, clientVars>>

Error(code) == <<"error", code>>

Digest(slotNumber, c) == <<"digest", slotNumber, c>>

\* atsha_challenge_response and the check of atsha_low_challenge_response.
Response(slotNumber, c) ==
  IF slotNumber = DNS_ERR_CONST THEN Error("dns_get_key")
  ELSE IF slotNumber > ATSHA204_MAX_SLOT_NUMBER THEN Error("invalid_input")
  ELSE Digest(slotNumber, c)

Agreed(r, k) == r % 256 = k % 256

-----------------------------------------------------------------------------
Init ==
  /\ SlotInit
  /\ key \in Record
  /\ challenge = NoChallenge /\ answer = Error("none")
  /\ verdict = "none" /\ calm = FALSE

(* The device                                                              *)

\* The DNS changes, or a handle is closed and another one opened.
DnsChanges ==
  /\ RecordChanges
  /\ calm' = (calm /\ Agreed(record', key))
  /\ UNCHANGED <<key, challenge, answer, verdict>>
ReopenHandle == Reopen /\ UNCHANGED clientVars

\* The answer to c, with the slot number that was found; the chip may fail.
Answers(c, slotNumber) ==
  /\ answer' \in {Response(slotNumber, c), Error("communication")}
  /\ verdict' = "none"
  /\ UNCHANGED <<key, challenge, calm>>

\* atsha_challenge_response with a handle that is kept.
ChallengeResponse ==
  /\ challenge # NoChallenge
  /\ ResolveFails \/ OriginFails \/ FindSlotNumber
  /\ Answers(challenge, slot')

\* hmac(): a handle of its own for one challenge.  It raises an exception
\* when atsha_open or the call fails, and closes the handle in any case.
Hmac ==
  /\ challenge # NoChallenge
  /\ Reopen
  /\ \E found \in {SlotOf(ResolvedKey, uint32_from_4_bytes(otp)), DNS_ERR_CONST} :
       Answers(challenge, found)

-----------------------------------------------------------------------------
(* The server                                                              *)

KeyChanges ==
  /\ key' \in Record
  /\ calm' = (calm /\ Agreed(record, key'))
  /\ UNCHANGED <<slotVars, challenge, answer, verdict>>

\* A challenge that the answer on its way does not answer.
SendChallenge ==
  /\ challenge' \in {c \in Challenge : answer[1] = "digest" => answer[3] # c}
  /\ calm' = Agreed(record, key)
  /\ verdict' = "none"
  /\ UNCHANGED <<slotVars, key, answer>>

\* The slot in which the server has the key of this device, in the unsigned
\* char that emulate_hmac() takes.
ServerSlot == (key - otp[4]) % 256

\* emulate_hmac(): the digest of the slot that the server opens its emulation
\* with, by the code that the device runs (a server does not ask the DNS).
EmulateHmac(slot_id, c) == Response(slot_id, c)

\* The last answer of the device is compared with the server's own.
Verify ==
  /\ challenge # NoChallenge /\ answer[1] = "digest" /\ verdict = "none"
  /\ verdict' = IF EmulateHmac(ServerSlot, challenge) = answer
                THEN "accepted" ELSE "refused"
  /\ UNCHANGED <<slotVars, key, challenge, answer, calm>>

Next ==
  \/ DnsChanges \/ ReopenHandle \/ ChallengeResponse \/ Hmac
  \/ KeyChanges \/ SendChallenge \/ Verify

Spec == Init /\ [][Next]_vars

-----------------------------------------------------------------------------
TypeOK ==
  /\ otp \in [1..4 -> OtpBytes] /\ {record, key} \subseteq Record
  /\ key_origin \in [1..4 -> OtpBytes \cup {0}] /\ key_origin_cached \in BOOLEAN
  /\ slot \in -1..255 /\ asked \in 0..255
  /\ cause \in {"none", "found", "dns", "otp"}
  /\ challenge \in Challenge \cup {NoChallenge}
  /\ \/ answer[1] = "error"
     \/ answer \in {"digest"} \X (0..ATSHA204_MAX_SLOT_NUMBER) \X Challenge
  /\ verdict \in {"none", "accepted", "refused"} /\ calm \in BOOLEAN

\* The four bytes of a number of 32 bits, as the OTP word has them.
Bytes(n) == <<n \div 16777216, (n \div 65536) % 256, (n \div 256) % 256, n % 256>>

\* Slot s of this chip has key number n: the whole number, nothing is cast.
HoldsKey(s, n) == n >= s /\ Bytes(n - s) = otp

\* A device whose chip has the key that the DNS names now answers the challenge
\* of now with that key, or reports that the DNS or the chip failed: neither a
\* cached origin, nor a lookup that failed before, nor the shifts and casts to a
\* byte lead it to the key of another slot or make it believe that it has none,
\* with a handle that is kept or one that is opened for the challenge.
AnswersWithNamedKey ==
  [][ChallengeResponse \/ Hmac =>
       \A s \in 0..ATSHA204_MAX_SLOT_NUMBER : HoldsKey(s, record) =>
         answer' \in {Digest(s, challenge), Error("dns_get_key"),
                     Error("communication")}]_vars

\* A device is not refused as long as the DNS and the database agree: the lossy
\* shifts, the cached origin and the casts of the two sides lead to one slot.
CalmIsAccepted ==
  verdict = "refused" /\ answer[3] = challenge => ~calm
=============================================================================
