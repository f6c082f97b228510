------------------------ MODULE Authentication_proofs ------------------------
(***************************************************************************)
(* A lookup finds the right slot, and device and server the same one, for  *)
(* every origin of the keys, all numbers in the DNS and the database and   *)
(* every set of challenges.                                                *)
(***************************************************************************)
EXTENDS Authentication, TLAPS

-----------------------------------------------------------------------------
(* SlotNumber: the slot is right for every origin of the key set, every    *)
(* number in the DNS and every sequence of lookups.                        *)

LEMMA SlotNumberType ==
  /\ \A o \in OtpBytes : o \in 0..255
  /\ \A r \in Record : r % 256 \in 0..255
<1>1. \A o \in OtpBytes : o \in 0..255
  BY SlotNumberAssumption, Zenon
<1>2. \A n \in Nat : n % 256 \in 0..255
  OBVIOUS
<1>3. \A r \in Record : r \in Nat
  BY SlotNumberAssumption, Zenon
<1> QED BY <1>1, <1>2, <1>3, Zenon

\* The lossy shifts keep the low byte.
LEMMA LowByteKept ==
  ASSUME NEW data \in [1..4 -> 0..255]
  PROVE  uint32_from_4_bytes(data)[4] = data[4]
<1>1. \A w : DOMAIN w = 1..4 => \A b : OrByte(w, b)[4] = b
  BY DEF OrByte
<1>2. \A w, n : DOMAIN ShiftLeft(w, n) = 1..4
  BY DEF ShiftLeft
<1> QED BY <1>1, <1>2 DEF uint32_from_4_bytes

\* Subtraction modulo 256 is undone by addition.
LEMMA ModuloSlot ==
  ASSUME NEW a \in 0..255, NEW o \in 0..255
  PROVE  /\ (a - o) % 256 \in 0..255
         /\ (((a - o) % 256) + o) % 256 = a
<1>1. CASE a >= o
  <2>1. (a - o) % 256 = a - o
    BY <1>1
  <2> QED BY <1>1, <2>1
<1>2. CASE a < o
  <2>1. (a - o) % 256 = a - o + 256
    BY <1>2
  <2>2. (a + 256) % 256 = a
    OBVIOUS
  <2> QED BY <1>2, <2>1, <2>2
<1> QED BY <1>1, <1>2

\* What is cached is the origin as far as a slot number depends on it.
SlotInv ==
  /\ otp \in [1..4 -> 0..255]
  /\ record \in Record
  /\ key_origin_cached => key_origin[4] = otp[4]
  /\ SlotIsRight

LEMMA SlotStart == SlotInit => SlotInv
BY SlotNumberType DEF SlotInit, SlotInv, SlotIsRight

LEMMA SlotStep == SlotInv /\ [SlotNext]_slotVars => SlotInv'
<1> SUFFICES ASSUME SlotInv, [SlotNext]_slotVars PROVE SlotInv'
  OBVIOUS
<1>1. CASE RecordChanges
  BY <1>1 DEF RecordChanges, SlotInv, SlotIsRight
<1>2. CASE ResolveFails \/ OriginFails
  BY <1>2 DEF ResolveFails, OriginFails, SlotInv, SlotIsRight
<1>3. CASE FindSlotNumber
  <2>1. key_origin'[4] = otp[4]
    BY <1>3, LowByteKept DEF FindSlotNumber, SlotInv
  <2>2. asked' \in 0..255 /\ otp[4] \in 0..255
    BY <1>3, SlotNumberType DEF FindSlotNumber, SlotInv, ResolvedKey
  <2>3. slot' = (asked' - otp[4]) % 256
    BY <1>3, <2>1 DEF FindSlotNumber, SlotOf
  <2>4. slot' \in 0..255 /\ (slot' + otp[4]) % 256 = asked'
    <3>1. \A a, o \in 0..255 : /\ (a - o) % 256 \in 0..255
                              /\ (((a - o) % 256) + o) % 256 = a
      BY ModuloSlot
    <3>2. /\ (asked' - otp[4]) % 256 \in 0..255
          /\ (((asked' - otp[4]) % 256) + otp[4]) % 256 = asked'
      BY <2>2, <3>1, Zenon
    <3> QED BY <2>3, <3>2, Zenon
  <2> QED BY <1>3, <2>1, <2>4 DEF FindSlotNumber, SlotInv, SlotIsRight
<1>4. CASE Reopen
  BY <1>4 DEF Reopen, SlotInv, SlotIsRight
<1>5. CASE UNCHANGED slotVars
  BY <1>5 DEF slotVars, SlotInv, SlotIsRight
<1> QED BY <1>1, <1>2, <1>3, <1>4, <1>5 DEF SlotNext

\* Each slot number that atsha_find_slot_number works out is the number in the
\* DNS counted from the key origin of the chip, modulo 256.
THEOREM SlotNumberRight == SlotSpec => []SlotIsRight
<1>1. SlotInv => SlotIsRight
  BY DEF SlotInv
<1> QED BY <1>1, SlotStart, SlotStep, PTL DEF SlotSpec

-----------------------------------------------------------------------------
(* Arithmetic modulo 256                                                   *)

LEMMA Division ==
  ASSUME NEW k \in Int
  PROVE  /\ k % 256 \in 0..255 /\ k \div 256 \in Int
         /\ k = 256 * (k \div 256) + (k % 256)
OBVIOUS

LEMMA Remainder ==
  ASSUME NEW q \in Int, NEW r \in 0..255
  PROVE  (256 * q + r) % 256 = r
OBVIOUS

LEMMA SmallRemainder ==
  ASSUME NEW n \in 0..510
  PROVE  n % 256 = IF n < 256 THEN n ELSE n - 256
<1>1. CASE n < 256
  BY <1>1
<1>2. CASE n >= 256
  <2>1. n = 256 * 1 + (n - 256) /\ n - 256 \in 0..255
    BY <1>2
  <2> QED BY <1>2, <2>1, Remainder
<1> QED BY <1>1, <1>2

\* A number counted from the origin and back, and no other slot gives it.
LEMMA ModuloKey ==
  ASSUME NEW k \in Nat, NEW o \in 0..255
  PROVE  /\ (k - o) % 256 \in 0..255
         /\ (((k - o) % 256) + o) % 256 = k % 256
         /\ \A a \in 0..255 : (a + o) % 256 = k % 256 => a = (k - o) % 256
<1> DEFINE q == k \div 256
           r == k % 256
           s == IF r >= o THEN r - o ELSE r - o + 256
<1>1. k = 256 * q + r /\ q \in Int /\ r \in 0..255
  BY Division
<1> HIDE DEF q, r
<1>2. s \in 0..255
  BY <1>1
<1>3. (k - o) % 256 = s
  <2>1. CASE r >= o
    <3>1. k - o = 256 * q + (r - o)
      BY <1>1
    <3> QED BY <1>1, <1>2, <2>1, <3>1, Remainder
  <2>2. CASE r < o
    <3>1. k - o = 256 * (q - 1) + (r - o + 256) /\ q - 1 \in Int
      BY <1>1
    <3> QED BY <1>1, <1>2, <2>2, <3>1, Remainder
  <2> QED BY <1>1, <2>1, <2>2
<1>4. ASSUME NEW a \in 0..255 PROVE (a + o) % 256 = r <=> a = s
  <2>1. a + o \in 0..510
    OBVIOUS
  <2>2. (a + o) % 256 = IF a + o < 256 THEN a + o ELSE a + o - 256
    BY <2>1, SmallRemainder
  <2> QED BY <1>1, <2>2
<1> HIDE DEF s
<1>5. (s + o) % 256 = r
  BY <1>2, <1>4
<1> QED BY <1>2, <1>3, <1>4, <1>5 DEF r

-----------------------------------------------------------------------------
(* The device works out its slots as SlotNumber says.                      *)

LEMMA StepIsSlotStep == [Next]_vars => [SlotNext]_slotVars
BY DEF Next, vars, DnsChanges, ReopenHandle, ChallengeResponse, Hmac, KeyChanges,
       SendChallenge, Verify, SlotNext

\* A program with a kept handle and one that uses the Python binding both get
\* the slot of the number in the DNS.
THEOREM DeviceSlotIsRight == Spec => []SlotIsRight
<1>1. Init => SlotInit
  BY DEF Init
<1>2. SlotInv => SlotIsRight
  BY DEF SlotInv
<1> QED BY <1>1, <1>2, SlotStart, SlotStep, StepIsSlotStep, PTL DEF Spec

-----------------------------------------------------------------------------
(* As long as the number in the DNS and the number in the database agree   *)
(* modulo 256, a digest of the last challenge is one of the slot of both.  *)

SlotNow(k) == (k - otp[4]) % 256

CalmInv ==
  /\ key \in Record
  /\ calm => record % 256 = key % 256
  /\ challenge \in Challenge \cup {NoChallenge}
  /\ answer[1] = "digest" =>
       answer \in {"digest"} \X (0..ATSHA204_MAX_SLOT_NUMBER) \X Challenge
  /\ answer[1] = "digest" /\ answer[3] = challenge /\ calm =>
       answer[2] = SlotNow(key)
  /\ CalmIsAccepted

LEMMA NumberFacts ==
  ASSUME SlotInv, NEW k \in Record
  PROVE  k \in Nat /\ otp[4] \in 0..255
BY SlotNumberAssumption DEF SlotInv

\* The slot of a number, and no other, leads back to the number.
LEMMA SlotOfNumber ==
  ASSUME SlotInv, NEW k \in Record
  PROVE  /\ SlotNow(k) \in 0..255
         /\ (SlotNow(k) + otp[4]) % 256 = k % 256
         /\ \A a \in 0..255 : (a + otp[4]) % 256 = k % 256 => a = SlotNow(k)
<1>1. k \in Nat /\ otp[4] \in 0..255
  BY NumberFacts
<1> DEFINE slotOf(n, o) == (n - o) % 256
           back(s, o, n) == (s + o) % 256 = n % 256
<1>2. \A n \in Nat, o \in 0..255 :
        /\ slotOf(n, o) \in 0..255
        /\ back(slotOf(n, o), o, n)
        /\ \A a \in 0..255 : back(a, o, n) => a = slotOf(n, o)
  BY ModuloKey
<1>3. SlotNow(k) = slotOf(k, otp[4])
  BY DEF SlotNow
<1> HIDE DEF slotOf
<1>4. \A s : back(s, otp[4], k) <=> (s + otp[4]) % 256 = k % 256
  OBVIOUS
<1> HIDE DEF back
<1>5. /\ SlotNow(k) \in 0..255
      /\ back(SlotNow(k), otp[4], k)
      /\ \A a \in 0..255 : back(a, otp[4], k) => a = SlotNow(k)
  BY <1>1, <1>2, <1>3, Zenon
<1> QED BY <1>4, <1>5, Zenon

\* Two numbers that agree are in the same slot.
LEMMA SameSlot ==
  ASSUME SlotInv, NEW j \in Record, NEW k \in Record, j % 256 = k % 256
  PROVE  SlotNow(j) = SlotNow(k)
<1>1. /\ SlotNow(j) \in 0..255
      /\ (SlotNow(j) + otp[4]) % 256 = j % 256
  BY SlotOfNumber
<1>2. \A a \in 0..255 : (a + otp[4]) % 256 = k % 256 => a = SlotNow(k)
  BY SlotOfNumber
<1> QED BY <1>1, <1>2, Zenon

\* The cast of the number in the DNS does not change the slot.
LEMMA HmacSlot ==
  ASSUME SlotInv
  PROVE  SlotOf(ResolvedKey, uint32_from_4_bytes(otp)) = SlotNow(record)
<1> DEFINE r == record % 256
           o == otp[4]
           s == (r - o) % 256
<1>1. record \in Record /\ r \in 0..255 /\ o \in 0..255
  BY NumberFacts, SlotNumberType DEF SlotInv
<1>2. SlotOf(ResolvedKey, uint32_from_4_bytes(otp)) = s
  BY LowByteKept DEF SlotOf, ResolvedKey, SlotInv
<1>3. (s + o) % 256 = r => (s + otp[4]) % 256 = record % 256
  OBVIOUS
<1> HIDE DEF r, o
<1>4. s \in 0..255 /\ (s + o) % 256 = r
  BY <1>1, ModuloSlot
<1> HIDE DEF s
<1>5. s = SlotNow(record)
  BY <1>1, <1>3, <1>4, SlotOfNumber, Zenon
<1> QED BY <1>2, <1>5

\* The response is a digest only for a slot of the chip.
LEMMA ResponseFacts ==
  ASSUME NEW s \in 0..255, NEW c
  PROVE  /\ Response(s, c)[1] # "digest" => s > ATSHA204_MAX_SLOT_NUMBER
         /\ Response(s, c)[1] = "digest" =>
              /\ Response(s, c) = <<"digest", s, c>>
              /\ s \in 0..ATSHA204_MAX_SLOT_NUMBER
BY SlotNumberAssumption, AuthenticationAssumption DEF Response, Error, Digest

\* An answer of the device with the slot of the number in the DNS.
LEMMA AnswerKeepsCalm ==
  ASSUME SlotInv, CalmInv, NEW s \in 0..255, Answers(challenge, s),
         challenge # NoChallenge, UNCHANGED <<otp, record>>,
         s = DNS_ERR_CONST \/ s = SlotNow(record)
  PROVE  CalmInv'
<1>1. UNCHANGED <<key, challenge, calm, otp, record>> /\ verdict' = "none"
  BY DEF Answers
<1>2. CASE answer' = Error("communication")
  BY <1>1, <1>2 DEF CalmInv, CalmIsAccepted, Error
<1>3. CASE answer' = Response(s, challenge)
  <2>1. CASE answer'[1] # "digest"
    BY <1>1, <2>1 DEF CalmInv, CalmIsAccepted
  <2>2. CASE answer'[1] = "digest"
    <3>1. answer' = <<"digest", s, challenge>> /\ s \in 0..ATSHA204_MAX_SLOT_NUMBER
      BY <1>3, <2>2, ResponseFacts
    <3>2. s = SlotNow(record)
      BY <3>1, SlotNumberAssumption, AuthenticationAssumption
    <3>3. calm => s = SlotNow(key)
      BY <3>2, SameSlot DEF CalmInv, SlotInv
    <3>4. SlotNow(key)' = SlotNow(key)
      BY <1>1 DEF SlotNow
    <3> QED BY <1>1, <3>1, <3>3, <3>4 DEF CalmInv, CalmIsAccepted
  <2> QED BY <2>1, <2>2
<1> QED BY <1>2, <1>3 DEF Answers

LEMMA CalmStart == Init => CalmInv
BY DEF Init, CalmInv, CalmIsAccepted, Error

LEMMA CalmStep == SlotInv /\ SlotInv' /\ CalmInv /\ [Next]_vars => CalmInv'
<1> SUFFICES ASSUME SlotInv, SlotInv', CalmInv, [Next]_vars PROVE CalmInv'
  OBVIOUS
<1>0. record \in Record /\ key \in Record /\ record \in Nat /\ otp[4] \in 0..255
  BY NumberFacts DEF SlotInv, CalmInv
<1>1. CASE DnsChanges
  BY <1>1 DEF DnsChanges, RecordChanges, Agreed, CalmInv, CalmIsAccepted, SlotNow
<1>2. CASE ReopenHandle
  BY <1>2 DEF ReopenHandle, Reopen, clientVars, CalmInv, CalmIsAccepted, SlotNow
<1>3. CASE ChallengeResponse
  <2>1. CASE ResolveFails \/ OriginFails
    <3>1. slot' = DNS_ERR_CONST /\ UNCHANGED <<otp, record>>
      BY <2>1 DEF ResolveFails, OriginFails
    <3> QED BY <1>3, <3>1, AnswerKeepsCalm, SlotNumberAssumption DEF ChallengeResponse
  <2>2. CASE FindSlotNumber
    <3>1. /\ slot' \in 0..255 /\ UNCHANGED <<otp, record>>
          /\ (slot' + otp[4]) % 256 = record % 256
      BY <2>2 DEF FindSlotNumber, ResolvedKey, SlotInv, SlotIsRight
    <3>2. slot' = SlotNow(record)
      BY <1>0, <3>1, SlotOfNumber, Zenon
    <3> QED BY <1>3, <3>1, <3>2, AnswerKeepsCalm DEF ChallengeResponse
  <2> QED BY <1>3, <2>1, <2>2 DEF ChallengeResponse
<1>4. CASE Hmac
  <2> DEFINE found == SlotOf(ResolvedKey, uint32_from_4_bytes(otp))
  <2>1. found = SlotNow(record) /\ found \in 0..255
    BY <1>0, HmacSlot, SlotOfNumber
  <2> HIDE DEF found
  <2>2. UNCHANGED <<otp, record>>
    BY <1>4 DEF Hmac, Reopen
  <2>3. PICK s \in {found, DNS_ERR_CONST} : Answers(challenge, s)
    BY <1>4 DEF Hmac, found
  <2>4. s \in 0..255 /\ (s = DNS_ERR_CONST \/ s = SlotNow(record))
    BY <2>1, <2>3, SlotNumberAssumption
  <2> QED BY <1>4, <2>2, <2>3, <2>4, AnswerKeepsCalm DEF Hmac
<1>5. CASE KeyChanges
  <2>1. /\ UNCHANGED <<otp, record, challenge, answer, verdict>> /\ key' \in Record
        /\ calm' = (calm /\ record % 256 = key' % 256)
    BY <1>5 DEF KeyChanges, Agreed, slotVars
  <2>2. calm' => SlotNow(key) = (SlotNow(key))'
    <3>1. calm' => SlotNow(key) = SlotNow(key')
      BY <1>0, <2>1, SameSlot DEF CalmInv
    <3>2. (SlotNow(key))' = SlotNow(key')
      BY <2>1 DEF SlotNow
    <3> QED BY <3>1, <3>2
  <2> QED BY <2>1, <2>2 DEF CalmInv, CalmIsAccepted
<1>6. CASE SendChallenge
  BY <1>6 DEF SendChallenge, Agreed, slotVars, CalmInv, CalmIsAccepted
<1>7. CASE Verify
  <2>1. /\ UNCHANGED <<otp, record, key, challenge, answer, calm>>
        /\ answer[1] = "digest"
        /\ verdict' = "refused" => EmulateHmac(ServerSlot, challenge) # answer
    BY <1>7 DEF Verify, slotVars
  <2>2. SlotNow(key)' = SlotNow(key)
    BY <2>1 DEF SlotNow
  <2>3. ASSUME answer[3] = challenge, calm PROVE EmulateHmac(ServerSlot, challenge) = answer
    <3>1. /\ answer = <<"digest", answer[2], challenge>>
          /\ answer[2] \in 0..ATSHA204_MAX_SLOT_NUMBER
          /\ answer[2] = SlotNow(key)
      BY <2>1, <2>3 DEF CalmInv
    <3>2. Response(answer[2], challenge) = <<"digest", answer[2], challenge>>
      BY <3>1, SlotNumberAssumption, AuthenticationAssumption DEF Response, Digest
    <3> QED BY <3>1, <3>2 DEF EmulateHmac, ServerSlot, SlotNow
  <2> QED BY <2>1, <2>2, <2>3 DEF CalmInv, CalmIsAccepted
<1>8. CASE UNCHANGED vars
  BY <1>8 DEF vars, slotVars, clientVars, CalmInv, CalmIsAccepted, SlotNow
<1> QED
  BY <1>1, <1>2, <1>3, <1>4, <1>5, <1>6, <1>7, <1>8 DEF Next

LEMMA CalmInvariant == Spec => [](SlotInv /\ CalmInv)
<1>1. Init => SlotInit
  BY DEF Init
<1> QED BY <1>1, SlotStart, SlotStep, StepIsSlotStep, CalmStart, CalmStep, PTL DEF Spec

-----------------------------------------------------------------------------
(* Types.                                                                  *)

\* What is left of a word when the lossy shifts have put it together.
LEMMA WordTypes ==
  ASSUME NEW data \in [1..4 -> OtpBytes]
  PROVE  uint32_from_4_bytes(data) \in [1..4 -> OtpBytes \cup {0}]
<1> DEFINE Left == [1..4 -> OtpBytes \cup {0}]
<1>1. ASSUME NEW w \in Left, NEW i \in 1..4 PROVE OrByte(w, data[i]) \in Left
  BY DEF OrByte
<1>2. ASSUME NEW w \in Left, NEW n \in 1..3 PROVE ShiftLeft(w, n) \in Left
  BY DEF ShiftLeft
<1>3. Zero \in Left
  <2>1. Zero = [i \in 1..4 |-> 0]
    BY DEF Zero
  <2> QED BY <2>1
<1> HIDE DEF Left
<1> DEFINE r1 == ShiftLeft(OrByte(Zero, data[1]), 3)
           r2 == ShiftLeft(OrByte(r1, data[2]), 2)
           r3 == ShiftLeft(OrByte(r2, data[3]), 1)
<1>4. 1 \in 1..4 /\ 2 \in 1..4 /\ 3 \in 1..4 /\ 4 \in 1..4 /\ 1 \in 1..3 /\ 2 \in 1..3 /\ 3 \in 1..3
  OBVIOUS
<1>5. r1 \in Left
  BY <1>1, <1>2, <1>3, <1>4, Zenon
<1> HIDE DEF r1
<1>6. r2 \in Left
  BY <1>1, <1>2, <1>4, <1>5, Zenon
<1> HIDE DEF r2
<1>7. r3 \in Left
  BY <1>1, <1>2, <1>4, <1>6, Zenon
<1> HIDE DEF r3
<1>8. OrByte(r3, data[4]) \in Left
  BY <1>1, <1>4, <1>7, Zenon
<1> QED BY <1>8 DEF uint32_from_4_bytes, r1, r2, r3, Left

\* An answer of the device is an error or a digest for a slot of the chip.
LEMMA AnswerTypes ==
  ASSUME NEW c \in Challenge, NEW s \in 0..255, Answers(c, s)
  PROVE  \/ answer'[1] = "error"
         \/ answer' \in {"digest"} \X (0..ATSHA204_MAX_SLOT_NUMBER) \X Challenge
BY SlotNumberAssumption, AuthenticationAssumption DEF Answers, Response, Error, Digest

LEMMA TypesStart == Init => TypeOK
<1>1. Zero = [i \in 1..4 |-> 0]
  BY DEF Zero
<1>2. Init => key_origin \in [1..4 -> OtpBytes \cup {0}]
  BY <1>1 DEF Init, SlotInit
<1>3. -1 \in -1..255 /\ 0 \in 0..255
  OBVIOUS
<1>4. Init => slot \in -1..255 /\ asked \in 0..255
  BY <1>3 DEF Init, SlotInit
<1>5. Init => answer[1] = "error" /\ challenge = NoChallenge
  BY DEF Init, Error
<1> QED BY <1>2, <1>4, <1>5 DEF Init, SlotInit, TypeOK

LEMMA TypesStep == SlotInv /\ SlotInv' /\ TypeOK /\ [Next]_vars => TypeOK'
<1> SUFFICES ASSUME SlotInv, SlotInv', TypeOK, [Next]_vars PROVE TypeOK'
  OBVIOUS
<1>1. CASE DnsChanges
  BY <1>1 DEF DnsChanges, RecordChanges, TypeOK
<1>a. ASSUME Reopen
      PROVE  /\ key_origin' \in [1..4 -> OtpBytes \cup {0}] /\ key_origin_cached' \in BOOLEAN
             /\ slot' \in -1..255 /\ asked' \in 0..255 /\ cause' = "none"
             /\ UNCHANGED <<otp, record>>
  <2>1. Zero = [i \in 1..4 |-> 0]
    BY DEF Zero
  <2>2. key_origin' \in [1..4 -> OtpBytes \cup {0}]
    BY <1>a, <2>1 DEF Reopen
  <2>3. -1 \in -1..255 /\ 0 \in 0..255
    OBVIOUS
  <2> QED BY <1>a, <2>2, <2>3 DEF Reopen
<1>2. CASE ReopenHandle
  BY <1>2, <1>a DEF ReopenHandle, clientVars, TypeOK
<1>3. CASE ChallengeResponse
  <2>1. /\ asked' \in 0..255 /\ slot' \in 0..255 /\ cause' \in {"found", "dns", "otp"}
        /\ key_origin' \in [1..4 -> OtpBytes \cup {0}] /\ key_origin_cached' \in BOOLEAN
        /\ UNCHANGED <<otp, record>>
    <3>1. ResolvedKey \in 0..255
      BY SlotNumberType DEF ResolvedKey, SlotInv
    <3>2. CASE ResolveFails
      BY <3>2, SlotNumberAssumption DEF ResolveFails, TypeOK
    <3>3. CASE OriginFails
      BY <3>1, <3>3, SlotNumberAssumption DEF OriginFails, TypeOK
    <3>4. CASE FindSlotNumber
      <4>1. uint32_from_4_bytes(otp) \in [1..4 -> OtpBytes \cup {0}]
        BY WordTypes DEF TypeOK
      <4>2. slot' \in 0..255
        BY <3>4 DEF FindSlotNumber, SlotInv, SlotIsRight
      <4> QED BY <3>1, <3>4, <4>1, <4>2 DEF FindSlotNumber, TypeOK
    <3> QED BY <1>3, <3>2, <3>3, <3>4 DEF ChallengeResponse
  <2>2. Answers(challenge, slot') /\ challenge \in Challenge
    BY <1>3 DEF ChallengeResponse, TypeOK
  <2>3. \/ answer'[1] = "error"
        \/ answer' \in {"digest"} \X (0..ATSHA204_MAX_SLOT_NUMBER) \X Challenge
    BY <2>1, <2>2, AnswerTypes
  <2> QED BY <2>1, <2>2, <2>3 DEF Answers, TypeOK
<1>4. CASE Hmac
  <2>1. challenge \in Challenge /\ Reopen
    BY <1>4 DEF Hmac, TypeOK
  <2>2. PICK found \in {SlotOf(ResolvedKey, uint32_from_4_bytes(otp)), DNS_ERR_CONST} :
          Answers(challenge, found)
    BY <1>4 DEF Hmac
  <2>3. found \in 0..255
    <3>1. SlotNow(record) \in 0..255
      BY SlotOfNumber DEF SlotInv
    <3> QED BY <2>2, <3>1, HmacSlot, SlotNumberAssumption
  <2>4. \/ answer'[1] = "error"
        \/ answer' \in {"digest"} \X (0..ATSHA204_MAX_SLOT_NUMBER) \X Challenge
    BY <2>1, <2>2, <2>3, AnswerTypes
  <2> QED BY <1>a, <2>1, <2>2, <2>4 DEF Answers, TypeOK
<1>5. CASE KeyChanges
  BY <1>5 DEF KeyChanges, slotVars, TypeOK
<1>6. CASE SendChallenge
  <2>1. calm' \in BOOLEAN /\ challenge' \in Challenge /\ verdict' = "none"
    BY <1>6 DEF SendChallenge, Agreed
  <2>2. UNCHANGED <<slotVars, key, answer>>
    BY <1>6 DEF SendChallenge
  <2> QED BY <2>1, <2>2 DEF slotVars, TypeOK
<1>7. CASE Verify
  BY <1>7 DEF Verify, slotVars, TypeOK
<1>8. CASE UNCHANGED vars
  BY <1>8 DEF vars, slotVars, clientVars, TypeOK
<1> QED
  BY <1>1, <1>2, <1>3, <1>4, <1>5, <1>6, <1>7, <1>8 DEF Next

\* Whatever the DNS, the database and the chip say, a slot number fits its byte,
\* and a digest is one of a slot that the chip has.
THEOREM AuthenticationTypes == Spec => []TypeOK
BY CalmInvariant, TypesStart, TypesStep, PTL DEF Spec

-----------------------------------------------------------------------------
\* A device whose DNS agrees with the server's database is not refused.
THEOREM CalmAccepted == Spec => []CalmIsAccepted
<1>1. CalmInv => CalmIsAccepted
  BY DEF CalmInv
<1> QED BY <1>1, CalmInvariant, PTL

-----------------------------------------------------------------------------
(* The key that the DNS names is found when the chip has it.               *)

\* The difference of two numbers is that of their low bytes, if it is a slot.
LEMMA HeldSlot ==
  ASSUME NEW k \in Nat, NEW o \in 0..255, NEW s \in 0..255, k >= s, (k - s) % 256 = o
  PROVE  (k - o) % 256 = s
<1> DEFINE q == (k - s) \div 256
<1>1. k - s \in Int
  OBVIOUS
<1>2. k - s = 256 * q + o /\ q \in Int
  BY <1>1, Division
<1> HIDE DEF q
<1>3. k - o = 256 * q + s
  BY <1>2
<1> QED BY <1>2, <1>3, Remainder

\* The slot that the device works out is the one with the key.
LEMMA NamedSlot ==
  ASSUME SlotInv, NEW s \in 0..ATSHA204_MAX_SLOT_NUMBER, HoldsKey(s, record)
  PROVE  SlotNow(record) = s /\ s # DNS_ERR_CONST
<1>1. record \in Nat /\ otp[4] \in 0..255
  BY NumberFacts DEF SlotInv
<1>2. s \in 0..255 /\ s # DNS_ERR_CONST
  BY SlotNumberAssumption, AuthenticationAssumption
<1>3. record >= s /\ (record - s) % 256 = otp[4]
  BY DEF HoldsKey, Bytes
<1> DEFINE slotOf(n, o) == (n - o) % 256
<1>4. \A n \in Nat, o, a \in 0..255 : n >= a /\ (n - a) % 256 = o => slotOf(n, o) = a
  BY HeldSlot
<1>5. SlotNow(record) = slotOf(record, otp[4])
  BY DEF SlotNow
<1> HIDE DEF slotOf
<1> QED BY <1>1, <1>2, <1>3, <1>4, <1>5, Zenon

\* A device whose chip has the key that the DNS names answers the challenge with
\* it or reports a failure, for every origin and number of 32 bits.
THEOREM NamedKeyAnswered == Spec => AnswersWithNamedKey
<1> DEFINE Good == \A s \in 0..ATSHA204_MAX_SLOT_NUMBER : HoldsKey(s, record) =>
              answer' \in {Digest(s, challenge), Error("dns_get_key"),
                          Error("communication")}
<1>1. ASSUME SlotInv, SlotInv', ChallengeResponse \/ Hmac PROVE Good
  <2> SUFFICES ASSUME NEW s \in 0..ATSHA204_MAX_SLOT_NUMBER, HoldsKey(s, record)
               PROVE  answer' \in {Digest(s, challenge), Error("dns_get_key"),
                                  Error("communication")}
    OBVIOUS
  <2>1. SlotNow(record) = s /\ s # DNS_ERR_CONST
    BY <1>1, NamedSlot
  <2>2. PICK found \in {s, DNS_ERR_CONST} : Answers(challenge, found)
    <3>1. CASE ChallengeResponse
      <4>1. CASE ResolveFails \/ OriginFails
        BY <3>1, <4>1 DEF ChallengeResponse, ResolveFails, OriginFails
      <4>2. CASE FindSlotNumber
        <5>1. /\ slot' \in 0..255 /\ UNCHANGED otp
              /\ (slot' + otp[4]) % 256 = record % 256
          BY <1>1, <4>2 DEF FindSlotNumber, ResolvedKey, SlotInv, SlotIsRight
        <5>2. slot' = SlotNow(record)
          BY <1>1, <5>1, SlotOfNumber, Zenon DEF SlotInv
        <5> QED BY <2>1, <3>1, <5>2 DEF ChallengeResponse
      <4> QED BY <3>1, <4>1, <4>2 DEF ChallengeResponse
    <3>2. CASE Hmac
      BY <1>1, <2>1, <3>2, HmacSlot DEF Hmac
    <3> QED BY <1>1, <3>1, <3>2
  <2>3. ~(s > ATSHA204_MAX_SLOT_NUMBER)
    BY AuthenticationAssumption
  <2>4. Response(found, challenge) \in {Digest(s, challenge), Error("dns_get_key")}
    BY <2>1, <2>2, <2>3 DEF Response
  <2> QED BY <2>2, <2>4 DEF Answers
<1>2. SlotInv /\ SlotInv' /\ [Next]_vars => [ChallengeResponse \/ Hmac => Good]_vars
  BY <1>1
<1> QED BY <1>2, CalmInvariant, PTL DEF Spec, AnswersWithNamedKey
=============================================================================
