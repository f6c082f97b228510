---------------------------- MODULE Calls_proofs ----------------------------
(***************************************************************************)
(* The calls of the library and the chip, without any handle: what a call  *)
(* consists of, what a wait does to the chip, and what the chip answers to *)
(* the commands of a call.                                                 *)
(***************************************************************************)
EXTENDS Api, Chip, Integers, TLAPS

\* The commands that are a call by themselves.
Lone ==
  {<<"devrev">>, <<"random">>, <<"serial">>, <<"lock", "conf">>, <<"lock", "data">>}
  \cup {<<"mac", s, c>> : s \in Slot, c \in Challenge}
  \cup {<<"read", w>> : w \in Word}
  \cup {<<"write", w, v>> : w \in Word, v \in Value}

\* A call is one command, or a Nonce and an HMAC.
LEMMA CallShape ==
  ASSUME NEW r \in ApiCall
  PROVE  \/ \E c \in Lone : r = <<c>>
         \/ \E s \in Slot, c \in Challenge : r = LowChallengeResponse(s, c)
<1> USE ApiAssumption DEF Lone, Word
<1>1. CASE r \in {DevRev, Random, ChipSerialNumber, LockConfig, LockData}
  BY <1>1 DEF DevRev, Random, ChipSerialNumber, LockConfig, LockData
<1>2. CASE \E s \in Slot, v \in Value : r = RawSlotWrite(s, v)
  BY <1>2 DEF RawSlotWrite
<1>3. CASE \E s \in Slot : r = RawSlotRead(s)
  BY <1>3 DEF RawSlotRead
<1>4. CASE \E s \in Slot, c \in Challenge : r = LowChallengeResponseMac(s, c)
  BY <1>4 DEF LowChallengeResponseMac
<1>5. CASE \E a \in ConfAddr : r = RawConfRead(a)
  BY <1>5 DEF RawConfRead
<1>6. CASE \E a \in ConfAddr, v \in Value : r = RawConfWrite(a, v)
  BY <1>6 DEF RawConfWrite
<1>7. CASE \E a \in OtpAddr : r = RawOtpRead(a)
  BY <1>7 DEF RawOtpRead
<1>8. CASE \E a \in OtpAddr, v \in Value : r = RawOtpWrite(a, v) \/ r = RawOtp32Write(a, v)
  BY <1>8 DEF RawOtpWrite, RawOtp32Write
<1> HIDE ApiAssumption DEF Lone, Word
<1> QED
  BY <1>1, <1>2, <1>3, <1>4, <1>5, <1>6, <1>7, <1>8 DEF ApiCall

LEMMA CallFacts ==
  ASSUME NEW r \in ApiCall
  PROVE  1 \in DOMAIN r /\ Len(r) \in Nat /\ DOMAIN r = 1..Len(r)
<1>1. \A x : DOMAIN <<x>> = 1..1 /\ Len(<<x>>) = 1
  OBVIOUS
<1>2. \A x, y : DOMAIN <<x, y>> = 1..2 /\ Len(<<x, y>>) = 2
  OBVIOUS
<1> QED BY <1>1, <1>2, CallShape DEF LowChallengeResponse

\* The commands a call consists of.
LEMMA CommandShape ==
  ASSUME NEW r \in ApiCall, NEW s \in DOMAIN r
  PROVE  \/ r[s] \in {<<"devrev">>, <<"random">>, <<"serial">>}
         \/ r[s] \in {<<"lock", "conf">>, <<"lock", "data">>}
         \/ \E t \in Slot, h \in Challenge : r[s] = <<"mac", t, h>>
         \/ \E w \in Word : r[s] = <<"read", w>>
         \/ \E w \in Word, v \in Value : r[s] = <<"write", w, v>>
         \/ \E h \in Challenge : r[s] = <<"nonce", h>>
         \/ \E t \in Slot : r[s] = <<"hmac", t>>
<1> DEFINE x == r[s]
<1>1. CASE \E y \in Lone : r = <<y>>
  <2>1. PICK y \in Lone : r = <<y>>
    BY <1>1
  <2>2. x = y
    BY <2>1
  <2> HIDE DEF x
  <2> QED BY <2>2 DEF Lone, x
<1>2. CASE \E t \in Slot, h \in Challenge : r = LowChallengeResponse(t, h)
  BY <1>2 DEF LowChallengeResponse
<1> QED BY <1>1, <1>2, CallShape

-----------------------------------------------------------------------------
(* The chip's record, and what a wait can do to it.                        *)

IsChip(c) == DOMAIN c = {"mode", "key", "out", "age"}

LEMMA WaitFacts ==
  ASSUME NEW c, IsChip(c), NEW d \in AfterWait(c)
  PROVE  /\ IsChip(d)
         /\ d.key \in {c.key, NoKey}
         /\ d.out \in {c.out, Nothing}
         /\ d.key = c.key \/ d.out = Nothing
<1>1. CASE d = c
  BY <1>1
<1>2. CASE d = Asleep
  BY <1>2 DEF Asleep, IsChip
<1>3. CASE d = [c EXCEPT !.age = @ + 1]
  BY <1>3 DEF IsChip
<1> QED BY <1>1, <1>2, <1>3 DEF AfterWait

\* What may be in the output buffer that is no answer to any command.
Noise == {Nothing, Status("wake"), Status("comm"), Status("exec")}

\* Answer a is right for step s of call r, when TempKey is k and the memory m.
Right(r, s, k, a, m, l) ==
  /\ s = Len(r) => Satisfies(r, a, m, l)
  /\ s # Len(r) => a = Status("success") /\ k = r[1][2]

LEMMA AnsweringFields ==
  ASSUME NEW c, IsChip(c), NEW x, NEW m, NEW l
  PROVE  LET d == Answering(c, x, m, l) IN
         /\ IsChip(d)
         /\ d.key = IF x[1] = "nonce" THEN x[2] ELSE NoKey
         /\ d.out = IF Accepts(x, c.key, l) THEN AnswerTo(x, c.key, m) ELSE Status("exec")
BY DEF IsChip, Answering

\* The right answers, command by command.
LEMMA LoneRight ==
  ASSUME NEW x \in Lone, NEW m \in [Word -> Value], NEW l, NEW k,
         Accepts(x, k, l)
  PROVE  /\ Satisfies(<<x>>, AnswerTo(x, k, m), MemAfter(x, m), LockedAfter(x, l))
         /\ MemAfter(x, m) \in [Word -> Value]
<1> DEFINE r == <<x>>
<1>0. Len(r) = 1 /\ r[1] = x
  OBVIOUS
<1> HIDE DEF r
<1>1. CASE x \in {<<"devrev">>, <<"random">>, <<"serial">>}
  <2>1. x[1] \in {"devrev", "random", "serial"} /\ x = <<x[1]>>
    BY <1>1
  <2>2. AnswerTo(x, k, m) = <<x[1]>> /\ MemAfter(x, m) = m
    BY <2>1 DEF AnswerTo, MemAfter
  <2> QED BY <1>0, <2>1, <2>2 DEF Satisfies, r
<1>2. CASE x \in {<<"lock", "conf">>, <<"lock", "data">>}
  <2>1. x[1] = "lock"
    BY <1>2
  <2>2. MemAfter(x, m) = m /\ x[2] \in LockedAfter(x, l)
    BY <2>1 DEF MemAfter, LockedAfter
  <2> QED BY <1>0, <2>1, <2>2 DEF Satisfies, r
<1>3. CASE \E t \in Slot, h \in Challenge : x = <<"mac", t, h>>
  <2>1. x[1] = "mac"
    BY <1>3
  <2>2. MemAfter(x, m) = m /\ AnswerTo(x, k, m) = <<"mac", x[2], x[3]>>
    BY <2>1 DEF MemAfter, AnswerTo
  <2> QED BY <1>0, <2>1, <2>2 DEF Satisfies, r
<1>4. CASE \E w \in Word : x = <<"read", w>>
  <2>1. x[1] = "read"
    BY <1>4
  <2>2. MemAfter(x, m) = m /\ AnswerTo(x, k, m) = <<"data", m[x[2]]>>
    BY <2>1 DEF MemAfter, AnswerTo
  <2> QED BY <1>0, <2>1, <2>2 DEF Satisfies, r
<1>5. CASE \E w \in Word, v \in Value : x = <<"write", w, v>>
  <2>1. x[1] = "write" /\ x[2] \in Word /\ x[3] \in Value
    BY <1>5
  <2>2. /\ MemAfter(x, m) \in [Word -> Value]
        /\ MemAfter(x, m)[x[2]] = x[3]
    BY <2>1 DEF MemAfter
  <2> QED BY <1>0, <2>1, <2>2 DEF Satisfies, r
<1> QED BY <1>1, <1>2, <1>3, <1>4, <1>5 DEF Lone

\* The chip is sent step s of call r: its answer is right or a refusal.
LEMMA SendFacts ==
  ASSUME NEW r \in ApiCall, NEW s \in DOMAIN r,
         NEW m \in [Word -> Value], NEW l,
         NEW c, IsChip(c), s # 1 => c.key \in {NoKey, r[1][2]}
  PROVE  LET d  == Answering(c, r[s], m, l)
             ok == Accepts(r[s], c.key, l)
             m2 == IF ok THEN MemAfter(r[s], m) ELSE m
             l2 == IF ok THEN LockedAfter(r[s], l) ELSE l
         IN  /\ IsChip(d)
             /\ d.out \in Noise \/ Right(r, s, d.key, d.out, m2, l2)
             /\ s # 1 => d.key = NoKey
             /\ m2 \in [Word -> Value]
<1> DEFINE d == Answering(c, r[s], m, l)
<1>0. /\ IsChip(d)
      /\ d.key = IF r[s][1] = "nonce" THEN r[s][2] ELSE NoKey
      /\ d.out = IF Accepts(r[s], c.key, l) THEN AnswerTo(r[s], c.key, m)
                 ELSE Status("exec")
  BY AnsweringFields
<1>1. CASE \E x \in Lone : r = <<x>>
  <2>1. PICK x \in Lone : r = <<x>>
    BY <1>1
  <2>2. s = 1 /\ r[s] = x /\ Len(r) = 1
    BY <2>1
  <2> QED
    BY <1>0, <2>1, <2>2, LoneRight DEF Right, Noise
<1>2. CASE \E t \in Slot, h \in Challenge : r = LowChallengeResponse(t, h)
  <2>1. PICK t \in Slot, h \in Challenge : r = << <<"nonce", h>>, <<"hmac", t>> >>
    BY <1>2 DEF LowChallengeResponse
  <2>2. Len(r) = 2 /\ r[1] = <<"nonce", h>> /\ r[2] = <<"hmac", t>> /\ s \in {1, 2}
    BY <2>1
  <2>3. MemAfter(r[s], m) = m
    BY <2>2 DEF MemAfter
  <2>4. CASE s = 1
    <3>1. AnswerTo(r[s], c.key, m) = Status("success")
      BY <2>2, <2>4 DEF AnswerTo
    <3>2. Accepts(r[s], c.key, l)
      BY <2>2, <2>4 DEF Accepts
    <3> QED BY <1>0, <2>2, <2>3, <2>4, <3>1, <3>2 DEF Right
  <2>5. CASE s = 2
    <3>1. AnswerTo(r[s], c.key, m) = <<"hmac", t, c.key>>
      BY <2>2, <2>5 DEF AnswerTo
    <3>2. Accepts(r[s], c.key, l) => c.key = h
      BY <2>2, <2>5 DEF Accepts
    <3>3. \A mm, ll : Satisfies(r, <<"hmac", t, h>>, mm, ll)
      BY <2>2 DEF Satisfies
    <3> QED BY <1>0, <2>2, <2>3, <2>5, <3>1, <3>2, <3>3 DEF Right, Noise
  <2> QED BY <2>2, <2>4, <2>5
<1> QED BY <1>1, <1>2, CallShape
=============================================================================
