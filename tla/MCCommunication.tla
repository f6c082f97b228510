-------------------------- MODULE MCCommunication --------------------------
(***************************************************************************)
(* Instances of Communication for TLC.                                     *)
(***************************************************************************)
EXTENDS Communication, TLC

CONSTANTS c1, c2, v1, v2

\* Calls that the chip answers in every state of its locks.
AnswerableRequests ==
  {LowChallengeResponse(0, c) : c \in Challenge} \cup
  {LowChallengeResponseMac(0, c1), RawConfRead(0)}

\* Challenge-responses with two challenges, and a word that is read, written
\* and locked.
MixedRequests ==
  {LowChallengeResponse(0, c) : c \in Challenge}
  \cup {RawConfRead(0), LockConfig} \cup {RawConfWrite(0, v) : v \in Value}

\* These, the other functions with other commands, and a call with a slot
\* number out of range.
AllRequests ==
  MixedRequests \cup
  {LowChallengeResponse(16, c) : c \in Challenge} \cup
  {LowChallengeResponseMac(0, c) : c \in Challenge} \cup
  {RawOtp32Write(0, v) : v \in Value} \cup
  {RawOtpRead(0), LockData, Random}

\* AllRequests treats all challenges and all values alike.
Symmetry == Permutations(Challenge) \cup Permutations(Value)
=============================================================================
