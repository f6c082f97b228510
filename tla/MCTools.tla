------------------------------ MODULE MCTools ------------------------------
(***************************************************************************)
(* Instances of Tools for TLC: two complete files, one that lacks its last *)
(* OTP word and one like the first but for a key that is too short;        *)
(* addresses within range and beyond; numbers of MAC addresses below, at   *)
(* and above the limits.                                                   *)
(***************************************************************************)
EXTENDS Tools

Complete(name) == [n \in 1..33 |-> <<name, n>>]
FilesAtHand ==
  {Complete("a"), Complete("b"), [n \in 1..31 |-> <<"c", n>>],
   [Complete("a") EXCEPT ![3] = Bad]}

SimpleCommands ==
  {<<"dump-config">>, <<"dump-otp">>, <<"dump-data">>, <<"sn">>, <<"chipsn">>,
   <<"random">>, <<"devrev">>}
FileCommands == {"init", "test"} \X FilesAtHand
AllCommands ==
  SimpleCommands \cup FileCommands
  \cup {<<"set-address", n>> : n \in {1, 126, 300}}
  \cup {<<"mac", n>> : n \in {0, 1, 100, 255, 257}}

InitAlone == {<<"init", Complete("a")>>}
InitAndMac == InitAlone \cup {<<"mac", 200>>}

\* File b leaves room for 100 addresses.
SuffixOf(word) == IF word[1] = "b" THEN 16777215 - 100 ELSE 0

ConfAddrs == 0..21
Slots == 0..15
OtpAddrs == 0..15
=============================================================================
