----------------------------- MODULE MCPackets -----------------------------
(***************************************************************************)
(* Instances of Packets for TLC: all operations with words at the borders  *)
(* of the zones and all slots; noise on one command of each length and     *)
(* answer.                                                                 *)
(***************************************************************************)
EXTENDS Packets

Data == Sample(7, 32)
Line == <<0, 255, 170, 1>>

Reads ==
  {<<"read", "slot", s, 32>> : s \in 0..15}
  \cup {<<"read", "conf", a, 4>> : a \in {0, 4, 21}}
  \cup {<<"read", "otp", a, 4>> : a \in {0, 2, 8, 15}}
Writes ==
  {<<"write", "slot", s, Data>> : s \in {0, 1, 15}}
  \cup {<<"write", "otp", a, Data>> : a \in {0, 8}}
  \cup {<<"write", "conf", 4, Line>>, <<"write", "otp", 15, Line>>}
Digests ==
  {<<"nonce", Data>>}
  \cup {<<"hmac", s, b>> : s \in {0, 15}, b \in BOOLEAN}
  \cup {<<"mac", s, Data, b>> : s \in {0, 15}, b \in BOOLEAN}
Locks == {<<"lock", z, <<18, 52>> >> : z \in {"conf", "data"}}
Commands == Reads \cup Writes \cup Digests \cup Locks
            \cup {<<"devrev">>, <<"random">>, <<"serial">>}

NoisyCommands ==
  {<<"read", "conf", 4, 4>>, <<"write", "conf", 4, Line>>, <<"nonce", Data>>,
   <<"hmac", 0, TRUE>>, <<"lock", "conf", <<18, 52>> >>, <<"serial">>}

\* Three in a status, two in a word or in a command without data.
Flips(length) == IF length = 4 THEN 3 ELSE IF length <= 7 THEN 2 ELSE 1
=============================================================================
