-------------------------------- MODULE Chip --------------------------------
(***************************************************************************)
(* The ATSHA204 as the I2C master sees it (external: devdoc/ holds its     *)
(* data sheet).  The volatile part of a chip is a record:                  *)
(*   mode  awake, idle or asleep; only an awake chip hears commands        *)
(*   key   the challenge in TempKey, or NoKey                              *)
(*   out   the answer waiting in the output buffer, or Nothing             *)
(*   age   time since the wake-up, in waits of ATSHA204_I2C_CMD_TOUT       *)
(* The persistent part is mem, a function from words to values, and        *)
(* locked, the set of the zones that are locked for ever.                  *)
(*                                                                         *)
(* A word is <<zone, address>> with zone "conf", "otp" or "slot".  A       *)
(* command and an answer are tuples headed by their kind.                  *)
(***************************************************************************)
EXTENDS Naturals, Sequences

CONSTANTS
  NoKey,      \* TempKey is not valid
  WD_MIN,     \* the watchdog may put an awake chip to sleep at this age
  WD_MAX      \* and has done so at this age

ASSUME ChipAssumption ==
  /\ WD_MIN \in Nat \ {0} /\ WD_MAX \in Nat /\ WD_MIN <= WD_MAX

Nothing == <<>>
Status(code) == <<"status", code>>

Asleep == [mode |-> "asleep", key |-> NoKey, out |-> Nothing, age |-> 0]

\* The chips that c may be after a wait: the watchdog is set by the wake-up,
\* no command resets it, and it drops TempKey and the pending answer.
AfterWait(c) ==
  IF c.mode # "awake" THEN {c}
  ELSE {d \in {Asleep, [c EXCEPT !.age = @ + 1]} :
          \/ d = Asleep /\ c.age + 1 >= WD_MIN
          \/ d # Asleep /\ c.age + 1 < WD_MAX}

\* The wake pulse.  An awake chip does not notice it; idle keeps TempKey.
WakePulse(c) ==
  IF c.mode = "awake" THEN c
  ELSE [c EXCEPT !.mode = "awake", !.out = Status("wake"), !.age = 0]

\* The idle word address, heard by an awake chip only.
IdleWord(c) ==
  IF c.mode # "awake" THEN c
  ELSE [c EXCEPT !.mode = "idle", !.out = Nothing, !.age = 0]

Readable(word, locked) ==
  \/ word[1] = "conf"
  \/ word[1] = "otp" /\ "data" \in locked

Writable(word, locked) ==
  /\ "data" \notin locked
  /\ word[1] = "conf" <=> "conf" \notin locked

Lockable(zone, locked) ==
  /\ zone \notin locked
  /\ zone = "data" => "conf" \in locked

\* Can the chip carry out the command?
Accepts(cmd, key, locked) ==
  CASE cmd[1] = "hmac"  -> key # NoKey
    [] cmd[1] = "read"  -> Readable(cmd[2], locked)
    [] cmd[1] = "write" -> Writable(cmd[2], locked)
    [] cmd[1] = "lock"  -> Lockable(cmd[2], locked)
    [] OTHER            -> TRUE

\* The answer to a command the chip has carried out.
AnswerTo(cmd, key, mem) ==
  CASE cmd[1] = "hmac" -> <<"hmac", cmd[2], key>>
    [] cmd[1] = "mac"  -> <<"mac", cmd[2], cmd[3]>>
    [] cmd[1] = "read" -> <<"data", mem[cmd[2]]>>
    [] cmd[1] \in {"random", "devrev", "serial"} -> <<cmd[1]>>
    [] OTHER           -> Status("success")

\* What is left of the memory and of the locks.
MemAfter(cmd, mem) ==
  IF cmd[1] = "write" THEN [mem EXCEPT ![cmd[2]] = cmd[3]] ELSE mem
LockedAfter(cmd, locked) ==
  IF cmd[1] = "lock" THEN locked \cup {cmd[2]} ELSE locked

\* The chip with the answer to a command: every command but Nonce drops
\* TempKey, carried out or not.
Answering(c, cmd, mem, locked) ==
  [c EXCEPT
     !.key = IF cmd[1] = "nonce" THEN cmd[2] ELSE NoKey,
     !.out = IF Accepts(cmd, c.key, locked) THEN AnswerTo(cmd, c.key, mem)
             ELSE Status("exec")]
=============================================================================
