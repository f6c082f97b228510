---------------------------- MODULE ChipService ----------------------------
(***************************************************************************)
(* What the library promises of a call, whatever the bus loses and         *)
(* whenever the chip falls asleep: a call returns ATSHA_ERR_OK only with   *)
(* the answer to its own request, and after its change of the memory; the  *)
(* memory changes only as the pending call asks.  A call that fails        *)
(* promises nothing: its change may have been made or not.                 *)
(***************************************************************************)
EXTENDS Api

CONSTANTS Requests, NoCall, NoAnswer

VARIABLES
  pending,   \* the call in progress, or NoCall
  answer,    \* the answer of the last call if it was OK, or NoAnswer
  mem,       \* the words of the chip
  locked     \* the zones of the chip that are locked

vars == <<pending, answer, mem, locked>>

Begin(call) ==
  /\ pending = NoCall
  /\ pending' = call
  /\ answer' = NoAnswer
  /\ UNCHANGED <<mem, locked>>

\* A call with invalid input does not get as far as the chip.
Reject ==
  /\ pending = NoCall
  /\ answer' = NoAnswer
  /\ UNCHANGED <<pending, mem, locked>>

\* The chip carries out a command of the pending call.
Change ==
  /\ pending # NoCall
  /\ \E i \in DOMAIN pending :
       \/ /\ pending[i][1] = "write"
          /\ mem' = [mem EXCEPT ![pending[i][2]] = pending[i][3]]
          /\ UNCHANGED locked
       \/ /\ pending[i][1] = "lock"
          /\ locked' = locked \cup {pending[i][2]}
          /\ UNCHANGED mem
  /\ UNCHANGED <<pending, answer>>

Return ==
  /\ pending # NoCall
  /\ pending' = NoCall
  /\ answer' # NoAnswer => Satisfies(pending, answer', mem, locked)
  /\ UNCHANGED <<mem, locked>>

Next == Reject \/ Change \/ Return \/ \E call \in Requests : Begin(call)

Init == pending = NoCall /\ answer = NoAnswer

Spec == Init /\ [][Next]_vars
=============================================================================
