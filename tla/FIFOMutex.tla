----------------------------- MODULE FIFOMutex ------------------------------
(***************************************************************************)
(* What the per-identifier lock of internal/runs promises to the runs that *)
(* ask for it: they stand in a line in the order in which they asked, the  *)
(* one at the front and no other may go inside, anyone who is not inside   *)
(* may give up, and whoever leaves gives the front to the next in line.    *)
(* Nothing is promised here about when: the code calls its lock            *)
(* "best-effort".                                                          *)
(***************************************************************************)
EXTENDS Sequences, SequencesExt

CONSTANT Callers

VARIABLES line,    \* the callers in line, in the order they asked
          inside   \* the callers that own the lock

vars == <<line, inside>>

Init == line = <<>> /\ inside = {}

Waiting(p) == /\ \E i \in 1..Len(line) : line[i] = p
              /\ p \notin inside

Join(p) ==
  /\ \A i \in 1..Len(line) : line[i] # p
  /\ line' = Append(line, p)
  /\ UNCHANGED inside

Enter(p) ==
  /\ Waiting(p)
  /\ Head(line) = p
  /\ inside = {}
  /\ inside' = {p}
  /\ UNCHANGED line

GiveUp(p) ==
  /\ Waiting(p)
  /\ \E i \in 1..Len(line) : line[i] = p /\ line' = RemoveAt(line, i)
  /\ UNCHANGED inside

Exit(p) ==
  /\ inside = {p}
  /\ line # <<>>
  /\ Head(line) = p
  /\ line' = Tail(line)
  /\ inside' = {}

Next == \E p \in Callers : Join(p) \/ Enter(p) \/ GiveUp(p) \/ Exit(p)

Spec == Init /\ [][Next]_vars
=============================================================================
