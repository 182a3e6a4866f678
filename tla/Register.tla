------------------------------ MODULE Register ------------------------------
(***************************************************************************)
(* What the state file promises, without temporary files: a register that  *)
(* processes write whole values to.  A write takes effect once or not at   *)
(* all, and its process is told which.  A power loss may bring back a      *)
(* value that was overwritten since the last writeback, and no other.      *)
(***************************************************************************)
CONSTANTS Processes, Values, Empty

VARIABLES
    value,   \* what a reader sees, or Empty
    past,    \* overwritten values a power loss may bring back
    asked,   \* the value each process is writing, or Empty
    result   \* what became of the last write of each process

vars == <<value, past, asked, result>>

Results == {"none", "saved", "raised", "lost"}

Init ==
    /\ value = Empty
    /\ past = {}
    /\ asked = [p \in Processes |-> Empty]
    /\ result = [p \in Processes |-> "none"]

Ask(p, v) ==
    /\ asked[p] = Empty
    /\ asked' = [asked EXCEPT ![p] = v]
    /\ result' = [result EXCEPT ![p] = "none"]
    /\ UNCHANGED <<value, past>>

Take(p) ==
    /\ asked[p] # Empty
    /\ value' = asked[p]
    /\ past' = past \cup {value}
    /\ asked' = [asked EXCEPT ![p] = Empty]
    /\ result' = [result EXCEPT ![p] = "saved"]

\* The write raised, or its process was killed: no effect.
Refuse(p) ==
    /\ asked[p] # Empty
    /\ asked' = [asked EXCEPT ![p] = Empty]
    /\ \E r \in {"raised", "lost"} : result' = [result EXCEPT ![p] = r]
    /\ UNCHANGED <<value, past>>

Writeback ==
    /\ past' = {}
    /\ UNCHANGED <<value, asked, result>>

PowerLoss ==
    /\ value' \in past \cup {value}
    /\ past' = {}
    /\ asked' = [p \in Processes |-> Empty]
    /\ result' = [p \in Processes |->
                    IF asked[p] # Empty THEN "lost" ELSE result[p]]

\* The file is deleted.
Remove ==
    /\ value' = Empty
    /\ past' = past \cup {value}
    /\ UNCHANGED <<asked, result>>

Next ==
    \/ \E p \in Processes :
         \/ \E v \in Values : Ask(p, v)
         \/ Take(p)
         \/ Refuse(p)
    \/ Writeback
    \/ PowerLoss
    \/ Remove

Spec == Init /\ [][Next]_vars
=============================================================================
