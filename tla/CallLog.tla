------------------------------ MODULE CallLog ------------------------------
(***************************************************************************)
(* What the journal of a run promises about calls that act on the machine, *)
(* over all its sessions: a call acts at most once, only while it is on    *)
(* record, and its record is never lost again.                             *)
(***************************************************************************)
VARIABLES
  recorded,  \* numbers of the calls that can be read from the file
  acts       \* what acted: the number of the call, and in which session

vars == <<recorded, acts>>

Acted == {act.seq : act \in acts}

Init == recorded = {} /\ acts = {}

(* A new number comes on record.                                           *)
Enter ==
  /\ \E n \in recorded' \ recorded : recorded' = recorded \cup {n}
  /\ acts' = acts

Act ==
  /\ \E act \in acts' \ acts :
       act.seq \in recorded \ Acted /\ acts' = acts \cup {act}
  /\ recorded' = recorded

(* A record that was cut short is spoilt by the next one; nobody had acted *)
(* on it.                                                                  *)
Lose ==
  /\ \E n \in recorded \ Acted : recorded' = recorded \ {n}
  /\ acts' = acts

Next == Enter \/ Act \/ Lose

Spec == Init /\ [][Next]_vars
=============================================================================
