------------------------------ MODULE SessionLife ------------------------------
(***************************************************************************)
(* What chat sessions promise: a session takes one copy of staging, is     *)
(* opened, and ends once. A save leaves staging alone; a rollback puts the *)
(* copy back in the same step in which the session ends. Everything else   *)
(* only adds to staging. Nothing here knows of requests, locks, tasks or   *)
(* restarts.                                                               *)
(***************************************************************************)
CONSTANTS Session

VARIABLES life,   \* Session -> "none", "active", "cancelling", "saved", "cancelled"
          copy,   \* Session -> what staging held when the copy was taken
          kept    \* what staging holds: a set of writes

vars == <<life, copy, kept>>

Open == {"active", "cancelling"}

Init ==
    /\ life = [s \in Session |-> "none"]
    /\ copy = [s \in Session |-> {}]
    /\ kept = {}

(* The copy is taken some time before the session is there.                *)
TakeCopy(s) ==
    /\ life[s] = "none"
    /\ copy' = [copy EXCEPT ![s] = kept]
    /\ UNCHANGED <<life, kept>>

(* A crash drops every copy that no session has.                           *)
DropCopies ==
    /\ copy' = [s \in Session |-> IF life[s] = "none" THEN {} ELSE copy[s]]
    /\ UNCHANGED <<life, kept>>

Begin(s) ==
    /\ life[s] = "none"
    /\ life' = [life EXCEPT ![s] = "active"]
    /\ UNCHANGED <<copy, kept>>

Write ==
    /\ kept \subseteq kept'
    /\ UNCHANGED <<life, copy>>

Stick(s) ==
    /\ life[s] \in Open
    /\ life' = [life EXCEPT ![s] = "cancelling"]
    /\ UNCHANGED <<copy, kept>>

Keep(s) ==
    /\ life[s] \in Open
    /\ life' = [life EXCEPT ![s] = "saved"]
    /\ copy' = [copy EXCEPT ![s] = {}]
    /\ UNCHANGED kept

RollBack(s) ==
    /\ life[s] \in Open
    /\ life' = [life EXCEPT ![s] = "cancelled"]
    /\ copy' = [copy EXCEPT ![s] = {}]
    /\ kept' = copy[s]

Next == \/ DropCopies \/ Write
        \/ \E s \in Session : \/ TakeCopy(s) \/ Begin(s) \/ Stick(s)
                              \/ Keep(s) \/ RollBack(s)

Spec == Init /\ [][Next]_vars
=============================================================================
