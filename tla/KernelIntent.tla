----------------------------- MODULE KernelIntent -----------------------------
(***************************************************************************)
(* What the outbox and its pump promise, per dedup_key: the key holds the  *)
(* last intent asked for, the kernel may confirm it, and only a confirmed  *)
(* intent lands.  Batches, versions, retries, crashes and full reconciles  *)
(* are all invisible here.                                                 *)
(***************************************************************************)
CONSTANTS
    Keys,     \* dedup_key values
    Desireds, \* what the kernel may be asked to hold
    NoIntent  \* before anything was asked for

VARIABLES
    intent,    \* the last desired state asked for under each key
    phase,     \* none, or the status of that intent: pending, done, failed
    confirmed  \* whether the kernel confirmed it

intentVars == <<intent, phase, confirmed>>

Init ==
    /\ intent = [k \in Keys |-> NoIntent]
    /\ phase = [k \in Keys |-> "none"]
    /\ confirmed = [k \in Keys |-> FALSE]

\* A new intent replaces the last one, whatever became of that.
Ask(k, d) ==
    /\ intent' = [intent EXCEPT ![k] = d]
    /\ phase' = [phase EXCEPT ![k] = "pending"]
    /\ confirmed' = [confirmed EXCEPT ![k] = FALSE]

Confirm(k) ==
    /\ phase[k] = "pending"
    /\ confirmed' = [confirmed EXCEPT ![k] = TRUE]
    /\ UNCHANGED <<intent, phase>>

Land(k) ==
    /\ phase[k] = "pending"
    /\ confirmed[k]
    /\ phase' = [phase EXCEPT ![k] = "done"]
    /\ UNCHANGED <<intent, confirmed>>

GiveUp(k) ==
    /\ phase[k] = "pending"
    /\ phase' = [phase EXCEPT ![k] = "failed"]
    /\ UNCHANGED <<intent, confirmed>>

Next ==
    \E k \in Keys :
        \/ \E d \in Desireds : Ask(k, d)
        \/ Confirm(k)
        \/ Land(k)
        \/ GiveUp(k)

Spec == Init /\ [][Next]_intentVars
===============================================================================
