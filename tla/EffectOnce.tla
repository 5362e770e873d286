------------------------------- MODULE EffectOnce ------------------------------
(***************************************************************************)
(* What governed write-back promises its callers: the source takes the     *)
(* change of at most one change set per idempotency key, once, and only    *)
(* from the version the change was prepared against; and a change is       *)
(* acknowledged only after the source took it.                             *)
(***************************************************************************)
EXTENDS Naturals

CONSTANTS ChangeSets, Keys, KeyOf, BaseOf

VARIABLES
    version,       \* source version
    taken,         \* change sets the source took, per key
    acknowledged   \* change sets the durable record says are applied

vars == <<version, taken, acknowledged>>

Init ==
    /\ version = 0
    /\ taken = [k \in Keys |-> {}]
    /\ acknowledged = {}

Take(cs) ==
    /\ version = BaseOf[cs]
    /\ taken[KeyOf[cs]] = {}
    /\ version' = version + 1
    /\ taken' = [taken EXCEPT ![KeyOf[cs]] = {cs}]
    /\ UNCHANGED acknowledged

Acknowledge(cs) ==
    /\ cs \in taken[KeyOf[cs]]
    /\ acknowledged' = acknowledged \cup {cs}
    /\ UNCHANGED <<version, taken>>

OtherWrite ==
    /\ version' = version + 1
    /\ UNCHANGED <<taken, acknowledged>>

Next ==
    \/ \E cs \in ChangeSets : Take(cs) \/ Acknowledge(cs)
    \/ OtherWrite

Spec == Init /\ [][Next]_vars
================================================================================
