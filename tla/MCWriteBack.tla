------------------------------ MODULE MCWriteBack ------------------------------
(* Instances of WriteBack for TLC. *)
EXTENDS WriteBack, TLC

CONSTANTS cs1, cs2, k1, c1, c2, t1, t2

\* Two change sets reuse one idempotency key; the second was prepared against
\* the version the first one produces, so only the key stands between them.
ReusedKey == cs1 :> k1 @@ cs2 :> k1
Bases == cs1 :> 0 @@ cs2 :> 1

OneInstance == t1 :> c1 @@ t2 :> c1
================================================================================
