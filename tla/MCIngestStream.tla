----------------------------- MODULE MCIngestStream ----------------------------
(* Instances of IngestStream for TLC. *)
EXTENDS IngestStream, TLC

CONSTANTS g1, g2, p1, p2

TwoPagers == g1 :> p1 @@ g2 :> p2
================================================================================
