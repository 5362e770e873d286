----------------------------- MODULE MCSourceSync ------------------------------
(* Instances of SourceSync for TLC. *)
EXTENDS SourceSync, TLC

CONSTANTS r1, r2, r3, i1, i2

Symmetry == Permutations({i1, i2})

\* Budgets: more than enough, and ones that end a run part-way.
Ample == {[pages |-> 5, records |-> 5]}
Short == {[pages |-> 5, records |-> 1]}
Tight == Ample \cup Short

\* Cursor values as text of fixed width, such as timestamps.
FixedWidth == [n \in 0..6 |-> <<n>>]

\* One sweep, oldest first.
Sorted == <<<<r1, r2>>>>
\* Two sweeps: the children of two parents, or two tools.
TwoSweeps == <<<<r1>>, <<r2>>>>

Increasing == r1 :> 1 @@ r2 :> 2
\* The second parent's child is older than the first parent's.
Decreasing == r1 :> 2 @@ r2 :> 1
================================================================================
