------------------------------ MODULE Sorting ------------------------------
(***************************************************************************)
(* What sort.Slice with the comparison < leaves in a slice of numbers.     *)
(* The slice is given by the function f of its elements: a sequence, or a  *)
(* Go map whose values were collected in no certain order.                 *)
(***************************************************************************)
EXTENDS Naturals, FiniteSets, Functions

\* How many elements are smaller than x.
Below(f, x) == Cardinality({k \in DOMAIN f : f[k] < x})

\* In ascending order the k-th element is the one that fewer than k elements are
\* smaller than, and k or more are smaller than or equal to.
Ascending(f) ==
    [k \in 1 .. Cardinality(DOMAIN f) |->
        CHOOSE x \in Range(f) : Below(f, x) < k /\ k <= Below(f, x + 1)]

=============================================================================
