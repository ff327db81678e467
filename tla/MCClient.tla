------------------------------ MODULE MCClient ------------------------------
(* Instances of Client for TLC. *)
EXTENDS Client, TLC

CONSTANTS a, b, d, e, k1, k2, k3

\* Three clients that log everything from info up, and one that logs nothing.
MixedLevels == [x \in {a, b, d} |-> "info"] @@ e :> "off"
OnlyInfo == a :> "info"
\* a and b are alike.
ClientSymmetry == Permutations(Calls) \cup Permutations({a, b})
=============================================================================
