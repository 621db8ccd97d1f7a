------------------------------- MODULE MCProbes -------------------------------
(* Two applications, each with a server of its own, and two runs.          *)
EXTENDS Probes, TLC

CONSTANTS r1, r2, h1, h2, shop, wiki, l1, l2

MCAppOf == h1 :> shop @@ h2 :> wiki

\* An engineer may name the one's address.
MCGiven == {[host |-> h2, side |-> "supplied"]}

Symmetry == Permutations({r1, r2}) \cup Permutations({l1, l2})
=============================================================================
