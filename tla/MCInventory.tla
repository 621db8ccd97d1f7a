---------------------------- MODULE MCInventory ----------------------------
(* Instances of the inventory: records, their places and their names.      *)
EXTENDS Inventory, TLC

CONSTANTS r1, r2, a1, a2, p1, p2, p3, t1, t2, t3, t4

MCRun == {r1, r2}
MCApp == {a1, a2}
MCImported == {p1, p2, p3}
MCAgent == {t1, t2, t3, t4}

\* An application of two machines, and one of one.
MCPlaced == p1 :> a1 @@ p2 :> a1 @@ p3 :> a2

Named(s, x) == [short |-> s, suffix |-> x]

\* What the import calls them, and four ways the agents may: clearly; with two
\* placeholders that look alike to one server; with one name for two servers;
\* with one short name for two.
MCNamings ==
  LET placed(a, b, c) == p1 :> a @@ p2 :> b @@ p3 :> c
      found(a, b, c, d) == t1 :> a @@ t2 :> b @@ t3 :> c @@ t4 :> d
      a == Named("a", "prod")
      b == Named("b", "prod")
      c == Named("c", "prod")
      bare(n) == Named(n, "")
  IN  {placed(a, b, c) @@ found(bare("a"), bare("b"), c, bare("d")),
       placed(a, b, Named("a", "dr")) @@ found(bare("a"), bare("b"), c, bare("d")),
       placed(a, b, c) @@ found(bare("a"), bare("a"), b, c),
       placed(a, b, c) @@ found(Named("a", "dr"), Named("a", "qa"), b, c)}
=============================================================================
