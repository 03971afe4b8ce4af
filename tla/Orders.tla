------------------------------- MODULE Orders -------------------------------
(***************************************************************************)
(* The order in which the loops of the code visit what they collect: the   *)
(* numbers of a set, and the spots of a list of lists.                     *)
(***************************************************************************)
EXTENDS Naturals, Sequences, FiniteSets

\* The place of n among the numbers of D; the entries of f by their places.
Place(D, n) == Cardinality({m \in D : m <= n})
InOrder(f) ==
  [k \in 1..Cardinality(DOMAIN f) |-> f[CHOOSE n \in DOMAIN f : Place(DOMAIN f, n) = k]]

\* The spots of a list of lists, the first list's first, and the place of one
\* among those of D.
Spots(lists) == UNION {{i} \X DOMAIN lists[i] : i \in DOMAIN lists}
Before(p, q) == p[1] < q[1] \/ (p[1] = q[1] /\ p[2] < q[2])
SpotPlace(D, p) == Cardinality({q \in D : q = p \/ Before(q, p)})
=============================================================================
