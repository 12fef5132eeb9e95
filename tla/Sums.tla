--------------------------------- MODULE Sums ---------------------------------
(***************************************************************************)
(* Sums over finite sets, in closed form: the fold of the community        *)
(* modules computes them too, but only what has a closed form can be       *)
(* reasoned about for every input.                                         *)
(***************************************************************************)
EXTENDS Naturals, FiniteSets

\* The sum of f over a finite set, as the number of the units it is made of.
Units(f, S) == UNION {{x} \X (1 .. f[x]) : x \in S}
Total(f, S) == Cardinality(Units(f, S))
=============================================================================
