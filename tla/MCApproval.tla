---------------------------- MODULE MCApproval ----------------------------
(* Two asks of one run, or of two, with one correlation or two. *)
EXTENDS ApprovalRendezvous, TLC

CONSTANTS a1, a2, r1, r2, c1, p1, p2

Shape(r, c, p, k) == [run |-> r, corr |-> c, prop |-> p, kind |-> k]
First(k) == Shape(r1, c1, p1, k)

\* The second ask repeats the first, differs in content only, or belongs to
\* another run.
MCShapes ==
    {(a1 :> First(k)) @@ (a2 :> s) : k \in {"diff"}, s \in {First("diff"), Shape(r1, c1, p2, "diff")}}
      \cup {(a1 :> First("diff")) @@ (a2 :> Shape(r2, c1, p2, "answers"))}
      \cup {(a1 :> First("plain")) @@ (a2 :> First("plain"))}

TwoAsks == \A a \in Ask : ask[a].pc # "idle"
TwoHands == \A h \in Handler : hand[h].pc # "idle"

\* At most two of: two asks, two decisions at once, a changed file, an end; a
\* second change of the file is for two decisions on one ask.
Focus ==
    /\ Cardinality({x \in {<<1, TwoAsks>>, <<2, TwoHands>>, <<3, file > 0>>,
                           <<4, ends > 0>>} : x[2]}) <= 2
    /\ file > 1 => ~TwoAsks /\ ends = 0

Symmetry == Permutations(Handler)
===========================================================================
