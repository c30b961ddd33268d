-------------------------- MODULE MCProposalApply --------------------------
(***************************************************************************)
(* ProposalApply on small instances.                                       *)
(***************************************************************************)
EXTENDS ProposalApply

CONSTANTS p1, p2, d1, d2, r1

Create(p, d)     == [kind |-> "create", path |-> p, old |-> p, data |-> d]
Modify(p, d)     == [kind |-> "modify", path |-> p, old |-> p, data |-> d]
Delete(p)        == [kind |-> "delete", path |-> p, old |-> p, data |-> Absent]
Rename(p, q, d)  == [kind |-> "rename", path |-> q, old |-> p, data |-> d]

\* Every kind of change, two of them in an order in which a stop between them
\* leaves the workspace mixed, and a rename with and without new content.
Every == {<<Modify(p1, d2), Create(p2, d2)>>, <<Delete(p1), Modify(p2, d2)>>,
          <<Rename(p1, p2, Absent)>>, <<Rename(p1, p2, d2)>>}

\* One proposal, for runs in which the files also change under it.
Mixed == {<<Modify(p1, d2), Create(p2, d2)>>}
============================================================================
