------------------------ MODULE MCFleetCoordination ------------------------
(* Two nodes with one call at a time each, or one node alone. *)
EXTENDS FleetCoordination

CONSTANT s1

OnePerNode == [h \in Node |-> h]
AllAtNode1 == [h \in Handler |-> 1]

\* The ledger after node 1 claimed the role, took the scope and pushed.
LedBy1 == {[Role(1, "claimed", 1, 1, FALSE) EXCEPT !.at = 1],
           [Role(1, "granted", 1, 1, FALSE) EXCEPT !.at = 2]}
HeldBy1 == LedBy1 \cup {[Grant(1, s1, 1, 1, TRUE) EXCEPT !.at = 3, !.seq = 1]}

\* The properties that suppose one line of coordinators say nothing beyond it,
\* unless the hub was restored.  Around a restore fewer events and no expiry.
Written == Cardinality(Events \ Founded)
Stories ==
    /\ rewound \/ ~forked
    /\ backup # Founded \/ rewound => Written <= 2 /\ now = 0

\* Until then reading a digest is like pulling nothing.
Digests == mark' # mark => rewound \/ ledger' # ledger
============================================================================
