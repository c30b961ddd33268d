---------------------------- MODULE FleetLedger ----------------------------
(***************************************************************************)
(* The coordination ledger of a fleet and the reducers over it             *)
(* (fleet/reducers.py, fleet/coordination.py): who coordinates, who holds  *)
(* a scope, which epoch and which grant_seq come next.                     *)
(*                                                                         *)
(* A ledger is a set of events: reducers dedupe by id and sort, so neither *)
(* the order nor the number of arrivals matters to them.  An event's id    *)
(* and created_at are the node that wrote it and a stamp that grows with   *)
(* every event of that node; clocks of different nodes are unrelated.      *)
(* Requests, conflicts, divergences and handoff markers confer nothing and *)
(* carry no epoch: they are left out.                                      *)
(***************************************************************************)
EXTENDS Integers, FiniteSets, FiniteSetsExt

CONSTANTS
    Node,     \* node ids, ordered as the strings they stand for
    Nobody,   \* no holder
    Scope     \* scope keys leases are granted on

ASSUME NodesAreOrdered == Node \subseteq Nat /\ Nobody \notin Node

----------------------------------------------------------------------------
(***************************************************************************)
(* Events.  at = 0 is a draft that append_coord_event has not stamped yet. *)
(***************************************************************************)
RoleEvent ==
    [kind : {"role"}, node : Node, at : Nat, epoch : Nat,
     marker : {"claimed", "granted", "released"}, holder : Node, pinned : BOOLEAN]

\* "ended" is released, revoked or expired: the reducer treats them alike.
\* The holder of an end, who had the grant that was ended, is not in the
\* code's payload and no reducer reads it.
LeaseEvent ==
    [kind : {"lease"}, node : Node, at : Nat, epoch : Nat,
     marker : {"granted", "ended"}, scope : Scope, seq : Nat, holder : Node,
     auth : BOOLEAN, expires : Nat]

Event == RoleEvent \cup LeaseEvent

Role(n, marker, epoch, holder, pinned) ==
    [kind |-> "role", node |-> n, at |-> 0, epoch |-> epoch,
     marker |-> marker, holder |-> holder, pinned |-> pinned]

Grant(n, s, epoch, holder, auth) ==
    [kind |-> "lease", node |-> n, at |-> 0, epoch |-> epoch, marker |-> "granted",
     scope |-> s, seq |-> 0, holder |-> holder, auth |-> auth, expires |-> 0]

\* Mutant: an end is written with the stamp of the grant it ends.
EndKeepsStamp(n, g) == [g EXCEPT !.node = n, !.marker = "ended"]

End(n, g) == [g EXCEPT !.node = n, !.at = 0, !.marker = "ended"]

----------------------------------------------------------------------------
(***************************************************************************)
(* reduce_coordinator.                                                     *)
(***************************************************************************)
\* (created_at, id), the last tie-break of every reducer.
Later(e, f) == e.at > f.at \/ (e.at = f.at /\ e.node > f.node)

Roles(L, marker) == {e \in L : e.kind = "role" /\ e.marker = marker}

\* Mutant: a claim counts like a grant.
ClaimsCount(L) ==
    {e \in Roles(L, "granted") \cup Roles(L, "claimed") :
        \A r \in Roles(L, "released") : r.epoch # e.epoch}

\* A claim counts only until anything was ever granted.
Authorities(L) ==
    LET granted == Roles(L, "granted")
        basis == IF granted # {} THEN granted ELSE Roles(L, "claimed")
        over == {r.epoch : r \in Roles(L, "released")}
    IN  {e \in basis : e.epoch \notin over}

AuthorityBeats(e, f) == e.epoch > f.epoch \/ (e.epoch = f.epoch /\ Later(e, f))

Vacancy == [holder |-> Nobody, epoch |-> -1, pinned |-> FALSE]

Coordinator(L) ==
    LET A == Authorities(L)
        e == CHOOSE e \in A : \A f \in A \ {e} : AuthorityBeats(e, f)
    IN  IF A = {} THEN Vacancy
        ELSE [holder |-> e.holder, epoch |-> e.epoch, pinned |-> e.pinned]

MaxEpoch(L) == Max({-1} \cup {e.epoch : e \in L})

----------------------------------------------------------------------------
(***************************************************************************)
(* reduce_lease.                                                           *)
(***************************************************************************)
Grants(L, s) == {e \in L : e.kind = "lease" /\ e.marker = "granted" /\ e.scope = s}
Ends(L, s)   == {e \in L : e.kind = "lease" /\ e.marker = "ended" /\ e.scope = s}

Outranks(e, f) ==
    \/ e.epoch > f.epoch
    \/ e.epoch = f.epoch /\ (e.seq > f.seq \/ (e.seq = f.seq /\ Later(e, f)))

Winner(L, s) ==
    LET G == Grants(L, s)
    IN  CHOOSE e \in G : \A f \in G \ {e} : Outranks(e, f)

\* Mutant: an end frees every grant of its epoch, also later ones.
FreedByEpoch(L, g) == \E r \in Ends(L, g.scope) : r.epoch = g.epoch

\* An end frees the grants of its epoch up to the grant_seq it names.
Freed(L, g) == \E r \in Ends(L, g.scope) : r.epoch = g.epoch /\ r.seq >= g.seq

Expired(g, now) == now > g.expires

LeaseState(L, s, now) ==
    LET w == Winner(L, s)
    IN  IF Grants(L, s) = {} THEN "none"
        ELSE IF Freed(L, w) THEN "free"
        ELSE IF Expired(w, now) THEN "expired"
        ELSE "held"

LeaseHolder(L, s, now) ==
    IF LeaseState(L, s, now) = "held" THEN Winner(L, s).holder ELSE Nobody

\* _next_grant_seq.
NextSeq(L, s, epoch) == 1 + Max({0} \cup {g.seq : g \in {g \in Grants(L, s) : g.epoch = epoch}})
============================================================================
