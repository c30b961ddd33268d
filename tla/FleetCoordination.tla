------------------------- MODULE FleetCoordination -------------------------
(***************************************************************************)
(* Coordinator role and leases of a fleet (fleet/coordination.py) over     *)
(* replicated ledgers (fleet/store.py, fleet/sync.py).                     *)
(*                                                                         *)
(* A call reads fresh projections of its node's ledger and then appends    *)
(* its events one transaction at a time, so other calls, a pull, a push or *)
(* the end of the process come in between.  Calls reach a node that has a  *)
(* daemon through its loopback threads, and side by side; without one the  *)
(* command opens the ledger itself, one process at a time, because the     *)
(* database file is locked by whoever has it open.                         *)
(*                                                                         *)
(* Pushing is up to whoever runs the fleet: the source offers push() and   *)
(* never calls it.  revoke_lease and sweep_expired are offered likewise;   *)
(* no command reaches them.  What a refused call records for the audit     *)
(* changes no projection and is left out.                                  *)
(***************************************************************************)
EXTENDS FleetLedger, Sequences, SequencesExt

CONSTANTS
    Handler,     \* calls being served
    Home,        \* the node each handler serves
    Served,      \* nodes with a live daemon
    MayIsolate,  \* calls may claim the role as isolated
    MayRewind,   \* the hub may be restored from a backup
    TTL,         \* how long a grant lasts
    Founded,     \* the ledger everybody starts from
    Pins,        \* modes claims may name: pinned or roaming
    Modes,       \* modes grants may ask for: authoritative or advisory
    MaxTime,     \* bound on the clock
    MaxEvents    \* bound on the events written from then on

ASSUME HandlersHaveHomes == Home \in [Handler -> Node] /\ Served \subseteq Node
ASSUME BoundsAreNaturals == TTL \in Nat /\ MaxTime \in Nat /\ MaxEvents \in Nat
ASSUME SwitchesAreBoolean == MayIsolate \in BOOLEAN /\ MayRewind \in BOOLEAN /\ Pins \cup Modes \subseteq BOOLEAN
ASSUME FoundedIsLedger ==
    /\ Founded \subseteq Event /\ IsFiniteSet(Founded)
    /\ \A e, f \in Founded : e.at > 0 /\ (e.node = f.node /\ e.at = f.at => e = f)

ASSUME FoundedGrantsOnce ==
    /\ \A e \in Founded : e.kind = "lease" => e.marker = "granted" /\ e.expires <= TTL
    /\ \A e, f \in Founded : e.kind = "lease" /\ f.kind = "lease" /\ e.scope = f.scope => e = f

VARIABLES
    ledger,   \* coord_events of each node's fleet.db
    hub,      \* coord_events of the hub
    backup,   \* an earlier state of the hub
    rewound,  \* the hub was restored from it
    mark,     \* max_seen_epoch of each node, kept outside the ledger
    minted,   \* stamps each node has given out
    now,      \* the clock expiry is read from
    op,       \* locals of each call
    forked,   \* history: the ledger stopped having one line of coordinators
    outdated  \* history: a lease was granted under an older epoch than it had been

sync == <<hub, backup, rewound>>
ghosts == <<forked, outdated>>
vars == <<ledger, sync, mark, minted, now, op, ghosts>>

Nothing == [kind |-> "none"]
Idle == [pc |-> "idle", what |-> "none", todo |-> <<>>, want |-> Nothing]

----------------------------------------------------------------------------
Events == hub \cup UNION {ledger[n] : n \in Node}

\* A daemon serves calls side by side; without one they come one by one.
Alone(n) == \A k \in Handler : Home[k] = n => op[k] = Idle
Open(n)  == n \in Served \/ Alone(n)
Enters(h) == op[h] = Idle /\ Open(Home[h])

View(h) == ledger[Home[h]]
Leads(h) == Coordinator(View(h)).holder = Home[h]

Will(h, what, todo) ==
    /\ op' = [op EXCEPT ![h] = [pc |-> "write", what |-> what, todo |-> todo, want |-> Nothing]]
    /\ UNCHANGED <<ledger, sync, mark, minted, now, ghosts>>
Go(h, pc) == op' = [op EXCEPT ![h].pc = pc]
Refuse(h) == op' = [op EXCEPT ![h] = Idle]
Local     == UNCHANGED <<ledger, sync, mark, minted, now, ghosts>>

(***************************************************************************)
(* append_coord_event.                                                     *)
(***************************************************************************)
\* Authority is given while another call of the node is about to change it, while
\* another node has it, or on a ledger that does not show every role event there
\* is: there may be two lines now.  A claim gives authority until the first grant.
Forks(h, n, e) ==
    /\ e.kind = "role"
    /\ e.marker = "granted" \/ (e.marker = "claimed" /\ Roles(ledger[n], "granted") = {})
    /\ \/ \E k \in Handler \ {h} : Home[k] = n /\ op[k].what \in {"claim", "transfer", "release"}
       \/ Coordinator(ledger[n]).holder \notin {Nobody, n}
       \/ \E f \in Events \ ledger[n] : f.kind = "role"

\* An authoritative grant is made under an older epoch than an earlier grant of its
\* scope: the role went back to an epoch nobody gave up.
Outdates(L, e) ==
    e.kind = "lease" /\ e.marker = "granted" /\ e.auth /\ \E g \in Grants(L, e.scope) : g.epoch > e.epoch

AppendEvent(h) ==
    LET n == Home[h]
        e == [Head(op[h].todo) EXCEPT !.at = minted[n] + 1]
        L == ledger[n] \cup {e}
    IN  /\ op[h].pc = "write"
        /\ MapThenSumSet(LAMBDA k : minted[k], Node) < Cardinality(Founded) + MaxEvents
        /\ ledger' = [ledger EXCEPT ![n] = L]
        /\ minted' = [minted EXCEPT ![n] = @ + 1]
        /\ forked' = (forked \/ Forks(h, n, e))
        /\ outdated' = (outdated \/ Outdates(ledger[n], e))
        /\ op' = [op EXCEPT ![h] = IF Len(@.todo) = 1 THEN Idle ELSE [op[h] EXCEPT !.todo = Tail(@)]]
        /\ UNCHANGED <<sync, mark, now>>

(***************************************************************************)
(* claim_coordinator, transfer_coordinator, release_coordinator.           *)
(***************************************************************************)
ClaimEpoch(L) == Max({1, MaxEpoch(L) + 1})

\* Held by another node: a pinned holder refuses, a roaming one is only
\* displaced by a claim whose pull failed.  The daemon drops the isolated flag.
Claim(h, pinned, isolated) ==
    LET n == Home[h]
        c == Coordinator(View(h))
        asks == Role(n, "claimed", ClaimEpoch(View(h)), n, pinned)
        contested == c.holder \notin {Nobody, n}
    IN  /\ Enters(h)
        /\ isolated => MayIsolate /\ n \notin Served
        /\ ~(contested /\ c.pinned)
        /\ Will(h, "claim", IF contested /\ ~isolated THEN <<asks>>
                            ELSE <<asks, [asks EXCEPT !.marker = "granted"]>>)

TransferEpoch(L) == MaxEpoch(L) + 1

Transfer(h, to) ==
    LET n == Home[h]
        c == Coordinator(View(h))
    IN  /\ Enters(h) /\ Leads(h)
        /\ Will(h, "transfer", <<Role(n, "released", c.epoch, n, c.pinned),
                                 Role(n, "granted", TransferEpoch(View(h)), to, c.pinned)>>)

ReleaseRole(h) ==
    LET c == Coordinator(View(h))
    IN  /\ Enters(h) /\ Leads(h)
        /\ Will(h, "release", <<Role(Home[h], "released", c.epoch, Home[h], c.pinned)>>)

(***************************************************************************)
(* grant_lease, renew_lease: require the role, pull when authoritative,    *)
(* check, take the next grant_seq, append.  The daemon drops the mode.     *)
(***************************************************************************)
Wants(h, what, s, holder, asked, pulls, otherwise) ==
    LET n == Home[h]
        auth == asked /\ n \notin Served
    IN  /\ Enters(h) /\ Leads(h)
        /\ op' = [op EXCEPT ![h] =
                  [pc |-> IF auth THEN pulls ELSE otherwise, what |-> what, todo |-> <<>>,
                   want |-> Grant(n, s, Coordinator(View(h)).epoch, holder, auth)]]
        /\ Local

GrantLease(h, s, holder, asked) == Wants(h, "grant", s, holder, asked, "pull", "seq")
RenewLease(h, s, asked) == Wants(h, "renew", s, Home[h], asked, "pull", "active")

\* Mutant: an authoritative grant is not checked against the held lease.
CheckFreeAlways(h) ==
    /\ op[h].pc = "free"
    /\ Go(h, "seq")
    /\ Local

\* _assert_authoritative_free.
CheckFree(h) ==
    /\ op[h].pc = "free"
    /\ IF LeaseState(View(h), op[h].want.scope, now) = "held" THEN Refuse(h) ELSE Go(h, "seq")
    /\ Local

\* A renewal takes the holder of the active grant, and the grantor's own node
\* when the grant has expired and shows none.
ReadActive(h) ==
    LET s == op[h].want.scope
        holder == LeaseHolder(View(h), s, now)
    IN  /\ op[h].pc = "active"
        /\ IF LeaseState(View(h), s, now) \in {"none", "free"} THEN Refuse(h)
           ELSE op' = [op EXCEPT ![h].pc = "seq",
                                 ![h].want.holder = IF holder = Nobody THEN Home[h] ELSE holder]
        /\ Local

TakeSeq(h) ==
    LET g == op[h].want
    IN  /\ op[h].pc = "seq"
        /\ op' = [op EXCEPT ![h].pc = "write", ![h].want = Nothing,
                            ![h].todo = <<[g EXCEPT !.seq = NextSeq(View(h), g.scope, g.epoch),
                                                    !.expires = now + TTL]>>]
        /\ Local

(***************************************************************************)
(* release_lease, revoke_lease, sweep_expired.                             *)
(***************************************************************************)
\* A holder releases its own lease, on its node or through a signed request
\* to another node's daemon.
ReleaseLease(h, s, by) ==
    /\ Enters(h)
    /\ by # Home[h] => Home[h] \in Served
    /\ LeaseHolder(View(h), s, now) = by
    /\ Will(h, "end", <<End(Home[h], Winner(View(h), s))>>)

RevokeLease(h, s) ==
    /\ Enters(h) /\ Leads(h)
    /\ LeaseState(View(h), s, now) \in {"held", "expired"}
    /\ Will(h, "end", <<End(Home[h], Winner(View(h), s))>>)

SweepExpired(h) ==
    LET over == {s \in Scope : LeaseState(View(h), s, now) = "expired"}
    IN  /\ Enters(h) /\ over # {}
        /\ Will(h, "end", SetToSeq({End(Home[h], Winner(View(h), s)) : s \in over}))

(***************************************************************************)
(* Synchronisation: push, pull_and_reduce, digest.                         *)
(***************************************************************************)
Push(n) ==
    /\ Open(n)
    /\ ~(ledger[n] \subseteq hub)
    /\ hub' = hub \cup ledger[n]
    /\ UNCHANGED <<ledger, backup, rewound, mark, minted, now, op, ghosts>>

\* What a pull leaves in the ledger; a restored hub may rewind it.
Arrivals(n) == {ledger[n] \cup hub} \cup (IF rewound THEN {hub} ELSE {})

Regressed(n, L) == MaxEpoch(L) < mark[n]

\* Mutant: the watermark is recorded and never compared.
ReducesAnyway(n, L, ok) ==
    ok /\ mark' = [mark EXCEPT ![n] = Max({@, MaxEpoch(L)})]

\* _check_epoch_regression and _record_watermark: ok is whether L is served;
\* a regression is served if the caller accepts it.
\* Without a restore no ledger ever shrinks and the watermark is left alone.
Reduces(n, L, ok) ==
    /\ ok \/ Regressed(n, L)
    /\ mark' = IF ~MayRewind \/ ~ok THEN mark
               ELSE IF Regressed(n, L) THEN [mark EXCEPT ![n] = MaxEpoch(L)]
               ELSE [mark EXCEPT ![n] = Max({@, MaxEpoch(L)})]

Arrives(n, L) ==
    /\ ledger' = [ledger EXCEPT ![n] = L]
    /\ forked' = (forked \/ ~(ledger[n] \subseteq L))
    /\ outdated' = outdated

Pull(n) ==
    /\ Open(n)
    /\ \E L \in Arrivals(n), ok \in BOOLEAN : Arrives(n, L) /\ Reduces(n, L, ok)
    /\ UNCHANGED <<sync, minted, now, op>>

Digest(n) ==
    /\ MayRewind
    /\ Open(n)
    /\ \E ok \in BOOLEAN : Reduces(n, ledger[n], ok)
    /\ UNCHANGED <<ledger, sync, minted, now, op, ghosts>>

\* _authoritative_freshness.
Refresh(h) ==
    /\ op[h].pc = "pull"
    /\ \E L \in Arrivals(Home[h]), ok \in BOOLEAN :
          /\ Arrives(Home[h], L)
          /\ Reduces(Home[h], L, ok)
          /\ IF ok THEN Go(h, IF op[h].what = "grant" THEN "free" ELSE "active") ELSE Refuse(h)
    /\ UNCHANGED <<sync, minted, now>>

HubUnreachable(h) == op[h].pc = "pull" /\ Refuse(h) /\ Local

(***************************************************************************)
(* The process of a node ends in the middle of its calls; the hub is       *)
(* backed up and restored; time passes.                                    *)
(***************************************************************************)
Crash(n) ==
    /\ ~Alone(n)
    /\ op' = [h \in Handler |-> IF Home[h] = n THEN Idle ELSE op[h]]
    /\ Local

Backup ==
    /\ MayRewind /\ ~rewound
    /\ backup' = hub
    /\ UNCHANGED <<ledger, hub, rewound, mark, minted, now, op, ghosts>>

Restore ==
    /\ MayRewind /\ hub # backup
    /\ hub' = backup
    /\ rewound' = TRUE
    /\ UNCHANGED <<ledger, backup, mark, minted, now, op, ghosts>>

Tick ==
    /\ now < MaxTime
    /\ now' = now + 1
    /\ UNCHANGED <<ledger, sync, mark, minted, op, ghosts>>

----------------------------------------------------------------------------
Init ==
    /\ ledger = [n \in Node |-> Founded]
    /\ hub = Founded /\ backup = Founded /\ rewound = FALSE
    /\ mark = [n \in Node |-> MaxEpoch(Founded)]
    /\ minted = [n \in Node |-> Max({0} \cup {e.at : e \in {e \in Founded : e.node = n}})]
    /\ now = 0
    /\ op = [h \in Handler |-> Idle]
    /\ forked = FALSE /\ outdated = FALSE

RoleCall(h) ==
    \/ \E pinned \in Pins, isolated \in BOOLEAN : Claim(h, pinned, isolated)
    \/ \E to \in Node : Transfer(h, to)
    \/ ReleaseRole(h)

LeaseCall(h) ==
    \/ \E s \in Scope, holder \in Node, asked \in Modes : GrantLease(h, s, holder, asked)
    \/ \E s \in Scope, asked \in Modes : RenewLease(h, s, asked)
    \/ \E s \in Scope, by \in Node : ReleaseLease(h, s, by)
    \/ \E s \in Scope : RevokeLease(h, s)
    \/ SweepExpired(h)

CallStep(h) ==
    \/ Refresh(h)
    \/ HubUnreachable(h)
    \/ CheckFree(h)
    \/ ReadActive(h)
    \/ TakeSeq(h)
    \/ AppendEvent(h)

Environment ==
    \/ \E n \in Node : Pull(n) \/ Digest(n) \/ Push(n) \/ Crash(n)
    \/ Backup \/ Restore \/ Tick

Next == Environment \/ \E h \in Handler : RoleCall(h) \/ LeaseCall(h) \/ CallStep(h)

Spec == Init /\ [][Next]_vars

----------------------------------------------------------------------------
(***************************************************************************)
(* Invariants.                                                             *)
(***************************************************************************)
\* Ledgers hold stamped events, calls hold drafts, and no ledger shows an
\* event its writer has not stamped.
TypeOK ==
    /\ ledger \in [Node -> SUBSET Events]
    /\ \A e \in Events \cup backup :
          /\ e.kind \in {"role", "lease"} /\ e.node \in Node /\ e.holder \in Node
          /\ e.epoch \in Nat /\ e.at \in 1 .. minted[e.node]
    /\ \A e, f \in Events : e.node = f.node /\ e.at = f.at => e = f
    /\ {rewound, forked, outdated} \subseteq BOOLEAN
    /\ mark \in [Node -> Nat \cup {-1}]
    /\ minted \in [Node -> Nat]
    /\ now \in 0 .. MaxTime
    /\ \A h \in Handler :
          /\ op[h].pc \in {"idle", "pull", "free", "active", "seq", "write"}
          /\ (op[h].pc = "write") = (op[h].todo # <<>>)
          /\ \A i \in DOMAIN op[h].todo : op[h].todo[i].at = 0 /\ op[h].todo[i].node = Home[h]

\* "The grantor is single by construction": while authority was only given in full
\* view of the roles before it and by one call of its node at a time, at most one
\* node takes itself for the coordinator, through transfers, vacancies, crashes
\* and stale replicas.
SoleGrantor ==
    ~forked => \A n, m \in Node :
        Coordinator(ledger[n]).holder = n /\ Coordinator(ledger[m]).holder = m => n = m

\* A grant is in force until it expires, its holder gives it up or loses it
\* to a revocation, or an advisory grant is made over it.
GivenUp(g) == \E r \in Ends(Events, g.scope) :
    /\ r.holder = g.holder
    /\ r.epoch > g.epoch \/ (r.epoch = g.epoch /\ r.seq >= g.seq)
Displaced(g) == \E a \in Grants(Events, g.scope) : ~a.auth /\ Outranks(a, g)
InForce(s) == {g \in Grants(Events, s) : ~Expired(g, now) /\ ~GivenUp(g) /\ ~Displaced(g)}

\* "A single-grantor hard mutex": on no scope are two authoritative grants for
\* different nodes in force, whichever replica they were made on, as long as there
\* was one line of coordinators.
SingleGrantorMutex ==
    ~forked => \A s \in Scope : \A g, k \in InForce(s) : g.auth /\ k.auth => g.holder = k.holder

\* The authoritative lease is a mutex across the fleet as long as, besides, the role
\* never went back to an epoch older than a grant.
AuthoritativeExcludes == ~outdated => SingleGrantorMutex

\* A scope reads free only because a grant with the epoch and grant_seq of its last was
\* given up or taken from its holder: an end of an earlier grant that arrives late never
\* frees a later one, and one of a later epoch frees none.  The last grant is the only
\* one of its number unless calls of a daemon overlapped when they took it; then the end
\* of one of them frees the others, which is all that may go wrong.
FreedByItsNumber ==
    ~forked => \A n \in Node, s \in Scope :
        LeaseState(ledger[n], s, now) = "free" =>
            LET last == Winner(ledger[n], s)
            IN  \E g \in Grants(ledger[n], s) :
                   g.epoch = last.epoch /\ g.seq = last.seq /\ GivenUp(g)

(***************************************************************************)
(* Action properties.                                                      *)
(***************************************************************************)
Appends(h) == op[h].pc = "write" /\ minted' # minted /\ op'[h] # op[h]
WritesGrant(h) == Appends(h) /\ op[h].what \in {"grant", "renew"}

\* No authoritative grant is made on a ledger that shows less than the node
\* has seen: a restored hub is noticed before, also by an in-between pull.
GrantsOnFullView ==
    [][\A h \in Handler : WritesGrant(h) /\ Head(op[h].todo).auth =>
          MaxEpoch(View(h)) >= mark[Home[h]]]_vars

(***************************************************************************)
(* What the proofs need to know of every reachable state.                  *)
(***************************************************************************)
Replicas == {hub, backup} \cup {ledger[n] : n \in Node}
Draft == {e \in Event : e.at = 0}
Calls == [pc : {"idle", "pull", "free", "active", "seq", "write"},
          what : {"none", "claim", "transfer", "release", "grant", "renew", "end"},
          todo : Seq(Draft), want : Draft \cup {Nothing}]

\* Every replica is a finite ledger, and no node stamps two events alike.
DataInv ==
    /\ ledger \in [Node -> SUBSET Event] /\ {hub, backup} \subseteq SUBSET Event
    /\ minted \in [Node -> Nat] /\ mark \in [Node -> Nat \cup {-1}]
    /\ now \in 0 .. MaxTime /\ {rewound, forked, outdated} \subseteq BOOLEAN
    /\ op \in [Handler -> Calls]
    /\ \A X \in Replicas : IsFiniteSet(X)
    /\ \A e \in UNION Replicas : 0 < e.at /\ e.at <= minted[e.node]
    /\ \A e, f \in UNION Replicas : e.node = f.node /\ e.at = f.at => e = f

IsGrant(e) == e.kind = "lease" /\ e.marker = "granted"
IsEnd(e)   == e.kind = "lease" /\ e.marker = "ended"

\* A call writes drafts of its own node; it gives up an epoch before all else, and
\* only the calls that grant write grants.
CallOK(h, c) ==
    /\ c.pc = "idle" => c = Idle
    /\ (c.pc = "write") = (c.todo # <<>>)
    /\ c.pc \in {"pull", "free", "active", "seq"} =>
          c.want \in LeaseEvent /\ c.want.marker = "granted" /\ c.want.node = Home[h] /\ c.what \in {"grant", "renew"}
    /\ c.what \in {"grant", "renew"} => Len(c.todo) <= 1
    /\ \A i \in DOMAIN c.todo :
          /\ c.todo[i].node = Home[h]
          /\ c.todo[i].marker = "released" => i = 1 /\ c.what \in {"transfer", "release"}
          /\ c.what \in {"grant", "renew"} => c.todo[i] \in LeaseEvent
          /\ c.what \in {"grant", "renew"} <=> IsGrant(c.todo[i])

CallInv == \A h \in Handler : CallOK(h, op[h])

\* An authoritative call is alone at its node, and once it has pulled its ledger
\* shows as much as the node has seen.
Authoritative(c) ==
    \/ c.pc \in {"pull", "free", "active", "seq"} /\ c.want.auth
    \/ c.pc = "write" /\ c.what \in {"grant", "renew"} /\ c.todo[1].auth

FullViewInv ==
    \A h \in Handler : Authoritative(op[h]) =>
        /\ Home[h] \notin Served /\ \A k \in Handler \ {h} : Home[k] = Home[h] => op[k] = Idle
        /\ op[h].pc # "pull" => MaxEpoch(View(h)) >= mark[Home[h]]

\* Without a restore nothing shrinks, and the watermark is left alone.
NoRewindInv ==
    ~MayRewind =>
        /\ ~rewound /\ mark = [n \in Node |-> MaxEpoch(Founded)]
        /\ \A X \in Replicas : Founded \subseteq X

\* Whoever is about to give an epoch up still leads at it, or has given it up.
GivenUpEpochs(L) == {r.epoch : r \in Roles(L, "released")}

PendingInv ==
    ~forked => \A h \in Handler : \A i \in DOMAIN op[h].todo :
        op[h].todo[i].kind = "role" /\ op[h].todo[i].marker = "released" =>
           \/ op[h].todo[i].epoch \in GivenUpEpochs(View(h))
           \/ Leads(h) /\ Coordinator(View(h)).epoch = op[h].todo[i].epoch

\* Replicas hold the founding ledger, every event is on the ledger of the node that
\* wrote it, whoever has an event has those its node wrote before, and with an end
\* comes the grant it ends.
LeaseGrants(L) == {g \in L : IsGrant(g)}
EndsOne(r, L) == \E g \in Grants(L, r.scope) : g.epoch = r.epoch /\ g.seq = r.seq /\ g.holder = r.holder

FoundedInv == \A X \in Replicas : Founded \subseteq X

CausalInv ==
    ~forked =>
        /\ \A e \in UNION Replicas : e \in ledger[e.node]
        /\ \A X \in Replicas : \A e \in UNION Replicas, f \in X : e.node = f.node /\ e.at < f.at => e \in X
        /\ \A X \in Replicas : \A r \in X : IsEnd(r) => EndsOne(r, X)
        /\ \A h \in Handler : \A i \in DOMAIN op[h].todo :
              IsEnd(op[h].todo[i]) => EndsOne(op[h].todo[i], View(h))

\* Where no two calls of a node overlap, whoever is about to grant still leads, under
\* the epoch it grants.
OneCallEach == \A h, k \in Handler : Home[h] = Home[k] /\ Home[h] \in Served => h = k

Granting(h) == op[h].what \in {"grant", "renew"}
Asked(h) == IF op[h].pc = "write" THEN op[h].todo[1] ELSE op[h].want

GrantorInv ==
    ~forked => \A h \in Handler : Granting(h) =>
        Leads(h) /\ Coordinator(View(h)).epoch = Asked(h).epoch

\* No two grants of a scope have one epoch and grant_seq; no grant, written or about
\* to be, lasts longer than one made now would, or less than an earlier one.
RankInv ==
    ~forked =>
        /\ \A g, k \in LeaseGrants(UNION Replicas) :
              g.scope = k.scope /\ g.epoch = k.epoch /\ g.seq = k.seq => g = k
        /\ \A g \in LeaseGrants(UNION Replicas) : g.expires <= now + TTL
        /\ \A h \in Handler : Granting(h) /\ op[h].pc = "write" =>
              LET d == op[h].todo[1]
              IN  /\ d.expires <= now + TTL
                  /\ \A g \in Grants(UNION Replicas, d.scope) :
                        g.expires <= d.expires /\ (g.epoch = d.epoch => g.seq < d.seq)

\* An authoritative call that has looked goes on only if the last grant of its scope
\* is over or for the same node.
Ready(L, s, holder) ==
    LET w == Winner(L, s)
    IN  Grants(L, s) = {} \/ Freed(L, w) \/ Expired(w, now) \/ w.holder = holder

ReadyInv ==
    \A h \in Handler : Granting(h) /\ op[h].pc \in {"seq", "write"} /\ Asked(h).auth =>
        Ready(View(h), Asked(h).scope, Asked(h).holder)

\* A grant that was outranked by one for another node was over by then.
Over(g) == Expired(g, now) \/ GivenUp(g) \/ Displaced(g)

OverInv ==
    ~forked /\ ~outdated => \A s \in Scope : \A g, w \in Grants(Events, s) :
        g.auth /\ w.auth /\ Outranks(w, g) =>
            g.expires <= w.expires /\ (g.holder = w.holder \/ Over(g))
============================================================================
