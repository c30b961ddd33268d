-------------------------- MODULE FleetReconcile --------------------------
(***************************************************************************)
(* Isolated work coming home (fleet/reconcile.py): a node cut off from the *)
(* hub assumes the role, grants itself scopes under its iso sentinel, and  *)
(* later adopts them or surfaces that another node worked on them too; and *)
(* the sweep of nodes whose heartbeat is stale.                            *)
(*                                                                         *)
(* A pull may fail at any time, so any node may be isolated at any time.   *)
(* A daemon serves every call on a thread of its own and holds no lock     *)
(* across one: reconciles, sweeps and the other calls of a node run side   *)
(* by side.  The store's lock covers one read or one append, and the       *)
(* process may end between any two.  What the detection of one scope       *)
(* reads, and what a sweep reads before its first append, is read in one   *)
(* step, and a call that is neither reconcile nor sweep is one step too:   *)
(* how those overlap is FleetCoordination's.                               *)
(*                                                                         *)
(* Heartbeats reach other nodes only by a push, so any node may look       *)
(* stale to another.  That a sweep cancels dispatches is FleetDispatch's,  *)
(* and publishing branches changes no ledger.                              *)
(***************************************************************************)
EXTENDS FleetLedger, Sequences

CONSTANTS
    Caller,       \* calls of reconcile and sweep_stale_nodes being served
    Site,         \* the node that serves each
    CutOff,       \* the scopes a node granted itself when it was cut off before
    MaxWritten    \* bound on the events written after those

ReconcileConstantsOK ==
    /\ 1 \in Node /\ MaxWritten \in Nat /\ Site \in [Caller -> Node]
    /\ CutOff \in [Node \ {1} -> Seq(Scope)]
    /\ \A n \in Node \ {1} : \A i, j \in DOMAIN CutOff[n] : CutOff[n][i] = CutOff[n][j] => i = j

VARIABLES
    ledger,   \* role and lease events of each node
    iso,      \* <<node, at>> of the events that carry an iso sentinel
    notes,    \* conflicts, resolutions, adoptions, handoffs and stale records
    hub,      \* [ledger, notes] of the hub
    minted,   \* stamps each node has given out
    written,  \* how many of them since the beginning
    job       \* locals of each call

stamps == <<minted, written>>
reconcileVars == <<ledger, iso, notes, hub, stamps, job>>

(***************************************************************************)
(* Notes: events that confer nothing.  "work" is a handoff or dispatch     *)
(* event on a scope; about is the overlap of a conflict, the id of a       *)
(* resolved conflict, or the coordinator and epoch found stale.  What a    *)
(* reconcile or sweep settles carries history: the call, and the last      *)
(* stamp its node had given out when the call began to read.               *)
(***************************************************************************)
Note(kind, n, s, about) ==
    [kind |-> kind, by |-> n, at |-> minted[n] + 1, scope |-> s, about |-> about, calls |-> {}, seen |-> 0]
Settles(c, kind, s, about) ==
    [Note(kind, Site[c], s, about) EXCEPT !.calls = {c}, !.seen = job[c].seen]

\* The founding coordinator's two events; an isolated claim and its grants.
Founded(n) ==
    LET claim(e)  == [Role(n, "claimed", e, n, FALSE) EXCEPT !.at = 1]
        grant(e)  == [Role(n, "granted", e, n, FALSE) EXCEPT !.at = 2]
        lease(i) == [Grant(n, CutOff[n][i], 2, n, FALSE) EXCEPT !.at = 2 + i, !.seq = 1]
    IN  IF n = 1 THEN {claim(1), grant(1)}
        ELSE IF CutOff[n] = <<>> THEN {}
        ELSE {claim(2), grant(2)} \cup {lease(i) : i \in DOMAIN CutOff[n]}

Room == written < MaxWritten
Stamps(n, k) ==
    /\ Room /\ written' = written + k
    /\ minted' = [minted EXCEPT ![n] = @ + k]
AppendEvent(n, e) ==
    /\ Stamps(n, 1)
    /\ ledger' = [ledger EXCEPT ![n] = @ \cup {[e EXCEPT !.at = minted[n] + 1]}]
Record(n, note) ==
    /\ Stamps(n, 1)
    /\ notes' = [notes EXCEPT ![n] = @ \cup {note}]

\* A call: the scopes it reconciles, what it has left to do, the overlaps it found,
\* and what it read to be settled (or, in a sweep, which coordinator is stale).
NoJob == [pc |-> "idle", scopes |-> {}, todo |-> {}, found |-> {}, known |-> {}, seen |-> 0]

(***************************************************************************)
(* What other calls do meanwhile.                                          *)
(***************************************************************************)
Leading(L) ==
    LET A == Authorities(L) IN {e \in A : \A f \in A \ {e} : AuthorityBeats(e, f)}
LeadsIso(n) == \E e \in Leading(ledger[n]) : e.holder = n /\ <<e.node, e.at>> \in iso

\* claim_coordinator(isolated=True) against a roaming holder: a daemon drops the flag,
\* so the claim is a command's that has the ledger for itself.
IsoClaim(n) ==
    LET epoch == MaxEpoch(ledger[n]) + 1
        claimed == [Role(n, "claimed", epoch, n, FALSE) EXCEPT !.at = minted[n] + 1]
        granted == [Role(n, "granted", epoch, n, FALSE) EXCEPT !.at = minted[n] + 2]
    IN  /\ \A c \in Caller : Site[c] = n => job[c] = NoJob
        /\ Stamps(n, 2)
        /\ Coordinator(ledger[n]).holder # n
        /\ ledger' = [ledger EXCEPT ![n] = @ \cup {claimed, granted}]
        /\ iso' = iso \cup {<<n, claimed.at>>, <<n, granted.at>>}
        /\ UNCHANGED <<notes, hub, job>>

\* grant_lease and renew_lease; a self-grant of an iso coordinator is iso.
GrantTo(n, s, h) ==
    LET c == Coordinator(ledger[n])
    IN  /\ Room /\ c.holder = n
        /\ AppendEvent(n, [Grant(n, s, c.epoch, h, FALSE) EXCEPT !.seq = NextSeq(ledger[n], s, c.epoch)])
        /\ iso' = IF LeadsIso(n) /\ h = n THEN iso \cup {<<n, minted[n] + 1>>} ELSE iso
        /\ UNCHANGED <<notes, hub, job>>

Release(n, s) ==
    /\ Room /\ LeaseHolder(ledger[n], s, 0) = n
    /\ AppendEvent(n, End(n, Winner(ledger[n], s)))
    /\ UNCHANGED <<iso, notes, hub, job>>

Work(n, s) == Record(n, Note("work", n, s, <<>>)) /\ UNCHANGED <<ledger, iso, hub, job>>

Push(n) ==
    /\ ~(ledger[n] \subseteq hub.ledger /\ notes[n] \subseteq hub.notes)
    /\ hub' = [ledger |-> hub.ledger \cup ledger[n], notes |-> hub.notes \cup notes[n]]
    /\ UNCHANGED <<ledger, iso, notes, stamps, job>>

Joins(n) ==
    /\ ledger' = [ledger EXCEPT ![n] = @ \cup hub.ledger]
    /\ notes' = [notes EXCEPT ![n] = @ \cup hub.notes]

Pull(n) ==
    /\ ~(hub.ledger \subseteq ledger[n] /\ hub.notes \subseteq notes[n])
    /\ Joins(n)
    /\ UNCHANGED <<iso, hub, stamps, job>>

\* resolve_conflict
Resolve(n) ==
    \E c \in notes[n] :
        /\ c.kind = "conflict"
        /\ \A r \in notes[n] : ~(r.kind = "resolved" /\ r.about = <<c.by, c.at>>)
        /\ Record(n, Note("resolved", n, c.scope, <<c.by, c.at>>))
        /\ UNCHANGED <<ledger, iso, hub, job>>

(***************************************************************************)
(* reconcile.                                                              *)
(***************************************************************************)
IsoEvents(n, s) == {e \in ledger[n] : e.kind = "lease" /\ e.scope = s /\ e.node = n /\ <<n, e.at>> \in iso}

Adopted(n) == {a.scope : a \in {a \in notes[n] : a.kind = "adopted" /\ a.by = n}}
IsoScopes(n) == {s \in Scope : IsoEvents(n, s) # {}}

\* _iso_claim_info: earliest stamp and highest epoch of the isolated hold.
ClaimedAt(n, s) == Min({e.at : e \in IsoEvents(n, s)})
ClaimEpoch(n, s) == Max({e.epoch : e \in IsoEvents(n, s)})

Overlap(s, kind, other) == [scope |-> s, kind |-> kind, other |-> other]

\* Mutant: only who holds the scope now counts.
OverlapsHeldOnly(n, s) ==
    IF LeaseHolder(ledger[n], s, 0) \notin {Nobody, n}
    THEN {Overlap(s, "held", LeaseHolder(ledger[n], s, 0))} ELSE {}

\* _detect_overlap: another node holds the scope; or was granted it in the
\* isolated era, by clock or by epoch, whatever became of the grant; or worked
\* on it since.  The code reports the first it meets.
Overlaps(n, s) ==
    LET holder == LeaseHolder(ledger[n], s, 0)
        since  == {g \in Grants(ledger[n], s) :
                      g.holder # n /\ (g.at > ClaimedAt(n, s) \/ g.epoch >= ClaimEpoch(n, s))}
        worked == {w \in notes[n] : w.kind = "work" /\ w.scope = s /\ w.by # n /\ w.at > ClaimedAt(n, s)}
    IN IF holder \notin {Nobody, n} THEN {Overlap(s, "held", holder)}
       ELSE {Overlap(s, "granted", g.holder) : g \in since} \cup {Overlap(s, "work", w.by) : w \in worked}

\* _open_iso_conflicts: signatures of the conflicts nobody resolved.
OpenConflicts(n) ==
    LET closed == {r.about : r \in {r \in notes[n] : r.kind = "resolved"}}
        found  == {c \in notes[n] : c.kind = "conflict" /\ <<c.by, c.at>> \notin closed}
    IN {c.about : c \in found}

Becomes(c, j) == job' = [job EXCEPT ![c] = j]
Reads(c, j) == Becomes(c, j) /\ UNCHANGED <<ledger, iso, notes, hub, stamps>>

BeginReconcile(c) ==
    /\ job[c] = NoJob
    /\ Joins(Site[c])
    /\ Becomes(c, [NoJob EXCEPT !.pc = "pulled"])
    /\ UNCHANGED <<iso, hub, stamps>>

ReadAdopted(c) ==
    /\ job[c].pc = "pulled"
    /\ Reads(c, [NoJob EXCEPT !.pc = "scan", !.known = Adopted(Site[c]), !.seen = minted[Site[c]]])

ReadScopes(c) ==
    LET left == IsoScopes(Site[c]) \ job[c].known
    IN  /\ job[c].pc = "scan"
        /\ Reads(c, IF left = {} THEN NoJob
                    ELSE [NoJob EXCEPT !.pc = "detect", !.scopes = left, !.todo = left, !.seen = job[c].seen])

\* All overlaps first; one of them and nothing is adopted.
Detected(j) ==
    IF j.todo # {} THEN j
    ELSE IF j.found # {} THEN [j EXCEPT !.pc = "open"]
    ELSE [NoJob EXCEPT !.pc = "adopt", !.todo = j.scopes, !.seen = j.seen]

Detect(c) ==
    /\ job[c].pc = "detect"
    /\ \E s \in job[c].todo :
          LET here == Overlaps(Site[c], s)
          IN  \E found \in IF here = {} THEN {{}} ELSE {{o} : o \in here} :
                 Reads(c, Detected([job[c] EXCEPT !.todo = @ \ {s}, !.found = @ \cup found]))

ReadOpen(c) ==
    /\ job[c].pc = "open"
    /\ Reads(c, [NoJob EXCEPT !.pc = "record", !.todo = job[c].found,
                              !.known = OpenConflicts(Site[c]), !.seen = job[c].seen])

Done(c, x) ==
    LET left == job[c].todo \ {x}
    IN  Becomes(c, IF left = {} THEN NoJob ELSE [job[c] EXCEPT !.todo = left])

RecordConflict(c) ==
    /\ job[c].pc = "record"
    /\ \E o \in job[c].todo :
          /\ Done(c, o)
          /\ IF <<o>> \in job[c].known THEN UNCHANGED <<notes, stamps>>
             ELSE Record(Site[c], Settles(c, "conflict", o.scope, <<o>>))
    /\ UNCHANGED <<ledger, iso, hub>>

\* A lease request, which confers nothing, and the durable record.
Adopt(c) ==
    /\ job[c].pc = "adopt"
    /\ \E s \in job[c].todo :
          Done(c, s) /\ Record(Site[c], Settles(c, "adopted", s, <<>>))
    /\ UNCHANGED <<ledger, iso, hub>>

(***************************************************************************)
(* sweep_stale_nodes: projections are read once for all stale nodes; then  *)
(* the leases of each are expired and, if it coordinates, a record is      *)
(* appended unless there is one.                                           *)
(***************************************************************************)
SweepLeft(j) == IF j.todo = {} /\ j.known = {} THEN NoJob ELSE j

BeginSweep(c, stale) ==
    LET L == ledger[Site[c]]
        lead == Coordinator(L)
        over == {End(Site[c], Winner(L, s)) : s \in {s \in Scope : LeaseHolder(L, s, 0) \in stale}}
    IN  /\ job[c] = NoJob /\ Site[c] \notin stale
        /\ Reads(c, SweepLeft([NoJob EXCEPT !.pc = "sweep", !.todo = over,
                              !.known = IF lead.holder \in stale THEN {<<lead.holder, lead.epoch>>} ELSE {}]))

Reclaim(c) ==
    /\ job[c].pc = "sweep"
    /\ \E e \in job[c].todo :
          AppendEvent(Site[c], e) /\ Becomes(c, SweepLeft([job[c] EXCEPT !.todo = @ \ {e}]))
    /\ UNCHANGED <<iso, notes, hub>>

\* Record only: the role is never taken.
ReadStale(c) ==
    /\ job[c].pc = "sweep"
    /\ \E k \in job[c].known :
          /\ \A e \in job[c].todo : e.holder # k[1]
          /\ Reads(c, IF \E x \in notes[Site[c]] : x.kind = "stale" /\ x.about = k
                      THEN SweepLeft([job[c] EXCEPT !.known = {}])
                      ELSE [job[c] EXCEPT !.pc = "stale", !.seen = minted[Site[c]]])

RecordStale(c) ==
    /\ job[c].pc = "stale"
    /\ Becomes(c, SweepLeft([job[c] EXCEPT !.pc = "sweep", !.known = {}, !.seen = 0]))
    /\ \E k \in job[c].known, s \in Scope : Record(Site[c], Settles(c, "stale", s, k))
    /\ UNCHANGED <<ledger, iso, hub>>

\* The process ends, or a cancel in the sweep is refused and ends the sweep.
Aborts(c) == job[c] # NoJob /\ Reads(c, NoJob)

----------------------------------------------------------------------------
ReconcileInit ==
    /\ ledger = [n \in Node |-> Founded(1) \cup Founded(n)]
    /\ iso = UNION {{<<n, e.at>> : e \in Founded(n)} : n \in Node \ {1}}
    /\ notes = [n \in Node |-> {}]
    /\ hub = [ledger |-> Founded(1), notes |-> {}]
    /\ minted = [n \in Node |-> IF n = 1 THEN 2 ELSE IF CutOff[n] = <<>> THEN 0 ELSE 2 + Len(CutOff[n])]
    /\ written = 0
    /\ job = [c \in Caller |-> NoJob]

JobStep(c) ==
    \/ BeginReconcile(c) \/ ReadAdopted(c) \/ ReadScopes(c) \/ Detect(c)
    \/ ReadOpen(c) \/ RecordConflict(c) \/ Adopt(c)
    \/ \E stale \in SUBSET Node : BeginSweep(c, stale)
    \/ Reclaim(c) \/ ReadStale(c) \/ RecordStale(c)
    \/ Aborts(c)

ReconcileNext ==
    \/ \E c \in Caller : JobStep(c)
    \/ \E n \in Node :
          \/ IsoClaim(n) \/ Push(n) \/ Pull(n) \/ Resolve(n)
          \/ \E s \in Scope : Release(n, s) \/ Work(n, s) \/ \E h \in Node : GrantTo(n, s, h)

ReconcileSpec == ReconcileInit /\ [][ReconcileNext]_reconcileVars

----------------------------------------------------------------------------
Written(n, kind) == {x \in notes[n] : x.kind = kind /\ x.by = n}

\* Every variable has the values its code can give it.
ReconcileTypeOK ==
    /\ ledger \in [Node -> SUBSET Event] /\ hub.ledger \subseteq Event
    /\ \A n \in Node : \A e \in ledger[n] : e.at \in 1 .. minted[e.node]
    /\ \A n \in Node : \A x \in notes[n] : x.by \in Node /\ x.at \in 1 .. minted[x.by] /\ x.scope \in Scope
    /\ \A c \in Caller :
          /\ job[c].pc \in {"idle", "pulled", "scan", "detect", "open", "record", "adopt", "sweep", "stale"}
          /\ job[c].seen \in 0 .. minted[Site[c]]

\* Of two notes of different calls of one node, the call that wrote the later one began
\* to read before the earlier one was written: the two calls overlapped.
SideBySide(a, b) ==
    /\ a.calls # b.calls
    /\ IF a.at < b.at THEN b.seen < a.at ELSE a.seen < b.at

\* What was done in isolation is settled once by calls of a node that do not overlap.
\* A call adopts no scope, surfaces no open conflict and records no stale coordinator
\* that the ledger it read showed settled, also after a crash in the middle of an
\* earlier call; and it never adopts a scope on which its node surfaced another's
\* work before, also not when the other has released or lost the lease since, unless
\* the node was isolated again and granted itself the scope anew at a higher epoch,
\* which hides the other's work.  Calls that overlap do settle twice.
SettledOnce ==
    \A n \in Node :
        /\ \A a, b \in Written(n, "adopted") : (a.scope = b.scope /\ a # b) => SideBySide(a, b)
        /\ \A a, b \in Written(n, "stale") : (a.about = b.about /\ a # b) => SideBySide(a, b)
        /\ \A a, b \in Written(n, "conflict") :
              (a.about = b.about /\ a.at < b.at) =>
                 \/ SideBySide(a, b)
                 \/ \E r \in notes[n] : r.kind = "resolved" /\ r.about = <<n, a.at>>
        /\ \A a \in Written(n, "adopted"), c \in Written(n, "conflict") :
              a.scope = c.scope =>
                 \/ SideBySide(a, c)
                 \/ \E e, f \in IsoEvents(n, a.scope) : f.epoch < e.epoch /\ e.at < a.at
============================================================================
