--------------------------- MODULE FleetDispatch ---------------------------
(***************************************************************************)
(* Work handed from one node to another: fleet/dispatch_remote.py,         *)
(* reduce_dispatches of fleet/reducers.py and the executor                 *)
(* supervisor._poll_dispatches.                                            *)
(*                                                                         *)
(* Every transition reads the reduced state, then appends its event, and   *)
(* takes no lock in between.  A thread is one call: a transition a person  *)
(* asked for, or a dispatch/poll that accepts, starts and runs one         *)
(* dispatch.  The daemon of a node may end between any two steps.          *)
(* Events and rows are in one database, which push and pull replicate.     *)
(*                                                                         *)
(* That the origin holds a lease when it asks is a guard of the request    *)
(* alone; the lease is FleetCoordination's.                                *)
(***************************************************************************)
EXTENDS Naturals, FiniteSets, FiniteSetsExt

CONSTANTS
    Machine,    \* nodes of the fleet, as numbers: the tie-break of event ids
    Dispatch,   \* dispatch ids
    NoDispatch,
    Origin,     \* the node that asks for each dispatch
    Target,     \* the node each dispatch is for
    Call,       \* threads that serve calls
    Serves,     \* the node of each call
    Ahead,      \* how far each node's clock is ahead of the slowest
    ByHand,     \* <<node, marker>> a person or a sweep asks for there
    MaxDeaths   \* bound: ends of a daemon

Markers == {"requested", "accepted", "started", "completed", "failed", "canceled"}

ConstantsOK ==
    /\ Machine \subseteq Nat /\ Ahead \in [Machine -> Nat] /\ MaxDeaths \in Nat
    /\ Origin \in [Dispatch -> Machine] /\ Target \in [Dispatch -> Machine]
    /\ Serves \in [Call -> Machine] /\ NoDispatch \notin Dispatch
    /\ ByHand \subseteq Machine \X Markers

VARIABLES
    events,   \* dispatch events in the ledger of each node
    rows,     \* remote_dispatches rows of each node
    hub,      \* [events, rows] of the hub
    call,     \* what each thread is doing
    deaths    \* daemons that ended so far

vars == <<events, rows, hub, call, deaths>>

Terminal == {"completed", "failed", "canceled"}

(***************************************************************************)
(* reduce_dispatches.                                                      *)
(***************************************************************************)
Rank(m) == CASE m = "requested" -> 0 [] m = "accepted" -> 1 [] m = "started" -> 2 [] OTHER -> 3

\* (created_at, id)
Newer(e, f) == e.at > f.at \/ (e.at = f.at /\ e.by > f.by)

\* Mutant: the newest marker decides.
BeatsByTime(e, f) == Newer(e, f)

Beats(e, f) == Rank(e.marker) > Rank(f.marker) \/ (Rank(e.marker) = Rank(f.marker) /\ Newer(e, f))

Of(L, d) == {e \in L : e.id = d}
State(L, d) ==
    IF Of(L, d) = {} THEN "none"
    ELSE (CHOOSE e \in Of(L, d) : \A f \in Of(L, d) \ {e} : Beats(e, f)).marker

(***************************************************************************)
(* _advance: check the reduced state, then append.  A node stamps its own  *)
(* events in order; the clocks of two nodes differ.                        *)
(***************************************************************************)
Stamp(n) == Ahead[n] + Cardinality({e \in events[n] : e.by = n})
Append(n, d, m) == events' = [events EXCEPT ![n] = @ \cup {[id |-> d, marker |-> m, by |-> n, at |-> Stamp(n)]}]

Legal(s, m) ==
    \/ m = "accepted" /\ s \in {"none", "requested"}
    \/ m = "started" /\ s = "accepted"
    \/ m \in {"completed", "failed"} /\ s = "started"
    \/ m = "canceled" /\ s \notin Terminal

\* Who may: the row must be known, and only its target advances it.
Mine(n, d, m) == d \in rows[n] /\ (m # "canceled" => Target[d] = n)

Idle == [pc |-> "idle", d |-> NoDispatch, want |-> "none", polls |-> FALSE]
At(c) == events[Serves[c]]

\* The call gets to its append only if the state allowed it when it looked.
Look(c, d, m) ==
    IF Mine(Serves[c], d, m) /\ Legal(State(At(c), d), m)
    THEN call' = [call EXCEPT ![c].pc = "append", ![c].d = d, ![c].want = m]
    ELSE call' = [call EXCEPT ![c] = Idle]

(***************************************************************************)
(* request_dispatch: the event first, then the row.                        *)
(***************************************************************************)
Request(c, d) ==
    /\ call[c] = Idle /\ Origin[d] = Serves[c]
    /\ Of(hub.events, d) = {} /\ \A n \in Machine : Of(events[n], d) = {}
    /\ Append(Serves[c], d, "requested")
    /\ call' = [call EXCEPT ![c].pc = "insert", ![c].d = d]
    /\ UNCHANGED <<rows, hub, deaths>>

InsertRow(c) ==
    /\ call[c].pc = "insert"
    /\ rows' = [rows EXCEPT ![Serves[c]] = @ \cup {call[c].d}]
    /\ call' = [call EXCEPT ![c] = Idle]
    /\ UNCHANGED <<events, hub, deaths>>

\* accept, start, complete, fail and cancel asked for by hand; the sweep of a
\* stale node cancels.
Advance(c, d, m) ==
    /\ call[c] = Idle /\ <<Serves[c], m>> \in ByHand
    /\ Look(c, d, m)
    /\ UNCHANGED <<events, rows, hub, deaths>>

(***************************************************************************)
(* dispatch/poll with its default of one dispatch: the earliest that waits *)
(* for this node.                                                          *)
(***************************************************************************)
Pending(n) == {d \in Dispatch : Target[d] = n /\ State(events[n], d) = "requested"}

AskedAt(n, d) == CHOOSE e \in Of(events[n], d) : e.marker = "requested"
First(n) == CHOOSE d \in Pending(n) :
               \A k \in Pending(n) \ {d} : ~Newer(AskedAt(n, d), AskedAt(n, k))

Poll(c) ==
    /\ call[c] = Idle /\ Pending(Serves[c]) # {}
    /\ LET d == First(Serves[c])
       IN IF Mine(Serves[c], d, "accepted")
          THEN call' = [call EXCEPT ![c] = [pc |-> "append", d |-> d, want |-> "accepted",
                                            polls |-> TRUE]]
          ELSE UNCHANGED call
    /\ UNCHANGED <<events, rows, hub, deaths>>

\* Mutant: a poll without a runner leaves the dispatch started.
AfterNoRunner(m) == IF m = "accepted" THEN "start" ELSE "idle"

\* The append, and for a poll the look at the next transition.
After(m) == IF m = "accepted" THEN "start" ELSE IF m = "started" THEN "run" ELSE "idle"

AppendEvent(c) ==
    /\ call[c].pc = "append"
    /\ Append(Serves[c], call[c].d, call[c].want)
    /\ LET next == After(call[c].want)
       IN call' = IF call[c].polls /\ next # "idle"
                  THEN [call EXCEPT ![c].pc = next] ELSE [call EXCEPT ![c] = Idle]
    /\ UNCHANGED <<rows, hub, deaths>>

LookToStart(c) ==
    /\ call[c].pc = "start"
    /\ Look(c, call[c].d, "started")
    /\ UNCHANGED <<events, rows, hub, deaths>>

\* The injected runner works, or there is none, or it raises.
Run(c) ==
    /\ call[c].pc = "run"
    /\ \E m \in {"completed", "failed"} :
          call' = [call EXCEPT ![c].pc = "finish", ![c].want = m]
    /\ UNCHANGED <<events, rows, hub, deaths>>

LookToFinish(c) ==
    /\ call[c].pc = "finish"
    /\ Look(c, call[c].d, call[c].want)
    /\ UNCHANGED <<events, rows, hub, deaths>>

(***************************************************************************)
(* Replication and the end of a daemon.                                    *)
(***************************************************************************)
Here(n) == [events |-> events[n], rows |-> rows[n]]
Joined(a, b) == [events |-> a.events \cup b.events, rows |-> a.rows \cup b.rows]

Push(n) ==
    /\ hub' = Joined(hub, Here(n))
    /\ hub' # hub
    /\ UNCHANGED <<events, rows, call, deaths>>

Pull(n) ==
    /\ Joined(hub, Here(n)) # Here(n)
    /\ events' = [events EXCEPT ![n] = @ \cup hub.events]
    /\ rows' = [rows EXCEPT ![n] = @ \cup hub.rows]
    /\ UNCHANGED <<hub, call, deaths>>

DaemonEnds(n) ==
    /\ deaths < MaxDeaths /\ deaths' = deaths + 1
    /\ \E c \in Call : Serves[c] = n /\ call[c] # Idle
    /\ call' = [c \in Call |-> IF Serves[c] = n THEN Idle ELSE call[c]]
    /\ UNCHANGED <<events, rows, hub>>

----------------------------------------------------------------------------
Init ==
    /\ events = [n \in Machine |-> {}]
    /\ rows = [n \in Machine |-> {}]
    /\ hub = [events |-> {}, rows |-> {}]
    /\ call = [c \in Call |-> Idle]
    /\ deaths = 0

CallStep(c) ==
    InsertRow(c) \/ AppendEvent(c) \/ LookToStart(c) \/ Run(c) \/ LookToFinish(c)

Next ==
    \/ \E c \in Call : CallStep(c) \/ Poll(c) \/ \E d \in Dispatch : Request(c, d) \/ \E m \in Markers : Advance(c, d, m)
    \/ \E n \in Machine : Push(n) \/ Pull(n) \/ DaemonEnds(n)

Spec == Init /\ [][Next]_vars

\* A thread that serves a call goes on with it.
Fairness == \A c \in Call : WF_vars(CallStep(c))

----------------------------------------------------------------------------
DispatchEvent == [id : Dispatch, marker : Markers, by : Machine, at : Nat]

\* Every variable has the values its code can give it.
TypeOK ==
    /\ events \in [Machine -> SUBSET DispatchEvent] /\ rows \in [Machine -> SUBSET Dispatch]
    /\ hub.events \subseteq DispatchEvent /\ hub.rows \subseteq Dispatch
    /\ \A c \in Call : call[c].d \in Dispatch \cup {NoDispatch} /\ call[c].polls \in BOOLEAN
    /\ deaths \in 0 .. MaxDeaths

\* Whatever order markers arrive in, what a node has seen ended stays ended,
\* and no node's view of a dispatch ever goes back to an earlier stage.
NeverReopened ==
    [][\A n \in Machine, d \in Dispatch :
          Of(events[n], d) # {} => Rank(State(events'[n], d)) >= Rank(State(events[n], d))]_vars

\* A poll that accepted a dispatch brings it to an end, unless the daemon ends.
TakenIsEnded ==
    \A c \in Call, d \in Dispatch :
        (call[c].polls /\ call[c].d = d) ~>
            (State(At(c), d) \in Terminal \/ deaths > 0)

\* Both: what a poll took ends, and it ends for good.
TakenEndsForGood == TakenIsEnded /\ NeverReopened
============================================================================
