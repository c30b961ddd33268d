------------------------ MODULE ApprovalRendezvous ------------------------
(***************************************************************************)
(* One ask meets one decision: orchestration/approvals.py (the broker),    *)
(* supervisor._broker_adapter_approval and _handle_approve,                *)
(* session_drive._ApprovalWaiter and the live previews of                  *)
(* diff_snapshots.py.                                                      *)
(*                                                                         *)
(* An ask is a tool call of a driven run that parks until it is decided; a *)
(* handler is a loopback thread that carries a decision in; a sweep is the *)
(* end of a turn or of the run.  Each database transaction and each        *)
(* critical section is a step of its own.                                  *)
(***************************************************************************)
EXTENDS Naturals, FiniteSets

CONSTANTS
    Ask,       \* tool calls that need an approval; an ask's id names its row
    NoAsk,
    Handler,   \* threads of the loopback server
    Run,       \* driven runs, each with a session of its own
    Shapes,    \* what the asks may be: functions of Ask to
               \* [run, corr, prop, kind]
    MaxEdits,  \* bound: changes of the file under review by others
    MaxEnds    \* bound: ends of turns and runs

ASSUME ApprovalAssumption == NoAsk \notin Ask /\ MaxEdits \in Nat /\ MaxEnds \in Nat

VARIABLES
    shape,     \* the run, correlation, proposal and kind of every ask
    file,      \* version of the file the proposals change
    row,       \* C4 row and its active preview: state, revision, base
    pending,   \* live preview of a row (diff_snapshots._pending)
    staged,    \* previews prepared before their row exists
    waiters,   \* (run, correlation) -> the waiter parked there, or NoAsk
    bound,     \* (run, correlation) -> the approval bound there, or NoAsk
    waiter,    \* waiter objects, named by the ask that made them
    stash,     \* (run, correlation) -> an approved value nobody waited for
    live,      \* registered runs
    ask,       \* the asking threads
    hand,      \* the deciding threads
    sweep,     \* the ends of turns and runs
    ends       \* how many there were

vars == <<shape, file, row, pending, staged, waiters, bound, waiter, stash,
          live, ask, hand, sweep, ends>>

(***************************************************************************)
(* "diff" is negotiated: the row carries a preview with a revision and a   *)
(* base.  "answers" is requestUserInput: the decision carries data.        *)
(***************************************************************************)
Kinds == {"diff", "answers", "plain"}

Key == UNION {{<<s[a].run, s[a].corr>> : a \in Ask} : s \in Shapes}
KeyOf(a) == <<shape[a].run, shape[a].corr>>
Negotiated(a) == shape[a].kind = "diff"

NoPreview == [rev |-> 0, base |-> 0]
Preview(r, b) == [rev |-> r, base |-> b]

\* What a waiter delivers.  "of" is the row whose decision it is; rich tells a
\* BrokerApprovalResult from the bare string.
Nothing == [of |-> NoAsk, yes |-> FALSE, rich |-> FALSE, rev |-> 0, base |-> 0]
Denied == Nothing
Approved(a, rich, p) ==
    [of |-> a, yes |-> TRUE, rich |-> rich, rev |-> p.rev, base |-> p.base]

Body(a) == Preview(row[a].rev, row[a].base)
OpenAt(k) == {b \in Ask : row[b].state = "open" /\ KeyOf(b) = k}
StagedKey(a, p) == <<KeyOf(a), shape[a].prop, p>>

(***************************************************************************)
(* The release seam: _release_broker_waiter, with DrivenSession            *)
(* .resolve_waiter, the stash of approvals nobody waited for and the       *)
(* discard of a refused preview.                                           *)
(***************************************************************************)
Deliver(k, v) ==
    IF k[1] \notin live
    THEN UNCHANGED <<waiter, stash, pending>>
    ELSE LET w == waiters[k]
             hits == w # NoAsk /\ ~waiter[w].done
         IN /\ waiter' = IF hits THEN [waiter EXCEPT ![w] = [done |-> TRUE, value |-> v]]
                                 ELSE waiter
            /\ stash' = IF ~hits /\ v.yes THEN [stash EXCEPT ![k] = v] ELSE stash
            /\ pending' = IF ~v.yes /\ bound[k] # NoAsk
                          THEN [pending EXCEPT ![bound[k]] = NoPreview]
                          ELSE pending

\* What an ask finds when it reads its own row approved: the stash of its
\* correlation, else the bare string.
Found(a) == LET k == KeyOf(a)
            IN IF stash[k].yes THEN stash[k]
               ELSE Approved(ask[a].id, FALSE, NoPreview)

(***************************************************************************)
(* The asking thread: _broker_adapter_approval.                            *)
(***************************************************************************)
IdleAsk == [pc |-> "idle", id |-> NoAsk, preview |-> NoPreview, waits |-> NoAsk, got |-> Denied]

Begin(a) ==
    /\ ask[a].pc = "idle" /\ shape[a].run \in live
    /\ LET p == IF Negotiated(a) THEN Preview(1, file) ELSE NoPreview
       IN /\ staged' = IF Negotiated(a) THEN staged \cup {StagedKey(a, p)} ELSE staged
          /\ ask' = [ask EXCEPT ![a].pc = "opening", ![a].preview = p]
    /\ UNCHANGED <<shape, file, row, pending, waiters, bound, waiter, stash, live, hand, sweep, ends>>

Unstage(a) == staged' = staged \ {StagedKey(a, ask[a].preview)}

\* An existing open row is this ask's row only if the request is the same.
SameRequest(a, b) ==
    /\ shape[b].prop = shape[a].prop /\ shape[b].kind = shape[a].kind
    /\ Body(b) = ask[a].preview

Existing(a) == OpenAt(KeyOf(a))

OpenRow(a) ==
    /\ ask[a].pc = "opening"
    /\ LET next == IF Negotiated(a) THEN "registering" ELSE "binding"
       IN \/ /\ Existing(a) = {}
             /\ row' = [row EXCEPT ![a] = [state |-> "open", rev |-> ask[a].preview.rev,
                                           base |-> ask[a].preview.base]]
             /\ ask' = [ask EXCEPT ![a].pc = next, ![a].id = a]
             /\ UNCHANGED staged
          \/ \E b \in Existing(a) :
                /\ SameRequest(a, b)
                /\ ask' = [ask EXCEPT ![a].pc = next, ![a].id = b]
                /\ UNCHANGED <<row, staged>>
    /\ UNCHANGED <<shape, file, pending, waiters, bound, waiter, stash, live, hand, sweep, ends>>

\* A conflicting request, or a database error: nothing to park on.
OpenRefused(a) ==
    /\ ask[a].pc = "opening"
    /\ Unstage(a)
    /\ ask' = [ask EXCEPT ![a].pc = "done", ![a].got = Denied]
    /\ UNCHANGED <<shape, file, row, pending, waiters, bound, waiter, stash, live, hand, sweep, ends>>

\* The preview is registered if the row still shows it; if it was refreshed
\* meanwhile the ask is refused and its row stays open.
Register(a) ==
    /\ ask[a].pc = "registering"
    /\ Unstage(a)
    /\ \/ /\ Body(ask[a].id) = ask[a].preview
          /\ pending' = [pending EXCEPT ![ask[a].id] =
                            IF @ = NoPreview THEN ask[a].preview ELSE @]
          /\ ask' = [ask EXCEPT ![a].pc = "binding"]
       \/ /\ Body(ask[a].id) # ask[a].preview
          /\ ask' = [ask EXCEPT ![a].pc = "done", ![a].got = Denied]
          /\ UNCHANGED pending
    /\ UNCHANGED <<shape, file, row, waiters, bound, waiter, stash, live, hand, sweep, ends>>

\* bind_broker_approval: the waiter of the correlation is reused.
Bind(a) ==
    /\ ask[a].pc = "binding"
    /\ LET k == KeyOf(a)
           w == IF waiters[k] = NoAsk THEN a ELSE waiters[k]
       IN /\ waiters' = [waiters EXCEPT ![k] = w]
          /\ bound' = [bound EXCEPT ![k] = ask[a].id]
          /\ ask' = [ask EXCEPT ![a].pc = "rechecking", ![a].waits = w]
    /\ UNCHANGED <<shape, file, row, pending, staged, waiter, stash, live, hand, sweep, ends>>

\* Mutant: it parks without looking.
RecheckNothing(a) ==
    /\ ask[a].pc = "rechecking"
    /\ ask' = [ask EXCEPT ![a].pc = "parked"]
    /\ UNCHANGED <<shape, file, row, pending, staged, waiters, bound, waiter, stash, live, hand, sweep, ends>>

\* Approve-before-park: the row may have been decided before the binding.
Recheck(a) ==
    /\ ask[a].pc = "rechecking"
    /\ LET w == ask[a].waits
           Set(v) == IF waiter[w].done THEN waiter
                     ELSE [waiter EXCEPT ![w] = [done |-> TRUE, value |-> v]]
       IN CASE row[ask[a].id].state = "approved" ->
                  /\ waiter' = Set(Found(a))
                  /\ stash' = [stash EXCEPT ![KeyOf(a)] = Nothing]
            [] row[ask[a].id].state = "denied" ->
                  waiter' = Set(Denied) /\ UNCHANGED stash
            [] OTHER -> UNCHANGED <<waiter, stash>>
    /\ ask' = [ask EXCEPT ![a].pc = "parked"]
    /\ UNCHANGED <<shape, file, row, pending, staged, waiters, bound, live, hand, sweep, ends>>

Return(a, v) == ask' = [ask EXCEPT ![a].pc = "leaving", ![a].got = v]

Wake(a) ==
    /\ ask[a].pc = "parked" /\ waiter[ask[a].waits].done
    /\ Return(a, waiter[ask[a].waits].value)
    /\ UNCHANGED <<shape, file, row, pending, staged, waiters, bound, waiter, stash, live, hand, sweep, ends>>

\* The sole clock: release against timeout is settled by the waiter's lock.
Expire(a) ==
    /\ ask[a].pc = "parked" /\ ~waiter[ask[a].waits].done
    /\ waiter' = [waiter EXCEPT ![ask[a].waits] = [done |-> TRUE, value |-> Denied]]
    /\ ask' = [ask EXCEPT ![a].pc = "expired"]
    /\ UNCHANGED <<shape, file, row, pending, staged, waiters, bound, stash, live, hand, sweep, ends>>

\* Mutant: a row decided meanwhile is not looked at again.
TimeOutOnlyOpen(a) ==
    /\ ask[a].pc = "expired" /\ row[ask[a].id].state = "open"
    /\ row' = [row EXCEPT ![ask[a].id].state = "denied"]
    /\ ask' = [ask EXCEPT ![a].pc = "timedOut"]
    /\ UNCHANGED <<shape, file, pending, staged, waiters, bound, waiter, stash, live, hand, sweep, ends>>

\* broker.timeout: it closes the row, or finds it decided and looks again.
TimeOut(a) ==
    /\ ask[a].pc = "expired"
    /\ \/ /\ row[ask[a].id].state = "open"
          /\ row' = [row EXCEPT ![ask[a].id].state = "denied"]
          /\ ask' = [ask EXCEPT ![a].pc = "timedOut"]
          /\ UNCHANGED stash
       \/ /\ row[ask[a].id].state = "approved"
          /\ Return(a, Found(a))
          /\ stash' = [stash EXCEPT ![KeyOf(a)] = Nothing]
          /\ UNCHANGED row
       \/ /\ row[ask[a].id].state = "denied"
          /\ Return(a, Denied)
          /\ UNCHANGED <<row, stash>>
    /\ UNCHANGED <<shape, file, pending, staged, waiters, bound, waiter, live, hand, sweep, ends>>

\* The commit of the timeout failed: the row is left to reconciliation.
TimeOutFails(a) ==
    /\ ask[a].pc = "expired" /\ row[ask[a].id].state = "open"
    /\ Return(a, Denied)
    /\ UNCHANGED <<shape, file, row, pending, staged, waiters, bound, waiter, stash, live, hand, sweep, ends>>

TimeOutRelease(a) ==
    /\ ask[a].pc = "timedOut"
    /\ Deliver(KeyOf(a), Denied)
    /\ Return(a, Denied)
    /\ UNCHANGED <<shape, file, row, staged, waiters, bound, live, hand, sweep, ends>>

\* finally: the stash of the correlation is dropped, the binding cleared if it
\* is still this approval's.
Leave(a) ==
    /\ ask[a].pc = "leaving"
    /\ LET k == KeyOf(a)
           mine == bound[k] = ask[a].id
       IN /\ stash' = [stash EXCEPT ![k] = Nothing]
          /\ bound' = IF mine THEN [bound EXCEPT ![k] = NoAsk] ELSE bound
          /\ waiters' = IF mine THEN [waiters EXCEPT ![k] = NoAsk] ELSE waiters
    /\ ask' = [ask EXCEPT ![a] = [IdleAsk EXCEPT !.pc = "done", !.id = ask[a].id, !.got = ask[a].got]]
    /\ UNCHANGED <<shape, file, row, pending, staged, waiter, live, hand, sweep, ends>>

(***************************************************************************)
(* The deciding thread: _handle_approve, _resolve_diff_accept and the      *)
(* broker's check_accept, refresh and resolve.                             *)
(***************************************************************************)
IdleHand == [pc |-> "idle", id |-> NoAsk, seen |-> NoPreview, verdict |-> Nothing]

\* A human decides on the row as it reads now.  An Accept of another revision,
\* of a decided row, or without the writer claim is answered and changes nothing.
Receive(h, a) ==
    /\ hand[h].pc = "idle" /\ row[a].state = "open"
    /\ \/ hand' = [hand EXCEPT ![h] = [pc |-> "deciding", id |-> a, seen |-> Body(a),
                                       verdict |-> Denied]]
       \/ /\ ~Negotiated(a)
          /\ hand' = [hand EXCEPT ![h] =
                        [pc |-> "deciding", id |-> a, seen |-> Body(a),
                         verdict |-> Approved(a, shape[a].kind = "answers", NoPreview)]]
       \/ /\ Negotiated(a) /\ shape[a].run \in live
          /\ hand' = [hand EXCEPT ![h] = [pc |-> "validating", id |-> a, seen |-> Body(a),
                                          verdict |-> Nothing]]
    /\ UNCHANGED <<shape, file, row, pending, staged, waiters, bound, waiter, stash, live, ask, sweep, ends>>

Verdict(h, v) == hand' = [hand EXCEPT ![h].pc = "deciding", ![h].verdict = v]

\* validate_release: the live preview, or the staged one adopted for this row,
\* must be the accepted one; then the file is read again.
Adopted(a, p) ==
    IF pending[a] # NoPreview THEN pending[a]
    ELSE IF StagedKey(a, p) \in staged THEN p ELSE NoPreview

Validate(h) ==
    /\ hand[h].pc = "validating"
    /\ LET a == hand[h].id
           p == Adopted(a, hand[h].seen)
       IN /\ pending' = [pending EXCEPT ![a] = p]
          /\ \/ p # hand[h].seen /\ Verdict(h, Denied)
             \/ /\ p = hand[h].seen /\ p.base = file
                /\ Verdict(h, Approved(a, TRUE, p))
             \/ /\ p = hand[h].seen /\ p.base # file
                /\ \/ Verdict(h, Denied)
                   \/ hand' = [hand EXCEPT ![h].pc = "refreshing",
                                           ![h].seen = Preview(p.rev + 1, file)]
    /\ UNCHANGED <<shape, file, row, staged, waiters, bound, waiter, stash, live, ask, sweep, ends>>

\* broker.refresh: the next revision, or the same one replayed.
\* Mutant: a replay is told by its revision alone.
RefreshableByRevision(a, p) == p.rev \in {row[a].rev, row[a].rev + 1}

Refreshable(a, p) == p = Body(a) \/ p.rev = row[a].rev + 1

Refresh(h) ==
    /\ hand[h].pc = "refreshing"
    /\ LET a == hand[h].id
           p == hand[h].seen
       IN IF row[a].state = "open" /\ Refreshable(a, p)
          THEN /\ row' = [row EXCEPT ![a].rev = p.rev, ![a].base = p.base]
               /\ hand' = [hand EXCEPT ![h].pc = "committing"]
          ELSE hand' = [hand EXCEPT ![h] = IdleHand] /\ UNCHANGED row
    /\ UNCHANGED <<shape, file, pending, staged, waiters, bound, waiter, stash, live, ask, sweep, ends>>

\* commit_refresh: the live preview follows, unless it was discarded.
CommitRefresh(h) ==
    /\ hand[h].pc = "committing"
    /\ pending' = [pending EXCEPT ![hand[h].id] =
                      IF @ = NoPreview THEN @ ELSE hand[h].seen]
    /\ hand' = [hand EXCEPT ![h] = IdleHand]
    /\ UNCHANGED <<shape, file, row, staged, waiters, bound, waiter, stash, live, ask, sweep, ends>>

\* resolve, deny_invalid: one guarded update of the row.
\* Mutant: the update trusts check_accept.
DecidableAnyRevision(a, seen, v) == row[a].state = "open"

Decidable(a, seen, v) ==
    row[a].state = "open" /\ (v.yes /\ Negotiated(a) => seen = Body(a))

Decide(h) ==
    /\ hand[h].pc = "deciding"
    /\ LET a == hand[h].id
           v == hand[h].verdict
       IN IF Decidable(a, hand[h].seen, v)
          THEN /\ row' = [row EXCEPT ![a].state = IF v.yes THEN "approved" ELSE "denied"]
               /\ hand' = [hand EXCEPT ![h].pc = "releasing"]
          ELSE hand' = [hand EXCEPT ![h] = IdleHand] /\ UNCHANGED row
    /\ UNCHANGED <<shape, file, pending, staged, waiters, bound, waiter, stash, live, ask, sweep, ends>>

Release(h) ==
    /\ hand[h].pc = "releasing"
    /\ Deliver(KeyOf(hand[h].id), hand[h].verdict)
    /\ hand' = [hand EXCEPT ![h] = IdleHand]
    /\ UNCHANGED <<shape, file, row, staged, waiters, bound, live, ask, sweep, ends>>

(***************************************************************************)
(* The ends: _writer_turn_finally, _finalize_driven, and the reconcile of  *)
(* orphaned rows they call.                                                *)
(***************************************************************************)
IdleSweep == [pc |-> "idle", spared |-> {}, todo |-> {}, at |-> NoAsk]

AsksOf(r) == {a \in Ask : shape[a].run = r}
DiscardRun(r) ==
    /\ pending' = [a \in Ask |-> IF a \in AsksOf(r) THEN NoPreview ELSE pending[a]]
    /\ staged' = {s \in staged : s[1][1] # r}
    /\ stash' = [k \in Key |-> IF k[1] = r THEN Nothing ELSE stash[k]]

LiveIds(runs) == {bound[k] : k \in {k \in Key : k[1] \in runs}} \ {NoAsk}

\* A turn ends; the run goes on.
TurnFinally(r) ==
    /\ sweep[r].pc = "idle" /\ r \in live
    /\ ends < MaxEnds /\ ends' = ends + 1
    /\ DiscardRun(r)
    /\ sweep' = [sweep EXCEPT ![r] = [@ EXCEPT !.pc = "reading", !.spared = LiveIds(live \ {r})]]
    /\ UNCHANGED <<shape, file, row, waiters, bound, waiter, live, ask, hand>>

\* The run is finalized by close, kill or a fatal failure.
Finalize(r) ==
    /\ sweep[r].pc = "idle" /\ r \in live
    /\ ends < MaxEnds /\ ends' = ends + 1
    /\ DiscardRun(r)
    /\ sweep' = [sweep EXCEPT ![r].pc = "deregistering"]
    /\ UNCHANGED <<shape, file, row, waiters, bound, waiter, live, ask, hand>>

Deregister(r) ==
    /\ sweep[r].pc = "deregistering"
    /\ live' = live \ {r}
    /\ LET parked == {waiters[k] : k \in {k \in Key : k[1] = r}} \ {NoAsk}
       IN waiter' = [w \in Ask |-> IF w \in parked /\ ~waiter[w].done
                                   THEN [done |-> TRUE, value |-> Denied] ELSE waiter[w]]
    /\ waiters' = [k \in Key |-> IF k[1] = r THEN NoAsk ELSE waiters[k]]
    /\ bound' = [k \in Key |-> IF k[1] = r THEN NoAsk ELSE bound[k]]
    /\ sweep' = [sweep EXCEPT ![r] = [@ EXCEPT !.pc = "reading", !.spared = LiveIds(live \ {r})]]
    /\ UNCHANGED <<shape, file, row, pending, staged, stash, ask, hand, ends>>

\* reconcile_orphans: the rows are read after the live bindings were.
ReadRows(r) ==
    /\ sweep[r].pc = "reading"
    /\ LET open == {a \in Ask : row[a].state = "open"} \ sweep[r].spared
       IN sweep' = [sweep EXCEPT ![r] = IF open = {} THEN IdleSweep
                                        ELSE [IdleSweep EXCEPT !.pc = "closing", !.todo = open]]
    /\ UNCHANGED <<shape, file, row, pending, staged, waiters, bound, waiter, stash, live, ask, hand, ends>>

\* timeout or resolve(deny, stale) of one orphan, whichever its age asks for.
CloseOrphan(r, a) ==
    /\ sweep[r].pc = "closing" /\ a \in sweep[r].todo
    /\ LET rest == sweep[r].todo \ {a}
       IN IF row[a].state = "open"
          THEN /\ row' = [row EXCEPT ![a].state = "denied"]
               /\ sweep' = [sweep EXCEPT ![r] = [@ EXCEPT !.pc = "releasing", !.todo = rest, !.at = a]]
          ELSE /\ sweep' = [sweep EXCEPT ![r] = IF rest = {} THEN IdleSweep
                                                ELSE [@ EXCEPT !.todo = rest]]
               /\ UNCHANGED row
    /\ UNCHANGED <<shape, file, pending, staged, waiters, bound, waiter, stash, live, ask, hand, ends>>

ReleaseOrphan(r) ==
    /\ sweep[r].pc = "releasing"
    /\ Deliver(KeyOf(sweep[r].at), Denied)
    /\ sweep' = [sweep EXCEPT ![r] = IF @.todo = {} THEN IdleSweep
                                     ELSE [@ EXCEPT !.pc = "closing", !.at = NoAsk]]
    /\ UNCHANGED <<shape, file, row, staged, waiters, bound, live, ask, hand, ends>>

\* Somebody else changes the file under review.
Edit ==
    /\ file < MaxEdits
    /\ file' = file + 1
    /\ UNCHANGED <<shape, row, pending, staged, waiters, bound, waiter, stash, live, ask, hand, sweep, ends>>

(***************************************************************************)
(* Specification.                                                          *)
(***************************************************************************)
Init ==
    /\ shape \in Shapes
    /\ file = 0
    /\ row = [a \in Ask |-> [state |-> "none", rev |-> 0, base |-> 0]]
    /\ pending = [a \in Ask |-> NoPreview]
    /\ staged = {}
    /\ waiters = [k \in Key |-> NoAsk]
    /\ bound = [k \in Key |-> NoAsk]
    /\ waiter = [a \in Ask |-> [done |-> FALSE, value |-> Nothing]]
    /\ stash = [k \in Key |-> Nothing]
    /\ live = {shape[a].run : a \in Ask}
    /\ ask = [a \in Ask |-> IdleAsk]
    /\ hand = [h \in Handler |-> IdleHand]
    /\ sweep = [r \in Run |-> IdleSweep]
    /\ ends = 0

AskStep(a) ==
    \/ OpenRow(a) \/ OpenRefused(a) \/ Register(a) \/ Bind(a) \/ Recheck(a)
    \/ Wake(a) \/ Expire(a) \/ TimeOut(a) \/ TimeOutFails(a)
    \/ TimeOutRelease(a) \/ Leave(a)

HandStep(h) ==
    \/ Validate(h) \/ Refresh(h) \/ CommitRefresh(h) \/ Decide(h) \/ Release(h)

SweepStep(r) ==
    \/ Deregister(r) \/ ReadRows(r) \/ ReleaseOrphan(r)
    \/ \E a \in Ask : CloseOrphan(r, a)

Next ==
    \/ \E a \in Ask : Begin(a) \/ AskStep(a)
    \/ \E h \in Handler : HandStep(h) \/ \E a \in Ask : Receive(h, a)
    \/ \E r \in Run : TurnFinally(r) \/ Finalize(r) \/ SweepStep(r)
    \/ Edit

Spec == Init /\ [][Next]_vars

\* Threads run; a waiting ask's clock runs out.  Nothing makes a human decide,
\* a turn end or a database commit.
Fairness ==
    /\ \A a \in Ask : WF_vars(AskStep(a))
    /\ \A h \in Handler : WF_vars(HandStep(h))
    /\ \A r \in Run : WF_vars(SweepStep(r))

FairSpec == Spec /\ Fairness

(***************************************************************************)
(* Properties.                                                             *)
(***************************************************************************)
Previews == [rev : Nat, base : Nat]
Values == [of : Ask \cup {NoAsk}, yes : BOOLEAN, rich : BOOLEAN, rev : Nat, base : Nat]
AskPc == {"idle", "opening", "registering", "binding", "rechecking", "parked", "expired",
          "timedOut", "leaving", "done"}
HandPc == {"idle", "validating", "refreshing", "committing", "deciding", "releasing"}
AskLocals == [pc : AskPc, id : Ask \cup {NoAsk}, preview : Previews,
              waits : Ask \cup {NoAsk}, got : Values]
HandLocals == [pc : HandPc, id : Ask \cup {NoAsk}, seen : Previews, verdict : Values]
RowState == {"none", "open", "approved", "denied"}
Rows == [state : RowState, rev : Nat, base : Nat]
WaiterObject == [done : BOOLEAN, value : Values]

\* Every variable has the values its code can give it.
ApprovalTypeOK ==
    /\ shape \in Shapes /\ file \in Nat
    /\ row \in [Ask -> Rows]
    /\ pending \in [Ask -> Previews]
    /\ waiters \in [Key -> Ask \cup {NoAsk}] /\ bound \in [Key -> Ask \cup {NoAsk}]
    /\ waiter \in [Ask -> WaiterObject]
    /\ stash \in [Key -> Values]
    /\ ask \in [Ask -> AskLocals] /\ hand \in [Handler -> HandLocals]

\* Approved values on their way: stashed, in a waiter, returned, or held by a
\* handler whose update of the row won.
InFlight ==
    {v \in {stash[k] : k \in Key} \cup {waiter[w].value : w \in Ask}
           \cup {ask[a].got : a \in Ask}
           \cup {hand[h].verdict : h \in {h \in Handler : hand[h].pc = "releasing"}} : v.yes}

\* Whatever approved value is under way, a committed decision approved that
\* row, and what it carries of a negotiated change is the very revision and
\* base the row shows: refreshes, replays and late releases never pair an
\* approval with a body nobody accepted, nor cross into another run or action.
PayloadIsWhatWasApproved ==
    /\ \A v \in InFlight :
           /\ row[v.of].state = "approved"
           /\ v.rich /\ Negotiated(v.of) => Preview(v.rev, v.base) = Body(v.of)
    /\ \A k \in Key : stash[k].yes => KeyOf(stash[k].of) = k
    /\ \A a \in Ask : ask[a].got.yes => KeyOf(ask[a].got.of) = KeyOf(a)

\* The live preview the file is checked against is the row's active one, or an
\* older one while its refresh is being committed; two refreshes that both
\* started from one revision cannot leave them different.
PreviewFollowsRow ==
    \A a \in Ask : pending[a] # NoPreview =>
        /\ pending[a].rev <= row[a].rev
        /\ pending[a].rev = row[a].rev => pending[a] = Body(a)

\* The ask that returns "approved" was approved itself: another decision of
\* its correlation does not capture its waiter.
OwnRowDecides == \A a \in Ask : ask[a].got.yes => ask[a].got.of = ask[a].id

\* No decision is lost between the broker's open and the parking: once nobody is
\* about to release anything, a parked ask of a live run whose row was decided has
\* been woken, in whatever order the row, the binding and the release came; unless
\* another ask of that very row has returned and taken the binding with it.
Releasing ==
    \/ \E h \in Handler : hand[h].pc = "releasing"
    \/ \E r \in Run : sweep[r].pc # "idle"
    \/ \E a \in Ask : ask[a].pc \in {"rechecking", "timedOut"}

NoDeafWaiter ==
    ~Releasing => \A a \in Ask :
        (/\ ask[a].pc = "parked" /\ shape[a].run \in live
         /\ row[ask[a].id].state \in {"approved", "denied"}
         /\ \A b \in Ask \ {a} : ask[b].id = ask[a].id => ask[b].pc # "done") => waiter[ask[a].waits].done

\* Every ask ends: by a decision, by its run's end, or by its own clock.
AskEnds == \A a \in Ask : ask[a].pc # "idle" ~> ask[a].pc = "done"

(***************************************************************************)
(* Inductive strengthenings (proved in ApprovalRendezvousProofs).          *)
(***************************************************************************)
\* A row exists before anybody works on it, and an ask works on a row of its own
\* correlation and waits at a waiter of it.
AskHasRow(a) ==
    /\ ask[a].pc \in {"idle", "opening"} => row[a].state = "none"
    /\ row[a].state = "none" => pending[a] = NoPreview
    /\ ask[a].pc \notin {"idle", "opening", "done"} =>
          /\ ask[a].id \in Ask /\ KeyOf(ask[a].id) = KeyOf(a)
          /\ row[ask[a].id].state # "none"
    /\ ask[a].pc \in {"rechecking", "parked", "expired"} => ask[a].waits \in Ask
    /\ ask[a].waits \in Ask => KeyOf(ask[a].waits) = KeyOf(a)

HandHasRow(h) == hand[h].pc # "idle" => hand[h].id \in Ask /\ row[hand[h].id].state # "none"

RowInv ==
    /\ \A a \in Ask : AskHasRow(a)
    /\ \A h \in Handler : HandHasRow(h)
    /\ \A k \in Key : waiters[k] \in Ask => KeyOf(waiters[k]) = k

\* An approval of correlation k that somebody committed, with the body it was given for.
Sound(v, k) ==
    v.yes => /\ v.of \in Ask /\ KeyOf(v.of) = k /\ row[v.of].state = "approved"
             /\ v.rich /\ Negotiated(v.of) => Preview(v.rev, v.base) = Body(v.of)

\* Only such approvals are under way, and what a decision is about to commit names
\* its own row and the body it was checked against.
HandSound(h) ==
    /\ hand[h].pc = "releasing" => Sound(hand[h].verdict, KeyOf(hand[h].id))
    /\ hand[h].pc = "deciding" /\ hand[h].verdict.yes =>
          /\ hand[h].verdict.of = hand[h].id
          /\ hand[h].verdict.rich /\ Negotiated(hand[h].id) =>
                Preview(hand[h].verdict.rev, hand[h].verdict.base) = hand[h].seen

StashSound == \A k \in Key : Sound(stash[k], k)
WaitersSound == \A w \in Ask : Sound(waiter[w].value, KeyOf(w))
AsksSound == \A a \in Ask : Sound(ask[a].got, KeyOf(a))
HandsSound == \A h \in Handler : HandSound(h)
ValueInv == StashSound /\ WaitersSound /\ AsksSound /\ HandsSound

\* A preview of row a that is not newer than the row, and the row's own if as new.
Follows(p, a) == p.rev <= row[a].rev /\ (p.rev = row[a].rev => p = Body(a))

PendingFollow == \A a \in Ask : pending[a] # NoPreview => Follows(pending[a], a)
HandsFollow ==
    \A h \in Handler : hand[h].pc \in {"validating", "committing"} => Follows(hand[h].seen, hand[h].id)
PreviewInv == PendingFollow /\ HandsFollow

IInv == ApprovalTypeOK /\ RowInv /\ ValueInv /\ PreviewInv
============================================================================
