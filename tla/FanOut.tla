------------------------------- MODULE FanOut -------------------------------
(***************************************************************************)
(* One dispatch of a task to several lanes (orchestration/dispatch.py).    *)
(*                                                                         *)
(*   compare    every lane answers, the lanes rank the answers without     *)
(*              names, and a Borda count without one's own vote decides;   *)
(*   delegate   a reading lane plans, the other executes;                  *)
(*   apply      one thread and one git worktree per writer, and the        *)
(*              worktree is torn down after the writer's end is recorded.  *)
(*                                                                         *)
(* A leg is one run of a lane under the ceiling of turns.  Legs of one     *)
(* dispatch run one after the other, so each is one action; the writers    *)
(* run side by side, one action per call that reaches git or the recorder. *)
(***************************************************************************)
EXTENDS Naturals, FiniteSets, Sequences, SequencesExt, FiniteSetsExt, Functions

CONSTANTS
    Lanes,          \* how many lanes a comparison has
    Limits,         \* the ceilings of turns a caller gives
    NoLimit,
    Costs,          \* the turns one leg may use
    Writer,
    Retries         \* attempts at one removal

ConstantsOK ==
    /\ Lanes \in Nat \ {0}
    /\ Limits \subseteq Nat /\ NoLimit \notin Nat
    /\ Costs \subseteq Nat
    /\ IsFiniteSet(Writer)
    /\ Retries \in Nat \ {0}

VARIABLES
    strategy,       \* what the caller asked for
    limit,          \* max_turns_total
    legs,           \* the legs so far: [role, lane, status, turns]; one
                    \* that was run and did not raise has "ended", however it says it did
    spent,          \* CostCeiling.spent
    order,          \* the order in which answers got their labels, once they have
    votes,          \* the ballots with the label of their author: [by, ballot], and
                    \* for the property the lane that cast it: [lane]
    winner,         \* the label that won, or 0, once decided
    writer,         \* where each writer's thread is and what it has noted
    tree,           \* the writers whose worktree directory exists
    registered,     \* the writers whose worktree git lists
    span,           \* the recorder's events of each writer, in order
    returned        \* what the caller of apply is told, or "no"

vars == <<strategy, limit, legs, spent, order, votes, winner, writer, tree, registered,
          span, returned>>
compareVars == <<legs, spent, order, votes, winner>>
applyVars   == <<writer, tree, registered, span, returned>>

LaneNo     == 1 .. Lanes
NoOrder    == << >>
Fresh      == [pc |-> "create", status |-> "UNKNOWN", quarantined |-> FALSE, attempt |-> 0]

Leg == [role : {"candidate", "ranker", "planner", "executor"}, lane : LaneNo,
           status : {"ended", "skipped", "error"}, turns : Costs \cup {0}]

TypeOK ==
    /\ strategy \in {"compare", "delegate", "apply"}
    /\ limit \in Limits \cup {NoLimit}
    /\ legs \in Seq(Leg)
    /\ spent \in Nat
    /\ order \in Seq(LaneNo)
    /\ \A i \in DOMAIN votes : votes[i] \in [by : 0 .. Lanes, ballot : Seq(LaneNo), lane : LaneNo]
    /\ winner \in 0 .. Lanes
    /\ \A w \in Writer :
        /\ writer[w].pc \in {"create", "work", "commit", "remove", "fallback", "report", "over"}
        /\ writer[w].status \in {"UNKNOWN", "CREATE_REFUSED", "OK", "ERROR"}
        /\ writer[w].quarantined \in BOOLEAN
        /\ writer[w].attempt \in 0 .. Retries
        /\ span[w] \in Seq({"open", "close_ok", "close_fail", "final_ok", "final_fail"})
    /\ tree \subseteq Writer /\ registered \subseteq Writer
    /\ returned \in {"no", "clean", "leaked"}

Init ==
    /\ strategy \in {"compare", "delegate", "apply"}
    /\ limit \in Limits \cup {NoLimit}
    /\ legs = << >> /\ spent = 0 /\ order = NoOrder /\ votes = << >> /\ winner = 0
    /\ writer = [w \in Writer |-> Fresh]
    /\ tree = {} /\ registered = {}
    /\ span = [w \in Writer |-> << >>]
    /\ returned = "no"

-----------------------------------------------------------------------------
(* Legs *)

CanSpend == limit = NoLimit \/ spent < limit

\* A leg is skipped without a run once the turns are spent; one that raises costs
\* nothing; one that ends, however it says it ended, costs what it used.
RunLeg(role, lane) ==
    IF ~CanSpend
    THEN /\ legs' = Append(legs, [role |-> role, lane |-> lane, status |-> "skipped", turns |-> 0])
         /\ UNCHANGED spent
    ELSE \/ /\ legs' = Append(legs, [role |-> role, lane |-> lane, status |-> "error", turns |-> 0])
            /\ UNCHANGED spent
         \/ \E turns \in Costs :
              /\ legs' = Append(legs, [role |-> role, lane |-> lane, status |-> "ended",
                                       turns |-> turns])
              /\ spent' = spent + turns

-----------------------------------------------------------------------------
(* Compare *)

Candidates == SelectSeq(legs, LAMBDA l : l.role = "candidate")
Completed  == {l \in LaneNo : l <= Len(Candidates) /\ Candidates[l].status = "ended"}
Labels     == 1 .. Len(order)
Ranked     == Len(legs) - Lanes

\* Mutant: the places of the lanes stand for their labels.
LabelOfRanker(lane) == IF lane \in Labels THEN lane ELSE 0

\* The label a ranking lane authored; 0 when its answer is not among the labels.
LabelOf(lane) == IF \E a \in Labels : order[a] = lane
                 THEN CHOOSE a \in Labels : order[a] = lane ELSE 0

Candidate ==
    /\ strategy = "compare" /\ Len(legs) < Lanes
    /\ RunLeg("candidate", Len(legs) + 1)
    /\ UNCHANGED <<strategy, limit, order, votes, winner, applyVars>>

\* Skipped and raised answers get no label; the others get one in some order.
Anonymize ==
    /\ strategy = "compare" /\ Len(legs) = Lanes /\ order = NoOrder /\ Completed # {}
    /\ \E o \in SetToSeqs(Completed) : order' = o
    /\ UNCHANGED <<strategy, limit, legs, spent, votes, winner, applyVars>>

\* A ballot that is no permutation of the labels is dropped; the others keep the
\* label of the candidate their ranker authored.
Ballot(lane, ballot) ==
    Append(votes, [by |-> LabelOf(lane), ballot |-> ballot, lane |-> lane])

Rank ==
    /\ strategy = "compare" /\ order # NoOrder /\ Ranked < Lanes
    /\ RunLeg("ranker", Ranked + 1)
    /\ \/ Last(legs').status = "ended" /\ \E b \in SetToSeqs(Labels) : votes' = Ballot(Ranked + 1, b)
       \/ UNCHANGED votes
    /\ UNCHANGED <<strategy, limit, order, winner, applyVars>>

\* A place on a ballot earns the number of labels below it, except to the label of
\* the ballot's author.
Points(label, v) ==
    IF v.by = label THEN 0
    ELSE Cardinality(Labels) - (CHOOSE p \in DOMAIN v.ballot : v.ballot[p] = label)
Total(label) == FoldLeft(LAMBDA sum, v : sum + Points(label, v), 0, votes)

\* The most points win, the first label among equals; without a ballot, the first.
Decide ==
    /\ strategy = "compare" /\ order # NoOrder /\ Ranked = Lanes /\ winner = 0
    /\ winner' = CHOOSE a \in Labels :
                    /\ \A b \in Labels : Total(b) <= Total(a)
                    /\ \A b \in 1 .. a - 1 : Total(b) < Total(a)
    /\ UNCHANGED <<strategy, limit, legs, spent, order, votes, applyVars>>

-----------------------------------------------------------------------------
(* Delegate: the executor runs whatever became of the plan *)

Delegate ==
    /\ strategy = "delegate" /\ Len(legs) < 2
    /\ RunLeg(IF legs = << >> THEN "planner" ELSE "executor", 1)
    /\ UNCHANGED <<strategy, limit, order, votes, winner, applyVars>>

-----------------------------------------------------------------------------
(* Apply: the thread of one writer *)

Go(w, to) == writer' = [writer EXCEPT ![w].pc = to]
Note(w, events) == span' = [span EXCEPT ![w] = @ \o events]

\* A path that is too long is refused before git, and git may refuse.  Any other
\* error ends the thread: no event, and no word of the writer in the result.
Create(w) ==
    /\ writer[w].pc = "create"
    /\ \/ /\ tree' = tree \cup {w} /\ registered' = registered \cup {w}
          /\ Go(w, "work")
          /\ Note(w, <<"open">>)
       \/ /\ writer' = [writer EXCEPT ![w].pc = "over", ![w].status = "CREATE_REFUSED"]
          /\ Note(w, <<"close_fail">>)
          /\ UNCHANGED <<tree, registered>>
       \/ /\ Go(w, "over")
          /\ UNCHANGED <<tree, registered, span>>
    /\ UNCHANGED returned

\* run_in returns with a status, or raises; then the end of the work is recorded.
Work(w) ==
    /\ writer[w].pc = "work"
    /\ \E s \in {"OK", "ERROR"} : writer' = [writer EXCEPT ![w].pc = "commit", ![w].status = s]
    /\ UNCHANGED <<tree, registered, span, returned>>

Commit(w) ==
    /\ writer[w].pc = "commit"
    /\ Note(w, <<IF writer[w].status = "OK" THEN "close_ok" ELSE "close_fail">>)
    /\ Go(w, "remove")
    /\ UNCHANGED <<tree, registered, returned>>

\* git worktree remove --force: it succeeds, or fails with the directory gone, the
\* registration gone (git goes on after a directory it could not delete), or neither.
RemoveTree(w) ==
    /\ writer[w].pc = "remove"
    /\ \/ /\ tree' = tree \ {w} /\ registered' = registered \ {w}
          /\ Go(w, "report")
       \/ /\ tree' \in {tree, tree \ {w}}
          /\ registered' \in {registered, registered \ {w}}
          /\ Go(w, "fallback")
    /\ UNCHANGED <<span, returned>>

\* The fallback: the directory is removed, which may raise, then git is asked to
\* prune, whose exit code nobody reads.  A directory that is gone counts as removed.
Fallback(w) ==
    /\ writer[w].pc = "fallback"
    /\ \/ /\ tree' = tree \ {w}
          /\ registered' \in {registered, registered \ {v \in Writer : v \notin tree'}}
          /\ Go(w, "report")
       \/ /\ tree' \in {tree, tree \ {w}}
          /\ UNCHANGED registered
          /\ writer' = [writer EXCEPT
                ![w].attempt = @ + 1,
                ![w].pc = IF writer[w].attempt + 1 < Retries THEN "remove" ELSE "report",
                ![w].quarantined = (writer[w].attempt + 1 = Retries)]
    /\ UNCHANGED <<span, returned>>

Report(w) ==
    /\ writer[w].pc = "report"
    /\ Note(w, <<IF writer[w].quarantined THEN "final_fail" ELSE "final_ok">>)
    /\ Go(w, "over")
    /\ UNCHANGED <<tree, registered, returned>>

WriterStep(w) ==
    /\ strategy = "apply"
    /\ Create(w) \/ Work(w) \/ Commit(w) \/ RemoveTree(w) \/ Fallback(w) \/ Report(w)
    /\ UNCHANGED <<strategy, limit, compareVars>>

\* All threads are joined, then git lists what is left.
Return ==
    /\ strategy = "apply" /\ returned = "no"
    /\ \A w \in Writer : writer[w].pc = "over"
    /\ returned' = IF registered = {} THEN "clean" ELSE "leaked"
    /\ UNCHANGED <<strategy, limit, compareVars, writer, tree, registered, span>>

Next ==
    \/ Candidate \/ Anonymize \/ Rank \/ Decide
    \/ Delegate
    \/ \E w \in Writer : WriterStep(w)
    \/ Return

Spec == Init /\ [][Next]_vars

-----------------------------------------------------------------------------
(* Properties *)

\* No leg starts once the turns are spent, so what is spent exceeds the ceiling by
\* less than the one leg that was admitted last.
WithinBudget ==
    limit # NoLimit =>
        \A i \in DOMAIN legs :
            legs[i].status # "skipped" =>
                FoldLeft(LAMBDA sum, l : sum + l.turns, 0, SubSeq(legs, 1, i - 1)) < limit

\* What the other lanes gave the answer of lane l.
FromOthers(l) ==
    FoldLeft(LAMBDA sum, v :
                 IF v.lane = l THEN sum
                 ELSE sum + Cardinality({p \in DOMAIN v.ballot :
                                \E q \in 1 .. p - 1 : order[v.ballot[q]] = l}),
             0, votes)

\* The winner is an answer that was completed, and no completed answer has more points
\* from lanes other than its own.
JudgedByOthers ==
    winner # 0 =>
        /\ order[winner] \in Completed
        /\ \A l \in Completed : FromOthers(l) <= FromOthers(order[winner])

\* A worktree goes away only after the end of its writer is recorded.
CommitBeforeTeardown ==
    \A w \in Writer :
        (Len(span[w]) > 0 /\ writer[w].status # "CREATE_REFUSED" /\ w \notin tree) =>
            \E e \in {"close_ok", "close_fail"} : Contains(span[w], e)

\* Whatever is left of a worktree is told: a directory by its writer's last event, a
\* registration by the result.
LeftoversAreTold ==
    /\ \A w \in tree : writer[w].pc = "over" => Last(span[w]) = "final_fail"
    /\ returned = "clean" => registered = {}

\* A dispatch stays within its turns, is decided by what its lanes said, and tells
\* what it leaves behind.
FanOutIsTruthful ==
    WithinBudget /\ JudgedByOthers /\ CommitBeforeTeardown /\ LeftoversAreTold
=============================================================================
