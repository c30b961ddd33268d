--------------------------- MODULE DrivenSession ---------------------------
(***************************************************************************)
(* One conversation the daemon drives: session_drive.py and the handlers   *)
(* of supervisor.py that reserve, launch, approve, close and kill its      *)
(* turns, together with the writer claim those turns work under.           *)
(*                                                                         *)
(* Every loopback request runs on a thread of its own (Handler) and every  *)
(* turn on one worker thread, so all of them interleave.  What a method    *)
(* does under one lock, or in one transaction, is one action.  The lease   *)
(* keeps only what these threads see of it; WriterLease models it in full. *)
(*                                                                         *)
(* Claims and approvals have random ids.  An id no thread, session or      *)
(* lease refers to any more may be taken again: that loses no behaviour    *)
(* and keeps the number of turns unbounded.                                *)
(***************************************************************************)
EXTENDS Naturals, FiniteSets

CONSTANTS
    Handler,    \* threads serving loopback requests
    Worker,     \* the thread of the current turn
    NoThread,   \* nobody holds the reservation
    Claim,      \* ids of writer claims
    NoClaim,    \* no claim
    Other,      \* the claim of some other session
    Ask,        \* ids of approvals
    NoAsk       \* no approval

ASSUME ThreadsDiffer == Worker \notin Handler /\ NoThread \notin Handler \cup {Worker}
ASSUME ClaimsDiffer  == NoClaim \notin Claim /\ Other \notin Claim /\ NoClaim # Other
ASSUME AsksDiffer    == NoAsk \notin Ask

VARIABLES
    mode,      \* permission_mode: "source" claims per turn, "plan" per first write
    holder,    \* the claim that holds the workspace lease
    refused,   \* the lease requires recovery: nothing is granted or released
    state,     \* DrivenSession.state
    resv,      \* whose reservation is not committed yet
    token,     \* DrivenSession._writer_claim_token
    live,      \* the session is registered in _driven
    dead,      \* the adapter was killed or closed
    t8,        \* how the run was finalized
    row,       \* whether each approval row is open; the decision is data
    stopped,   \* history: a kill or close was answered OK
    lent,      \* history: an Accept was granted a claim for the session
    loc        \* locals of each thread

lease   == <<holder, refused>>
session == <<mode, state, resv, token, live>>
history == <<stopped, lent>>
vars    == <<lease, session, dead, t8, row, history, loc>>

Thread == Handler \cup {Worker}

Idle == [pc |-> "idle", kind |-> "none", claim |-> NoClaim, ask |-> NoAsk,
         was |-> "none", proven |-> TRUE, end |-> "none"]

----------------------------------------------------------------------------
At(t, pc) == loc[t].pc = pc
Go(t, pc) == loc' = [loc EXCEPT ![t].pc = pc]
Done(t)   == loc' = [loc EXCEPT ![t] = Idle]
\* The vendor turn goes on, the call its worker made is over.
InTurn(l)   == [l EXCEPT ![Worker].pc = "turn", ![Worker].claim = NoClaim, ![Worker].ask = NoAsk]
BackToTurn  == loc' = InTurn(loc)
Take(t, c, pc) == loc' = [loc EXCEPT ![t].claim = c, ![t].pc = pc]

Referred == {holder, token} \cup {loc[t].claim : t \in Thread}
Fresh    == Claim \ Referred

(***************************************************************************)
(* The lease as its callers see it.                                        *)
(***************************************************************************)
Free    == holder = NoClaim /\ ~refused
Owns(c) == c # NoClaim /\ holder = c /\ ~refused

\* acquire for thread t; what follows is up to the caller.
Granted(t, next) == Free /\ \E c \in Fresh : holder' = c /\ Take(t, c, next) /\ UNCHANGED refused
\* acquire is refused: somebody else works, or its marker cannot be written.
Busy == \/ ~Free /\ UNCHANGED lease
        \/ Free /\ refused' = TRUE /\ UNCHANGED holder

\* verify: a mismatch refuses every later writer.
VerifyFails(c) == ~Owns(c) /\ refused' = TRUE /\ UNCHANGED holder

\* An apply journal of the worker's is in flight for claim c.
Applying(c) == At(Worker, "apply") /\ loc[Worker].claim = c

\* Mutant: a claim is released without the proof that its turn is over.
ReleaseUnproven(c, proven, ok) ==
    \/ c = NoClaim /\ ok /\ UNCHANGED lease
    \/ c # NoClaim /\ holder # c /\ ok /\ UNCHANGED lease
    \/ c # NoClaim /\ holder = c /\ ok /\ holder' = NoClaim /\ UNCHANGED refused

\* _release_claim over release: ok is its result.  The registry write may fail.
ReleaseClaim(c, proven, ok) ==
    \/ c = NoClaim /\ ok /\ UNCHANGED lease
    \/ c # NoClaim /\ holder = NoClaim /\ ok /\ UNCHANGED lease
    \/ c # NoClaim /\ holder \notin {NoClaim, c} /\ ~ok /\ refused' = TRUE /\ UNCHANGED holder
    \/ /\ c # NoClaim /\ holder = c
       /\ IF ok THEN /\ proven /\ ~refused /\ ~Applying(c)
                     /\ holder' = NoClaim /\ UNCHANGED refused
                ELSE refused' = TRUE /\ UNCHANGED holder

\* Other sessions take the lease, give it back, or leave it refused.
OtherSession ==
    /\ \/ Free /\ holder' = Other /\ UNCHANGED refused
       \/ holder = Other /\ ~refused /\ holder' = NoClaim /\ UNCHANGED refused
       \/ holder = Other /\ refused' = TRUE /\ UNCHANGED holder
    /\ UNCHANGED <<session, dead, t8, row, history, loc>>

(***************************************************************************)
(* DrivenSession methods.                                                  *)
(***************************************************************************)
\* Mutant: only the end of the session is looked at.
CanReserveRunning == state # "terminal"

CanReserve == state \in {"open", "idle"}

Reserve(t) == state' = "running" /\ resv' = t /\ UNCHANGED <<mode, token, live>>

MayRollBack(t) == resv = t /\ state = "running"

\* rollback_turn is a no-op once a kill has ended the session.
RollBack(t) == IF MayRollBack(t)
               THEN state' = loc[t].was /\ resv' = NoThread /\ UNCHANGED <<mode, token, live>>
               ELSE UNCHANGED session

MarkTerminal == state' = "terminal" /\ resv' = NoThread /\ UNCHANGED <<mode, token, live>>

SetToken(c) == token' = c /\ UNCHANGED <<mode, state, resv, live>>

ClearToken(c) == IF token = c THEN SetToken(NoClaim) ELSE UNCHANGED session

\* deny_all_waiters: the worker's parked ask returns denied, its row stays.
WaitersDenied(l) == IF At(Worker, "asking") THEN InTurn(l) ELSE l

----------------------------------------------------------------------------
(***************************************************************************)
(* session/turn and the first turn of session/start.                       *)
(***************************************************************************)
Turn(h) ==
    /\ At(h, "idle") /\ CanReserve /\ Reserve(h)
    /\ loc' = [loc EXCEPT ![h].kind = "turn", ![h].was = state,
                          ![h].pc = IF mode = "source" THEN "look" ELSE "ready"]
    /\ UNCHANGED <<lease, dead, t8, row, history>>

\* session/start reserves with the claim it acquired before the session existed,
\* unless the adapter does not open.
StartTurn(h) ==
    /\ At(h, "start")
    /\ \/ /\ CanReserve /\ Reserve(h)
          /\ loc' = [loc EXCEPT ![h].was = state,
                        ![h].pc = IF mode = "plan" THEN "ready"
                                  ELSE IF token = loc[h].claim THEN "verify" ELSE "retained"]
       \/ Go(h, "fail") /\ UNCHANGED session
    /\ UNCHANGED <<lease, dead, t8, row, history>>

\* A request whose turn was denied answers; a start tears the session down.
Denied(h) == IF loc[h].kind = "start" THEN Go(h, "fail") ELSE Done(h)

\* A token that is already there is refused, never borrowed.
LookForToken(h) ==
    /\ At(h, "look")
    /\ Go(h, IF token = NoClaim THEN "acquire" ELSE "retained")
    /\ UNCHANGED <<lease, session, dead, t8, row, history>>

\* Mutant: a turn denied by a busy workspace keeps its reservation.
AcquireKeepsTurn(h) ==
    /\ At(h, "acquire")
    /\ \/ Granted(h, "bind") /\ UNCHANGED session
       \/ Busy /\ Denied(h) /\ UNCHANGED session
    /\ UNCHANGED <<dead, t8, row, history>>

AcquireForTurn(h) ==
    /\ At(h, "acquire")
    /\ \/ Granted(h, "bind") /\ UNCHANGED session
       \/ Busy /\ RollBack(h) /\ Denied(h)
    /\ UNCHANGED <<dead, t8, row, history>>

Retained(h) ==
    /\ At(h, "retained")
    /\ RollBack(h) /\ refused' = TRUE
    /\ Denied(h)
    /\ UNCHANGED <<holder, dead, t8, row, history>>

\* set_writer_claim, which raises over a different token: a request ends there and
\* a guard denies, and nobody is left to release the claim they had acquired.
Bind(t, from, to) ==
    /\ At(t, from)
    /\ \/ token \in {NoClaim, loc[t].claim} /\ SetToken(loc[t].claim) /\ Go(t, to)
       \/ /\ token \notin {NoClaim, loc[t].claim} /\ UNCHANGED session
          /\ IF t = Worker THEN BackToTurn ELSE Done(t)
    /\ UNCHANGED <<lease, dead, t8, row, history>>

VerifyForTurn(h) ==
    /\ At(h, "verify")
    /\ \/ Owns(loc[h].claim) /\ Go(h, "attach") /\ UNCHANGED lease
       \/ VerifyFails(loc[h].claim) /\ Go(h, "cancel")
    /\ UNCHANGED <<session, dead, t8, row, history>>

\* _track_current_adapter_child: no token or no child is fine; a child is
\* attached to the token's claim, and failing that closes the lease.
Attach(t, from, yes, no) ==
    /\ At(t, from)
    /\ \/ Go(t, yes) /\ UNCHANGED lease
       \/ token # NoClaim /\ refused' = TRUE /\ UNCHANGED holder
          /\ CASE no = "idle" -> Done(t) [] no = "turn" -> BackToTurn [] OTHER -> Go(t, no)
    /\ UNCHANGED <<session, dead, t8, row, history>>

\* Attachments and context, then commit_turn.
Commit(h) ==
    /\ At(h, "ready")
    /\ \/ Go(h, "cancel") /\ UNCHANGED session
       \/ MayRollBack(h) /\ resv' = NoThread /\ Go(h, "launch")
          /\ UNCHANGED <<mode, state, token, live>>
    /\ UNCHANGED <<lease, dead, t8, row, history>>

\* The user message becomes durable and the worker starts; either may raise.
Launch(h) ==
    /\ At(h, "launch")
    /\ \/ /\ loc' = [loc EXCEPT ![Worker] = [Idle EXCEPT !.pc = "begin"],
                                ![h].pc = "launched"]
          /\ UNCHANGED session
       \/ loc[h].kind = "turn" /\ MarkTerminal
          /\ loc' = [loc EXCEPT ![h].end = "failed", ![h].pc = "kill"]
       \/ loc[h].kind = "start" /\ Go(h, "fail") /\ (UNCHANGED session \/ MarkTerminal)
    /\ UNCHANGED <<lease, dead, t8, row, history>>

\* A start that finds the session already terminal tears it down.
Launched(h) ==
    /\ At(h, "launched")
    /\ IF loc[h].kind = "start" /\ state = "terminal" THEN Go(h, "fail") ELSE Done(h)
    /\ UNCHANGED <<lease, session, dead, t8, row, history>>

\* Mutant: a canceled turn only unbinds its claim.
CancelKeepsLease(h) ==
    /\ At(h, "cancel") /\ Go(h, "unbind")
    /\ UNCHANGED <<lease, session, dead, t8, row, history>>

\* _cancel_reserved_turn: release, clear, roll back; anything less is fatal, and
\* so are attachments that cannot be cleared.
CancelRelease(h) ==
    /\ At(h, "cancel")
    /\ \E ok \in BOOLEAN : /\ ReleaseClaim(loc[h].claim, TRUE, ok)
                           /\ loc' = [loc EXCEPT ![h].pc = IF ok THEN "unbind" ELSE "undo"]
    /\ UNCHANGED <<session, dead, t8, row, history>>

CancelUnbind(h) ==
    /\ At(h, "unbind")
    /\ IF loc[h].claim = NoClaim THEN UNCHANGED session ELSE ClearToken(loc[h].claim)
    /\ Go(h, IF loc[h].claim \in {NoClaim, token} THEN "rollback" ELSE "undo")
    /\ UNCHANGED <<lease, dead, t8, row, history>>

CancelRollBack(h) ==
    /\ At(h, "rollback")
    /\ \/ MayRollBack(h) /\ RollBack(h) /\ Denied(h)
       \/ Go(h, "undo") /\ UNCHANGED session
    /\ UNCHANGED <<lease, dead, t8, row, history>>

(***************************************************************************)
(* session/kill and session/close.                                         *)
(***************************************************************************)
Kill(h) ==
    /\ At(h, "idle") /\ live
    /\ loc' = [loc EXCEPT ![h].kind = "kill", ![h].pc = "deny", ![h].end = "canceled"]
    /\ UNCHANGED <<lease, session, dead, t8, row, history>>

DenyWaiters(h) ==
    /\ At(h, "deny")
    /\ loc' = [WaitersDenied(loc) EXCEPT ![h].pc = "mark"]
    /\ UNCHANGED <<lease, session, dead, t8, row, history>>

Mark(h) ==
    /\ At(h, "mark")
    /\ MarkTerminal /\ Go(h, "kill")
    /\ UNCHANGED <<lease, dead, t8, row, history>>

\* Closing asks the adapter first; only unproven termination makes it a kill.
Close(h) ==
    /\ At(h, "idle") /\ CanReserve
    /\ MarkTerminal
    /\ loc' = [loc EXCEPT ![h].kind = "close", ![h].pc = "closing"]
    /\ UNCHANGED <<lease, dead, t8, row, history>>

\* Nothing a killed adapter's processes did goes on once that is proven.
ProcessesGone(l) == IF At(Worker, "child") THEN InTurn(l) ELSE l

CloseAdapter(h) ==
    /\ At(h, "closing")
    /\ dead' = TRUE
    /\ \E end \in {"success", "failed"}, proven \in BOOLEAN :
          loc' = [(IF proven THEN ProcessesGone(loc) ELSE loc)
                     EXCEPT ![h].end = end, ![h].pc = IF proven THEN "join" ELSE "kill"]
    /\ UNCHANGED <<lease, session, t8, row, history>>

\* _kill_adapter_proven.  Requests on a running session join its worker next; a
\* canceled reservation has none, and a failed start notes whether the session
\* is still registered.
KillAdapter(h) ==
    /\ \E pc \in {"kill", "undo", "fail"} : At(h, pc)
    /\ dead' = TRUE
    /\ \E proven \in BOOLEAN :
          /\ refused' = (refused \/ ~proven)
          /\ loc' = [(IF proven THEN ProcessesGone(loc) ELSE loc)
                        EXCEPT ![h].proven = proven,
                               ![h].pc = IF At(h, "kill") THEN "join" ELSE "fin",
                               ![h].end = IF At(h, "kill") THEN @ ELSE "failed",
                               ![h].was = IF ~At(h, "fail") THEN @
                                          ELSE IF live THEN "registered" ELSE "unregistered"]
    /\ UNCHANGED <<holder, session, t8, row, history>>

\* The worker is joined for two seconds: it ends in time, or nothing is proven.
Join(h) ==
    /\ At(h, "join")
    /\ loc' = [loc EXCEPT ![h].pc = "fin",
                          ![h].proven = @ /\ At(Worker, "idle"),
                          ![h].end = IF loc[h].kind = "close" /\ ~(loc[h].proven /\ At(Worker, "idle"))
                                     THEN "failed" ELSE @]
    /\ UNCHANGED <<lease, session, dead, t8, row, history>>

(***************************************************************************)
(* _finalize_driven, for whichever thread t ends the conversation.         *)
(***************************************************************************)
Finalize(t) ==
    /\ At(t, "fin")
    /\ refused' = (refused \/ ~loc[t].proven) /\ UNCHANGED holder
    /\ IF live THEN MarkTerminal ELSE UNCHANGED session
    /\ Go(t, "t8")
    /\ UNCHANGED <<dead, t8, row, history>>

\* The first finalization wins; one that cannot be written is only logged.
WriteT8(t) ==
    /\ At(t, "t8")
    /\ \/ UNCHANGED t8
       \/ t8 = "none" /\ t8' = loc[t].end
    /\ Go(t, "deregister")
    /\ UNCHANGED <<lease, session, dead, row, history>>

\* Only the thread that deregisters the session cleans up after it.
Deregister(t) ==
    /\ At(t, "deregister")
    /\ live' = FALSE
    /\ loc' = [(IF live THEN WaitersDenied(loc) ELSE loc)
                  EXCEPT ![t].pc = IF live THEN "reconcile" ELSE "ended"]
    /\ UNCHANGED <<lease, mode, state, resv, token, dead, t8, row, history>>

\* reconcile_orphans closes every row without a live waiter, or the lease refuses.
Reconcile(t, from, to) ==
    /\ At(t, from)
    /\ \/ /\ row' = [a \in Ask |-> "closed"]
          /\ Go(t, to) /\ UNCHANGED lease
       \/ /\ refused' = TRUE
          /\ loc' = [loc EXCEPT ![t].pc = to, ![t].proven = FALSE]
          /\ UNCHANGED <<holder, row>>
    /\ UNCHANGED <<session, dead, t8, history>>

ReadToken(t) ==
    /\ At(t, "read")
    /\ Take(t, token, IF token = NoClaim THEN "ended" ELSE "release")
    /\ UNCHANGED <<lease, session, dead, t8, row, history>>

FinalRelease(t) ==
    /\ At(t, "release")
    /\ \E ok \in BOOLEAN : /\ ReleaseClaim(loc[t].claim, loc[t].proven, ok)
                           /\ Go(t, IF ok THEN "clear" ELSE "ended")
    /\ UNCHANGED <<session, dead, t8, row, history>>

FinalClear(t) ==
    /\ At(t, "clear")
    /\ ClearToken(loc[t].claim) /\ Go(t, "ended")
    /\ UNCHANGED <<lease, dead, t8, row, history>>

\* What a finalizing thread does next: a start that failed releases the claim of
\* a session it did not find registered.
Ended(t) ==
    /\ At(t, "ended")
    /\ stopped' = (stopped \/ (loc[t].kind \in {"kill", "close"} /\ loc[t].proven
                                /\ loc[t].end \in {"canceled", "success"}))
    /\ CASE loc[t].kind = "start" /\ loc[t].was = "unregistered" -> Go(t, "startrelease")
         [] loc[t].kind = "start" /\ loc[t].was \in {"open", "idle"} -> Go(t, "fail")
         [] OTHER -> Done(t)
    /\ UNCHANGED <<lease, session, dead, t8, row, lent>>

StartRelease(h) ==
    /\ At(h, "startrelease")
    /\ \E ok \in BOOLEAN : ReleaseClaim(loc[h].claim, loc[h].proven, ok)
    /\ Done(h)
    /\ UNCHANGED <<session, dead, t8, row, history>>

(***************************************************************************)
(* approve: a decision on an open row, and Accept on a negotiated one,     *)
(* which holds the lease before it compares the targets.                   *)
(***************************************************************************)
Decide(a) ==
    /\ row[a] = "open"
    /\ row' = [row EXCEPT ![a] = "closed"]
    /\ UNCHANGED <<lease, session, dead, t8, history, loc>>

\* check_accept
Accept(h) ==
    /\ At(h, "idle")
    /\ \E a \in Ask : /\ row[a] = "open"
                      /\ loc' = [loc EXCEPT ![h].kind = "accept", ![h].ask = a, ![h].pc = "checked"]
    /\ UNCHANGED <<lease, session, dead, t8, row, history>>

AcceptSession(h) ==
    /\ At(h, "checked")
    /\ Go(h, IF live THEN "ensure" ELSE "stale")
    /\ UNCHANGED <<lease, session, dead, t8, row, history>>

\* _ensure_diff_writer_claim
EnsureClaim(h) ==
    /\ At(h, "ensure")
    /\ Take(h, token, IF token = NoClaim THEN "want" ELSE "own")
    /\ UNCHANGED <<lease, session, dead, t8, row, history>>

AcceptVerify(h) ==
    /\ At(h, "own")
    /\ \/ Owns(loc[h].claim) /\ Go(h, "validate") /\ UNCHANGED lease
       \/ VerifyFails(loc[h].claim) /\ Done(h)
    /\ UNCHANGED <<session, dead, t8, row, history>>

AcceptAcquire(h) ==
    /\ At(h, "want")
    /\ \/ Granted(h, "hold") /\ lent' = TRUE
       \/ Busy /\ Done(h) /\ UNCHANGED lent
    /\ UNCHANGED <<session, dead, t8, row, stopped>>

\* The comparison with the workspace: approve, refresh the preview, or stale.
Validate(h) ==
    /\ At(h, "validate")
    /\ Go(h, "approve") \/ Go(h, "stale") \/ Done(h)
    /\ UNCHANGED <<lease, session, dead, t8, row, history>>

\* resolve: only an open row is decided.
Resolve(h) ==
    /\ At(h, "approve") \/ At(h, "stale")
    /\ row' = [row EXCEPT ![loc[h].ask] = "closed"]
    /\ Done(h)
    /\ UNCHANGED <<lease, session, dead, t8, history>>

(***************************************************************************)
(* The worker thread: run_driven_turn, the adapter's mutation guard and    *)
(* asks during the turn, and _writer_turn_finally after it.                *)
(***************************************************************************)
\* Mutant: an adapter that was killed takes another turn.
BeginAnyway ==
    /\ At(Worker, "begin") /\ Go(Worker, "turn")
    /\ UNCHANGED <<lease, session, dead, t8, row, history>>

\* A killed or closed adapter starts no turn.
Begin ==
    /\ At(Worker, "begin")
    /\ IF dead THEN loc' = [loc EXCEPT ![Worker].end = "failed", ![Worker].pc = "killadapter"]
               ELSE Go(Worker, "turn")
    /\ UNCHANGED <<lease, session, dead, t8, row, history>>

\* _guard_session_mutation
Guard ==
    /\ At(Worker, "turn")
    /\ Take(Worker, token, IF mode = "plan" /\ token = NoClaim THEN "lazy" ELSE "guard")
    /\ UNCHANGED <<lease, session, dead, t8, row, history>>

GuardVerify ==
    /\ At(Worker, "guard")
    /\ \/ Owns(loc[Worker].claim) /\ Go(Worker, "guarded") /\ UNCHANGED lease
       \/ VerifyFails(loc[Worker].claim) /\ BackToTurn
    /\ UNCHANGED <<session, dead, t8, row, history>>

GuardAcquire ==
    /\ At(Worker, "lazy")
    /\ \/ Granted(Worker, "grab")
       \/ Busy /\ BackToTurn
    /\ UNCHANGED <<session, dead, t8, row, history>>

\* What the guard let through: a vendor process writes, unless it was killed, or
\* an apply journals under the claim and writes, unless the lease refuses it.
Mutate ==
    /\ At(Worker, "guarded")
    /\ \/ ~dead /\ Go(Worker, "child")
       \/ Owns(loc[Worker].claim) /\ Go(Worker, "apply")
       \/ BackToTurn
    /\ UNCHANGED <<lease, session, dead, t8, row, history>>

Mutated ==
    /\ At(Worker, "child") \/ At(Worker, "apply")
    /\ BackToTurn
    /\ UNCHANGED <<lease, session, dead, t8, row, history>>

\* _broker_adapter_approval opens a row and parks.
OpenAsk ==
    /\ At(Worker, "turn")
    /\ \E a \in Ask : /\ row[a] # "open" /\ \A h \in Handler : loc[h].ask # a
                      /\ row' = [row EXCEPT ![a] = "open"]
                      /\ loc' = [loc EXCEPT ![Worker].ask = a, ![Worker].pc = "asking"]
    /\ UNCHANGED <<lease, session, dead, t8, history>>

Answered ==
    /\ At(Worker, "asking") /\ row[loc[Worker].ask] # "open"
    /\ BackToTurn
    /\ UNCHANGED <<lease, session, dead, t8, row, history>>

\* The timeout denies the row and is fatal for the turn.
AskTimesOut ==
    /\ At(Worker, "asking") /\ row[loc[Worker].ask] = "open"
    /\ row' = [row EXCEPT ![loc[Worker].ask] = "closed"]
    /\ loc' = [loc EXCEPT ![Worker].end = "failed", ![Worker].ask = NoAsk, ![Worker].pc = "killadapter"]
    /\ UNCHANGED <<lease, session, dead, t8, history>>

\* end is "none" unless the result is fatal.
EndTurn ==
    /\ At(Worker, "turn")
    /\ \E end \in {"none", "failed", "canceled"} :
          loc' = [loc EXCEPT ![Worker].end = end,
                             ![Worker].pc = IF end = "none" THEN "finally" ELSE "killadapter"]
    /\ UNCHANGED <<lease, session, dead, t8, row, history>>

KillOwnAdapter(from, to) ==
    /\ At(Worker, from)
    /\ dead' = TRUE
    /\ \E proven \in BOOLEAN :
          loc' = [loc EXCEPT ![Worker].proven = proven, ![Worker].pc = to]
    /\ UNCHANGED <<lease, session, t8, row, history>>

\* Mutant: the turn is published before its claim and approvals are cleaned up.
FinishFirst ==
    /\ At(Worker, "finally")
    /\ state' = (IF state = "terminal" THEN state ELSE "idle")
    /\ Take(Worker, token, "settle")
    /\ UNCHANGED <<lease, mode, resv, token, live, dead, t8, row, history>>

\* _writer_turn_finally reads the token before it reconciles the approvals; the
\* turn's result may say that its staged writes could not be cleaned up.
Finally ==
    /\ At(Worker, "finally")
    /\ Take(Worker, token, "settle")
    /\ refused' \in {refused, TRUE}
    /\ UNCHANGED <<holder, session, dead, t8, row, history>>

\* Anything unproven ends a turn that was not fatal as a failed conversation.
CleanedUp(ok) == loc' = [loc EXCEPT ![Worker].pc = IF ok \/ loc[Worker].end # "none"
                                                   THEN "finish" ELSE "killagain",
                                    ![Worker].end = IF ok \/ @ # "none" THEN @ ELSE "failed"]

TurnRelease ==
    /\ At(Worker, "turnrelease")
    /\ \/ /\ loc[Worker].claim = NoClaim
          /\ CleanedUp(loc[Worker].proven /\ ~refused) /\ UNCHANGED lease
       \/ /\ loc[Worker].claim # NoClaim
          /\ \E ok \in BOOLEAN :
                /\ ReleaseClaim(loc[Worker].claim, loc[Worker].proven, ok)
                /\ IF ok THEN Go(Worker, "turnclear") ELSE CleanedUp(FALSE)
    /\ UNCHANGED <<session, dead, t8, row, history>>

TurnClear ==
    /\ At(Worker, "turnclear")
    /\ ClearToken(loc[Worker].claim) /\ CleanedUp(TRUE)
    /\ UNCHANGED <<lease, dead, t8, row, history>>

\* Mutant: a kill that came first is forgotten.
FinishRevives ==
    /\ At(Worker, "finish")
    /\ state' = (IF loc[Worker].end = "none" THEN "idle" ELSE "terminal") /\ resv' = NoThread
    /\ IF loc[Worker].end = "none" THEN Done(Worker) ELSE Go(Worker, "fin")
    /\ UNCHANGED <<lease, mode, token, live, dead, t8, row, history>>

\* finish_turn: a session that was ended meanwhile stays terminal.
Finish ==
    /\ At(Worker, "finish")
    /\ IF state = "terminal" THEN UNCHANGED <<state, resv>>
       ELSE /\ state' = (IF loc[Worker].end = "none" THEN "idle" ELSE "terminal")
            /\ resv' = NoThread
    /\ IF loc[Worker].end = "none" THEN Done(Worker) ELSE Go(Worker, "fin")
    /\ UNCHANGED <<lease, mode, token, live, dead, t8, row, history>>

----------------------------------------------------------------------------
(***************************************************************************)
(* A session that session/start has just registered, its first turn not    *)
(* reserved yet.                                                           *)
(***************************************************************************)
Init ==
    /\ mode \in {"source", "plan"}
    /\ refused = FALSE /\ state = "open" /\ resv = NoThread /\ live = TRUE /\ dead = FALSE
    /\ t8 = "none" /\ row = [a \in Ask |-> "closed"]
    /\ stopped = FALSE /\ lent = FALSE
    /\ \E h \in Handler, c \in Claim :
          /\ token = (IF mode = "source" THEN c ELSE NoClaim)
          /\ holder = token
          /\ loc = [t \in Thread |->
                       IF t = h THEN [Idle EXCEPT !.pc = "start", !.kind = "start", !.claim = token]
                       ELSE Idle]

TurnRequest(h) ==
    \/ StartTurn(h) \/ LookForToken(h) \/ AcquireForTurn(h) \/ Retained(h) \/ Bind(h, "bind", "verify")
    \/ VerifyForTurn(h) \/ Attach(h, "attach", "ready", "cancel") \/ Commit(h) \/ Launch(h)
    \/ Launched(h) \/ CancelRelease(h) \/ CancelUnbind(h) \/ CancelRollBack(h)

EndRequest(h) ==
    \/ DenyWaiters(h) \/ Mark(h) \/ CloseAdapter(h) \/ KillAdapter(h) \/ Join(h) \/ StartRelease(h)

AcceptRequest(h) ==
    \/ AcceptSession(h) \/ EnsureClaim(h) \/ AcceptVerify(h) \/ AcceptAcquire(h)
    \/ Bind(h, "hold", "track") \/ Attach(h, "track", "validate", "idle") \/ Validate(h) \/ Resolve(h)

Finalization(t) ==
    \/ Finalize(t) \/ WriteT8(t) \/ Deregister(t) \/ Reconcile(t, "reconcile", "read")
    \/ ReadToken(t) \/ FinalRelease(t) \/ FinalClear(t) \/ Ended(t)

WorkerStep ==
    \/ Begin \/ Guard \/ GuardVerify \/ GuardAcquire
    \/ Bind(Worker, "grab", "hook") \/ Attach(Worker, "hook", "guarded", "turn")
    \/ Mutate \/ Mutated \/ OpenAsk \/ Answered \/ AskTimesOut \/ EndTurn
    \/ KillOwnAdapter("killadapter", "finally") \/ Finally
    \/ Reconcile(Worker, "settle", "turnrelease") \/ TurnRelease \/ TurnClear
    \/ KillOwnAdapter("killagain", "finish") \/ Finish
    \/ Finalization(Worker)

HandlerStep(h) == TurnRequest(h) \/ EndRequest(h) \/ AcceptRequest(h) \/ Finalization(h)

Next ==
    \/ \E h \in Handler : Turn(h) \/ Kill(h) \/ Close(h) \/ Accept(h) \/ HandlerStep(h)
    \/ WorkerStep
    \/ \E a \in Ask : Decide(a)
    \/ OtherSession

Spec == Init /\ [][Next]_vars

\* Threads keep running, and a vendor turn ends some day, however often it asks
\* or writes before.  Nobody has to decide an approval: the timeout does.
Fairness ==
    /\ \A h \in Handler : WF_vars(HandlerStep(h))
    /\ WF_vars(WorkerStep) /\ SF_vars(EndTurn)

FairSpec == Spec /\ Fairness

----------------------------------------------------------------------------
(***************************************************************************)
(* Properties.                                                             *)
(***************************************************************************)
\* Where a thread is: a request that may still launch its turn, a turn in the vendor's
\* hands, a session whose adapter was killed, and the rest of each method.
PreLaunch == {"look", "acquire", "retained", "bind", "verify", "attach", "ready",
              "cancel", "unbind", "rollback"}
InVendor  == {"turn", "lazy", "grab", "hook", "guard", "guarded", "child", "apply", "asking"}
AfterEnd  == {"t8", "deregister", "reconcile", "read", "release", "clear", "ended"}
AfterKill == AfterEnd \cup {"join", "fin", "startrelease"}
Pc == PreLaunch \cup InVendor \cup AfterKill \cup
      {"idle", "start", "launch", "launched", "deny", "mark", "closing", "kill", "undo", "fail",
       "checked", "ensure", "own", "want", "hold", "track", "validate", "approve", "stale",
       "begin", "killadapter", "finally", "settle", "turnrelease", "turnclear", "killagain", "finish"}

\* What a thread remembers.
Locals == [pc : Pc, kind : {"none", "turn", "start", "kill", "close", "accept"},
           claim : Claim \cup {NoClaim}, ask : Ask \cup {NoAsk},
           was : {"none", "open", "idle", "registered", "unregistered"}, proven : BOOLEAN,
           end : {"none", "success", "failed", "canceled"}]

\* Every variable and every thread's locals keep their type, and what a rolled
\* back reservation restores is never a running turn.
TypeOK ==
    /\ mode \in {"source", "plan"} /\ holder \in Claim \cup {NoClaim, Other} /\ refused \in BOOLEAN
    /\ state \in {"open", "running", "idle", "terminal"} /\ resv \in Handler \cup {NoThread}
    /\ token \in Claim \cup {NoClaim} /\ live \in BOOLEAN /\ dead \in BOOLEAN
    /\ t8 \in {"none", "success", "failed", "canceled"}
    /\ row \in [Ask -> {"open", "closed"}] /\ stopped \in BOOLEAN /\ lent \in BOOLEAN
    /\ loc \in [Thread -> Locals]

\* Whatever kills, closes, cancels, finishes or finalizes the session meanwhile,
\* a process or an apply of its turn only writes while the lease is held by the
\* very claim that write was guarded with.
MutatesUnderClaim ==
    At(Worker, "child") \/ At(Worker, "apply") => holder = loc[Worker].claim

\* Whoever ends a turn, a request or the session, in whatever order, a claim the
\* session holds on the lease is never lost: it is the session's token or some
\* thread is about to make it that.  So is one a request has released: between two
\* turns a session that claims per turn carries none.  An Accept that acquires a
\* claim of its own voids both: see IdleCarriesNoToken.
NoClaimIsLost ==
    ~lent => /\ holder \in Claim => \/ token = holder
                                   \/ \E t \in Thread : /\ loc[t].claim = holder
                                                        /\ loc[t].pc \in {"bind", "grab"}
             /\ mode = "source" /\ state = "idle" => token = NoClaim

\* No two turns overlap: while a request holds a reservation or launches, no other
\* does and the worker of the turn before it has ended.  Nor is a turn forgotten: a
\* running session has a worker, or a request that launches it or tears it down.
Launching == {h \in Handler : At(h, "launch") \/ resv = h}

OneTurnAtATime ==
    /\ Cardinality(Launching) <= 1
    /\ Launching # {} => At(Worker, "idle")
    /\ state = "running" => \/ Launching # {} \/ ~At(Worker, "idle")
                            \/ \E h \in Handler : loc[h].pc \in {"fail", "fin"}

\* Nothing brings a terminal session back, and a written conclusion stays and is
\* only ever written for a terminal session.
TerminalIsFinal ==
    [][/\ state = "terminal" => state' = "terminal"
       /\ t8 # "none" => t8' = t8
       /\ t8' # "none" => state' = "terminal"]_vars

\* After a kill or a close was answered OK the session does no work, even if its
\* request launched a turn while it was being ended.
StoppedMeansQuiet ==
    stopped => loc[Worker].pc \notin {"turn", "guard", "guarded", "child", "apply", "asking"}

\* A turn that was reserved ends, whatever is denied, fails, times out or is killed
\* on the way.
TurnEnds == state = "running" ~> state # "running"

\* The workspace gets its writer back: a claim of this session is released, or the
\* lease says that it needs recovery, unless an Accept acquired one of its own.
ClaimEnds == holder \in Claim ~> (holder \notin Claim \/ refused \/ lent)

TurnsAndClaimsEnd == TurnEnds /\ ClaimEnds

\* "An idle source-capable session must never carry a prior request's token", says
\* _reserve_driven_turn.
IdleCarriesNoToken == mode = "source" /\ state = "idle" => token = NoClaim
----------------------------------------------------------------------------
(***************************************************************************)
(* Inductive strengthenings (proved in DrivenSessionProofs).               *)
(***************************************************************************)
\* A request between its reservation and the start of its worker.
Hot(h) == loc[h].pc \in PreLaunch \cup {"launch"} \/ resv = h

\* A claim that was granted and not bound yet is nobody else's, and no token came in
\* between as long as the session lives.
ClaimInv ==
    /\ \A t \in Thread : loc[t].pc \in {"bind", "grab", "hold"} =>
          /\ loc[t].claim \in Claim /\ holder = loc[t].claim /\ token # loc[t].claim
          /\ \A u \in Thread : u # t => loc[u].claim # loc[t].claim
    /\ \A h \in Handler : state # "terminal" =>
          /\ loc[h].pc = "acquire" => token \in {NoClaim, holder}
          /\ loc[h].pc = "bind" => token = NoClaim

\* Who may have the turn: one request or the worker.
TurnInv ==
    /\ \A h \in Handler :
        /\ resv = h => loc[h].pc \in PreLaunch \cup {"undo", "fin"} /\ state = "running"
        /\ loc[h].pc \in PreLaunch => /\ resv = h \/ state = "terminal"
                                      /\ loc[h].was \in {"open", "idle"}
        /\ Hot(h) => At(Worker, "idle") /\ state \notin {"open", "idle"}
    /\ \A h, k \in Handler : Hot(h) /\ Hot(k) => h = k
    /\ state \in {"open", "idle"} => At(Worker, "idle")
    /\ state = "running" => \/ ~At(Worker, "idle")
                            \/ \E h \in Handler : loc[h].pc \in {"launch", "fail", "fin"} \/ resv = h

\* What the end of the conversation leaves: a terminal session, and an adapter that
\* is dead, with a proof that nothing of its turn goes on or without one.
EndInv ==
    /\ t8 # "none" \/ ~live => state = "terminal"
    /\ \A t \in Thread : loc[t].pc \in AfterEnd \cup {"startrelease"} => state = "terminal"
    /\ stopped => dead /\ loc[Worker].pc \notin InVendor
    /\ loc[Worker].kind = "none"
    /\ \A h \in Handler :
        /\ loc[h].kind \in {"kill", "close"} =>
              loc[h].pc \in {"deny", "mark", "closing", "kill"} \cup (AfterKill \ {"startrelease"})
        /\ loc[h].pc \in AfterKill =>
              /\ dead
              /\ loc[h].proven => ~At(Worker, "child")
              /\ loc[h].proven /\ loc[h].kind \in {"kill", "close"} /\ loc[h].pc # "join" =>
                    loc[Worker].pc \notin InVendor

\* What the worker writes under, and what a released claim no longer holds.
WriteInv ==
    /\ loc[Worker].pc \in {"grab", "hook", "guarded", "child", "apply"} => loc[Worker].claim \in Claim
    /\ loc[Worker].pc \in {"grab", "hook", "guarded"} => holder = loc[Worker].claim \/ dead
    /\ loc[Worker].pc \in {"child", "apply"} => holder = loc[Worker].claim
    /\ \A t \in Thread : loc[t].pc \in {"unbind", "turnclear", "clear"} /\ loc[t].claim \in Claim =>
                            holder # loc[t].claim

\* Where the session's claim is, as long as no Accept acquired one of its own.
TokenInv ==
    /\ mode = "source" => \A h \in Handler :
        loc[h].pc \in {"start", "bind", "verify", "attach", "ready", "cancel", "unbind"} =>
            loc[h].claim \in Claim
    /\ loc[Worker].pc = "killagain" => loc[Worker].end # "none"
    /\ ~lent =>
        /\ holder \in Claim => \/ token = holder
                               \/ \E t \in Thread : /\ loc[t].claim = holder
                                                    /\ loc[t].pc \in {"bind", "grab"}
        /\ \A h \in Handler : loc[h].pc # "hold" /\ (loc[h].pc \in {"acquire", "bind"} => token = NoClaim)
        /\ loc[Worker].pc \in {"lazy", "grab"} => token = NoClaim
        /\ mode = "source" =>
            /\ state = "idle" => token = NoClaim
            /\ \A h \in Handler :
                (loc[h].pc \in {"look", "retained"} /\ loc[h].was = "idle") \/ loc[h].pc = "rollback" =>
                    token = NoClaim
            /\ loc[Worker].pc \in {"settle", "turnrelease", "turnclear"} =>
                    token \in {NoClaim, loc[Worker].claim}
            /\ loc[Worker].pc = "finish" /\ loc[Worker].end = "none" => token = NoClaim

IInv == TypeOK /\ ClaimInv /\ TurnInv /\ EndInv /\ WriteInv /\ TokenInv
============================================================================
