------------------------------- MODULE MCLive -------------------------------
(***************************************************************************)
(* Parts of the system that must bring something to an end, in one run.  A *)
(* behaviour is a behaviour of one part, chosen at the start; the variables*)
(* of the others stay as they began.                                       *)
(***************************************************************************)
EXTENDS Naturals, FiniteSets, Sequences, TLC

CONSTANTS a1, c1, c2, d1, h1, k1, noAsk, noClaim, noDispatch, noThread, other,
    p1, r1, w1, w2, w3, worker

VARIABLE component

----------------------------------------------------------------------------
\* One loopback thread beside the worker; the run session has two.
VARIABLES session_mode, session_holder, session_refused, session_state,
    session_resv, session_token, session_live, session_dead, session_t8,
    session_row, session_stopped, session_lent, session_loc

Session == INSTANCE DrivenSession
    WITH Handler <- {h1}, Worker <- worker, NoThread <- noThread,
    Claim <- {c1, c2}, NoClaim <- noClaim, Other <- other, Ask <- {a1},
    NoAsk <- noAsk, mode <- session_mode, holder <- session_holder,
    refused <- session_refused, state <- session_state, resv <- session_resv,
    token <- session_token, live <- session_live, dead <- session_dead,
    t8 <- session_t8, row <- session_row, stopped <- session_stopped,
    lent <- session_lent, loc <- session_loc

sessionVars == <<session_mode, session_holder, session_refused, session_state,
    session_resv, session_token, session_live, session_dead, session_t8,
    session_row, session_stopped, session_lent, session_loc>>

----------------------------------------------------------------------------
\* One negotiated ask and one decision; the run approvals has two of each.
VARIABLES approval_shape, approval_file, approval_row, approval_pending,
    approval_staged, approval_waiters, approval_bound, approval_waiter,
    approval_stash, approval_live, approval_ask, approval_hand,
    approval_sweep, approval_ends
MCShapes == {[a \in {a1} |-> [run |-> r1, corr |-> k1, prop |-> p1, kind |-> "diff"]]}

Approval == INSTANCE ApprovalRendezvous
    WITH Ask <- {a1}, NoAsk <- noAsk, Handler <- {h1}, Run <- {r1},
    Shapes <- MCShapes, MaxEdits <- 1, MaxEnds <- 1, shape <- approval_shape,
    file <- approval_file, row <- approval_row, pending <- approval_pending,
    staged <- approval_staged, waiters <- approval_waiters,
    bound <- approval_bound, waiter <- approval_waiter,
    stash <- approval_stash, live <- approval_live, ask <- approval_ask,
    hand <- approval_hand, sweep <- approval_sweep, ends <- approval_ends

approvalVars == <<approval_shape, approval_file, approval_row,
    approval_pending, approval_staged, approval_waiters, approval_bound,
    approval_waiter, approval_stash, approval_live, approval_ask,
    approval_hand, approval_sweep, approval_ends>>

----------------------------------------------------------------------------
\* Node 2 asks node 1, whose daemon serves two calls; node 2 has the later clock.
VARIABLES dispatch_events, dispatch_rows, dispatch_hub, dispatch_call,
    dispatch_deaths
MCServes == (w1 :> 2) @@ (w2 :> 1) @@ (w3 :> 1)
MCAhead  == (1 :> 0) @@ (2 :> 3)
MCByHand == {<<2, "canceled">>, <<2, "completed">>, <<1, "failed">>}

Dispatch == INSTANCE FleetDispatch
    WITH Machine <- {1, 2}, Dispatch <- {d1}, NoDispatch <- noDispatch,
    Origin <- d1 :> 2, Target <- d1 :> 1, Call <- {w1, w2, w3},
    Serves <- MCServes, Ahead <- MCAhead, ByHand <- MCByHand, MaxDeaths <- 1,
    events <- dispatch_events, rows <- dispatch_rows, hub <- dispatch_hub,
    call <- dispatch_call, deaths <- dispatch_deaths

ASSUME DispatchConstantsOK == Dispatch!ConstantsOK
dispatchVars == <<dispatch_events, dispatch_rows, dispatch_hub, dispatch_call,
    dispatch_deaths>>

----------------------------------------------------------------------------
\* Nothing of another part moves.
Still(c) ==
    /\ UNCHANGED component
    /\ IF c = "session" THEN TRUE ELSE UNCHANGED sessionVars
    /\ IF c = "approval" THEN TRUE ELSE UNCHANGED approvalVars
    /\ IF c = "dispatch" THEN TRUE ELSE UNCHANGED dispatchVars

Init ==
    /\ component \in {"session", "approval", "dispatch"}
    /\ Session!Init
    /\ component # "session" => session_mode = "plan" /\ session_holder = noClaim
    /\ Approval!Init
    /\ Dispatch!Init

Next ==
    \/ component = "session" /\ Session!Next /\ Still("session")
    \/ component = "approval" /\ Approval!Next /\ Still("approval")
    \/ component = "dispatch" /\ Dispatch!Next /\ Still("dispatch")

allVars == <<component, sessionVars, approvalVars, dispatchVars>>

\* The fairness of each part, in the behaviours that are its own.
Fairness ==
    /\ WF_sessionVars(component = "session" /\ Session!HandlerStep(h1))
    /\ WF_sessionVars(component = "session" /\ Session!WorkerStep)
    /\ SF_sessionVars(component = "session" /\ Session!EndTurn)
    /\ WF_approvalVars(component = "approval" /\ Approval!AskStep(a1))
    /\ WF_approvalVars(component = "approval" /\ Approval!HandStep(h1))
    /\ WF_approvalVars(component = "approval" /\ Approval!SweepStep(r1))
    /\ \A c \in {w1, w2, w3} : WF_dispatchVars(component = "dispatch" /\ Dispatch!CallStep(c))

PartsSpec == Init /\ [][Next]_allVars /\ Fairness

----------------------------------------------------------------------------
\* A turn that was reserved ends, whatever is denied, fails, times out or is killed on
\* the way, and the workspace gets its writer back: a claim of this session is released,
\* or the lease says that it needs recovery, unless an Accept acquired its own.
TurnsAndClaimsEnd == Session!TurnsAndClaimsEnd

\* Every ask ends: by a decision, by the end of its run, or by its own clock.
AskEnds == Approval!AskEnds

\* A poll that accepted a dispatch brings it to an end, unless the daemon ends; whatever
\* order markers arrive in, what a node has seen ended stays ended.
TakenEndsForGood == Dispatch!TakenEndsForGood

============================================================================
