------------------------ MODULE DrivenSessionProofs ------------------------
(***************************************************************************)
(* Proofs about one driven conversation for every set of request threads,  *)
(* claims and approvals: what DrivenSession promises, by the inductive     *)
(* invariant stated at its end.  One lemma per conjunct and group of       *)
(* actions, one step per action.                                           *)
(***************************************************************************)
EXTENDS DrivenSession, FiniteSetTheorems, TLAPS

\* The first step of a request.
NewRequest(h) == Turn(h) \/ Kill(h) \/ Close(h) \/ Accept(h)

\* Every program counter a step names is one.
LEMMA PcNames ==
    /\ "look" \in Pc /\ "acquire" \in Pc /\ "retained" \in Pc /\ "bind" \in Pc /\ "verify" \in Pc /\ "attach" \in Pc
    /\ "ready" \in Pc /\ "cancel" \in Pc /\ "unbind" \in Pc /\ "rollback" \in Pc /\ "turn" \in Pc /\ "lazy" \in Pc
    /\ "grab" \in Pc /\ "hook" \in Pc /\ "guard" \in Pc /\ "guarded" \in Pc /\ "child" \in Pc /\ "apply" \in Pc
    /\ "asking" \in Pc /\ "t8" \in Pc /\ "deregister" \in Pc /\ "reconcile" \in Pc /\ "read" \in Pc /\ "release" \in Pc
    /\ "clear" \in Pc /\ "ended" \in Pc /\ "join" \in Pc /\ "fin" \in Pc /\ "startrelease" \in Pc /\ "idle" \in Pc
    /\ "start" \in Pc /\ "launch" \in Pc /\ "launched" \in Pc /\ "deny" \in Pc /\ "mark" \in Pc /\ "closing" \in Pc
    /\ "kill" \in Pc /\ "undo" \in Pc /\ "fail" \in Pc /\ "checked" \in Pc /\ "ensure" \in Pc /\ "own" \in Pc
    /\ "want" \in Pc /\ "hold" \in Pc /\ "track" \in Pc /\ "validate" \in Pc /\ "approve" \in Pc /\ "stale" \in Pc
    /\ "begin" \in Pc /\ "killadapter" \in Pc /\ "finally" \in Pc /\ "settle" \in Pc /\ "turnrelease" \in Pc /\ "turnclear" \in Pc
    /\ "killagain" \in Pc /\ "finish" \in Pc
BY DEF Pc, PreLaunch, InVendor, AfterKill, AfterEnd

\* The locals of a thread that does nothing.
LEMMA IdleIs ==
    /\ Idle \in Locals /\ Idle.pc = "idle" /\ Idle.kind = "none"
    /\ Idle.claim = NoClaim /\ Idle.ask = NoAsk
BY PcNames DEF Idle, Locals

\* The vendor turn goes on: nothing of the worker's call is left, no other thread moves.
Resumed(l, m) ==
    /\ m \in [Thread -> Locals] /\ \A h \in Handler : m[h] = l[h]
    /\ m[Worker].pc = "turn" /\ m[Worker].claim = NoClaim /\ m[Worker].ask = NoAsk
    /\ m[Worker].kind = l[Worker].kind /\ m[Worker].end = l[Worker].end

LEMMA InTurnIs ==
    ASSUME NEW l \in [Thread -> Locals]
    PROVE  Resumed(l, InTurn(l))
<1> DEFINE r == [l[Worker] EXCEPT !.pc = "turn", !.claim = NoClaim, !.ask = NoAsk]
<1>1. r \in Locals
  BY PcNames DEF Locals, Thread
<1>2. InTurn(l) = [l EXCEPT ![Worker] = r]
  BY DEF InTurn, Thread
<1>3. /\ r.pc = "turn" /\ r.claim = NoClaim /\ r.ask = NoAsk
      /\ r.kind = l[Worker].kind /\ r.end = l[Worker].end
  BY DEF Thread
<1> HIDE DEF r
<1> QED BY <1>1, <1>2, <1>3, ThreadsDiffer DEF Thread, Resumed

LEMMA BackIs == ASSUME TypeOK, BackToTurn PROVE Resumed(loc, loc')
BY InTurnIs DEF TypeOK, BackToTurn

\* A call the worker is parked in, if it is the one at pc, is over; or nothing moved.
Unparked(l, m, pc) == (l[Worker].pc # pc /\ m = l) \/ (l[Worker].pc = pc /\ Resumed(l, m))

LEMMA WaitersDeniedIs == ASSUME TypeOK PROVE Unparked(loc, WaitersDenied(loc), "asking")
BY InTurnIs DEF TypeOK, WaitersDenied, Unparked, At

LEMMA ProcessesGoneIs == ASSUME TypeOK PROVE Unparked(loc, ProcessesGone(loc), "child")
BY InTurnIs DEF TypeOK, ProcessesGone, Unparked, At

LEMMA UnparkedType ==
    ASSUME TypeOK, NEW m, NEW pc, Unparked(loc, m, pc)
    PROVE  m \in [Thread -> Locals] /\ \A h \in Handler : m[h] = loc[h]
BY DEF TypeOK, Unparked, Resumed

\* A granted claim is one that nobody refers to.
LEMMA GrantedIs ==
    ASSUME NEW t \in Thread, NEW next, Granted(t, next)
    PROVE  /\ holder = NoClaim /\ refused = FALSE /\ refused' = FALSE
           /\ \E c \in Claim : /\ holder' = c /\ Take(t, c, next) /\ token # c
                              /\ \A u \in Thread : loc[u].claim # c
<1>1. holder = NoClaim /\ ~refused
  BY DEF Granted, Free
<1>2. PICK c \in Fresh : holder' = c /\ Take(t, c, next)
  BY DEF Granted
<1>3. c \in Claim /\ token # c /\ \A u \in Thread : loc[u].claim # c
  BY <1>2 DEF Fresh, Referred
<1> QED BY <1>1, <1>2, <1>3 DEF Granted, Free

\* A thread's locals keep their type field by field.
LEMMA LocalsIs ==
    ASSUME NEW l \in Locals, NEW pc \in Pc, NEW proven \in BOOLEAN,
           NEW end \in {"none", "success", "failed", "canceled"},
           NEW was \in {"none", "open", "idle", "registered", "unregistered"}
    PROVE  /\ [l EXCEPT !.pc = pc, !.proven = proven, !.end = end] \in Locals
           /\ [l EXCEPT !.pc = pc, !.end = end] \in Locals
           /\ [l EXCEPT !.proven = proven, !.pc = pc, !.end = end, !.was = was] \in Locals
<1>1. [l EXCEPT !.pc = pc, !.proven = proven, !.end = end] \in Locals
  BY DEF Locals
<1>2. [l EXCEPT !.pc = pc, !.end = end] \in Locals
  BY DEF Locals
<1>3. [[l EXCEPT !.proven = proven, !.pc = pc, !.end = end] EXCEPT !.was = was] \in Locals
  <2>1. [l EXCEPT !.proven = proven, !.pc = pc, !.end = end] \in Locals
    BY DEF Locals
  <2> QED BY <2>1 DEF Locals
<1> QED BY <1>1, <1>2, <1>3

\* What a joined worker proves, and what it does not.
LEMMA JoinIs ==
    ASSUME TypeOK, NEW h \in Handler, Join(h)
    PROVE  /\ loc' \in [Thread -> Locals] /\ \A t \in Thread : t # h => loc'[t] = loc[t]
           /\ loc[h].pc = "join" /\ loc'[h].pc = "fin"
           /\ loc'[h].kind = loc[h].kind /\ loc'[h].claim = loc[h].claim
           /\ loc'[h].proven => loc[h].proven /\ loc[Worker].pc = "idle"
<1> DEFINE p == loc[h].proven /\ At(Worker, "idle")
           e == IF loc[h].kind = "close" /\ ~p THEN "failed" ELSE loc[h].end
           r == [loc[h] EXCEPT !.pc = "fin", !.proven = p, !.end = e]
<1>1. p \in BOOLEAN
  BY Zenon
<1>2. loc' = [loc EXCEPT ![h] = r] /\ loc[h].pc = "join"
  BY DEF Join, At, Thread
<1>3. e \in {"none", "success", "failed", "canceled"}
  <2> HIDE DEF p
  <2> QED BY DEF TypeOK, Locals, Thread
<1>4. p => loc[h].proven /\ loc[Worker].pc = "idle"
  BY DEF At
<1> HIDE DEF p, e
<1>5. r \in Locals
  BY <1>1, <1>3, PcNames, LocalsIs DEF TypeOK, Thread
<1>6. r.pc = "fin" /\ r.kind = loc[h].kind /\ r.claim = loc[h].claim
  BY DEF Thread
<1>7. r.proven = p
  BY DEF Thread
<1> HIDE DEF r
<1>8. loc' \in [Thread -> Locals] /\ loc'[h] = r /\ \A t \in Thread : t # h => loc'[t] = loc[t]
  BY <1>2, <1>5 DEF TypeOK, Thread
<1>9. loc'[h].proven => loc[h].proven /\ loc[Worker].pc = "idle"
  BY <1>4, <1>7, <1>8
<1> QED BY <1>2, <1>6, <1>8, <1>9

\* A call the worker is parked in at pc, if it is there, is over; nobody else moves but h.
WorkerOrBack(h, pc) ==
    /\ loc' \in [Thread -> Locals] /\ \A k \in Handler : k # h => loc'[k] = loc[k]
    /\ \/ loc'[Worker] = loc[Worker]
       \/ /\ loc[Worker].pc = pc /\ loc'[Worker].pc = "turn"
          /\ loc'[Worker].claim = NoClaim /\ loc'[Worker].kind = loc[Worker].kind

LEMMA KillAdapterIs ==
    ASSUME TypeOK, NEW h \in Handler, KillAdapter(h)
    PROVE  /\ WorkerOrBack(h, "child")
           /\ loc'[h].kind = loc[h].kind /\ loc'[h].claim = loc[h].claim 
           /\ loc'[h].pc = IF loc[h].pc = "kill" THEN "join" ELSE "fin"
           /\ loc'[h].proven => loc'[Worker].pc # "child"
<1>1. PICK proven \in BOOLEAN :
          loc' = [(IF proven THEN ProcessesGone(loc) ELSE loc)
                        EXCEPT ![h].proven = proven,
                               ![h].pc = IF At(h, "kill") THEN "join" ELSE "fin",
                               ![h].end = IF At(h, "kill") THEN @ ELSE "failed",
                               ![h].was = IF ~At(h, "fail") THEN @
                                          ELSE IF live THEN "registered" ELSE "unregistered"]
  BY Zenon DEF KillAdapter
<1> DEFINE m == IF proven THEN ProcessesGone(loc) ELSE loc
<1>2. m = loc \/ Unparked(loc, m, "child")
  BY ProcessesGoneIs
<1>3. proven => m[Worker].pc # "child"
  BY ProcessesGoneIs DEF Unparked, Resumed
<1>4. m \in [Thread -> Locals] /\ m[h] = loc[h]
  BY <1>2, UnparkedType DEF TypeOK, Thread
<1> HIDE DEF m
<1> DEFINE e == IF At(h, "kill") THEN m[h].end ELSE "failed"
           w == IF ~At(h, "fail") THEN m[h].was ELSE IF live THEN "registered" ELSE "unregistered"
           p == IF At(h, "kill") THEN "join" ELSE "fin"
           r == [m[h] EXCEPT !.proven = proven, !.pc = p, !.end = e, !.was = w]
<1>5. loc' = [m EXCEPT ![h] = r]
  BY <1>1, <1>4 DEF m, Thread
<1>6. e \in {"none", "success", "failed", "canceled"} /\ p \in Pc
      /\ w \in {"none", "open", "idle", "registered", "unregistered"}
  BY <1>4, PcNames DEF Locals, Thread
<1>7. p = IF loc[h].pc = "kill" THEN "join" ELSE "fin"
  BY DEF At
<1> HIDE DEF e, w, p
<1>8. r \in Locals
  BY <1>4, <1>6, LocalsIs DEF Thread
<1>9. r.kind = loc[h].kind /\ r.claim = loc[h].claim /\ r.pc = p
  BY <1>4 DEF Thread
<1>10. r.proven = proven
  BY <1>4 DEF Thread
<1> HIDE DEF r
<1>11. loc' \in [Thread -> Locals] /\ loc'[h] = r /\ \A t \in Thread : t # h => loc'[t] = m[t]
  BY <1>4, <1>5, <1>8 DEF Thread
<1>12. WorkerOrBack(h, "child")
  BY <1>2, <1>11, ThreadsDiffer DEF WorkerOrBack, Unparked, Resumed, Thread
<1>13. loc'[h].proven => loc'[Worker].pc # "child"
  BY <1>3, <1>10, <1>11, ThreadsDiffer DEF Thread
<1> QED BY <1>7, <1>9, <1>11, <1>12, <1>13

LEMMA CleanedUpIs ==
    ASSUME TypeOK, NEW ok \in BOOLEAN, CleanedUp(ok)
    PROVE  /\ loc' \in [Thread -> Locals] /\ \A h \in Handler : loc'[h] = loc[h]
           /\ loc'[Worker].pc \in {"finish", "killagain"} /\ loc'[Worker].kind = loc[Worker].kind
           /\ loc'[Worker].pc = "killagain" => loc'[Worker].end # "none"
           /\ loc'[Worker].pc = "finish" /\ loc'[Worker].end = "none" => ok
<1> DEFINE p == IF ok \/ loc[Worker].end # "none" THEN "finish" ELSE "killagain"
           e == IF ok \/ loc[Worker].end # "none" THEN loc[Worker].end ELSE "failed"
           r == [loc[Worker] EXCEPT !.pc = p, !.end = e]
<1>1. p \in {"finish", "killagain"} /\ p \in Pc /\ e \in {"none", "success", "failed", "canceled"}
  BY PcNames DEF TypeOK, Locals, Thread
<1>2. (p = "killagain" => e # "none") /\ (p = "finish" /\ e = "none" => ok)
  OBVIOUS
<1>3. loc' = [loc EXCEPT ![Worker] = r]
  BY DEF CleanedUp, Thread
<1> HIDE DEF p, e
<1>4. r \in Locals
  BY <1>1, LocalsIs DEF TypeOK, Thread
<1>5. r.pc = p /\ r.kind = loc[Worker].kind /\ r.end = e
  BY DEF Thread
<1> HIDE DEF r
<1> QED BY <1>1, <1>2, <1>3, <1>4, <1>5, ThreadsDiffer DEF TypeOK, Thread

(***************************************************************************)
(* Types.                                                                   *)
(***************************************************************************)
\* The steps of a turn request keep the types.
LEMMA TypeOKTurnRequest ==
    ASSUME TypeOK, TurnInv, NEW h \in Handler, TurnRequest(h)
    PROVE  TypeOK'
<1> USE DEF At, Thread, lease, session, history
<1>1. CASE StartTurn(h)
  <2>0. refused' \in BOOLEAN
    BY <1>1, Zenon DEF StartTurn, CanReserve, Reserve, Go, TypeOK, Thread
  <2> QED BY <1>1, <2>0, PcNames DEF StartTurn, CanReserve, Reserve, Go, TypeOK, Locals
<1>2. CASE LookForToken(h)
  <2>0. refused' \in BOOLEAN
    BY <1>2, Zenon DEF LookForToken, Go, TypeOK, Thread
  <2> QED BY <1>2, <2>0, PcNames DEF LookForToken, Go, TypeOK, Locals
<1>3. CASE AcquireForTurn(h)
  <2>0. refused' \in BOOLEAN
    BY <1>3, Zenon DEF AcquireForTurn, Granted, Free, Take, Busy, RollBack, MayRollBack, Denied,
       Go, Done, TypeOK, Thread
  <2>1. CASE Granted(h, "bind")
    <3>1. PICK c \in Claim : /\ holder = NoClaim /\ ~refused /\ ~refused'
                                /\ holder' = c /\ Take(h, c, "bind") /\ token # c
                                /\ \A u \in Thread : loc[u].claim # c
      BY <2>1, GrantedIs DEF Thread
    <3> QED BY <1>3, <3>1, <2>0 DEF AcquireForTurn, Take, Go, TypeOK, Locals
  <2>2. CASE Busy /\ RollBack(h) /\ Denied(h)
    BY <1>3, <2>2, <2>0, PcNames, IdleIs DEF AcquireForTurn, Free, Busy, RollBack, MayRollBack,
       Denied, Go, Done, TypeOK, Locals, TurnInv
  <2> QED BY <1>3, <2>1, <2>2 DEF AcquireForTurn
<1>4. CASE Retained(h)
  <2>0. refused' \in BOOLEAN
    BY <1>4, Zenon DEF Retained, RollBack, MayRollBack, Denied, Go, Done, Thread
  <2>1. loc' \in [Thread -> Locals]
    BY <1>4, IdleIs, PcNames DEF Retained, RollBack, MayRollBack, Denied, Go, Done, TypeOK, Locals
  <2> QED BY <1>4, <2>0, <2>1, IdleIs DEF Retained, RollBack, MayRollBack, Denied, Go, Done,
             TypeOK, TurnInv
<1>5. CASE Bind(h, "bind", "verify")
  <2>0. refused' \in BOOLEAN
    BY <1>5, Zenon DEF Bind, SetToken, Go, Done, BackToTurn, TypeOK, Thread
  <2> QED BY <1>5, <2>0, PcNames, IdleIs, BackIs DEF Bind, SetToken, Go, Done, Resumed, TypeOK,
             Locals
<1>6. CASE VerifyForTurn(h)
  <2>0. refused' \in BOOLEAN
    BY <1>6, Zenon DEF VerifyForTurn, Owns, VerifyFails, Go, TypeOK, Thread
  <2> QED BY <1>6, <2>0, PcNames DEF VerifyForTurn, Owns, VerifyFails, Go, TypeOK, Locals
<1>7. CASE Attach(h, "attach", "ready", "cancel")
  <2>0. refused' \in BOOLEAN
    BY <1>7, Zenon DEF Attach, Go, Done, BackToTurn, TypeOK, Thread
  <2> QED BY <1>7, <2>0, PcNames, BackIs, IdleIs DEF Attach, Go, Done, Resumed, TypeOK, Locals
<1>8. CASE Commit(h)
  <2>0. refused' \in BOOLEAN
    BY <1>8, Zenon DEF Commit, MayRollBack, Go, TypeOK, Thread
  <2> QED BY <1>8, <2>0, PcNames DEF Commit, MayRollBack, Go, TypeOK, Locals
<1>9. CASE Launch(h)
  <2>0. refused' \in BOOLEAN
    BY <1>9, Zenon DEF Launch, MarkTerminal, Go, TypeOK, Thread
  <2> QED BY <1>9, <2>0, PcNames, IdleIs DEF Launch, MarkTerminal, Go, TypeOK, Locals
<1>10. CASE Launched(h)
  <2>0. refused' \in BOOLEAN
    BY <1>10, Zenon DEF Launched, Go, Done, TypeOK, Thread
  <2> QED BY <1>10, <2>0, PcNames, IdleIs DEF Launched, Go, Done, TypeOK, Locals
<1>11. CASE CancelRelease(h)
  <2>0. refused' \in BOOLEAN
    BY <1>11, Zenon DEF CancelRelease, ReleaseClaim, Applying, TypeOK, Thread
  <2> QED BY <1>11, <2>0, PcNames DEF CancelRelease, ReleaseClaim, Applying, TypeOK, Locals
<1>12. CASE CancelUnbind(h)
  <2>0. refused' \in BOOLEAN
    BY <1>12, Zenon DEF CancelUnbind, ClearToken, SetToken, Go, TypeOK, Thread
  <2> QED BY <1>12, <2>0, PcNames DEF CancelUnbind, ClearToken, SetToken, Go, TypeOK, Locals
<1>13. CASE CancelRollBack(h)
  <2>0. refused' \in BOOLEAN
    BY <1>13, Zenon DEF CancelRollBack, MayRollBack, RollBack, Denied, Go, Done, TypeOK, Thread
  <2>1. loc' \in [Thread -> Locals]
    BY <1>13, IdleIs, PcNames DEF CancelRollBack, MayRollBack, RollBack, Denied, Go, Done, TypeOK,
       Locals
  <2> QED BY <1>13, <2>0, <2>1, IdleIs DEF CancelRollBack, MayRollBack, RollBack, Denied, Go,
             Done, TypeOK, TurnInv
<1> QED BY <1>1, <1>2, <1>3, <1>4, <1>5, <1>6, <1>7, <1>8, <1>9, <1>10, <1>11, <1>12, <1>13 DEF
           TurnRequest

\* The steps that end a session keep the types.
LEMMA TypeOKEndRequest ==
    ASSUME TypeOK, TurnInv, NEW h \in Handler, EndRequest(h)
    PROVE  TypeOK'
<1> USE DEF At, Thread, lease, session, history
<1>1. CASE DenyWaiters(h)
  <2>0. refused' \in BOOLEAN
    BY <1>1, Zenon DEF DenyWaiters, WaitersDenied, TypeOK, Thread
  <2> QED BY <1>1, <2>0, PcNames, WaitersDeniedIs DEF DenyWaiters, Unparked, Resumed, TypeOK,
             Locals
<1>2. CASE Mark(h)
  <2>0. refused' \in BOOLEAN
    BY <1>2, Zenon DEF Mark, MarkTerminal, Go, TypeOK, Thread
  <2> QED BY <1>2, <2>0, PcNames DEF Mark, MarkTerminal, Go, TypeOK, Locals
<1>3. CASE CloseAdapter(h)
  <2>0. refused' \in BOOLEAN
    BY <1>3, Zenon DEF CloseAdapter, ProcessesGone, TypeOK, Thread
  <2>1. loc' \in [Thread -> Locals]
    BY <1>3, ProcessesGoneIs DEF CloseAdapter, Unparked, Resumed, TypeOK, Locals
  <2> QED BY <1>3, <2>0, <2>1, ProcessesGoneIs DEF CloseAdapter, TypeOK
<1>4. CASE KillAdapter(h)
  <2>0. refused' \in BOOLEAN
    BY <1>4, Zenon DEF KillAdapter, ProcessesGone, Thread
  <2>1. loc' \in [Thread -> Locals]
    BY <1>4, KillAdapterIs DEF WorkerOrBack
  <2>2. UNCHANGED <<holder, session, t8, row, history>> /\ dead' = TRUE
    BY <1>4 DEF KillAdapter
  <2> QED BY <2>0, <2>1, <2>2 DEF TypeOK
<1>5. CASE Join(h)
  <2>0. refused' \in BOOLEAN
    BY <1>5, Zenon DEF Join, TypeOK, Thread
  <2>1. loc' \in [Thread -> Locals]
    BY <1>5, JoinIs
  <2>2. UNCHANGED <<lease, session, dead, t8, row, history>>
    BY <1>5 DEF Join
  <2> QED BY <2>0, <2>1, <2>2 DEF TypeOK
<1>6. CASE StartRelease(h)
  <2>0. refused' \in BOOLEAN
    BY <1>6, Zenon DEF StartRelease, ReleaseClaim, Applying, Done, TypeOK, Thread
  <2> QED BY <1>6, <2>0, IdleIs DEF StartRelease, ReleaseClaim, Applying, Done, TypeOK
<1> QED BY <1>1, <1>2, <1>3, <1>4, <1>5, <1>6 DEF EndRequest

\* The steps of an Accept keep the types.
LEMMA TypeOKAcceptRequest ==
    ASSUME TypeOK, TurnInv, NEW h \in Handler, AcceptRequest(h)
    PROVE  TypeOK'
<1> USE DEF At, Thread, lease, session, history
<1>1. CASE AcceptSession(h)
  <2>0. refused' \in BOOLEAN
    BY <1>1, Zenon DEF AcceptSession, Go, TypeOK, Thread
  <2> QED BY <1>1, <2>0, PcNames DEF AcceptSession, Go, TypeOK, Locals
<1>2. CASE EnsureClaim(h)
  <2>0. refused' \in BOOLEAN
    BY <1>2, Zenon DEF EnsureClaim, Take, TypeOK, Thread
  <2> QED BY <1>2, <2>0 DEF EnsureClaim, Take, TypeOK, Locals
<1>3. CASE AcceptVerify(h)
  <2>0. refused' \in BOOLEAN
    BY <1>3, Zenon DEF AcceptVerify, Owns, VerifyFails, Go, Done, TypeOK, Thread
  <2> QED BY <1>3, <2>0, PcNames, IdleIs DEF AcceptVerify, Owns, VerifyFails, Go, Done, TypeOK,
             Locals
<1>4. CASE AcceptAcquire(h)
  <2>0. refused' \in BOOLEAN /\ lent' \in BOOLEAN
    BY <1>4, Zenon DEF AcceptAcquire, Granted, Free, Take, Busy, Done, TypeOK, Thread
  <2>1. CASE Granted(h, "hold")
    <3>1. PICK c \in Claim : /\ holder = NoClaim /\ ~refused /\ ~refused'
                                /\ holder' = c /\ Take(h, c, "hold") /\ token # c
                                /\ \A u \in Thread : loc[u].claim # c
      BY <2>1, GrantedIs DEF Thread
    <3> QED BY <1>4, <3>1, <2>0 DEF AcceptAcquire, Take, TypeOK, Locals
  <2>2. CASE Busy /\ Done(h)
    BY <1>4, <2>2, <2>0, IdleIs DEF AcceptAcquire, Free, Busy, Done, TypeOK
  <2> QED BY <1>4, <2>1, <2>2 DEF AcceptAcquire
<1>5. CASE Bind(h, "hold", "track")
  <2>0. refused' \in BOOLEAN
    BY <1>5, Zenon DEF Bind, SetToken, Go, Done, BackToTurn, TypeOK, Thread
  <2> QED BY <1>5, <2>0, PcNames, IdleIs, BackIs DEF Bind, SetToken, Go, Done, Resumed, TypeOK,
             Locals
<1>6. CASE Attach(h, "track", "validate", "idle")
  <2>0. refused' \in BOOLEAN
    BY <1>6, Zenon DEF Attach, Go, Done, BackToTurn, TypeOK, Thread
  <2> QED BY <1>6, <2>0, PcNames, BackIs, IdleIs DEF Attach, Go, Done, Resumed, TypeOK, Locals
<1>7. CASE Validate(h)
  <2>0. refused' \in BOOLEAN
    BY <1>7, Zenon DEF Validate, Go, Done, TypeOK, Thread
  <2> QED BY <1>7, <2>0, PcNames, IdleIs DEF Validate, Go, Done, TypeOK, Locals
<1>8. CASE Resolve(h)
  <2>1. loc' \in [Thread -> Locals]
    BY <1>8, IdleIs DEF Resolve, Done, TypeOK
  <2>2. row' \in [Ask -> {"open", "closed"}]
    BY <1>8 DEF Resolve, TypeOK
  <2>3. UNCHANGED <<lease, session, dead, t8, history>>
    BY <1>8 DEF Resolve
  <2> QED BY <2>1, <2>2, <2>3 DEF TypeOK
<1> QED BY <1>1, <1>2, <1>3, <1>4, <1>5, <1>6, <1>7, <1>8 DEF AcceptRequest

\* The steps of a finalization keep the types.
LEMMA TypeOKFinalization ==
    ASSUME TypeOK, TurnInv, NEW t \in Thread, Finalization(t)
    PROVE  TypeOK'
<1> USE DEF At, Thread, lease, session, history
<1>1. CASE Finalize(t)
  <2>0. refused' \in BOOLEAN
    BY <1>1, Zenon DEF Finalize, MarkTerminal, Go, Thread
  <2> QED BY <1>1, <2>0, PcNames DEF Finalize, MarkTerminal, Go, TypeOK, Locals
<1>2. CASE WriteT8(t)
  <2>0. refused' \in BOOLEAN
    BY <1>2, Zenon DEF WriteT8, Go, TypeOK, Thread
  <2> QED BY <1>2, <2>0, PcNames DEF WriteT8, Go, TypeOK, Locals
<1>3. CASE Deregister(t)
  <2>0. refused' \in BOOLEAN
    BY <1>3, Zenon DEF Deregister, WaitersDenied, TypeOK, Thread
  <2>1. loc' \in [Thread -> Locals]
    BY <1>3, WaitersDeniedIs, PcNames DEF Deregister, Unparked, Resumed, TypeOK, Locals
  <2> QED BY <1>3, <2>0, <2>1, WaitersDeniedIs DEF Deregister, TypeOK
<1>4. CASE Reconcile(t, "reconcile", "read")
  <2>0. refused' \in BOOLEAN
    BY <1>4, Zenon DEF Reconcile, Go, TypeOK, Thread
  <2> QED BY <1>4, <2>0, PcNames DEF Reconcile, Go, TypeOK, Locals
<1>5. CASE ReadToken(t)
  <2>0. refused' \in BOOLEAN
    BY <1>5, Zenon DEF ReadToken, Take, TypeOK, Thread
  <2> QED BY <1>5, <2>0 DEF ReadToken, Take, TypeOK, Locals
<1>6. CASE FinalRelease(t)
  <2>0. refused' \in BOOLEAN
    BY <1>6, Zenon DEF FinalRelease, ReleaseClaim, Applying, Go, TypeOK, Thread
  <2> QED BY <1>6, <2>0, PcNames DEF FinalRelease, ReleaseClaim, Applying, Go, TypeOK, Locals
<1>7. CASE FinalClear(t)
  <2>0. refused' \in BOOLEAN
    BY <1>7, Zenon DEF FinalClear, ClearToken, SetToken, Go, TypeOK, Thread
  <2> QED BY <1>7, <2>0, PcNames DEF FinalClear, ClearToken, SetToken, Go, TypeOK, Locals
<1>8. CASE Ended(t)
  <2>0. refused' \in BOOLEAN
    BY <1>8, Zenon DEF Ended, Go, Done, TypeOK, Thread
  <2> QED BY <1>8, <2>0, PcNames, IdleIs DEF Ended, Go, Done, TypeOK, Locals
<1> QED BY <1>1, <1>2, <1>3, <1>4, <1>5, <1>6, <1>7, <1>8 DEF Finalization

\* The steps of the worker keep the types.
LEMMA TypeOKWorkerStep ==
    ASSUME TypeOK, TurnInv, WorkerStep
    PROVE  TypeOK'
<1> USE DEF At, Thread, lease, session, history
<1>1. CASE Begin
  <2>0. refused' \in BOOLEAN
    BY <1>1, Zenon DEF Begin, Go, TypeOK, Thread
  <2> QED BY <1>1, <2>0, PcNames DEF Begin, Go, TypeOK, Locals
<1>2. CASE Guard
  <2>0. refused' \in BOOLEAN
    BY <1>2, Zenon DEF Guard, Take, TypeOK, Thread
  <2> QED BY <1>2, <2>0 DEF Guard, Take, TypeOK, Locals
<1>3. CASE GuardVerify
  <2>0. refused' \in BOOLEAN
    BY <1>3, Zenon DEF GuardVerify, Owns, VerifyFails, Go, BackToTurn, TypeOK, Thread
  <2> QED BY <1>3, <2>0, PcNames, BackIs DEF GuardVerify, Owns, VerifyFails, Go, Resumed, TypeOK,
             Locals
<1>4. CASE GuardAcquire
  <2>0. refused' \in BOOLEAN
    BY <1>4, Zenon DEF GuardAcquire, Granted, Free, Take, Busy, BackToTurn, TypeOK, Thread
  <2>1. CASE Granted(Worker, "grab")
    <3>1. PICK c \in Claim : /\ holder = NoClaim /\ ~refused /\ ~refused'
                                /\ holder' = c /\ Take(Worker, c, "grab") /\ token # c
                                /\ \A u \in Thread : loc[u].claim # c
      BY <2>1, GrantedIs DEF Thread
    <3> QED BY <1>4, <3>1, <2>0 DEF GuardAcquire, Take, TypeOK, Locals
  <2>2. CASE Busy /\ BackToTurn
    BY <1>4, <2>2, <2>0, BackIs DEF GuardAcquire, Free, Busy, Resumed, TypeOK
  <2> QED BY <1>4, <2>1, <2>2 DEF GuardAcquire
<1>5. CASE Bind(Worker, "grab", "hook")
  <2>0. refused' \in BOOLEAN
    BY <1>5, Zenon DEF Bind, SetToken, Go, Done, BackToTurn, TypeOK, Thread
  <2> QED BY <1>5, <2>0, PcNames, IdleIs, BackIs DEF Bind, SetToken, Go, Done, Resumed, TypeOK,
             Locals
<1>6. CASE Attach(Worker, "hook", "guarded", "turn")
  <2>0. refused' \in BOOLEAN
    BY <1>6, Zenon DEF Attach, Go, Done, BackToTurn, TypeOK, Thread
  <2> QED BY <1>6, <2>0, PcNames, BackIs, IdleIs DEF Attach, Go, Done, Resumed, TypeOK, Locals
<1>7. CASE Mutate
  <2>0. refused' \in BOOLEAN
    BY <1>7, Zenon DEF Mutate, Owns, Go, BackToTurn, TypeOK, Thread
  <2> QED BY <1>7, <2>0, PcNames, BackIs DEF Mutate, Owns, Go, Resumed, TypeOK, Locals
<1>8. CASE Mutated
  <2>0. refused' \in BOOLEAN
    BY <1>8, Zenon DEF Mutated, BackToTurn, TypeOK, Thread
  <2> QED BY <1>8, <2>0, BackIs DEF Mutated, Resumed, TypeOK
<1>9. CASE OpenAsk
  <2>0. refused' \in BOOLEAN
    BY <1>9, Zenon DEF OpenAsk, TypeOK, Thread
  <2> QED BY <1>9, <2>0 DEF OpenAsk, TypeOK, Locals
<1>10. CASE Answered
  <2>0. refused' \in BOOLEAN
    BY <1>10, Zenon DEF Answered, BackToTurn, TypeOK, Thread
  <2> QED BY <1>10, <2>0, BackIs DEF Answered, Resumed, TypeOK
<1>11. CASE AskTimesOut
  <2>0. refused' \in BOOLEAN
    BY <1>11, Zenon DEF AskTimesOut, TypeOK, Thread
  <2> QED BY <1>11, <2>0 DEF AskTimesOut, TypeOK, Locals
<1>12. CASE EndTurn
  <2>0. refused' \in BOOLEAN
    BY <1>12, Zenon DEF EndTurn, TypeOK, Thread
  <2> QED BY <1>12, <2>0 DEF EndTurn, TypeOK, Locals
<1>13. CASE KillOwnAdapter("killadapter", "finally")
  <2>0. refused' \in BOOLEAN
    BY <1>13, Zenon DEF KillOwnAdapter, TypeOK, Thread
  <2> QED BY <1>13, <2>0 DEF KillOwnAdapter, TypeOK, Locals
<1>14. CASE Finally
  <2>0. refused' \in BOOLEAN
    BY <1>14, Zenon DEF Finally, Take, TypeOK, Thread
  <2> QED BY <1>14, <2>0 DEF Finally, Take, TypeOK, Locals
<1>15. CASE Reconcile(Worker, "settle", "turnrelease")
  <2>0. refused' \in BOOLEAN
    BY <1>15, Zenon DEF Reconcile, Go, TypeOK, Thread
  <2> QED BY <1>15, <2>0, PcNames DEF Reconcile, Go, TypeOK, Locals
<1>16. CASE TurnRelease
  <2>0. refused' \in BOOLEAN
    BY <1>16, Zenon DEF TurnRelease, ReleaseClaim, Applying, CleanedUp, Go, TypeOK, Thread
  <2> QED BY <1>16, <2>0, PcNames DEF TurnRelease, ReleaseClaim, Applying, CleanedUp, Go, TypeOK,
             Locals
<1>17. CASE TurnClear
  <2>0. refused' \in BOOLEAN
    BY <1>17, Zenon DEF TurnClear, ClearToken, SetToken, CleanedUp, TypeOK, Thread
  <2>1. loc' \in [Thread -> Locals]
    BY <1>17, CleanedUpIs DEF TurnClear, ClearToken, SetToken
  <2> QED BY <1>17, <2>0, <2>1, CleanedUpIs DEF TurnClear, ClearToken, SetToken, TypeOK
<1>18. CASE KillOwnAdapter("killagain", "finish")
  <2>0. refused' \in BOOLEAN
    BY <1>18, Zenon DEF KillOwnAdapter, TypeOK, Thread
  <2> QED BY <1>18, <2>0 DEF KillOwnAdapter, TypeOK, Locals
<1>19. CASE Finish
  <2>0. refused' \in BOOLEAN
    BY <1>19, Zenon DEF Finish, Go, Done, TypeOK, Thread
  <2> QED BY <1>19, <2>0, PcNames, IdleIs DEF Finish, Go, Done, TypeOK, Locals
<1>20. CASE Finalization(Worker)
  BY <1>20, TypeOKFinalization
<1> QED BY <1>1, <1>2, <1>3, <1>4, <1>5, <1>6, <1>7, <1>8, <1>9, <1>10, <1>11, <1>12, <1>13,
           <1>14, <1>15, <1>16, <1>17, <1>18, <1>19, <1>20 DEF WorkerStep

\* The first step of a request keep the types.
LEMMA TypeOKNewRequest ==
    ASSUME TypeOK, TurnInv, NEW h \in Handler, NewRequest(h)
    PROVE  TypeOK'
<1> USE DEF At, Thread, lease, session, history
<1>1. CASE Turn(h)
  <2>0. refused' \in BOOLEAN
    BY <1>1, Zenon DEF Turn, CanReserve, Reserve, TypeOK, Thread
  <2> QED BY <1>1, <2>0 DEF Turn, CanReserve, Reserve, TypeOK, Locals
<1>2. CASE Kill(h)
  <2>0. refused' \in BOOLEAN
    BY <1>2, Zenon DEF Kill, TypeOK, Thread
  <2> QED BY <1>2, <2>0 DEF Kill, TypeOK, Locals
<1>3. CASE Close(h)
  <2>0. refused' \in BOOLEAN
    BY <1>3, Zenon DEF Close, CanReserve, MarkTerminal, TypeOK, Thread
  <2> QED BY <1>3, <2>0 DEF Close, CanReserve, MarkTerminal, TypeOK, Locals
<1>4. CASE Accept(h)
  <2>0. refused' \in BOOLEAN
    BY <1>4, Zenon DEF Accept, TypeOK, Thread
  <2> QED BY <1>4, <2>0 DEF Accept, TypeOK, Locals
<1> QED BY <1>1, <1>2, <1>3, <1>4 DEF NewRequest

LEMMA TypeOKNext ==
    ASSUME TypeOK, TurnInv, [Next]_vars
    PROVE  TypeOK'
<1>1. ASSUME NEW h \in Handler, HandlerStep(h) PROVE TypeOK'
  BY <1>1, TypeOKTurnRequest, TypeOKEndRequest, TypeOKAcceptRequest, TypeOKFinalization DEF
     HandlerStep, Thread
<1>2. CASE WorkerStep
  BY <1>2, TypeOKWorkerStep
<1>3. ASSUME NEW h \in Handler, NewRequest(h) PROVE TypeOK'
  BY <1>3, TypeOKNewRequest
<1>4. ASSUME NEW a \in Ask, Decide(a) PROVE TypeOK'
  <2>0. refused' \in BOOLEAN
    BY <1>4, Zenon DEF Decide, TypeOK, Thread, lease
  <2> QED BY <1>4, <2>0 DEF Decide, TypeOK, lease, session, history
<1>5. CASE OtherSession
  <2>0. refused' \in BOOLEAN
    BY <1>5, Zenon DEF OtherSession, Free, TypeOK, Thread
  <2> QED BY <1>5, <2>0 DEF OtherSession, Free, TypeOK, session, history
<1>6. CASE UNCHANGED vars
  BY <1>6 DEF vars, lease, session, history, TypeOK
<1> QED BY <1>1, <1>2, <1>3, <1>4, <1>5, <1>6 DEF Next, NewRequest

(***************************************************************************)
(* A granted claim is private until it is bound.                            *)
(***************************************************************************)
\* The steps of a turn request keep a granted claim private.
LEMMA ClaimInvTurnRequest ==
    ASSUME TypeOK, TypeOK', ClaimInv, TurnInv, EndInv, NEW h \in Handler, TurnRequest(h)
    PROVE  ClaimInv'
<1> USE DEF At, Thread, lease, session, history
<1>1. CASE StartTurn(h)
  BY <1>1 DEF StartTurn, CanReserve, Reserve, Go, TypeOK, Locals, ClaimInv
<1>2. CASE LookForToken(h)
  BY <1>2 DEF LookForToken, Go, ClaimInv
<1>3. CASE AcquireForTurn(h)
  <2>1. CASE Granted(h, "bind")
    <3>1. PICK c \in Claim : /\ holder = NoClaim /\ ~refused /\ ~refused'
                                /\ holder' = c /\ Take(h, c, "bind") /\ token # c
                                /\ \A u \in Thread : loc[u].claim # c
      BY <2>1, GrantedIs DEF Thread
    <3> QED BY <1>3, <3>1 DEF AcquireForTurn, Take, Go, TypeOK, Locals
  <2>2. CASE Busy /\ RollBack(h) /\ Denied(h)
    BY <1>3, <2>2, IdleIs, ClaimsDiffer DEF AcquireForTurn, Free, Busy, RollBack, MayRollBack,
       Denied, Go, Done, TypeOK, Locals, ClaimInv
  <2> QED BY <1>3, <2>1, <2>2 DEF AcquireForTurn
<1>4. CASE Retained(h)
  BY <1>4, IdleIs, ClaimsDiffer DEF Retained, RollBack, MayRollBack, Denied, Go, Done, TypeOK,
     Locals, ClaimInv
<1>5. CASE Bind(h, "bind", "verify")
  BY <1>5, IdleIs, BackIs DEF Bind, SetToken, Go, Done, Resumed, TypeOK, Locals, ClaimInv
<1>6. CASE VerifyForTurn(h)
  BY <1>6 DEF VerifyForTurn, Owns, VerifyFails, Go, TypeOK, Locals, ClaimInv
<1>7. CASE Attach(h, "attach", "ready", "cancel")
  BY <1>7, BackIs, IdleIs DEF Attach, Go, Done, Resumed, TypeOK, Locals, ClaimInv
<1>8. CASE Commit(h)
  BY <1>8 DEF Commit, MayRollBack, Go, TypeOK, Locals, ClaimInv
<1>9. CASE Launch(h)
  BY <1>9, IdleIs, ClaimsDiffer DEF Launch, MarkTerminal, Go, TypeOK, Locals, ClaimInv
<1>10. CASE Launched(h)
  BY <1>10, IdleIs, ClaimsDiffer DEF Launched, Go, Done, TypeOK, Locals, ClaimInv
<1>11. CASE CancelRelease(h)
  BY <1>11 DEF CancelRelease, ReleaseClaim, Applying, ClaimInv, TurnInv, PreLaunch
<1>12. CASE CancelUnbind(h)
  BY <1>12, ClaimsDiffer DEF CancelUnbind, ClearToken, SetToken, Go, ClaimInv
<1>13. CASE CancelRollBack(h)
  BY <1>13, IdleIs, ClaimsDiffer DEF CancelRollBack, MayRollBack, RollBack, Denied, Go, Done,
     TypeOK, Locals, ClaimInv
<1> QED BY <1>1, <1>2, <1>3, <1>4, <1>5, <1>6, <1>7, <1>8, <1>9, <1>10, <1>11, <1>12, <1>13 DEF
           TurnRequest

\* The steps that end a session keep a granted claim private.
LEMMA ClaimInvEndRequest ==
    ASSUME TypeOK, TypeOK', ClaimInv, TurnInv, EndInv, NEW h \in Handler, EndRequest(h)
    PROVE  ClaimInv'
<1> USE DEF At, Thread, lease, session, history
<1>1. CASE DenyWaiters(h)
  BY <1>1, WaitersDeniedIs, ClaimsDiffer DEF DenyWaiters, Unparked, Resumed, ClaimInv
<1>2. CASE Mark(h)
  BY <1>2 DEF Mark, MarkTerminal, Go, ClaimInv
<1>3. CASE CloseAdapter(h)
  BY <1>3, ProcessesGoneIs DEF CloseAdapter, Unparked, Resumed, TypeOK, Locals
<1>4. CASE KillAdapter(h)
  <2>1. UNCHANGED <<holder, session, t8, row, history>> /\ dead' = TRUE /\ loc[h].pc \in {"kill", "undo", "fail"}
    BY <1>4 DEF KillAdapter
  <2>2. /\ WorkerOrBack(h, "child")
        /\ loc'[h].kind = loc[h].kind /\ loc'[h].claim = loc[h].claim
        /\ loc'[h].pc = IF loc[h].pc = "kill" THEN "join" ELSE "fin"
        /\ loc'[h].proven => loc'[Worker].pc # "child"
    BY <1>4, KillAdapterIs
  <2> QED BY <2>1, <2>2, ClaimsDiffer DEF ClaimInv, WorkerOrBack
<1>5. CASE Join(h)
  <2>1. UNCHANGED <<lease, session, dead, t8, row, history>>
    BY <1>5 DEF Join
  <2>2. /\ \A t \in Thread : t # h => loc'[t] = loc[t]
        /\ loc[h].pc = "join" /\ loc'[h].pc = "fin"
        /\ loc'[h].kind = loc[h].kind /\ loc'[h].claim = loc[h].claim
        /\ loc'[h].proven => loc[h].proven /\ loc[Worker].pc = "idle"
    BY <1>5, JoinIs
  <2> QED BY <2>1, <2>2 DEF ClaimInv
<1>6. CASE StartRelease(h)
  BY <1>6, IdleIs, ClaimsDiffer DEF StartRelease, ReleaseClaim, Applying, Done, ClaimInv, EndInv
<1> QED BY <1>1, <1>2, <1>3, <1>4, <1>5, <1>6 DEF EndRequest

\* The steps of an Accept keep a granted claim private.
LEMMA ClaimInvAcceptRequest ==
    ASSUME TypeOK, TypeOK', ClaimInv, TurnInv, EndInv, NEW h \in Handler, AcceptRequest(h)
    PROVE  ClaimInv'
<1> USE DEF At, Thread, lease, session, history
<1>1. CASE AcceptSession(h)
  BY <1>1 DEF AcceptSession, Go, ClaimInv
<1>2. CASE EnsureClaim(h)
  BY <1>2 DEF EnsureClaim, Take, TypeOK, ClaimInv
<1>3. CASE AcceptVerify(h)
  BY <1>3, IdleIs, ClaimsDiffer DEF AcceptVerify, Owns, VerifyFails, Go, Done, TypeOK, Locals,
     ClaimInv
<1>4. CASE AcceptAcquire(h)
  <2>1. CASE Granted(h, "hold")
    <3>1. PICK c \in Claim : /\ holder = NoClaim /\ ~refused /\ ~refused'
                                /\ holder' = c /\ Take(h, c, "hold") /\ token # c
                                /\ \A u \in Thread : loc[u].claim # c
      BY <2>1, GrantedIs DEF Thread
    <3> QED BY <1>4, <3>1 DEF AcceptAcquire, Take, TypeOK, Locals
  <2>2. CASE Busy /\ Done(h)
    BY <1>4, <2>2, IdleIs, ClaimsDiffer DEF AcceptAcquire, Free, Busy, Done, ClaimInv
  <2> QED BY <1>4, <2>1, <2>2 DEF AcceptAcquire
<1>5. CASE Bind(h, "hold", "track")
  BY <1>5, IdleIs, BackIs DEF Bind, SetToken, Go, Done, Resumed, TypeOK, Locals, ClaimInv
<1>6. CASE Attach(h, "track", "validate", "idle")
  BY <1>6, BackIs, IdleIs, ClaimsDiffer DEF Attach, Go, Done, Resumed, TypeOK, Locals, ClaimInv
<1>7. CASE Validate(h)
  BY <1>7, IdleIs, ClaimsDiffer DEF Validate, Go, Done, TypeOK, Locals, ClaimInv
<1>8. CASE Resolve(h)
  BY <1>8, IdleIs, ClaimsDiffer DEF Resolve, Done, ClaimInv
<1> QED BY <1>1, <1>2, <1>3, <1>4, <1>5, <1>6, <1>7, <1>8 DEF AcceptRequest

\* The steps of a finalization keep a granted claim private.
LEMMA ClaimInvFinalization ==
    ASSUME TypeOK, TypeOK', ClaimInv, TurnInv, EndInv, NEW t \in Thread, Finalization(t)
    PROVE  ClaimInv'
<1> USE DEF At, Thread, lease, session, history
<1>1. CASE Finalize(t)
  BY <1>1 DEF Finalize, MarkTerminal, Go, ClaimInv
<1>2. CASE WriteT8(t)
  BY <1>2 DEF WriteT8, Go, ClaimInv
<1>3. CASE Deregister(t)
  BY <1>3, WaitersDeniedIs, ClaimsDiffer DEF Deregister, Unparked, Resumed, ClaimInv
<1>4. CASE Reconcile(t, "reconcile", "read")
  BY <1>4 DEF Reconcile, Go, TypeOK, Locals, ClaimInv
<1>5. CASE ReadToken(t)
  BY <1>5 DEF ReadToken, Take, TypeOK, ClaimInv
<1>6. CASE FinalRelease(t)
  BY <1>6 DEF FinalRelease, ReleaseClaim, Applying, Go, ClaimInv, EndInv, AfterEnd
<1>7. CASE FinalClear(t)
  BY <1>7, ClaimsDiffer DEF FinalClear, ClearToken, SetToken, Go, ClaimInv
<1>8. CASE Ended(t)
  BY <1>8, IdleIs, ThreadsDiffer, ClaimsDiffer DEF Ended, Go, Done, TypeOK, Locals, ClaimInv
<1> QED BY <1>1, <1>2, <1>3, <1>4, <1>5, <1>6, <1>7, <1>8 DEF Finalization

\* The steps of the worker keep a granted claim private.
LEMMA ClaimInvWorkerStep ==
    ASSUME TypeOK, TypeOK', ClaimInv, TurnInv, EndInv, WorkerStep
    PROVE  ClaimInv'
<1> USE DEF At, Thread, lease, session, history
<1>1. CASE Begin
  BY <1>1 DEF Begin, Go, TypeOK, Locals, ClaimInv
<1>2. CASE Guard
  BY <1>2 DEF Guard, Take, TypeOK, ClaimInv
<1>3. CASE GuardVerify
  BY <1>3, BackIs, ClaimsDiffer DEF GuardVerify, Owns, VerifyFails, Go, Resumed, TypeOK, Locals,
     ClaimInv
<1>4. CASE GuardAcquire
  <2>1. CASE Granted(Worker, "grab")
    <3>1. PICK c \in Claim : /\ holder = NoClaim /\ ~refused /\ ~refused'
                                /\ holder' = c /\ Take(Worker, c, "grab") /\ token # c
                                /\ \A u \in Thread : loc[u].claim # c
      BY <2>1, GrantedIs DEF Thread
    <3> QED BY <1>4, <3>1 DEF GuardAcquire, Take, TypeOK, Locals
  <2>2. CASE Busy /\ BackToTurn
    BY <1>4, <2>2, BackIs, ClaimsDiffer DEF GuardAcquire, Free, Busy, Resumed, ClaimInv
  <2> QED BY <1>4, <2>1, <2>2 DEF GuardAcquire
<1>5. CASE Bind(Worker, "grab", "hook")
  BY <1>5, IdleIs, BackIs DEF Bind, SetToken, Go, Done, Resumed, TypeOK, Locals, ClaimInv
<1>6. CASE Attach(Worker, "hook", "guarded", "turn")
  BY <1>6, BackIs, IdleIs, ClaimsDiffer DEF Attach, Go, Done, Resumed, TypeOK, Locals, ClaimInv
<1>7. CASE Mutate
  BY <1>7, BackIs, ClaimsDiffer DEF Mutate, Owns, Go, Resumed, TypeOK, Locals, ClaimInv
<1>8. CASE Mutated
  BY <1>8, BackIs, ClaimsDiffer DEF Mutated, Resumed, ClaimInv
<1>9. CASE OpenAsk
  BY <1>9 DEF OpenAsk, TypeOK, ClaimInv
<1>10. CASE Answered
  BY <1>10, BackIs, ClaimsDiffer DEF Answered, Resumed, ClaimInv
<1>11. CASE AskTimesOut
  BY <1>11 DEF AskTimesOut, TypeOK, ClaimInv
<1>12. CASE EndTurn
  BY <1>12 DEF EndTurn, TypeOK, ClaimInv
<1>13. CASE KillOwnAdapter("killadapter", "finally")
  BY <1>13 DEF KillOwnAdapter, TypeOK, ClaimInv
<1>14. CASE Finally
  BY <1>14 DEF Finally, Take, TypeOK, ClaimInv
<1>15. CASE Reconcile(Worker, "settle", "turnrelease")
  BY <1>15 DEF Reconcile, Go, TypeOK, Locals, ClaimInv
<1>16. CASE TurnRelease
  BY <1>16 DEF TurnRelease, ReleaseClaim, Applying, CleanedUp, Go, TypeOK, Locals, ClaimInv,
     TurnInv, Hot, PreLaunch
<1>17. CASE TurnClear
  BY <1>17, ClaimsDiffer DEF TurnClear, ClearToken, SetToken, CleanedUp, TypeOK, ClaimInv
<1>18. CASE KillOwnAdapter("killagain", "finish")
  BY <1>18 DEF KillOwnAdapter, TypeOK, ClaimInv
<1>19. CASE Finish
  BY <1>19, IdleIs, ClaimsDiffer DEF Finish, Go, Done, TypeOK, Locals, ClaimInv
<1>20. CASE Finalization(Worker)
  BY <1>20, ClaimInvFinalization
<1> QED BY <1>1, <1>2, <1>3, <1>4, <1>5, <1>6, <1>7, <1>8, <1>9, <1>10, <1>11, <1>12, <1>13,
           <1>14, <1>15, <1>16, <1>17, <1>18, <1>19, <1>20 DEF WorkerStep

\* The first step of a request keep a granted claim private.
LEMMA ClaimInvNewRequest ==
    ASSUME TypeOK, TypeOK', ClaimInv, TurnInv, EndInv, NEW h \in Handler, NewRequest(h)
    PROVE  ClaimInv'
<1> USE DEF At, Thread, lease, session, history
<1>1. CASE Turn(h)
  BY <1>1 DEF Turn, CanReserve, Reserve, TypeOK, ClaimInv
<1>2. CASE Kill(h)
  BY <1>2 DEF Kill, TypeOK, ClaimInv
<1>3. CASE Close(h)
  BY <1>3 DEF Close, CanReserve, MarkTerminal, TypeOK, ClaimInv
<1>4. CASE Accept(h)
  BY <1>4 DEF Accept, TypeOK, ClaimInv
<1> QED BY <1>1, <1>2, <1>3, <1>4 DEF NewRequest

LEMMA ClaimInvNext ==
    ASSUME TypeOK, TypeOK', ClaimInv, TurnInv, EndInv, [Next]_vars
    PROVE  ClaimInv'
<1>1. ASSUME NEW h \in Handler, HandlerStep(h) PROVE ClaimInv'
  BY <1>1, ClaimInvTurnRequest, ClaimInvEndRequest, ClaimInvAcceptRequest, ClaimInvFinalization
     DEF HandlerStep, Thread
<1>2. CASE WorkerStep
  BY <1>2, ClaimInvWorkerStep
<1>3. ASSUME NEW h \in Handler, NewRequest(h) PROVE ClaimInv'
  BY <1>3, ClaimInvNewRequest
<1>4. ASSUME NEW a \in Ask, Decide(a) PROVE ClaimInv'
  BY <1>4 DEF Decide, ClaimInv, lease, session
<1>5. CASE OtherSession
  BY <1>5, ClaimsDiffer DEF OtherSession, Free, TypeOK, ClaimInv, session
<1>6. CASE UNCHANGED vars
  BY <1>6 DEF vars, lease, session, ClaimInv
<1> QED BY <1>1, <1>2, <1>3, <1>4, <1>5, <1>6 DEF Next, NewRequest

(***************************************************************************)
(* One request or the worker has the turn.                                  *)
(***************************************************************************)
\* The steps of a turn request leave the turn to one thread.
LEMMA TurnInvTurnRequest ==
    ASSUME TypeOK, TypeOK', ClaimInv, TurnInv, EndInv, NEW h \in Handler, TurnRequest(h)
    PROVE  TurnInv'
<1> USE DEF At, Thread, lease, session, history
<1>1. CASE StartTurn(h)
  BY <1>1 DEF StartTurn, CanReserve, Reserve, Go, TypeOK, Locals, TurnInv, Hot, PreLaunch
<1>2. CASE LookForToken(h)
  BY <1>2 DEF LookForToken, Go, TurnInv, Hot, PreLaunch
<1>3. CASE AcquireForTurn(h)
  <2>1. CASE Granted(h, "bind")
    <3>1. PICK c \in Claim : /\ holder = NoClaim /\ ~refused /\ ~refused'
                                /\ holder' = c /\ Take(h, c, "bind") /\ token # c
                                /\ \A u \in Thread : loc[u].claim # c
      BY <2>1, GrantedIs DEF Thread
    <3> QED BY <1>3, <3>1 DEF AcquireForTurn, Take, Go, TypeOK, Locals
  <2>2. CASE Busy /\ RollBack(h) /\ Denied(h)
    BY <1>3, <2>2, IdleIs, ThreadsDiffer DEF AcquireForTurn, Free, Busy, RollBack, MayRollBack,
       Denied, Go, Done, TypeOK, Locals, TurnInv, Hot, PreLaunch
  <2> QED BY <1>3, <2>1, <2>2 DEF AcquireForTurn
<1>4. CASE Retained(h)
  BY <1>4, IdleIs, ThreadsDiffer DEF Retained, RollBack, MayRollBack, Denied, Go, Done, TypeOK,
     Locals, TurnInv, Hot, PreLaunch
<1>5. CASE Bind(h, "bind", "verify")
  BY <1>5, IdleIs, BackIs DEF Bind, SetToken, Go, Done, Resumed, TypeOK, Locals, ClaimInv,
     TurnInv, Hot, PreLaunch
<1>6. CASE VerifyForTurn(h)
  BY <1>6 DEF VerifyForTurn, Owns, VerifyFails, Go, TypeOK, Locals, TurnInv, Hot, PreLaunch
<1>7. CASE Attach(h, "attach", "ready", "cancel")
  BY <1>7, BackIs, IdleIs DEF Attach, Go, Done, Resumed, TypeOK, Locals, TurnInv, Hot, PreLaunch
<1>8. CASE Commit(h)
  BY <1>8, ThreadsDiffer DEF Commit, MayRollBack, Go, TypeOK, Locals, TurnInv, Hot, PreLaunch
<1>9. CASE Launch(h)
  BY <1>9, IdleIs DEF Launch, MarkTerminal, Go, TypeOK, Locals, TurnInv, Hot, PreLaunch
<1>10. CASE Launched(h)
  BY <1>10, IdleIs, ThreadsDiffer DEF Launched, Go, Done, TypeOK, Locals, TurnInv, Hot, PreLaunch
<1>11. CASE CancelRelease(h)
  BY <1>11 DEF CancelRelease, ReleaseClaim, Applying, TurnInv, Hot, PreLaunch
<1>12. CASE CancelUnbind(h)
  BY <1>12 DEF CancelUnbind, ClearToken, SetToken, Go, TurnInv, Hot, PreLaunch
<1>13. CASE CancelRollBack(h)
  BY <1>13, IdleIs, ThreadsDiffer DEF CancelRollBack, MayRollBack, RollBack, Denied, Go, Done,
     TypeOK, Locals, TurnInv, Hot, PreLaunch
<1> QED BY <1>1, <1>2, <1>3, <1>4, <1>5, <1>6, <1>7, <1>8, <1>9, <1>10, <1>11, <1>12, <1>13 DEF
           TurnRequest

\* The steps that end a session leave the turn to one thread.
LEMMA TurnInvEndRequest ==
    ASSUME TypeOK, TypeOK', ClaimInv, TurnInv, EndInv, NEW h \in Handler, EndRequest(h)
    PROVE  TurnInv'
<1> USE DEF At, Thread, lease, session, history
<1>1. CASE DenyWaiters(h)
  BY <1>1, WaitersDeniedIs DEF DenyWaiters, Unparked, Resumed, TurnInv, Hot, PreLaunch
<1>2. CASE Mark(h)
  BY <1>2, ThreadsDiffer DEF Mark, MarkTerminal, Go, TurnInv, Hot, PreLaunch
<1>3. CASE CloseAdapter(h)
  BY <1>3, ProcessesGoneIs, ThreadsDiffer DEF CloseAdapter, Unparked, Resumed, TypeOK, TurnInv,
     Hot, PreLaunch
<1>4. CASE KillAdapter(h)
  <2>1. UNCHANGED <<holder, session, t8, row, history>> /\ dead' = TRUE /\ loc[h].pc \in {"kill", "undo", "fail"}
    BY <1>4 DEF KillAdapter
  <2>2. /\ WorkerOrBack(h, "child")
        /\ loc'[h].kind = loc[h].kind /\ loc'[h].claim = loc[h].claim
        /\ loc'[h].pc = IF loc[h].pc = "kill" THEN "join" ELSE "fin"
        /\ loc'[h].proven => loc'[Worker].pc # "child"
    BY <1>4, KillAdapterIs
  <2> QED BY <2>1, <2>2 DEF TurnInv, Hot, PreLaunch, WorkerOrBack
<1>5. CASE Join(h)
  <2>1. UNCHANGED <<lease, session, dead, t8, row, history>>
    BY <1>5 DEF Join
  <2>2. /\ \A t \in Thread : t # h => loc'[t] = loc[t]
        /\ loc[h].pc = "join" /\ loc'[h].pc = "fin"
        /\ loc'[h].kind = loc[h].kind /\ loc'[h].claim = loc[h].claim
        /\ loc'[h].proven => loc[h].proven /\ loc[Worker].pc = "idle"
    BY <1>5, JoinIs
  <2> QED BY <2>1, <2>2 DEF TurnInv, Hot, PreLaunch
<1>6. CASE StartRelease(h)
  BY <1>6, IdleIs DEF StartRelease, ReleaseClaim, Applying, Done, TurnInv, Hot, PreLaunch, EndInv
<1> QED BY <1>1, <1>2, <1>3, <1>4, <1>5, <1>6 DEF EndRequest

\* The steps of an Accept leave the turn to one thread.
LEMMA TurnInvAcceptRequest ==
    ASSUME TypeOK, TypeOK', ClaimInv, TurnInv, EndInv, NEW h \in Handler, AcceptRequest(h)
    PROVE  TurnInv'
<1> USE DEF At, Thread, lease, session, history
<1>1. CASE AcceptSession(h)
  BY <1>1, ClaimsDiffer DEF AcceptSession, Go, TurnInv, Hot, PreLaunch
<1>2. CASE EnsureClaim(h)
  BY <1>2, ClaimsDiffer DEF EnsureClaim, Take, TypeOK, TurnInv, Hot, PreLaunch
<1>3. CASE AcceptVerify(h)
  BY <1>3, IdleIs, ThreadsDiffer DEF AcceptVerify, Owns, VerifyFails, Go, Done, TypeOK, Locals,
     TurnInv, Hot, PreLaunch
<1>4. CASE AcceptAcquire(h)
  <2>1. CASE Granted(h, "hold")
    <3>1. PICK c \in Claim : /\ holder = NoClaim /\ ~refused /\ ~refused'
                                /\ holder' = c /\ Take(h, c, "hold") /\ token # c
                                /\ \A u \in Thread : loc[u].claim # c
      BY <2>1, GrantedIs DEF Thread
    <3> QED BY <1>4, <3>1 DEF AcceptAcquire, Take, TypeOK, TurnInv, Hot, PreLaunch
  <2>2. CASE Busy /\ Done(h)
    BY <1>4, <2>2, IdleIs, ThreadsDiffer DEF AcceptAcquire, Free, Busy, Done, TurnInv, Hot,
       PreLaunch
  <2> QED BY <1>4, <2>1, <2>2 DEF AcceptAcquire
<1>5. CASE Bind(h, "hold", "track")
  BY <1>5, IdleIs, BackIs DEF Bind, SetToken, Go, Done, Resumed, TypeOK, Locals, TurnInv, Hot,
     PreLaunch
<1>6. CASE Attach(h, "track", "validate", "idle")
  BY <1>6, BackIs, IdleIs, ThreadsDiffer DEF Attach, Go, Done, Resumed, TypeOK, Locals, TurnInv,
     Hot, PreLaunch
<1>7. CASE Validate(h)
  BY <1>7, IdleIs, ThreadsDiffer DEF Validate, Go, Done, TypeOK, Locals, TurnInv, Hot, PreLaunch
<1>8. CASE Resolve(h)
  BY <1>8, IdleIs, ThreadsDiffer DEF Resolve, Done, TurnInv, Hot, PreLaunch
<1> QED BY <1>1, <1>2, <1>3, <1>4, <1>5, <1>6, <1>7, <1>8 DEF AcceptRequest

\* The steps of a finalization leave the turn to one thread.
LEMMA TurnInvFinalization ==
    ASSUME TypeOK, TypeOK', ClaimInv, TurnInv, EndInv, NEW t \in Thread, Finalization(t)
    PROVE  TurnInv'
<1> USE DEF At, Thread, lease, session, history
<1>1. CASE Finalize(t)
  BY <1>1, ThreadsDiffer DEF Finalize, MarkTerminal, Go, TurnInv, Hot, PreLaunch, EndInv
<1>2. CASE WriteT8(t)
  BY <1>2 DEF WriteT8, Go, TurnInv, Hot, PreLaunch
<1>3. CASE Deregister(t)
  BY <1>3, WaitersDeniedIs DEF Deregister, Unparked, Resumed, TurnInv, Hot, PreLaunch
<1>4. CASE Reconcile(t, "reconcile", "read")
  BY <1>4 DEF Reconcile, Go, TypeOK, Locals, TurnInv, Hot, PreLaunch
<1>5. CASE ReadToken(t)
  BY <1>5 DEF ReadToken, Take, TypeOK, TurnInv, Hot, PreLaunch
<1>6. CASE FinalRelease(t)
  BY <1>6 DEF FinalRelease, ReleaseClaim, Applying, Go, TurnInv, Hot, PreLaunch
<1>7. CASE FinalClear(t)
  BY <1>7 DEF FinalClear, ClearToken, SetToken, Go, TurnInv, Hot, PreLaunch
<1>8. CASE Ended(t)
  BY <1>8, IdleIs DEF Ended, Go, Done, TypeOK, Locals, TurnInv, Hot, PreLaunch, EndInv, AfterEnd
<1> QED BY <1>1, <1>2, <1>3, <1>4, <1>5, <1>6, <1>7, <1>8 DEF Finalization

\* The steps of the worker leave the turn to one thread.
LEMMA TurnInvWorkerStep ==
    ASSUME TypeOK, TypeOK', ClaimInv, TurnInv, EndInv, WorkerStep
    PROVE  TurnInv'
<1> USE DEF At, Thread, lease, session, history
<1>1. CASE Begin
  BY <1>1 DEF Begin, Go, TypeOK, Locals, TurnInv, Hot, PreLaunch
<1>2. CASE Guard
  BY <1>2, ClaimsDiffer DEF Guard, Take, TypeOK, TurnInv, Hot, PreLaunch
<1>3. CASE GuardVerify
  BY <1>3, BackIs DEF GuardVerify, Owns, VerifyFails, Go, Resumed, TypeOK, Locals, TurnInv, Hot,
     PreLaunch
<1>4. CASE GuardAcquire
  <2>1. CASE Granted(Worker, "grab")
    <3>1. PICK c \in Claim : /\ holder = NoClaim /\ ~refused /\ ~refused'
                                /\ holder' = c /\ Take(Worker, c, "grab") /\ token # c
                                /\ \A u \in Thread : loc[u].claim # c
      BY <2>1, GrantedIs DEF Thread
    <3> QED BY <1>4, <3>1 DEF GuardAcquire, Take, TypeOK, TurnInv, Hot, PreLaunch
  <2>2. CASE Busy /\ BackToTurn
    BY <1>4, <2>2, BackIs DEF GuardAcquire, Free, Busy, Resumed, TurnInv, Hot
  <2> QED BY <1>4, <2>1, <2>2 DEF GuardAcquire
<1>5. CASE Bind(Worker, "grab", "hook")
  BY <1>5, IdleIs, BackIs DEF Bind, SetToken, Go, Done, Resumed, TypeOK, Locals, TurnInv, Hot,
     PreLaunch
<1>6. CASE Attach(Worker, "hook", "guarded", "turn")
  BY <1>6, BackIs, IdleIs DEF Attach, Go, Done, Resumed, TypeOK, Locals, TurnInv, Hot, PreLaunch
<1>7. CASE Mutate
  BY <1>7, BackIs DEF Mutate, Owns, Go, Resumed, TypeOK, Locals, TurnInv, Hot, PreLaunch
<1>8. CASE Mutated
  BY <1>8, BackIs DEF Mutated, Resumed, TurnInv, Hot
<1>9. CASE OpenAsk
  BY <1>9 DEF OpenAsk, TypeOK, TurnInv, Hot, PreLaunch
<1>10. CASE Answered
  BY <1>10, BackIs DEF Answered, Resumed, TurnInv, Hot
<1>11. CASE AskTimesOut
  BY <1>11 DEF AskTimesOut, TypeOK, TurnInv, Hot, PreLaunch
<1>12. CASE EndTurn
  BY <1>12 DEF EndTurn, TypeOK, TurnInv, Hot, PreLaunch
<1>13. CASE KillOwnAdapter("killadapter", "finally")
  BY <1>13 DEF KillOwnAdapter, TypeOK, TurnInv, Hot, PreLaunch
<1>14. CASE Finally
  BY <1>14, ClaimsDiffer DEF Finally, Take, TypeOK, TurnInv, Hot, PreLaunch
<1>15. CASE Reconcile(Worker, "settle", "turnrelease")
  BY <1>15 DEF Reconcile, Go, TypeOK, Locals, TurnInv, Hot, PreLaunch
<1>16. CASE TurnRelease
  BY <1>16 DEF TurnRelease, ReleaseClaim, Applying, CleanedUp, Go, TypeOK, Locals, TurnInv, Hot,
     PreLaunch
<1>17. CASE TurnClear
  BY <1>17 DEF TurnClear, ClearToken, SetToken, CleanedUp, TypeOK, TurnInv, Hot, PreLaunch
<1>18. CASE KillOwnAdapter("killagain", "finish")
  BY <1>18 DEF KillOwnAdapter, TypeOK, TurnInv, Hot, PreLaunch
<1>19. CASE Finish
  BY <1>19, IdleIs DEF Finish, Go, Done, TypeOK, Locals, TurnInv, Hot, PreLaunch
<1>20. CASE Finalization(Worker)
  BY <1>20, TurnInvFinalization
<1> QED BY <1>1, <1>2, <1>3, <1>4, <1>5, <1>6, <1>7, <1>8, <1>9, <1>10, <1>11, <1>12, <1>13,
           <1>14, <1>15, <1>16, <1>17, <1>18, <1>19, <1>20 DEF WorkerStep

\* The first step of a request leave the turn to one thread.
LEMMA TurnInvNewRequest ==
    ASSUME TypeOK, TypeOK', ClaimInv, TurnInv, EndInv, NEW h \in Handler, NewRequest(h)
    PROVE  TurnInv'
<1> USE DEF At, Thread, lease, session, history
<1>1. CASE Turn(h)
  BY <1>1 DEF Turn, CanReserve, Reserve, TypeOK, Locals
<1>2. CASE Kill(h)
  BY <1>2 DEF Kill, TypeOK, Locals
<1>3. CASE Close(h)
  BY <1>3 DEF Close, CanReserve, MarkTerminal, TypeOK, TurnInv, Hot, PreLaunch
<1>4. CASE Accept(h)
  BY <1>4 DEF Accept, TypeOK, Locals
<1> QED BY <1>1, <1>2, <1>3, <1>4 DEF NewRequest

LEMMA TurnInvNext ==
    ASSUME TypeOK, TypeOK', ClaimInv, TurnInv, EndInv, [Next]_vars
    PROVE  TurnInv'
<1>1. ASSUME NEW h \in Handler, HandlerStep(h) PROVE TurnInv'
  BY <1>1, TurnInvTurnRequest, TurnInvEndRequest, TurnInvAcceptRequest, TurnInvFinalization DEF
     HandlerStep, Thread
<1>2. CASE WorkerStep
  BY <1>2, TurnInvWorkerStep
<1>3. ASSUME NEW h \in Handler, NewRequest(h) PROVE TurnInv'
  BY <1>3, TurnInvNewRequest
<1>4. ASSUME NEW a \in Ask, Decide(a) PROVE TurnInv'
  BY <1>4 DEF Decide, TurnInv, Hot, At, session
<1>5. CASE OtherSession
  BY <1>5 DEF OtherSession, Free, TurnInv, Hot, At, session
<1>6. CASE UNCHANGED vars
  BY <1>6 DEF vars, session, TurnInv, Hot, At
<1> QED BY <1>1, <1>2, <1>3, <1>4, <1>5, <1>6 DEF Next, NewRequest

(***************************************************************************)
(* The end of the conversation.                                             *)
(***************************************************************************)
\* The steps of a turn request keep what the end of the session leaves.
LEMMA EndInvTurnRequest ==
    ASSUME TypeOK, TypeOK', TurnInv, EndInv, NEW h \in Handler, TurnRequest(h)
    PROVE  EndInv'
<1> USE DEF At, Thread, lease, session, history
<1>1. CASE StartTurn(h)
  BY <1>1 DEF StartTurn, CanReserve, Reserve, Go, TypeOK, Locals, EndInv, AfterEnd, AfterKill,
     InVendor
<1>2. CASE LookForToken(h)
  BY <1>2 DEF LookForToken, Go, EndInv, AfterEnd, AfterKill, InVendor
<1>3. CASE AcquireForTurn(h)
  <2>1. CASE Granted(h, "bind")
    <3>1. PICK c \in Claim : /\ holder = NoClaim /\ ~refused /\ ~refused'
                                /\ holder' = c /\ Take(h, c, "bind") /\ token # c
                                /\ \A u \in Thread : loc[u].claim # c
      BY <2>1, GrantedIs DEF Thread
    <3> QED BY <1>3, <3>1 DEF AcquireForTurn, Take, Go, TypeOK, Locals
  <2>2. CASE Busy /\ RollBack(h) /\ Denied(h)
    BY <1>3, <2>2, IdleIs DEF AcquireForTurn, Free, Busy, RollBack, MayRollBack, Denied, Go, Done,
       TypeOK, Locals, EndInv, AfterEnd, AfterKill, InVendor
  <2> QED BY <1>3, <2>1, <2>2 DEF AcquireForTurn
<1>4. CASE Retained(h)
  BY <1>4, IdleIs DEF Retained, RollBack, MayRollBack, Denied, Go, Done, TypeOK, Locals, EndInv,
     AfterEnd, AfterKill, InVendor
<1>5. CASE Bind(h, "bind", "verify")
  BY <1>5, IdleIs, BackIs DEF Bind, SetToken, Go, Done, Resumed, TypeOK, Locals, EndInv, AfterEnd,
     AfterKill, InVendor
<1>6. CASE VerifyForTurn(h)
  BY <1>6 DEF VerifyForTurn, Owns, VerifyFails, Go, TypeOK, Locals, EndInv, AfterEnd, AfterKill,
     InVendor
<1>7. CASE Attach(h, "attach", "ready", "cancel")
  BY <1>7, BackIs, IdleIs DEF Attach, Go, Done, Resumed, TypeOK, Locals, EndInv, AfterEnd,
     AfterKill, InVendor
<1>8. CASE Commit(h)
  BY <1>8, ClaimsDiffer DEF Commit, MayRollBack, Go, TypeOK, Locals, EndInv, AfterEnd, AfterKill,
     InVendor
<1>9. CASE Launch(h)
  BY <1>9, IdleIs DEF Launch, MarkTerminal, Go, TypeOK, Locals, EndInv, AfterEnd, AfterKill,
     InVendor
<1>10. CASE Launched(h)
  BY <1>10, IdleIs DEF Launched, Go, Done, TypeOK, Locals, EndInv, AfterEnd, AfterKill, InVendor
<1>11. CASE CancelRelease(h)
  BY <1>11 DEF CancelRelease, ReleaseClaim, Applying, EndInv, AfterEnd, AfterKill, InVendor
<1>12. CASE CancelUnbind(h)
  BY <1>12 DEF CancelUnbind, ClearToken, SetToken, Go, EndInv, AfterEnd, AfterKill, InVendor
<1>13. CASE CancelRollBack(h)
  BY <1>13, IdleIs DEF CancelRollBack, MayRollBack, RollBack, Denied, Go, Done, TypeOK, Locals,
     EndInv, AfterEnd, AfterKill, InVendor
<1> QED BY <1>1, <1>2, <1>3, <1>4, <1>5, <1>6, <1>7, <1>8, <1>9, <1>10, <1>11, <1>12, <1>13 DEF
           TurnRequest

\* The steps that end a session keep what the end of the session leaves.
LEMMA EndInvEndRequest ==
    ASSUME TypeOK, TypeOK', TurnInv, EndInv, NEW h \in Handler, EndRequest(h)
    PROVE  EndInv'
<1> USE DEF At, Thread, lease, session, history
<1>1. CASE DenyWaiters(h)
  BY <1>1, WaitersDeniedIs DEF DenyWaiters, Unparked, Resumed, EndInv, AfterEnd, AfterKill,
     InVendor
<1>2. CASE Mark(h)
  BY <1>2 DEF Mark, MarkTerminal, Go, EndInv, AfterEnd, AfterKill, InVendor
<1>3. CASE CloseAdapter(h)
  BY <1>3, ProcessesGoneIs, ThreadsDiffer, ClaimsDiffer, AsksDiffer DEF CloseAdapter, Unparked,
     Resumed, TypeOK, EndInv, AfterEnd, AfterKill, InVendor
<1>4. CASE KillAdapter(h)
  <2>1. UNCHANGED <<holder, session, t8, row, history>> /\ dead' = TRUE /\ loc[h].pc \in {"kill", "undo", "fail"}
    BY <1>4 DEF KillAdapter
  <2>2. /\ WorkerOrBack(h, "child")
        /\ loc'[h].kind = loc[h].kind /\ loc'[h].claim = loc[h].claim
        /\ loc'[h].pc = IF loc[h].pc = "kill" THEN "join" ELSE "fin"
        /\ loc'[h].proven => loc'[Worker].pc # "child"
    BY <1>4, KillAdapterIs
  <2> QED BY <2>1, <2>2 DEF EndInv, AfterEnd, AfterKill, InVendor, WorkerOrBack
<1>5. CASE Join(h)
  <2>1. UNCHANGED <<lease, session, dead, t8, row, history>>
    BY <1>5 DEF Join
  <2>2. /\ \A t \in Thread : t # h => loc'[t] = loc[t]
        /\ loc[h].pc = "join" /\ loc'[h].pc = "fin"
        /\ loc'[h].kind = loc[h].kind /\ loc'[h].claim = loc[h].claim
        /\ loc'[h].proven => loc[h].proven /\ loc[Worker].pc = "idle"
    BY <1>5, JoinIs
  <2> QED BY <2>1, <2>2 DEF EndInv, AfterEnd, AfterKill, InVendor
<1>6. CASE StartRelease(h)
  BY <1>6, IdleIs DEF StartRelease, ReleaseClaim, Applying, Done, EndInv, AfterEnd, AfterKill,
     InVendor
<1> QED BY <1>1, <1>2, <1>3, <1>4, <1>5, <1>6 DEF EndRequest

\* The steps of an Accept keep what the end of the session leaves.
LEMMA EndInvAcceptRequest ==
    ASSUME TypeOK, TypeOK', TurnInv, EndInv, NEW h \in Handler, AcceptRequest(h)
    PROVE  EndInv'
<1> USE DEF At, Thread, lease, session, history
<1>1. CASE AcceptSession(h)
  BY <1>1 DEF AcceptSession, Go, EndInv, AfterEnd, AfterKill, InVendor
<1>2. CASE EnsureClaim(h)
  BY <1>2 DEF EnsureClaim, Take, TypeOK, EndInv, AfterEnd, AfterKill, InVendor
<1>3. CASE AcceptVerify(h)
  BY <1>3, IdleIs DEF AcceptVerify, Owns, VerifyFails, Go, Done, TypeOK, Locals, EndInv, AfterEnd,
     AfterKill, InVendor
<1>4. CASE AcceptAcquire(h)
  <2>1. CASE Granted(h, "hold")
    <3>1. PICK c \in Claim : /\ holder = NoClaim /\ ~refused /\ ~refused'
                                /\ holder' = c /\ Take(h, c, "hold") /\ token # c
                                /\ \A u \in Thread : loc[u].claim # c
      BY <2>1, GrantedIs DEF Thread
    <3> QED BY <1>4, <3>1 DEF AcceptAcquire, Take, TypeOK, EndInv, AfterEnd, AfterKill, InVendor
  <2>2. CASE Busy /\ Done(h)
    BY <1>4, <2>2, IdleIs DEF AcceptAcquire, Free, Busy, Done, EndInv, AfterEnd, AfterKill,
       InVendor
  <2> QED BY <1>4, <2>1, <2>2 DEF AcceptAcquire
<1>5. CASE Bind(h, "hold", "track")
  BY <1>5, IdleIs, BackIs DEF Bind, SetToken, Go, Done, Resumed, TypeOK, Locals, EndInv, AfterEnd,
     AfterKill, InVendor
<1>6. CASE Attach(h, "track", "validate", "idle")
  BY <1>6, BackIs, IdleIs DEF Attach, Go, Done, Resumed, TypeOK, Locals, EndInv, AfterEnd,
     AfterKill, InVendor
<1>7. CASE Validate(h)
  BY <1>7, IdleIs DEF Validate, Go, Done, TypeOK, Locals, EndInv, AfterEnd, AfterKill, InVendor
<1>8. CASE Resolve(h)
  BY <1>8, IdleIs DEF Resolve, Done, EndInv, AfterEnd, AfterKill, InVendor
<1> QED BY <1>1, <1>2, <1>3, <1>4, <1>5, <1>6, <1>7, <1>8 DEF AcceptRequest

\* The steps of a finalization keep what the end of the session leaves.
LEMMA EndInvFinalization ==
    ASSUME TypeOK, TypeOK', TurnInv, EndInv, NEW t \in Thread, Finalization(t)
    PROVE  EndInv'
<1> USE DEF At, Thread, lease, session, history
<1>1. CASE Finalize(t)
  BY <1>1 DEF Finalize, MarkTerminal, Go, EndInv, AfterEnd, AfterKill, InVendor
<1>2. CASE WriteT8(t)
  BY <1>2 DEF WriteT8, Go, EndInv, AfterEnd, AfterKill, InVendor
<1>3. CASE Deregister(t)
  BY <1>3, WaitersDeniedIs DEF Deregister, Unparked, Resumed, EndInv, AfterEnd, AfterKill,
     InVendor
<1>4. CASE Reconcile(t, "reconcile", "read")
  BY <1>4 DEF Reconcile, Go, TypeOK, Locals, EndInv, AfterEnd, AfterKill, InVendor
<1>5. CASE ReadToken(t)
  BY <1>5 DEF ReadToken, Take, TypeOK, EndInv, AfterEnd, AfterKill, InVendor
<1>6. CASE FinalRelease(t)
  BY <1>6 DEF FinalRelease, ReleaseClaim, Applying, Go, EndInv, AfterEnd, AfterKill, InVendor
<1>7. CASE FinalClear(t)
  BY <1>7 DEF FinalClear, ClearToken, SetToken, Go, EndInv, AfterEnd, AfterKill, InVendor
<1>8. CASE Ended(t)
  BY <1>8, IdleIs DEF Ended, Go, Done, TypeOK, Locals, EndInv, AfterEnd, AfterKill, InVendor
<1> QED BY <1>1, <1>2, <1>3, <1>4, <1>5, <1>6, <1>7, <1>8 DEF Finalization

\* The steps of the worker keep what the end of the session leaves.
LEMMA EndInvWorkerStep ==
    ASSUME TypeOK, TypeOK', TurnInv, EndInv, WorkerStep
    PROVE  EndInv'
<1> USE DEF At, Thread, lease, session, history
<1>1. CASE Begin
  BY <1>1 DEF Begin, Go, TypeOK, Locals, EndInv, AfterEnd, AfterKill
<1>2. CASE Guard
  BY <1>2 DEF Guard, Take, TypeOK, EndInv, AfterEnd, AfterKill, InVendor
<1>3. CASE GuardVerify
  BY <1>3, BackIs DEF GuardVerify, Owns, VerifyFails, Go, Resumed, TypeOK, Locals, EndInv,
     AfterEnd, AfterKill, InVendor
<1>4. CASE GuardAcquire
  <2>1. CASE Granted(Worker, "grab")
    <3>1. PICK c \in Claim : /\ holder = NoClaim /\ ~refused /\ ~refused'
                                /\ holder' = c /\ Take(Worker, c, "grab") /\ token # c
                                /\ \A u \in Thread : loc[u].claim # c
      BY <2>1, GrantedIs DEF Thread
    <3> QED BY <1>4, <3>1 DEF GuardAcquire, Take, TypeOK, EndInv, AfterEnd, AfterKill, InVendor
  <2>2. CASE Busy /\ BackToTurn
    BY <1>4, <2>2, BackIs DEF GuardAcquire, Free, Busy, Resumed, EndInv, AfterEnd, InVendor
  <2> QED BY <1>4, <2>1, <2>2 DEF GuardAcquire
<1>5. CASE Bind(Worker, "grab", "hook")
  BY <1>5, IdleIs, BackIs DEF Bind, SetToken, Go, Done, Resumed, TypeOK, Locals, EndInv, AfterEnd,
     AfterKill, InVendor
<1>6. CASE Attach(Worker, "hook", "guarded", "turn")
  BY <1>6, BackIs, IdleIs DEF Attach, Go, Done, Resumed, TypeOK, Locals, EndInv, AfterEnd,
     AfterKill, InVendor
<1>7. CASE Mutate
  BY <1>7, BackIs DEF Mutate, Owns, Go, Resumed, TypeOK, Locals, EndInv, AfterEnd, AfterKill,
     InVendor
<1>8. CASE Mutated
  BY <1>8, BackIs DEF Mutated, Resumed, EndInv, AfterEnd, InVendor
<1>9. CASE OpenAsk
  BY <1>9 DEF OpenAsk, TypeOK, EndInv, AfterEnd, AfterKill, InVendor
<1>10. CASE Answered
  BY <1>10, BackIs DEF Answered, Resumed, EndInv, AfterEnd, InVendor
<1>11. CASE AskTimesOut
  BY <1>11 DEF AskTimesOut, TypeOK, EndInv, AfterEnd, AfterKill, InVendor
<1>12. CASE EndTurn
  BY <1>12 DEF EndTurn, TypeOK, EndInv, AfterEnd, AfterKill, InVendor
<1>13. CASE KillOwnAdapter("killadapter", "finally")
  BY <1>13 DEF KillOwnAdapter, TypeOK, EndInv, AfterEnd, InVendor
<1>14. CASE Finally
  BY <1>14 DEF Finally, Take, TypeOK, EndInv, AfterEnd, AfterKill, InVendor
<1>15. CASE Reconcile(Worker, "settle", "turnrelease")
  BY <1>15 DEF Reconcile, Go, TypeOK, Locals, EndInv, AfterEnd, AfterKill, InVendor
<1>16. CASE TurnRelease
  BY <1>16 DEF TurnRelease, ReleaseClaim, Applying, CleanedUp, Go, TypeOK, Locals, EndInv,
     AfterEnd, AfterKill, InVendor
<1>17. CASE TurnClear
  BY <1>17 DEF TurnClear, ClearToken, SetToken, CleanedUp, TypeOK, EndInv, AfterEnd, AfterKill,
     InVendor
<1>18. CASE KillOwnAdapter("killagain", "finish")
  BY <1>18 DEF KillOwnAdapter, TypeOK, EndInv, AfterEnd, InVendor
<1>19. CASE Finish
  BY <1>19, IdleIs, ThreadsDiffer DEF Finish, Go, Done, TypeOK, Locals, EndInv, AfterEnd, InVendor
<1>20. CASE Finalization(Worker)
  BY <1>20, EndInvFinalization
<1> QED BY <1>1, <1>2, <1>3, <1>4, <1>5, <1>6, <1>7, <1>8, <1>9, <1>10, <1>11, <1>12, <1>13,
           <1>14, <1>15, <1>16, <1>17, <1>18, <1>19, <1>20 DEF WorkerStep

\* The first step of a request keep what the end of the session leaves.
LEMMA EndInvNewRequest ==
    ASSUME TypeOK, TypeOK', TurnInv, EndInv, NEW h \in Handler, NewRequest(h)
    PROVE  EndInv'
<1> USE DEF At, Thread, lease, session, history
<1>1. CASE Turn(h)
  BY <1>1 DEF Turn, CanReserve, Reserve, TypeOK, Locals
<1>2. CASE Kill(h)
  BY <1>2 DEF Kill, TypeOK, Locals
<1>3. CASE Close(h)
  BY <1>3 DEF Close, CanReserve, MarkTerminal, TypeOK, Locals
<1>4. CASE Accept(h)
  BY <1>4 DEF Accept, TypeOK, Locals
<1> QED BY <1>1, <1>2, <1>3, <1>4 DEF NewRequest

LEMMA EndInvNext ==
    ASSUME TypeOK, TypeOK', TurnInv, EndInv, [Next]_vars
    PROVE  EndInv'
<1>1. ASSUME NEW h \in Handler, HandlerStep(h) PROVE EndInv'
  BY <1>1, EndInvTurnRequest, EndInvEndRequest, EndInvAcceptRequest, EndInvFinalization DEF
     HandlerStep, Thread
<1>2. CASE WorkerStep
  BY <1>2, EndInvWorkerStep
<1>3. ASSUME NEW h \in Handler, NewRequest(h) PROVE EndInv'
  BY <1>3, EndInvNewRequest
<1>4. ASSUME NEW a \in Ask, Decide(a) PROVE EndInv'
  BY <1>4 DEF Decide, EndInv, At, session, history
<1>5. CASE OtherSession
  BY <1>5 DEF OtherSession, Free, EndInv, At, session, history
<1>6. CASE UNCHANGED vars
  BY <1>6 DEF vars, session, history, EndInv, At
<1> QED BY <1>1, <1>2, <1>3, <1>4, <1>5, <1>6 DEF Next, NewRequest

(***************************************************************************)
(* What the worker writes under.                                            *)
(***************************************************************************)
\* The steps of a turn request keep the claim the worker writes under.
LEMMA WriteInvTurnRequest ==
    ASSUME TypeOK, TypeOK', TurnInv, EndInv, WriteInv, NEW h \in Handler, TurnRequest(h)
    PROVE  WriteInv'
<1> USE DEF At, Thread, lease, session, history
<1>1. CASE StartTurn(h)
  BY <1>1 DEF StartTurn, CanReserve, Reserve, Go, TypeOK, Locals, WriteInv
<1>2. CASE LookForToken(h)
  BY <1>2 DEF LookForToken, Go, WriteInv
<1>3. CASE AcquireForTurn(h)
  <2>1. CASE Granted(h, "bind")
    <3>1. PICK c \in Claim : /\ holder = NoClaim /\ ~refused /\ ~refused'
                                /\ holder' = c /\ Take(h, c, "bind") /\ token # c
                                /\ \A u \in Thread : loc[u].claim # c
      BY <2>1, GrantedIs DEF Thread
    <3> QED BY <1>3, <3>1 DEF AcquireForTurn, Take, Go, TypeOK, TurnInv, Hot, PreLaunch, WriteInv
  <2>2. CASE Busy /\ RollBack(h) /\ Denied(h)
    BY <1>3, <2>2, IdleIs DEF AcquireForTurn, Free, Busy, RollBack, MayRollBack, Denied, Go, Done,
       TypeOK, Locals, WriteInv
  <2> QED BY <1>3, <2>1, <2>2 DEF AcquireForTurn
<1>4. CASE Retained(h)
  BY <1>4, IdleIs DEF Retained, RollBack, MayRollBack, Denied, Go, Done, TypeOK, Locals, WriteInv
<1>5. CASE Bind(h, "bind", "verify")
  BY <1>5, IdleIs, BackIs DEF Bind, SetToken, Go, Done, Resumed, TypeOK, Locals, WriteInv
<1>6. CASE VerifyForTurn(h)
  BY <1>6 DEF VerifyForTurn, Owns, VerifyFails, Go, TypeOK, Locals, WriteInv
<1>7. CASE Attach(h, "attach", "ready", "cancel")
  BY <1>7, BackIs, IdleIs DEF Attach, Go, Done, Resumed, TypeOK, Locals, WriteInv
<1>8. CASE Commit(h)
  BY <1>8 DEF Commit, MayRollBack, Go, TypeOK, Locals, WriteInv
<1>9. CASE Launch(h)
  BY <1>9, IdleIs DEF Launch, MarkTerminal, Go, TypeOK, Locals, WriteInv
<1>10. CASE Launched(h)
  BY <1>10, IdleIs DEF Launched, Go, Done, TypeOK, Locals, WriteInv
<1>11. CASE CancelRelease(h)
  BY <1>11, ClaimsDiffer DEF CancelRelease, ReleaseClaim, Applying, TurnInv, Hot, PreLaunch,
     WriteInv
<1>12. CASE CancelUnbind(h)
  BY <1>12 DEF CancelUnbind, ClearToken, SetToken, Go, WriteInv
<1>13. CASE CancelRollBack(h)
  BY <1>13, IdleIs DEF CancelRollBack, MayRollBack, RollBack, Denied, Go, Done, TypeOK, Locals,
     WriteInv
<1> QED BY <1>1, <1>2, <1>3, <1>4, <1>5, <1>6, <1>7, <1>8, <1>9, <1>10, <1>11, <1>12, <1>13 DEF
           TurnRequest

\* The steps that end a session keep the claim the worker writes under.
LEMMA WriteInvEndRequest ==
    ASSUME TypeOK, TypeOK', TurnInv, EndInv, WriteInv, NEW h \in Handler, EndRequest(h)
    PROVE  WriteInv'
<1> USE DEF At, Thread, lease, session, history
<1>1. CASE DenyWaiters(h)
  BY <1>1, WaitersDeniedIs DEF DenyWaiters, Unparked, Resumed, WriteInv
<1>2. CASE Mark(h)
  BY <1>2 DEF Mark, MarkTerminal, Go, WriteInv
<1>3. CASE CloseAdapter(h)
  BY <1>3, ProcessesGoneIs DEF CloseAdapter, Unparked, Resumed, TypeOK, WriteInv
<1>4. CASE KillAdapter(h)
  <2>1. UNCHANGED <<holder, session, t8, row, history>> /\ dead' = TRUE /\ loc[h].pc \in {"kill", "undo", "fail"}
    BY <1>4 DEF KillAdapter
  <2>2. /\ WorkerOrBack(h, "child")
        /\ loc'[h].kind = loc[h].kind /\ loc'[h].claim = loc[h].claim
        /\ loc'[h].pc = IF loc[h].pc = "kill" THEN "join" ELSE "fin"
        /\ loc'[h].proven => loc'[Worker].pc # "child"
    BY <1>4, KillAdapterIs
  <2> QED BY <2>1, <2>2 DEF WriteInv, WorkerOrBack
<1>5. CASE Join(h)
  <2>1. UNCHANGED <<lease, session, dead, t8, row, history>>
    BY <1>5 DEF Join
  <2>2. /\ \A t \in Thread : t # h => loc'[t] = loc[t]
        /\ loc[h].pc = "join" /\ loc'[h].pc = "fin"
        /\ loc'[h].kind = loc[h].kind /\ loc'[h].claim = loc[h].claim
        /\ loc'[h].proven => loc[h].proven /\ loc[Worker].pc = "idle"
    BY <1>5, JoinIs
  <2> QED BY <2>1, <2>2 DEF WriteInv
<1>6. CASE StartRelease(h)
  BY <1>6, IdleIs, ClaimsDiffer DEF StartRelease, ReleaseClaim, Applying, Done, EndInv, AfterKill,
     WriteInv
<1> QED BY <1>1, <1>2, <1>3, <1>4, <1>5, <1>6 DEF EndRequest

\* The steps of an Accept keep the claim the worker writes under.
LEMMA WriteInvAcceptRequest ==
    ASSUME TypeOK, TypeOK', TurnInv, EndInv, WriteInv, NEW h \in Handler, AcceptRequest(h)
    PROVE  WriteInv'
<1> USE DEF At, Thread, lease, session, history
<1>1. CASE AcceptSession(h)
  BY <1>1 DEF AcceptSession, Go, WriteInv
<1>2. CASE EnsureClaim(h)
  BY <1>2 DEF EnsureClaim, Take, TypeOK, WriteInv
<1>3. CASE AcceptVerify(h)
  BY <1>3, IdleIs DEF AcceptVerify, Owns, VerifyFails, Go, Done, TypeOK, Locals, WriteInv
<1>4. CASE AcceptAcquire(h)
  <2>1. CASE Granted(h, "hold")
    <3>1. PICK c \in Claim : /\ holder = NoClaim /\ ~refused /\ ~refused'
                                /\ holder' = c /\ Take(h, c, "hold") /\ token # c
                                /\ \A u \in Thread : loc[u].claim # c
      BY <2>1, GrantedIs DEF Thread
    <3> QED BY <1>4, <3>1 DEF AcceptAcquire, Take, TypeOK, Locals
  <2>2. CASE Busy /\ Done(h)
    BY <1>4, <2>2, IdleIs DEF AcceptAcquire, Free, Busy, Done, WriteInv
  <2> QED BY <1>4, <2>1, <2>2 DEF AcceptAcquire
<1>5. CASE Bind(h, "hold", "track")
  BY <1>5, IdleIs, BackIs DEF Bind, SetToken, Go, Done, Resumed, TypeOK, Locals, WriteInv
<1>6. CASE Attach(h, "track", "validate", "idle")
  BY <1>6, BackIs, IdleIs DEF Attach, Go, Done, Resumed, TypeOK, Locals, WriteInv
<1>7. CASE Validate(h)
  BY <1>7, IdleIs DEF Validate, Go, Done, TypeOK, Locals, WriteInv
<1>8. CASE Resolve(h)
  BY <1>8, IdleIs DEF Resolve, Done, WriteInv
<1> QED BY <1>1, <1>2, <1>3, <1>4, <1>5, <1>6, <1>7, <1>8 DEF AcceptRequest

\* The steps of a finalization keep the claim the worker writes under.
LEMMA WriteInvFinalization ==
    ASSUME TypeOK, TypeOK', TurnInv, EndInv, WriteInv, NEW t \in Thread, Finalization(t)
    PROVE  WriteInv'
<1> USE DEF At, Thread, lease, session, history
<1>1. CASE Finalize(t)
  BY <1>1 DEF Finalize, MarkTerminal, Go, WriteInv
<1>2. CASE WriteT8(t)
  BY <1>2 DEF WriteT8, Go, WriteInv
<1>3. CASE Deregister(t)
  BY <1>3, WaitersDeniedIs DEF Deregister, Unparked, Resumed, WriteInv
<1>4. CASE Reconcile(t, "reconcile", "read")
  BY <1>4 DEF Reconcile, Go, TypeOK, Locals, WriteInv
<1>5. CASE ReadToken(t)
  BY <1>5 DEF ReadToken, Take, TypeOK, WriteInv
<1>6. CASE FinalRelease(t)
  BY <1>6, ClaimsDiffer DEF FinalRelease, ReleaseClaim, Applying, Go, EndInv, AfterKill, AfterEnd,
     WriteInv
<1>7. CASE FinalClear(t)
  BY <1>7 DEF FinalClear, ClearToken, SetToken, Go, WriteInv
<1>8. CASE Ended(t)
  BY <1>8, IdleIs DEF Ended, Go, Done, TypeOK, Locals, WriteInv
<1> QED BY <1>1, <1>2, <1>3, <1>4, <1>5, <1>6, <1>7, <1>8 DEF Finalization

\* The steps of the worker keep the claim the worker writes under.
LEMMA WriteInvWorkerStep ==
    ASSUME TypeOK, TypeOK', TurnInv, EndInv, WriteInv, WorkerStep
    PROVE  WriteInv'
<1> USE DEF At, Thread, lease, session, history
<1>1. CASE Begin
  BY <1>1 DEF Begin, Go, TypeOK, Locals, WriteInv
<1>2. CASE Guard
  BY <1>2 DEF Guard, Take, TypeOK, WriteInv
<1>3. CASE GuardVerify
  BY <1>3, BackIs DEF GuardVerify, Owns, VerifyFails, Go, Resumed, TypeOK, Locals, WriteInv
<1>4. CASE GuardAcquire
  <2>1. CASE Granted(Worker, "grab")
    <3>1. PICK c \in Claim : /\ holder = NoClaim /\ ~refused /\ ~refused'
                                /\ holder' = c /\ Take(Worker, c, "grab") /\ token # c
                                /\ \A u \in Thread : loc[u].claim # c
      BY <2>1, GrantedIs DEF Thread
    <3> QED BY <1>4, <3>1 DEF GuardAcquire, Take, TypeOK, WriteInv
  <2>2. CASE Busy /\ BackToTurn
    BY <1>4, <2>2, BackIs DEF GuardAcquire, Free, Busy, Resumed, WriteInv
  <2> QED BY <1>4, <2>1, <2>2 DEF GuardAcquire
<1>5. CASE Bind(Worker, "grab", "hook")
  BY <1>5, IdleIs, BackIs DEF Bind, SetToken, Go, Done, Resumed, TypeOK, Locals, WriteInv
<1>6. CASE Attach(Worker, "hook", "guarded", "turn")
  BY <1>6, BackIs, IdleIs DEF Attach, Go, Done, Resumed, TypeOK, Locals, WriteInv
<1>7. CASE Mutate
  BY <1>7, BackIs DEF Mutate, Owns, Go, Resumed, TypeOK, Locals, WriteInv
<1>8. CASE Mutated
  BY <1>8, BackIs DEF Mutated, Resumed, WriteInv
<1>9. CASE OpenAsk
  BY <1>9 DEF OpenAsk, TypeOK, WriteInv
<1>10. CASE Answered
  BY <1>10, BackIs DEF Answered, Resumed, WriteInv
<1>11. CASE AskTimesOut
  BY <1>11 DEF AskTimesOut, TypeOK, WriteInv
<1>12. CASE EndTurn
  BY <1>12 DEF EndTurn, TypeOK, WriteInv
<1>13. CASE KillOwnAdapter("killadapter", "finally")
  BY <1>13 DEF KillOwnAdapter, TypeOK, WriteInv
<1>14. CASE Finally
  BY <1>14 DEF Finally, Take, TypeOK, WriteInv
<1>15. CASE Reconcile(Worker, "settle", "turnrelease")
  BY <1>15 DEF Reconcile, Go, TypeOK, Locals, WriteInv
<1>16. CASE TurnRelease
  BY <1>16, ClaimsDiffer DEF TurnRelease, ReleaseClaim, Applying, CleanedUp, Go, TypeOK, Locals,
     WriteInv
<1>17. CASE TurnClear
  BY <1>17 DEF TurnClear, ClearToken, SetToken, CleanedUp, TypeOK, WriteInv
<1>18. CASE KillOwnAdapter("killagain", "finish")
  BY <1>18 DEF KillOwnAdapter, TypeOK, WriteInv
<1>19. CASE Finish
  BY <1>19, IdleIs DEF Finish, Go, Done, TypeOK, Locals, WriteInv
<1>20. CASE Finalization(Worker)
  BY <1>20, WriteInvFinalization
<1> QED BY <1>1, <1>2, <1>3, <1>4, <1>5, <1>6, <1>7, <1>8, <1>9, <1>10, <1>11, <1>12, <1>13,
           <1>14, <1>15, <1>16, <1>17, <1>18, <1>19, <1>20 DEF WorkerStep

\* The first step of a request keep the claim the worker writes under.
LEMMA WriteInvNewRequest ==
    ASSUME TypeOK, TypeOK', TurnInv, EndInv, WriteInv, NEW h \in Handler, NewRequest(h)
    PROVE  WriteInv'
<1> USE DEF At, Thread, lease, session, history
<1>1. CASE Turn(h)
  BY <1>1 DEF Turn, CanReserve, Reserve, TypeOK, WriteInv
<1>2. CASE Kill(h)
  BY <1>2 DEF Kill, TypeOK, WriteInv
<1>3. CASE Close(h)
  BY <1>3 DEF Close, CanReserve, MarkTerminal, TypeOK, WriteInv
<1>4. CASE Accept(h)
  BY <1>4 DEF Accept, TypeOK, WriteInv
<1> QED BY <1>1, <1>2, <1>3, <1>4 DEF NewRequest

LEMMA WriteInvNext ==
    ASSUME TypeOK, TypeOK', TurnInv, EndInv, WriteInv, [Next]_vars
    PROVE  WriteInv'
<1>1. ASSUME NEW h \in Handler, HandlerStep(h) PROVE WriteInv'
  BY <1>1, WriteInvTurnRequest, WriteInvEndRequest, WriteInvAcceptRequest, WriteInvFinalization
     DEF HandlerStep, Thread
<1>2. CASE WorkerStep
  BY <1>2, WriteInvWorkerStep
<1>3. ASSUME NEW h \in Handler, NewRequest(h) PROVE WriteInv'
  BY <1>3, WriteInvNewRequest
<1>4. ASSUME NEW a \in Ask, Decide(a) PROVE WriteInv'
  BY <1>4 DEF Decide, WriteInv, lease
<1>5. CASE OtherSession
  BY <1>5, ClaimsDiffer DEF OtherSession, Free, WriteInv
<1>6. CASE UNCHANGED vars
  BY <1>6 DEF vars, lease, WriteInv
<1> QED BY <1>1, <1>2, <1>3, <1>4, <1>5, <1>6 DEF Next, NewRequest

(***************************************************************************)
(* Where the session's claim is.                                            *)
(***************************************************************************)
\* The steps of a turn request keep track of the session's claim.
LEMMA TokenInvTurnRequest ==
    ASSUME TypeOK, TypeOK', TurnInv, EndInv, WriteInv, TokenInv, NEW h \in Handler, TurnRequest(h)
    PROVE  TokenInv'
<1> USE DEF At, Thread, lease, session, history
<1>1. CASE StartTurn(h)
  BY <1>1 DEF StartTurn, CanReserve, Reserve, Go, TypeOK, Locals, TokenInv
<1>2. CASE LookForToken(h)
  BY <1>2 DEF LookForToken, Go, TokenInv
<1>3. CASE AcquireForTurn(h)
  <2>1. CASE Granted(h, "bind")
    <3>1. PICK c \in Claim : /\ holder = NoClaim /\ ~refused /\ ~refused'
                                /\ holder' = c /\ Take(h, c, "bind") /\ token # c
                                /\ \A u \in Thread : loc[u].claim # c
      BY <2>1, GrantedIs DEF Thread
    <3> QED BY <1>3, <3>1 DEF AcquireForTurn, Take, Go, TypeOK, Locals, TokenInv
  <2>2. CASE Busy /\ RollBack(h) /\ Denied(h)
    BY <1>3, <2>2, IdleIs DEF AcquireForTurn, Free, Busy, RollBack, MayRollBack, Denied, Go, Done,
       TypeOK, Locals, TokenInv
  <2> QED BY <1>3, <2>1, <2>2 DEF AcquireForTurn
<1>4. CASE Retained(h)
  BY <1>4, IdleIs DEF Retained, RollBack, MayRollBack, Denied, Go, Done, TypeOK, Locals, TokenInv
<1>5. CASE Bind(h, "bind", "verify")
  BY <1>5, IdleIs, BackIs, ClaimsDiffer DEF Bind, SetToken, Go, Done, Resumed, TypeOK, Locals,
     TurnInv, Hot, PreLaunch, TokenInv
<1>6. CASE VerifyForTurn(h)
  BY <1>6 DEF VerifyForTurn, Owns, VerifyFails, Go, TypeOK, Locals, TokenInv
<1>7. CASE Attach(h, "attach", "ready", "cancel")
  BY <1>7, BackIs, IdleIs DEF Attach, Go, Done, Resumed, TypeOK, Locals, TokenInv
<1>8. CASE Commit(h)
  BY <1>8 DEF Commit, MayRollBack, Go, TypeOK, Locals, TokenInv
<1>9. CASE Launch(h)
  BY <1>9, IdleIs DEF Launch, MarkTerminal, Go, TypeOK, Locals, TurnInv, Hot, TokenInv
<1>10. CASE Launched(h)
  BY <1>10, IdleIs DEF Launched, Go, Done, TypeOK, Locals, TokenInv
<1>11. CASE CancelRelease(h)
  BY <1>11, ClaimsDiffer DEF CancelRelease, ReleaseClaim, Applying, TokenInv
<1>12. CASE CancelUnbind(h)
  BY <1>12, ClaimsDiffer DEF CancelUnbind, ClearToken, SetToken, Go, WriteInv, TokenInv
<1>13. CASE CancelRollBack(h)
  BY <1>13, IdleIs DEF CancelRollBack, MayRollBack, RollBack, Denied, Go, Done, TypeOK, Locals,
     TokenInv
<1> QED BY <1>1, <1>2, <1>3, <1>4, <1>5, <1>6, <1>7, <1>8, <1>9, <1>10, <1>11, <1>12, <1>13 DEF
           TurnRequest

\* The steps that end a session keep track of the session's claim.
LEMMA TokenInvEndRequest ==
    ASSUME TypeOK, TypeOK', TurnInv, EndInv, WriteInv, TokenInv, NEW h \in Handler, EndRequest(h)
    PROVE  TokenInv'
<1> USE DEF At, Thread, lease, session, history
<1>1. CASE DenyWaiters(h)
  BY <1>1, WaitersDeniedIs DEF DenyWaiters, Unparked, Resumed, TokenInv
<1>2. CASE Mark(h)
  BY <1>2 DEF Mark, MarkTerminal, Go, TokenInv
<1>3. CASE CloseAdapter(h)
  BY <1>3, ProcessesGoneIs DEF CloseAdapter, Unparked, Resumed, TypeOK, TokenInv
<1>4. CASE KillAdapter(h)
  <2>1. UNCHANGED <<holder, session, t8, row, history>> /\ dead' = TRUE /\ loc[h].pc \in {"kill", "undo", "fail"}
    BY <1>4 DEF KillAdapter
  <2>2. /\ WorkerOrBack(h, "child")
        /\ loc'[h].kind = loc[h].kind /\ loc'[h].claim = loc[h].claim
        /\ loc'[h].pc = IF loc[h].pc = "kill" THEN "join" ELSE "fin"
        /\ loc'[h].proven => loc'[Worker].pc # "child"
    BY <1>4, KillAdapterIs
  <2> QED BY <2>1, <2>2 DEF TokenInv, WorkerOrBack
<1>5. CASE Join(h)
  <2>1. UNCHANGED <<lease, session, dead, t8, row, history>>
    BY <1>5 DEF Join
  <2>2. /\ \A t \in Thread : t # h => loc'[t] = loc[t]
        /\ loc[h].pc = "join" /\ loc'[h].pc = "fin"
        /\ loc'[h].kind = loc[h].kind /\ loc'[h].claim = loc[h].claim
        /\ loc'[h].proven => loc[h].proven /\ loc[Worker].pc = "idle"
    BY <1>5, JoinIs
  <2> QED BY <2>1, <2>2 DEF TokenInv
<1>6. CASE StartRelease(h)
  BY <1>6, IdleIs, ClaimsDiffer DEF StartRelease, ReleaseClaim, Applying, Done, TokenInv
<1> QED BY <1>1, <1>2, <1>3, <1>4, <1>5, <1>6 DEF EndRequest

\* The steps of an Accept keep track of the session's claim.
LEMMA TokenInvAcceptRequest ==
    ASSUME TypeOK, TypeOK', TurnInv, EndInv, WriteInv, TokenInv, NEW h \in Handler, AcceptRequest(h)
    PROVE  TokenInv'
<1> USE DEF At, Thread, lease, session, history
<1>1. CASE AcceptSession(h)
  BY <1>1 DEF AcceptSession, Go, TokenInv
<1>2. CASE EnsureClaim(h)
  BY <1>2 DEF EnsureClaim, Take, TypeOK, TokenInv
<1>3. CASE AcceptVerify(h)
  BY <1>3, IdleIs DEF AcceptVerify, Owns, VerifyFails, Go, Done, TypeOK, Locals, TokenInv
<1>4. CASE AcceptAcquire(h)
  <2>1. CASE Granted(h, "hold")
    <3>1. PICK c \in Claim : /\ holder = NoClaim /\ ~refused /\ ~refused'
                                /\ holder' = c /\ Take(h, c, "hold") /\ token # c
                                /\ \A u \in Thread : loc[u].claim # c
      BY <2>1, GrantedIs DEF Thread
    <3> QED BY <1>4, <3>1 DEF AcceptAcquire, Take, TypeOK, Locals, TokenInv
  <2>2. CASE Busy /\ Done(h)
    BY <1>4, <2>2, IdleIs DEF AcceptAcquire, Free, Busy, Done, TokenInv
  <2> QED BY <1>4, <2>1, <2>2 DEF AcceptAcquire
<1>5. CASE Bind(h, "hold", "track")
  BY <1>5, IdleIs, BackIs DEF Bind, SetToken, Go, Done, Resumed, TypeOK, Locals, TokenInv
<1>6. CASE Attach(h, "track", "validate", "idle")
  BY <1>6, BackIs, IdleIs DEF Attach, Go, Done, Resumed, TypeOK, Locals, TokenInv
<1>7. CASE Validate(h)
  BY <1>7, IdleIs DEF Validate, Go, Done, TypeOK, Locals, TokenInv
<1>8. CASE Resolve(h)
  BY <1>8, IdleIs DEF Resolve, Done, TokenInv
<1> QED BY <1>1, <1>2, <1>3, <1>4, <1>5, <1>6, <1>7, <1>8 DEF AcceptRequest

\* The steps of a finalization keep track of the session's claim.
LEMMA TokenInvFinalization ==
    ASSUME TypeOK, TypeOK', TurnInv, EndInv, WriteInv, TokenInv, NEW t \in Thread, Finalization(t)
    PROVE  TokenInv'
<1> USE DEF At, Thread, lease, session, history
<1>1. CASE Finalize(t)
  BY <1>1 DEF Finalize, MarkTerminal, Go, TokenInv
<1>2. CASE WriteT8(t)
  BY <1>2 DEF WriteT8, Go, TokenInv
<1>3. CASE Deregister(t)
  BY <1>3, WaitersDeniedIs DEF Deregister, Unparked, Resumed, TokenInv
<1>4. CASE Reconcile(t, "reconcile", "read")
  BY <1>4 DEF Reconcile, Go, TypeOK, Locals, TokenInv
<1>5. CASE ReadToken(t)
  BY <1>5 DEF ReadToken, Take, TypeOK, TokenInv
<1>6. CASE FinalRelease(t)
  BY <1>6, ClaimsDiffer DEF FinalRelease, ReleaseClaim, Applying, Go, TokenInv
<1>7. CASE FinalClear(t)
  BY <1>7 DEF FinalClear, ClearToken, SetToken, Go, WriteInv, TokenInv
<1>8. CASE Ended(t)
  BY <1>8, IdleIs DEF Ended, Go, Done, TypeOK, Locals, TokenInv
<1> QED BY <1>1, <1>2, <1>3, <1>4, <1>5, <1>6, <1>7, <1>8 DEF Finalization

\* The steps of the worker keep track of the session's claim.
LEMMA TokenInvWorkerStep ==
    ASSUME TypeOK, TypeOK', TurnInv, EndInv, WriteInv, TokenInv, WorkerStep
    PROVE  TokenInv'
<1> USE DEF At, Thread, lease, session, history
<1>1. CASE Begin
  BY <1>1 DEF Begin, Go, TypeOK, Locals, TokenInv
<1>2. CASE Guard
  BY <1>2 DEF Guard, Take, TypeOK, TokenInv
<1>3. CASE GuardVerify
  BY <1>3, BackIs DEF GuardVerify, Owns, VerifyFails, Go, Resumed, TypeOK, Locals, TokenInv
<1>4. CASE GuardAcquire
  <2>1. CASE Granted(Worker, "grab")
    <3>1. PICK c \in Claim : /\ holder = NoClaim /\ ~refused /\ ~refused'
                                /\ holder' = c /\ Take(Worker, c, "grab") /\ token # c
                                /\ \A u \in Thread : loc[u].claim # c
      BY <2>1, GrantedIs DEF Thread
    <3> QED BY <1>4, <3>1 DEF GuardAcquire, Take, TypeOK, TokenInv
  <2>2. CASE Busy /\ BackToTurn
    BY <1>4, <2>2, BackIs DEF GuardAcquire, Free, Busy, Resumed, TokenInv
  <2> QED BY <1>4, <2>1, <2>2 DEF GuardAcquire
<1>5. CASE Bind(Worker, "grab", "hook")
  BY <1>5, IdleIs, BackIs, ClaimsDiffer DEF Bind, SetToken, Go, Done, Resumed, TypeOK, Locals,
     TurnInv, Hot, PreLaunch, TokenInv
<1>6. CASE Attach(Worker, "hook", "guarded", "turn")
  BY <1>6, BackIs, IdleIs DEF Attach, Go, Done, Resumed, TypeOK, Locals, TokenInv
<1>7. CASE Mutate
  BY <1>7, BackIs DEF Mutate, Owns, Go, Resumed, TypeOK, Locals, TokenInv
<1>8. CASE Mutated
  BY <1>8, BackIs DEF Mutated, Resumed, TokenInv
<1>9. CASE OpenAsk
  BY <1>9 DEF OpenAsk, TypeOK, TokenInv
<1>10. CASE Answered
  BY <1>10, BackIs DEF Answered, Resumed, TokenInv
<1>11. CASE AskTimesOut
  BY <1>11 DEF AskTimesOut, TypeOK, TokenInv
<1>12. CASE EndTurn
  BY <1>12 DEF EndTurn, TypeOK, TokenInv
<1>13. CASE KillOwnAdapter("killadapter", "finally")
  BY <1>13 DEF KillOwnAdapter, TypeOK, TokenInv
<1>14. CASE Finally
  BY <1>14 DEF Finally, Take, TypeOK, TokenInv
<1>15. CASE Reconcile(Worker, "settle", "turnrelease")
  BY <1>15 DEF Reconcile, Go, TypeOK, Locals, TokenInv
<1>16. CASE TurnRelease
  BY <1>16, ClaimsDiffer DEF TurnRelease, ReleaseClaim, Applying, CleanedUp, Go, TypeOK, Locals,
     TokenInv
<1>17. CASE TurnClear
  BY <1>17 DEF TurnClear, ClearToken, SetToken, CleanedUp, TypeOK, WriteInv, TokenInv
<1>18. CASE KillOwnAdapter("killagain", "finish")
  BY <1>18 DEF KillOwnAdapter, TypeOK, TokenInv
<1>19. CASE Finish
  BY <1>19, IdleIs DEF Finish, Go, Done, TypeOK, Locals, TokenInv
<1>20. CASE Finalization(Worker)
  BY <1>20, TokenInvFinalization
<1> QED BY <1>1, <1>2, <1>3, <1>4, <1>5, <1>6, <1>7, <1>8, <1>9, <1>10, <1>11, <1>12, <1>13,
           <1>14, <1>15, <1>16, <1>17, <1>18, <1>19, <1>20 DEF WorkerStep

\* The first step of a request keep track of the session's claim.
LEMMA TokenInvNewRequest ==
    ASSUME TypeOK, TypeOK', TurnInv, EndInv, WriteInv, TokenInv, NEW h \in Handler, NewRequest(h)
    PROVE  TokenInv'
<1> USE DEF At, Thread, lease, session, history
<1>1. CASE Turn(h)
  BY <1>1 DEF Turn, CanReserve, Reserve, TypeOK, TokenInv
<1>2. CASE Kill(h)
  BY <1>2 DEF Kill, TypeOK, TokenInv
<1>3. CASE Close(h)
  BY <1>3 DEF Close, CanReserve, MarkTerminal, TypeOK, TokenInv
<1>4. CASE Accept(h)
  BY <1>4 DEF Accept, TypeOK, TokenInv
<1> QED BY <1>1, <1>2, <1>3, <1>4 DEF NewRequest

LEMMA TokenInvNext ==
    ASSUME TypeOK, TypeOK', TurnInv, EndInv, WriteInv, TokenInv, [Next]_vars
    PROVE  TokenInv'
<1>1. ASSUME NEW h \in Handler, HandlerStep(h) PROVE TokenInv'
  BY <1>1, TokenInvTurnRequest, TokenInvEndRequest, TokenInvAcceptRequest, TokenInvFinalization
     DEF HandlerStep, Thread
<1>2. CASE WorkerStep
  BY <1>2, TokenInvWorkerStep
<1>3. ASSUME NEW h \in Handler, NewRequest(h) PROVE TokenInv'
  BY <1>3, TokenInvNewRequest
<1>4. ASSUME NEW a \in Ask, Decide(a) PROVE TokenInv'
  BY <1>4 DEF Decide, TokenInv, lease, session, history
<1>5. CASE OtherSession
  BY <1>5, ClaimsDiffer DEF OtherSession, Free, TokenInv, session, history
<1>6. CASE UNCHANGED vars
  BY <1>6 DEF vars, lease, session, history, TokenInv
<1> QED BY <1>1, <1>2, <1>3, <1>4, <1>5, <1>6 DEF Next, NewRequest

(***************************************************************************)
(* The invariant, and what it says.                                        *)
(***************************************************************************)
\* The session that session/start has just registered satisfies the invariant.
LEMMA InitInv == Init => IInv
<1> SUFFICES ASSUME Init PROVE IInv
  OBVIOUS
<1> USE DEF Thread
<1>1. PICK h \in Handler, c \in Claim :
          /\ token = (IF mode = "source" THEN c ELSE NoClaim)
          /\ holder = token
          /\ loc = [t \in Thread |->
                       IF t = h THEN [Idle EXCEPT !.pc = "start", !.kind = "start", !.claim = token]
                       ELSE Idle]
  BY DEF Init
<1> DEFINE r == [Idle EXCEPT !.pc = "start", !.kind = "start", !.claim = token]
<1>2. token \in Claim \cup {NoClaim} /\ holder = token
  BY <1>1
<1>3. r \in Locals
  BY <1>2, IdleIs, PcNames DEF Locals
<1>4. r.pc = "start" /\ r.kind = "start" /\ r.claim = token
  BY IdleIs
<1>5. loc = [t \in Thread |-> IF t = h THEN r ELSE Idle]
  BY <1>1
<1> HIDE DEF r
<1>6. /\ loc \in [Thread -> Locals] /\ loc[h] = r
      /\ \A t \in Thread : t # h => loc[t] = Idle
  BY <1>3, <1>5, IdleIs
<1>7. /\ mode \in {"source", "plan"} /\ state = "open" /\ resv = NoThread /\ t8 = "none"
      /\ row = [a \in Ask |-> "closed"]
  BY DEF Init
<1>8. live = TRUE /\ dead = FALSE /\ stopped = FALSE /\ lent = FALSE /\ refused = FALSE
  BY DEF Init
<1>9. TypeOK
  BY <1>2, <1>6, <1>7, <1>8 DEF TypeOK
<1>10. ClaimInv
  BY <1>4, <1>6, <1>7, IdleIs DEF ClaimInv
<1>11. TurnInv
  BY <1>4, <1>6, <1>7, IdleIs, ThreadsDiffer DEF TurnInv, Hot, PreLaunch, At
<1>12. EndInv
  BY <1>4, <1>6, <1>7, <1>8, IdleIs, ThreadsDiffer DEF EndInv, AfterEnd, AfterKill
<1>13. WriteInv
  BY <1>4, <1>6, IdleIs DEF WriteInv
<1>14. TokenInv
  BY <1>1, <1>2, <1>4, <1>6, <1>7, IdleIs DEF TokenInv
<1> QED BY <1>9, <1>10, <1>11, <1>12, <1>13, <1>14 DEF IInv

\* Every step keeps it.
LEMMA NextInv == IInv /\ [Next]_vars => IInv'
<1> SUFFICES ASSUME IInv, [Next]_vars PROVE IInv'
  OBVIOUS
<1>1. TypeOK'
  BY TypeOKNext DEF IInv
<1>2. ClaimInv' /\ TurnInv' /\ EndInv'
  BY <1>1, ClaimInvNext, TurnInvNext, EndInvNext DEF IInv
<1>3. WriteInv' /\ TokenInv'
  BY <1>1, WriteInvNext, TokenInvNext DEF IInv
<1> QED BY <1>1, <1>2, <1>3 DEF IInv

\* For every instance: session, turn, claim and worker stay related as IInv says at every
\* point of every thread of start, turn, apply, close, kill and shutdown (supervisor.py).
THEOREM InvHolds == Spec => []IInv
BY InitInv, NextInv, PTL DEF Spec

\* For every instance: every variable and every thread's locals keep their type.
THEOREM TypeCorrect == Spec => []TypeOK
<1>1. IInv => TypeOK
  BY DEF IInv
<1> QED BY <1>1, InvHolds, PTL

\* For every instance: a process or an apply of the turn only writes while the lease
\* is held by the claim that write was guarded with.
THEOREM WritesAreClaimed == Spec => []MutatesUnderClaim
<1>1. IInv => MutatesUnderClaim
  BY DEF IInv, WriteInv, MutatesUnderClaim, At
<1> QED BY <1>1, InvHolds, PTL

\* For every instance: no claim of the session is lost on the lease.
THEOREM ClaimsAreKept == Spec => []NoClaimIsLost
<1>1. IInv => NoClaimIsLost
  BY DEF IInv, TokenInv, NoClaimIsLost
<1> QED BY <1>1, InvHolds, PTL

\* For every instance: turns never overlap and none is forgotten.
THEOREM TurnsDoNotOverlap == Spec => []OneTurnAtATime
<1>1. IInv => OneTurnAtATime
  <2> SUFFICES ASSUME IInv PROVE OneTurnAtATime
    OBVIOUS
  <2>1. \A h \in Launching : h \in Handler /\ Hot(h)
    BY DEF Launching, Hot, At
  <2>2. \A h, k \in Launching : h = k
    BY <2>1 DEF IInv, TurnInv
  <2>3. Cardinality(Launching) <= 1
    <3>1. CASE Launching = {}
      BY <3>1, FS_EmptySet
    <3>2. CASE Launching # {}
      <4>1. PICK h \in Launching : TRUE
        BY <3>2
      <4>2. Launching = {h}
        BY <2>2, <4>1
      <4>3. Cardinality({h}) = 1
        BY FS_Singleton
      <4> QED BY <4>2, <4>3
    <3> QED BY <3>1, <3>2
  <2>4. Launching # {} => At(Worker, "idle")
    BY <2>1 DEF IInv, TurnInv
  <2>5. state = "running" => \/ Launching # {} \/ ~At(Worker, "idle")
                             \/ \E h \in Handler : loc[h].pc \in {"fail", "fin"}
    BY DEF IInv, TurnInv, Launching, At
  <2> QED BY <2>3, <2>4, <2>5 DEF OneTurnAtATime
<1> QED BY <1>1, InvHolds, PTL

\* For every instance: after a kill or a close was answered OK the worker is in no
\* vendor turn.
THEOREM StoppedIsQuiet == Spec => []StoppedMeansQuiet
<1>1. IInv => StoppedMeansQuiet
  BY DEF IInv, EndInv, InVendor, StoppedMeansQuiet
<1> QED BY <1>1, InvHolds, PTL

(***************************************************************************)
(* What no step takes back.                                                *)
(***************************************************************************)
KeptFinal == /\ state = "terminal" => state' = "terminal"
             /\ t8 # "none" => t8' = t8

\* The steps of a turn request leave what is final.
LEMMA FinalTurnRequest ==
    ASSUME NEW h \in Handler, TurnRequest(h)
    PROVE  KeptFinal
<1>1. CASE StartTurn(h)
  BY <1>1 DEF StartTurn, CanReserve, Reserve, session, KeptFinal
<1>2. CASE LookForToken(h)
  BY <1>2 DEF LookForToken, session, KeptFinal
<1>3. CASE AcquireForTurn(h)
  BY <1>3 DEF AcquireForTurn, RollBack, MayRollBack, session, KeptFinal
<1>4. CASE Retained(h)
  BY <1>4 DEF Retained, RollBack, MayRollBack, session, KeptFinal
<1>5. CASE Bind(h, "bind", "verify")
  BY <1>5 DEF Bind, SetToken, session, KeptFinal
<1>6. CASE VerifyForTurn(h)
  BY <1>6 DEF VerifyForTurn, session, KeptFinal
<1>7. CASE Attach(h, "attach", "ready", "cancel")
  BY <1>7 DEF Attach, session, KeptFinal
<1>8. CASE Commit(h)
  BY <1>8 DEF Commit, MayRollBack, session, KeptFinal
<1>9. CASE Launch(h)
  BY <1>9 DEF Launch, MarkTerminal, session, KeptFinal
<1>10. CASE Launched(h)
  BY <1>10 DEF Launched, session, KeptFinal
<1>11. CASE CancelRelease(h)
  BY <1>11 DEF CancelRelease, session, KeptFinal
<1>12. CASE CancelUnbind(h)
  BY <1>12 DEF CancelUnbind, ClearToken, SetToken, session, KeptFinal
<1>13. CASE CancelRollBack(h)
  BY <1>13 DEF CancelRollBack, MayRollBack, RollBack, session, KeptFinal
<1> QED BY <1>1, <1>2, <1>3, <1>4, <1>5, <1>6, <1>7, <1>8, <1>9, <1>10, <1>11, <1>12, <1>13 DEF
           TurnRequest

\* The steps that end a session leave what is final.
LEMMA FinalEndRequest ==
    ASSUME NEW h \in Handler, EndRequest(h)
    PROVE  KeptFinal
<1>1. CASE DenyWaiters(h)
  BY <1>1 DEF DenyWaiters, session, KeptFinal
<1>2. CASE Mark(h)
  BY <1>2 DEF Mark, MarkTerminal, KeptFinal
<1>3. CASE CloseAdapter(h)
  BY <1>3 DEF CloseAdapter, session, KeptFinal
<1>4. CASE KillAdapter(h)
  BY <1>4 DEF KillAdapter, session, KeptFinal
<1>5. CASE Join(h)
  BY <1>5 DEF Join, session, KeptFinal
<1>6. CASE StartRelease(h)
  BY <1>6 DEF StartRelease, session, KeptFinal
<1> QED BY <1>1, <1>2, <1>3, <1>4, <1>5, <1>6 DEF EndRequest

\* The steps of an Accept leave what is final.
LEMMA FinalAcceptRequest ==
    ASSUME NEW h \in Handler, AcceptRequest(h)
    PROVE  KeptFinal
<1>1. CASE AcceptSession(h)
  BY <1>1 DEF AcceptSession, session, KeptFinal
<1>2. CASE EnsureClaim(h)
  BY <1>2 DEF EnsureClaim, session, KeptFinal
<1>3. CASE AcceptVerify(h)
  BY <1>3 DEF AcceptVerify, session, KeptFinal
<1>4. CASE AcceptAcquire(h)
  BY <1>4 DEF AcceptAcquire, session, KeptFinal
<1>5. CASE Bind(h, "hold", "track")
  BY <1>5 DEF Bind, SetToken, session, KeptFinal
<1>6. CASE Attach(h, "track", "validate", "idle")
  BY <1>6 DEF Attach, session, KeptFinal
<1>7. CASE Validate(h)
  BY <1>7 DEF Validate, session, KeptFinal
<1>8. CASE Resolve(h)
  BY <1>8 DEF Resolve, session, KeptFinal
<1> QED BY <1>1, <1>2, <1>3, <1>4, <1>5, <1>6, <1>7, <1>8 DEF AcceptRequest

\* The steps of a finalization leave what is final.
LEMMA FinalFinalization ==
    ASSUME NEW t \in Thread, Finalization(t)
    PROVE  KeptFinal
<1>1. CASE Finalize(t)
  BY <1>1 DEF Finalize, MarkTerminal, session, KeptFinal
<1>2. CASE WriteT8(t)
  BY <1>2 DEF WriteT8, session, KeptFinal
<1>3. CASE Deregister(t)
  BY <1>3 DEF Deregister, KeptFinal
<1>4. CASE Reconcile(t, "reconcile", "read")
  BY <1>4 DEF Reconcile, session, KeptFinal
<1>5. CASE ReadToken(t)
  BY <1>5 DEF ReadToken, session, KeptFinal
<1>6. CASE FinalRelease(t)
  BY <1>6 DEF FinalRelease, session, KeptFinal
<1>7. CASE FinalClear(t)
  BY <1>7 DEF FinalClear, ClearToken, SetToken, session, KeptFinal
<1>8. CASE Ended(t)
  BY <1>8 DEF Ended, session, KeptFinal
<1> QED BY <1>1, <1>2, <1>3, <1>4, <1>5, <1>6, <1>7, <1>8 DEF Finalization

\* The steps of the worker leave what is final.
LEMMA FinalWorkerStep ==
    ASSUME WorkerStep
    PROVE  KeptFinal
<1>1. CASE Begin
  BY <1>1 DEF Begin, session, KeptFinal
<1>2. CASE Guard
  BY <1>2 DEF Guard, session, KeptFinal
<1>3. CASE GuardVerify
  BY <1>3 DEF GuardVerify, session, KeptFinal
<1>4. CASE GuardAcquire
  BY <1>4 DEF GuardAcquire, session, KeptFinal
<1>5. CASE Bind(Worker, "grab", "hook")
  BY <1>5 DEF Bind, SetToken, session, KeptFinal
<1>6. CASE Attach(Worker, "hook", "guarded", "turn")
  BY <1>6 DEF Attach, session, KeptFinal
<1>7. CASE Mutate
  BY <1>7 DEF Mutate, session, KeptFinal
<1>8. CASE Mutated
  BY <1>8 DEF Mutated, session, KeptFinal
<1>9. CASE OpenAsk
  BY <1>9 DEF OpenAsk, session, KeptFinal
<1>10. CASE Answered
  BY <1>10 DEF Answered, session, KeptFinal
<1>11. CASE AskTimesOut
  BY <1>11 DEF AskTimesOut, session, KeptFinal
<1>12. CASE EndTurn
  BY <1>12 DEF EndTurn, session, KeptFinal
<1>13. CASE KillOwnAdapter("killadapter", "finally")
  BY <1>13 DEF KillOwnAdapter, session, KeptFinal
<1>14. CASE Finally
  BY <1>14 DEF Finally, session, KeptFinal
<1>15. CASE Reconcile(Worker, "settle", "turnrelease")
  BY <1>15 DEF Reconcile, session, KeptFinal
<1>16. CASE TurnRelease
  BY <1>16 DEF TurnRelease, session, KeptFinal
<1>17. CASE TurnClear
  BY <1>17 DEF TurnClear, ClearToken, SetToken, session, KeptFinal
<1>18. CASE KillOwnAdapter("killagain", "finish")
  BY <1>18 DEF KillOwnAdapter, session, KeptFinal
<1>19. CASE Finish
  BY <1>19 DEF Finish, KeptFinal
<1>20. CASE Finalization(Worker)
  BY <1>20, FinalFinalization DEF Thread
<1> QED BY <1>1, <1>2, <1>3, <1>4, <1>5, <1>6, <1>7, <1>8, <1>9, <1>10, <1>11, <1>12, <1>13,
           <1>14, <1>15, <1>16, <1>17, <1>18, <1>19, <1>20 DEF WorkerStep

\* The first step of a request leave what is final.
LEMMA FinalNewRequest ==
    ASSUME NEW h \in Handler, NewRequest(h)
    PROVE  KeptFinal
<1>1. CASE Turn(h)
  BY <1>1 DEF Turn, CanReserve, Reserve, KeptFinal
<1>2. CASE Kill(h)
  BY <1>2 DEF Kill, session, KeptFinal
<1>3. CASE Close(h)
  BY <1>3 DEF Close, CanReserve, MarkTerminal, KeptFinal
<1>4. CASE Accept(h)
  BY <1>4 DEF Accept, session, KeptFinal
<1> QED BY <1>1, <1>2, <1>3, <1>4 DEF NewRequest

\* For every instance: nothing revives a terminal session or rewrites its conclusion,
\* and a conclusion is only written for a terminal session.
THEOREM TerminalStaysFinal == Spec => TerminalIsFinal
<1>1. ASSUME IInv, IInv', [Next]_vars
      PROVE  KeptFinal /\ (t8' # "none" => state' = "terminal")
  <2>1. ASSUME NEW h \in Handler, HandlerStep(h) \/ NewRequest(h) PROVE KeptFinal
    BY <2>1, FinalTurnRequest, FinalEndRequest, FinalAcceptRequest, FinalFinalization,
       FinalNewRequest DEF HandlerStep, Thread
  <2>2. ASSUME NEW a \in Ask, Decide(a) PROVE KeptFinal
    BY <2>2 DEF Decide, session, KeptFinal
  <2>3. ASSUME OtherSession PROVE KeptFinal
    BY <2>3 DEF OtherSession, session, KeptFinal
  <2>4. ASSUME UNCHANGED vars PROVE KeptFinal
    BY <2>4 DEF vars, session, KeptFinal
  <2>5. KeptFinal
    BY <1>1, <2>1, <2>2, <2>3, <2>4, FinalWorkerStep DEF Next, NewRequest
  <2>6. t8' # "none" => state' = "terminal"
    BY <1>1 DEF IInv, EndInv
  <2> QED BY <2>5, <2>6
<1>2. ASSUME IInv, IInv', [Next]_vars
      PROVE  [/\ state = "terminal" => state' = "terminal"
              /\ t8 # "none" => t8' = t8
              /\ t8' # "none" => state' = "terminal"]_vars
  BY <1>1, <1>2 DEF KeptFinal
<1> QED BY <1>2, InvHolds, PTL DEF Spec, TerminalIsFinal
=============================================================================
