----------------------- MODULE ApprovalRendezvousProofs -----------------------
(***************************************************************************)
(* Proofs about the rendezvous of asks and decisions, for any set of asks, *)
(* handlers and runs, of whatever shapes.                                  *)
(*                                                                         *)
(* PayloadIsWhatWasApproved is not inductive: a handler that is about to   *)
(* commit holds a verdict no row vouches for yet, and a woken ask takes over *)
(* what a waiter of its correlation holds.  ValueInv says it of every place a *)
(* verdict can lie in, RowInv that whoever works on a row works on an existing *)
(* one of his own correlation, PreviewInv that a preview under way is never *)
(* newer than the row.                                                     *)
(***************************************************************************)
EXTENDS ApprovalRendezvous, TLAPS

(***************************************************************************)
(* Names, and the types of what the actions build.                         *)
(***************************************************************************)
LEMMA PcNames ==
    /\ \A x \in {"idle", "opening", "registering", "binding", "rechecking", "parked", "expired",
                 "timedOut", "leaving", "done"} : x \in AskPc
    /\ \A x \in {"idle", "validating", "refreshing", "committing", "deciding", "releasing"} : x \in HandPc
    /\ \A x \in {"none", "open", "approved", "denied"} : x \in RowState
BY DEF AskPc, HandPc, RowState

LEMMA Consts ==
    /\ NoPreview \in Previews /\ Nothing \in Values /\ Denied \in Values /\ NoAsk \notin Ask
    /\ ~Nothing.yes /\ ~Denied.yes /\ IdleAsk \in AskLocals /\ IdleHand \in HandLocals
    /\ NoPreview = Preview(0, 0)
BY ApprovalAssumption, PcNames DEF NoPreview, Preview, Previews, Nothing, Values, Denied, IdleAsk, IdleHand,
   AskLocals, HandLocals

LEMMA KeyIs == ASSUME shape \in Shapes, NEW a \in Ask PROVE KeyOf(a) \in Key
BY DEF KeyOf, Key

LEMMA PreviewIs ==
    ASSUME NEW r \in Nat, NEW b \in Nat
    PROVE  Preview(r, b) \in Previews /\ Preview(r, b).rev = r /\ Preview(r, b).base = b
BY DEF Preview, Previews

LEMMA ApprovedIs ==
    ASSUME NEW a \in Ask, NEW rich \in BOOLEAN, NEW p \in Previews
    PROVE  Approved(a, rich, p) \in Values
<1>1. p.rev \in Nat /\ p.base \in Nat BY DEF Previews
<1> QED BY <1>1 DEF Approved, Values

LEMMA AskTypes ==
    ASSUME ask \in [Ask -> AskLocals], NEW a \in Ask, NEW q \in AskPc
    PROVE  /\ [ask EXCEPT ![a].pc = q] \in [Ask -> AskLocals]
           /\ \A i \in Ask \cup {NoAsk} :
                 /\ [ask EXCEPT ![a].pc = q, ![a].id = i] \in [Ask -> AskLocals]
                 /\ [ask EXCEPT ![a].pc = q, ![a].waits = i] \in [Ask -> AskLocals]
           /\ \A p \in Previews : [ask EXCEPT ![a].pc = q, ![a].preview = p] \in [Ask -> AskLocals]
           /\ \A v \in Values : [ask EXCEPT ![a].pc = q, ![a].got = v] \in [Ask -> AskLocals]
BY DEF AskLocals

LEMMA HandTypes ==
    ASSUME hand \in [Handler -> HandLocals], NEW h \in Handler, NEW q \in HandPc
    PROVE  /\ [hand EXCEPT ![h].pc = q] \in [Handler -> HandLocals]
           /\ \A p \in Previews : [hand EXCEPT ![h].pc = q, ![h].seen = p] \in [Handler -> HandLocals]
           /\ \A v \in Values : [hand EXCEPT ![h].pc = q, ![h].verdict = v] \in [Handler -> HandLocals]
BY DEF HandLocals

LEMMA WaiterTypes ==
    ASSUME waiter \in [Ask -> WaiterObject], NEW v \in Values
    PROVE  \A w : [waiter EXCEPT ![w] = [done |-> TRUE, value |-> v]] \in [Ask -> WaiterObject]
<1>1. [done |-> TRUE, value |-> v] \in WaiterObject BY DEF WaiterObject
<1> QED BY <1>1

LEMMA RowStateType ==
    ASSUME row \in [Ask -> Rows], NEW a \in Ask, NEW s \in RowState
    PROVE  [row EXCEPT ![a].state = s] \in [Ask -> Rows]
BY DEF Rows

LEMMA RowBodyType ==
    ASSUME row \in [Ask -> Rows], NEW a \in Ask, NEW p \in Previews
    PROVE  [row EXCEPT ![a].rev = p.rev, ![a].base = p.base] \in [Ask -> Rows]
BY DEF Rows, Previews

LEMMA NewRowType ==
    ASSUME row \in [Ask -> Rows], NEW a \in Ask, NEW s \in RowState, NEW p \in Previews
    PROVE  [row EXCEPT ![a] = [state |-> s, rev |-> p.rev, base |-> p.base]] \in [Ask -> Rows]
BY DEF Rows, Previews

LEMMA BodyIs == ASSUME row \in [Ask -> Rows], NEW a \in Ask PROVE Body(a) \in Previews
BY DEF Rows, Body, Preview, Previews

\* A release changes a waiter, the stash and a live preview to values of theirs.
LEMMA DeliverTypes ==
    ASSUME ApprovalTypeOK, NEW k, NEW v \in Values, Deliver(k, v)
    PROVE  /\ waiter' \in [Ask -> WaiterObject] /\ stash' \in [Key -> Values]
           /\ pending' \in [Ask -> Previews]
<1> USE Consts DEF ApprovalTypeOK
<1>1. CASE k[1] \notin live BY <1>1 DEF Deliver
<1>2. CASE k[1] \in live
  <2>1. waiter' \in [Ask -> WaiterObject] BY <1>2, WaiterTypes DEF Deliver
  <2>2. stash' \in [Key -> Values] BY <1>2 DEF Deliver
  <2>3. pending' \in [Ask -> Previews] BY <1>2 DEF Deliver
  <2> QED BY <2>1, <2>2, <2>3
<1> QED BY <1>1, <1>2

LEMMA DiscardTypes ==
    ASSUME ApprovalTypeOK, NEW r, DiscardRun(r)
    PROVE  stash' \in [Key -> Values] /\ pending' \in [Ask -> Previews]
BY Consts DEF ApprovalTypeOK, DiscardRun

LEMMA FoundIs ==
    ASSUME ApprovalTypeOK, NEW a \in Ask, ask[a].id \in Ask PROVE Found(a) \in Values
<1> USE DEF ApprovalTypeOK
<1>1. Approved(ask[a].id, FALSE, NoPreview) \in Values BY ApprovedIs, Consts
<1> QED BY <1>1, KeyIs DEF Found

LEMMA AskedRow ==
    ASSUME RowInv, NEW a \in Ask, ask[a].pc \notin {"idle", "opening", "done"}
    PROVE  /\ ask[a].id \in Ask /\ KeyOf(ask[a].id) = KeyOf(a) /\ row[ask[a].id].state # "none"
           /\ ask[a].pc \in {"rechecking", "parked", "expired"} => ask[a].waits \in Ask
BY DEF RowInv, AskHasRow

LEMMA HeldRow ==
    ASSUME ApprovalTypeOK, RowInv, NEW h \in Handler, hand[h].pc # "idle"
    PROVE  /\ hand[h].id \in Ask /\ row[hand[h].id].state # "none"
           /\ hand[h].seen \in Previews /\ hand[h].verdict \in Values
BY DEF RowInv, HandHasRow, ApprovalTypeOK, HandLocals

LEMMA LeftIs ==
    ASSUME ask \in [Ask -> AskLocals], NEW a \in Ask
    PROVE  [ask EXCEPT ![a] = [IdleAsk EXCEPT !.pc = "done", !.id = ask[a].id, !.got = ask[a].got]]
              \in [Ask -> AskLocals]
BY Consts, PcNames DEF AskLocals

LEMMA HandIs ==
    ASSUME hand \in [Handler -> HandLocals], NEW h \in Handler, NEW q \in HandPc, NEW i \in Ask,
           NEW p \in Previews, NEW v \in Values
    PROVE  [hand EXCEPT ![h] = [pc |-> q, id |-> i, seen |-> p, verdict |-> v]] \in [Handler -> HandLocals]
BY DEF HandLocals

LEMMA AdoptedIs ==
    ASSUME ApprovalTypeOK, NEW a \in Ask, NEW p \in Previews PROVE Adopted(a, p) \in Previews
BY Consts DEF Adopted, ApprovalTypeOK

LEMMA NextPreviewIs ==
    ASSUME file \in Nat, NEW p \in Previews PROVE Preview(p.rev + 1, file) \in Previews
BY DEF Preview, Previews

\* A release only ever takes a live preview away.
LEMMA DeliverKeeps ==
    ASSUME ApprovalTypeOK, NEW k, NEW v, Deliver(k, v)
    PROVE  \A b \in Ask : pending'[b] \in {pending[b], NoPreview}
BY DEF Deliver, ApprovalTypeOK

LEMMA KeyStays == ASSUME shape' = shape PROVE \A a : KeyOf(a)' = KeyOf(a)
BY DEF KeyOf

LEMMA BeginType == ASSUME ApprovalTypeOK, RowInv, NEW a \in Ask, Begin(a) PROVE ApprovalTypeOK'
<1> USE Consts DEF ApprovalTypeOK
<1>1. ask' \in [Ask -> AskLocals]
  BY AskTypes, PcNames, PreviewIs DEF Begin
<1> QED BY <1>1 DEF Begin

LEMMA OpenRowType == ASSUME ApprovalTypeOK, RowInv, NEW a \in Ask, OpenRow(a) PROVE ApprovalTypeOK'
<1> USE Consts DEF ApprovalTypeOK
<1>1. row' \in [Ask -> Rows]
  <2>1. ask[a].preview \in Previews BY DEF AskLocals
  <2>2. CASE row' = row BY <2>2
  <2>3. CASE row' = [row EXCEPT ![a] = [state |-> "open", rev |-> ask[a].preview.rev,
                                        base |-> ask[a].preview.base]]
    BY <2>1, <2>3, NewRowType, PcNames
  <2> QED BY <2>2, <2>3 DEF OpenRow
<1>2. ask' \in [Ask -> AskLocals]
  <2> DEFINE next == IF Negotiated(a) THEN "registering" ELSE "binding"
  <2>1. next \in AskPc BY PcNames
  <2>2. \E b \in Ask : ask' = [ask EXCEPT ![a].pc = next, ![a].id = b]
    BY DEF OpenRow, Existing, OpenAt
  <2> HIDE DEF next
  <2>3. PICK b \in Ask : ask' = [ask EXCEPT ![a].pc = next, ![a].id = b] BY <2>2
  <2>4. [ask EXCEPT ![a].pc = next, ![a].id = b] \in [Ask -> AskLocals] BY <2>1, AskTypes
  <2> QED BY <2>3, <2>4
<1> QED BY <1>1, <1>2 DEF OpenRow

LEMMA OpenRefusedType == ASSUME ApprovalTypeOK, RowInv, NEW a \in Ask, OpenRefused(a) PROVE ApprovalTypeOK'
<1> USE Consts DEF ApprovalTypeOK
<1>1. ask' \in [Ask -> AskLocals]
  BY AskTypes, PcNames DEF OpenRefused
<1> QED BY <1>1 DEF OpenRefused

LEMMA RegisterType == ASSUME ApprovalTypeOK, RowInv, NEW a \in Ask, Register(a) PROVE ApprovalTypeOK'
<1> USE Consts DEF ApprovalTypeOK
<1>1. pending' \in [Ask -> Previews]
  BY DEF Register, AskLocals
<1>2. ask' \in [Ask -> AskLocals]
  <2>1. \/ ask' = [ask EXCEPT ![a].pc = "binding"]
        \/ ask' = [ask EXCEPT ![a].pc = "done", ![a].got = Denied]
    BY DEF Register
  <2>2. CASE ask' = [ask EXCEPT ![a].pc = "binding"] BY <2>2, AskTypes, PcNames
  <2>3. CASE ask' = [ask EXCEPT ![a].pc = "done", ![a].got = Denied] BY <2>3, AskTypes, PcNames
  <2> QED BY <2>1, <2>2, <2>3
<1> QED BY <1>1, <1>2 DEF Register

LEMMA BindType == ASSUME ApprovalTypeOK, RowInv, NEW a \in Ask, Bind(a) PROVE ApprovalTypeOK'
<1> USE Consts DEF ApprovalTypeOK
<1>1. waiters' \in [Key -> Ask \cup {NoAsk}]
  BY KeyIs DEF Bind
<1>2. bound' \in [Key -> Ask \cup {NoAsk}]
  BY KeyIs DEF Bind, AskLocals
<1>3. ask' \in [Ask -> AskLocals]
  BY AskTypes, PcNames, KeyIs DEF Bind
<1> QED BY <1>1, <1>2, <1>3 DEF Bind

LEMMA RecheckType == ASSUME ApprovalTypeOK, RowInv, NEW a \in Ask, Recheck(a) PROVE ApprovalTypeOK'
<1> USE Consts DEF ApprovalTypeOK
<1>1. waiter' \in [Ask -> WaiterObject]
  BY WaiterTypes, FoundIs, AskedRow DEF Recheck
<1>2. stash' \in [Key -> Values]
  BY DEF Recheck
<1>3. ask' \in [Ask -> AskLocals]
  BY AskTypes, PcNames DEF Recheck
<1> QED BY <1>1, <1>2, <1>3 DEF Recheck

LEMMA WakeType == ASSUME ApprovalTypeOK, RowInv, NEW a \in Ask, Wake(a) PROVE ApprovalTypeOK'
<1> USE Consts DEF ApprovalTypeOK
<1>1. ask' \in [Ask -> AskLocals]
  <2>1. ask[a].waits \in Ask BY AskedRow DEF Wake
  <2>2. waiter[ask[a].waits].value \in Values BY <2>1 DEF WaiterObject
  <2> QED BY <2>2, AskTypes, PcNames DEF Wake, Return
<1> QED BY <1>1 DEF Wake

LEMMA ExpireType == ASSUME ApprovalTypeOK, RowInv, NEW a \in Ask, Expire(a) PROVE ApprovalTypeOK'
<1> USE Consts DEF ApprovalTypeOK
<1>1. waiter' \in [Ask -> WaiterObject]
  BY WaiterTypes DEF Expire
<1>2. ask' \in [Ask -> AskLocals]
  BY AskTypes, PcNames DEF Expire
<1> QED BY <1>1, <1>2 DEF Expire

LEMMA TimeOutType == ASSUME ApprovalTypeOK, RowInv, NEW a \in Ask, TimeOut(a) PROVE ApprovalTypeOK'
<1> USE Consts DEF ApprovalTypeOK
<1>1. row' \in [Ask -> Rows]
  <2>1. ask[a].id \in Ask BY AskedRow DEF TimeOut
  <2> QED BY <2>1, RowStateType, PcNames DEF TimeOut
<1>2. stash' \in [Key -> Values]
  BY DEF TimeOut
<1>3. ask' \in [Ask -> AskLocals]
  <2>1. Found(a) \in Values BY AskedRow, FoundIs DEF TimeOut
  <2>2. \/ ask' = [ask EXCEPT ![a].pc = "timedOut"]
        \/ ask' = [ask EXCEPT ![a].pc = "leaving", ![a].got = Found(a)]
        \/ ask' = [ask EXCEPT ![a].pc = "leaving", ![a].got = Denied]
    BY DEF TimeOut, Return
  <2>3. CASE ask' = [ask EXCEPT ![a].pc = "timedOut"] BY <2>3, AskTypes, PcNames
  <2>4. CASE ask' = [ask EXCEPT ![a].pc = "leaving", ![a].got = Found(a)]
    BY <2>1, <2>4, AskTypes, PcNames
  <2>5. CASE ask' = [ask EXCEPT ![a].pc = "leaving", ![a].got = Denied]
    BY <2>5, AskTypes, PcNames
  <2> QED BY <2>2, <2>3, <2>4, <2>5
<1> QED BY <1>1, <1>2, <1>3 DEF TimeOut

LEMMA TimeOutFailsType == ASSUME ApprovalTypeOK, RowInv, NEW a \in Ask, TimeOutFails(a) PROVE ApprovalTypeOK'
<1> USE Consts DEF ApprovalTypeOK
<1>1. ask' \in [Ask -> AskLocals]
  BY AskTypes, PcNames DEF TimeOutFails, Return
<1> QED BY <1>1 DEF TimeOutFails

LEMMA TimeOutReleaseType == ASSUME ApprovalTypeOK, RowInv, NEW a \in Ask, TimeOutRelease(a) PROVE ApprovalTypeOK'
<1> USE Consts DEF ApprovalTypeOK
<1>1. waiter' \in [Ask -> WaiterObject] /\ stash' \in [Key -> Values] /\ pending' \in [Ask -> Previews]
  BY DeliverTypes DEF TimeOutRelease
<1>2. ask' \in [Ask -> AskLocals]
  BY AskTypes, PcNames DEF TimeOutRelease, Return
<1> QED BY <1>1, <1>2 DEF TimeOutRelease

LEMMA LeaveType == ASSUME ApprovalTypeOK, RowInv, NEW a \in Ask, Leave(a) PROVE ApprovalTypeOK'
<1> USE Consts DEF ApprovalTypeOK
<1>1. waiters' \in [Key -> Ask \cup {NoAsk}]
  BY DEF Leave
<1>2. bound' \in [Key -> Ask \cup {NoAsk}]
  BY DEF Leave
<1>3. stash' \in [Key -> Values]
  BY DEF Leave
<1>4. ask' \in [Ask -> AskLocals]
  BY LeftIs DEF Leave
<1> QED BY <1>1, <1>2, <1>3, <1>4 DEF Leave

LEMMA ReceiveType == ASSUME ApprovalTypeOK, RowInv, NEW h \in Handler, NEW a \in Ask, Receive(h, a) PROVE ApprovalTypeOK'
<1> USE Consts DEF ApprovalTypeOK
<1>1. hand' \in [Handler -> HandLocals]
  <2>1. Body(a) \in Previews /\ Approved(a, shape[a].kind = "answers", NoPreview) \in Values
    BY BodyIs, ApprovedIs
  <2>2. \E q \in {"deciding", "validating"},
           v \in {Denied, Nothing, Approved(a, shape[a].kind = "answers", NoPreview)} :
           hand' = [hand EXCEPT ![h] = [pc |-> q, id |-> a, seen |-> Body(a), verdict |-> v]]
    BY DEF Receive
  <2> QED BY <2>1, <2>2, HandIs, PcNames
<1> QED BY <1>1 DEF Receive

LEMMA ValidateType == ASSUME ApprovalTypeOK, RowInv, NEW h \in Handler, Validate(h) PROVE ApprovalTypeOK'
<1> USE Consts DEF ApprovalTypeOK
<1>1. pending' \in [Ask -> Previews]
  BY HeldRow, AdoptedIs DEF Validate
<1>2. hand' \in [Handler -> HandLocals]
  <2> DEFINE i == hand[h].id
             p == Adopted(i, hand[h].seen)
  <2>1. i \in Ask /\ p \in Previews BY HeldRow, AdoptedIs DEF Validate
  <2>2. Approved(i, TRUE, p) \in Values /\ Preview(p.rev + 1, file) \in Previews
    BY <2>1, ApprovedIs, NextPreviewIs
  <2>3. \/ hand' = [hand EXCEPT ![h].pc = "deciding", ![h].verdict = Denied]
        \/ hand' = [hand EXCEPT ![h].pc = "deciding", ![h].verdict = Approved(i, TRUE, p)]
        \/ hand' = [hand EXCEPT ![h].pc = "refreshing", ![h].seen = Preview(p.rev + 1, file)]
    BY DEF Validate, Verdict
  <2>4. CASE hand' = [hand EXCEPT ![h].pc = "deciding", ![h].verdict = Denied]
    BY <2>4, HandTypes, PcNames
  <2> HIDE DEF p
  <2>5. CASE hand' = [hand EXCEPT ![h].pc = "deciding", ![h].verdict = Approved(i, TRUE, p)]
    BY <2>2, <2>5, HandTypes, PcNames
  <2>6. CASE hand' = [hand EXCEPT ![h].pc = "refreshing", ![h].seen = Preview(p.rev + 1, file)]
    BY <2>2, <2>6, HandTypes, PcNames
  <2> QED BY <2>3, <2>4, <2>5, <2>6
<1> QED BY <1>1, <1>2 DEF Validate

LEMMA RefreshType == ASSUME ApprovalTypeOK, RowInv, NEW h \in Handler, Refresh(h) PROVE ApprovalTypeOK'
<1> USE Consts DEF ApprovalTypeOK
<1>1. row' \in [Ask -> Rows]
  <2>1. hand[h].id \in Ask /\ hand[h].seen \in Previews BY HeldRow DEF Refresh
  <2>2. CASE row' = row BY <2>2
  <2>3. CASE row' = [row EXCEPT ![hand[h].id].rev = hand[h].seen.rev,
                                ![hand[h].id].base = hand[h].seen.base]
    BY <2>1, <2>3, RowBodyType
  <2> QED BY <2>2, <2>3 DEF Refresh
<1>2. hand' \in [Handler -> HandLocals]
  <2>1. hand' = [hand EXCEPT ![h].pc = "committing"] \/ hand' = [hand EXCEPT ![h] = IdleHand]
    BY DEF Refresh
  <2>2. CASE hand' = [hand EXCEPT ![h].pc = "committing"] BY <2>2, HandTypes, PcNames
  <2>3. CASE hand' = [hand EXCEPT ![h] = IdleHand] BY <2>3
  <2> QED BY <2>1, <2>2, <2>3
<1> QED BY <1>1, <1>2 DEF Refresh

LEMMA CommitRefreshType == ASSUME ApprovalTypeOK, RowInv, NEW h \in Handler, CommitRefresh(h) PROVE ApprovalTypeOK'
<1> USE Consts DEF ApprovalTypeOK
<1>1. pending' \in [Ask -> Previews]
  BY HeldRow DEF CommitRefresh
<1>2. hand' \in [Handler -> HandLocals]
  BY DEF CommitRefresh
<1> QED BY <1>1, <1>2 DEF CommitRefresh

LEMMA DecideType == ASSUME ApprovalTypeOK, RowInv, NEW h \in Handler, Decide(h) PROVE ApprovalTypeOK'
<1> USE Consts DEF ApprovalTypeOK
<1>1. row' \in [Ask -> Rows]
  <2>1. hand[h].id \in Ask BY HeldRow DEF Decide
  <2>2. \/ row' = row \/ row' = [row EXCEPT ![hand[h].id].state = "approved"]
        \/ row' = [row EXCEPT ![hand[h].id].state = "denied"]
    BY DEF Decide
  <2> QED BY <2>1, <2>2, RowStateType, PcNames
<1>2. hand' \in [Handler -> HandLocals]
  <2>1. hand' = [hand EXCEPT ![h].pc = "releasing"] \/ hand' = [hand EXCEPT ![h] = IdleHand]
    BY DEF Decide
  <2>2. CASE hand' = [hand EXCEPT ![h].pc = "releasing"] BY <2>2, HandTypes, PcNames
  <2>3. CASE hand' = [hand EXCEPT ![h] = IdleHand] BY <2>3
  <2> QED BY <2>1, <2>2, <2>3
<1> QED BY <1>1, <1>2 DEF Decide

LEMMA ReleaseType == ASSUME ApprovalTypeOK, RowInv, NEW h \in Handler, Release(h) PROVE ApprovalTypeOK'
<1> USE Consts DEF ApprovalTypeOK
<1>1. waiter' \in [Ask -> WaiterObject] /\ stash' \in [Key -> Values] /\ pending' \in [Ask -> Previews]
  BY DeliverTypes, HeldRow DEF Release
<1>2. hand' \in [Handler -> HandLocals]
  BY DEF Release
<1> QED BY <1>1, <1>2 DEF Release

LEMMA TurnFinallyType == ASSUME ApprovalTypeOK, RowInv, NEW r \in Run, TurnFinally(r) PROVE ApprovalTypeOK'
<1> USE Consts DEF ApprovalTypeOK
<1>1. stash' \in [Key -> Values] /\ pending' \in [Ask -> Previews]
  BY DiscardTypes DEF TurnFinally
<1> QED BY <1>1 DEF TurnFinally

LEMMA FinalizeType == ASSUME ApprovalTypeOK, RowInv, NEW r \in Run, Finalize(r) PROVE ApprovalTypeOK'
<1> USE Consts DEF ApprovalTypeOK
<1>1. stash' \in [Key -> Values] /\ pending' \in [Ask -> Previews]
  BY DiscardTypes DEF Finalize
<1> QED BY <1>1 DEF Finalize

LEMMA DeregisterType == ASSUME ApprovalTypeOK, RowInv, NEW r \in Run, Deregister(r) PROVE ApprovalTypeOK'
<1> USE Consts DEF ApprovalTypeOK
<1>1. waiter' \in [Ask -> WaiterObject]
  BY DEF Deregister, WaiterObject
<1>2. waiters' \in [Key -> Ask \cup {NoAsk}]
  BY DEF Deregister
<1>3. bound' \in [Key -> Ask \cup {NoAsk}]
  BY DEF Deregister
<1> QED BY <1>1, <1>2, <1>3 DEF Deregister

LEMMA ReadRowsType == ASSUME ApprovalTypeOK, RowInv, NEW r \in Run, ReadRows(r) PROVE ApprovalTypeOK'
<1> USE Consts DEF ApprovalTypeOK
<1> QED BY DEF ReadRows

LEMMA CloseOrphanType == ASSUME ApprovalTypeOK, RowInv, NEW r \in Run, NEW a \in Ask, CloseOrphan(r, a) PROVE ApprovalTypeOK'
<1> USE Consts DEF ApprovalTypeOK
<1>1. row' \in [Ask -> Rows]
  BY RowStateType, PcNames DEF CloseOrphan
<1> QED BY <1>1 DEF CloseOrphan

LEMMA ReleaseOrphanType == ASSUME ApprovalTypeOK, RowInv, NEW r \in Run, ReleaseOrphan(r) PROVE ApprovalTypeOK'
<1> USE Consts DEF ApprovalTypeOK
<1>1. waiter' \in [Ask -> WaiterObject] /\ stash' \in [Key -> Values] /\ pending' \in [Ask -> Previews]
  BY DeliverTypes DEF ReleaseOrphan
<1> QED BY <1>1 DEF ReleaseOrphan

LEMMA EditType == ASSUME ApprovalTypeOK, RowInv, Edit PROVE ApprovalTypeOK'
<1> USE Consts DEF ApprovalTypeOK
<1>1. file' \in Nat
  BY DEF Edit
<1> QED BY <1>1 DEF Edit

LEMMA ApprovalTypeOKNext == ASSUME ApprovalTypeOK, RowInv, Next \/ UNCHANGED vars PROVE ApprovalTypeOK'
<1>1. CASE Next
  BY <1>1, BeginType, OpenRowType, OpenRefusedType, RegisterType, BindType, RecheckType,
     WakeType, ExpireType, TimeOutType, TimeOutFailsType, TimeOutReleaseType, LeaveType,
     ReceiveType, ValidateType, RefreshType, CommitRefreshType, DecideType, ReleaseType,
     TurnFinallyType, FinalizeType, DeregisterType, ReadRowsType, CloseOrphanType,
     ReleaseOrphanType, EditType DEF Next, AskStep, HandStep, SweepStep
<1>2. CASE UNCHANGED vars BY <1>2 DEF vars, ApprovalTypeOK
<1> QED BY <1>1, <1>2

(***************************************************************************)
(* Rows: who works on which.                                               *)
(***************************************************************************)
\* No row is taken away or made, and an approved row is never written again.
RowsStay ==
    \A b \in Ask : /\ row'[b].state = "none" <=> row[b].state = "none"
                   /\ row[b].state = "approved" => row'[b] = row[b]

LEMMA DecidedStays ==
    ASSUME row \in [Ask -> Rows], NEW i \in Ask, row[i].state = "open", NEW s \in {"approved", "denied"},
           row' = [row EXCEPT ![i].state = s]
    PROVE  RowsStay
BY DEF Rows, RowsStay

LEMMA RefreshedStays ==
    ASSUME row \in [Ask -> Rows], NEW i \in Ask, row[i].state = "open", NEW p,
           row' = [row EXCEPT ![i].rev = p.rev, ![i].base = p.base]
    PROVE  RowsStay
BY DEF Rows, RowsStay

LEMMA TimeOutStays == ASSUME ApprovalTypeOK, RowInv, NEW a \in Ask, TimeOut(a) PROVE RowsStay
<1> USE DEF ApprovalTypeOK
<1>1. ask[a].id \in Ask BY AskedRow DEF TimeOut
<1>2. CASE row' = row BY <1>2 DEF RowsStay
<1>3. CASE row[ask[a].id].state = "open" /\ row' = [row EXCEPT ![ask[a].id].state = "denied"]
  BY <1>1, <1>3, DecidedStays
<1> QED BY <1>2, <1>3 DEF TimeOut

LEMMA RefreshStays == ASSUME ApprovalTypeOK, RowInv, NEW h \in Handler, Refresh(h) PROVE RowsStay
<1> USE DEF ApprovalTypeOK
<1>1. hand[h].id \in Ask BY HeldRow DEF Refresh
<1>2. CASE row' = row BY <1>2 DEF RowsStay
<1>3. CASE /\ row[hand[h].id].state = "open"
           /\ row' = [row EXCEPT ![hand[h].id].rev = hand[h].seen.rev,
                                 ![hand[h].id].base = hand[h].seen.base]
  BY <1>1, <1>3, RefreshedStays
<1> QED BY <1>2, <1>3 DEF Refresh

LEMMA DecideStays == ASSUME ApprovalTypeOK, RowInv, NEW h \in Handler, Decide(h) PROVE RowsStay
<1> USE DEF ApprovalTypeOK
<1>1. hand[h].id \in Ask BY HeldRow DEF Decide
<1>2. CASE row' = row BY <1>2 DEF RowsStay
<1>3. CASE row[hand[h].id].state = "open" /\ row' = [row EXCEPT ![hand[h].id].state = "approved"]
  BY <1>1, <1>3, DecidedStays
<1>4. CASE row[hand[h].id].state = "open" /\ row' = [row EXCEPT ![hand[h].id].state = "denied"]
  BY <1>1, <1>4, DecidedStays
<1> QED BY <1>2, <1>3, <1>4 DEF Decide, Decidable

LEMMA CloseOrphanStays ==
    ASSUME ApprovalTypeOK, NEW r \in Run, NEW a \in Ask, CloseOrphan(r, a) PROVE RowsStay
<1> USE DEF ApprovalTypeOK
<1>2. CASE row' = row BY <1>2 DEF RowsStay
<1>3. CASE row[a].state = "open" /\ row' = [row EXCEPT ![a].state = "denied"]
  BY <1>3, DecidedStays
<1> QED BY <1>2, <1>3 DEF CloseOrphan


LEMMA BeginRow == ASSUME ApprovalTypeOK, RowInv, NEW a \in Ask, Begin(a) PROVE RowInv'
<1> USE KeyStays DEF ApprovalTypeOK, RowInv
<1>1. ASSUME NEW b \in Ask PROVE AskHasRow(b)'
  BY Consts, KeyIs DEF Begin, AskHasRow, AskLocals
<1>2. ASSUME NEW g \in Handler PROVE HandHasRow(g)'
  BY Consts DEF Begin, HandHasRow, HandLocals
<1>3. ASSUME NEW k \in Key PROVE (waiters[k] \in Ask => KeyOf(waiters[k]) = k)'
  BY Consts, KeyIs DEF Begin
<1> QED BY <1>1, <1>2, <1>3

LEMMA OpenRowRow == ASSUME ApprovalTypeOK, RowInv, NEW a \in Ask, OpenRow(a) PROVE RowInv'
<1> USE KeyStays DEF ApprovalTypeOK, RowInv
<1>0. \A b \in Ask : row'[b].state = "none" <=> row[b].state = "none" /\ ~(b = a /\ Existing(a) = {} /\ ask'[a].id = a)
  BY Consts DEF OpenRow, Rows, AskLocals
<1>1. ASSUME NEW b \in Ask PROVE AskHasRow(b)'
  BY <1>0, Consts, KeyIs DEF OpenRow, AskHasRow, AskLocals, Existing, OpenAt
<1>2. ASSUME NEW g \in Handler PROVE HandHasRow(g)'
  BY <1>0, Consts DEF OpenRow, HandHasRow, HandLocals
<1>3. ASSUME NEW k \in Key PROVE (waiters[k] \in Ask => KeyOf(waiters[k]) = k)'
  BY Consts, KeyIs DEF OpenRow
<1> QED BY <1>1, <1>2, <1>3

LEMMA OpenRefusedRow == ASSUME ApprovalTypeOK, RowInv, NEW a \in Ask, OpenRefused(a) PROVE RowInv'
<1> USE KeyStays DEF ApprovalTypeOK, RowInv
<1>1. ASSUME NEW b \in Ask PROVE AskHasRow(b)'
  BY Consts, KeyIs DEF OpenRefused, AskHasRow, AskLocals
<1>2. ASSUME NEW g \in Handler PROVE HandHasRow(g)'
  BY Consts DEF OpenRefused, HandHasRow, HandLocals
<1>3. ASSUME NEW k \in Key PROVE (waiters[k] \in Ask => KeyOf(waiters[k]) = k)'
  BY Consts, KeyIs DEF OpenRefused
<1> QED BY <1>1, <1>2, <1>3

LEMMA RegisterRow == ASSUME ApprovalTypeOK, RowInv, NEW a \in Ask, Register(a) PROVE RowInv'
<1> USE KeyStays DEF ApprovalTypeOK, RowInv
<1>1. ASSUME NEW b \in Ask PROVE AskHasRow(b)'
  BY Consts, KeyIs DEF Register, AskHasRow, AskLocals
<1>2. ASSUME NEW g \in Handler PROVE HandHasRow(g)'
  BY Consts DEF Register, HandHasRow, HandLocals
<1>3. ASSUME NEW k \in Key PROVE (waiters[k] \in Ask => KeyOf(waiters[k]) = k)'
  BY Consts, KeyIs DEF Register
<1> QED BY <1>1, <1>2, <1>3

LEMMA BindRow == ASSUME ApprovalTypeOK, RowInv, NEW a \in Ask, Bind(a) PROVE RowInv'
<1> USE KeyStays DEF ApprovalTypeOK, RowInv
<1>1. ASSUME NEW b \in Ask PROVE AskHasRow(b)'
  BY Consts, KeyIs DEF Bind, AskHasRow, AskLocals
<1>2. ASSUME NEW g \in Handler PROVE HandHasRow(g)'
  BY Consts DEF Bind, HandHasRow, HandLocals
<1>3. ASSUME NEW k \in Key PROVE (waiters[k] \in Ask => KeyOf(waiters[k]) = k)'
  BY Consts, KeyIs DEF Bind
<1> QED BY <1>1, <1>2, <1>3

LEMMA RecheckRow == ASSUME ApprovalTypeOK, RowInv, NEW a \in Ask, Recheck(a) PROVE RowInv'
<1> USE KeyStays DEF ApprovalTypeOK, RowInv
<1>1. ASSUME NEW b \in Ask PROVE AskHasRow(b)'
  BY Consts, KeyIs DEF Recheck, AskHasRow, AskLocals
<1>2. ASSUME NEW g \in Handler PROVE HandHasRow(g)'
  BY Consts DEF Recheck, HandHasRow, HandLocals
<1>3. ASSUME NEW k \in Key PROVE (waiters[k] \in Ask => KeyOf(waiters[k]) = k)'
  BY Consts, KeyIs DEF Recheck
<1> QED BY <1>1, <1>2, <1>3

LEMMA WakeRow == ASSUME ApprovalTypeOK, RowInv, NEW a \in Ask, Wake(a) PROVE RowInv'
<1> USE KeyStays DEF ApprovalTypeOK, RowInv
<1>1. ASSUME NEW b \in Ask PROVE AskHasRow(b)'
  BY Consts, KeyIs DEF Wake, AskHasRow, AskLocals, Return
<1>2. ASSUME NEW g \in Handler PROVE HandHasRow(g)'
  BY Consts DEF Wake, HandHasRow, HandLocals
<1>3. ASSUME NEW k \in Key PROVE (waiters[k] \in Ask => KeyOf(waiters[k]) = k)'
  BY Consts, KeyIs DEF Wake
<1> QED BY <1>1, <1>2, <1>3

LEMMA ExpireRow == ASSUME ApprovalTypeOK, RowInv, NEW a \in Ask, Expire(a) PROVE RowInv'
<1> USE KeyStays DEF ApprovalTypeOK, RowInv
<1>1. ASSUME NEW b \in Ask PROVE AskHasRow(b)'
  BY Consts, KeyIs DEF Expire, AskHasRow, AskLocals
<1>2. ASSUME NEW g \in Handler PROVE HandHasRow(g)'
  BY Consts DEF Expire, HandHasRow, HandLocals
<1>3. ASSUME NEW k \in Key PROVE (waiters[k] \in Ask => KeyOf(waiters[k]) = k)'
  BY Consts, KeyIs DEF Expire
<1> QED BY <1>1, <1>2, <1>3

LEMMA TimeOutRow == ASSUME ApprovalTypeOK, RowInv, NEW a \in Ask, TimeOut(a) PROVE RowInv'
<1> USE KeyStays DEF ApprovalTypeOK, RowInv
<1>0. \A b \in Ask : row'[b].state = "none" <=> row[b].state = "none"
  BY TimeOutStays DEF RowsStay
<1>1. ASSUME NEW b \in Ask PROVE AskHasRow(b)'
  <2>1. \/ ask' = [ask EXCEPT ![a].pc = "timedOut"]
        \/ \E v : ask' = [ask EXCEPT ![a].pc = "leaving", ![a].got = v]
    BY DEF TimeOut, Return
  <2>2. /\ ask'[b].id = ask[b].id /\ ask'[b].waits = ask[b].waits
        /\ ask'[b].pc # ask[b].pc => ask[b].pc = "expired" /\ ask'[b].pc \in {"timedOut", "leaving"}
    BY <2>1 DEF TimeOut, AskLocals
  <2> QED BY <1>0, <2>2 DEF AskHasRow, TimeOut
<1>2. ASSUME NEW g \in Handler PROVE HandHasRow(g)'
  BY <1>0, Consts DEF TimeOut, HandHasRow, HandLocals
<1>3. ASSUME NEW k \in Key PROVE (waiters[k] \in Ask => KeyOf(waiters[k]) = k)'
  BY Consts, KeyIs DEF TimeOut
<1> QED BY <1>1, <1>2, <1>3

LEMMA TimeOutFailsRow == ASSUME ApprovalTypeOK, RowInv, NEW a \in Ask, TimeOutFails(a) PROVE RowInv'
<1> USE KeyStays DEF ApprovalTypeOK, RowInv
<1>1. ASSUME NEW b \in Ask PROVE AskHasRow(b)'
  BY Consts, KeyIs DEF TimeOutFails, AskHasRow, AskLocals, Return
<1>2. ASSUME NEW g \in Handler PROVE HandHasRow(g)'
  BY Consts DEF TimeOutFails, HandHasRow, HandLocals
<1>3. ASSUME NEW k \in Key PROVE (waiters[k] \in Ask => KeyOf(waiters[k]) = k)'
  BY Consts, KeyIs DEF TimeOutFails
<1> QED BY <1>1, <1>2, <1>3

LEMMA TimeOutReleaseRow == ASSUME ApprovalTypeOK, RowInv, NEW a \in Ask, TimeOutRelease(a) PROVE RowInv'
<1> USE KeyStays DEF ApprovalTypeOK, RowInv
<1>1. ASSUME NEW b \in Ask PROVE AskHasRow(b)'
  BY Consts, KeyIs, DeliverKeeps DEF TimeOutRelease, AskHasRow, AskLocals, Return
<1>2. ASSUME NEW g \in Handler PROVE HandHasRow(g)'
  BY Consts DEF TimeOutRelease, HandHasRow, HandLocals
<1>3. ASSUME NEW k \in Key PROVE (waiters[k] \in Ask => KeyOf(waiters[k]) = k)'
  BY Consts, KeyIs DEF TimeOutRelease
<1> QED BY <1>1, <1>2, <1>3

LEMMA LeaveRow == ASSUME ApprovalTypeOK, RowInv, NEW a \in Ask, Leave(a) PROVE RowInv'
<1> USE KeyStays DEF ApprovalTypeOK, RowInv
<1>1. ASSUME NEW b \in Ask PROVE AskHasRow(b)'
  BY Consts, KeyIs DEF Leave, AskHasRow, AskLocals, IdleAsk
<1>2. ASSUME NEW g \in Handler PROVE HandHasRow(g)'
  BY Consts DEF Leave, HandHasRow, HandLocals
<1>3. ASSUME NEW k \in Key PROVE (waiters[k] \in Ask => KeyOf(waiters[k]) = k)'
  BY Consts, KeyIs DEF Leave
<1> QED BY <1>1, <1>2, <1>3

LEMMA ReceiveRow == ASSUME ApprovalTypeOK, RowInv, NEW h \in Handler, NEW a \in Ask, Receive(h, a) PROVE RowInv'
<1> USE KeyStays DEF ApprovalTypeOK, RowInv
<1>1. ASSUME NEW b \in Ask PROVE AskHasRow(b)'
  BY Consts, KeyIs DEF Receive, AskHasRow, AskLocals
<1>2. ASSUME NEW g \in Handler PROVE HandHasRow(g)'
  BY Consts DEF Receive, HandHasRow, HandLocals
<1>3. ASSUME NEW k \in Key PROVE (waiters[k] \in Ask => KeyOf(waiters[k]) = k)'
  BY Consts, KeyIs DEF Receive
<1> QED BY <1>1, <1>2, <1>3

LEMMA ValidateRow == ASSUME ApprovalTypeOK, RowInv, NEW h \in Handler, Validate(h) PROVE RowInv'
<1> USE KeyStays DEF ApprovalTypeOK, RowInv
<1>1. ASSUME NEW b \in Ask PROVE AskHasRow(b)'
  BY Consts, KeyIs, HeldRow DEF Validate, AskHasRow, AskLocals
<1>2. ASSUME NEW g \in Handler PROVE HandHasRow(g)'
  <2>1. hand'[g].id = hand[g].id /\ (hand[g].pc = "idle" => hand'[g].pc = "idle")
    <3>1. \/ \E v : hand' = [hand EXCEPT ![h].pc = "deciding", ![h].verdict = v]
          \/ \E p : hand' = [hand EXCEPT ![h].pc = "refreshing", ![h].seen = p]
      BY DEF Validate, Verdict
    <3> QED BY <3>1 DEF Validate, HandLocals
  <2> QED BY <2>1 DEF HandHasRow, Validate
<1>3. ASSUME NEW k \in Key PROVE (waiters[k] \in Ask => KeyOf(waiters[k]) = k)'
  BY Consts, KeyIs DEF Validate
<1> QED BY <1>1, <1>2, <1>3

LEMMA RefreshRow == ASSUME ApprovalTypeOK, RowInv, NEW h \in Handler, Refresh(h) PROVE RowInv'
<1> USE KeyStays DEF ApprovalTypeOK, RowInv
<1>0. \A b \in Ask : row'[b].state = "none" <=> row[b].state = "none"
  BY RefreshStays DEF RowsStay
<1>1. ASSUME NEW b \in Ask PROVE AskHasRow(b)'
  BY <1>0, Consts, KeyIs, HeldRow DEF Refresh, AskHasRow, AskLocals
<1>2. ASSUME NEW g \in Handler PROVE HandHasRow(g)'
  BY <1>0, Consts, HeldRow DEF Refresh, HandHasRow, HandLocals, IdleHand
<1>3. ASSUME NEW k \in Key PROVE (waiters[k] \in Ask => KeyOf(waiters[k]) = k)'
  BY Consts, KeyIs DEF Refresh
<1> QED BY <1>1, <1>2, <1>3

LEMMA CommitRefreshRow == ASSUME ApprovalTypeOK, RowInv, NEW h \in Handler, CommitRefresh(h) PROVE RowInv'
<1> USE KeyStays DEF ApprovalTypeOK, RowInv
<1>1. ASSUME NEW b \in Ask PROVE AskHasRow(b)'
  BY Consts, KeyIs, HeldRow DEF CommitRefresh, AskHasRow, AskLocals
<1>2. ASSUME NEW g \in Handler PROVE HandHasRow(g)'
  BY Consts, HeldRow DEF CommitRefresh, HandHasRow, HandLocals, IdleHand
<1>3. ASSUME NEW k \in Key PROVE (waiters[k] \in Ask => KeyOf(waiters[k]) = k)'
  BY Consts, KeyIs DEF CommitRefresh
<1> QED BY <1>1, <1>2, <1>3

LEMMA DecideRow == ASSUME ApprovalTypeOK, RowInv, NEW h \in Handler, Decide(h) PROVE RowInv'
<1> USE KeyStays DEF ApprovalTypeOK, RowInv
<1>0. \A b \in Ask : row'[b].state = "none" <=> row[b].state = "none"
  BY DecideStays DEF RowsStay
<1>1. ASSUME NEW b \in Ask PROVE AskHasRow(b)'
  BY <1>0, Consts, KeyIs, HeldRow DEF Decide, AskHasRow, AskLocals
<1>2. ASSUME NEW g \in Handler PROVE HandHasRow(g)'
  <2>1. hand' = [hand EXCEPT ![h].pc = "releasing"] \/ hand' = [hand EXCEPT ![h] = IdleHand]
    BY DEF Decide
  <2>2. hand[g].pc = "idle" \/ hand'[g].pc = "idle" \/ hand'[g].id = hand[g].id
    <3>1. CASE hand' = [hand EXCEPT ![h].pc = "releasing"] BY <3>1 DEF Decide, HandLocals
    <3>2. CASE hand' = [hand EXCEPT ![h] = IdleHand] BY <3>2 DEF HandHasRow, IdleHand
    <3> QED BY <2>1, <3>1, <3>2
  <2> QED BY <1>0, <2>2 DEF HandHasRow, Decide
<1>3. ASSUME NEW k \in Key PROVE (waiters[k] \in Ask => KeyOf(waiters[k]) = k)'
  BY Consts, KeyIs DEF Decide
<1> QED BY <1>1, <1>2, <1>3

LEMMA ReleaseRow == ASSUME ApprovalTypeOK, RowInv, NEW h \in Handler, Release(h) PROVE RowInv'
<1> USE KeyStays DEF ApprovalTypeOK, RowInv
<1>1. ASSUME NEW b \in Ask PROVE AskHasRow(b)'
  BY Consts, KeyIs, DeliverKeeps, HeldRow DEF Release, AskHasRow, AskLocals
<1>2. ASSUME NEW g \in Handler PROVE HandHasRow(g)'
  BY Consts, HeldRow DEF Release, HandHasRow, HandLocals, IdleHand
<1>3. ASSUME NEW k \in Key PROVE (waiters[k] \in Ask => KeyOf(waiters[k]) = k)'
  BY Consts, KeyIs DEF Release
<1> QED BY <1>1, <1>2, <1>3

LEMMA TurnFinallyRow == ASSUME ApprovalTypeOK, RowInv, NEW r \in Run, TurnFinally(r) PROVE RowInv'
<1> USE KeyStays DEF ApprovalTypeOK, RowInv
<1>1. ASSUME NEW b \in Ask PROVE AskHasRow(b)'
  BY Consts, KeyIs DEF TurnFinally, AskHasRow, AskLocals, DiscardRun
<1>2. ASSUME NEW g \in Handler PROVE HandHasRow(g)'
  BY Consts DEF TurnFinally, HandHasRow, HandLocals
<1>3. ASSUME NEW k \in Key PROVE (waiters[k] \in Ask => KeyOf(waiters[k]) = k)'
  BY Consts, KeyIs DEF TurnFinally
<1> QED BY <1>1, <1>2, <1>3

LEMMA FinalizeRow == ASSUME ApprovalTypeOK, RowInv, NEW r \in Run, Finalize(r) PROVE RowInv'
<1> USE KeyStays DEF ApprovalTypeOK, RowInv
<1>1. ASSUME NEW b \in Ask PROVE AskHasRow(b)'
  BY Consts, KeyIs DEF Finalize, AskHasRow, AskLocals, DiscardRun
<1>2. ASSUME NEW g \in Handler PROVE HandHasRow(g)'
  BY Consts DEF Finalize, HandHasRow, HandLocals
<1>3. ASSUME NEW k \in Key PROVE (waiters[k] \in Ask => KeyOf(waiters[k]) = k)'
  BY Consts, KeyIs DEF Finalize
<1> QED BY <1>1, <1>2, <1>3

LEMMA DeregisterRow == ASSUME ApprovalTypeOK, RowInv, NEW r \in Run, Deregister(r) PROVE RowInv'
<1> USE KeyStays DEF ApprovalTypeOK, RowInv
<1>1. ASSUME NEW b \in Ask PROVE AskHasRow(b)'
  BY Consts, KeyIs DEF Deregister, AskHasRow, AskLocals
<1>2. ASSUME NEW g \in Handler PROVE HandHasRow(g)'
  BY Consts DEF Deregister, HandHasRow, HandLocals
<1>3. ASSUME NEW k \in Key PROVE (waiters[k] \in Ask => KeyOf(waiters[k]) = k)'
  BY Consts, KeyIs DEF Deregister
<1> QED BY <1>1, <1>2, <1>3

LEMMA ReadRowsRow == ASSUME ApprovalTypeOK, RowInv, NEW r \in Run, ReadRows(r) PROVE RowInv'
<1> USE KeyStays DEF ApprovalTypeOK, RowInv
<1>1. ASSUME NEW b \in Ask PROVE AskHasRow(b)'
  BY Consts, KeyIs DEF ReadRows, AskHasRow, AskLocals
<1>2. ASSUME NEW g \in Handler PROVE HandHasRow(g)'
  BY Consts DEF ReadRows, HandHasRow, HandLocals
<1>3. ASSUME NEW k \in Key PROVE (waiters[k] \in Ask => KeyOf(waiters[k]) = k)'
  BY Consts, KeyIs DEF ReadRows
<1> QED BY <1>1, <1>2, <1>3

LEMMA CloseOrphanRow == ASSUME ApprovalTypeOK, RowInv, NEW r \in Run, NEW a \in Ask, CloseOrphan(r, a) PROVE RowInv'
<1> USE KeyStays DEF ApprovalTypeOK, RowInv
<1>0. \A b \in Ask : row'[b].state = "none" <=> row[b].state = "none"
  BY CloseOrphanStays DEF RowsStay
<1>1. ASSUME NEW b \in Ask PROVE AskHasRow(b)'
  BY <1>0, Consts, KeyIs DEF CloseOrphan, AskHasRow, AskLocals
<1>2. ASSUME NEW g \in Handler PROVE HandHasRow(g)'
  BY <1>0, Consts DEF CloseOrphan, HandHasRow, HandLocals
<1>3. ASSUME NEW k \in Key PROVE (waiters[k] \in Ask => KeyOf(waiters[k]) = k)'
  BY Consts, KeyIs DEF CloseOrphan
<1> QED BY <1>1, <1>2, <1>3

LEMMA ReleaseOrphanRow == ASSUME ApprovalTypeOK, RowInv, NEW r \in Run, ReleaseOrphan(r) PROVE RowInv'
<1> USE KeyStays DEF ApprovalTypeOK, RowInv
<1>1. ASSUME NEW b \in Ask PROVE AskHasRow(b)'
  BY Consts, KeyIs, DeliverKeeps DEF ReleaseOrphan, AskHasRow, AskLocals
<1>2. ASSUME NEW g \in Handler PROVE HandHasRow(g)'
  BY Consts DEF ReleaseOrphan, HandHasRow, HandLocals
<1>3. ASSUME NEW k \in Key PROVE (waiters[k] \in Ask => KeyOf(waiters[k]) = k)'
  BY Consts, KeyIs DEF ReleaseOrphan
<1> QED BY <1>1, <1>2, <1>3

LEMMA EditRow == ASSUME ApprovalTypeOK, RowInv, Edit PROVE RowInv'
<1> USE KeyStays DEF ApprovalTypeOK, RowInv
<1>1. ASSUME NEW b \in Ask PROVE AskHasRow(b)'
  BY Consts, KeyIs DEF Edit, AskHasRow, AskLocals
<1>2. ASSUME NEW g \in Handler PROVE HandHasRow(g)'
  BY Consts DEF Edit, HandHasRow, HandLocals
<1>3. ASSUME NEW k \in Key PROVE (waiters[k] \in Ask => KeyOf(waiters[k]) = k)'
  BY Consts, KeyIs DEF Edit
<1> QED BY <1>1, <1>2, <1>3

LEMMA RowInvNext == ASSUME ApprovalTypeOK, RowInv, Next \/ UNCHANGED vars PROVE RowInv'
<1>1. CASE Next
  BY <1>1, BeginRow, OpenRowRow, OpenRefusedRow, RegisterRow, BindRow, RecheckRow, WakeRow,
     ExpireRow, TimeOutRow, TimeOutFailsRow, TimeOutReleaseRow, LeaveRow, ReceiveRow, ValidateRow,
     RefreshRow, CommitRefreshRow, DecideRow, ReleaseRow, TurnFinallyRow, FinalizeRow,
     DeregisterRow, ReadRowsRow, CloseOrphanRow, ReleaseOrphanRow, EditRow DEF Next, AskStep,
     HandStep, SweepStep
<1>2. CASE UNCHANGED vars BY <1>2 DEF vars, RowInv, AskHasRow, HandHasRow, KeyOf
<1> QED BY <1>1, <1>2

(***************************************************************************)
(* Values: what lies in a stash, a waiter, an ask or a handler.            *)
(***************************************************************************)
ApprovedStays == shape' = shape /\ \A b \in Ask : row[b].state = "approved" => row'[b] = row[b]

LEMMA SoundStays ==
    ASSUME ApprovedStays, NEW v, NEW k, Sound(v, k) PROVE Sound(v, k)'
BY DEF ApprovedStays, Sound, KeyOf, Negotiated, Body, Preview

LEMMA RefusalIsSound == ASSUME NEW v, NEW k, ~v.yes PROVE Sound(v, k) /\ Sound(v, k)'
BY DEF Sound

LEMMA StashStays ==
    ASSUME ApprovedStays, StashSound, \A k \in Key : stash'[k] = stash[k] \/ ~stash'[k].yes
    PROVE  StashSound'
BY SoundStays, RefusalIsSound DEF StashSound

LEMMA WaitersStay ==
    ASSUME ApprovedStays, WaitersSound,
           \A w \in Ask : waiter'[w].value = waiter[w].value \/ ~waiter'[w].value.yes
    PROVE  WaitersSound'
<1> SUFFICES ASSUME NEW w \in Ask PROVE Sound(waiter[w].value, KeyOf(w))'
  BY DEF WaitersSound
<1>1. KeyOf(w)' = KeyOf(w) BY DEF ApprovedStays, KeyOf
<1> QED BY <1>1, SoundStays, RefusalIsSound DEF WaitersSound

LEMMA AsksStay ==
    ASSUME ApprovedStays, AsksSound, \A b \in Ask : ask'[b].got = ask[b].got \/ ~ask'[b].got.yes
    PROVE  AsksSound'
BY SoundStays, RefusalIsSound DEF AsksSound, ApprovedStays, KeyOf

LEMMA HandStays ==
    ASSUME ApprovedStays, NEW g, HandSound(g), hand'[g] = hand[g]
    PROVE  HandSound(g)'
<1>1. \A v, k : Sound(v, k) => Sound(v, k)' BY SoundStays
<1>2. KeyOf(hand[g].id)' = KeyOf(hand[g].id) BY DEF ApprovedStays, KeyOf
<1>3. hand'[g].pc = "releasing" => Sound(hand[g].verdict, KeyOf(hand[g].id))'
  BY <1>1, <1>2 DEF HandSound
<1> QED BY <1>3 DEF HandSound, ApprovedStays, Negotiated

LEMMA HandsStay ==
    ASSUME ApprovedStays, HandsSound,
           \A g \in Handler : \/ hand'[g] = hand[g]
                              \/ hand'[g].pc \notin {"deciding", "releasing"}
                              \/ ~hand'[g].verdict.yes
    PROVE  HandsSound'
<1> SUFFICES ASSUME NEW g \in Handler PROVE HandSound(g)'
  BY DEF HandsSound
<1>1. CASE hand'[g] = hand[g] BY <1>1, HandStays DEF HandsSound
<1>2. CASE hand'[g].pc \notin {"deciding", "releasing"} BY <1>2 DEF HandSound
<1>3. CASE ~hand'[g].verdict.yes BY <1>3, RefusalIsSound DEF HandSound
<1> QED BY <1>1, <1>2, <1>3

LEMMA GotIs ==
    ASSUME ask \in [Ask -> AskLocals], NEW a \in Ask, NEW v, Return(a, v)
    PROVE  \A b \in Ask : ask'[b].got = ask[b].got \/ (b = a /\ ask'[b].got = v)
BY DEF Return, AskLocals
LEMMA StashedIs ==
    ASSUME ApprovalTypeOK, ValueInv, RowInv, NEW a \in Ask, ask[a].id \in Ask,
           KeyOf(ask[a].id) = KeyOf(a), row[ask[a].id].state = "approved"
    PROVE  Sound(Found(a), KeyOf(a))
<1>1. Sound(stash[KeyOf(a)], KeyOf(a)) BY KeyIs DEF ValueInv, StashSound, ApprovalTypeOK
<1>2. Sound(Approved(ask[a].id, FALSE, NoPreview), KeyOf(a)) BY DEF Sound, Approved
<1> QED BY <1>1, <1>2 DEF Found

LEMMA DeliverSound ==
    ASSUME ApprovalTypeOK, RowInv, StashSound, WaitersSound, NEW k \in Key, NEW v \in Values,
           Sound(v, k), Deliver(k, v), row' = row, shape' = shape
    PROVE  StashSound' /\ WaitersSound'
<1>1. ApprovedStays BY DEF ApprovedStays
<1>2. \A u, l : Sound(u, l) => Sound(u, l)' BY <1>1, SoundStays
<1>3. \A l \in Key : stash'[l] = stash[l] \/ (l = k /\ stash'[l] = v)
  <2>1. stash' = stash \/ stash' = [stash EXCEPT ![k] = v] BY DEF Deliver
  <2> QED BY <2>1 DEF ApprovalTypeOK
<1>4. StashSound' BY <1>2, <1>3 DEF StashSound
<1>5. \A w \in Ask : waiter'[w].value = waiter[w].value \/ (KeyOf(w) = k /\ waiter'[w].value = v)
  <2>1. \/ waiter' = waiter
        \/ /\ waiters[k] # NoAsk
           /\ waiter' = [waiter EXCEPT ![waiters[k]] = [done |-> TRUE, value |-> v]]
    BY DEF Deliver
  <2>2. waiters[k] # NoAsk => KeyOf(waiters[k]) = k BY DEF ApprovalTypeOK, RowInv
  <2> QED BY <2>1, <2>2 DEF ApprovalTypeOK
<1>6. \A w \in Ask : KeyOf(w)' = KeyOf(w) BY DEF KeyOf
<1> QED BY <1>2, <1>4, <1>5, <1>6 DEF WaitersSound

LEMMA BeginValue == ASSUME ApprovalTypeOK, RowInv, ValueInv, NEW a \in Ask, Begin(a) PROVE ValueInv'
<1> USE DEF ApprovalTypeOK
<1>1. ApprovedStays
  BY DEF Begin, ApprovedStays
<1>2. StashSound'
  <2>1. \A k \in Key : stash'[k] = stash[k] \/ ~stash'[k].yes
    BY Consts DEF Begin
  <2> QED BY <1>1, <2>1, StashStays DEF ValueInv
<1>3. WaitersSound'
  <2>1. \A w \in Ask : waiter'[w].value = waiter[w].value \/ ~waiter'[w].value.yes
    BY Consts DEF Begin
  <2> QED BY <1>1, <2>1, WaitersStay DEF ValueInv
<1>4. AsksSound'
  <2>1. \A b \in Ask : ask'[b].got = ask[b].got \/ ~ask'[b].got.yes
    BY Consts DEF Begin, AskLocals
  <2> QED BY <1>1, <2>1, AsksStay DEF ValueInv
<1>5. HandsSound'
  <2>1. \A g \in Handler : hand'[g] = hand[g] \/ hand'[g].pc \notin {"deciding", "releasing"} \/ ~hand'[g].verdict.yes
    BY Consts DEF Begin
  <2> QED BY <1>1, <2>1, HandsStay DEF ValueInv
<1> QED BY <1>2, <1>3, <1>4, <1>5 DEF ValueInv

LEMMA OpenRowValue == ASSUME ApprovalTypeOK, RowInv, ValueInv, NEW a \in Ask, OpenRow(a) PROVE ValueInv'
<1> USE DEF ApprovalTypeOK
<1>1. ApprovedStays
  BY DEF OpenRow, RowInv, AskHasRow, ApprovedStays
<1>2. StashSound'
  <2>1. \A k \in Key : stash'[k] = stash[k] \/ ~stash'[k].yes
    BY Consts DEF OpenRow
  <2> QED BY <1>1, <2>1, StashStays DEF ValueInv
<1>3. WaitersSound'
  <2>1. \A w \in Ask : waiter'[w].value = waiter[w].value \/ ~waiter'[w].value.yes
    BY Consts DEF OpenRow
  <2> QED BY <1>1, <2>1, WaitersStay DEF ValueInv
<1>4. AsksSound'
  <2>1. \A b \in Ask : ask'[b].got = ask[b].got \/ ~ask'[b].got.yes
    BY Consts DEF OpenRow, AskLocals
  <2> QED BY <1>1, <2>1, AsksStay DEF ValueInv
<1>5. HandsSound'
  <2>1. \A g \in Handler : hand'[g] = hand[g] \/ hand'[g].pc \notin {"deciding", "releasing"} \/ ~hand'[g].verdict.yes
    BY Consts DEF OpenRow
  <2> QED BY <1>1, <2>1, HandsStay DEF ValueInv
<1> QED BY <1>2, <1>3, <1>4, <1>5 DEF ValueInv

LEMMA OpenRefusedValue == ASSUME ApprovalTypeOK, RowInv, ValueInv, NEW a \in Ask, OpenRefused(a) PROVE ValueInv'
<1> USE DEF ApprovalTypeOK
<1>1. ApprovedStays
  BY DEF OpenRefused, ApprovedStays
<1>2. StashSound'
  <2>1. \A k \in Key : stash'[k] = stash[k] \/ ~stash'[k].yes
    BY Consts DEF OpenRefused
  <2> QED BY <1>1, <2>1, StashStays DEF ValueInv
<1>3. WaitersSound'
  <2>1. \A w \in Ask : waiter'[w].value = waiter[w].value \/ ~waiter'[w].value.yes
    BY Consts DEF OpenRefused
  <2> QED BY <1>1, <2>1, WaitersStay DEF ValueInv
<1>4. AsksSound'
  <2>1. \A b \in Ask : ask'[b].got = ask[b].got \/ ~ask'[b].got.yes
    BY Consts DEF OpenRefused, AskLocals
  <2> QED BY <1>1, <2>1, AsksStay DEF ValueInv
<1>5. HandsSound'
  <2>1. \A g \in Handler : hand'[g] = hand[g] \/ hand'[g].pc \notin {"deciding", "releasing"} \/ ~hand'[g].verdict.yes
    BY Consts DEF OpenRefused
  <2> QED BY <1>1, <2>1, HandsStay DEF ValueInv
<1> QED BY <1>2, <1>3, <1>4, <1>5 DEF ValueInv

LEMMA RegisterValue == ASSUME ApprovalTypeOK, RowInv, ValueInv, NEW a \in Ask, Register(a) PROVE ValueInv'
<1> USE DEF ApprovalTypeOK
<1>1. ApprovedStays
  BY DEF Register, ApprovedStays
<1>2. StashSound'
  <2>1. \A k \in Key : stash'[k] = stash[k] \/ ~stash'[k].yes
    BY Consts DEF Register
  <2> QED BY <1>1, <2>1, StashStays DEF ValueInv
<1>3. WaitersSound'
  <2>1. \A w \in Ask : waiter'[w].value = waiter[w].value \/ ~waiter'[w].value.yes
    BY Consts DEF Register
  <2> QED BY <1>1, <2>1, WaitersStay DEF ValueInv
<1>4. AsksSound'
  <2>1. \A b \in Ask : ask'[b].got = ask[b].got \/ ~ask'[b].got.yes
    BY Consts DEF Register, AskLocals
  <2> QED BY <1>1, <2>1, AsksStay DEF ValueInv
<1>5. HandsSound'
  <2>1. \A g \in Handler : hand'[g] = hand[g] \/ hand'[g].pc \notin {"deciding", "releasing"} \/ ~hand'[g].verdict.yes
    BY Consts DEF Register
  <2> QED BY <1>1, <2>1, HandsStay DEF ValueInv
<1> QED BY <1>2, <1>3, <1>4, <1>5 DEF ValueInv

LEMMA BindValue == ASSUME ApprovalTypeOK, RowInv, ValueInv, NEW a \in Ask, Bind(a) PROVE ValueInv'
<1> USE DEF ApprovalTypeOK
<1>1. ApprovedStays
  BY DEF Bind, ApprovedStays
<1>2. StashSound'
  <2>1. \A k \in Key : stash'[k] = stash[k] \/ ~stash'[k].yes
    BY Consts DEF Bind
  <2> QED BY <1>1, <2>1, StashStays DEF ValueInv
<1>3. WaitersSound'
  <2>1. \A w \in Ask : waiter'[w].value = waiter[w].value \/ ~waiter'[w].value.yes
    BY Consts DEF Bind
  <2> QED BY <1>1, <2>1, WaitersStay DEF ValueInv
<1>4. AsksSound'
  <2>1. \A b \in Ask : ask'[b].got = ask[b].got \/ ~ask'[b].got.yes
    BY Consts DEF Bind, AskLocals
  <2> QED BY <1>1, <2>1, AsksStay DEF ValueInv
<1>5. HandsSound'
  <2>1. \A g \in Handler : hand'[g] = hand[g] \/ hand'[g].pc \notin {"deciding", "releasing"} \/ ~hand'[g].verdict.yes
    BY Consts DEF Bind
  <2> QED BY <1>1, <2>1, HandsStay DEF ValueInv
<1> QED BY <1>2, <1>3, <1>4, <1>5 DEF ValueInv

LEMMA RecheckValue == ASSUME ApprovalTypeOK, RowInv, ValueInv, NEW a \in Ask, Recheck(a) PROVE ValueInv'
<1> USE DEF ApprovalTypeOK
<1>1. ApprovedStays
  BY DEF Recheck, ApprovedStays
<1>2. StashSound'
  <2>1. \A k \in Key : stash'[k] = stash[k] \/ ~stash'[k].yes
    BY Consts DEF Recheck
  <2> QED BY <1>1, <2>1, StashStays DEF ValueInv
<1>3. WaitersSound'
  <2>1. KeyOf(ask[a].waits) = KeyOf(a) /\ ask[a].waits \in Ask BY DEF Recheck, RowInv, AskHasRow
  <2>2. ask[a].id \in Ask /\ KeyOf(ask[a].id) = KeyOf(a) BY AskedRow DEF Recheck
  <2>3. \A w \in Ask : \/ waiter'[w].value = waiter[w].value \/ ~waiter'[w].value.yes
                        \/ /\ w = ask[a].waits /\ waiter'[w].value = Found(a)
                           /\ row[ask[a].id].state = "approved"
    BY <2>1, Consts DEF Recheck
  <2>4. \A w \in Ask : Sound(waiter'[w].value, KeyOf(w))
    BY <2>1, <2>2, <2>3, StashedIs, RefusalIsSound DEF ValueInv, WaitersSound
  <2>5. \A w \in Ask : KeyOf(w)' = KeyOf(w) BY DEF KeyOf, Recheck
  <2>6. \A u, l : Sound(u, l) => Sound(u, l)' BY <1>1, SoundStays
  <2> QED BY <2>4, <2>5, <2>6 DEF WaitersSound
<1>4. AsksSound'
  <2>1. \A b \in Ask : ask'[b].got = ask[b].got \/ ~ask'[b].got.yes
    BY Consts DEF Recheck, AskLocals
  <2> QED BY <1>1, <2>1, AsksStay DEF ValueInv
<1>5. HandsSound'
  <2>1. \A g \in Handler : hand'[g] = hand[g] \/ hand'[g].pc \notin {"deciding", "releasing"} \/ ~hand'[g].verdict.yes
    BY Consts DEF Recheck
  <2> QED BY <1>1, <2>1, HandsStay DEF ValueInv
<1> QED BY <1>2, <1>3, <1>4, <1>5 DEF ValueInv

LEMMA WakeValue == ASSUME ApprovalTypeOK, RowInv, ValueInv, NEW a \in Ask, Wake(a) PROVE ValueInv'
<1> USE DEF ApprovalTypeOK
<1>1. ApprovedStays
  BY DEF Wake, ApprovedStays
<1>2. StashSound'
  <2>1. \A k \in Key : stash'[k] = stash[k] \/ ~stash'[k].yes
    BY Consts DEF Wake
  <2> QED BY <1>1, <2>1, StashStays DEF ValueInv
<1>3. WaitersSound'
  <2>1. \A w \in Ask : waiter'[w].value = waiter[w].value \/ ~waiter'[w].value.yes
    BY Consts DEF Wake
  <2> QED BY <1>1, <2>1, WaitersStay DEF ValueInv
<1>4. AsksSound'
  <2>1. KeyOf(ask[a].waits) = KeyOf(a) /\ ask[a].waits \in Ask BY DEF Wake, RowInv, AskHasRow
  <2>2. \A b \in Ask : ask'[b].got = ask[b].got \/ (b = a /\ ask'[b].got = waiter[ask[a].waits].value)
    BY GotIs DEF Wake
  <2>3. \A b \in Ask : Sound(ask'[b].got, KeyOf(b))
    BY <2>1, <2>2 DEF ValueInv, WaitersSound, AsksSound
  <2>4. \A b \in Ask : KeyOf(b)' = KeyOf(b) BY DEF KeyOf, Wake
  <2>5. \A u, l : Sound(u, l) => Sound(u, l)' BY <1>1, SoundStays
  <2> QED BY <2>3, <2>4, <2>5 DEF AsksSound
<1>5. HandsSound'
  <2>1. \A g \in Handler : hand'[g] = hand[g] \/ hand'[g].pc \notin {"deciding", "releasing"} \/ ~hand'[g].verdict.yes
    BY Consts DEF Wake
  <2> QED BY <1>1, <2>1, HandsStay DEF ValueInv
<1> QED BY <1>2, <1>3, <1>4, <1>5 DEF ValueInv

LEMMA ExpireValue == ASSUME ApprovalTypeOK, RowInv, ValueInv, NEW a \in Ask, Expire(a) PROVE ValueInv'
<1> USE DEF ApprovalTypeOK
<1>1. ApprovedStays
  BY DEF Expire, ApprovedStays
<1>2. StashSound'
  <2>1. \A k \in Key : stash'[k] = stash[k] \/ ~stash'[k].yes
    BY Consts DEF Expire
  <2> QED BY <1>1, <2>1, StashStays DEF ValueInv
<1>3. WaitersSound'
  <2>1. \A w \in Ask : waiter'[w].value = waiter[w].value \/ ~waiter'[w].value.yes
    BY Consts DEF Expire
  <2> QED BY <1>1, <2>1, WaitersStay DEF ValueInv
<1>4. AsksSound'
  <2>1. \A b \in Ask : ask'[b].got = ask[b].got \/ ~ask'[b].got.yes
    BY Consts DEF Expire, AskLocals
  <2> QED BY <1>1, <2>1, AsksStay DEF ValueInv
<1>5. HandsSound'
  <2>1. \A g \in Handler : hand'[g] = hand[g] \/ hand'[g].pc \notin {"deciding", "releasing"} \/ ~hand'[g].verdict.yes
    BY Consts DEF Expire
  <2> QED BY <1>1, <2>1, HandsStay DEF ValueInv
<1> QED BY <1>2, <1>3, <1>4, <1>5 DEF ValueInv

LEMMA TimeOutValue == ASSUME ApprovalTypeOK, RowInv, ValueInv, NEW a \in Ask, TimeOut(a) PROVE ValueInv'
<1> USE DEF ApprovalTypeOK
<1>1. ApprovedStays
  BY TimeOutStays DEF RowsStay, TimeOut, ApprovedStays
<1>2. StashSound'
  <2>1. \A k \in Key : stash'[k] = stash[k] \/ ~stash'[k].yes
    BY Consts DEF TimeOut
  <2> QED BY <1>1, <2>1, StashStays DEF ValueInv
<1>3. WaitersSound'
  <2>1. \A w \in Ask : waiter'[w].value = waiter[w].value \/ ~waiter'[w].value.yes
    BY Consts DEF TimeOut
  <2> QED BY <1>1, <2>1, WaitersStay DEF ValueInv
<1>4. AsksSound'
  <2>1. ask[a].id \in Ask /\ KeyOf(ask[a].id) = KeyOf(a) BY AskedRow DEF TimeOut
  <2>2. \A b \in Ask : \/ ask'[b].got = ask[b].got \/ ~ask'[b].got.yes
                        \/ (b = a /\ ask'[b].got = Found(a) /\ row[ask[a].id].state = "approved")
    <3>1. CASE ask' = [ask EXCEPT ![a].pc = "timedOut"] BY <3>1 DEF AskLocals
    <3>2. CASE Return(a, Found(a)) /\ row[ask[a].id].state = "approved" BY <3>2, GotIs
    <3>3. CASE Return(a, Denied) BY <3>3, GotIs, Consts
    <3> QED BY <3>1, <3>2, <3>3 DEF TimeOut
  <2>3. \A b \in Ask : Sound(ask'[b].got, KeyOf(b))
    BY <2>1, <2>2, StashedIs, RefusalIsSound DEF ValueInv, AsksSound
  <2>4. \A b \in Ask : KeyOf(b)' = KeyOf(b) BY DEF KeyOf, TimeOut
  <2>5. \A u, l : Sound(u, l) => Sound(u, l)' BY <1>1, SoundStays
  <2> QED BY <2>3, <2>4, <2>5 DEF AsksSound
<1>5. HandsSound'
  <2>1. \A g \in Handler : hand'[g] = hand[g] \/ hand'[g].pc \notin {"deciding", "releasing"} \/ ~hand'[g].verdict.yes
    BY Consts DEF TimeOut
  <2> QED BY <1>1, <2>1, HandsStay DEF ValueInv
<1> QED BY <1>2, <1>3, <1>4, <1>5 DEF ValueInv

LEMMA TimeOutFailsValue == ASSUME ApprovalTypeOK, RowInv, ValueInv, NEW a \in Ask, TimeOutFails(a) PROVE ValueInv'
<1> USE DEF ApprovalTypeOK
<1>1. ApprovedStays
  BY DEF TimeOutFails, ApprovedStays
<1>2. StashSound'
  <2>1. \A k \in Key : stash'[k] = stash[k] \/ ~stash'[k].yes
    BY Consts DEF TimeOutFails
  <2> QED BY <1>1, <2>1, StashStays DEF ValueInv
<1>3. WaitersSound'
  <2>1. \A w \in Ask : waiter'[w].value = waiter[w].value \/ ~waiter'[w].value.yes
    BY Consts DEF TimeOutFails
  <2> QED BY <1>1, <2>1, WaitersStay DEF ValueInv
<1>4. AsksSound'
  <2>1. \A b \in Ask : ask'[b].got = ask[b].got \/ ~ask'[b].got.yes
    BY Consts DEF TimeOutFails, Return, AskLocals
  <2> QED BY <1>1, <2>1, AsksStay DEF ValueInv
<1>5. HandsSound'
  <2>1. \A g \in Handler : hand'[g] = hand[g] \/ hand'[g].pc \notin {"deciding", "releasing"} \/ ~hand'[g].verdict.yes
    BY Consts DEF TimeOutFails
  <2> QED BY <1>1, <2>1, HandsStay DEF ValueInv
<1> QED BY <1>2, <1>3, <1>4, <1>5 DEF ValueInv

LEMMA TimeOutReleaseValue == ASSUME ApprovalTypeOK, RowInv, ValueInv, NEW a \in Ask, TimeOutRelease(a) PROVE ValueInv'
<1> USE DEF ApprovalTypeOK
<1>1. ApprovedStays
  BY DEF TimeOutRelease, ApprovedStays
<1>2. StashSound' /\ WaitersSound'
  <2>1. KeyOf(a) \in Key /\ Denied \in Values /\ Sound(Denied, KeyOf(a))
    BY KeyIs, RefusalIsSound, Consts
  <2> QED BY <2>1, DeliverSound DEF TimeOutRelease, ValueInv
<1>3. AsksSound'
  <2>1. \A b \in Ask : ask'[b].got = ask[b].got \/ ~ask'[b].got.yes
    BY Consts DEF TimeOutRelease, Return, AskLocals
  <2> QED BY <1>1, <2>1, AsksStay DEF ValueInv
<1>4. HandsSound'
  <2>1. \A g \in Handler : hand'[g] = hand[g] \/ hand'[g].pc \notin {"deciding", "releasing"} \/ ~hand'[g].verdict.yes
    BY Consts DEF TimeOutRelease
  <2> QED BY <1>1, <2>1, HandsStay DEF ValueInv
<1> QED BY <1>2, <1>3, <1>4 DEF ValueInv

LEMMA LeaveValue == ASSUME ApprovalTypeOK, RowInv, ValueInv, NEW a \in Ask, Leave(a) PROVE ValueInv'
<1> USE DEF ApprovalTypeOK
<1>1. ApprovedStays
  BY DEF Leave, ApprovedStays
<1>2. StashSound'
  <2>1. \A k \in Key : stash'[k] = stash[k] \/ ~stash'[k].yes
    BY Consts DEF Leave
  <2> QED BY <1>1, <2>1, StashStays DEF ValueInv
<1>3. WaitersSound'
  <2>1. \A w \in Ask : waiter'[w].value = waiter[w].value \/ ~waiter'[w].value.yes
    BY Consts DEF Leave
  <2> QED BY <1>1, <2>1, WaitersStay DEF ValueInv
<1>4. AsksSound'
  <2>1. \A b \in Ask : ask'[b].got = ask[b].got \/ ~ask'[b].got.yes
    BY Consts DEF Leave, AskLocals, IdleAsk
  <2> QED BY <1>1, <2>1, AsksStay DEF ValueInv
<1>5. HandsSound'
  <2>1. \A g \in Handler : hand'[g] = hand[g] \/ hand'[g].pc \notin {"deciding", "releasing"} \/ ~hand'[g].verdict.yes
    BY Consts DEF Leave
  <2> QED BY <1>1, <2>1, HandsStay DEF ValueInv
<1> QED BY <1>2, <1>3, <1>4, <1>5 DEF ValueInv

LEMMA ReceiveValue == ASSUME ApprovalTypeOK, RowInv, ValueInv, NEW h \in Handler, NEW a \in Ask, Receive(h, a) PROVE ValueInv'
<1> USE DEF ApprovalTypeOK
<1>1. ApprovedStays
  BY DEF Receive, ApprovedStays
<1>2. StashSound'
  <2>1. \A k \in Key : stash'[k] = stash[k] \/ ~stash'[k].yes
    BY Consts DEF Receive
  <2> QED BY <1>1, <2>1, StashStays DEF ValueInv
<1>3. WaitersSound'
  <2>1. \A w \in Ask : waiter'[w].value = waiter[w].value \/ ~waiter'[w].value.yes
    BY Consts DEF Receive
  <2> QED BY <1>1, <2>1, WaitersStay DEF ValueInv
<1>4. AsksSound'
  <2>1. \A b \in Ask : ask'[b].got = ask[b].got \/ ~ask'[b].got.yes
    BY Consts DEF Receive
  <2> QED BY <1>1, <2>1, AsksStay DEF ValueInv
<1>5. HandsSound'
  <2>1. ASSUME NEW g \in Handler PROVE HandSound(g)'
    <3>1. CASE g # h 
      <4>1. hand'[g] = hand[g] BY <3>1 DEF Receive
      <4> QED BY <4>1, <1>1, HandStays DEF ValueInv, HandsSound
    <3>2. CASE g = h
      <4>1. \/ ~hand'[h].verdict.yes
            \/ /\ ~Negotiated(a) /\ hand'[h].id = a /\ hand'[h].pc = "deciding"
               /\ hand'[h].verdict.of = a
        BY Consts DEF Receive, Approved
      <4>2. Negotiated(a)' = Negotiated(a) BY DEF Receive, Negotiated
      <4> QED BY <3>2, <4>1, <4>2, RefusalIsSound DEF HandSound
    <3> QED BY <3>1, <3>2
  <2> QED BY <2>1 DEF HandsSound
<1> QED BY <1>2, <1>3, <1>4, <1>5 DEF ValueInv

LEMMA ValidateValue == ASSUME ApprovalTypeOK, RowInv, ValueInv, NEW h \in Handler, Validate(h) PROVE ValueInv'
<1> USE DEF ApprovalTypeOK
<1>1. ApprovedStays
  BY DEF Validate, ApprovedStays
<1>2. StashSound'
  <2>1. \A k \in Key : stash'[k] = stash[k] \/ ~stash'[k].yes
    BY Consts DEF Validate
  <2> QED BY <1>1, <2>1, StashStays DEF ValueInv
<1>3. WaitersSound'
  <2>1. \A w \in Ask : waiter'[w].value = waiter[w].value \/ ~waiter'[w].value.yes
    BY Consts DEF Validate
  <2> QED BY <1>1, <2>1, WaitersStay DEF ValueInv
<1>4. AsksSound'
  <2>1. \A b \in Ask : ask'[b].got = ask[b].got \/ ~ask'[b].got.yes
    BY Consts DEF Validate
  <2> QED BY <1>1, <2>1, AsksStay DEF ValueInv
<1>5. HandsSound'
  <2>1. ASSUME NEW g \in Handler PROVE HandSound(g)'
    <3>1. CASE g # h
      <4>1. hand'[g] = hand[g] BY <3>1 DEF Validate, Verdict
      <4> QED BY <4>1, <1>1, HandStays DEF ValueInv, HandsSound
    <3>2. CASE g = h
      <4> DEFINE i == hand[h].id
                 p == Adopted(i, hand[h].seen)
      <4>1. i \in Ask /\ p \in Previews BY HeldRow, AdoptedIs DEF Validate
      <4>2. Preview(p.rev, p.base) = p BY <4>1 DEF Preview, Previews
      <4>3. \/ hand'[h].pc = "refreshing" \/ ~hand'[h].verdict.yes
            \/ /\ hand'[h].id = i /\ hand'[h].pc = "deciding" /\ hand'[h].verdict = Approved(i, TRUE, p)
               /\ hand'[h].seen = p
        <5>1. CASE hand' = [hand EXCEPT ![h].pc = "deciding", ![h].verdict = Denied]
          BY <5>1, Consts DEF HandLocals
        <5> HIDE DEF p
        <5>2. CASE p = hand[h].seen /\ hand' = [hand EXCEPT ![h].pc = "deciding", ![h].verdict = Approved(i, TRUE, p)]
          BY <5>2, <4>1 DEF HandLocals
        <5>3. CASE hand' = [hand EXCEPT ![h].pc = "refreshing", ![h].seen = Preview(p.rev + 1, file)]
          BY <5>3, <4>1 DEF HandLocals
        <5> QED BY <5>1, <5>2, <5>3 DEF Validate, Verdict, p
      <4> HIDE DEF p
      <4>4. hand'[h].verdict = Approved(i, TRUE, p) =>
               hand'[h].verdict.of = i /\ Preview(hand'[h].verdict.rev, hand'[h].verdict.base) = p
        BY <4>2 DEF Approved
      <4> QED BY <3>2, <4>3, <4>4, RefusalIsSound DEF HandSound
    <3> QED BY <3>1, <3>2
  <2> QED BY <2>1 DEF HandsSound
<1> QED BY <1>2, <1>3, <1>4, <1>5 DEF ValueInv

LEMMA RefreshValue == ASSUME ApprovalTypeOK, RowInv, ValueInv, NEW h \in Handler, Refresh(h) PROVE ValueInv'
<1> USE DEF ApprovalTypeOK
<1>1. ApprovedStays
  BY RefreshStays DEF RowsStay, Refresh, ApprovedStays
<1>2. StashSound'
  <2>1. \A k \in Key : stash'[k] = stash[k] \/ ~stash'[k].yes
    BY Consts DEF Refresh
  <2> QED BY <1>1, <2>1, StashStays DEF ValueInv
<1>3. WaitersSound'
  <2>1. \A w \in Ask : waiter'[w].value = waiter[w].value \/ ~waiter'[w].value.yes
    BY Consts DEF Refresh
  <2> QED BY <1>1, <2>1, WaitersStay DEF ValueInv
<1>4. AsksSound'
  <2>1. \A b \in Ask : ask'[b].got = ask[b].got \/ ~ask'[b].got.yes
    BY Consts DEF Refresh
  <2> QED BY <1>1, <2>1, AsksStay DEF ValueInv
<1>5. HandsSound'
  <2>1. \A g \in Handler : hand'[g] = hand[g] \/ hand'[g].pc \notin {"deciding", "releasing"} \/ ~hand'[g].verdict.yes
    BY Consts DEF Refresh, IdleHand, HandLocals
  <2> QED BY <1>1, <2>1, HandsStay DEF ValueInv
<1> QED BY <1>2, <1>3, <1>4, <1>5 DEF ValueInv

LEMMA CommitRefreshValue == ASSUME ApprovalTypeOK, RowInv, ValueInv, NEW h \in Handler, CommitRefresh(h) PROVE ValueInv'
<1> USE DEF ApprovalTypeOK
<1>1. ApprovedStays
  BY DEF CommitRefresh, ApprovedStays
<1>2. StashSound'
  <2>1. \A k \in Key : stash'[k] = stash[k] \/ ~stash'[k].yes
    BY Consts DEF CommitRefresh
  <2> QED BY <1>1, <2>1, StashStays DEF ValueInv
<1>3. WaitersSound'
  <2>1. \A w \in Ask : waiter'[w].value = waiter[w].value \/ ~waiter'[w].value.yes
    BY Consts DEF CommitRefresh
  <2> QED BY <1>1, <2>1, WaitersStay DEF ValueInv
<1>4. AsksSound'
  <2>1. \A b \in Ask : ask'[b].got = ask[b].got \/ ~ask'[b].got.yes
    BY Consts DEF CommitRefresh
  <2> QED BY <1>1, <2>1, AsksStay DEF ValueInv
<1>5. HandsSound'
  <2>1. \A g \in Handler : hand'[g] = hand[g] \/ hand'[g].pc \notin {"deciding", "releasing"} \/ ~hand'[g].verdict.yes
    BY Consts DEF CommitRefresh, IdleHand
  <2> QED BY <1>1, <2>1, HandsStay DEF ValueInv
<1> QED BY <1>2, <1>3, <1>4, <1>5 DEF ValueInv

LEMMA DecideValue == ASSUME ApprovalTypeOK, RowInv, ValueInv, NEW h \in Handler, Decide(h) PROVE ValueInv'
<1> USE DEF ApprovalTypeOK
<1>1. ApprovedStays
  BY DecideStays DEF RowsStay, Decide, ApprovedStays
<1>2. StashSound'
  <2>1. \A k \in Key : stash'[k] = stash[k] \/ ~stash'[k].yes
    BY Consts DEF Decide
  <2> QED BY <1>1, <2>1, StashStays DEF ValueInv
<1>3. WaitersSound'
  <2>1. \A w \in Ask : waiter'[w].value = waiter[w].value \/ ~waiter'[w].value.yes
    BY Consts DEF Decide
  <2> QED BY <1>1, <2>1, WaitersStay DEF ValueInv
<1>4. AsksSound'
  <2>1. \A b \in Ask : ask'[b].got = ask[b].got \/ ~ask'[b].got.yes
    BY Consts DEF Decide
  <2> QED BY <1>1, <2>1, AsksStay DEF ValueInv
<1>5. HandsSound'
  <2>1. ASSUME NEW g \in Handler PROVE HandSound(g)'
    <3>1. CASE g # h
      <4>1. hand'[g] = hand[g] BY <3>1 DEF Decide
      <4> QED BY <4>1, <1>1, HandStays DEF ValueInv, HandsSound
    <3>2. CASE g = h
      <4> DEFINE i == hand[h].id
                 v == hand[h].verdict
      <4>1. i \in Ask /\ hand[h].seen \in Previews BY HeldRow DEF Decide
      <4>2. CASE hand' = [hand EXCEPT ![h] = IdleHand] BY <3>2, <4>2 DEF HandSound, IdleHand
      <4>3. CASE ~v.yes /\ hand' = [hand EXCEPT ![h].pc = "releasing"]
        <5>1. hand'[h].verdict = v BY <4>3 DEF HandLocals
        <5> QED BY <3>2, <4>3, <5>1, RefusalIsSound DEF HandSound
      <4>4. CASE /\ v.yes /\ row[i].state = "open" /\ (Negotiated(i) => hand[h].seen = Body(i))
                 /\ row' = [row EXCEPT ![i].state = "approved"]
                 /\ hand' = [hand EXCEPT ![h].pc = "releasing"]
        <5>1. hand'[h].verdict = v /\ hand'[h].id = i /\ hand'[h].pc = "releasing"
          BY <4>4 DEF HandLocals
        <5>2. row'[i].state = "approved" /\ Body(i)' = Body(i) BY <4>1, <4>4 DEF Rows, Body
        <5>3. /\ v.of = i
              /\ v.rich /\ Negotiated(i) => Preview(v.rev, v.base) = hand[h].seen
          BY <4>4 DEF ValueInv, HandsSound, HandSound, Decide
        <5>4. \A j : KeyOf(j)' = KeyOf(j) /\ Negotiated(j)' = Negotiated(j) BY DEF KeyOf, Negotiated, Decide
        <5> QED BY <3>2, <4>1, <4>4, <5>1, <5>2, <5>3, <5>4 DEF HandSound, Sound, Preview
      <4> QED BY <4>2, <4>3, <4>4 DEF Decide, Decidable
    <3> QED BY <3>1, <3>2
  <2> QED BY <2>1 DEF HandsSound
<1> QED BY <1>2, <1>3, <1>4, <1>5 DEF ValueInv

LEMMA ReleaseValue == ASSUME ApprovalTypeOK, RowInv, ValueInv, NEW h \in Handler, Release(h) PROVE ValueInv'
<1> USE DEF ApprovalTypeOK
<1>1. ApprovedStays
  BY DEF Release, ApprovedStays
<1>2. StashSound' /\ WaitersSound'
  <2>1. KeyOf(hand[h].id) \in Key /\ hand[h].verdict \in Values /\ Sound(hand[h].verdict, KeyOf(hand[h].id))
    BY HeldRow, KeyIs DEF ValueInv, HandsSound, HandSound, Release
  <2> QED BY <2>1, DeliverSound DEF Release, ValueInv
<1>3. AsksSound'
  <2>1. \A b \in Ask : ask'[b].got = ask[b].got \/ ~ask'[b].got.yes
    BY Consts DEF Release
  <2> QED BY <1>1, <2>1, AsksStay DEF ValueInv
<1>4. HandsSound'
  <2>1. \A g \in Handler : hand'[g] = hand[g] \/ hand'[g].pc \notin {"deciding", "releasing"} \/ ~hand'[g].verdict.yes
    BY Consts DEF Release, IdleHand
  <2> QED BY <1>1, <2>1, HandsStay DEF ValueInv
<1> QED BY <1>2, <1>3, <1>4 DEF ValueInv

LEMMA TurnFinallyValue == ASSUME ApprovalTypeOK, RowInv, ValueInv, NEW r \in Run, TurnFinally(r) PROVE ValueInv'
<1> USE DEF ApprovalTypeOK
<1>1. ApprovedStays
  BY DEF TurnFinally, ApprovedStays
<1>2. StashSound'
  <2>1. \A k \in Key : stash'[k] = stash[k] \/ ~stash'[k].yes
    BY Consts DEF TurnFinally, DiscardRun
  <2> QED BY <1>1, <2>1, StashStays DEF ValueInv
<1>3. WaitersSound'
  <2>1. \A w \in Ask : waiter'[w].value = waiter[w].value \/ ~waiter'[w].value.yes
    BY Consts DEF TurnFinally
  <2> QED BY <1>1, <2>1, WaitersStay DEF ValueInv
<1>4. AsksSound'
  <2>1. \A b \in Ask : ask'[b].got = ask[b].got \/ ~ask'[b].got.yes
    BY Consts DEF TurnFinally
  <2> QED BY <1>1, <2>1, AsksStay DEF ValueInv
<1>5. HandsSound'
  <2>1. \A g \in Handler : hand'[g] = hand[g] \/ hand'[g].pc \notin {"deciding", "releasing"} \/ ~hand'[g].verdict.yes
    BY Consts DEF TurnFinally
  <2> QED BY <1>1, <2>1, HandsStay DEF ValueInv
<1> QED BY <1>2, <1>3, <1>4, <1>5 DEF ValueInv

LEMMA FinalizeValue == ASSUME ApprovalTypeOK, RowInv, ValueInv, NEW r \in Run, Finalize(r) PROVE ValueInv'
<1> USE DEF ApprovalTypeOK
<1>1. ApprovedStays
  BY DEF Finalize, ApprovedStays
<1>2. StashSound'
  <2>1. \A k \in Key : stash'[k] = stash[k] \/ ~stash'[k].yes
    BY Consts DEF Finalize, DiscardRun
  <2> QED BY <1>1, <2>1, StashStays DEF ValueInv
<1>3. WaitersSound'
  <2>1. \A w \in Ask : waiter'[w].value = waiter[w].value \/ ~waiter'[w].value.yes
    BY Consts DEF Finalize
  <2> QED BY <1>1, <2>1, WaitersStay DEF ValueInv
<1>4. AsksSound'
  <2>1. \A b \in Ask : ask'[b].got = ask[b].got \/ ~ask'[b].got.yes
    BY Consts DEF Finalize
  <2> QED BY <1>1, <2>1, AsksStay DEF ValueInv
<1>5. HandsSound'
  <2>1. \A g \in Handler : hand'[g] = hand[g] \/ hand'[g].pc \notin {"deciding", "releasing"} \/ ~hand'[g].verdict.yes
    BY Consts DEF Finalize
  <2> QED BY <1>1, <2>1, HandsStay DEF ValueInv
<1> QED BY <1>2, <1>3, <1>4, <1>5 DEF ValueInv

LEMMA DeregisterValue == ASSUME ApprovalTypeOK, RowInv, ValueInv, NEW r \in Run, Deregister(r) PROVE ValueInv'
<1> USE DEF ApprovalTypeOK
<1>1. ApprovedStays
  BY DEF Deregister, ApprovedStays
<1>2. StashSound'
  <2>1. \A k \in Key : stash'[k] = stash[k] \/ ~stash'[k].yes
    BY Consts DEF Deregister
  <2> QED BY <1>1, <2>1, StashStays DEF ValueInv
<1>3. WaitersSound'
  <2>1. \A w \in Ask : waiter'[w].value = waiter[w].value \/ ~waiter'[w].value.yes
    BY Consts DEF Deregister
  <2> QED BY <1>1, <2>1, WaitersStay DEF ValueInv
<1>4. AsksSound'
  <2>1. \A b \in Ask : ask'[b].got = ask[b].got \/ ~ask'[b].got.yes
    BY Consts DEF Deregister
  <2> QED BY <1>1, <2>1, AsksStay DEF ValueInv
<1>5. HandsSound'
  <2>1. \A g \in Handler : hand'[g] = hand[g] \/ hand'[g].pc \notin {"deciding", "releasing"} \/ ~hand'[g].verdict.yes
    BY Consts DEF Deregister
  <2> QED BY <1>1, <2>1, HandsStay DEF ValueInv
<1> QED BY <1>2, <1>3, <1>4, <1>5 DEF ValueInv

LEMMA ReadRowsValue == ASSUME ApprovalTypeOK, RowInv, ValueInv, NEW r \in Run, ReadRows(r) PROVE ValueInv'
<1> USE DEF ApprovalTypeOK
<1>1. ApprovedStays
  BY DEF ReadRows, ApprovedStays
<1>2. StashSound'
  <2>1. \A k \in Key : stash'[k] = stash[k] \/ ~stash'[k].yes
    BY Consts DEF ReadRows
  <2> QED BY <1>1, <2>1, StashStays DEF ValueInv
<1>3. WaitersSound'
  <2>1. \A w \in Ask : waiter'[w].value = waiter[w].value \/ ~waiter'[w].value.yes
    BY Consts DEF ReadRows
  <2> QED BY <1>1, <2>1, WaitersStay DEF ValueInv
<1>4. AsksSound'
  <2>1. \A b \in Ask : ask'[b].got = ask[b].got \/ ~ask'[b].got.yes
    BY Consts DEF ReadRows
  <2> QED BY <1>1, <2>1, AsksStay DEF ValueInv
<1>5. HandsSound'
  <2>1. \A g \in Handler : hand'[g] = hand[g] \/ hand'[g].pc \notin {"deciding", "releasing"} \/ ~hand'[g].verdict.yes
    BY Consts DEF ReadRows
  <2> QED BY <1>1, <2>1, HandsStay DEF ValueInv
<1> QED BY <1>2, <1>3, <1>4, <1>5 DEF ValueInv

LEMMA CloseOrphanValue == ASSUME ApprovalTypeOK, RowInv, ValueInv, NEW r \in Run, NEW a \in Ask, CloseOrphan(r, a) PROVE ValueInv'
<1> USE DEF ApprovalTypeOK
<1>1. ApprovedStays
  BY CloseOrphanStays DEF RowsStay, CloseOrphan, ApprovedStays
<1>2. StashSound'
  <2>1. \A k \in Key : stash'[k] = stash[k] \/ ~stash'[k].yes
    BY Consts DEF CloseOrphan
  <2> QED BY <1>1, <2>1, StashStays DEF ValueInv
<1>3. WaitersSound'
  <2>1. \A w \in Ask : waiter'[w].value = waiter[w].value \/ ~waiter'[w].value.yes
    BY Consts DEF CloseOrphan
  <2> QED BY <1>1, <2>1, WaitersStay DEF ValueInv
<1>4. AsksSound'
  <2>1. \A b \in Ask : ask'[b].got = ask[b].got \/ ~ask'[b].got.yes
    BY Consts DEF CloseOrphan
  <2> QED BY <1>1, <2>1, AsksStay DEF ValueInv
<1>5. HandsSound'
  <2>1. \A g \in Handler : hand'[g] = hand[g] \/ hand'[g].pc \notin {"deciding", "releasing"} \/ ~hand'[g].verdict.yes
    BY Consts DEF CloseOrphan
  <2> QED BY <1>1, <2>1, HandsStay DEF ValueInv
<1> QED BY <1>2, <1>3, <1>4, <1>5 DEF ValueInv

LEMMA ReleaseOrphanValue == ASSUME ApprovalTypeOK, RowInv, ValueInv, NEW r \in Run, ReleaseOrphan(r) PROVE ValueInv'
<1> USE DEF ApprovalTypeOK
<1>1. ApprovedStays
  BY DEF ReleaseOrphan, ApprovedStays
<1>2. StashSound' /\ WaitersSound'
  <2>1. stash' = stash \/ \A l \in Key : stash'[l] = stash[l]
    BY Consts DEF ReleaseOrphan, Deliver
  <2>2. \A w \in Ask : waiter'[w].value = waiter[w].value \/ ~waiter'[w].value.yes
    BY Consts DEF ReleaseOrphan, Deliver
  <2> QED BY <1>1, <2>1, <2>2, StashStays, WaitersStay DEF ValueInv
<1>3. AsksSound'
  <2>1. \A b \in Ask : ask'[b].got = ask[b].got \/ ~ask'[b].got.yes
    BY Consts DEF ReleaseOrphan
  <2> QED BY <1>1, <2>1, AsksStay DEF ValueInv
<1>4. HandsSound'
  <2>1. \A g \in Handler : hand'[g] = hand[g] \/ hand'[g].pc \notin {"deciding", "releasing"} \/ ~hand'[g].verdict.yes
    BY Consts DEF ReleaseOrphan
  <2> QED BY <1>1, <2>1, HandsStay DEF ValueInv
<1> QED BY <1>2, <1>3, <1>4 DEF ValueInv

LEMMA EditValue == ASSUME ApprovalTypeOK, RowInv, ValueInv, Edit PROVE ValueInv'
<1> USE DEF ApprovalTypeOK
<1>1. ApprovedStays
  BY DEF Edit, ApprovedStays
<1>2. StashSound'
  <2>1. \A k \in Key : stash'[k] = stash[k] \/ ~stash'[k].yes
    BY Consts DEF Edit
  <2> QED BY <1>1, <2>1, StashStays DEF ValueInv
<1>3. WaitersSound'
  <2>1. \A w \in Ask : waiter'[w].value = waiter[w].value \/ ~waiter'[w].value.yes
    BY Consts DEF Edit
  <2> QED BY <1>1, <2>1, WaitersStay DEF ValueInv
<1>4. AsksSound'
  <2>1. \A b \in Ask : ask'[b].got = ask[b].got \/ ~ask'[b].got.yes
    BY Consts DEF Edit
  <2> QED BY <1>1, <2>1, AsksStay DEF ValueInv
<1>5. HandsSound'
  <2>1. \A g \in Handler : hand'[g] = hand[g] \/ hand'[g].pc \notin {"deciding", "releasing"} \/ ~hand'[g].verdict.yes
    BY Consts DEF Edit
  <2> QED BY <1>1, <2>1, HandsStay DEF ValueInv
<1> QED BY <1>2, <1>3, <1>4, <1>5 DEF ValueInv

LEMMA ValueInvNext == ASSUME ApprovalTypeOK, RowInv, ValueInv, Next \/ UNCHANGED vars PROVE ValueInv'
<1>1. CASE Next
  BY <1>1, BeginValue, OpenRowValue, OpenRefusedValue, RegisterValue, BindValue, RecheckValue,
     WakeValue, ExpireValue, TimeOutValue, TimeOutFailsValue, TimeOutReleaseValue, LeaveValue,
     ReceiveValue, ValidateValue, RefreshValue, CommitRefreshValue, DecideValue, ReleaseValue,
     TurnFinallyValue, FinalizeValue, DeregisterValue, ReadRowsValue, CloseOrphanValue,
     ReleaseOrphanValue, EditValue DEF Next, AskStep, HandStep, SweepStep
<1>2. CASE UNCHANGED vars BY <1>2, StashStays, WaitersStay, AsksStay, HandsStay DEF vars, ValueInv, ApprovedStays
<1> QED BY <1>1, <1>2

(***************************************************************************)
(* Previews: none is newer than its row.                                   *)
(***************************************************************************)
\* The body a row shows stays, or a newer revision takes its place.
BodyGrows(b) ==
    \/ row'[b].rev = row[b].rev /\ row'[b].base = row[b].base
    \/ row[b].rev < row'[b].rev

LEMMA FollowsStays ==
    ASSUME row \in [Ask -> Rows], row' \in [Ask -> Rows], NEW b \in Ask, BodyGrows(b),
           NEW p \in Previews, Follows(p, b)
    PROVE  Follows(p, b)'
BY DEF BodyGrows, Follows, Body, Preview, Rows, Previews

LEMMA BodyFollows ==
    ASSUME row \in [Ask -> Rows], NEW b \in Ask PROVE Follows(Body(b), b)
BY DEF Follows, Body, Preview, Rows

LEMMA PendingFollowsStill ==
    ASSUME ApprovalTypeOK, ApprovalTypeOK', PendingFollow,
           \A b \in Ask : \/ pending'[b] = NoPreview
                          \/ pending'[b] = pending[b] /\ BodyGrows(b)
    PROVE  PendingFollow'
BY FollowsStays DEF PendingFollow, ApprovalTypeOK

LEMMA HandsFollowStill ==
    ASSUME ApprovalTypeOK, ApprovalTypeOK', RowInv, HandsFollow,
           \A g \in Handler : \/ hand'[g].pc \notin {"validating", "committing"}
                              \/ /\ hand'[g] = hand[g] /\ (hand[g].id \in Ask => BodyGrows(hand[g].id))
    PROVE  HandsFollow'
<1> SUFFICES ASSUME NEW g \in Handler, hand'[g].pc \in {"validating", "committing"}
             PROVE  Follows(hand[g].seen, hand[g].id)'
  BY DEF HandsFollow
<1>1. hand'[g] = hand[g] /\ (hand[g].id \in Ask => BodyGrows(hand[g].id)) OBVIOUS
<1>2. hand[g].id \in Ask /\ hand[g].seen \in Previews BY <1>1, HeldRow
<1>3. Follows(hand[g].seen, hand[g].id) BY <1>1 DEF HandsFollow
<1>4. \A p \in Previews, b \in Ask : Follows(p, b) /\ BodyGrows(b) => Follows(p, b)'
  BY FollowsStays DEF ApprovalTypeOK
<1> QED BY <1>1, <1>2, <1>3, <1>4

\* No action but OpenRow and Refresh writes a body.
BodiesStay == \A b \in Ask : row'[b].rev = row[b].rev /\ row'[b].base = row[b].base

LEMMA BeginPreview == ASSUME ApprovalTypeOK, ApprovalTypeOK', RowInv, PreviewInv, NEW a \in Ask, Begin(a) PROVE PreviewInv'
<1>1. \A b \in Ask : BodyGrows(b)
  BY DEF Begin, BodyGrows
<1>2. PendingFollow'
  <2>1. \A b \in Ask : pending'[b] \in {pending[b], NoPreview}
    BY DEF Begin
  <2> QED BY <1>1, <2>1, PendingFollowsStill DEF PreviewInv
<1>3. HandsFollow'
  <2>1. \A g \in Handler : hand'[g] = hand[g] \/ hand'[g].pc \notin {"validating", "committing"}
    BY DEF Begin, ApprovalTypeOK
  <2> QED BY <1>1, <2>1, HandsFollowStill DEF PreviewInv
<1> QED BY <1>2, <1>3 DEF PreviewInv

LEMMA OpenRowPreview == ASSUME ApprovalTypeOK, ApprovalTypeOK', RowInv, PreviewInv, NEW a \in Ask, OpenRow(a) PROVE PreviewInv'
<1>1. \A b \in Ask : row[b].state # "none" => BodyGrows(b)
  BY DEF OpenRow, ApprovalTypeOK, Rows, BodyGrows, RowInv, AskHasRow
<1>2. PendingFollow'
  <2>1. \A b \in Ask : pending'[b] = pending[b] BY DEF OpenRow
  <2>2. \A b \in Ask : row[b].state = "none" => pending[b] = NoPreview BY DEF RowInv, AskHasRow
  <2> QED BY <1>1, <2>1, <2>2, PendingFollowsStill DEF PreviewInv
<1>3. HandsFollow'
  <2>1. \A g \in Handler : hand'[g] = hand[g] BY DEF OpenRow
  <2>2. \A g \in Handler : hand[g].pc # "idle" => row[hand[g].id].state # "none"
    BY DEF RowInv, HandHasRow
  <2> QED BY <1>1, <2>1, <2>2, HandsFollowStill DEF PreviewInv
<1> QED BY <1>2, <1>3 DEF PreviewInv

LEMMA OpenRefusedPreview == ASSUME ApprovalTypeOK, ApprovalTypeOK', RowInv, PreviewInv, NEW a \in Ask, OpenRefused(a) PROVE PreviewInv'
<1>1. \A b \in Ask : BodyGrows(b)
  BY DEF OpenRefused, BodyGrows
<1>2. PendingFollow'
  <2>1. \A b \in Ask : pending'[b] \in {pending[b], NoPreview}
    BY DEF OpenRefused
  <2> QED BY <1>1, <2>1, PendingFollowsStill DEF PreviewInv
<1>3. HandsFollow'
  <2>1. \A g \in Handler : hand'[g] = hand[g] \/ hand'[g].pc \notin {"validating", "committing"}
    BY DEF OpenRefused, ApprovalTypeOK
  <2> QED BY <1>1, <2>1, HandsFollowStill DEF PreviewInv
<1> QED BY <1>2, <1>3 DEF PreviewInv

LEMMA RegisterPreview == ASSUME ApprovalTypeOK, ApprovalTypeOK', RowInv, PreviewInv, NEW a \in Ask, Register(a) PROVE PreviewInv'
<1>1. \A b \in Ask : BodyGrows(b)
  BY DEF Register, BodyGrows
<1>2. PendingFollow'
  <2> DEFINE i == ask[a].id
  <2>1. i \in Ask BY AskedRow DEF Register
  <2>2. \A b \in Ask : \/ pending'[b] = pending[b] \/ (b = i /\ pending'[b] = Body(b))
    BY <2>1 DEF Register, ApprovalTypeOK
  <2>3. Follows(Body(i), i) BY <2>1, BodyFollows DEF ApprovalTypeOK
  <2>4. \A b \in Ask : pending'[b] # NoPreview => Follows(pending'[b], b)
    BY <2>2, <2>3 DEF PreviewInv, PendingFollow
  <2>5. \A p, b : Follows(p, b)' = Follows(p, b) BY DEF Follows, Body, Preview, Register
  <2> QED BY <2>4, <2>5 DEF PendingFollow
<1>3. HandsFollow'
  <2>1. \A g \in Handler : hand'[g] = hand[g] \/ hand'[g].pc \notin {"validating", "committing"}
    BY DEF Register, ApprovalTypeOK
  <2> QED BY <1>1, <2>1, HandsFollowStill DEF PreviewInv
<1> QED BY <1>2, <1>3 DEF PreviewInv

LEMMA BindPreview == ASSUME ApprovalTypeOK, ApprovalTypeOK', RowInv, PreviewInv, NEW a \in Ask, Bind(a) PROVE PreviewInv'
<1>1. \A b \in Ask : BodyGrows(b)
  BY DEF Bind, BodyGrows
<1>2. PendingFollow'
  <2>1. \A b \in Ask : pending'[b] \in {pending[b], NoPreview}
    BY DEF Bind
  <2> QED BY <1>1, <2>1, PendingFollowsStill DEF PreviewInv
<1>3. HandsFollow'
  <2>1. \A g \in Handler : hand'[g] = hand[g] \/ hand'[g].pc \notin {"validating", "committing"}
    BY DEF Bind, ApprovalTypeOK
  <2> QED BY <1>1, <2>1, HandsFollowStill DEF PreviewInv
<1> QED BY <1>2, <1>3 DEF PreviewInv

LEMMA RecheckPreview == ASSUME ApprovalTypeOK, ApprovalTypeOK', RowInv, PreviewInv, NEW a \in Ask, Recheck(a) PROVE PreviewInv'
<1>1. \A b \in Ask : BodyGrows(b)
  BY DEF Recheck, BodyGrows
<1>2. PendingFollow'
  <2>1. \A b \in Ask : pending'[b] \in {pending[b], NoPreview}
    BY DEF Recheck
  <2> QED BY <1>1, <2>1, PendingFollowsStill DEF PreviewInv
<1>3. HandsFollow'
  <2>1. \A g \in Handler : hand'[g] = hand[g] \/ hand'[g].pc \notin {"validating", "committing"}
    BY DEF Recheck, ApprovalTypeOK
  <2> QED BY <1>1, <2>1, HandsFollowStill DEF PreviewInv
<1> QED BY <1>2, <1>3 DEF PreviewInv

LEMMA WakePreview == ASSUME ApprovalTypeOK, ApprovalTypeOK', RowInv, PreviewInv, NEW a \in Ask, Wake(a) PROVE PreviewInv'
<1>1. \A b \in Ask : BodyGrows(b)
  BY DEF Wake, BodyGrows
<1>2. PendingFollow'
  <2>1. \A b \in Ask : pending'[b] \in {pending[b], NoPreview}
    BY DEF Wake
  <2> QED BY <1>1, <2>1, PendingFollowsStill DEF PreviewInv
<1>3. HandsFollow'
  <2>1. \A g \in Handler : hand'[g] = hand[g] \/ hand'[g].pc \notin {"validating", "committing"}
    BY DEF Wake, ApprovalTypeOK
  <2> QED BY <1>1, <2>1, HandsFollowStill DEF PreviewInv
<1> QED BY <1>2, <1>3 DEF PreviewInv

LEMMA ExpirePreview == ASSUME ApprovalTypeOK, ApprovalTypeOK', RowInv, PreviewInv, NEW a \in Ask, Expire(a) PROVE PreviewInv'
<1>1. \A b \in Ask : BodyGrows(b)
  BY DEF Expire, BodyGrows
<1>2. PendingFollow'
  <2>1. \A b \in Ask : pending'[b] \in {pending[b], NoPreview}
    BY DEF Expire
  <2> QED BY <1>1, <2>1, PendingFollowsStill DEF PreviewInv
<1>3. HandsFollow'
  <2>1. \A g \in Handler : hand'[g] = hand[g] \/ hand'[g].pc \notin {"validating", "committing"}
    BY DEF Expire, ApprovalTypeOK
  <2> QED BY <1>1, <2>1, HandsFollowStill DEF PreviewInv
<1> QED BY <1>2, <1>3 DEF PreviewInv

LEMMA TimeOutPreview == ASSUME ApprovalTypeOK, ApprovalTypeOK', RowInv, PreviewInv, NEW a \in Ask, TimeOut(a) PROVE PreviewInv'
<1>1. \A b \in Ask : BodyGrows(b)
  BY DEF TimeOut, ApprovalTypeOK, Rows, BodyGrows
<1>2. PendingFollow'
  <2>1. \A b \in Ask : pending'[b] \in {pending[b], NoPreview}
    BY DEF TimeOut
  <2> QED BY <1>1, <2>1, PendingFollowsStill DEF PreviewInv
<1>3. HandsFollow'
  <2>1. \A g \in Handler : hand'[g] = hand[g] \/ hand'[g].pc \notin {"validating", "committing"}
    BY DEF TimeOut, ApprovalTypeOK
  <2> QED BY <1>1, <2>1, HandsFollowStill DEF PreviewInv
<1> QED BY <1>2, <1>3 DEF PreviewInv

LEMMA TimeOutFailsPreview == ASSUME ApprovalTypeOK, ApprovalTypeOK', RowInv, PreviewInv, NEW a \in Ask, TimeOutFails(a) PROVE PreviewInv'
<1>1. \A b \in Ask : BodyGrows(b)
  BY DEF TimeOutFails, BodyGrows
<1>2. PendingFollow'
  <2>1. \A b \in Ask : pending'[b] \in {pending[b], NoPreview}
    BY DEF TimeOutFails
  <2> QED BY <1>1, <2>1, PendingFollowsStill DEF PreviewInv
<1>3. HandsFollow'
  <2>1. \A g \in Handler : hand'[g] = hand[g] \/ hand'[g].pc \notin {"validating", "committing"}
    BY DEF TimeOutFails, ApprovalTypeOK
  <2> QED BY <1>1, <2>1, HandsFollowStill DEF PreviewInv
<1> QED BY <1>2, <1>3 DEF PreviewInv

LEMMA TimeOutReleasePreview == ASSUME ApprovalTypeOK, ApprovalTypeOK', RowInv, PreviewInv, NEW a \in Ask, TimeOutRelease(a) PROVE PreviewInv'
<1>1. \A b \in Ask : BodyGrows(b)
  BY DEF TimeOutRelease, BodyGrows
<1>2. PendingFollow'
  <2>1. \A b \in Ask : pending'[b] \in {pending[b], NoPreview}
    BY DeliverKeeps DEF TimeOutRelease
  <2> QED BY <1>1, <2>1, PendingFollowsStill DEF PreviewInv
<1>3. HandsFollow'
  <2>1. \A g \in Handler : hand'[g] = hand[g] \/ hand'[g].pc \notin {"validating", "committing"}
    BY DEF TimeOutRelease, ApprovalTypeOK
  <2> QED BY <1>1, <2>1, HandsFollowStill DEF PreviewInv
<1> QED BY <1>2, <1>3 DEF PreviewInv

LEMMA LeavePreview == ASSUME ApprovalTypeOK, ApprovalTypeOK', RowInv, PreviewInv, NEW a \in Ask, Leave(a) PROVE PreviewInv'
<1>1. \A b \in Ask : BodyGrows(b)
  BY DEF Leave, BodyGrows
<1>2. PendingFollow'
  <2>1. \A b \in Ask : pending'[b] \in {pending[b], NoPreview}
    BY DEF Leave
  <2> QED BY <1>1, <2>1, PendingFollowsStill DEF PreviewInv
<1>3. HandsFollow'
  <2>1. \A g \in Handler : hand'[g] = hand[g] \/ hand'[g].pc \notin {"validating", "committing"}
    BY DEF Leave, ApprovalTypeOK
  <2> QED BY <1>1, <2>1, HandsFollowStill DEF PreviewInv
<1> QED BY <1>2, <1>3 DEF PreviewInv

LEMMA ReceivePreview == ASSUME ApprovalTypeOK, ApprovalTypeOK', RowInv, PreviewInv, NEW h \in Handler, NEW a \in Ask, Receive(h, a) PROVE PreviewInv'
<1>1. \A b \in Ask : BodyGrows(b)
  BY DEF Receive, BodyGrows
<1>2. PendingFollow'
  <2>1. \A b \in Ask : pending'[b] \in {pending[b], NoPreview}
    BY DEF Receive
  <2> QED BY <1>1, <2>1, PendingFollowsStill DEF PreviewInv
<1>3. HandsFollow'
  <2>1. \A g \in Handler : hand'[g] = hand[g] \/ (hand'[g].id = a /\ hand'[g].seen = Body(a))
    BY DEF Receive, ApprovalTypeOK
  <2>2. \A g \in Handler : hand'[g].pc \in {"validating", "committing"} =>
            Follows(hand'[g].seen, hand'[g].id)
    BY <2>1, BodyFollows DEF PreviewInv, HandsFollow, ApprovalTypeOK
  <2>3. \A p, b : Follows(p, b)' = Follows(p, b) BY DEF Follows, Body, Preview, Receive
  <2> QED BY <2>2, <2>3 DEF HandsFollow
<1> QED BY <1>2, <1>3 DEF PreviewInv

LEMMA ValidatePreview == ASSUME ApprovalTypeOK, ApprovalTypeOK', RowInv, PreviewInv, NEW h \in Handler, Validate(h) PROVE PreviewInv'
<1>1. \A b \in Ask : BodyGrows(b)
  BY DEF Validate, BodyGrows
<1>2. PendingFollow'
  <2> DEFINE i == hand[h].id
  <2>1. i \in Ask BY HeldRow DEF Validate
  <2>2. Follows(hand[h].seen, i) BY DEF Validate, PreviewInv, HandsFollow
  <2>3. \A b \in Ask : \/ pending'[b] = pending[b] \/ pending'[b] = NoPreview
                        \/ (b = i /\ pending'[b] = hand[h].seen)
    BY <2>1 DEF Validate, Adopted, ApprovalTypeOK
  <2>4. \A b \in Ask : pending'[b] # NoPreview => Follows(pending'[b], b)
    BY <2>2, <2>3 DEF PreviewInv, PendingFollow
  <2>5. \A p, b : Follows(p, b)' = Follows(p, b) BY DEF Follows, Body, Preview, Validate
  <2> QED BY <2>4, <2>5 DEF PendingFollow
<1>3. HandsFollow'
  <2>1. \A g \in Handler : hand'[g] = hand[g] \/ hand'[g].pc \notin {"validating", "committing"}
    <3>1. \/ \E v : hand' = [hand EXCEPT ![h].pc = "deciding", ![h].verdict = v]
          \/ \E p : hand' = [hand EXCEPT ![h].pc = "refreshing", ![h].seen = p]
      BY DEF Validate, Verdict
    <3> QED BY <3>1 DEF ApprovalTypeOK, HandLocals
  <2> QED BY <1>1, <2>1, HandsFollowStill DEF PreviewInv
<1> QED BY <1>2, <1>3 DEF PreviewInv

LEMMA RefreshPreview == ASSUME ApprovalTypeOK, ApprovalTypeOK', RowInv, PreviewInv, NEW h \in Handler, Refresh(h) PROVE PreviewInv'
<1>1. \A b \in Ask : BodyGrows(b)
  <2> DEFINE i == hand[h].id
             p == hand[h].seen
  <2>1. i \in Ask /\ p \in Previews BY HeldRow DEF Refresh
  <2>2. CASE row' = row BY <2>2 DEF BodyGrows
  <2>3. CASE Refreshable(i, p) /\ row' = [row EXCEPT ![i].rev = p.rev, ![i].base = p.base]
    <3>1. (p.rev = row[i].rev /\ p.base = row[i].base) \/ p.rev = row[i].rev + 1
      BY <2>3 DEF Refreshable, Body, Preview
    <3> HIDE DEF i, p
    <3>2. \A b \in Ask : b # i => row'[b] = row[b] BY <2>3 DEF ApprovalTypeOK
    <3>3. row'[i].rev = p.rev /\ row'[i].base = p.base BY <2>1, <2>3 DEF ApprovalTypeOK, Rows
    <3>4. row[i].rev \in Nat BY <2>1 DEF ApprovalTypeOK, Rows
    <3> QED BY <3>1, <3>2, <3>3, <3>4 DEF BodyGrows
  <2> QED BY <2>2, <2>3 DEF Refresh
<1>2. PendingFollow'
  <2>1. \A b \in Ask : pending'[b] \in {pending[b], NoPreview}
    BY DEF Refresh
  <2> QED BY <1>1, <2>1, PendingFollowsStill DEF PreviewInv
<1>3. HandsFollow'
  <2> DEFINE i == hand[h].id
             p == hand[h].seen
  <2> SUFFICES ASSUME NEW g \in Handler, hand'[g].pc \in {"validating", "committing"}
               PROVE  Follows(hand[g].seen, hand[g].id)'
    BY DEF HandsFollow
  <2>1. i \in Ask /\ p \in Previews BY HeldRow DEF Refresh
  <2>2. CASE g # h
    <3>1. hand'[g] = hand[g] BY <2>2 DEF Refresh, ApprovalTypeOK
    <3>2. hand[g].id \in Ask /\ hand[g].seen \in Previews BY <3>1, HeldRow
    <3>3. Follows(hand[g].seen, hand[g].id) BY <3>1 DEF PreviewInv, HandsFollow
    <3>4. \A q \in Previews, b \in Ask : Follows(q, b) /\ BodyGrows(b) => Follows(q, b)'
      BY FollowsStays DEF ApprovalTypeOK
    <3> QED BY <1>1, <3>1, <3>2, <3>3, <3>4
  <2>3. CASE g = h
    <3>1. hand'[h].pc # "idle" BY <2>3
    <3>2. row' = [row EXCEPT ![i].rev = p.rev, ![i].base = p.base] /\ hand'[h].id = i /\ hand'[h].seen = p
      <4>1. CASE hand' = [hand EXCEPT ![h] = IdleHand] BY <3>1, <4>1 DEF IdleHand, ApprovalTypeOK
      <4>2. CASE /\ row' = [row EXCEPT ![i].rev = p.rev, ![i].base = p.base]
                 /\ hand' = [hand EXCEPT ![h].pc = "committing"]
        BY <4>2 DEF ApprovalTypeOK, HandLocals
      <4> QED BY <4>1, <4>2 DEF Refresh
    <3> HIDE DEF i, p
    <3>3. row'[i].rev = p.rev /\ row'[i].base = p.base BY <2>1, <3>2 DEF ApprovalTypeOK, Rows
    <3>4. p = Preview(p.rev, p.base) /\ p.rev \in Nat BY <2>1 DEF Preview, Previews
    <3> QED BY <2>3, <3>2, <3>3, <3>4 DEF Follows, Body, Preview
  <2> QED BY <2>2, <2>3
<1> QED BY <1>2, <1>3 DEF PreviewInv

LEMMA CommitRefreshPreview == ASSUME ApprovalTypeOK, ApprovalTypeOK', RowInv, PreviewInv, NEW h \in Handler, CommitRefresh(h) PROVE PreviewInv'
<1>1. \A b \in Ask : BodyGrows(b)
  BY DEF CommitRefresh, BodyGrows
<1>2. PendingFollow'
  <2> DEFINE i == hand[h].id
  <2>1. i \in Ask BY HeldRow DEF CommitRefresh
  <2>2. Follows(hand[h].seen, i) BY DEF CommitRefresh, PreviewInv, HandsFollow
  <2>3. \A b \in Ask : \/ pending'[b] = pending[b] \/ (b = i /\ pending'[b] = hand[h].seen)
    BY <2>1 DEF CommitRefresh, ApprovalTypeOK
  <2>4. \A b \in Ask : pending'[b] # NoPreview => Follows(pending'[b], b)
    BY <2>2, <2>3 DEF PreviewInv, PendingFollow
  <2>5. \A p, b : Follows(p, b)' = Follows(p, b) BY DEF Follows, Body, Preview, CommitRefresh
  <2> QED BY <2>4, <2>5 DEF PendingFollow
<1>3. HandsFollow'
  <2>1. \A g \in Handler : hand'[g] = hand[g] \/ hand'[g].pc \notin {"validating", "committing"}
    BY DEF CommitRefresh, ApprovalTypeOK, IdleHand
  <2> QED BY <1>1, <2>1, HandsFollowStill DEF PreviewInv
<1> QED BY <1>2, <1>3 DEF PreviewInv

LEMMA DecidePreview == ASSUME ApprovalTypeOK, ApprovalTypeOK', RowInv, PreviewInv, NEW h \in Handler, Decide(h) PROVE PreviewInv'
<1>1. \A b \in Ask : BodyGrows(b)
  BY DEF Decide, ApprovalTypeOK, Rows, BodyGrows
<1>2. PendingFollow'
  <2>1. \A b \in Ask : pending'[b] \in {pending[b], NoPreview}
    BY DEF Decide
  <2> QED BY <1>1, <2>1, PendingFollowsStill DEF PreviewInv
<1>3. HandsFollow'
  <2>1. \A g \in Handler : hand'[g] = hand[g] \/ hand'[g].pc \notin {"validating", "committing"}
    <3>1. CASE hand' = [hand EXCEPT ![h].pc = "releasing"] BY <3>1 DEF ApprovalTypeOK, HandLocals
    <3>2. CASE hand' = [hand EXCEPT ![h] = IdleHand] BY <3>2 DEF ApprovalTypeOK, IdleHand
    <3> QED BY <3>1, <3>2 DEF Decide
  <2> QED BY <1>1, <2>1, HandsFollowStill DEF PreviewInv
<1> QED BY <1>2, <1>3 DEF PreviewInv

LEMMA ReleasePreview == ASSUME ApprovalTypeOK, ApprovalTypeOK', RowInv, PreviewInv, NEW h \in Handler, Release(h) PROVE PreviewInv'
<1>1. \A b \in Ask : BodyGrows(b)
  BY DEF Release, BodyGrows
<1>2. PendingFollow'
  <2>1. \A b \in Ask : pending'[b] \in {pending[b], NoPreview}
    BY DeliverKeeps DEF Release
  <2> QED BY <1>1, <2>1, PendingFollowsStill DEF PreviewInv
<1>3. HandsFollow'
  <2>1. \A g \in Handler : hand'[g] = hand[g] \/ hand'[g].pc \notin {"validating", "committing"}
    BY DEF Release, ApprovalTypeOK, IdleHand
  <2> QED BY <1>1, <2>1, HandsFollowStill DEF PreviewInv
<1> QED BY <1>2, <1>3 DEF PreviewInv

LEMMA TurnFinallyPreview == ASSUME ApprovalTypeOK, ApprovalTypeOK', RowInv, PreviewInv, NEW r \in Run, TurnFinally(r) PROVE PreviewInv'
<1>1. \A b \in Ask : BodyGrows(b)
  BY DEF TurnFinally, BodyGrows
<1>2. PendingFollow'
  <2>1. \A b \in Ask : pending'[b] \in {pending[b], NoPreview}
    BY DEF TurnFinally, DiscardRun
  <2> QED BY <1>1, <2>1, PendingFollowsStill DEF PreviewInv
<1>3. HandsFollow'
  <2>1. \A g \in Handler : hand'[g] = hand[g] \/ hand'[g].pc \notin {"validating", "committing"}
    BY DEF TurnFinally, ApprovalTypeOK
  <2> QED BY <1>1, <2>1, HandsFollowStill DEF PreviewInv
<1> QED BY <1>2, <1>3 DEF PreviewInv

LEMMA FinalizePreview == ASSUME ApprovalTypeOK, ApprovalTypeOK', RowInv, PreviewInv, NEW r \in Run, Finalize(r) PROVE PreviewInv'
<1>1. \A b \in Ask : BodyGrows(b)
  BY DEF Finalize, BodyGrows
<1>2. PendingFollow'
  <2>1. \A b \in Ask : pending'[b] \in {pending[b], NoPreview}
    BY DEF Finalize, DiscardRun
  <2> QED BY <1>1, <2>1, PendingFollowsStill DEF PreviewInv
<1>3. HandsFollow'
  <2>1. \A g \in Handler : hand'[g] = hand[g] \/ hand'[g].pc \notin {"validating", "committing"}
    BY DEF Finalize, ApprovalTypeOK
  <2> QED BY <1>1, <2>1, HandsFollowStill DEF PreviewInv
<1> QED BY <1>2, <1>3 DEF PreviewInv

LEMMA DeregisterPreview == ASSUME ApprovalTypeOK, ApprovalTypeOK', RowInv, PreviewInv, NEW r \in Run, Deregister(r) PROVE PreviewInv'
<1>1. \A b \in Ask : BodyGrows(b)
  BY DEF Deregister, BodyGrows
<1>2. PendingFollow'
  <2>1. \A b \in Ask : pending'[b] \in {pending[b], NoPreview}
    BY DEF Deregister
  <2> QED BY <1>1, <2>1, PendingFollowsStill DEF PreviewInv
<1>3. HandsFollow'
  <2>1. \A g \in Handler : hand'[g] = hand[g] \/ hand'[g].pc \notin {"validating", "committing"}
    BY DEF Deregister, ApprovalTypeOK
  <2> QED BY <1>1, <2>1, HandsFollowStill DEF PreviewInv
<1> QED BY <1>2, <1>3 DEF PreviewInv

LEMMA ReadRowsPreview == ASSUME ApprovalTypeOK, ApprovalTypeOK', RowInv, PreviewInv, NEW r \in Run, ReadRows(r) PROVE PreviewInv'
<1>1. \A b \in Ask : BodyGrows(b)
  BY DEF ReadRows, BodyGrows
<1>2. PendingFollow'
  <2>1. \A b \in Ask : pending'[b] \in {pending[b], NoPreview}
    BY DEF ReadRows
  <2> QED BY <1>1, <2>1, PendingFollowsStill DEF PreviewInv
<1>3. HandsFollow'
  <2>1. \A g \in Handler : hand'[g] = hand[g] \/ hand'[g].pc \notin {"validating", "committing"}
    BY DEF ReadRows, ApprovalTypeOK
  <2> QED BY <1>1, <2>1, HandsFollowStill DEF PreviewInv
<1> QED BY <1>2, <1>3 DEF PreviewInv

LEMMA CloseOrphanPreview == ASSUME ApprovalTypeOK, ApprovalTypeOK', RowInv, PreviewInv, NEW r \in Run, NEW a \in Ask, CloseOrphan(r, a) PROVE PreviewInv'
<1>1. \A b \in Ask : BodyGrows(b)
  BY DEF CloseOrphan, ApprovalTypeOK, Rows, BodyGrows
<1>2. PendingFollow'
  <2>1. \A b \in Ask : pending'[b] \in {pending[b], NoPreview}
    BY DEF CloseOrphan
  <2> QED BY <1>1, <2>1, PendingFollowsStill DEF PreviewInv
<1>3. HandsFollow'
  <2>1. \A g \in Handler : hand'[g] = hand[g] \/ hand'[g].pc \notin {"validating", "committing"}
    BY DEF CloseOrphan, ApprovalTypeOK
  <2> QED BY <1>1, <2>1, HandsFollowStill DEF PreviewInv
<1> QED BY <1>2, <1>3 DEF PreviewInv

LEMMA ReleaseOrphanPreview == ASSUME ApprovalTypeOK, ApprovalTypeOK', RowInv, PreviewInv, NEW r \in Run, ReleaseOrphan(r) PROVE PreviewInv'
<1>1. \A b \in Ask : BodyGrows(b)
  BY DEF ReleaseOrphan, BodyGrows
<1>2. PendingFollow'
  <2>1. \A b \in Ask : pending'[b] \in {pending[b], NoPreview}
    BY DeliverKeeps DEF ReleaseOrphan
  <2> QED BY <1>1, <2>1, PendingFollowsStill DEF PreviewInv
<1>3. HandsFollow'
  <2>1. \A g \in Handler : hand'[g] = hand[g] \/ hand'[g].pc \notin {"validating", "committing"}
    BY DEF ReleaseOrphan, ApprovalTypeOK
  <2> QED BY <1>1, <2>1, HandsFollowStill DEF PreviewInv
<1> QED BY <1>2, <1>3 DEF PreviewInv

LEMMA EditPreview == ASSUME ApprovalTypeOK, ApprovalTypeOK', RowInv, PreviewInv, Edit PROVE PreviewInv'
<1>1. \A b \in Ask : BodyGrows(b)
  BY DEF Edit, BodyGrows
<1>2. PendingFollow'
  <2>1. \A b \in Ask : pending'[b] \in {pending[b], NoPreview}
    BY DEF Edit
  <2> QED BY <1>1, <2>1, PendingFollowsStill DEF PreviewInv
<1>3. HandsFollow'
  <2>1. \A g \in Handler : hand'[g] = hand[g] \/ hand'[g].pc \notin {"validating", "committing"}
    BY DEF Edit, ApprovalTypeOK
  <2> QED BY <1>1, <2>1, HandsFollowStill DEF PreviewInv
<1> QED BY <1>2, <1>3 DEF PreviewInv

LEMMA PreviewInvNext == ASSUME ApprovalTypeOK, ApprovalTypeOK', RowInv, PreviewInv, Next \/ UNCHANGED vars PROVE PreviewInv'
<1>1. CASE Next
  BY <1>1, BeginPreview, OpenRowPreview, OpenRefusedPreview, RegisterPreview, BindPreview,
     RecheckPreview, WakePreview, ExpirePreview, TimeOutPreview, TimeOutFailsPreview,
     TimeOutReleasePreview, LeavePreview, ReceivePreview, ValidatePreview, RefreshPreview,
     CommitRefreshPreview, DecidePreview, ReleasePreview, TurnFinallyPreview, FinalizePreview,
     DeregisterPreview, ReadRowsPreview, CloseOrphanPreview, ReleaseOrphanPreview, EditPreview DEF
     Next, AskStep, HandStep, SweepStep
<1>2. CASE UNCHANGED vars BY <1>2 DEF vars, PreviewInv, PendingFollow, HandsFollow, Follows, Body, Preview
<1> QED BY <1>1, <1>2

(***************************************************************************)
(* Theorems.                                                               *)
(***************************************************************************)

LEMMA InitHolds == ASSUME Init PROVE IInv
<1>1. ApprovalTypeOK
  <2>1. [state |-> "none", rev |-> 0, base |-> 0] \in Rows BY PcNames DEF Rows
  <2>2. [done |-> FALSE, value |-> Nothing] \in WaiterObject BY Consts DEF WaiterObject
  <2> QED BY <2>1, <2>2, Consts DEF Init, ApprovalTypeOK
<1>2. RowInv BY Consts DEF Init, RowInv, AskHasRow, HandHasRow, IdleAsk, IdleHand
<1>3. ValueInv
  BY Consts, RefusalIsSound
  DEF Init, ValueInv, StashSound, WaitersSound, AsksSound, HandsSound, HandSound, IdleAsk, IdleHand
<1>4. PreviewInv BY DEF Init, PreviewInv, PendingFollow, HandsFollow, IdleHand
<1> QED BY <1>1, <1>2, <1>3, <1>4 DEF IInv

\* Whatever requests, decisions, refreshes, timeouts and ends of turns interleave, the broker's
\* maps, the stash, the waiters and the preview revisions stay related as IInv says
\* (ApprovalBroker and the driven approval handler of session_drive.py).
THEOREM InvHolds == Spec => []IInv
<1>1. ASSUME IInv, [Next]_vars PROVE IInv'
  BY <1>1, ApprovalTypeOKNext, RowInvNext, ValueInvNext, PreviewInvNext DEF IInv
<1> QED BY InitHolds, <1>1, PTL DEF Spec

\* Every variable of the rendezvous keeps to the values its code can give it.
THEOREM TypeCorrect == Spec => []ApprovalTypeOK
<1>1. IInv => ApprovalTypeOK BY DEF IInv
<1> QED BY InvHolds, <1>1, PTL

\* Whatever approved value is stashed, delivered, returned or about to be released,
\* a committed decision approved that row with that very body, and it stays within
\* its correlation: refreshes, replays and late releases cannot pair them wrongly.
THEOREM PayloadsAreApproved == Spec => []PayloadIsWhatWasApproved
<1>1. IInv => PayloadIsWhatWasApproved
  <2> SUFFICES ASSUME IInv PROVE PayloadIsWhatWasApproved OBVIOUS
  <2>1. \A v \in InFlight : \E k : Sound(v, k) /\ v.yes
    BY DEF InFlight, IInv, ValueInv, StashSound, WaitersSound, AsksSound, HandsSound, HandSound
  <2>2. \A k \in Key : Sound(stash[k], k) BY DEF IInv, ValueInv, StashSound
  <2>3. \A a \in Ask : Sound(ask[a].got, KeyOf(a)) BY DEF IInv, ValueInv, AsksSound
  <2> QED BY <2>1, <2>2, <2>3 DEF PayloadIsWhatWasApproved, Sound
<1> QED BY InvHolds, <1>1, PTL

\* The preview a file is checked against is the one its row shows, or an older one:
\* no order of refreshes, replays and ends of turns leaves them different at one revision.
THEOREM PreviewsFollowRows == Spec => []PreviewFollowsRow
<1>1. IInv => PreviewFollowsRow
  BY DEF IInv, PreviewInv, PendingFollow, Follows, PreviewFollowsRow
<1> QED BY InvHolds, <1>1, PTL
============================================================================
