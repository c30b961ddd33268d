----------------------- MODULE FleetCoordinationProofs -----------------------
(***************************************************************************)
(* Proofs about FleetCoordination.                                         *)
(*                                                                         *)
(* Coordinators follow one line: a set U of role events such that every    *)
(* replica shows a stretch of it.  Whoever leads on a stretch that misses  *)
(* something wrote what it misses, so a node that leads on its own ledger  *)
(* shows all of the line; hence one leader at most, and every grant there  *)
(* is on its ledger, from which the ranks of grants and the mutex follow.  *)
(***************************************************************************)
EXTENDS FleetCoordination, FleetLedgerProofs, FiniteSetTheorems, TLAPS

\* What the calls draft has the type of a draft.
LEMMA DraftsOf ==
    ASSUME NEW n \in Node
    PROVE  /\ \A marker \in {"claimed", "granted", "released"}, epoch \in Nat, to \in Node, p \in BOOLEAN :
                 Role(n, marker, epoch, to, p) \in Draft /\ Role(n, marker, epoch, to, p).node = n
           /\ \A s \in Scope, epoch \in Nat, to \in Node, a \in BOOLEAN :
                 /\ Grant(n, s, epoch, to, a) \in Draft \cap LeaseEvent
                 /\ Grant(n, s, epoch, to, a).node = n /\ Grant(n, s, epoch, to, a).auth = a
                 /\ Grant(n, s, epoch, to, a).marker = "granted" /\ Grant(n, s, epoch, to, a).epoch = epoch
           /\ \A g \in LeaseEvent :
                 End(n, g) \in Draft \cap LeaseEvent /\ End(n, g).node = n /\ End(n, g).marker = "ended"
<1>1. ASSUME NEW marker \in {"claimed", "granted", "released"}, NEW epoch \in Nat, NEW to \in Node, NEW p \in BOOLEAN
      PROVE  Role(n, marker, epoch, to, p) \in Draft /\ Role(n, marker, epoch, to, p).node = n
  BY DEF Role, Draft, Event, RoleEvent
<1>2. ASSUME NEW s \in Scope, NEW epoch \in Nat, NEW to \in Node, NEW a \in BOOLEAN
      PROVE  /\ Grant(n, s, epoch, to, a) \in Draft \cap LeaseEvent
             /\ Grant(n, s, epoch, to, a).node = n /\ Grant(n, s, epoch, to, a).auth = a
             /\ Grant(n, s, epoch, to, a).marker = "granted" /\ Grant(n, s, epoch, to, a).epoch = epoch
  BY DEF Grant, Draft, Event, LeaseEvent
<1>3. ASSUME NEW g \in LeaseEvent
      PROVE  End(n, g) \in Draft \cap LeaseEvent /\ End(n, g).node = n /\ End(n, g).marker = "ended"
  BY DEF End, Draft, Event, LeaseEvent
<1> QED BY <1>1, <1>2, <1>3

\* A finite set in some order is a sequence.
LEMMA SequenceOf ==
    ASSUME NEW S, IsFiniteSet(S)
    PROVE  SetToSeq(S) \in Seq(S) /\ (S # {} => SetToSeq(S) # <<>>)
<1>1. PICK f : f \in [1 .. Cardinality(S) -> S] /\ IsInjective(f)
  <2>1. PICK g : g \in Bijection(1 .. Cardinality(S), S)
    BY FS_CardinalityType DEF ExistsBijection
  <2> QED BY <2>1 DEF Bijection, Injection, IsInjective
<1>2. SetToSeq(S) \in [1 .. Cardinality(S) -> S]
  BY <1>1 DEF SetToSeq
<1>3. Cardinality(S) \in Nat /\ (S # {} => Cardinality(S) # 0)
  BY FS_CardinalityType, FS_EmptySet
<1>4. SetToSeq(S) \in Seq(S) /\ Len(SetToSeq(S)) = Cardinality(S)
  BY <1>2, <1>3
<1> QED BY <1>3, <1>4

(***************************************************************************)
(* What one step makes of a call.                                          *)
(***************************************************************************)
\* Every replica is a ledger the reducers can read.
LEMMA GoodReplicas ==
    ASSUME DataInv
    PROVE  /\ \A X \in Replicas : GoodLedger(X)
           /\ GoodLedger(hub) /\ GoodLedger(backup) /\ \A n \in Node : GoodLedger(ledger[n])
<1>1. ASSUME NEW X \in Replicas PROVE GoodLedger(X)
  <2>1. X \in SUBSET Event /\ IsFiniteSet(X)
    BY DEF DataInv, Replicas
  <2>2. \A e \in X : e.epoch \in Nat /\ e.at \in Nat /\ e.node \in Nat
    BY <2>1, EventFields, NodesAreOrdered
  <2>3. \A e, f \in X : e.node = f.node /\ e.at = f.at => e = f
    BY DEF DataInv
  <2> QED BY <2>1, <2>2, <2>3 DEF GoodLedger, Numbered
<1> QED BY <1>1 DEF Replicas

\* What a call that ends or grants a lease knows of it.
Moves(h, c) ==
    /\ \A i \in DOMAIN c.todo : IsEnd(c.todo[i]) => EndsOne(c.todo[i], View(h))
    /\ c.what \in {"grant", "renew"} =>
        \/ /\ op[h] = Idle /\ Leads(h) /\ Coordinator(View(h)).epoch = c.want.epoch
           /\ c.pc \in {"pull", "seq", "active"} /\ (c.want.auth => c.pc = "pull")
        \/ /\ op[h].pc = "free" /\ c = [op[h] EXCEPT !.pc = "seq"]
           /\ LeaseState(View(h), op[h].want.scope, now) # "held"
        \/ /\ op[h].pc = "active" /\ \E x \in Node : c = [op[h] EXCEPT !.pc = "seq", !.want.holder = x]
           /\ LeaseHolder(View(h), op[h].want.scope, now) \in {Nobody, c.want.holder}
        \/ /\ op[h].pc = "seq"
           /\ c = [op[h] EXCEPT !.pc = "write", !.want = Nothing,
                                !.todo = <<[op[h].want EXCEPT !.seq = NextSeq(View(h), op[h].want.scope, op[h].want.epoch),
                                                              !.expires = now + TTL]>>]

\* h has become c: whatever it gives up it leads at, and it is authoritative only if
\* it was, or as the only call of a node without a daemon.
Becomes(h, c) ==
    /\ UNCHANGED <<ledger, sync, mark, minted, now, ghosts>>
    /\ op' = [op EXCEPT ![h] = c] /\ c \in Calls /\ CallOK(h, c)
    /\ \A i \in DOMAIN c.todo : c.todo[i].kind = "role" /\ c.todo[i].marker = "released" =>
          Leads(h) /\ Coordinator(View(h)).epoch = c.todo[i].epoch
    /\ Authoritative(c) =>
          \/ op[h] = Idle /\ Alone(Home[h]) /\ Home[h] \notin Served /\ c.pc = "pull"
          \/ Authoritative(op[h]) /\ op[h].pc # "pull"
    /\ op[h] = Idle => Open(Home[h])
    /\ Moves(h, c)

\* An idle call is a proper one.
LEMMA IdleCall == Idle \in Calls /\ ~Authoritative(Idle) /\ Idle.todo = <<>> /\ \A h \in Handler : CallOK(h, Idle)
<1>1. Idle \in Calls
  BY DEF Idle, Calls
<1> QED BY <1>1 DEF Idle, CallOK, Authoritative

\* Refusing ends a call.
LEMMA RefuseBecomes ==
    ASSUME NEW h \in Handler, Refuse(h), Local, op[h] # Idle
    PROVE  Becomes(h, Idle)
<1>1. Moves(h, Idle)
  BY DEF Moves, Idle
<1> QED BY <1>1, IdleCall DEF Refuse, Local, Becomes

\* Calls that only write.
LEMMA WillBecome ==
    ASSUME NEW h \in Handler, NEW what \in {"claim", "transfer", "release", "end"},
           NEW todo \in Seq(Draft), todo # <<>>, Will(h, what, todo), Enters(h),
           \A i \in DOMAIN todo :
              /\ todo[i].node = Home[h]
              /\ todo[i].marker = "released" =>
                    i = 1 /\ what \in {"transfer", "release"} /\ Leads(h)
                    /\ Coordinator(View(h)).epoch = todo[i].epoch
              /\ IsEnd(todo[i]) => EndsOne(todo[i], View(h))
              /\ ~IsGrant(todo[i])
    PROVE  \E c : Becomes(h, c)
<1> DEFINE c == [pc |-> "write", what |-> what, todo |-> todo, want |-> Nothing]
<1>1. c \in Calls
  BY DEF Calls
<1>2. CallOK(h, c) /\ ~Authoritative(c)
  BY DEF CallOK, Authoritative
<1>3. op' = [op EXCEPT ![h] = c]
  BY DEF Will
<1>4. Moves(h, c)
  BY DEF Moves
<1> QED BY <1>1, <1>2, <1>3, <1>4 DEF Becomes, Will, Enters

\* Claim, transfer and release of the role.
LEMMA RoleCallBecomes ==
    ASSUME DataInv, NEW h \in Handler, RoleCall(h)
    PROVE  \E c : Becomes(h, c)
<1> DEFINE n == Home[h]
           L == View(h)
<1>0. n \in Node /\ GoodLedger(L)
  BY GoodReplicas, HandlersHaveHomes DEF View
<1>9. Enters(h)
  BY DEF RoleCall, Claim, Transfer, ReleaseRole
<1>1. ASSUME NEW pinned \in Pins, NEW isolated \in BOOLEAN, Claim(h, pinned, isolated)
      PROVE  \E c : Becomes(h, c)
  <2> DEFINE asks == Role(n, "claimed", ClaimEpoch(L), n, pinned)
             grant == [asks EXCEPT !.marker = "granted"]
  <2>1. ClaimEpoch(L) \in Nat
    <3>1. {1, MaxEpoch(L) + 1} \in SUBSET Int /\ {1, MaxEpoch(L) + 1} \in SUBSET Nat
      BY <1>0, MaxEpochOf
    <3>2. IsFiniteSet({1, MaxEpoch(L) + 1})
      <4>1. {1, MaxEpoch(L) + 1} = {1} \cup {MaxEpoch(L) + 1}
        OBVIOUS
      <4>2. IsFiniteSet({1})
        BY FS_Singleton
      <4> QED BY <4>1, <4>2, FS_AddElement
    <3>3. Max({1, MaxEpoch(L) + 1}) \in {1, MaxEpoch(L) + 1}
      BY <3>1, <3>2, MaxIsMax
    <3> QED BY <3>1, <3>3 DEF ClaimEpoch
  <2>2. pinned \in BOOLEAN
    BY SwitchesAreBoolean
  <2>3. /\ asks \in Draft /\ asks.node = n /\ asks.marker = "claimed" /\ asks.kind = "role"
        /\ grant \in Draft /\ grant.node = n /\ grant.marker = "granted" /\ grant.kind = "role"
    BY <1>0, <2>1, <2>2 DEF Role, Draft, Event, RoleEvent
  <2>4. Will(h, "claim", <<asks>>) \/ Will(h, "claim", <<asks, grant>>)
    BY <1>1 DEF Claim
  <2> HIDE DEF asks, grant
  <2>5. CASE Will(h, "claim", <<asks>>)
    <3> DEFINE todo == <<asks>>
    <3>1. todo \in Seq(Draft) /\ todo # <<>>
      BY <2>3
    <3>2. \A i \in DOMAIN todo : todo[i].node = Home[h] /\ todo[i].marker # "released" /\ ~IsEnd(todo[i]) /\ ~IsGrant(todo[i])
      BY <2>3 DEF IsEnd, IsGrant
    <3> HIDE DEF todo
    <3>3. Will(h, "claim", todo)
      BY <2>5 DEF todo
    <3> QED BY <3>1, <3>2, <3>3, <1>9, WillBecome
  <2>6. CASE Will(h, "claim", <<asks, grant>>)
    <3> DEFINE todo == <<asks, grant>>
    <3>1. todo \in Seq(Draft) /\ todo # <<>>
      BY <2>3
    <3>2. \A i \in DOMAIN todo : todo[i].node = Home[h] /\ todo[i].marker # "released" /\ ~IsEnd(todo[i]) /\ ~IsGrant(todo[i])
      BY <2>3 DEF IsEnd, IsGrant
    <3> HIDE DEF todo
    <3>3. Will(h, "claim", todo)
      BY <2>6 DEF todo
    <3> QED BY <3>1, <3>2, <3>3, <1>9, WillBecome
  <2> QED BY <2>4, <2>5, <2>6
<1>2. ASSUME NEW to \in Node, Transfer(h, to)
      PROVE  \E c : Becomes(h, c)
  <2> DEFINE k == Coordinator(L)
             gone == Role(n, "released", k.epoch, n, k.pinned)
             grant == Role(n, "granted", TransferEpoch(L), to, k.pinned)
  <2>1. k \in [holder : Node, epoch : Nat, pinned : BOOLEAN] /\ Leads(h)
    BY <1>0, <1>2, CoordinatorOf, NodesAreOrdered DEF Transfer, Leads
  <2>2. TransferEpoch(L) \in Nat
    BY <1>0, MaxEpochOf DEF TransferEpoch
  <2>3. /\ gone \in Draft /\ gone.node = n /\ gone.epoch = k.epoch /\ gone.kind = "role"
        /\ grant \in Draft /\ grant.node = n /\ grant.marker = "granted" /\ grant.kind = "role"
    BY <1>0, <2>1, <2>2 DEF Role, Draft, Event, RoleEvent
  <2>4. Will(h, "transfer", <<gone, grant>>)
    BY <1>2 DEF Transfer
  <2> HIDE DEF gone, grant
  <2> DEFINE todo == <<gone, grant>>
  <2>5. todo \in Seq(Draft) /\ todo # <<>>
    BY <2>3
  <2>6. \A i \in DOMAIN todo :
           /\ todo[i].node = Home[h]
           /\ todo[i].marker = "released" => i = 1 /\ todo[i].epoch = k.epoch
           /\ ~IsEnd(todo[i]) /\ ~IsGrant(todo[i])
    BY <2>3 DEF IsEnd, IsGrant
  <2>7. Will(h, "transfer", todo)
    BY <2>4
  <2> HIDE DEF todo
  <2>8. Leads(h) /\ k = Coordinator(View(h))
    BY <2>1
  <2> HIDE DEF k
  <2> QED BY <2>5, <2>6, <2>7, <2>8, <1>9, WillBecome
<1>3. ASSUME ReleaseRole(h)
      PROVE  \E c : Becomes(h, c)
  <2> DEFINE k == Coordinator(L)
             gone == Role(n, "released", k.epoch, n, k.pinned)
  <2>1. k \in [holder : Node, epoch : Nat, pinned : BOOLEAN] /\ Leads(h)
    BY <1>0, <1>3, CoordinatorOf, NodesAreOrdered DEF ReleaseRole, Leads
  <2>3. gone \in Draft /\ gone.node = n /\ gone.epoch = k.epoch /\ gone.kind = "role"
    BY <1>0, <2>1 DEF Role, Draft, Event, RoleEvent
  <2>4. Will(h, "release", <<gone>>)
    BY <1>3 DEF ReleaseRole
  <2> HIDE DEF gone
  <2> DEFINE todo == <<gone>>
  <2>5. todo \in Seq(Draft) /\ todo # <<>>
    BY <2>3
  <2>6. \A i \in DOMAIN todo :
           /\ todo[i].node = Home[h]
           /\ todo[i].marker = "released" => i = 1 /\ todo[i].epoch = k.epoch
           /\ ~IsEnd(todo[i]) /\ ~IsGrant(todo[i])
    BY <2>3 DEF IsEnd, IsGrant
  <2>7. Will(h, "release", todo)
    BY <2>4
  <2> HIDE DEF todo
  <2>8. Leads(h) /\ k = Coordinator(View(h))
    BY <2>1
  <2> HIDE DEF k
  <2> QED BY <2>5, <2>6, <2>7, <2>8, <1>9, WillBecome
<1> QED BY <1>1, <1>2, <1>3 DEF RoleCall

\* The end of the winner names a grant of the ledger.
LEMMA EndsItsGrant ==
    ASSUME NEW L, GoodLedger(L), NEW s, Grants(L, s) # {}, NEW n
    PROVE  EndsOne(End(n, Winner(L, s)), L)
<1> DEFINE w == Winner(L, s)
           e == End(n, w)
<1>1. w \in Grants(L, s) /\ w \in LeaseEvent
  BY WinnerOf
<1> HIDE DEF w
<1>2. e.scope = w.scope /\ e.epoch = w.epoch /\ e.seq = w.seq /\ e.holder = w.holder
  BY <1>1 DEF End, LeaseEvent
<1>3. w.scope = s
  BY <1>1 DEF Grants
<1> HIDE DEF e
<1>4. EndsOne(e, L)
  BY <1>1, <1>2, <1>3 DEF EndsOne
<1> QED BY <1>4 DEF e, w

\* Releasing and revoking a lease.
LEMMA EndBecomes ==
    ASSUME DataInv, NEW h \in Handler, NEW s \in Scope, Grants(View(h), s) # {}, Enters(h),
           Will(h, "end", <<End(Home[h], Winner(View(h), s))>>)
    PROVE  \E c : Becomes(h, c)
<1> DEFINE e == End(Home[h], Winner(View(h), s))
           todo == <<e>>
<1>1. Home[h] \in Node /\ GoodLedger(View(h))
  BY GoodReplicas, HandlersHaveHomes DEF View
<1>2. e \in Draft /\ e.node = Home[h] /\ e.marker = "ended"
  BY <1>1, WinnerOf, DraftsOf
<1>a. EndsOne(e, View(h))
  BY <1>1, EndsItsGrant
<1> HIDE DEF e
<1>3. todo \in Seq(Draft) /\ todo # <<>>
  BY <1>2
<1>4. \A i \in DOMAIN todo : todo[i].node = Home[h] /\ todo[i].marker # "released" /\ ~IsGrant(todo[i]) /\ EndsOne(todo[i], View(h))
  BY <1>2, <1>a DEF IsGrant
<1>5. Will(h, "end", todo)
  BY DEF e
<1> HIDE DEF todo
<1> QED BY <1>3, <1>4, <1>5, WillBecome

\* Sweeping what has expired.
LEMMA SweepBecomes ==
    ASSUME DataInv, NEW h \in Handler, SweepExpired(h)
    PROVE  \E c : Becomes(h, c)
<1> DEFINE L == View(h)
           over == {s \in Scope : LeaseState(L, s, now) = "expired"}
           E == {End(Home[h], Winner(L, s)) : s \in over}
           todo == SetToSeq(E)
<1>1. Home[h] \in Node /\ GoodLedger(L)
  BY GoodReplicas, HandlersHaveHomes DEF View
<1>2. \A s \in over : Grants(L, s) # {}
  BY DEF LeaseState
<1>3. \A e \in E : e \in Draft /\ e.node = Home[h] /\ e.marker = "ended" /\ EndsOne(e, L)
  <2>1. SUFFICES ASSUME NEW s \in over
                 PROVE  LET e == End(Home[h], Winner(L, s))
                        IN  e \in Draft /\ e.node = Home[h] /\ e.marker = "ended" /\ EndsOne(e, L)
    OBVIOUS
  <2>2. Winner(L, s) \in LeaseEvent /\ EndsOne(End(Home[h], Winner(L, s)), L)
    BY <1>1, <1>2, WinnerOf, EndsItsGrant
  <2> QED BY <1>1, <2>2, DraftsOf
<1>4. IsFiniteSet(E) /\ E # {}
  <2> DEFINE G == {e \in L : e.kind = "lease"}
             scope == [e \in G |-> e.scope]
             T == {scope[e] : e \in G}
             end == [s \in over |-> End(Home[h], Winner(L, s))]
  <2>1. IsFiniteSet(G)
    BY <1>1, FS_Subset DEF GoodLedger, Numbered
  <2>2. IsFiniteSet(T)
    <3>1. scope = [e \in G |-> scope[e]]
      OBVIOUS
    <3> HIDE DEF scope, G
    <3> QED BY <2>1, <3>1, ImageIsFinite
  <2>3. over \in SUBSET T
    <3>1. ASSUME NEW s \in over PROVE s \in T
      <4>1. PICK g \in Grants(L, s) : TRUE
        BY <1>2
      <4>2. g \in G /\ scope[g] = s
        BY <4>1 DEF Grants
      <4> QED BY <4>2
    <3> QED BY <3>1
  <2>4. IsFiniteSet(over)
    <3> HIDE DEF over, T
    <3> QED BY <2>2, <2>3, FS_Subset
  <2>5. IsFiniteSet({end[s] : s \in over})
    <3>1. end = [s \in over |-> end[s]]
      OBVIOUS
    <3> HIDE DEF end, over
    <3> QED BY <2>4, <3>1, ImageIsFinite
  <2>6. E = {end[s] : s \in over}
    OBVIOUS
  <2>7. over # {}
    BY DEF SweepExpired
  <2> QED BY <2>5, <2>6, <2>7
<1> HIDE DEF E
<1>5. todo \in Seq(E) /\ todo # <<>>
  BY <1>4, SequenceOf
<1>6. Will(h, "end", todo) /\ Enters(h)
  BY DEF SweepExpired, E
<1> HIDE DEF todo
<1>7. todo \in Seq(Draft)
  BY <1>3, <1>5
<1>8. \A i \in DOMAIN todo : todo[i].node = Home[h] /\ todo[i].marker # "released" /\ ~IsGrant(todo[i]) /\ EndsOne(todo[i], L)
  BY <1>3, <1>5 DEF IsGrant
<1> QED BY <1>5, <1>6, <1>7, <1>8, WillBecome

\* Asking for a grant or a renewal.
LEMMA WantsBecomes ==
    ASSUME DataInv, NEW h \in Handler, NEW what \in {"grant", "renew"}, NEW s \in Scope, NEW holder \in Node,
           NEW asked \in Modes, NEW otherwise \in {"seq", "active"},
           Wants(h, what, s, holder, asked, "pull", otherwise)
    PROVE  \E c : Becomes(h, c)
<1> DEFINE n == Home[h]
           auth == asked /\ n \notin Served
           k == Coordinator(View(h))
           g == Grant(n, s, k.epoch, holder, auth)
           c == [pc |-> IF auth THEN "pull" ELSE otherwise, what |-> what, todo |-> <<>>, want |-> g]
<1>1. n \in Node /\ GoodLedger(View(h)) /\ auth \in BOOLEAN
  BY GoodReplicas, HandlersHaveHomes, SwitchesAreBoolean DEF View
<1>2. k.epoch \in Nat
  BY <1>1, CoordinatorOf, NodesAreOrdered DEF Wants, Leads
<1>a. auth => n \notin Served
  OBVIOUS
<1>4. op[h] = Idle /\ Open(n) /\ op' = [op EXCEPT ![h] = c] /\ Local
  BY DEF Wants, Enters
<1>b. Leads(h) /\ Coordinator(View(h)).epoch = k.epoch
  BY DEF Wants
<1> HIDE DEF auth, k
<1>3. g \in Draft \cap LeaseEvent /\ g.node = n /\ g.auth = auth /\ g.marker = "granted" /\ g.epoch = k.epoch
  BY <1>1, <1>2, DraftsOf
<1> HIDE DEF g
<1>5. c \in Calls
  BY <1>3 DEF Calls
<1>6. CallOK(h, c)
  BY <1>3 DEF CallOK
<1>7. Authoritative(c) => auth /\ c.pc = "pull"
  BY <1>3 DEF Authoritative
<1>8. auth => Alone(n)
  BY <1>a, <1>4 DEF Open
<1>9. DOMAIN c.todo = {}
  OBVIOUS
<1>10. Moves(h, c)
  <2>1. c.want = g /\ c.pc \in {"pull", "seq", "active"} /\ (g.auth => c.pc = "pull") /\ c.todo = <<>>
    BY <1>3
  <2> HIDE DEF c
  <2> QED BY <1>3, <1>4, <1>9, <1>b, <2>1 DEF Moves
<1> HIDE DEF c
<1> QED BY <1>a, <1>4, <1>5, <1>6, <1>7, <1>8, <1>9, <1>10 DEF Becomes, Local

\* Every lease call.
LEMMA LeaseCallBecomes ==
    ASSUME DataInv, NEW h \in Handler, LeaseCall(h)
    PROVE  \E c : Becomes(h, c)
<1>1. ASSUME NEW s \in Scope, NEW holder \in Node, NEW asked \in Modes, GrantLease(h, s, holder, asked)
      PROVE  \E c : Becomes(h, c)
  BY <1>1, WantsBecomes DEF GrantLease
<1>2. ASSUME NEW s \in Scope, NEW asked \in Modes, RenewLease(h, s, asked)
      PROVE  \E c : Becomes(h, c)
  BY <1>2, WantsBecomes, HandlersHaveHomes DEF RenewLease
<1>3. ASSUME NEW s \in Scope, NEW by \in Node, ReleaseLease(h, s, by)
      PROVE  \E c : Becomes(h, c)
  <2>1. LeaseHolder(View(h), s, now) # Nobody
    BY <1>3, NodesAreOrdered DEF ReleaseLease
  <2>2. Grants(View(h), s) # {}
    BY <2>1 DEF LeaseHolder, LeaseState
  <2> QED BY <1>3, <2>2, EndBecomes DEF ReleaseLease
<1>4. ASSUME NEW s \in Scope, RevokeLease(h, s)
      PROVE  \E c : Becomes(h, c)
  <2>1. Grants(View(h), s) # {}
    BY <1>4 DEF RevokeLease, LeaseState
  <2> QED BY <1>4, <2>1, EndBecomes DEF RevokeLease
<1> QED BY <1>1, <1>2, <1>3, <1>4, SweepBecomes DEF LeaseCall

\* A call goes on without touching anything but itself.
LEMMA GoesOn ==
    ASSUME DataInv, CallInv, NEW h \in Handler,
           HubUnreachable(h) \/ CheckFree(h) \/ ReadActive(h) \/ TakeSeq(h)
    PROVE  \E c : Becomes(h, c)
<1>0. op \in [Handler -> Calls] /\ op[h] \in Calls /\ CallOK(h, op[h])
  BY DEF DataInv, CallInv
<1>9. op[h].pc # "idle" => op[h] # Idle
  BY DEF Idle
<1>1. CASE HubUnreachable(h)
  BY <1>1, <1>9, RefuseBecomes DEF HubUnreachable
<1>2. CASE CheckFree(h)
  <2>1. CASE Refuse(h)
    BY <1>2, <2>1, <1>9, RefuseBecomes DEF CheckFree
  <2>2. CASE Go(h, "seq")
    <3> DEFINE c == [op[h] EXCEPT !.pc = "seq"]
    <3>1. op' = [op EXCEPT ![h] = c] /\ Local /\ op[h].pc = "free"
      BY <1>0, <1>2, <2>2 DEF Go, CheckFree
    <3>2. c \in Calls /\ c.pc = "seq" /\ c.want = op[h].want /\ c.todo = op[h].todo /\ c.what = op[h].what
      BY <1>0 DEF Calls
    <3>3. op[h].todo = <<>>
      BY <1>0, <3>1 DEF CallOK
    <3>a. LeaseState(View(h), op[h].want.scope, now) # "held"
      <4>1. CASE LeaseState(View(h), op[h].want.scope, now) = "held"
        <5>1. op'[h] = Idle
          BY <1>0, <1>2, <4>1 DEF CheckFree, Refuse
        <5>2. op'[h] = c
          BY <1>0, <3>1
        <5> QED BY <3>2, <5>1, <5>2 DEF Idle
      <4> QED BY <4>1
    <3>b. c = [op[h] EXCEPT !.pc = "seq"]
      OBVIOUS
    <3> HIDE DEF c
    <3>4. CallOK(h, c) /\ (Authoritative(c) => Authoritative(op[h]))
      BY <1>0, <3>1, <3>2, <3>3 DEF CallOK, Authoritative
    <3>5. DOMAIN c.todo = {}
      BY <3>2, <3>3
    <3>6. Moves(h, c)
      BY <3>1, <3>5, <3>a, <3>b DEF Moves
    <3> QED BY <1>9, <3>1, <3>2, <3>4, <3>5, <3>6 DEF Becomes, Local
  <2> QED BY <1>2, <2>1, <2>2 DEF CheckFree
<1>3. CASE ReadActive(h)
  <2>1. CASE Refuse(h)
    BY <1>3, <2>1, <1>9, RefuseBecomes DEF ReadActive
  <2>2. CASE ~Refuse(h)
    <3> DEFINE holder == LeaseHolder(View(h), op[h].want.scope, now)
               x == IF holder = Nobody THEN Home[h] ELSE holder
               c == [op[h] EXCEPT !.pc = "seq", !.want.holder = x]
    <3>1. op' = [op EXCEPT ![h] = c] /\ Local /\ op[h].pc = "active"
      BY <1>0, <1>3, <2>2 DEF ReadActive
    <3>2. op[h].todo = <<>> /\ op[h].want \in LeaseEvent \cap Draft
      <4>1. op[h].want # Nothing
        BY <1>0, <3>1 DEF CallOK, LeaseEvent, Nothing
      <4> QED BY <1>0, <3>1, <4>1 DEF CallOK, Calls
    <3>3. x \in Node
      <4>1. Home[h] \in Node /\ GoodLedger(View(h))
        BY GoodReplicas, HandlersHaveHomes DEF View
      <4>2. CASE holder # Nobody
        <5>1. Grants(View(h), op[h].want.scope) # {}
          BY <4>2 DEF LeaseHolder, LeaseState
        <5>2. holder = Winner(View(h), op[h].want.scope).holder
          BY <4>2 DEF LeaseHolder
        <5>3. Winner(View(h), op[h].want.scope) \in LeaseEvent
          BY <4>1, <5>1, WinnerOf
        <5> QED BY <4>2, <5>2, <5>3 DEF LeaseEvent
      <4> QED BY <4>1, <4>2
    <3> HIDE DEF x
    <3>a. x \in Node /\ holder \in {Nobody, x}
      BY <3>3 DEF x
    <3>4. /\ c.want \in LeaseEvent \cap Draft /\ c.want.node = op[h].want.node /\ c.want.auth = op[h].want.auth
          /\ c.want.marker = op[h].want.marker /\ c.want.holder = x
          /\ c.pc = "seq" /\ c.todo = op[h].todo /\ c.what = op[h].what /\ c \in Calls
      BY <1>0, <3>2, <3>3 DEF Calls, LeaseEvent, Draft, Event
    <3>b. c = [op[h] EXCEPT !.pc = "seq", !.want.holder = x]
      OBVIOUS
    <3> HIDE DEF c
    <3>5. CallOK(h, c) /\ (Authoritative(c) => Authoritative(op[h]))
      BY <1>0, <3>1, <3>2, <3>4 DEF CallOK, Authoritative
    <3>6. DOMAIN c.todo = {}
      BY <3>2, <3>4
    <3>7. Moves(h, c)
      BY <3>1, <3>4, <3>6, <3>a, <3>b DEF Moves
    <3> QED BY <1>9, <3>1, <3>4, <3>5, <3>6, <3>7 DEF Becomes, Local
  <2> QED BY <2>1, <2>2
<1>4. CASE TakeSeq(h)
  <2> DEFINE g == op[h].want
             q == NextSeq(View(h), g.scope, g.epoch)
             e == [g EXCEPT !.seq = q, !.expires = now + TTL]
             c == [op[h] EXCEPT !.pc = "write", !.want = Nothing, !.todo = <<e>>]
  <2>1. op' = [op EXCEPT ![h] = c] /\ Local /\ op[h].pc = "seq"
    BY <1>0, <1>4 DEF TakeSeq
  <2>2. g \in LeaseEvent \cap Draft /\ g.node = Home[h] /\ g.marker = "granted" /\ op[h].what \in {"grant", "renew"}
    <3>1. op[h].want # Nothing
      BY <1>0, <2>1 DEF CallOK, LeaseEvent, Nothing
    <3> QED BY <1>0, <2>1, <3>1 DEF CallOK, Calls
  <2>3. q \in Nat /\ now + TTL \in Nat
    <3>1. GoodLedger(View(h))
      BY GoodReplicas, HandlersHaveHomes DEF View
    <3> QED BY <3>1, NextSeqOf, BoundsAreNaturals DEF DataInv
  <2> HIDE DEF q
  <2>4. e \in LeaseEvent \cap Draft /\ e.node = Home[h] /\ e.auth = g.auth /\ e.marker = "granted"
    BY <2>2, <2>3 DEF LeaseEvent, Draft, Event
  <2>a. c = [op[h] EXCEPT !.pc = "write", !.want = Nothing,
                          !.todo = <<[g EXCEPT !.seq = NextSeq(View(h), g.scope, g.epoch), !.expires = now + TTL]>>]
    BY DEF q
  <2> HIDE DEF e
  <2>5. c \in Calls /\ c.pc = "write" /\ c.what = op[h].what /\ c.todo = <<e>>
    <3>1. <<e>> \in Seq(Draft)
      BY <2>4
    <3> QED BY <1>0, <3>1 DEF Calls
  <2> HIDE DEF c
  <2>6. DOMAIN c.todo = {1} /\ c.todo[1] = e /\ c.todo # <<>>
    BY <2>5
  <2>7. CallOK(h, c)
    BY <2>2, <2>4, <2>5, <2>6 DEF CallOK, IsGrant, LeaseEvent
  <2>8. Authoritative(c) => Authoritative(op[h])
    BY <2>1, <2>4, <2>5, <2>6 DEF Authoritative
  <2>9. \A i \in DOMAIN c.todo : c.todo[i].marker # "released" /\ ~IsEnd(c.todo[i])
    BY <2>4, <2>6 DEF IsEnd
  <2>10. Moves(h, c)
    BY <2>1, <2>9, <2>a DEF Moves
  <2> QED BY <1>9, <2>1, <2>5, <2>7, <2>8, <2>9, <2>10 DEF Becomes, Local
<1> QED BY <1>1, <1>2, <1>3, <1>4

(***************************************************************************)
(* Replicas stay finite ledgers.                                           *)
(***************************************************************************)
\* The invariants hold at the start.
LEMMA InitData == Init => DataInv /\ CallInv /\ FullViewInv /\ PendingInv
<1> SUFFICES ASSUME Init PROVE DataInv /\ CallInv /\ FullViewInv /\ PendingInv
  OBVIOUS
<1> DEFINE Ats(n) == {0} \cup {e.at : e \in {e \in Founded : e.node = n}}
<1>1. Founded \in SUBSET Event /\ IsFiniteSet(Founded)
  BY FoundedIsLedger
<1>2. ASSUME NEW n \in Node
      PROVE  Max(Ats(n)) \in Nat /\ \A e \in Founded : e.node = n => e.at <= Max(Ats(n))
  <2> DEFINE F == {e \in Founded : e.node = n}
             at == [e \in F |-> e.at]
             T == {at[e] : e \in F}
             S == Ats(n)
  <2>1. \A e \in Founded : e.at \in Nat
    BY <1>1, EventFields
  <2>2. IsFiniteSet(F)
    BY <1>1, FS_Subset
  <2>3. IsFiniteSet(T)
    <3>1. at = [e \in F |-> at[e]]
      OBVIOUS
    <3> HIDE DEF at, F
    <3> QED BY <2>2, <3>1, ImageIsFinite
  <2>4. S = T \cup {0}
    OBVIOUS
  <2>5. IsFiniteSet(S)
    BY <2>3, <2>4, FS_AddElement
  <2>6. S \in SUBSET Int /\ S # {} /\ S \subseteq Nat /\ \A e \in Founded : e.node = n => e.at \in S
    BY <2>1
  <2>7. Max(S) \in S /\ \A x \in S : x <= Max(S)
    <3> HIDE DEF S
    <3> QED BY <2>5, <2>6, MaxIsMax
  <2>8. Max(S) \in Nat /\ \A e \in Founded : e.node = n => e.at <= Max(S)
    BY <2>6, <2>7
  <2> QED BY <2>8
<1>3. GoodLedger(Founded)
  <2>1. \A e \in Founded : e.epoch \in Nat /\ e.at \in Nat /\ e.node \in Nat
    BY <1>1, EventFields, NodesAreOrdered
  <2> QED BY <1>1, <2>1, FoundedIsLedger DEF GoodLedger, Numbered
<1>4. MaxEpoch(Founded) \in Nat \cup {-1}
  BY <1>3, MaxEpochOf
<1>5. minted = [n \in Node |-> Max(Ats(n))]
  BY DEF Init
<1> HIDE DEF Ats
<1>6. minted \in [Node -> Nat] /\ \A e \in Founded : e.at <= minted[e.node]
  <2>1. \A e \in Founded : e.node \in Node
    BY <1>1, EventFields
  <2> QED BY <1>2, <1>5, <2>1
<1>7. \A X \in Replicas : X = Founded
  BY DEF Init, Replicas
<1>8. DataInv
  <2>1. \A e \in UNION Replicas : e \in Founded
    BY <1>7
  <2>2. \A e \in Founded : 0 < e.at /\ \A f \in Founded : e.node = f.node /\ e.at = f.at => e = f
    <3>1. \A e \in Founded : e.at \in Nat
      BY <1>1, EventFields
    <3> QED BY <3>1, FoundedIsLedger
  <2>3. op \in [Handler -> Calls]
    BY IdleCall DEF Init
  <2>4. ledger \in [Node -> SUBSET Event] /\ {hub, backup} \subseteq SUBSET Event
    BY <1>1 DEF Init
  <2>5. mark \in [Node -> Nat \cup {-1}] /\ now \in 0 .. MaxTime /\ {rewound, forked, outdated} \subseteq BOOLEAN
    <3>1. mark = [n \in Node |-> MaxEpoch(Founded)] /\ now = 0 /\ rewound = FALSE /\ forked = FALSE /\ outdated = FALSE
      BY DEF Init
    <3>2. now \in 0 .. MaxTime
      BY <3>1, BoundsAreNaturals
    <3>3. mark \in [Node -> Nat \cup {-1}]
      BY <1>4, <3>1
    <3>4. {rewound, forked, outdated} \subseteq BOOLEAN
      BY <3>1
    <3> QED BY <3>2, <3>3, <3>4
  <2> QED BY <1>1, <1>6, <1>7, <2>1, <2>2, <2>3, <2>4, <2>5 DEF DataInv
<1>9. \A h \in Handler : op[h] = Idle
  BY DEF Init
<1>10. CallInv /\ FullViewInv /\ PendingInv
  BY <1>9, IdleCall DEF CallInv, FullViewInv, PendingInv
<1> QED BY <1>8, <1>10

\* Replicas made of replicas.
LEMMA MergeKeeps ==
    ASSUME DataInv, minted' = minted, \A X \in Replicas' : \E Y, Z \in Replicas : X = Y \cup Z
    PROVE  /\ \A X \in Replicas' : IsFiniteSet(X) /\ X \in SUBSET Event
           /\ \A e \in UNION Replicas' : 0 < e.at /\ e.at <= minted'[e.node]
           /\ \A e, f \in UNION Replicas' : e.node = f.node /\ e.at = f.at => e = f
<1>1. \A X \in Replicas : IsFiniteSet(X) /\ X \in SUBSET Event
  BY DEF DataInv, Replicas
<1>2. \A X \in Replicas' : IsFiniteSet(X) /\ X \in SUBSET Event
  <2>1. ASSUME NEW X \in Replicas' PROVE IsFiniteSet(X) /\ X \in SUBSET Event
    <3>1. PICK Y \in Replicas, Z \in Replicas : X = Y \cup Z
      OBVIOUS
    <3>2. IsFiniteSet(Y \cup Z)
      BY <1>1, FS_Union
    <3> QED BY <1>1, <3>1, <3>2
  <2> QED BY <2>1
<1>3. \A e \in UNION Replicas' : e \in UNION Replicas
  OBVIOUS
<1> QED BY <1>2, <1>3 DEF DataInv

\* Every step of the replicas but a new event.
Synchronises ==
    /\ hub' \in Replicas \cup {hub \cup ledger[n] : n \in Node}
    /\ backup' \in Replicas
    /\ \A n \in Node : ledger'[n] \in {ledger[n], ledger[n] \cup hub, hub}
    /\ ledger' \in [Node -> SUBSET Event]
    /\ minted' = minted

\* Synchronising makes no events.
LEMMA SynchronisedKeeps ==
    ASSUME DataInv, Synchronises
    PROVE  /\ \A X \in Replicas' : \E Y, Z \in Replicas : X = Y \cup Z
           /\ {hub', backup'} \subseteq SUBSET Event
           /\ \A X \in Replicas' : IsFiniteSet(X)
           /\ \A e \in UNION Replicas' : 0 < e.at /\ e.at <= minted'[e.node]
           /\ \A e, f \in UNION Replicas' : e.node = f.node /\ e.at = f.at => e = f
<1>1. /\ hub \in Replicas /\ \A n \in Node : ledger[n] \in Replicas
      /\ \A Y \in Replicas : Y = Y \cup Y
  BY DEF Replicas
<1>2. \A X \in Replicas' : X = hub' \/ X = backup' \/ \E n \in Node : X = ledger'[n]
  BY DEF Replicas
<1>3. ASSUME NEW X \in Replicas' PROVE \E Y, Z \in Replicas : X = Y \cup Z
  <2>1. CASE X \in Replicas
    BY <1>1, <2>1
  <2>2. CASE \E n \in Node : X = hub \cup ledger[n]
    BY <1>1, <2>2
  <2>3. CASE \E n \in Node : X = ledger[n] \cup hub
    BY <1>1, <2>3
  <2>4. X \in Replicas \/ (\E n \in Node : X = hub \cup ledger[n]) \/ (\E n \in Node : X = ledger[n] \cup hub)
    BY <1>1, <1>2 DEF Synchronises
  <2> QED BY <2>1, <2>2, <2>3, <2>4
<1>4. minted' = minted
  BY DEF Synchronises
<1>5. {hub', backup'} \subseteq Replicas'
  BY DEF Replicas
<1> QED BY <1>3, <1>4, <1>5, MergeKeeps

\* The watermark is the epoch of what is served, if it is kept at all.
LEMMA ReducesTypes ==
    ASSUME DataInv, NEW n \in Node, NEW L, GoodLedger(L), NEW ok \in BOOLEAN, Reduces(n, L, ok)
    PROVE  /\ mark' \in [Node -> Nat \cup {-1}] /\ \A k \in Node \ {n} : mark'[k] = mark[k]
           /\ ok /\ MayRewind => mark'[n] = MaxEpoch(L)
<1>1. MaxEpoch(L) \in Nat \cup {-1} /\ mark \in [Node -> Nat \cup {-1}] /\ mark[n] \in Nat \cup {-1}
  BY MaxEpochOf DEF DataInv
<1> DEFINE m == MaxEpoch(L)
           S == {mark[n], m}
<1>2. Max(S) \in S /\ m <= Max(S)
  <2>1. S = {m} \cup {mark[n]}
    OBVIOUS
  <2>2. IsFiniteSet({m})
    BY FS_Singleton
  <2>3. IsFiniteSet(S)
    BY <2>1, <2>2, FS_AddElement
  <2>4. S \in SUBSET Int /\ S # {} /\ m \in S
    BY <1>1
  <2> HIDE DEF S
  <2> QED BY <2>3, <2>4, MaxIsMax
<1>3. \/ mark' = mark /\ ~(ok /\ MayRewind)
      \/ mark' = [mark EXCEPT ![n] = m]
      \/ mark' = [mark EXCEPT ![n] = Max(S)] /\ ~Regressed(n, L)
  BY DEF Reduces
<1>4. ~Regressed(n, L) => Max(S) = m
  BY <1>1, <1>2 DEF Regressed
<1> HIDE DEF m, S
<1>5. m \in Nat \cup {-1} /\ m = MaxEpoch(L)
  BY <1>1 DEF m
<1> QED BY <1>1, <1>3, <1>4, <1>5

(***************************************************************************)
(* What a new event is.                                                    *)
(***************************************************************************)
SameLease(e, d) ==
    e.scope = d.scope /\ e.seq = d.seq /\ e.holder = d.holder /\ e.auth = d.auth /\ e.expires = d.expires

\* h appends e to the ledger of its node and goes on as c.
Appending(h, e, c) ==
    /\ e \in Event /\ e.node = Home[h] /\ e.at = minted[Home[h]] + 1
    /\ e \notin UNION Replicas
    /\ op[h].pc = "write" /\ 1 \in DOMAIN op[h].todo
    /\ e.kind = op[h].todo[1].kind /\ e.marker = op[h].todo[1].marker /\ e.epoch = op[h].todo[1].epoch
    /\ e.kind = "lease" => SameLease(e, op[h].todo[1])
    /\ ledger' = [ledger EXCEPT ![Home[h]] = View(h) \cup {e}]
    /\ minted' = [minted EXCEPT ![Home[h]] = @ + 1]
    /\ forked' = (forked \/ Forks(h, Home[h], e))
    /\ outdated' = (outdated \/ Outdates(View(h), e))
    /\ UNCHANGED <<sync, mark, now>>
    /\ op' = [op EXCEPT ![h] = c] /\ c \in Calls /\ CallOK(h, c) /\ ~Authoritative(c)
    /\ \A i \in DOMAIN c.todo : c.todo[i].marker # "released" /\ \E j \in DOMAIN op[h].todo : c.todo[i] = op[h].todo[j]
    /\ c.what \notin {"grant", "renew"} /\ (c = Idle \/ c.what = op[h].what)

\* What a tail holds.
LEMMA TailOf ==
    ASSUME NEW S, NEW d \in Seq(S), d # <<>>, Len(d) # 1
    PROVE  /\ Tail(d) \in Seq(S) /\ Tail(d) # <<>>
           /\ \A i \in DOMAIN Tail(d) : i + 1 \in DOMAIN d /\ Tail(d)[i] = d[i + 1] /\ i + 1 # 1
<1>1. Len(d) \in Nat /\ DOMAIN d = 1 .. Len(d)
  OBVIOUS
<1>2. Len(d) # 0
  OBVIOUS
<1>3. Tail(d) \in Seq(S) /\ Len(Tail(d)) = Len(d) - 1 /\ \A i \in 1 .. Len(d) - 1 : Tail(d)[i] = d[i + 1]
  OBVIOUS
<1>4. DOMAIN Tail(d) = 1 .. Len(Tail(d))
  BY <1>3
<1>5. Len(d) > 1
  BY <1>1, <1>2
<1>6. Tail(d) # <<>>
  <2>1. Len(Tail(d)) > 0
    BY <1>1, <1>3, <1>5
  <2>2. 1 \in DOMAIN Tail(d)
    BY <1>1, <1>3, <1>4, <1>5
  <2> QED BY <2>2
<1> QED BY <1>1, <1>3, <1>4, <1>5, <1>6

\* append_coord_event.
LEMMA AppendIs ==
    ASSUME DataInv, CallInv, NEW h \in Handler, AppendEvent(h)
    PROVE  \E e, c : Appending(h, e, c)
<1> DEFINE n == Home[h]
           d == op[h].todo
           e == [Head(d) EXCEPT !.at = minted[n] + 1]
           c == IF Len(d) = 1 THEN Idle ELSE [op[h] EXCEPT !.todo = Tail(d)]
<1>1. n \in Node /\ minted[n] \in Nat /\ op[h] \in Calls /\ CallOK(h, op[h]) /\ op \in [Handler -> Calls]
  BY HandlersHaveHomes DEF DataInv, CallInv
<1>0. /\ op[h].pc = "write" /\ ledger' = [ledger EXCEPT ![n] = ledger[n] \cup {e}]
      /\ minted' = [minted EXCEPT ![n] = @ + 1] /\ forked' = (forked \/ Forks(h, n, e))
      /\ outdated' = (outdated \/ Outdates(ledger[n], e))
      /\ op' = [op EXCEPT ![h] = IF Len(@.todo) = 1 THEN Idle ELSE [op[h] EXCEPT !.todo = Tail(@)]]
      /\ UNCHANGED <<sync, mark, now>>
  BY Zenon DEF AppendEvent
<1>2. d \in Seq(Draft) /\ d # <<>> /\ op[h].pc = "write"
  BY <1>0, <1>1 DEF CallOK, Calls
<1>3. Head(d) = d[1] /\ 1 \in DOMAIN d /\ Head(d) \in Draft /\ Head(d).node = n
  <2>1. Head(d) = d[1] /\ 1 \in DOMAIN d /\ Head(d) \in Draft
    BY <1>2
  <2> QED BY <1>1, <2>1 DEF CallOK
<1>4. /\ e \in Event /\ e.node = n /\ e.at = minted[n] + 1
      /\ e.kind = d[1].kind /\ e.marker = d[1].marker /\ e.epoch = d[1].epoch
      /\ e.kind = "lease" => SameLease(e, d[1])
  <2>1. Head(d) \in Event /\ minted[n] + 1 \in Nat
    BY <1>1, <1>3 DEF Draft
  <2>2. e \in Event /\ e.node = Head(d).node /\ e.at = minted[n] + 1
        /\ e.kind = Head(d).kind /\ e.marker = Head(d).marker /\ e.epoch = Head(d).epoch
        /\ (e.kind = "lease" => SameLease(e, Head(d)))
    <3> HIDE DEF d
    <3>1. CASE Head(d) \in RoleEvent
      BY <2>1, <3>1 DEF RoleEvent, Event
    <3>2. CASE Head(d) \in LeaseEvent
      BY <2>1, <3>2 DEF LeaseEvent, Event, SameLease
    <3> QED BY <2>1, <3>1, <3>2 DEF Event
  <2> QED BY <1>3, <2>2
<1>5. e \notin UNION Replicas
  <2>1. \A f \in UNION Replicas : f.at <= minted[f.node]
    BY DEF DataInv
  <2> HIDE DEF e
  <2> QED BY <1>1, <1>4, <2>1
<1>6. op' = [op EXCEPT ![h] = c]
  BY <1>0, <1>1
<1>7. CASE Len(d) = 1
  <2>1. c = Idle
    BY <1>7
  <2>2. c \in Calls /\ CallOK(h, c) /\ ~Authoritative(c) /\ c.todo = <<>>
    BY <2>1, IdleCall
  <2>3. DOMAIN c.todo = {} /\ c.what \notin {"grant", "renew"} /\ c = Idle
    BY <2>1, <2>2 DEF Idle
  <2> HIDE DEF c, e, d
  <2>9. Appending(h, e, c)
    BY <1>0, <1>2, <1>3, <1>4, <1>5, <1>6, <2>2, <2>3, Zenon DEF Appending, View, d
  <2> QED BY <2>9
<1>8. CASE Len(d) # 1
  <2>1. c = [op[h] EXCEPT !.todo = Tail(d)]
    BY <1>8
  <2>2. Tail(d) \in Seq(Draft) /\ Tail(d) # <<>> /\ Len(d) > 1
        /\ \A i \in DOMAIN Tail(d) : i + 1 \in DOMAIN d /\ Tail(d)[i] = d[i + 1] /\ i + 1 # 1
    <3> HIDE DEF d
    <3>1. Len(d) \in Nat /\ Len(d) # 0
      BY <1>2
    <3> QED BY <1>2, <1>8, <3>1, TailOf
  <2>3. op[h].what \notin {"grant", "renew"}
    BY <1>1, <2>2 DEF CallOK
  <2>4. c \in Calls /\ c.todo = Tail(d) /\ c.pc = "write" /\ c.what = op[h].what
    BY <1>1, <1>2, <2>1, <2>2 DEF Calls
  <2> HIDE DEF c
  <2>5. \A i \in DOMAIN c.todo : c.todo[i].marker # "released" /\ c.todo[i].node = n /\ ~IsGrant(c.todo[i])
                                /\ \E j \in DOMAIN d : c.todo[i] = d[j]
    <3> HIDE DEF d
    <3>1. \A i \in DOMAIN d : d[i].node = n /\ (d[i].marker = "released" => i = 1) /\ ~IsGrant(d[i])
      BY <1>1, <2>3 DEF CallOK, d
    <3> QED BY <2>2, <2>4, <3>1
  <2>6. CallOK(h, c) /\ ~Authoritative(c)
    BY <2>2, <2>3, <2>4, <2>5 DEF CallOK, Authoritative
  <2> HIDE DEF e, d
  <2>9. Appending(h, e, c)
    BY <1>0, <1>2, <1>3, <1>4, <1>5, <1>6, <2>3, <2>4, <2>5, <2>6, Zenon DEF Appending, View, d
  <2> QED BY <2>9
<1> QED BY <1>7, <1>8

\* A new event is a new stamp of its node.
LEMMA AppendKeepsData ==
    ASSUME DataInv, CallInv, NEW h \in Handler, NEW e, NEW c, Appending(h, e, c)
    PROVE  DataInv' /\ CallInv'
<1> DEFINE n == Home[h]
<1>1. n \in Node /\ minted \in [Node -> Nat] /\ ledger \in [Node -> SUBSET Event] /\ op \in [Handler -> Calls]
  BY HandlersHaveHomes DEF DataInv
<1>2. /\ ledger'[n] = ledger[n] \cup {e} /\ \A m \in Node \ {n} : ledger'[m] = ledger[m]
      /\ ledger' \in [Node -> SUBSET Event]
  BY <1>1 DEF Appending, View
<1>3. minted' \in [Node -> Nat] /\ minted'[n] = minted[n] + 1 /\ \A m \in Node \ {n} : minted'[m] = minted[m]
  BY <1>1 DEF Appending
<1>4. \A X \in Replicas' : X \in Replicas \/ X = ledger[n] \cup {e}
  BY <1>2 DEF Replicas, Appending, sync
<1>5. \A X \in Replicas' : IsFiniteSet(X)
  <2>1. IsFiniteSet(ledger[n] \cup {e})
    <3>1. IsFiniteSet(ledger[n])
      BY <1>1 DEF DataInv, Replicas
    <3> QED BY <3>1, FS_AddElement
  <2> QED BY <1>4, <2>1 DEF DataInv
<1>6. \A f \in UNION Replicas' : f = e \/ f \in UNION Replicas
  <2>1. ledger[n] \in Replicas
    BY <1>1 DEF Replicas
  <2> QED BY <1>4, <2>1
<1>7. \A f \in UNION Replicas : 0 < f.at /\ f.at <= minted[f.node] /\ f.node \in Node /\ f.at \in Nat
  <2>1. \A f \in UNION Replicas : f \in Event
    BY DEF DataInv, Replicas
  <2>2. \A f \in UNION Replicas : f.node \in Node /\ f.at \in Nat
    BY <2>1, EventFields
  <2> QED BY <2>2 DEF DataInv
<1>8. \A f \in UNION Replicas' : 0 < f.at /\ f.at <= minted'[f.node]
  BY <1>1, <1>3, <1>6, <1>7 DEF Appending
<1>9. \A f, g \in UNION Replicas' : f.node = g.node /\ f.at = g.at => f = g
  <2>1. \A f \in UNION Replicas : ~(f.node = e.node /\ f.at = e.at)
    BY <1>1, <1>7 DEF Appending
  <2>2. \A f, g \in UNION Replicas : f.node = g.node /\ f.at = g.at => f = g
    BY DEF DataInv
  <2> QED BY <1>6, <2>1, <2>2
<1>10. op' \in [Handler -> Calls] /\ CallInv'
  BY <1>1 DEF Appending, CallInv
<1>11. /\ mark' = mark /\ now' = now /\ rewound' = rewound /\ hub' = hub /\ backup' = backup
       /\ {forked', outdated'} \subseteq BOOLEAN
  BY DEF Appending, DataInv, sync
<1> QED BY <1>2, <1>3, <1>5, <1>8, <1>9, <1>10, <1>11 DEF DataInv

(***************************************************************************)
(* The steps, by what they change.                                         *)
(***************************************************************************)
\* Every step of a call.
LEMMA CallSteps ==
    ASSUME DataInv, CallInv, NEW h \in Handler, RoleCall(h) \/ LeaseCall(h) \/ CallStep(h)
    PROVE  (\E c : Becomes(h, c)) \/ (\E e, c : Appending(h, e, c)) \/ Refresh(h)
<1>1. CASE RoleCall(h)
  BY <1>1, RoleCallBecomes
<1>2. CASE LeaseCall(h)
  BY <1>2, LeaseCallBecomes
<1>3. CASE HubUnreachable(h) \/ CheckFree(h) \/ ReadActive(h) \/ TakeSeq(h)
  BY <1>3, GoesOn
<1>4. CASE AppendEvent(h)
  BY <1>4, AppendIs
<1> QED BY <1>1, <1>2, <1>3, <1>4 DEF CallStep

\* What a pull may leave.
LEMMA ArrivalsAre ==
    ASSUME DataInv, NEW n \in Node, NEW L \in Arrivals(n), Arrives(n, L)
    PROVE  /\ GoodLedger(L) /\ L \in {ledger[n] \cup hub, hub}
           /\ ledger' \in [Node -> SUBSET Event] /\ ledger'[n] = L
           /\ \A m \in Node \ {n} : ledger'[m] = ledger[m]
           /\ forked' = (forked \/ ~(ledger[n] \subseteq L)) /\ outdated' = outdated
           /\ ~rewound => L = ledger[n] \cup hub
<1>1. L \in {ledger[n] \cup hub, hub} /\ (~rewound => L = ledger[n] \cup hub)
  BY DEF Arrivals
<1>2. L \in SUBSET Event /\ ledger \in [Node -> SUBSET Event]
  BY <1>1 DEF DataInv
<1>3. /\ ledger' \in [Node -> SUBSET Event] /\ ledger'[n] = L
      /\ \A m \in Node \ {n} : ledger'[m] = ledger[m]
  BY <1>2 DEF Arrives
<1>4. GoodLedger(L)
  <2>1. {hub, ledger[n]} \subseteq Replicas
    BY DEF Replicas
  <2>2. IsFiniteSet(L)
    <3>1. IsFiniteSet(hub) /\ IsFiniteSet(ledger[n])
      BY <2>1 DEF DataInv
    <3>2. IsFiniteSet(ledger[n] \cup hub)
      BY <3>1, FS_Union
    <3> QED BY <1>1, <3>1, <3>2
  <2>3. \A e \in L : e.epoch \in Nat /\ e.at \in Nat /\ e.node \in Nat
    BY <1>2, EventFields, NodesAreOrdered
  <2>4. \A e \in L : e \in UNION Replicas
    BY <1>1, <2>1
  <2>5. \A e, f \in L : e.node = f.node /\ e.at = f.at => e = f
    BY <2>4 DEF DataInv
  <2> QED BY <1>2, <2>2, <2>3, <2>5 DEF GoodLedger, Numbered
<1>5. forked' = (forked \/ ~(ledger[n] \subseteq L)) /\ outdated' = outdated
  BY DEF Arrives
<1> QED BY <1>1, <1>3, <1>4, <1>5

\* A pull of n, or of a call of n, leaves L.
LEMMA PullKeeps ==
    ASSUME DataInv, NEW n \in Node, NEW L \in Arrivals(n), NEW ok \in BOOLEAN,
           Arrives(n, L), Reduces(n, L, ok), UNCHANGED <<sync, minted, now>>, op' \in [Handler -> Calls]
    PROVE  DataInv'
<1>1. Synchronises
  <2>1. UNCHANGED <<hub, backup, minted>>
    BY DEF sync
  <2>2. {hub, backup} \subseteq Replicas
    BY DEF Replicas
  <2> QED BY <2>1, <2>2, ArrivalsAre DEF Synchronises
<1>2. mark' \in [Node -> Nat \cup {-1}]
  BY ArrivalsAre, ReducesTypes
<1>3. {forked', outdated'} \subseteq BOOLEAN
  BY DEF Arrives, DataInv
<1>4. /\ \A X \in Replicas' : IsFiniteSet(X)
      /\ \A e \in UNION Replicas' : 0 < e.at /\ e.at <= minted'[e.node]
      /\ \A e, f \in UNION Replicas' : e.node = f.node /\ e.at = f.at => e = f
      /\ ledger' \in [Node -> SUBSET Event] /\ {hub', backup'} \subseteq SUBSET Event
  BY <1>1, SynchronisedKeeps, ArrivalsAre
<1>5. minted' = minted /\ now' = now /\ rewound' = rewound
  BY DEF sync
<1> QED BY <1>2, <1>3, <1>4, <1>5 DEF DataInv

\* The pull of an authoritative call (_authoritative_freshness).
LEMMA RefreshIs ==
    ASSUME DataInv, CallInv, NEW h \in Handler, Refresh(h)
    PROVE  \E L \in Arrivals(Home[h]), ok \in BOOLEAN, c \in Calls :
              /\ Arrives(Home[h], L) /\ Reduces(Home[h], L, ok) /\ UNCHANGED <<sync, minted, now>>
              /\ op[h].pc = "pull" /\ op[h].todo = <<>>
              /\ op' = [op EXCEPT ![h] = c] /\ CallOK(h, c) /\ c.todo = <<>> /\ c.pc # "pull"
              /\ ok \/ c = Idle
              /\ Authoritative(c) => Authoritative(op[h])
              /\ c = Idle \/ (c.pc \in {"free", "active"} /\ c.want = op[h].want /\ c.what = op[h].what)
<1>1. op[h] \in Calls /\ CallOK(h, op[h]) /\ op \in [Handler -> Calls] /\ op[h].pc = "pull"
  BY DEF DataInv, CallInv, Refresh
<1>2. op[h].todo = <<>>
  BY <1>1 DEF CallOK
<1>3. PICK L \in Arrivals(Home[h]), ok \in BOOLEAN :
         /\ Arrives(Home[h], L) /\ Reduces(Home[h], L, ok)
         /\ IF ok THEN Go(h, IF op[h].what = "grant" THEN "free" ELSE "active") ELSE Refuse(h)
  BY DEF Refresh
<1>4. CASE ok
  <2> DEFINE to == IF op[h].what = "grant" THEN "free" ELSE "active"
             c == [op[h] EXCEPT !.pc = to]
  <2>1. to \in {"free", "active"} /\ op' = [op EXCEPT ![h] = c]
    BY <1>1, <1>3, <1>4 DEF Go
  <2> HIDE DEF to
  <2>2. c \in Calls /\ c.pc = to /\ c.want = op[h].want /\ c.todo = <<>> /\ c.what = op[h].what
    BY <1>1, <1>2, <2>1 DEF Calls
  <2> HIDE DEF c
  <2>3. CallOK(h, c) /\ (Authoritative(c) => Authoritative(op[h]))
    BY <1>1, <1>2, <2>1, <2>2 DEF CallOK, Authoritative
  <2> QED BY <1>1, <1>2, <1>3, <1>4, <2>1, <2>2, <2>3 DEF Refresh
<1>5. CASE ~ok
  <2>1. Idle \in Calls /\ CallOK(h, Idle) /\ Idle.todo = <<>> /\ Idle.pc # "pull" /\ op' = [op EXCEPT ![h] = Idle]
       /\ ~Authoritative(Idle)
    BY <1>3, <1>5, IdleCall DEF Refuse, Idle
  <2> QED BY <1>1, <1>2, <1>3, <2>1 DEF Refresh
<1> QED BY <1>4, <1>5

\* A step is a step of one call, a pull, a digest, or one that leaves calls and ledgers
\* alone, but for a crash.
LEMMA DataKept ==
    ASSUME DataInv, CallInv, [Next]_vars
    PROVE  DataInv' /\ CallInv'
<1> USE DEF sync, ghosts
<1>0. /\ op \in [Handler -> Calls] /\ mark \in [Node -> Nat \cup {-1}] /\ ledger \in [Node -> SUBSET Event]
      /\ {hub, backup} \subseteq Replicas /\ \A n \in Node : ledger[n] \in Replicas
  BY DEF DataInv, Replicas
<1>1. ASSUME NEW h \in Handler, NEW c, Becomes(h, c)
      PROVE  DataInv' /\ CallInv'
  <2>1. op' \in [Handler -> Calls]
    BY <1>0, <1>1 DEF Becomes
  <2>2. DataInv'
    BY <1>1, <2>1 DEF Becomes, DataInv, Replicas
  <2>3. CallInv'
    BY <1>0, <1>1 DEF Becomes, CallInv
  <2> QED BY <2>2, <2>3
<1>2. ASSUME NEW h \in Handler, Refresh(h)
      PROVE  DataInv' /\ CallInv'
  <2>1. PICK L \in Arrivals(Home[h]), ok \in BOOLEAN, c \in Calls :
           /\ Arrives(Home[h], L) /\ Reduces(Home[h], L, ok) /\ UNCHANGED <<sync, minted, now>>
           /\ op' = [op EXCEPT ![h] = c] /\ CallOK(h, c)
    BY <1>2, RefreshIs
  <2>2. op' \in [Handler -> Calls] /\ Home[h] \in Node
    BY <1>0, <2>1, HandlersHaveHomes
  <2>3. DataInv'
    BY <2>1, <2>2, PullKeeps
  <2>4. CallInv'
    BY <1>0, <2>1 DEF CallInv
  <2> QED BY <2>3, <2>4
<1>3. ASSUME NEW n \in Node, Pull(n)
      PROVE  DataInv' /\ CallInv'
  <2>1. PICK L \in Arrivals(n), ok \in BOOLEAN : Arrives(n, L) /\ Reduces(n, L, ok)
    BY <1>3 DEF Pull
  <2>2. UNCHANGED <<sync, minted, now, op>>
    BY <1>3 DEF Pull
  <2>3. DataInv'
    BY <1>0, <2>1, <2>2, PullKeeps
  <2>4. CallInv'
    BY <2>2 DEF CallInv
  <2> QED BY <2>3, <2>4
<1>4. ASSUME NEW n \in Node, Digest(n)
      PROVE  DataInv' /\ CallInv'
  <2>1. PICK ok \in BOOLEAN : Reduces(n, ledger[n], ok)
    BY <1>4 DEF Digest
  <2>2. mark' \in [Node -> Nat \cup {-1}]
    BY <2>1, GoodReplicas, ReducesTypes
  <2>3. UNCHANGED <<ledger, sync, minted, now, op, ghosts>>
    BY <1>4 DEF Digest
  <2>4. DataInv'
    BY <2>2, <2>3 DEF DataInv, Replicas
  <2>5. CallInv'
    BY <2>3 DEF CallInv
  <2> QED BY <2>4, <2>5
<1>5. ASSUME Synchronises, UNCHANGED <<ledger, mark, minted, now, op, ghosts>>, rewound' \in BOOLEAN
      PROVE  DataInv' /\ CallInv'
  <2>1. /\ {hub', backup'} \subseteq SUBSET Event
        /\ \A X \in Replicas' : IsFiniteSet(X)
        /\ \A e \in UNION Replicas' : 0 < e.at /\ e.at <= minted'[e.node]
        /\ \A e, f \in UNION Replicas' : e.node = f.node /\ e.at = f.at => e = f
    BY <1>5, SynchronisedKeeps
  <2>2. DataInv'
    BY <1>5, <2>1 DEF DataInv
  <2>3. CallInv'
    BY <1>5 DEF CallInv
  <2> QED BY <2>2, <2>3
<1>6. ASSUME NEW n \in Node, Push(n)
      PROVE  DataInv' /\ CallInv'
  <2>1. Synchronises
    BY <1>0, <1>6 DEF Push, Synchronises
  <2> QED BY <1>5, <1>6, <2>1 DEF Push, DataInv
<1>7. ASSUME Backup \/ Restore
      PROVE  DataInv' /\ CallInv'
  <2>1. Synchronises
    BY <1>0, <1>7 DEF Backup, Restore, Synchronises
  <2>2. rewound' \in BOOLEAN
    BY <1>7 DEF Backup, Restore, DataInv
  <2> QED BY <1>5, <1>7, <2>1, <2>2 DEF Backup, Restore
<1>8. ASSUME NEW n \in Node, Crash(n)
      PROVE  DataInv' /\ CallInv'
  <2>1. op' = [h \in Handler |-> IF Home[h] = n THEN Idle ELSE op[h]] /\ Local
    BY <1>8 DEF Crash
  <2>2. op' \in [Handler -> Calls]
    BY <1>0, <2>1, IdleCall
  <2>3. DataInv'
    BY <2>1, <2>2 DEF Local, DataInv, Replicas
  <2>4. CallInv'
    BY <2>1, IdleCall DEF CallInv
  <2> QED BY <2>3, <2>4
<1>9. CASE Tick
  <2>1. now' \in 0 .. MaxTime
    BY <1>9, BoundsAreNaturals DEF Tick, DataInv
  <2>2. DataInv'
    BY <1>9, <2>1 DEF Tick, DataInv, Replicas
  <2>3. CallInv'
    BY <1>9 DEF Tick, CallInv
  <2> QED BY <2>2, <2>3
<1>10. CASE UNCHANGED vars
  <2>1. DataInv'
    BY <1>10 DEF vars, DataInv, Replicas
  <2>2. CallInv'
    BY <1>10 DEF vars, CallInv
  <2> QED BY <2>1, <2>2
<1>11. CASE Environment
  BY <1>3, <1>4, <1>6, <1>7, <1>8, <1>9, <1>11 DEF Environment
<1>12. ASSUME NEW h \in Handler, RoleCall(h) \/ LeaseCall(h) \/ CallStep(h)
       PROVE  DataInv' /\ CallInv'
  <2>1. (\E c : Becomes(h, c)) \/ (\E e, c : Appending(h, e, c)) \/ Refresh(h)
    BY <1>12, CallSteps
  <2> QED BY <1>1, <1>2, <2>1, AppendKeepsData
<1> QED BY <1>10, <1>11, <1>12 DEF Next

\* From this the type invariant follows.
LEMMA TypesFollow ==
    ASSUME DataInv, CallInv
    PROVE  TypeOK
<1>1. \A e \in Events : e \in UNION Replicas
  BY DEF Events, Replicas
<1>2. \A e \in Events \cup backup : e \in UNION Replicas
  BY <1>1 DEF Replicas
<1>3. \A e \in UNION Replicas : e \in Event
  BY DEF DataInv, Replicas
<1>4. ASSUME NEW e \in Events \cup backup
      PROVE  /\ e.kind \in {"role", "lease"} /\ e.node \in Node /\ e.holder \in Node
             /\ e.epoch \in Nat /\ e.at \in 1 .. minted[e.node]
  <2>1. e \in Event /\ e \in UNION Replicas
    BY <1>2, <1>3
  <2>2. /\ e.kind \in {"role", "lease"} /\ e.node \in Node /\ e.holder \in Node
        /\ e.epoch \in Nat /\ e.at \in Nat
    BY <2>1, EventFields
  <2>3. 0 < e.at /\ e.at <= minted[e.node] /\ minted[e.node] \in Nat
    BY <2>1, <2>2 DEF DataInv
  <2> QED BY <2>2, <2>3
<1>5. \A e, f \in Events : e.node = f.node /\ e.at = f.at => e = f
  BY <1>1 DEF DataInv
<1>6. ledger \in [Node -> SUBSET Events]
  BY DEF DataInv, Events
<1>7. ASSUME NEW h \in Handler
      PROVE  /\ op[h].pc \in {"idle", "pull", "free", "active", "seq", "write"}
             /\ (op[h].pc = "write") = (op[h].todo # <<>>)
             /\ \A i \in DOMAIN op[h].todo : op[h].todo[i].at = 0 /\ op[h].todo[i].node = Home[h]
  <2>1. op[h] \in Calls /\ CallOK(h, op[h])
    BY DEF DataInv, CallInv
  <2>2. op[h].pc \in {"idle", "pull", "free", "active", "seq", "write"} /\ op[h].todo \in Seq(Draft)
    BY <2>1 DEF Calls
  <2>3. \A i \in DOMAIN op[h].todo : op[h].todo[i] \in Draft
    BY <2>2
  <2> QED BY <2>1, <2>2, <2>3 DEF CallOK, Draft
<1> QED BY <1>4, <1>5, <1>6, <1>7 DEF TypeOK, DataInv

\* Without a restore no replica loses the founding ledger.
LEMMA NoRewindKept ==
    ASSUME DataInv, CallInv, NoRewindInv, [Next]_vars
    PROVE  NoRewindInv'
<1> USE DEF sync, ghosts
<1> SUFFICES ASSUME ~MayRewind
             PROVE  /\ ~rewound' /\ mark' = [n \in Node |-> MaxEpoch(Founded)]
                    /\ \A X \in Replicas' : Founded \subseteq X
  BY DEF NoRewindInv
<1>0. /\ ~rewound /\ mark = [n \in Node |-> MaxEpoch(Founded)]
      /\ Founded \subseteq hub /\ Founded \subseteq backup /\ \A n \in Node : Founded \subseteq ledger[n]
      /\ ledger \in [Node -> SUBSET Event]
  BY DEF NoRewindInv, Replicas, DataInv
<1>a. SUFFICES /\ rewound' = rewound /\ mark' = mark
               /\ Founded \subseteq hub' /\ Founded \subseteq backup' /\ \A n \in Node : Founded \subseteq ledger'[n]
  BY <1>0 DEF Replicas
<1>1. ASSUME NEW n \in Node, NEW L \in Arrivals(n), NEW ok \in BOOLEAN,
             Arrives(n, L), Reduces(n, L, ok), UNCHANGED sync
      PROVE  rewound' = rewound /\ mark' = mark
               /\ Founded \subseteq hub' /\ Founded \subseteq backup' /\ \A m \in Node : Founded \subseteq ledger'[m]
  <2>1. L = ledger[n] \cup hub /\ ledger'[n] = L /\ \A m \in Node \ {n} : ledger'[m] = ledger[m]
    BY <1>0, <1>1, ArrivalsAre
  <2>2. mark' = mark
    BY <1>1 DEF Reduces
  <2> QED BY <1>0, <1>1, <2>1, <2>2
<1>2. ASSUME NEW h \in Handler, RoleCall(h) \/ LeaseCall(h) \/ CallStep(h)
      PROVE  rewound' = rewound /\ mark' = mark
               /\ Founded \subseteq hub' /\ Founded \subseteq backup' /\ \A m \in Node : Founded \subseteq ledger'[m]
  <2>1. CASE \E c : Becomes(h, c)
    BY <1>0, <2>1 DEF Becomes
  <2>2. CASE \E e, c : Appending(h, e, c)
    <3>1. UNCHANGED <<sync, mark>> /\ \A n \in Node : ledger[n] \subseteq ledger'[n]
      BY <1>0, <2>2 DEF Appending, View
    <3> QED BY <1>0, <3>1
  <2>3. CASE Refresh(h)
    <3>1. PICK L \in Arrivals(Home[h]), ok \in BOOLEAN :
             Arrives(Home[h], L) /\ Reduces(Home[h], L, ok) /\ UNCHANGED sync
      BY <2>3, RefreshIs
    <3> QED BY <1>1, <3>1, HandlersHaveHomes
  <2> QED BY <1>2, <2>1, <2>2, <2>3, CallSteps
<1>3. ASSUME NEW n \in Node, Pull(n)
      PROVE  rewound' = rewound /\ mark' = mark
               /\ Founded \subseteq hub' /\ Founded \subseteq backup' /\ \A m \in Node : Founded \subseteq ledger'[m]
  BY <1>1, <1>3 DEF Pull
<1>4. ASSUME NEW n \in Node, Push(n) \/ Crash(n) \/ Digest(n)
      PROVE  rewound' = rewound /\ mark' = mark
               /\ Founded \subseteq hub' /\ Founded \subseteq backup' /\ \A m \in Node : Founded \subseteq ledger'[m]
  <2>1. UNCHANGED <<ledger, backup, rewound, mark>> /\ hub \subseteq hub'
    BY <1>4 DEF Push, Crash, Digest, Local
  <2> QED BY <1>0, <2>1
<1>5. CASE Backup \/ Restore
  BY <1>5 DEF Backup, Restore
<1>6. CASE Tick
  BY <1>0, <1>6 DEF Tick
<1>7. CASE UNCHANGED vars
  BY <1>0, <1>7 DEF vars
<1> QED BY <1>2, <1>3, <1>4, <1>5, <1>6, <1>7 DEF Next, Environment

\* The mark of a node never exceeds what its ledger shows when it is left alone.
LEMMA EpochGrows ==
    ASSUME NEW L, NEW K, GoodLedger(L), GoodLedger(K), L \subseteq K
    PROVE  MaxEpoch(L) <= MaxEpoch(K)
<1>1. MaxEpoch(K) \in Nat \cup {-1} /\ \A e \in K : e.epoch <= MaxEpoch(K)
  BY MaxEpochOf
<1>2. MaxEpoch(L) = -1 \/ \E e \in L : e.epoch = MaxEpoch(L)
  BY MaxEpochOf
<1> QED BY <1>1, <1>2

\* What FullViewInv says of one call.
FullView(h) ==
    /\ Home[h] \notin Served /\ \A k \in Handler \ {h} : Home[k] = Home[h] => op[k] = Idle
    /\ op[h].pc # "pull" => MaxEpoch(View(h)) >= mark[Home[h]]

\* An authoritative call that has pulled keeps its full view.
LEMMA FullViewKept ==
    ASSUME DataInv, CallInv, NoRewindInv, FullViewInv, [Next]_vars
    PROVE  FullViewInv'
<1> USE DEF sync, ghosts
<1>0. /\ op \in [Handler -> Calls] /\ mark \in [Node -> Nat \cup {-1}] /\ ledger \in [Node -> SUBSET Event]
      /\ \A h \in Handler : Home[h] \in Node
  BY HandlersHaveHomes DEF DataInv
<1>a. ~Authoritative(Idle)
  BY IdleCall
<1>b. SUFFICES ASSUME NEW h \in Handler, Authoritative(op'[h]) PROVE FullView(h)'
  BY DEF FullViewInv, Authoritative, FullView
<1>c. Authoritative(op[h]) => FullView(h)
  BY DEF FullViewInv, FullView
<1>d. ASSUME op'[h] = op[h], ledger'[Home[h]] = ledger[Home[h]], mark'[Home[h]] = mark[Home[h]],
             \A k \in Handler \ {h} : Home[k] = Home[h] => op'[k] \in {op[k], Idle}
      PROVE  FullView(h)'
  BY <1>b, <1>c, <1>d DEF FullView, View
<1>e. ASSUME Authoritative(op[h])
      PROVE  /\ op[h] # Idle /\ ~Open(Home[h])
             /\ \A k \in Handler \ {h} : op[k] # Idle => Home[k] # Home[h]
  <2>1. op[h] # Idle
    BY <1>a, <1>e
  <2>2. ~Alone(Home[h])
    BY <2>1 DEF Alone
  <2> QED BY <1>c, <1>e, <2>1, <2>2 DEF FullView, Open
<1>1. ASSUME NEW k \in Handler, NEW c, Becomes(k, c)
      PROVE  FullView(h)'
  <2>1. op' = [op EXCEPT ![k] = c] /\ ledger' = ledger /\ mark' = mark
    BY <1>1 DEF Becomes
  <2>2. CASE h # k
    <3>1. op'[h] = op[h]
      BY <1>0, <2>1, <2>2
    <3>2. Home[k] # Home[h]
      BY <1>1, <1>b, <1>e, <2>2, <3>1 DEF Becomes
    <3> QED BY <1>0, <1>d, <2>1, <3>1, <3>2
  <2>3. CASE h = k /\ op[h] = Idle /\ Alone(Home[h]) /\ Home[h] \notin Served /\ c.pc = "pull"
    BY <1>0, <2>1, <2>3 DEF FullView, Alone
  <2>4. CASE h = k /\ Authoritative(op[h]) /\ op[h].pc # "pull"
    BY <1>0, <1>c, <2>1, <2>4 DEF FullView, View
  <2>5. h = k => Authoritative(c)
    BY <1>0, <1>b, <2>1
  <2> QED BY <1>1, <2>2, <2>3, <2>4, <2>5 DEF Becomes
<1>2. ASSUME NEW k \in Handler, NEW e, NEW c, Appending(k, e, c)
      PROVE  FullView(h)'
  <2>1. /\ op' = [op EXCEPT ![k] = c] /\ mark' = mark /\ ledger' = [ledger EXCEPT ![Home[k]] = View(k) \cup {e}]
        /\ ~Authoritative(c) /\ op[k] # Idle
    BY <1>2 DEF Appending, Idle
  <2>2. h # k /\ op'[h] = op[h]
    BY <1>0, <1>b, <2>1
  <2>3. Home[k] # Home[h]
    BY <1>b, <1>e, <2>1, <2>2
  <2> QED BY <1>0, <1>d, <2>1, <2>2, <2>3
<1>3. ASSUME NEW n \in Node, NEW L \in Arrivals(n), NEW ok \in BOOLEAN, Arrives(n, L), Reduces(n, L, ok), UNCHANGED sync
      PROVE  /\ Home[h] # n => ledger'[Home[h]] = ledger[Home[h]] /\ mark'[Home[h]] = mark[Home[h]]
             /\ Home[h] = n /\ ok => MaxEpoch(ledger'[n]) >= mark'[n]
  <2>1. /\ GoodLedger(L) /\ ledger'[n] = L /\ (~rewound => L = ledger[n] \cup hub)
        /\ \A m \in Node \ {n} : ledger'[m] = ledger[m]
    BY <1>3, ArrivalsAre
  <2>2. /\ mark' \in [Node -> Nat \cup {-1}] /\ \A k \in Node \ {n} : mark'[k] = mark[k]
        /\ ok /\ MayRewind => mark'[n] = MaxEpoch(L)
    BY <1>3, <2>1, ReducesTypes
  <2>3. MaxEpoch(L) \in Nat \cup {-1}
    BY <2>1, MaxEpochOf
  <2>4. CASE MayRewind
    BY <1>0, <2>1, <2>2, <2>3, <2>4
  <2>5. CASE ~MayRewind
    <3>1. mark' = mark /\ mark[n] = MaxEpoch(Founded) /\ Founded \subseteq L
      <4>1. mark' = mark
        BY <1>3, <2>5 DEF Reduces
      <4>2. ~rewound /\ mark[n] = MaxEpoch(Founded) /\ Founded \subseteq hub
        BY <2>5 DEF NoRewindInv, Replicas
      <4> QED BY <2>1, <4>1, <4>2
    <3>2. GoodLedger(Founded)
      <4>1. Numbered(Founded)
        BY <2>1, <3>1, NumberedSubset DEF GoodLedger
      <4> QED BY <4>1, FoundedIsLedger DEF GoodLedger
    <3>3. MaxEpoch(L) >= mark[n]
      <4>1. MaxEpoch(Founded) <= MaxEpoch(L)
        BY <2>1, <3>1, <3>2, EpochGrows
      <4>2. MaxEpoch(Founded) \in Nat \cup {-1}
        BY <3>2, MaxEpochOf
      <4> QED BY <2>3, <3>1, <4>1, <4>2
    <3> QED BY <1>0, <2>1, <2>2, <3>1, <3>3
  <2> QED BY <2>4, <2>5
<1>4. ASSUME NEW k \in Handler, Refresh(k)
      PROVE  FullView(h)'
  <2>1. PICK L \in Arrivals(Home[k]), ok \in BOOLEAN, c \in Calls :
           /\ Arrives(Home[k], L) /\ Reduces(Home[k], L, ok) /\ UNCHANGED <<sync, minted, now>>
           /\ op[k].pc = "pull" /\ op' = [op EXCEPT ![k] = c] /\ (ok \/ c = Idle) /\ c.pc # "pull"
           /\ Authoritative(c) => Authoritative(op[k])
    BY <1>4, RefreshIs
  <2>2. op[k] # Idle
    BY <2>1 DEF Idle
  <2>3. CASE h # k
    <3>1. op'[h] = op[h]
      BY <1>0, <2>1, <2>3
    <3>2. Home[k] # Home[h]
      BY <1>b, <1>e, <2>2, <2>3, <3>1
    <3>3. ledger'[Home[h]] = ledger[Home[h]] /\ mark'[Home[h]] = mark[Home[h]]
      BY <1>0, <1>3, <2>1, <3>2
    <3> QED BY <1>0, <1>d, <2>1, <3>1, <3>2, <3>3
  <2>4. CASE h = k
    <3>1. op'[h] = c /\ ok /\ Authoritative(op[h])
      BY <1>0, <1>a, <1>b, <2>1, <2>4
    <3>2. MaxEpoch(ledger'[Home[h]]) >= mark'[Home[h]]
      BY <1>0, <1>3, <2>1, <2>4, <3>1
    <3>3. FullView(h) /\ \A m \in Handler \ {h} : op'[m] = op[m]
      BY <1>0, <1>c, <2>1, <2>4, <3>1
    <3> QED BY <3>2, <3>3 DEF FullView, View
  <2> QED BY <2>3, <2>4
<1>5. ASSUME NEW n \in Node, Pull(n)
      PROVE  FullView(h)'
  <2>1. op' = op /\ Open(n) /\ UNCHANGED sync
    BY <1>5 DEF Pull
  <2>2. Home[h] # n
    BY <1>b, <1>e, <2>1
  <2>3. PICK L \in Arrivals(n), ok \in BOOLEAN : Arrives(n, L) /\ Reduces(n, L, ok)
    BY <1>5 DEF Pull
  <2>4. ledger'[Home[h]] = ledger[Home[h]] /\ mark'[Home[h]] = mark[Home[h]]
    BY <1>3, <2>1, <2>2, <2>3
  <2> QED BY <1>d, <2>1, <2>4
<1>6. ASSUME NEW n \in Node, Digest(n)
      PROVE  FullView(h)'
  <2>1. op' = op /\ ledger' = ledger /\ Open(n)
    BY <1>6 DEF Digest
  <2>2. Home[h] # n
    BY <1>b, <1>e, <2>1
  <2>3. PICK ok \in BOOLEAN : Reduces(n, ledger[n], ok)
    BY <1>6 DEF Digest
  <2>4. mark'[Home[h]] = mark[Home[h]]
    BY <1>0, <2>2, <2>3, GoodReplicas, ReducesTypes
  <2> QED BY <1>d, <2>1, <2>4
<1>7. CASE UNCHANGED <<ledger, mark, op>>
  BY <1>d, <1>7
<1>8. ASSUME NEW n \in Node, Crash(n)
      PROVE  FullView(h)'
  <2>1. op' = [k \in Handler |-> IF Home[k] = n THEN Idle ELSE op[k]] /\ ledger' = ledger /\ mark' = mark
    BY <1>8 DEF Crash, Local
  <2>2. op'[h] = op[h]
    BY <1>a, <1>b, <2>1
  <2> QED BY <1>d, <2>1, <2>2
<1>9. CASE Environment
  <2>1. UNCHANGED <<ledger, mark, op>> \/ \E n \in Node : Pull(n) \/ Digest(n) \/ Crash(n)
    BY <1>9 DEF Environment, Push, Backup, Restore, Tick
  <2> QED BY <1>5, <1>6, <1>7, <1>8, <2>1
<1>10. ASSUME NEW k \in Handler, RoleCall(k) \/ LeaseCall(k) \/ CallStep(k)
       PROVE  FullView(h)'
  <2>1. (\E c : Becomes(k, c)) \/ (\E e, c : Appending(k, e, c)) \/ Refresh(k)
    BY <1>10, CallSteps
  <2> QED BY <1>1, <1>2, <1>4, <2>1
<1> QED BY <1>7, <1>9, <1>10 DEF Next, vars

\* So an authoritative grant is written on a full view.
LEMMA AuthoritativeWritesOnFullView ==
    ASSUME DataInv, CallInv, FullViewInv, NEW h \in Handler, WritesGrant(h), Head(op[h].todo).auth
    PROVE  MaxEpoch(View(h)) >= mark[Home[h]]
<1>1. op[h].pc = "write" /\ op[h].what \in {"grant", "renew"} /\ op[h] \in Calls /\ CallOK(h, op[h])
  BY DEF WritesGrant, Appends, DataInv, CallInv
<1>2. op[h].todo \in Seq(Draft) /\ op[h].todo # <<>>
  BY <1>1 DEF CallOK, Calls
<1>3. Head(op[h].todo) = op[h].todo[1]
  BY <1>2
<1>4. Authoritative(op[h])
  BY <1>1, <1>3 DEF Authoritative
<1> QED BY <1>1, <1>4 DEF FullViewInv

(***************************************************************************)
(* One line of coordinators.                                               *)
(*                                                                         *)
(* U is the line: the role events that count.  S are the stretches of it   *)
(* that replicas show: whoever leads on a stretch, and not on all of U, is *)
(* the writer of an event the stretch misses, so it does not read its own  *)
(* ledger that way.                                                        *)
(***************************************************************************)
Chain(S, U) ==
    /\ U \in S
    /\ \A T \in S : T \subseteq U
    /\ \A T, V \in S : T \subseteq V \/ V \subseteq T
    /\ \A T \in S \ {U} : \E e \in U \ T : Coordinator(T).holder \in {Nobody, e.node}
    /\ \A e \in U : e.kind = "role" /\ e.node \in Node /\ e \in ledger[e.node]

\* X shows a stretch of U, and what else it shows changes nothing.
Shows(X, U, S) ==
    /\ X \cap U \in S
    /\ Roles(X, "granted") \subseteq U
    /\ \A d \in Roles(X, "released") : \E r \in Roles(X \cap U, "released") : r.epoch = d.epoch
    /\ \A d \in Roles(X, "claimed") \ U : Roles(X \cap U, "granted") # {}

LineOf(U, S) == Chain(S, U) /\ \A X \in Replicas : Shows(X, U, S)
LineInv == ~forked => \E U, S : LineOf(U, S)

\* The coordinator depends on the authorities alone.
LEMMA SameCoordinator ==
    ASSUME NEW X, NEW Y, Authorities(X) = Authorities(Y)
    PROVE  Coordinator(X) = Coordinator(Y)
BY DEF Coordinator

\* What a replica shows is what its stretch of the line shows.
LEMMA ShownCoordinator ==
    ASSUME NEW X, NEW U, NEW S, Shows(X, U, S)
    PROVE  /\ Coordinator(X) = Coordinator(X \cap U)
           /\ Roles(X, "granted") = Roles(X \cap U, "granted")
           /\ GivenUpEpochs(X) = GivenUpEpochs(X \cap U)
<1>1. Roles(X, "granted") = Roles(X \cap U, "granted")
  BY DEF Shows, Roles
<1>2. GivenUpEpochs(X) = GivenUpEpochs(X \cap U)
  <2>1. Roles(X \cap U, "released") \subseteq Roles(X, "released")
    BY DEF Roles
  <2> QED BY <2>1 DEF GivenUpEpochs, Shows
<1>3. Roles(X, "granted") = {} => Roles(X, "claimed") = Roles(X \cap U, "claimed")
  BY <1>1 DEF Shows, Roles
<1>4. Authorities(X) = Authorities(X \cap U)
  BY <1>1, <1>2, <1>3 DEF Authorities, GivenUpEpochs
<1> QED BY <1>1, <1>2, <1>4, SameCoordinator

\* A leader who reads all of its own ledger reads all of the line.
LEMMA LeaderSeesAll ==
    ASSUME NEW U, NEW S, Chain(S, U), NEW X, Shows(X, U, S), NEW n \in Node, ledger[n] \subseteq X,
           Coordinator(X).holder = n
    PROVE  X \cap U = U
<1>1. Coordinator(X \cap U).holder = n /\ n # Nobody
  BY ShownCoordinator, NodesAreOrdered
<1>2. SUFFICES ASSUME X \cap U # U PROVE FALSE
  OBVIOUS
<1>3. X \cap U \in S \ {U}
  BY <1>2 DEF Shows
<1>4. PICK e \in U \ (X \cap U) : Coordinator(X \cap U).holder \in {Nobody, e.node}
  BY <1>3 DEF Chain
<1>5. e \in ledger[n]
  BY <1>1, <1>4 DEF Chain
<1> QED BY <1>4, <1>5

\* Two replicas merged show a stretch of the line again.
LEMMA MergeShows ==
    ASSUME NEW U, NEW S, Chain(S, U), NEW X, NEW Y, Shows(X, U, S), Shows(Y, U, S)
    PROVE  Shows(X \cup Y, U, S)
<1> DEFINE A == X \cap U
           B == Y \cap U
           Z == X \cup Y
<1>1. A \in S /\ B \in S /\ Z \cap U = A \cup B
  BY DEF Shows
<1>2. Z \cap U \in S
  <2>1. A \subseteq B \/ B \subseteq A
    BY <1>1 DEF Chain
  <2>2. A \cup B = A \/ A \cup B = B
    BY <2>1
  <2> QED BY <1>1, <2>2
<1>3. \A m : Roles(Z, m) = Roles(X, m) \cup Roles(Y, m) /\ Roles(Z \cap U, m) = Roles(A, m) \cup Roles(B, m)
  BY DEF Roles
<1> HIDE DEF Z
<1>4. Roles(Z, "granted") \subseteq U
  BY <1>3 DEF Shows
<1>5. \A d \in Roles(Z, "released") : \E r \in Roles(Z \cap U, "released") : r.epoch = d.epoch
  BY <1>3 DEF Shows
<1>6. \A d \in Roles(Z, "claimed") \ U : Roles(Z \cap U, "granted") # {}
  BY <1>3 DEF Shows
<1>7. Shows(Z, U, S)
  BY <1>2, <1>4, <1>5, <1>6 DEF Shows
<1> QED BY <1>7 DEF Z

\* The founding ledger is a line.
LEMMA InitLine == Init => LineInv
<1> SUFFICES ASSUME Init PROVE \E U, S : LineOf(U, S)
  BY DEF LineInv
<1> DEFINE U == {e \in Founded : e.kind = "role"}
<1>1. \A X \in Replicas : X = Founded
  BY DEF Init, Replicas
<1>2. Chain({U}, U)
  <2>1. \A e \in Founded : e.node \in Node
    BY FoundedIsLedger, EventFields
  <2>2. \A n \in Node : ledger[n] = Founded
    BY DEF Init
  <2> QED BY <2>1, <2>2 DEF Chain
<1>3. Shows(Founded, U, {U})
  <2>1. Founded \cap U = U /\ \A m : Roles(Founded, m) = Roles(U, m) /\ Roles(Founded, m) \subseteq U
    BY DEF Roles
  <2> HIDE DEF U
  <2> QED BY <2>1 DEF Shows
<1>4. LineOf(U, {U})
  BY <1>1, <1>2, <1>3 DEF LineOf
<1> QED BY <1>4

\* An event that confers nothing on a ledger that already grants or gives up as much.
Powerless(L, e) ==
    \/ e.kind # "role"
    \/ e.marker = "claimed" /\ Roles(L, "granted") # {}
    \/ e.marker = "released" /\ e.epoch \in GivenUpEpochs(L)

\* It leaves the coordinator.
LEMMA PowerlessChangesNothing ==
    ASSUME NEW L, NEW e, Powerless(L, e)
    PROVE  Coordinator(L \cup {e}) = Coordinator(L)
<1> DEFINE K == L \cup {e}
<1>1. \A m : Roles(K, m) = IF e.kind = "role" /\ e.marker = m THEN Roles(L, m) \cup {e} ELSE Roles(L, m)
  BY DEF Roles
<1> HIDE DEF K
<1>2. Roles(K, "granted") = Roles(L, "granted")
  BY <1>1 DEF Powerless
<1>3. Roles(K, "granted") # {} \/ Roles(K, "claimed") = Roles(L, "claimed")
  BY <1>1 DEF Powerless
<1>4. GivenUpEpochs(K) = GivenUpEpochs(L)
  BY <1>1 DEF Powerless, GivenUpEpochs
<1>5. Authorities(K) = Authorities(L)
  BY <1>2, <1>3, <1>4 DEF Authorities, GivenUpEpochs
<1>6. Coordinator(K) = Coordinator(L)
  BY <1>5, SameCoordinator
<1> QED BY <1>6 DEF K

\* Ledgers that grow or stay keep their line.
LEMMA LineMerges ==
    ASSUME NEW U, NEW S, LineOf(U, S), \A n \in Node : ledger[n] \subseteq ledger'[n],
           \A X \in Replicas' : \E Y, Z \in Replicas : X = Y \cup Z
    PROVE  LineOf(U, S)'
<1>1. Chain(S, U)'
  BY DEF LineOf, Chain
<1>2. ASSUME NEW X \in Replicas' PROVE Shows(X, U, S)
  BY MergeShows DEF LineOf
<1>3. \A X \in Replicas' : Shows(X, U, S)'
  BY <1>2 DEF Shows
<1> QED BY <1>1, <1>3 DEF LineOf

\* The line is made of events that exist.
LEMMA LineIsWritten ==
    ASSUME DataInv, NEW U, NEW S, LineOf(U, S)
    PROVE  U \subseteq Events /\ U \subseteq UNION Replicas
BY DEF LineOf, Chain, Events, Replicas

\* A new event changes nothing or extends the line, unless it forks it.
LEMMA LineTakesEvent ==
    ASSUME DataInv, CallInv, PendingInv, NEW U, NEW S, LineOf(U, S), ~forked,
           NEW h \in Handler, NEW e, NEW c, Appending(h, e, c), ~forked'
    PROVE  \/ LineOf(U, S)'
           \/ e.kind = "role" /\ LineOf(U \cup {e}, S \cup {U \cup {e}})'
<1> DEFINE n == Home[h]
           L == ledger[n]
           K == L \cup {e}
<1>1. n \in Node /\ ledger \in [Node -> SUBSET Event]
  BY HandlersHaveHomes DEF DataInv
<1>2. /\ ledger'[n] = K /\ \A m \in Node \ {n} : ledger'[m] = ledger[m]
      /\ e.node = n /\ hub' = hub /\ backup' = backup
  BY <1>1 DEF Appending, View, sync
<1>3. e \notin U /\ (\A X \in Replicas : e \notin X) /\ L \in Replicas
  BY <1>1, LineIsWritten DEF Appending, Replicas
<1>4. \A X \in Replicas' : X \in Replicas \/ X = K
  BY <1>1, <1>2 DEF Replicas
<1>5. Chain(S, U) /\ \A X \in Replicas : Shows(X, U, S)
  BY DEF LineOf
<1>6. \A m : Roles(K, m) = IF e.kind = "role" /\ e.marker = m THEN Roles(L, m) \cup {e} ELSE Roles(L, m)
  BY DEF Roles
<1>7. \A f \in U : f \in ledger'[f.node]
  BY <1>1, <1>2, <1>5 DEF Chain
<1>8. CASE Powerless(L, e)
  <2>1. K \cap U = L \cap U
    BY <1>3
  <2>2. Roles(L, "granted") = Roles(L \cap U, "granted") /\ GivenUpEpochs(L) = GivenUpEpochs(L \cap U)
    BY <1>3, <1>5, ShownCoordinator
  <2>3. Shows(L, U, S)
    BY <1>3, <1>5
  <2> HIDE DEF K, L
  <2>4. Roles(K, "granted") \subseteq U
    BY <1>6, <1>8, <2>3 DEF Powerless, Shows
  <2>5. \A d \in Roles(K, "released") : \E r \in Roles(K \cap U, "released") : r.epoch = d.epoch
    <3>1. \A d \in Roles(K, "released") : d.epoch \in GivenUpEpochs(L)
      BY <1>6, <1>8 DEF Powerless, GivenUpEpochs
    <3>2. GivenUpEpochs(L) = GivenUpEpochs(K \cap U)
      BY <2>1, <2>2
    <3> QED BY <3>1, <3>2 DEF GivenUpEpochs
  <2>6. \A d \in Roles(K, "claimed") \ U : Roles(K \cap U, "granted") # {}
    BY <1>6, <1>8, <2>1, <2>2, <2>3 DEF Powerless, Shows
  <2>7. Shows(K, U, S)
    BY <2>1, <2>3, <2>4, <2>5, <2>6 DEF Shows
  <2>8. Chain(S, U)'
    BY <1>5, <1>7 DEF Chain
  <2>9. \A X \in Replicas' : Shows(X, U, S)'
    BY <1>4, <1>5, <2>7 DEF Shows
  <2>10. LineOf(U, S)'
    BY <2>8, <2>9 DEF LineOf
  <2> QED BY <2>10
<1>9. CASE e.kind = "role" /\ L \cap U = U /\ Coordinator(L).holder \in {Nobody, n}
  <2> DEFINE V == U \cup {e}
             R == S \cup {V}
  <2>1. Coordinator(U) = Coordinator(L)
    BY <1>3, <1>5, <1>9, ShownCoordinator
  <2>2. Chain(R, V)'
    <3>1. V \in R /\ (\A T \in R : T \subseteq V) /\ \A T, W \in R : T \subseteq W \/ W \subseteq T
      BY <1>5 DEF Chain
    <3>2. ASSUME NEW T \in R \ {V} PROVE \E f \in V \ T : Coordinator(T).holder \in {Nobody, f.node}
      <4>1. CASE T = U
        BY <1>2, <1>3, <1>9, <2>1, <4>1
      <4>2. CASE T # U
        BY <1>5, <3>2, <4>2 DEF Chain
      <4> QED BY <4>1, <4>2
    <3>3. \A f \in V : f.kind = "role" /\ f.node \in Node /\ f \in ledger'[f.node]
      BY <1>1, <1>2, <1>5, <1>7, <1>9 DEF Chain
    <3> HIDE DEF V, R
    <3> QED BY <3>1, <3>2, <3>3 DEF Chain
  <2>3. ASSUME NEW X \in Replicas PROVE Shows(X, V, R)
    <3>1. X \cap V = X \cap U /\ e \notin X
      BY <1>3
    <3>2. Shows(X, U, S)
      BY <1>5
    <3> QED BY <3>1, <3>2 DEF Shows
  <2>4. Shows(K, V, R)
    <3>1. K \cap V = V /\ Shows(L, U, S) /\ e \in V
      BY <1>3, <1>5, <1>9
    <3>2. \A m : Roles(U, m) \subseteq Roles(V, m) /\ (e.marker = m => e \in Roles(V, m))
      BY <1>9 DEF Roles
    <3>3. V \in R /\ U \subseteq V
      OBVIOUS
    <3> HIDE DEF K, V, R, L
    <3> QED BY <1>6, <1>9, <3>1, <3>2, <3>3 DEF Shows
  <2>5. \A X \in Replicas' : Shows(X, V, R)'
    <3> HIDE DEF V, R
    <3> QED BY <1>4, <2>3, <2>4 DEF Shows
  <2>6. LineOf(V, R)'
    <3> HIDE DEF V, R
    <3> QED BY <2>2, <2>5 DEF LineOf
  <2> QED BY <1>9, <2>6
<1>10. CASE /\ e.kind = "role"
            /\ e.marker = "granted" \/ (e.marker = "claimed" /\ Roles(L, "granted") = {})
  <2>1. ~Forks(h, n, e)
    BY DEF Appending
  <2>2. Coordinator(L).holder \in {Nobody, n} /\ \A f \in Events \ L : f.kind # "role"
    BY <1>10, <2>1 DEF Forks
  <2>3. L \cap U = U
    BY <1>5, <2>2, LineIsWritten DEF Chain
  <2> QED BY <1>9, <1>10, <2>2, <2>3
<1>11. CASE e.kind = "role" /\ e.marker = "released" /\ e.epoch \notin GivenUpEpochs(L)
  <2>1. /\ 1 \in DOMAIN op[h].todo
        /\ op[h].todo[1].kind = "role" /\ op[h].todo[1].marker = "released" /\ op[h].todo[1].epoch = e.epoch
    BY <1>11 DEF Appending
  <2>2. Leads(h)
    BY <1>11, <2>1 DEF PendingInv, View
  <2>3. Coordinator(L).holder = n
    BY <2>2 DEF Leads, View
  <2>4. L \cap U = U
    BY <1>1, <1>3, <1>5, <2>3, LeaderSeesAll
  <2> QED BY <1>9, <1>11, <2>3, <2>4
<1>12. e.kind = "role" => e.marker \in {"claimed", "granted", "released"}
  <2>1. e.kind = "role" => e \in RoleEvent
    BY EventFields DEF Appending
  <2> QED BY <2>1 DEF RoleEvent
<1> QED BY <1>8, <1>10, <1>11, <1>12 DEF Powerless

\* A released role event that h is about to write, and what PendingInv says of it.
GivesUp(h, d) == d.kind = "role" /\ d.marker = "released" /\ \E i \in DOMAIN op[h].todo : d = op[h].todo[i]
Settled(h, d) ==
    \/ d.epoch \in GivenUpEpochs(View(h))
    \/ Leads(h) /\ Coordinator(View(h)).epoch = d.epoch

\* PendingInv in these terms.
LEMMA PendingIs == PendingInv <=> (~forked => \A h \in Handler : \A d : GivesUp(h, d) => Settled(h, d))
<1>1. ASSUME PendingInv, ~forked, NEW h \in Handler, NEW d, GivesUp(h, d) PROVE Settled(h, d)
  BY <1>1 DEF PendingInv, GivesUp, Settled
<1>2. ASSUME \A h \in Handler : \A d : GivesUp(h, d) => Settled(h, d) PROVE PendingInv
  BY <1>2 DEF PendingInv, GivesUp, Settled
<1> QED BY <1>1, <1>2 DEF PendingInv

\* A ledger that takes in others shows no other coordinator to whoever leads on it.
LEMMA LeaderStays ==
    ASSUME DataInv, NEW U, NEW S, LineOf(U, S), NEW h \in Handler, NEW L, Shows(L, U, S), View(h) \subseteq L,
           Leads(h)
    PROVE  Coordinator(L) = Coordinator(View(h))
<1>1. Home[h] \in Node /\ Chain(S, U) /\ Shows(View(h), U, S)
  BY HandlersHaveHomes DEF LineOf, View, Replicas
<1>2. View(h) \cap U = U
  BY <1>1, LeaderSeesAll DEF Leads, View
<1>3. L \cap U = U
  BY <1>2
<1> QED BY <1>1, <1>2, <1>3, ShownCoordinator

\* A pull keeps what is about to be given up.
LEMMA PendingPulled ==
    ASSUME DataInv, PendingInv, NEW U, NEW S, LineOf(U, S), ~forked, NEW n \in Node, NEW L \in Arrivals(n),
           Arrives(n, L), ~forked', \A h \in Handler : op'[h] = op[h] \/ op'[h].todo = <<>>
    PROVE  PendingInv'
<1>1. /\ L \in {ledger[n] \cup hub, hub} /\ ledger[n] \subseteq L /\ ledger'[n] = L
      /\ \A m \in Node \ {n} : ledger'[m] = ledger[m]
  BY ArrivalsAre
<1>2. Shows(L, U, S)
  <2>1. {hub, ledger[n]} \subseteq Replicas
    BY DEF Replicas
  <2> QED BY <1>1, <2>1, MergeShows DEF LineOf
<1>3. ASSUME NEW h \in Handler, NEW d, GivesUp(h, d)' PROVE Settled(h, d)'
  <2>1. op'[h] = op[h] /\ GivesUp(h, d)
    BY <1>3 DEF GivesUp
  <2>2. Settled(h, d)
    BY <2>1, PendingIs
  <2>3. Home[h] \in Node
    BY HandlersHaveHomes
  <2>4. CASE Home[h] # n
    BY <1>1, <2>2, <2>3, <2>4 DEF Settled, View, Leads
  <2>5. CASE Home[h] = n
    <3>1. View(h) \subseteq L /\ View(h)' = L
      BY <1>1, <2>5 DEF View
    <3>2. CASE d.epoch \in GivenUpEpochs(View(h))
      BY <3>1, <3>2 DEF Settled, GivenUpEpochs, Roles
    <3>3. CASE Leads(h) /\ Coordinator(View(h)).epoch = d.epoch
      <4>1. Coordinator(L) = Coordinator(View(h))
        BY <1>2, <3>1, <3>3, LeaderStays
      <4> QED BY <3>1, <3>3, <4>1 DEF Settled, Leads
    <3> QED BY <2>2, <3>2, <3>3 DEF Settled
  <2> QED BY <2>4, <2>5
<1> QED BY <1>3 DEF PendingInv, GivesUp, Settled

\* A new event keeps it, unless it forks the line.
LEMMA PendingAppended ==
    ASSUME DataInv, CallInv, PendingInv, NEW U, NEW S, LineOf(U, S), ~forked,
           NEW k \in Handler, NEW e, NEW c, Appending(k, e, c), ~forked'
    PROVE  PendingInv'
<1> DEFINE n == Home[k]
           L == ledger[n]
<1>1. /\ n \in Node /\ ledger \in [Node -> SUBSET Event] /\ op \in [Handler -> Calls]
      /\ \A h \in Handler : Home[h] \in Node
  BY HandlersHaveHomes DEF DataInv
<1>2. /\ ledger'[n] = L \cup {e} /\ \A m \in Node \ {n} : ledger'[m] = ledger[m]
      /\ op' = [op EXCEPT ![k] = c] /\ \A i \in DOMAIN c.todo : c.todo[i].marker # "released"
  BY <1>1 DEF Appending, View
<1>3. ASSUME NEW h \in Handler, NEW d, GivesUp(h, d)' PROVE Settled(h, d)'
  <2>1. h # k
    BY <1>1, <1>2, <1>3 DEF GivesUp
  <2>2. op'[h] = op[h] /\ GivesUp(h, d)
    BY <1>1, <1>2, <1>3, <2>1 DEF GivesUp
  <2>3. Settled(h, d)
    BY <2>2, PendingIs
  <2>4. CASE Home[h] # n
    BY <1>1, <1>2, <2>3, <2>4 DEF Settled, View, Leads
  <2>5. CASE Home[h] = n
    <3>1. View(h) = L /\ View(h)' = L \cup {e}
      BY <1>2, <2>5 DEF View
    <3>2. CASE d.epoch \in GivenUpEpochs(L)
      BY <3>1, <3>2 DEF Settled, GivenUpEpochs, Roles
    <3>3. CASE Leads(h) /\ Coordinator(L).epoch = d.epoch /\ Powerless(L, e)
      <4>1. Coordinator(L \cup {e}) = Coordinator(L)
        BY <3>3, PowerlessChangesNothing
      <4> QED BY <3>1, <3>3, <4>1 DEF Settled, Leads
    <3>4. CASE /\ e.kind = "role" /\ e.marker = "released" /\ e.epoch \notin GivenUpEpochs(L)
               /\ Coordinator(L).epoch = d.epoch
      <4>1. /\ 1 \in DOMAIN op[k].todo
            /\ op[k].todo[1].kind = "role" /\ op[k].todo[1].marker = "released" /\ op[k].todo[1].epoch = e.epoch
        BY <3>4 DEF Appending
      <4>2. Coordinator(L).epoch = e.epoch
        BY <3>4, <4>1 DEF PendingInv, View
      <4>3. e \in Roles(L \cup {e}, "released") /\ e.epoch = d.epoch
        BY <3>4, <4>2 DEF Roles
      <4> QED BY <3>1, <4>3 DEF Settled, GivenUpEpochs
    <3>5. CASE /\ e.kind = "role"
               /\ e.marker = "granted" \/ (e.marker = "claimed" /\ Roles(L, "granted") = {})
      <4>1. op[h].what \in {"transfer", "release"}
        <5>1. CallOK(h, op[h])
          BY DEF CallInv
        <5> QED BY <2>2, <5>1 DEF CallOK, GivesUp
      <4>2. Forks(k, n, e)
        BY <2>1, <2>5, <3>5, <4>1 DEF Forks
      <4> QED BY <4>2 DEF Appending
    <3>6. e.kind = "role" => e.marker \in {"claimed", "granted", "released"}
      <4>1. e.kind = "role" => e \in RoleEvent
        BY EventFields DEF Appending
      <4> QED BY <4>1 DEF RoleEvent
    <3> QED BY <2>3, <3>1, <3>2, <3>3, <3>4, <3>5, <3>6 DEF Settled, Powerless
  <2> QED BY <2>4, <2>5
<1> QED BY <1>3 DEF PendingInv, GivesUp, Settled

\* Calls that only forget, or give up what they lead at, and replicas that only grow.
LEMMA PendingStays ==
    ASSUME DataInv, PendingInv, UNCHANGED <<ledger, forked>>,
           \A h \in Handler : \/ op'[h] = op[h] \/ op'[h].todo = <<>>
                              \/ \A i \in DOMAIN op'[h].todo :
                                   op'[h].todo[i].kind = "role" /\ op'[h].todo[i].marker = "released" =>
                                      Leads(h) /\ Coordinator(View(h)).epoch = op'[h].todo[i].epoch
    PROVE  PendingInv'
BY DEF PendingInv, View, Leads

\* The line and what is about to leave it, over every step.
LineAndPending == PendingInv /\ LineInv

\* Every step keeps the line.
LEMMA LineKept ==
    ASSUME DataInv, CallInv, LineAndPending, [Next]_vars
    PROVE  LineAndPending'
<1> USE DEF sync, ghosts
<1>1. CASE forked'
  BY <1>1 DEF LineAndPending, PendingInv, LineInv
<1> SUFFICES ASSUME ~forked' PROVE LineAndPending'
  BY <1>1
<1>0. /\ op \in [Handler -> Calls] /\ \A h \in Handler : Home[h] \in Node
      /\ {hub, backup} \subseteq Replicas /\ \A n \in Node : ledger[n] \in Replicas
      /\ DataInv'
  BY HandlersHaveHomes, DataKept DEF DataInv, Replicas
<1>2. CASE forked
  <2>1. ASSUME NEW h \in Handler, RoleCall(h) \/ LeaseCall(h) \/ CallStep(h) PROVE forked'
    <3>1. (\E d : Becomes(h, d)) \/ (\E e, d : Appending(h, e, d)) \/ Refresh(h)
      BY <2>1, CallSteps
    <3> QED BY <1>2, <3>1 DEF Becomes, Appending, Refresh, Arrives
  <2>2. ASSUME Environment PROVE forked'
    BY <1>2, <2>2 DEF Environment, Pull, Arrives, Digest, Push, Crash, Local, Backup, Restore, Tick
  <2> QED BY <1>2, <2>1, <2>2 DEF Next, vars
<1>3. CASE ~forked
  <2>0. PICK U, S : LineOf(U, S)
    BY <1>3 DEF LineAndPending, LineInv
  <2>1. ASSUME NEW n \in Node, NEW L \in Arrivals(n), Arrives(n, L), UNCHANGED <<sync, minted>>,
               \A h \in Handler : op'[h] = op[h] \/ op'[h].todo = <<>>
        PROVE  LineAndPending'
    <3>1. PendingInv'
      BY <1>3, <2>0, <2>1, PendingPulled DEF LineAndPending
    <3>2. /\ L \in {ledger[n] \cup hub, hub} /\ ledger[n] \subseteq L /\ ledger'[n] = L
          /\ \A m \in Node \ {n} : ledger'[m] = ledger[m] /\ ledger' \in [Node -> SUBSET Event]
      BY <2>1, ArrivalsAre
    <3>3. Synchronises
      BY <1>0, <2>1, <3>2 DEF Synchronises, DataInv
    <3>4. LineOf(U, S)'
      BY <2>0, <3>2, <3>3, SynchronisedKeeps, LineMerges
    <3> QED BY <3>1, <3>4 DEF LineAndPending, LineInv
  <2>2. ASSUME Synchronises, UNCHANGED <<ledger, forked>>,
               \A h \in Handler : \/ op'[h] = op[h] \/ op'[h].todo = <<>>
                              \/ \A i \in DOMAIN op'[h].todo :
                                   op'[h].todo[i].kind = "role" /\ op'[h].todo[i].marker = "released" =>
                                      Leads(h) /\ Coordinator(View(h)).epoch = op'[h].todo[i].epoch
        PROVE  LineAndPending'
    <3>1. PendingInv'
      BY <2>2, PendingStays DEF LineAndPending
    <3>2. LineOf(U, S)'
      BY <2>0, <2>2, SynchronisedKeeps, LineMerges
    <3> QED BY <3>1, <3>2 DEF LineAndPending, LineInv
  <2>3. ASSUME NEW h \in Handler, RoleCall(h) \/ LeaseCall(h) \/ CallStep(h)
        PROVE  LineAndPending'
    <3>1. ASSUME NEW d, Becomes(h, d) PROVE LineAndPending'
      <4>1. Synchronises /\ UNCHANGED <<ledger, forked>>
        BY <1>0, <3>1 DEF Becomes, Synchronises, DataInv
      <4>2. op' = [op EXCEPT ![h] = d]
        BY <3>1 DEF Becomes
      <4>3. /\ \A k \in Handler \ {h} : op'[k] = op[k]
            /\ op'[h] = d
        BY <1>0, <4>2
      <4>4. \A i \in DOMAIN d.todo : d.todo[i].kind = "role" /\ d.todo[i].marker = "released" =>
                                      Leads(h) /\ Coordinator(View(h)).epoch = d.todo[i].epoch
        BY <3>1 DEF Becomes
      <4> QED BY <2>2, <4>1, <4>3, <4>4
    <3>2. ASSUME NEW e, NEW d, Appending(h, e, d) PROVE LineAndPending'
      <4>1. PendingInv'
        BY <1>3, <2>0, <3>2, PendingAppended DEF LineAndPending
      <4>2. \E V, R : LineOf(V, R)'
        BY <1>3, <2>0, <3>2, LineTakesEvent DEF LineAndPending
      <4> QED BY <4>1, <4>2 DEF LineAndPending, LineInv
    <3>3. CASE Refresh(h)
      <4>1. PICK L \in Arrivals(Home[h]), ok \in BOOLEAN, d \in Calls :
               /\ Arrives(Home[h], L) /\ UNCHANGED <<sync, minted, now>>
               /\ op' = [op EXCEPT ![h] = d] /\ d.todo = <<>>
        BY <3>3, RefreshIs
      <4>2. \A k \in Handler : op'[k] = op[k] \/ op'[k].todo = <<>>
        BY <1>0, <4>1
      <4> QED BY <1>0, <2>1, <4>1, <4>2
    <3> QED BY <2>3, <3>1, <3>2, <3>3, CallSteps
  <2>4. ASSUME NEW n \in Node, Pull(n) PROVE LineAndPending'
    <3>1. (\E L \in Arrivals(n) : Arrives(n, L)) /\ UNCHANGED <<sync, minted, op>>
      BY <2>4 DEF Pull
    <3> QED BY <2>1, <3>1
  <2>5. ASSUME NEW n \in Node, Digest(n) \/ Push(n) PROVE LineAndPending'
    <3>1. UNCHANGED <<ledger, forked, op>> /\ Synchronises
      BY <1>0, <2>5 DEF Digest, Push, Synchronises, DataInv
    <3> QED BY <2>2, <3>1
  <2>6. ASSUME NEW n \in Node, Crash(n) PROVE LineAndPending'
    <3>1. UNCHANGED <<ledger, forked>> /\ Synchronises
      BY <1>0, <2>6 DEF Crash, Local, Synchronises, DataInv
    <3>2. \A k \in Handler : op'[k] = op[k] \/ op'[k].todo = <<>>
      BY <2>6, IdleCall DEF Crash
    <3> QED BY <2>2, <3>1, <3>2
  <2>7. CASE Backup \/ Restore \/ Tick \/ UNCHANGED vars
    <3>1. UNCHANGED <<ledger, forked, op>> /\ Synchronises
      BY <1>0, <2>7 DEF Backup, Restore, Tick, vars, Synchronises, DataInv
    <3> QED BY <2>2, <3>1
  <2> QED BY <2>3, <2>4, <2>5, <2>6, <2>7 DEF Next, Environment
<1> QED BY <1>2, <1>3

(***************************************************************************)
(* The steps, by what they do to ledgers and calls.                        *)
(***************************************************************************)
\* A pull, or a call's pull, leaves L on n.
Pulls(n, L) ==
    /\ L \in Arrivals(n) /\ Arrives(n, L) /\ UNCHANGED <<sync, minted, now>>
    /\ Open(n) \/ \E k \in Handler : Home[k] = n /\ op[k].pc = "pull"
    /\ \A h \in Handler :
          \/ op'[h] \in {op[h], Idle}
          \/ /\ Home[h] = n /\ op[h].pc = "pull" /\ op[h].todo = <<>> /\ op'[h].pc \in {"free", "active"}
             /\ op'[h].want = op[h].want /\ op'[h].what = op[h].what /\ op'[h].todo = <<>>

\* Nothing happens to the ledgers, and calls at most end.
Rests ==
    /\ Synchronises /\ UNCHANGED <<ledger, ghosts>> /\ now <= now'
    /\ \A h \in Handler : op'[h] \in {op[h], Idle}

\* A step moves one call, appends one event, pulls, or leaves ledgers alone.
LEMMA StepKinds ==
    ASSUME DataInv, CallInv, [Next]_vars
    PROVE  \/ \E h \in Handler : \E c : Becomes(h, c)
           \/ \E h \in Handler : \E e, c : Appending(h, e, c)
           \/ \E n \in Node : \E L : Pulls(n, L)
           \/ Rests
<1> USE DEF sync, ghosts
<1>0. /\ {hub, backup} \subseteq Replicas /\ op \in [Handler -> Calls] /\ now \in Nat
      /\ ledger \in [Node -> SUBSET Event] /\ \A h \in Handler : Home[h] \in Node
  BY HandlersHaveHomes DEF DataInv, Replicas
<1>1. ASSUME NEW h \in Handler, Refresh(h) PROVE \E n \in Node : \E L : Pulls(n, L)
  <2>1. PICK L \in Arrivals(Home[h]), ok \in BOOLEAN, c \in Calls :
           /\ Arrives(Home[h], L) /\ UNCHANGED <<sync, minted, now>>
           /\ op[h].pc = "pull" /\ op[h].todo = <<>> /\ op' = [op EXCEPT ![h] = c] /\ c.todo = <<>>
           /\ c = Idle \/ (c.pc \in {"free", "active"} /\ c.want = op[h].want /\ c.what = op[h].what)
    BY <1>1, RefreshIs
  <2>2. op'[h] = c /\ \A k \in Handler \ {h} : op'[k] = op[k]
    BY <1>0, <2>1
  <2>3. Pulls(Home[h], L)
    BY <2>1, <2>2 DEF Pulls
  <2> QED BY <1>0, <2>3
<1>2. ASSUME NEW n \in Node, Pull(n) PROVE \E L : Pulls(n, L)
  BY <1>2 DEF Pull, Pulls
<1>3. ASSUME NEW n \in Node, Digest(n) \/ Push(n) PROVE Rests
  BY <1>0, <1>3 DEF Digest, Push, Rests, Synchronises
<1>4. ASSUME NEW n \in Node, Crash(n) PROVE Rests
  BY <1>0, <1>4 DEF Crash, Local, Rests, Synchronises
<1>5. CASE Backup \/ Restore \/ UNCHANGED vars
  BY <1>0, <1>5 DEF Backup, Restore, vars, Rests, Synchronises
<1>6. CASE Tick
  BY <1>0, <1>6 DEF Tick, Rests, Synchronises
<1>7. ASSUME NEW h \in Handler, RoleCall(h) \/ LeaseCall(h) \/ CallStep(h)
      PROVE  (\E c : Becomes(h, c)) \/ (\E e, c : Appending(h, e, c)) \/ Refresh(h)
  BY <1>7, CallSteps
<1> QED BY <1>1, <1>2, <1>3, <1>4, <1>5, <1>6, <1>7 DEF Next, Environment

\* A pull that does not fork makes one ledger grow.
LEMMA PullGrows ==
    ASSUME DataInv, NEW n \in Node, NEW L, Pulls(n, L)
    PROVE  /\ Synchronises /\ outdated' = outdated
           /\ ~forked' => ~forked /\ \A m \in Node : ledger[m] \subseteq ledger'[m]
           /\ \A m \in Node \ {n} : ledger'[m] = ledger[m]
<1>1. /\ L \in {ledger[n] \cup hub, hub} /\ ledger' \in [Node -> SUBSET Event] /\ ledger'[n] = L
      /\ \A m \in Node \ {n} : ledger'[m] = ledger[m]
      /\ forked' = (forked \/ ~(ledger[n] \subseteq L)) /\ outdated' = outdated
  BY ArrivalsAre DEF Pulls
<1>2. {hub, backup} \subseteq Replicas
  BY DEF Replicas
<1> QED BY <1>1, <1>2 DEF Synchronises, Pulls, sync

\* Every replica keeps the founding ledger.
LEMMA FoundedKept ==
    ASSUME DataInv, CallInv, FoundedInv, [Next]_vars
    PROVE  FoundedInv'
<1>1. ASSUME Synchronises PROVE FoundedInv'
  BY <1>1, SynchronisedKeeps DEF FoundedInv
<1>2. ASSUME NEW h \in Handler, NEW c, Becomes(h, c) PROVE FoundedInv'
  BY <1>2 DEF Becomes, FoundedInv, Replicas, sync
<1>3. ASSUME NEW h \in Handler, NEW e, NEW c, Appending(h, e, c) PROVE FoundedInv'
  <2>1. Home[h] \in Node /\ ledger \in [Node -> SUBSET Event]
    BY HandlersHaveHomes DEF DataInv
  <2>2. \A X \in Replicas' : X \in Replicas \/ X = ledger[Home[h]] \cup {e}
    BY <1>3, <2>1 DEF Appending, Replicas, View, sync
  <2>3. ledger[Home[h]] \in Replicas
    BY <2>1 DEF Replicas
  <2> QED BY <2>2, <2>3 DEF FoundedInv
<1> QED BY <1>1, <1>2, <1>3, StepKinds, PullGrows DEF Rests

\* At the start every replica is the founding ledger.
LEMMA InitFounded == Init => FoundedInv
BY DEF Init, FoundedInv, Replicas

(***************************************************************************)
(* What comes with an event.                                               *)
(***************************************************************************)
\* A grant that is ended stays in a larger ledger.
LEMMA EndsOneGrows ==
    ASSUME NEW r, NEW X, NEW Y, X \subseteq Y, EndsOne(r, X)
    PROVE  EndsOne(r, Y)
BY DEF EndsOne, Grants

\* At the start causality holds.
LEMMA InitCausal == Init => CausalInv
<1> SUFFICES ASSUME Init PROVE CausalInv
  OBVIOUS
<1>1. \A X \in Replicas : X = Founded
  BY DEF Init, Replicas
<1>2. \A e \in Founded : e.node \in Node /\ ledger[e.node] = Founded /\ ~IsEnd(e)
  BY FoundedIsLedger, FoundedGrantsOnce, EventFields DEF Init, IsEnd
<1>3. \A h \in Handler : op[h].todo = <<>>
  BY DEF Init, Idle
<1> QED BY <1>1, <1>2, <1>3 DEF CausalInv

\* Ledgers that merge keep it.
LEMMA CausalGrows ==
    ASSUME CausalInv, ~forked, DataInv, Synchronises, \A n \in Node : ledger[n] \subseteq ledger'[n],
           \A h \in Handler : \/ op'[h].todo \in {op[h].todo, <<>>}
                              \/ \A i \in DOMAIN op'[h].todo :
                                   IsEnd(op'[h].todo[i]) => EndsOne(op'[h].todo[i], View(h))
    PROVE  CausalInv'
<1>1. \A X \in Replicas' : \E Y, Z \in Replicas : X = Y \cup Z
  BY SynchronisedKeeps
<1>2. \A e \in UNION Replicas' : e \in UNION Replicas
  BY <1>1
<1>3. \A e \in UNION Replicas : e.node \in Node
  <2>1. \A e \in UNION Replicas : e \in Event
    BY DEF DataInv, Replicas
  <2> QED BY <2>1, EventFields
<1>4. \A e \in UNION Replicas' : e \in ledger'[e.node]
  BY <1>2, <1>3 DEF CausalInv
<1>5. \A X \in Replicas' : \A e \in UNION Replicas', f \in X : e.node = f.node /\ e.at < f.at => e \in X
  BY <1>1, <1>2 DEF CausalInv
<1>6. \A X \in Replicas' : \A r \in X : IsEnd(r) => EndsOne(r, X)
  <2>1. ASSUME NEW X \in Replicas', NEW r \in X, IsEnd(r) PROVE EndsOne(r, X)
    <3>1. PICK Y \in Replicas : Y \subseteq X /\ r \in Y
      BY <1>1, <2>1
    <3> QED BY <2>1, <3>1, EndsOneGrows DEF CausalInv
  <2> QED BY <2>1
<1>7. ASSUME NEW h \in Handler, NEW i \in DOMAIN op'[h].todo, IsEnd(op'[h].todo[i])
      PROVE  EndsOne(op'[h].todo[i], View(h)')
  <2>1. EndsOne(op'[h].todo[i], View(h))
    BY <1>7 DEF CausalInv
  <2>2. View(h) \subseteq View(h)'
    BY HandlersHaveHomes DEF View
  <2> QED BY <2>1, <2>2, EndsOneGrows
<1>8. \A h \in Handler : \A i \in DOMAIN op'[h].todo : IsEnd(op'[h].todo[i]) => EndsOne(op'[h].todo[i], View(h)')
  BY <1>7
<1> QED BY <1>4, <1>5, <1>6, <1>8 DEF CausalInv, IsEnd, EndsOne

\* A new event keeps it.
LEMMA CausalAppended ==
    ASSUME CausalInv, ~forked, DataInv, NEW h \in Handler, NEW e, NEW c, Appending(h, e, c)
    PROVE  CausalInv'
<1> DEFINE n == Home[h]
           L == ledger[n]
           K == L \cup {e}
<1>1. n \in Node /\ ledger \in [Node -> SUBSET Event] /\ op \in [Handler -> Calls]
      /\ (\A k \in Handler : Home[k] \in Node) /\ minted \in [Node -> Nat]
  BY HandlersHaveHomes DEF DataInv
<1>2. /\ ledger'[n] = K /\ \A m \in Node \ {n} : ledger'[m] = ledger[m]
      /\ e.node = n /\ e.at = minted[n] + 1 /\ hub' = hub /\ backup' = backup
  BY <1>1 DEF Appending, View, sync
<1>3. /\ L \in Replicas /\ e \notin UNION Replicas
      /\ \A X \in Replicas' : X \in Replicas \/ X = K
  BY <1>1, <1>2 DEF Replicas, Appending
<1>4. \A f \in UNION Replicas : f.node \in Node /\ f.at <= minted[f.node] /\ f.at \in Nat
  <2>1. \A f \in UNION Replicas : f \in Event
    BY DEF DataInv, Replicas
  <2>2. \A f \in UNION Replicas : f.node \in Node /\ f.at \in Nat
    BY <2>1, EventFields
  <2> QED BY <2>2 DEF DataInv
<1>5. \A f \in UNION Replicas' : f = e \/ f \in UNION Replicas
  BY <1>3
<1>6. \A f \in UNION Replicas' : f \in ledger'[f.node]
  BY <1>2, <1>4, <1>5 DEF CausalInv
<1>7. \A X \in Replicas' : \A a \in UNION Replicas', f \in X : a.node = f.node /\ a.at < f.at => a \in X
  <2>1. ASSUME NEW X \in Replicas', NEW a \in UNION Replicas', NEW f \in X, a.node = f.node, a.at < f.at
        PROVE  a \in X
    <3>1. f = e \/ f \in UNION Replicas
      BY <1>5
    <3>2. a # e
      BY <1>1, <1>2, <1>4, <2>1, <3>1
    <3>3. a \in UNION Replicas
      BY <1>5, <3>2
    <3>4. CASE X \in Replicas
      BY <2>1, <3>3, <3>4 DEF CausalInv
    <3>5. CASE X = K /\ f = e
      <4>1. a \in ledger[a.node]
        BY <3>3 DEF CausalInv
      <4> QED BY <1>2, <2>1, <3>5, <4>1
    <3>6. CASE X = K /\ f # e
      <4>1. f \in L
        BY <3>6
      <4>2. a \in L
        BY <1>3, <2>1, <3>3, <4>1 DEF CausalInv
      <4> QED BY <3>6, <4>2
    <3> QED BY <1>3, <3>4, <3>5, <3>6
  <2> QED BY <2>1
<1>8. \A X \in Replicas' : \A r \in X : IsEnd(r) => EndsOne(r, X)
  <2>1. ASSUME NEW X \in Replicas', NEW r \in X, IsEnd(r) PROVE EndsOne(r, X)
    <3>1. CASE X \in Replicas
      BY <2>1, <3>1 DEF CausalInv
    <3>2. CASE X = K /\ r \in L
      BY <1>3, <2>1, <3>2, EndsOneGrows DEF CausalInv
    <3>3. CASE X = K /\ r = e
      <4> DEFINE d == op[h].todo[1]
      <4>1. 1 \in DOMAIN op[h].todo /\ IsEnd(d) /\ SameLease(e, d) /\ e.epoch = d.epoch
        BY <2>1, <3>3 DEF Appending, IsEnd
      <4>2. EndsOne(d, L)
        BY <4>1 DEF CausalInv, View
      <4>3. EndsOne(e, L)
        <5> HIDE DEF d
        <5> QED BY <4>1, <4>2 DEF EndsOne, SameLease
      <4> QED BY <3>3, <4>3, EndsOneGrows
    <3> QED BY <1>3, <3>1, <3>2, <3>3
  <2> QED BY <2>1
<1>9. ASSUME NEW k \in Handler, NEW i \in DOMAIN op'[k].todo, IsEnd(op'[k].todo[i])
      PROVE  EndsOne(op'[k].todo[i], View(k)')
  <2>1. View(k) \subseteq View(k)'
    BY <1>1, <1>2 DEF View
  <2>2. PICK j \in DOMAIN op[k].todo : op'[k].todo[i] = op[k].todo[j]
    BY <1>1 DEF Appending
  <2>3. EndsOne(op'[k].todo[i], View(k))
    BY <1>9, <2>2 DEF CausalInv
  <2> QED BY <2>1, <2>3, EndsOneGrows
<1>10. \A k \in Handler : \A i \in DOMAIN op'[k].todo : IsEnd(op'[k].todo[i]) => EndsOne(op'[k].todo[i], View(k)')
  BY <1>9
<1> QED BY <1>6, <1>7, <1>8, <1>10 DEF CausalInv, IsEnd, EndsOne

\* Every step keeps it.
LEMMA CausalKept ==
    ASSUME DataInv, CallInv, CausalInv, [Next]_vars
    PROVE  CausalInv'
<1> SUFFICES ASSUME ~forked' PROVE CausalInv'
  BY DEF CausalInv
<1>0. op \in [Handler -> Calls] /\ {hub, backup} \subseteq Replicas /\ ledger \in [Node -> SUBSET Event]
  BY DEF DataInv, Replicas
<1>1. ASSUME NEW h \in Handler, NEW c, Becomes(h, c) PROVE CausalInv'
  <2>1. Synchronises /\ ~forked /\ ledger' = ledger
    BY <1>0, <1>1 DEF Becomes, Synchronises, sync, ghosts
  <2>2. op' = [op EXCEPT ![h] = c] /\ \A i \in DOMAIN c.todo : IsEnd(c.todo[i]) => EndsOne(c.todo[i], View(h))
    BY <1>1 DEF Becomes, Moves
  <2>3. \A k \in Handler : \/ op'[k].todo \in {op[k].todo, <<>>}
                           \/ \A i \in DOMAIN op'[k].todo :
                                IsEnd(op'[k].todo[i]) => EndsOne(op'[k].todo[i], View(k))
    BY <1>0, <2>2
  <2> QED BY <2>1, <2>3, CausalGrows
<1>2. ASSUME NEW h \in Handler, NEW e, NEW c, Appending(h, e, c) PROVE CausalInv'
  <2>1. ~forked
    BY <1>2 DEF Appending
  <2> QED BY <1>2, <2>1, CausalAppended
<1>3. ASSUME NEW n \in Node, NEW L, Pulls(n, L) PROVE CausalInv'
  <2>1. Synchronises /\ ~forked /\ \A m \in Node : ledger[m] \subseteq ledger'[m]
    BY <1>3, PullGrows
  <2>2. \A k \in Handler : op'[k].todo \in {op[k].todo, <<>>}
    BY <1>3 DEF Pulls, Idle
  <2> QED BY <2>1, <2>2, CausalGrows
<1>4. CASE Rests
  <2>1. Synchronises /\ ~forked /\ ledger' = ledger
    BY <1>4 DEF Rests, ghosts
  <2>2. \A k \in Handler : op'[k].todo \in {op[k].todo, <<>>}
    BY <1>4 DEF Rests, Idle
  <2> QED BY <2>1, <2>2, CausalGrows
<1> QED BY <1>1, <1>2, <1>3, <1>4, StepKinds

\* At most one node leads: each who does reads all of the line on its own ledger.
LEMMA LineMakesSole == LineInv => SoleGrantor
<1> SUFFICES ASSUME LineInv, ~forked, NEW n \in Node, NEW m \in Node,
                    Coordinator(ledger[n]).holder = n, Coordinator(ledger[m]).holder = m
             PROVE  n = m
  BY DEF SoleGrantor
<1>1. PICK U, S : LineOf(U, S)
  BY DEF LineInv
<1>2. Chain(S, U) /\ Shows(ledger[n], U, S) /\ Shows(ledger[m], U, S)
  BY <1>1 DEF LineOf, Replicas
<1>3. ledger[n] \cap U = U /\ ledger[m] \cap U = U
  BY <1>2, LeaderSeesAll
<1>4. Coordinator(ledger[n]) = Coordinator(U) /\ Coordinator(ledger[m]) = Coordinator(U)
  BY <1>2, <1>3, ShownCoordinator
<1> QED BY <1>4

(***************************************************************************)
(* The line and the grants made along it.                                  *)
(***************************************************************************)
\* Whoever granted led on a stretch of the line, and wrote what the stretch misses later.
GrantLine(U, S) ==
    \A g \in LeaseGrants(UNION Replicas) :
        \/ g \in Founded
        \/ \E T \in S : /\ Coordinator(T).holder = g.node
                        /\ \A e \in U \ T : e.node = g.node => g.at < e.at

LeaseLineInv == ~forked => \E U, S : LineOf(U, S) /\ GrantLine(U, S)

\* Whoever leads has every grant there is.
LEMMA LeaderSeesGrants ==
    ASSUME DataInv, FoundedInv, CausalInv, LeaseLineInv, ~forked, NEW n \in Node, Coordinator(ledger[n]).holder = n
    PROVE  LeaseGrants(UNION Replicas) \subseteq ledger[n]
<1>1. PICK U, S : LineOf(U, S) /\ GrantLine(U, S)
  BY DEF LeaseLineInv
<1>2. Chain(S, U) /\ Shows(ledger[n], U, S) /\ ledger[n] \in Replicas
  BY <1>1 DEF LineOf, Replicas
<1>3. ledger[n] \cap U = U
  BY <1>2, LeaderSeesAll
<1>4. Coordinator(U).holder = n
  BY <1>2, <1>3, ShownCoordinator
<1> SUFFICES ASSUME NEW g \in LeaseGrants(UNION Replicas) PROVE g \in ledger[n]
  OBVIOUS
<1>5. g \in UNION Replicas /\ g.node \in Node
  <2>1. g \in UNION Replicas
    BY DEF LeaseGrants
  <2>2. g \in Event
    BY <2>1 DEF DataInv, Replicas
  <2> QED BY <2>1, <2>2, EventFields
<1>6. CASE g \in Founded
  BY <1>2, <1>6 DEF FoundedInv
<1>7. CASE g.node = n
  BY <1>5, <1>7 DEF CausalInv
<1>8. CASE g.node # n /\ g \notin Founded
  <2>1. PICK T \in S : Coordinator(T).holder = g.node /\ \A e \in U \ T : e.node = g.node => g.at < e.at
    BY <1>1, <1>8 DEF GrantLine
  <2>2. T # U
    BY <1>4, <1>8, <2>1
  <2>3. PICK e \in U \ T : Coordinator(T).holder \in {Nobody, e.node}
    BY <1>2, <2>1, <2>2 DEF Chain
  <2>4. e.node = g.node /\ g.at < e.at
    BY <1>5, <2>1, <2>3, NodesAreOrdered
  <2>5. e \in ledger[n]
    BY <1>3, <2>3
  <2> QED BY <1>2, <1>5, <2>4, <2>5 DEF CausalInv
<1> QED BY <1>6, <1>7, <1>8

\* At the start there are only founding grants.
LEMMA InitGrantLine == Init => LeaseLineInv
<1> SUFFICES ASSUME Init PROVE LeaseLineInv
  OBVIOUS
<1>1. ~forked /\ \A X \in Replicas : X = Founded
  BY DEF Init, Replicas
<1>2. PICK U, S : LineOf(U, S)
  BY <1>1, InitLine DEF LineInv
<1>3. GrantLine(U, S)
  BY <1>1 DEF GrantLine, LeaseGrants
<1> QED BY <1>2, <1>3 DEF LeaseLineInv

\* A new event keeps it: a grant is made by whoever leads on all of the line.
LEMMA GrantLineAppended ==
    ASSUME DataInv, CallInv, PendingInv, GrantorInv, NEW U, NEW S, LineOf(U, S), GrantLine(U, S), ~forked,
           NEW h \in Handler, NEW e, NEW c, Appending(h, e, c), ~forked'
    PROVE  LeaseLineInv'
<1> DEFINE n == Home[h]
           V == U \cup {e}
           R == S \cup {V}
<1>1. n \in Node /\ ledger \in [Node -> SUBSET Event] /\ minted \in [Node -> Nat]
  BY HandlersHaveHomes DEF DataInv
<1>2. e.node = n /\ e.at = minted[n] + 1
  BY DEF Appending
<1>3. \A f \in UNION Replicas' : f = e \/ f \in UNION Replicas
  <2>1. \A X \in Replicas' : X \in Replicas \/ X = ledger[n] \cup {e}
    BY <1>1 DEF Appending, Replicas, View, sync
  <2>2. ledger[n] \in Replicas
    BY <1>1 DEF Replicas
  <2> QED BY <2>1, <2>2
<1>4. \A g \in LeaseGrants(UNION Replicas') : g = e \/ g \in LeaseGrants(UNION Replicas)
  BY <1>3 DEF LeaseGrants
<1>5. \A g \in LeaseGrants(UNION Replicas) : g.node = n => g.at < e.at
  <2>1. \A g \in UNION Replicas : g \in Event /\ g.at <= minted[g.node]
    BY DEF DataInv, Replicas
  <2>2. \A g \in UNION Replicas : g.at \in Nat
    BY <2>1, EventFields
  <2> QED BY <1>1, <1>2, <2>1, <2>2 DEF LeaseGrants
<1>6. IsGrant(e) => Coordinator(U).holder = n
  <2>1. SUFFICES ASSUME IsGrant(e) PROVE Coordinator(U).holder = n
    OBVIOUS
  <2>2. Granting(h)
    <3>1. 1 \in DOMAIN op[h].todo /\ IsGrant(op[h].todo[1]) /\ CallOK(h, op[h])
      BY <2>1 DEF Appending, IsGrant, CallInv
    <3> QED BY <3>1 DEF CallOK, Granting
  <2>3. Coordinator(ledger[n]).holder = n
    BY <2>2 DEF GrantorInv, Leads, View
  <2>4. Chain(S, U) /\ Shows(ledger[n], U, S)
    BY <1>1 DEF LineOf, Replicas
  <2>5. ledger[n] \cap U = U
    BY <1>1, <2>3, <2>4, LeaderSeesAll
  <2> QED BY <2>3, <2>4, <2>5, ShownCoordinator
<1>7. U \in S
  BY DEF LineOf, Chain
<1>8. CASE LineOf(U, S)'
  <2>1. ASSUME NEW g \in LeaseGrants(UNION Replicas')
        PROVE  g \in Founded \/ \E T \in S : /\ Coordinator(T).holder = g.node
                                              /\ \A f \in U \ T : f.node = g.node => g.at < f.at
    <3>1. CASE g \in LeaseGrants(UNION Replicas)
      BY <3>1 DEF GrantLine
    <3>2. CASE g = e
      <4>1. IsGrant(e)
        BY <3>2, <2>1 DEF LeaseGrants
      <4> QED BY <1>2, <1>6, <1>7, <3>2, <4>1
    <3> QED BY <1>4, <3>1, <3>2
  <2>2. GrantLine(U, S)'
    BY <2>1 DEF GrantLine, LeaseGrants, IsGrant
  <2> QED BY <1>8, <2>2 DEF LeaseLineInv
<1>9. CASE e.kind = "role" /\ LineOf(V, R)'
  <2>0. ~IsGrant(e)
    BY <1>9 DEF IsGrant
  <2>1. ASSUME NEW g \in LeaseGrants(UNION Replicas')
        PROVE  g \in Founded \/ \E T \in R : /\ Coordinator(T).holder = g.node
                                              /\ \A f \in V \ T : f.node = g.node => g.at < f.at
    <3>1. g \in LeaseGrants(UNION Replicas)
      BY <1>4, <2>0 DEF LeaseGrants
    <3>2. CASE g \notin Founded
      <4>1. PICK T \in S : Coordinator(T).holder = g.node /\ \A f \in U \ T : f.node = g.node => g.at < f.at
        BY <3>1, <3>2 DEF GrantLine
      <4>2. \A f \in V \ T : f.node = g.node => g.at < f.at
        BY <1>2, <1>5, <3>1, <4>1
      <4> QED BY <4>1, <4>2
    <3> QED BY <3>2
  <2> HIDE DEF V, R
  <2>2. GrantLine(V, R)'
    BY <2>1 DEF GrantLine, LeaseGrants, IsGrant
  <2> QED BY <1>9, <2>2 DEF LeaseLineInv
<1> QED BY <1>8, <1>9, LineTakesEvent

\* Every step keeps it.
LEMMA GrantLineKept ==
    ASSUME DataInv, CallInv, PendingInv, GrantorInv, LeaseLineInv, [Next]_vars
    PROVE  LeaseLineInv'
<1> SUFFICES ASSUME ~forked' PROVE LeaseLineInv'
  BY DEF LeaseLineInv
<1>0. op \in [Handler -> Calls] /\ {hub, backup} \subseteq Replicas /\ ledger \in [Node -> SUBSET Event]
  BY DEF DataInv, Replicas
<1>1. ASSUME Synchronises, ~forked, \A n \in Node : ledger[n] \subseteq ledger'[n]
      PROVE  LeaseLineInv'
  <2>1. PICK U, S : LineOf(U, S) /\ GrantLine(U, S)
    BY <1>1 DEF LeaseLineInv
  <2>2. \A X \in Replicas' : \E Y, Z \in Replicas : X = Y \cup Z
    BY <1>1, SynchronisedKeeps
  <2>3. LineOf(U, S)'
    BY <1>1, <2>1, <2>2, LineMerges
  <2>4. LeaseGrants(UNION Replicas') \subseteq LeaseGrants(UNION Replicas)
    BY <2>2 DEF LeaseGrants
  <2>5. GrantLine(U, S)'
    BY <2>1, <2>4 DEF GrantLine, LeaseGrants, IsGrant
  <2> QED BY <2>3, <2>5 DEF LeaseLineInv
<1>2. ASSUME NEW h \in Handler, NEW c, Becomes(h, c) PROVE LeaseLineInv'
  <2>1. Synchronises /\ ~forked /\ ledger' = ledger
    BY <1>0, <1>2 DEF Becomes, Synchronises, sync, ghosts
  <2> QED BY <1>1, <2>1
<1>3. ASSUME NEW h \in Handler, NEW e, NEW c, Appending(h, e, c) PROVE LeaseLineInv'
  <2>1. ~forked
    BY <1>3 DEF Appending
  <2>2. PICK U, S : LineOf(U, S) /\ GrantLine(U, S)
    BY <2>1 DEF LeaseLineInv
  <2> QED BY <1>3, <2>1, <2>2, GrantLineAppended
<1>4. ASSUME NEW n \in Node, NEW L, Pulls(n, L) PROVE LeaseLineInv'
  BY <1>1, <1>4, PullGrows
<1>5. CASE Rests
  BY <1>1, <1>5 DEF Rests, ghosts
<1> QED BY <1>2, <1>3, <1>4, <1>5, StepKinds

(***************************************************************************)
(* Calls of one node that do not overlap.                                  *)
(***************************************************************************)
Solo == \A h, k \in Handler : Home[h] = Home[k] /\ op[h] # Idle /\ op[k] # Idle => h = k

\* At the start no call is under way.
LEMMA InitSolo == Init => Solo
BY DEF Init, Solo

\* Where calls of a daemon do not overlap, no calls of a node do.
LEMMA SoloKept ==
    ASSUME OneCallEach, DataInv, CallInv, Solo, [Next]_vars
    PROVE  Solo'
<1>0. op \in [Handler -> Calls]
  BY DEF DataInv
<1>1. ASSUME NEW h \in Handler, NEW c, Becomes(h, c) PROVE Solo'
  <2>1. op' = [op EXCEPT ![h] = c] /\ (op[h] = Idle => Open(Home[h]))
    BY <1>1 DEF Becomes
  <2>2. op'[h] = c /\ \A k \in Handler \ {h} : op'[k] = op[k]
    BY <1>0, <2>1
  <2>3. CASE op[h] # Idle
    BY <2>2, <2>3 DEF Solo
  <2>4. CASE op[h] = Idle
    <3>1. \A k \in Handler \ {h} : Home[k] = Home[h] => op[k] = Idle
      BY <2>1, <2>4 DEF Open, Alone, OneCallEach
    <3> QED BY <2>2, <3>1 DEF Solo
  <2> QED BY <2>3, <2>4
<1>2. ASSUME NEW h \in Handler, NEW e, NEW c, Appending(h, e, c) PROVE Solo'
  <2>1. op' = [op EXCEPT ![h] = c] /\ op[h] # Idle
    BY <1>2 DEF Appending, Idle
  <2>2. op'[h] = c /\ \A k \in Handler \ {h} : op'[k] = op[k]
    BY <1>0, <2>1
  <2> QED BY <2>1, <2>2 DEF Solo
<1>3. ASSUME NEW n \in Node, NEW L, Pulls(n, L) PROVE Solo'
  <2>1. \A h \in Handler : op'[h] # Idle => op[h] # Idle
    BY <1>3 DEF Pulls, Idle
  <2> QED BY <2>1 DEF Solo
<1>4. CASE Rests
  <2>1. \A h \in Handler : op'[h] # Idle => op[h] # Idle
    BY <1>4 DEF Rests
  <2> QED BY <2>1 DEF Solo
<1> QED BY <1>1, <1>2, <1>3, <1>4, StepKinds

\* A granting call is under way.
LEMMA GrantingIsBusy ==
    ASSUME NEW h \in Handler, Granting(h)
    PROVE  op[h] # Idle
BY DEF Granting, Idle

\* What a granting call asks for stays what it is.
LEMMA GrantBecomes ==
    ASSUME DataInv, CallInv, NEW h \in Handler, NEW c, Becomes(h, c), c.what \in {"grant", "renew"}, op[h] # Idle
    PROVE  /\ Granting(h) /\ Granting(h)' /\ op[h].pc \in {"free", "active", "seq"}
           /\ Asked(h)' \in LeaseEvent /\ Asked(h)'.marker = "granted"
           /\ Asked(h)'.epoch = Asked(h).epoch /\ Asked(h)'.scope = Asked(h).scope /\ Asked(h)'.auth = Asked(h).auth
           /\ op[h].pc = "free" => c.pc = "seq" /\ Asked(h)' = Asked(h) /\ LeaseState(View(h), Asked(h).scope, now) # "held"
           /\ op[h].pc = "active" => c.pc = "seq" /\ LeaseHolder(View(h), Asked(h).scope, now) \in {Nobody, Asked(h)'.holder}
           /\ op[h].pc = "seq" => /\ c.pc = "write" /\ Asked(h)'.holder = Asked(h).holder
                                  /\ Asked(h)'.seq = NextSeq(View(h), Asked(h).scope, Asked(h).epoch)
                                  /\ Asked(h)'.expires = now + TTL
<1> DEFINE w == op[h].want
<1>1. op[h] \in Calls /\ CallOK(h, op[h]) /\ op'[h] = c /\ c \in Calls
  BY DEF DataInv, CallInv, Becomes
<1>2. \/ /\ op[h].pc = "free" /\ c = [op[h] EXCEPT !.pc = "seq"]
         /\ LeaseState(View(h), w.scope, now) # "held"
      \/ /\ op[h].pc = "active" /\ \E x \in Node : c = [op[h] EXCEPT !.pc = "seq", !.want.holder = x]
         /\ LeaseHolder(View(h), w.scope, now) \in {Nobody, c.want.holder}
      \/ /\ op[h].pc = "seq"
         /\ c = [op[h] EXCEPT !.pc = "write", !.want = Nothing,
                              !.todo = <<[w EXCEPT !.seq = NextSeq(View(h), w.scope, w.epoch),
                                                   !.expires = now + TTL]>>]
  BY DEF Becomes, Moves
<1>3. w \in LeaseEvent /\ w.marker = "granted" /\ op[h].what \in {"grant", "renew"} /\ Asked(h) = w
  BY <1>1, <1>2 DEF CallOK, Asked
<1>4. CASE op[h].pc = "free"
  <2>1. c.pc = "seq" /\ c.want = w /\ c.what = op[h].what
    BY <1>1, <1>2, <1>4 DEF Calls
  <2>2. Asked(h)' = w
    BY <1>1, <2>1 DEF Asked
  <2> QED BY <1>1, <1>2, <1>3, <1>4, <2>1, <2>2 DEF Granting
<1>5. CASE op[h].pc = "active"
  <2>1. PICK x \in Node : c = [op[h] EXCEPT !.pc = "seq", !.want.holder = x]
    BY <1>2, <1>5
  <2>2. c.pc = "seq" /\ c.want = [w EXCEPT !.holder = x] /\ c.what = op[h].what
    BY <1>1, <2>1 DEF Calls
  <2>3. Asked(h)' = [w EXCEPT !.holder = x]
    BY <1>1, <2>2 DEF Asked
  <2>4. /\ Asked(h)' \in LeaseEvent /\ Asked(h)'.marker = w.marker /\ Asked(h)'.epoch = w.epoch
        /\ Asked(h)'.scope = w.scope /\ Asked(h)'.auth = w.auth /\ Asked(h)' = c.want
    BY <1>3, <2>2, <2>3 DEF LeaseEvent
  <2> QED BY <1>1, <1>2, <1>3, <1>5, <2>2, <2>4 DEF Granting
<1>6. CASE op[h].pc = "seq"
  <2> DEFINE q == NextSeq(View(h), w.scope, w.epoch)
             d == [w EXCEPT !.seq = q, !.expires = now + TTL]
  <2>1. c = [op[h] EXCEPT !.pc = "write", !.want = Nothing, !.todo = <<d>>]
    BY <1>2, <1>6
  <2>2. c.pc = "write" /\ c.todo = <<d>> /\ c.what = op[h].what
    BY <1>1, <2>1 DEF Calls
  <2>3. Asked(h)' = d
    <3>1. <<d>>[1] = d
      OBVIOUS
    <3> HIDE DEF d
    <3> QED BY <1>1, <2>2, <3>1 DEF Asked
  <2>4. q \in Nat /\ now + TTL \in Nat
    BY NextSeqOf, GoodReplicas, HandlersHaveHomes, BoundsAreNaturals DEF View, DataInv
  <2>5. /\ d \in LeaseEvent /\ d.marker = w.marker /\ d.epoch = w.epoch /\ d.scope = w.scope /\ d.auth = w.auth
        /\ d.holder = w.holder /\ d.seq = q /\ d.expires = now + TTL
    <3> HIDE DEF q
    <3> QED BY <1>3, <2>4 DEF LeaseEvent
  <2> HIDE DEF d
  <2> QED BY <1>1, <1>3, <1>6, <2>2, <2>3, <2>5 DEF Granting
<1> QED BY <1>2, <1>4, <1>5, <1>6

\* Whoever is about to grant still leads.
LEMMA GrantorKept ==
    ASSUME DataInv, CallInv, Solo, LineInv, GrantorInv, [Next]_vars
    PROVE  GrantorInv'
<1> SUFFICES ASSUME ~forked', NEW h \in Handler, Granting(h)'
             PROVE  Leads(h)' /\ Coordinator(View(h)').epoch = Asked(h)'.epoch
  BY DEF GrantorInv
<1>0. op \in [Handler -> Calls] /\ ledger \in [Node -> SUBSET Event] /\ \A k \in Handler : Home[k] \in Node
  BY HandlersHaveHomes DEF DataInv
<1>a. op'[h].what \in {"grant", "renew"}
  BY DEF Granting
<1>b. ASSUME ~forked, Granting(h), View(h)' = View(h), Asked(h)'.epoch = Asked(h).epoch
      PROVE  Leads(h)' /\ Coordinator(View(h)').epoch = Asked(h)'.epoch
  <2>1. Leads(h) /\ Coordinator(View(h)).epoch = Asked(h).epoch
    BY <1>b DEF GrantorInv
  <2> QED BY <1>b, <2>1 DEF Leads
<1>c. ASSUME op'[h] = op[h] PROVE Granting(h) /\ Asked(h)' = Asked(h)
  BY <1>c DEF Granting, Asked
<1>1. ASSUME NEW k \in Handler, NEW c, Becomes(k, c)
      PROVE  Leads(h)' /\ Coordinator(View(h)').epoch = Asked(h)'.epoch
  <2>1. ~forked /\ ledger' = ledger /\ View(h)' = View(h) /\ op' = [op EXCEPT ![k] = c]
    BY <1>1 DEF Becomes, ghosts, View
  <2>2. CASE h # k
    BY <1>0, <1>b, <1>c, <2>1, <2>2
  <2>3. CASE h = k /\ op[h] # Idle
    BY <1>0, <1>1, <1>a, <1>b, <2>1, <2>3, GrantBecomes
  <2>4. CASE h = k /\ op[h] = Idle
    <3>1. op'[h] = c
      BY <1>0, <2>1, <2>4
    <3>2. Leads(h) /\ Coordinator(View(h)).epoch = c.want.epoch /\ c.pc # "write"
      BY <1>1, <1>a, <2>4, <3>1 DEF Becomes, Moves, Idle
    <3> QED BY <2>1, <3>1, <3>2 DEF Asked, Leads
  <2> QED BY <2>2, <2>3, <2>4
<1>2. ASSUME NEW k \in Handler, NEW e, NEW c, Appending(k, e, c)
      PROVE  Leads(h)' /\ Coordinator(View(h)').epoch = Asked(h)'.epoch
  <2>1. ~forked /\ op' = [op EXCEPT ![k] = c] /\ c.what \notin {"grant", "renew"} /\ op[k] # Idle
        /\ ledger' = [ledger EXCEPT ![Home[k]] = View(k) \cup {e}]
    <3>1. op[k].pc = "write" /\ ~forked
      BY <1>2 DEF Appending
    <3>2. op[k] # Idle
      BY <3>1 DEF Idle
    <3> QED BY <1>2, <3>1, <3>2, Zenon DEF Appending
  <2>2. h # k /\ op'[h] = op[h]
    BY <1>0, <1>a, <2>1
  <2>3. Home[h] # Home[k]
    BY <1>c, <2>1, <2>2, GrantingIsBusy DEF Solo
  <2>4. View(h)' = View(h)
    BY <1>0, <2>1, <2>3 DEF View
  <2> QED BY <1>b, <1>c, <2>1, <2>2, <2>4
<1>3. ASSUME NEW n \in Node, NEW L, Pulls(n, L)
      PROVE  Leads(h)' /\ Coordinator(View(h)').epoch = Asked(h)'.epoch
  <2>1. ~forked /\ \A m \in Node : ledger[m] \subseteq ledger'[m]
    BY <1>3, PullGrows
  <2>2. Granting(h) /\ Asked(h)' = Asked(h)
    <3>1. CASE op'[h] = op[h]
      BY <1>c, <3>1
    <3>2. CASE op'[h] # op[h]
      <4>1. /\ op[h].pc = "pull" /\ op'[h].pc \in {"free", "active"}
            /\ op'[h].want = op[h].want /\ op'[h].what = op[h].what
        BY <1>3, <1>a, <3>2 DEF Pulls, Idle
      <4> QED BY <1>a, <4>1 DEF Granting, Asked
    <3> QED BY <3>1, <3>2
  <2>3. Leads(h) /\ Coordinator(View(h)).epoch = Asked(h).epoch
    BY <2>1, <2>2 DEF GrantorInv
  <2>4. CASE Home[h] # n
    <3>1. View(h)' = View(h)
      BY <1>0, <1>3, <2>4, PullGrows DEF View
    <3> QED BY <1>b, <2>1, <2>2, <3>1
  <2>5. CASE Home[h] = n
    <3>1. PICK U, S : LineOf(U, S)
      BY <2>1 DEF LineInv
    <3>2. L \in {ledger[n] \cup hub, hub} /\ ledger'[n] = L
      BY <1>3, ArrivalsAre DEF Pulls
    <3>3. Shows(L, U, S)
      <4>1. {hub, ledger[n]} \subseteq Replicas
        BY DEF Replicas
      <4> QED BY <3>1, <3>2, <4>1, MergeShows DEF LineOf
    <3>4. View(h) \subseteq L /\ View(h)' = L
      BY <2>1, <2>5, <3>2 DEF View
    <3>5. Coordinator(L) = Coordinator(View(h))
      BY <2>3, <3>1, <3>3, <3>4, LeaderStays
    <3> QED BY <2>2, <2>3, <3>4, <3>5 DEF Leads
  <2> QED BY <2>4, <2>5
<1>4. CASE Rests
  <2>1. ~forked /\ View(h)' = View(h)
    BY <1>4 DEF Rests, ghosts, View
  <2>2. op'[h] = op[h]
    BY <1>4, <1>a DEF Rests, Idle
  <2> QED BY <1>b, <1>c, <2>1, <2>2
<1> QED BY <1>1, <1>2, <1>3, <1>4, StepKinds

(***************************************************************************)
(* Ranks of grants.                                                        *)
(***************************************************************************)
\* What a grant that exists is.
LEMMA GrantFields ==
    ASSUME DataInv, NEW g \in LeaseGrants(UNION Replicas)
    PROVE  /\ g \in UNION Replicas /\ g \in LeaseEvent /\ IsGrant(g)
           /\ g.epoch \in Nat /\ g.seq \in Nat /\ g.expires \in Nat /\ g.at \in Nat /\ g.node \in Nat
           /\ g \in Grants(UNION Replicas, g.scope)
<1>1. g \in UNION Replicas /\ IsGrant(g)
  BY DEF LeaseGrants
<1>2. g \in Event
  BY <1>1 DEF DataInv, Replicas
<1>3. g \in LeaseEvent
  BY <1>1, <1>2, EventFields DEF IsGrant
<1>4. g.epoch \in Nat /\ g.seq \in Nat /\ g.expires \in Nat /\ g.at \in Nat /\ g.node \in Nat
  BY <1>3, NodesAreOrdered DEF LeaseEvent
<1>5. g \in Grants(UNION Replicas, g.scope)
  BY <1>1 DEF Grants, IsGrant
<1> QED BY <1>1, <1>3, <1>4, <1>5

\* The grants of a scope.
LEMMA GrantsAre ==
    ASSUME NEW L, NEW s
    PROVE  Grants(L, s) = {g \in LeaseGrants(L) : g.scope = s}
BY DEF Grants, LeaseGrants, IsGrant

\* The invariants about grants hold at the start.
LEMMA InitRanks == Init => GrantorInv /\ RankInv /\ ReadyInv /\ OverInv
<1> SUFFICES ASSUME Init PROVE GrantorInv /\ RankInv /\ ReadyInv /\ OverInv
  OBVIOUS
<1>1. (\A X \in Replicas : X = Founded) /\ hub \in Replicas /\ Events = Founded
  <2>1. (\A X \in Replicas : X = Founded) /\ hub \in Replicas
    BY DEF Init, Replicas
  <2>2. Events = Founded
    BY DEF Init, Events
  <2> QED BY <2>1, <2>2
<1>2. UNION Replicas = Founded
  BY <1>1
<1>3. \A h \in Handler : ~Granting(h)
  BY DEF Init, Granting, Idle
<1>4. \A g, k \in LeaseGrants(Founded) : g.scope = k.scope => g = k
  BY FoundedGrantsOnce DEF LeaseGrants, IsGrant
<1>5. \A g \in LeaseGrants(Founded) : g.expires <= now + TTL
  <2>1. now = 0
    BY DEF Init
  <2> QED BY <2>1, FoundedGrantsOnce, BoundsAreNaturals DEF LeaseGrants, IsGrant
<1>6. \A s \in Scope : \A g, w \in Grants(Founded, s) : g = w /\ g \in Event
  <2>1. \A s \in Scope : \A g \in Grants(Founded, s) : g \in LeaseGrants(Founded) /\ g.scope = s /\ g \in Event
    BY FoundedIsLedger DEF Grants, LeaseGrants, IsGrant
  <2> QED BY <1>4, <2>1
<1>7. \A s \in Scope : \A g \in Grants(Founded, s) : ~Outranks(g, g)
  <2>1. ASSUME NEW s \in Scope, NEW g \in Grants(Founded, s) PROVE ~Outranks(g, g)
    <3>1. g \in LeaseEvent
      BY <1>6, EventFields DEF Grants
    <3>2. g.epoch \in Nat /\ g.seq \in Nat /\ g.at \in Nat /\ g.node \in Nat
      BY <3>1, NodesAreOrdered DEF LeaseEvent
    <3> QED BY <3>2 DEF Outranks, Later
  <2> QED BY <2>1
<1>8. OverInv
  BY <1>1, <1>6, <1>7 DEF OverInv
<1> QED BY <1>2, <1>3, <1>4, <1>5, <1>8 DEF GrantorInv, RankInv, ReadyInv

\* What RankInv says of a draft.
Tops(d) ==
    /\ d.expires <= now + TTL
    /\ \A g \in LeaseGrants(UNION Replicas) :
          g.scope = d.scope => g.expires <= d.expires /\ (g.epoch = d.epoch => g.seq < d.seq)

Apart == \A g, k \in LeaseGrants(UNION Replicas) :
            g.scope = k.scope /\ g.epoch = k.epoch /\ g.seq = k.seq => g = k
Bounded == \A g \in LeaseGrants(UNION Replicas) : g.expires <= now + TTL

\* RankInv in these terms.
LEMMA RankIs ==
    RankInv <=> (~forked => /\ Apart /\ Bounded
                            /\ \A h \in Handler : Granting(h) /\ op[h].pc = "write" => Tops(op[h].todo[1]))
BY GrantsAre DEF RankInv, Apart, Bounded, Tops

\* A draft made now by whoever sees every grant ranks above them.
LEMMA TopsNow ==
    ASSUME DataInv, Bounded, NEW h \in Handler, NEW d, LeaseGrants(UNION Replicas) \subseteq View(h),
           d.expires = now + TTL, d.seq = NextSeq(View(h), d.scope, d.epoch)
    PROVE  Tops(d)
<1>1. GoodLedger(View(h)) /\ now \in Nat
  BY GoodReplicas, HandlersHaveHomes DEF View, DataInv
<1>2. \A g \in Grants(View(h), d.scope) : g.epoch = d.epoch => g.seq < d.seq
  BY <1>1, NextSeqOf
<1>3. \A g \in LeaseGrants(UNION Replicas) : g.scope = d.scope => g \in Grants(View(h), d.scope)
  BY DEF Grants, LeaseGrants, IsGrant
<1>4. now + TTL \in Nat
  BY <1>1, BoundsAreNaturals
<1>5. d.expires <= now + TTL
  BY <1>4
<1>6. ASSUME NEW g \in LeaseGrants(UNION Replicas), g.scope = d.scope
      PROVE  g.expires <= d.expires /\ (g.epoch = d.epoch => g.seq < d.seq)
  BY <1>2, <1>3, <1>6 DEF Bounded
<1> QED BY <1>5, <1>6 DEF Tops

\* Grants that were there before, later.
LEMMA RanksStay ==
    ASSUME DataInv, Apart, Bounded, now <= now', now' \in Nat,
           LeaseGrants(UNION Replicas)' \subseteq LeaseGrants(UNION Replicas)
    PROVE  Apart' /\ Bounded' /\ \A d : Tops(d) /\ d \in LeaseEvent => Tops(d)'
<1>1. Apart'
  BY DEF Apart
<1>2. now \in Nat
  BY DEF DataInv
<1>a. TTL \in Nat
  BY BoundsAreNaturals
<1>3. Bounded'
  <2>1. ASSUME NEW g \in LeaseGrants(UNION Replicas) PROVE g.expires <= now' + TTL
    <3>1. g.expires \in Nat /\ g.expires <= now + TTL
      BY <2>1, GrantFields DEF Bounded
    <3> QED BY <1>2, <1>a, <3>1
  <2> QED BY <2>1 DEF Bounded
<1>4. ASSUME NEW d, Tops(d), d \in LeaseEvent PROVE Tops(d)'
  <2>1. d.expires \in Nat
    BY <1>4 DEF LeaseEvent
  <2>2. d.expires <= now' + TTL
    BY <1>2, <1>a, <1>4, <2>1 DEF Tops
  <2> QED BY <1>4, <2>2 DEF Tops
<1> QED BY <1>1, <1>3, <1>4

\* The event an append adds, and whether it is a grant.
LEMMA GrantIsNew ==
    ASSUME DataInv, CallInv, NEW h \in Handler, NEW e, NEW c, Appending(h, e, c)
    PROVE  /\ \A f \in UNION Replicas' : f = e \/ f \in UNION Replicas
           /\ \A f \in UNION Replicas : f \in UNION Replicas'
           /\ e \in UNION Replicas' /\ e \in ledger'[e.node] /\ e \notin UNION Replicas
           /\ IsGrant(e) <=> Granting(h)
           /\ IsGrant(e) => /\ op[h].pc = "write" /\ e \in LeaseEvent /\ op[h].todo[1] \in LeaseEvent
                            /\ SameLease(e, op[h].todo[1]) /\ e.epoch = op[h].todo[1].epoch
<1>1. Home[h] \in Node /\ ledger \in [Node -> SUBSET Event]
  BY HandlersHaveHomes DEF DataInv
<1>2. /\ ledger' = [ledger EXCEPT ![Home[h]] = View(h) \cup {e}] /\ hub' = hub /\ backup' = backup
      /\ e.node = Home[h]
  BY DEF Appending, sync
<1>3. /\ ledger'[Home[h]] = ledger[Home[h]] \cup {e} /\ \A m \in Node \ {Home[h]} : ledger'[m] = ledger[m]
  BY <1>1, <1>2 DEF View
<1>4. \A X \in Replicas' : X \in Replicas \/ X = ledger[Home[h]] \cup {e}
  BY <1>2, <1>3 DEF Replicas
<1>5. \A X \in Replicas : X \in Replicas' \/ X = ledger[Home[h]]
  BY <1>2, <1>3 DEF Replicas
<1>6. ledger[Home[h]] \cup {e} \in Replicas' /\ ledger[Home[h]] \in Replicas
  BY <1>1, <1>3 DEF Replicas
<1>7. /\ \A f \in UNION Replicas' : f = e \/ f \in UNION Replicas
      /\ \A f \in UNION Replicas : f \in UNION Replicas'
      /\ e \in UNION Replicas' /\ e \in ledger'[e.node] /\ e \notin UNION Replicas
  <2>1. e \notin UNION Replicas
    BY DEF Appending
  <2> QED BY <1>2, <1>3, <1>4, <1>5, <1>6, <2>1
<1>8. /\ op[h].pc = "write" /\ 1 \in DOMAIN op[h].todo /\ CallOK(h, op[h]) /\ e \in Event
      /\ e.kind = op[h].todo[1].kind /\ e.marker = op[h].todo[1].marker /\ e.epoch = op[h].todo[1].epoch
      /\ e.kind = "lease" => SameLease(e, op[h].todo[1])
  BY DEF Appending, CallInv
<1>9. IsGrant(e) <=> IsGrant(op[h].todo[1])
  BY <1>8 DEF IsGrant
<1>10. IsGrant(e) <=> Granting(h)
  BY <1>8, <1>9 DEF CallOK, Granting
<1>11. IsGrant(e) => e \in LeaseEvent /\ op[h].todo[1] \in LeaseEvent /\ e.kind = "lease"
  BY <1>8, <1>10, EventFields DEF IsGrant, CallOK, Granting
<1> QED BY <1>7, <1>8, <1>10, <1>11

\* A new grant ranks above all, and nobody else has a draft.
LEMMA RankAppended ==
    ASSUME DataInv, CallInv, Solo, LineInv, GrantorInv, RankInv, ~forked,
           NEW h \in Handler, NEW e, NEW c, Appending(h, e, c)
    PROVE  RankInv'
<1>1. /\ Apart /\ Bounded /\ SoleGrantor
      /\ \A k \in Handler : Granting(k) /\ op[k].pc = "write" => Tops(op[k].todo[1])
  BY RankIs, LineMakesSole
<1>2. /\ op \in [Handler -> Calls] /\ op' = [op EXCEPT ![h] = c] /\ c.what \notin {"grant", "renew"} /\ now' = now
      /\ \A k \in Handler : Home[k] \in Node
  BY HandlersHaveHomes DEF DataInv, Appending
<1>3. op[h] # Idle
  BY DEF Appending, Idle
<1>4. ASSUME NEW k \in Handler, Granting(k)', op'[k].pc = "write"
      PROVE  k # h /\ op'[k] = op[k] /\ Tops(op[k].todo[1]) /\ op[k].todo[1] \in LeaseEvent /\ Granting(k)
  <2>1. k # h
    BY <1>2, <1>4 DEF Granting
  <2>2. op'[k] = op[k]
    BY <1>2, <2>1
  <2>3. Granting(k) /\ op[k].pc = "write" /\ CallOK(k, op[k]) /\ op[k] \in Calls
    BY <1>2, <1>4, <2>2 DEF Granting, CallInv
  <2>4. op[k].todo \in Seq(Draft) /\ op[k].todo # <<>>
    BY <2>3 DEF CallOK, Calls
  <2>5. 1 \in DOMAIN op[k].todo
    BY <2>4
  <2>6. op[k].todo[1] \in LeaseEvent
    BY <2>3, <2>5 DEF CallOK, Granting
  <2> QED BY <1>1, <2>1, <2>2, <2>3, <2>6
<1>5. CASE ~IsGrant(e)
  <2>1. LeaseGrants(UNION Replicas)' \subseteq LeaseGrants(UNION Replicas)
    BY <1>5, GrantIsNew DEF LeaseGrants, IsGrant
  <2>2. now <= now' /\ now' \in Nat
    BY <1>2 DEF DataInv
  <2>3. Apart' /\ Bounded' /\ \A d : Tops(d) /\ d \in LeaseEvent => Tops(d)'
    BY <1>1, <2>1, <2>2, RanksStay
  <2>4. ASSUME NEW k \in Handler, Granting(k)', op'[k].pc = "write" PROVE Tops(op[k].todo[1])'
    <3> DEFINE d == op[k].todo[1]
    <3>1. Tops(d) /\ d \in LeaseEvent /\ op'[k] = op[k]
      BY <1>4, <2>4
    <3>2. PICK x : x = d
      OBVIOUS
    <3>3. Tops(x)'
      BY <2>3, <3>1, <3>2
    <3>4. op[k].todo[1]' = x
      BY <3>1, <3>2
    <3> QED BY <3>3, <3>4
  <2>5. \A k \in Handler : Granting(k)' /\ op'[k].pc = "write" => Tops(op[k].todo[1])'
    BY <2>4
  <2> QED BY <2>3, <2>5, RankIs DEF RankInv, Tops, Apart, Bounded, Granting, LeaseGrants, IsGrant, Grants
<1>6. CASE IsGrant(e)
  <2> DEFINE d == op[h].todo[1]
  <2>1. /\ Granting(h) /\ op[h].pc = "write" /\ d \in LeaseEvent /\ e \in LeaseEvent
        /\ SameLease(e, d) /\ e.epoch = d.epoch
    BY <1>6, GrantIsNew
  <2>2. Tops(d)
    BY <1>1, <2>1
  <2>3. \A k \in Handler : ~(Granting(k)' /\ op'[k].pc = "write")
    <3>1. ASSUME NEW k \in Handler, Granting(k)', op'[k].pc = "write" PROVE FALSE
      <4>1. k # h /\ Granting(k)
        BY <1>4, <3>1
      <4>2. Leads(k) /\ Leads(h)
        BY <2>1, <4>1 DEF GrantorInv
      <4>3. Home[k] = Home[h]
        BY <1>1, <1>2, <4>2 DEF SoleGrantor, Leads, View
      <4> QED BY <1>3, <4>1, <4>3, GrantingIsBusy DEF Solo
    <3> QED BY <3>1
  <2>4. \A g \in LeaseGrants(UNION Replicas') : g = e \/ g \in LeaseGrants(UNION Replicas)
    BY GrantIsNew DEF LeaseGrants
  <2> HIDE DEF d
  <2>5. \A g \in LeaseGrants(UNION Replicas) : g.scope = e.scope /\ g.epoch = e.epoch => g.seq < e.seq
    BY <2>1, <2>2 DEF Tops, SameLease
  <2>6. \A g \in LeaseGrants(UNION Replicas) : ~(g.scope = e.scope /\ g.epoch = e.epoch /\ g.seq = e.seq)
    <3>1. e.seq \in Nat
      BY <2>1 DEF LeaseEvent
    <3> QED BY <2>5, <3>1, GrantFields
  <2>7. Apart'
    BY <1>1, <2>4, <2>6 DEF Apart, LeaseGrants, IsGrant
  <2>8. Bounded'
    BY <1>1, <1>2, <2>1, <2>2, <2>4 DEF Bounded, Tops, SameLease, LeaseGrants, IsGrant
  <2> QED BY <2>3, <2>7, <2>8 DEF RankInv, Tops, Apart, Bounded, Granting, LeaseGrants, IsGrant, Grants
<1> QED BY <1>5, <1>6

\* Every step keeps the ranks.
LEMMA RankKept ==
    ASSUME DataInv, CallInv, FoundedInv, Solo, CausalInv, LineInv, LeaseLineInv, GrantorInv, RankInv, [Next]_vars
    PROVE  RankInv'
<1> SUFFICES ASSUME ~forked' PROVE RankInv'
  BY DEF RankInv
<1>0. op \in [Handler -> Calls] /\ {hub, backup} \subseteq Replicas /\ ledger \in [Node -> SUBSET Event] /\ now \in Nat
      /\ \A k \in Handler : Home[k] \in Node
  BY HandlersHaveHomes DEF DataInv, Replicas
<1>1. ASSUME Synchronises, ~forked, now <= now', now' \in Nat,
             \A h \in Handler : Granting(h)' /\ op'[h].pc = "write" =>
                Tops(op'[h].todo[1]) /\ op'[h].todo[1] \in LeaseEvent
      PROVE  RankInv'
  <2>1. \A X \in Replicas' : \E Y, Z \in Replicas : X = Y \cup Z
    BY <1>1, SynchronisedKeeps
  <2>2. LeaseGrants(UNION Replicas)' \subseteq LeaseGrants(UNION Replicas)
    BY <2>1 DEF LeaseGrants, IsGrant
  <2>3. Apart' /\ Bounded' /\ \A d : Tops(d) /\ d \in LeaseEvent => Tops(d)'
    BY <1>1, <2>2, RankIs, RanksStay
  <2>4. ASSUME NEW h \in Handler, Granting(h)', op'[h].pc = "write" PROVE Tops(op[h].todo[1])'
    <3>1. PICK x : x = op'[h].todo[1]
      OBVIOUS
    <3>2. Tops(x)'
      BY <1>1, <2>3, <2>4, <3>1
    <3> QED BY <3>1, <3>2
  <2> QED BY <2>3, <2>4 DEF RankInv, Tops, Apart, Bounded, Granting, LeaseGrants, IsGrant, Grants
<1>2. ~forked => \A h \in Handler : Granting(h) /\ op[h].pc = "write" =>
                    Tops(op[h].todo[1]) /\ op[h].todo[1] \in LeaseEvent
  <2>1. ASSUME ~forked, NEW h \in Handler, Granting(h), op[h].pc = "write"
        PROVE  Tops(op[h].todo[1]) /\ op[h].todo[1] \in LeaseEvent
    <3>1. CallOK(h, op[h]) /\ op[h] \in Calls /\ op[h].what \in {"grant", "renew"}
      BY <1>0, <2>1 DEF CallInv, Granting
    <3>2. op[h].todo \in Seq(Draft) /\ op[h].todo # <<>>
      BY <2>1, <3>1 DEF CallOK, Calls
    <3>3. 1 \in DOMAIN op[h].todo
      BY <3>2
    <3> QED BY <2>1, <3>1, <3>3, RankIs DEF CallOK
  <2> QED BY <2>1
<1>3. ASSUME NEW h \in Handler, NEW c, Becomes(h, c) PROVE RankInv'
  <2>1. Synchronises /\ ~forked /\ now' = now /\ op' = [op EXCEPT ![h] = c]
    BY <1>0, <1>3 DEF Becomes, Synchronises, sync, ghosts
  <2>2. op'[h] = c /\ \A k \in Handler \ {h} : op'[k] = op[k]
    BY <1>0, <2>1
  <2>3. ASSUME NEW k \in Handler, Granting(k)', op'[k].pc = "write"
        PROVE  Tops(op'[k].todo[1]) /\ op'[k].todo[1] \in LeaseEvent
    <3>1. CASE k # h
      BY <1>2, <2>1, <2>2, <2>3, <3>1 DEF Granting
    <3>2. CASE k = h
      <4>1. c.what \in {"grant", "renew"} /\ c.pc = "write"
        BY <2>2, <2>3, <3>2 DEF Granting
      <4>2. op[h] # Idle
        <5>1. SUFFICES ASSUME op[h] = Idle PROVE FALSE
          OBVIOUS
        <5>2. c.pc # "write"
          BY <1>3, <4>1, <5>1 DEF Becomes, Moves, Idle
        <5> QED BY <4>1, <5>2
      <4>3. /\ Granting(h) /\ op[h].pc = "seq" /\ Asked(h)' \in LeaseEvent
            /\ Asked(h)'.epoch = Asked(h).epoch /\ Asked(h)'.scope = Asked(h).scope
            /\ Asked(h)'.seq = NextSeq(View(h), Asked(h).scope, Asked(h).epoch)
            /\ Asked(h)'.expires = now + TTL
        BY <1>3, <4>1, <4>2, GrantBecomes
      <4>4. Asked(h)' = op'[k].todo[1]
        BY <2>3, <3>2 DEF Asked
      <4>5. Leads(h)
        BY <2>1, <4>3 DEF GrantorInv
      <4>6. LeaseGrants(UNION Replicas) \subseteq View(h)
        BY <1>0, <2>1, <4>5, LeaderSeesGrants DEF Leads, View
      <4>7. PICK d : d = op'[k].todo[1]
        OBVIOUS
      <4>8. Tops(d)
        BY <2>1, <4>3, <4>4, <4>6, <4>7, RankIs, TopsNow
      <4> QED BY <4>3, <4>4, <4>7, <4>8
    <3> QED BY <3>1, <3>2
  <2>4. \A k \in Handler : Granting(k)' /\ op'[k].pc = "write" => Tops(op'[k].todo[1]) /\ op'[k].todo[1] \in LeaseEvent
    BY <2>3
  <2>5. now <= now' /\ now' \in Nat
    BY <1>0, <2>1
  <2> QED BY <1>1, <2>1, <2>4, <2>5
<1>4. ASSUME NEW h \in Handler, NEW e, NEW c, Appending(h, e, c) PROVE RankInv'
  <2>1. ~forked
    BY <1>4 DEF Appending
  <2> QED BY <1>4, <2>1, RankAppended
<1>5. ASSUME NEW n \in Node, NEW L, Pulls(n, L) PROVE RankInv'
  <2>1. Synchronises /\ ~forked /\ now' = now
    BY <1>5, PullGrows DEF Pulls
  <2>2. \A k \in Handler : op'[k].pc = "write" => op'[k] = op[k]
    BY <1>5 DEF Pulls, Idle
  <2>3. \A k \in Handler : Granting(k)' /\ op'[k].pc = "write" => Tops(op'[k].todo[1]) /\ op'[k].todo[1] \in LeaseEvent
    BY <1>2, <2>1, <2>2 DEF Granting
  <2>4. now <= now' /\ now' \in Nat
    BY <1>0, <2>1
  <2> QED BY <1>1, <2>1, <2>3, <2>4
<1>6. CASE Rests
  <2>1. Synchronises /\ ~forked /\ now <= now'
    BY <1>6 DEF Rests, ghosts
  <2>2. \A k \in Handler : op'[k].pc = "write" => op'[k] = op[k]
    BY <1>6 DEF Rests, Idle
  <2>3. \A k \in Handler : Granting(k)' /\ op'[k].pc = "write" => Tops(op'[k].todo[1]) /\ op'[k].todo[1] \in LeaseEvent
    BY <1>2, <2>1, <2>2 DEF Granting
  <2>4. now' \in Nat
    <3>1. DataInv'
      BY DataKept
    <3> QED BY <3>1 DEF DataInv
  <2> QED BY <1>1, <2>1, <2>3, <2>4
<1> QED BY <1>3, <1>4, <1>5, <1>6, StepKinds

(***************************************************************************)
(* An authoritative call that has looked.                                  *)
(***************************************************************************)
\* What an authoritative call found stays so until it writes.
LEMMA ReadyKept ==
    ASSUME DataInv, CallInv, FullViewInv, Solo, ReadyInv, [Next]_vars
    PROVE  ReadyInv'
<1> SUFFICES ASSUME NEW h \in Handler, Granting(h)', op'[h].pc \in {"seq", "write"}, Asked(h)'.auth
             PROVE  Ready(View(h), Asked(h).scope, Asked(h).holder)'
  BY DEF ReadyInv
<1>0. op \in [Handler -> Calls] /\ ledger \in [Node -> SUBSET Event] /\ now \in Nat /\ \A k \in Handler : Home[k] \in Node
  BY HandlersHaveHomes DEF DataInv
<1>1. ASSUME op'[h] = op[h], View(h)' = View(h), now' = now \/ (now <= now' /\ now' \in Nat)
      PROVE  Ready(View(h), Asked(h).scope, Asked(h).holder)'
  <2> DEFINE L == View(h)
             s == Asked(h).scope
             w == Winner(L, s)
  <2>1. Granting(h) /\ Asked(h)' = Asked(h) /\ Ready(L, s, Asked(h).holder)
    <3>1. Granting(h) /\ Asked(h)' = Asked(h) /\ op[h].pc \in {"seq", "write"}
      BY <1>1 DEF Granting, Asked
    <3> QED BY <3>1 DEF ReadyInv
  <2>2. CASE Grants(L, s) # {} /\ Expired(w, now)
    <3>1. w \in LeaseEvent
      BY <1>0, <2>2, GoodReplicas, WinnerOf DEF View
    <3>2. w.expires \in Nat
      BY <3>1 DEF LeaseEvent
    <3> HIDE DEF w
    <3>3. Expired(w, now')
      BY <1>0, <1>1, <2>2, <3>2 DEF Expired
    <3> USE DEF w
    <3> HIDE DEF L, s
    <3> QED BY <1>1, <2>1, <3>3 DEF Ready, L, s
  <2>3. CASE Grants(L, s) = {} \/ Freed(L, w) \/ w.holder = Asked(h).holder
    BY <1>1, <2>1, <2>3 DEF Ready
  <2> QED BY <2>1, <2>2, <2>3 DEF Ready
<1>2. ASSUME NEW k \in Handler, NEW c, Becomes(k, c)
      PROVE  Ready(View(h), Asked(h).scope, Asked(h).holder)'
  <2>1. View(h)' = View(h) /\ now' = now /\ op' = [op EXCEPT ![k] = c]
    BY <1>2 DEF Becomes, View
  <2>2. CASE k # h
    BY <1>0, <1>1, <2>1, <2>2
  <2>3. CASE k = h
    <3>1. op'[h] = c /\ c.what \in {"grant", "renew"} /\ c.pc \in {"seq", "write"}
      BY <1>0, <2>1, <2>3 DEF Granting
    <3>2. op[h] # Idle
      <4>1. SUFFICES ASSUME op[h] = Idle PROVE FALSE
        OBVIOUS
      <4>2. c.pc # "write" /\ (c.want.auth => c.pc = "pull")
        BY <1>2, <2>3, <3>1, <4>1 DEF Becomes, Moves, Idle
      <4> QED BY <3>1, <4>2 DEF Asked
    <3>3. /\ Granting(h) /\ op[h].pc \in {"free", "active", "seq"} /\ Asked(h)' \in LeaseEvent
          /\ Asked(h)'.scope = Asked(h).scope /\ Asked(h)'.auth = Asked(h).auth
          /\ op[h].pc = "free" => Asked(h)' = Asked(h) /\ LeaseState(View(h), Asked(h).scope, now) # "held"
          /\ op[h].pc = "active" => LeaseHolder(View(h), Asked(h).scope, now) \in {Nobody, Asked(h)'.holder}
          /\ op[h].pc = "seq" => Asked(h)'.holder = Asked(h).holder
      BY <1>2, <2>3, <3>1, <3>2, GrantBecomes
    <3> DEFINE L == View(h)
               s == Asked(h).scope
    <3>a. PICK to : to = Asked(h)'.holder
      OBVIOUS
    <3>4. Ready(L, s, to)
      <4>1. CASE op[h].pc = "free"
        BY <3>3, <4>1 DEF LeaseState, Ready
      <4>2. CASE op[h].pc = "seq"
        BY <3>3, <3>a, <4>2 DEF ReadyInv
      <4>3. CASE op[h].pc = "active" /\ LeaseState(L, s, now) # "held"
        BY <4>3 DEF LeaseState, Ready
      <4>4. CASE op[h].pc = "active" /\ LeaseState(L, s, now) = "held"
        <5>1. LeaseHolder(L, s, now) = Winner(L, s).holder /\ Grants(L, s) # {}
          BY <4>4 DEF LeaseHolder, LeaseState
        <5>2. Winner(L, s) \in LeaseEvent
          BY <1>0, <5>1, GoodReplicas, WinnerOf DEF View
        <5>3. Winner(L, s).holder # Nobody
          BY <5>2, NodesAreOrdered DEF LeaseEvent
        <5> QED BY <3>3, <3>a, <4>4, <5>1, <5>3 DEF Ready
      <4> QED BY <3>3, <4>1, <4>2, <4>3, <4>4
    <3>5. Asked(h)'.scope = s /\ View(h)' = L /\ Asked(h)'.holder = to
      BY <2>1, <3>3, <3>a
    <3> HIDE DEF L, s
    <3> QED BY <2>1, <3>4, <3>5 DEF Ready
  <2> QED BY <2>2, <2>3
<1>3. ASSUME NEW k \in Handler, NEW e, NEW c, Appending(k, e, c)
      PROVE  Ready(View(h), Asked(h).scope, Asked(h).holder)'
  <2>1. /\ op' = [op EXCEPT ![k] = c] /\ c.what \notin {"grant", "renew"} /\ now' = now
        /\ ledger' = [ledger EXCEPT ![Home[k]] = View(k) \cup {e}]
    BY <1>3 DEF Appending
  <2>2. op[k] # Idle
    BY <1>3 DEF Appending, Idle
  <2>3. h # k /\ op'[h] = op[h]
    BY <1>0, <2>1 DEF Granting
  <2>4. Home[h] # Home[k]
    BY <2>2, <2>3, GrantingIsBusy DEF Solo, Granting
  <2>5. View(h)' = View(h)
    BY <1>0, <2>1, <2>4 DEF View
  <2> QED BY <1>1, <2>1, <2>3, <2>5
<1>4. ASSUME NEW n \in Node, NEW L, Pulls(n, L)
      PROVE  Ready(View(h), Asked(h).scope, Asked(h).holder)'
  <2>1. op'[h] = op[h] /\ now' = now
    BY <1>4 DEF Pulls, Idle
  <2>2. op[h] # Idle /\ op[h].pc # "pull"
    BY <2>1 DEF Granting, Idle
  <2>3. Home[h] \notin Served
    <3>1. op[h].pc \in {"seq", "write"} /\ op[h].what \in {"grant", "renew"} /\ Asked(h).auth
      BY <2>1 DEF Granting, Asked
    <3>2. Authoritative(op[h])
      BY <3>1 DEF Authoritative, Asked
    <3> QED BY <3>2 DEF FullViewInv
  <2>4. Home[h] # n
    <3>1. SUFFICES ASSUME Home[h] = n PROVE FALSE
      OBVIOUS
    <3>2. ~Open(n)
      BY <2>2, <2>3, <3>1 DEF Open, Alone
    <3>3. PICK k \in Handler : Home[k] = n /\ op[k].pc = "pull"
      BY <1>4, <3>2 DEF Pulls
    <3>4. op[k] # Idle
      BY <3>3 DEF Idle
    <3> QED BY <2>2, <3>1, <3>3, <3>4 DEF Solo
  <2>5. View(h)' = View(h)
    BY <1>0, <1>4, <2>4, PullGrows DEF View
  <2> QED BY <1>1, <2>1, <2>5
<1>5. CASE Rests
  <2>1. op'[h] = op[h] /\ View(h)' = View(h)
    BY <1>5 DEF Rests, Idle, Granting, View
  <2>2. now <= now' /\ now' \in Nat
    <3>1. DataInv'
      BY DataKept
    <3> QED BY <1>5, <3>1 DEF Rests, DataInv
  <2> QED BY <1>1, <2>1, <2>2
<1> QED BY <1>2, <1>3, <1>4, <1>5, StepKinds

(***************************************************************************)
(* Grants that are over.                                                   *)
(***************************************************************************)
\* No event is lost: each is on the ledger of the node that wrote it.
LEMMA EventsAre ==
    ASSUME DataInv, CausalInv, ~forked
    PROVE  Events = UNION Replicas
<1>1. Events \subseteq UNION Replicas
  BY DEF Events, Replicas
<1>2. \A e \in UNION Replicas : e \in ledger[e.node] /\ e.node \in Node
  <2>1. \A e \in UNION Replicas : e \in Event
    BY DEF DataInv, Replicas
  <2> QED BY <2>1, EventFields DEF CausalInv
<1>3. UNION Replicas \subseteq Events
  BY <1>2 DEF Events
<1> QED BY <1>1, <1>3

\* An end that frees the winner was written for a grant of its number.
LEMMA FreedNamesANumber ==
    ASSUME DataInv, CausalInv, ~forked, NEW n \in Node, NEW s, Grants(ledger[n], s) # {},
           Freed(ledger[n], Winner(ledger[n], s))
    PROVE  \E g \in Grants(ledger[n], s), r \in Ends(Events, s) :
              /\ g.epoch = Winner(ledger[n], s).epoch /\ g.seq = Winner(ledger[n], s).seq
              /\ r.holder = g.holder /\ r.epoch = g.epoch /\ r.seq = g.seq
<1> DEFINE L == ledger[n]
           w == Winner(L, s)
<1>1. GoodLedger(L) /\ L \in Replicas
  BY GoodReplicas DEF Replicas
<1>2. /\ w \in Grants(L, s) /\ w \in LeaseEvent
      /\ \A f \in Grants(L, s) \ {w} : Outranks(w, f)
  BY <1>1, WinnerOf
<1>3. w.scope = s
  BY <1>2 DEF Grants
<1> HIDE DEF w
<1>4. PICK r \in Ends(L, s) : r.epoch = w.epoch /\ r.seq >= w.seq
  BY <1>3 DEF Freed, w
<1>5. r \in L /\ IsEnd(r) /\ r.scope = s
  BY <1>4 DEF Ends, IsEnd
<1>6. EndsOne(r, L)
  BY <1>1, <1>5 DEF CausalInv
<1>7. PICK g \in Grants(L, s) : g.epoch = r.epoch /\ g.seq = r.seq /\ g.holder = r.holder
  BY <1>5, <1>6 DEF EndsOne
<1>8. g \in LeaseGrants(UNION Replicas) /\ w \in LeaseGrants(UNION Replicas)
  BY <1>1, <1>2, <1>7 DEF Grants, LeaseGrants, IsGrant
<1>9. g.seq = w.seq
  <2>1. g.epoch = w.epoch /\ g.seq >= w.seq /\ g.seq \in Nat /\ w.seq \in Nat /\ w.epoch \in Nat
    BY <1>4, <1>7, <1>8, GrantFields
  <2>2. CASE g = w
    BY <2>2
  <2>3. CASE g # w
    <3>1. Outranks(w, g)
      BY <1>2, <1>7, <2>3
    <3> QED BY <2>1, <3>1 DEF Outranks
  <2> QED BY <2>2, <2>3
<1>10. r \in Ends(Events, s)
  BY <1>4 DEF Ends, Events
<1> QED BY <1>4, <1>7, <1>9, <1>10 DEF w

\* Where grants have numbers of their own, it was written for the winner.
LEMMA FreedIsGivenUp ==
    ASSUME DataInv, CausalInv, ~forked, Apart, NEW n \in Node, NEW s, Grants(ledger[n], s) # {},
           Freed(ledger[n], Winner(ledger[n], s))
    PROVE  \E r \in Ends(Events, s) : LET w == Winner(ledger[n], s)
                                      IN  r.holder = w.holder /\ r.epoch = w.epoch /\ r.seq = w.seq
<1> DEFINE L == ledger[n]
           w == Winner(L, s)
<1>1. PICK g \in Grants(L, s), r \in Ends(Events, s) :
        g.epoch = w.epoch /\ g.seq = w.seq /\ r.holder = g.holder /\ r.epoch = g.epoch /\ r.seq = g.seq
  BY FreedNamesANumber
<1>2. GoodLedger(L) /\ L \in Replicas
  BY GoodReplicas DEF Replicas
<1>3. w \in Grants(L, s)
  BY <1>2, WinnerOf
<1> HIDE DEF w
<1>4. g \in LeaseGrants(UNION Replicas) /\ w \in LeaseGrants(UNION Replicas) /\ g.scope = s /\ w.scope = s
  BY <1>1, <1>2, <1>3 DEF Grants, LeaseGrants, IsGrant
<1>5. g = w
  BY <1>1, <1>4 DEF Apart
<1> QED BY <1>1, <1>5 DEF w

\* What is over stays over.
LEMMA OverStays ==
    ASSUME DataInv, Events \subseteq Events', now <= now', now' \in Nat, NEW g, g.expires \in Nat, Over(g)
    PROVE  Over(g)'
<1>1. CASE Expired(g, now)
  <2>1. Expired(g, now')
    BY <1>1 DEF Expired, DataInv
  <2> QED BY <2>1 DEF Over
<1>2. CASE GivenUp(g)
  <2>1. GivenUp(g)'
    BY <1>2 DEF GivenUp, Ends
  <2> QED BY <2>1 DEF Over
<1>3. CASE Displaced(g)
  <2>1. Displaced(g)'
    BY <1>3 DEF Displaced, Grants
  <2> QED BY <2>1 DEF Over
<1> QED BY <1>1, <1>2, <1>3 DEF Over

\* What OverInv says of two grants.
OverOr(g, w) == g.expires <= w.expires /\ (g.holder = w.holder \/ Over(g))

\* OverInv in these terms.
LEMMA OverIs ==
    OverInv <=> (~forked /\ ~outdated => \A s \in Scope : \A g, w \in Grants(Events, s) :
                     g.auth /\ w.auth /\ Outranks(w, g) => OverOr(g, w))
BY DEF OverInv, OverOr

\* While there are no new grants it holds on.
LEMMA OverKeeps ==
    ASSUME DataInv, CausalInv, ~forked, ~outdated, OverInv, Events \subseteq Events', now <= now', now' \in Nat,
           \A f \in Events' : IsGrant(f) => f \in Events
    PROVE  OverInv'
<1>1. ASSUME NEW s \in Scope, NEW g \in Grants(Events', s), NEW w \in Grants(Events', s),
             g.auth, w.auth, Outranks(w, g)
      PROVE  OverOr(g, w)'
  <2>1. g \in Grants(Events, s) /\ w \in Grants(Events, s)
    BY <1>1 DEF Grants, IsGrant
  <2>2. OverOr(g, w)
    BY <1>1, <2>1, OverIs
  <2>3. g \in LeaseGrants(UNION Replicas)
    BY <2>1, EventsAre DEF Grants, LeaseGrants, IsGrant
  <2>4. g.expires \in Nat
    BY <2>3, GrantFields
  <2> QED BY <2>2, <2>4, OverStays DEF OverOr
<1> QED BY <1>1 DEF OverInv, OverOr, Grants

\* The grants an authoritative one outranks are over, or were for the same node.
LEMMA ReadyMeansOver ==
    ASSUME DataInv, CausalInv, ~forked, ~outdated, Apart, OverInv, NEW n \in Node, NEW s \in Scope, NEW to,
           Ready(ledger[n], s, to), LeaseGrants(UNION Replicas) \subseteq ledger[n],
           NEW g \in Grants(Events, s), g.auth
    PROVE  g.holder = to \/ Over(g)
<1> DEFINE L == ledger[n]
           w == Winner(L, s)
<1>1. GoodLedger(L) /\ L \in Replicas /\ L \subseteq Events
  BY GoodReplicas DEF Replicas, Events
<1>2. g \in LeaseGrants(UNION Replicas) /\ g.scope = s
  BY EventsAre DEF Grants, LeaseGrants, IsGrant
<1>3. g \in Grants(L, s)
  BY <1>2 DEF Grants, LeaseGrants, IsGrant
<1>4. w \in Grants(L, s) /\ w \in LeaseEvent /\ \A f \in Grants(L, s) \ {w} : Outranks(w, f)
  BY <1>1, <1>3, WinnerOf
<1>5. w \in Grants(Events, s) /\ w \in LeaseGrants(UNION Replicas) /\ w.scope = s
  BY <1>1, <1>4 DEF Grants, LeaseGrants, IsGrant
<1>6. /\ g.epoch \in Nat /\ g.seq \in Nat /\ g.expires \in Nat /\ w.epoch \in Nat /\ w.seq \in Nat /\ w.expires \in Nat
      /\ now \in Nat
  <2>1. now \in Nat
    BY DEF DataInv
  <2> HIDE DEF w
  <2>2. w.epoch \in Nat /\ w.seq \in Nat /\ w.expires \in Nat
    BY <1>5, GrantFields
  <2>3. g.epoch \in Nat /\ g.seq \in Nat /\ g.expires \in Nat
    BY <1>2, GrantFields
  <2> QED BY <2>1, <2>2, <2>3
<1>7. Freed(L, w) \/ Expired(w, now) \/ w.holder = to
  BY <1>3 DEF Ready
<1>8. CASE g # w /\ ~w.auth
  <2>1. Displaced(g)
    BY <1>2, <1>3, <1>4, <1>5, <1>8 DEF Displaced
  <2> QED BY <2>1 DEF Over
<1>9. CASE g = w \/ w.auth
  <2>1. g = w \/ (Outranks(w, g) /\ OverOr(g, w))
    BY <1>3, <1>4, <1>5, <1>9, OverIs
  <2>2. CASE Freed(L, w)
    <3>1. PICK r \in Ends(Events, s) : r.holder = w.holder /\ r.epoch = w.epoch /\ r.seq = w.seq
      BY <1>3, <2>2, FreedIsGivenUp
    <3>2. CASE g.holder = w.holder
      <4>1. r.epoch > g.epoch \/ (r.epoch = g.epoch /\ r.seq >= g.seq)
        BY <1>6, <2>1, <3>1 DEF Outranks
      <4>2. GivenUp(g)
        BY <1>2, <3>1, <3>2, <4>1 DEF GivenUp
      <4> QED BY <4>2 DEF Over
    <3> QED BY <2>1, <3>2 DEF OverOr
  <2>3. CASE Expired(w, now)
    <3>1. Expired(g, now)
      BY <1>6, <2>1, <2>3 DEF Expired, OverOr
    <3> QED BY <3>1 DEF Over
  <2>4. CASE w.holder = to
    BY <2>1, <2>4 DEF OverOr
  <2> QED BY <1>7, <2>2, <2>3, <2>4
<1> QED BY <1>8, <1>9

\* A new authoritative grant outranks only what is over or its own node's.
LEMMA OverAppended ==
    ASSUME DataInv, CallInv, FoundedInv, CausalInv, CausalInv', LeaseLineInv, GrantorInv, RankInv, ReadyInv, OverInv,
           ~forked, ~outdated, ~outdated', ~forked', DataInv',
           NEW h \in Handler, NEW e, NEW c, Appending(h, e, c)
    PROVE  OverInv'
<1> DEFINE n == Home[h]
<1>1. n \in Node /\ now' = now /\ now \in Nat
  BY HandlersHaveHomes DEF DataInv, Appending
<1>2. Events = UNION Replicas /\ Events' = UNION Replicas'
  <2>1. Events = UNION Replicas
    BY EventsAre
  <2>2. \A f \in UNION Replicas' : f \in ledger'[f.node] /\ f.node \in Node
    <3>1. \A f \in UNION Replicas' : f \in Event
      BY DEF DataInv, Replicas
    <3> QED BY <3>1, EventFields DEF CausalInv
  <2>3. UNION Replicas' \subseteq Events'
    BY <2>2 DEF Events
  <2>4. Events' \subseteq UNION Replicas'
    BY DEF Events, Replicas
  <2> QED BY <2>1, <2>3, <2>4
<1>3. /\ Events \subseteq Events' /\ \A f \in Events' : f = e \/ f \in Events
      /\ IsGrant(e) <=> Granting(h)
      /\ IsGrant(e) => /\ op[h].pc = "write" /\ e \in LeaseEvent /\ op[h].todo[1] \in LeaseEvent
                       /\ SameLease(e, op[h].todo[1]) /\ e.epoch = op[h].todo[1].epoch
  BY <1>2, GrantIsNew
<1>4. now <= now' /\ now' \in Nat
  BY <1>1
<1>5. CASE ~IsGrant(e)
  BY <1>3, <1>4, <1>5, OverKeeps
<1>6. CASE IsGrant(e)
  <2> DEFINE d == op[h].todo[1]
  <2>1. /\ Granting(h) /\ op[h].pc = "write" /\ d \in LeaseEvent /\ e \in LeaseEvent
        /\ e.scope = d.scope /\ e.seq = d.seq /\ e.holder = d.holder /\ e.auth = d.auth /\ e.expires = d.expires
        /\ e.epoch = d.epoch /\ Asked(h) = d
    BY <1>3, <1>6 DEF SameLease, Asked
  <2>2. Tops(d) /\ Apart
    BY <2>1, RankIs
  <2>3. LeaseGrants(UNION Replicas) \subseteq ledger[n]
    <3>1. Leads(h)
      BY <2>1 DEF GrantorInv
    <3> QED BY <1>1, <3>1, LeaderSeesGrants DEF Leads, View
  <2>4. d.auth => Ready(ledger[n], d.scope, d.holder)
    BY <2>1 DEF ReadyInv, View
  <2> HIDE DEF d
  <2>5. /\ e.epoch \in Nat /\ e.seq \in Nat /\ e.expires \in Nat /\ e.at \in Nat /\ e.node \in Nat /\ e.scope \in Scope
    BY <2>1, NodesAreOrdered DEF LeaseEvent
  <2>6. ASSUME NEW g \in Grants(Events, e.scope), g.auth, e.auth
        PROVE  ~Outranks(g, e) /\ g.expires <= e.expires /\ (g.holder = e.holder \/ Over(g)')
    <3>1. g \in LeaseGrants(UNION Replicas) /\ g.scope = e.scope
      BY <1>2, <2>6 DEF Grants, LeaseGrants, IsGrant
    <3>2. g.epoch \in Nat /\ g.seq \in Nat /\ g.expires \in Nat
      BY <3>1, GrantFields
    <3>3. g.expires <= e.expires /\ (g.epoch = e.epoch => g.seq < e.seq)
      BY <2>1, <2>2, <3>1 DEF Tops
    <3>4. g.epoch <= e.epoch
      <4>1. ~Outdates(View(h), e)
        BY DEF Appending
      <4>2. g \in Grants(View(h), e.scope)
        BY <2>3, <3>1 DEF Grants, LeaseGrants, IsGrant, View
      <4> QED BY <1>6, <2>5, <2>6, <3>2, <4>1, <4>2 DEF Outdates, IsGrant
    <3>5. ~Outranks(g, e)
      BY <2>5, <3>2, <3>3, <3>4 DEF Outranks
    <3>6. g.holder = e.holder \/ Over(g)
      BY <1>1, <2>1, <2>2, <2>3, <2>4, <2>5, <2>6, ReadyMeansOver
    <3>7. Over(g) => Over(g)'
      BY <1>3, <1>4, <3>2, OverStays
    <3> QED BY <3>3, <3>5, <3>6, <3>7
  <2>7. ~Outranks(e, e)
    BY <2>5 DEF Outranks, Later
  <2>8. ASSUME NEW s \in Scope, NEW g \in Grants(Events', s), NEW w \in Grants(Events', s),
               g.auth, w.auth, Outranks(w, g)
        PROVE  OverOr(g, w)'
    <3>1. /\ g = e \/ g \in Grants(Events, s)
          /\ w = e \/ w \in Grants(Events, s)
          /\ g.scope = s /\ w.scope = s
      BY <1>3, <2>8 DEF Grants
    <3>2. CASE g = e
      BY <2>6, <2>7, <2>8, <3>1, <3>2
    <3>3. CASE w = e /\ g # e
      BY <2>6, <2>8, <3>1, <3>3 DEF OverOr
    <3>4. CASE w # e /\ g # e
      <4>1. OverOr(g, w)
        BY <2>8, <3>1, <3>4, OverIs
      <4>2. g \in LeaseGrants(UNION Replicas)
        BY <1>2, <3>1, <3>4 DEF Grants, LeaseGrants, IsGrant
      <4>3. g.expires \in Nat
        BY <4>2, GrantFields
      <4> QED BY <1>3, <1>4, <4>1, <4>3, OverStays DEF OverOr
    <3> QED BY <3>2, <3>3, <3>4
  <2> QED BY <2>8 DEF OverInv, OverOr, Grants
<1> QED BY <1>5, <1>6

\* Every step keeps that.
LEMMA OverKept ==
    ASSUME DataInv, CallInv, FoundedInv, CausalInv, LeaseLineInv, GrantorInv, RankInv, ReadyInv, OverInv, [Next]_vars
    PROVE  OverInv'
<1> SUFFICES ASSUME ~forked', ~outdated' PROVE OverInv'
  BY DEF OverInv
<1>0. /\ {hub, backup} \subseteq Replicas /\ ledger \in [Node -> SUBSET Event] /\ now \in Nat
      /\ DataInv' /\ CausalInv' /\ now' \in Nat
  <2>1. DataInv' /\ CausalInv'
    BY DataKept, CausalKept
  <2>2. now \in Nat /\ now' \in Nat
    BY <2>1 DEF DataInv
  <2> QED BY <2>1, <2>2 DEF DataInv, Replicas
<1>1. ASSUME Synchronises, ~forked, ~outdated, now <= now', \A n \in Node : ledger[n] \subseteq ledger'[n]
      PROVE  OverInv'
  <2>1. \A X \in Replicas' : \E Y, Z \in Replicas : X = Y \cup Z
    BY <1>1, SynchronisedKeeps
  <2>2. Events' \subseteq UNION Replicas'
    BY DEF Events, Replicas
  <2>3. Events = UNION Replicas
    BY <1>1, EventsAre
  <2>4. Events' \subseteq Events
    BY <2>1, <2>2, <2>3
  <2>5. \A e \in UNION Replicas : e \in ledger[e.node] /\ e.node \in Node
    <3>1. \A e \in UNION Replicas : e \in Event
      BY DEF DataInv, Replicas
    <3> QED BY <1>1, <3>1, EventFields DEF CausalInv
  <2>6. Events \subseteq Events'
    BY <1>1, <2>3, <2>5 DEF Events
  <2> QED BY <1>0, <1>1, <2>4, <2>6, OverKeeps
<1>2. ASSUME NEW h \in Handler, NEW c, Becomes(h, c) PROVE OverInv'
  <2>1. Synchronises /\ ~forked /\ ~outdated /\ ledger' = ledger /\ now' = now
    BY <1>0, <1>2 DEF Becomes, Synchronises, sync, ghosts
  <2> QED BY <1>0, <1>1, <2>1
<1>3. ASSUME NEW h \in Handler, NEW e, NEW c, Appending(h, e, c) PROVE OverInv'
  <2>1. ~forked /\ ~outdated
    BY <1>3 DEF Appending
  <2> QED BY <1>0, <1>3, <2>1, OverAppended
<1>4. ASSUME NEW n \in Node, NEW L, Pulls(n, L) PROVE OverInv'
  <2>1. now <= now'
    BY <1>0, <1>4 DEF Pulls
  <2> QED BY <1>1, <1>4, <2>1, PullGrows
<1>5. CASE Rests
  <2>1. Synchronises /\ ~forked /\ ~outdated /\ ledger' = ledger /\ now <= now'
    BY <1>5 DEF Rests, ghosts
  <2> QED BY <1>1, <2>1
<1> QED BY <1>2, <1>3, <1>4, <1>5, StepKinds

(***************************************************************************)
(* What the invariants say of leases.                                      *)
(***************************************************************************)
\* Two authoritative grants in force are for one node.
LEMMA OverMeansExcluded ==
    ASSUME DataInv, CausalInv, RankInv, OverInv
    PROVE  AuthoritativeExcludes
<1> SUFFICES ASSUME ~outdated, ~forked, NEW s \in Scope, NEW g \in InForce(s), NEW k \in InForce(s), g.auth, k.auth
             PROVE  g.holder = k.holder
  BY DEF AuthoritativeExcludes, SingleGrantorMutex
<1>1. g \in Grants(Events, s) /\ k \in Grants(Events, s) /\ ~Over(g) /\ ~Over(k)
  BY DEF InForce, Over
<1>2. g \in LeaseGrants(UNION Replicas) /\ k \in LeaseGrants(UNION Replicas) /\ g.scope = k.scope
  BY <1>1, EventsAre DEF Grants, LeaseGrants, IsGrant
<1>3. g.epoch \in Nat /\ g.seq \in Nat /\ k.epoch \in Nat /\ k.seq \in Nat
  BY <1>2, GrantFields
<1>4. g = k \/ Outranks(g, k) \/ Outranks(k, g)
  <2>1. g.epoch = k.epoch /\ g.seq = k.seq => g = k
    BY <1>2, RankIs DEF Apart
  <2> QED BY <1>3, <2>1 DEF Outranks
<1>5. CASE Outranks(g, k)
  BY <1>1, <1>5 DEF OverInv
<1>6. CASE Outranks(k, g)
  BY <1>1, <1>6 DEF OverInv
<1> QED BY <1>4, <1>5, <1>6

\* A scope that reads free was given up under the number of its last grant.
LEMMA FreedMeansGivenUp ==
    ASSUME DataInv, CausalInv
    PROVE  FreedByItsNumber
<1> SUFFICES ASSUME ~forked, NEW n \in Node, NEW s \in Scope, LeaseState(ledger[n], s, now) = "free"
             PROVE  \E g \in Grants(ledger[n], s) :
                       /\ g.epoch = Winner(ledger[n], s).epoch /\ g.seq = Winner(ledger[n], s).seq
                       /\ GivenUp(g)
  BY DEF FreedByItsNumber
<1>1. Grants(ledger[n], s) # {} /\ Freed(ledger[n], Winner(ledger[n], s))
  BY DEF LeaseState
<1>2. PICK g \in Grants(ledger[n], s), r \in Ends(Events, s) :
        /\ g.epoch = Winner(ledger[n], s).epoch /\ g.seq = Winner(ledger[n], s).seq
        /\ r.holder = g.holder /\ r.epoch = g.epoch /\ r.seq = g.seq
  BY <1>1, FreedNamesANumber
<1>3. g.scope = s /\ g.seq \in Nat
  <2>1. g \in LeaseGrants(UNION Replicas)
    BY <1>2 DEF Grants, LeaseGrants, IsGrant, Replicas
  <2> QED BY <1>2, <2>1, GrantFields DEF Grants
<1>4. GivenUp(g)
  BY <1>2, <1>3 DEF GivenUp
<1> QED BY <1>2, <1>4

CoordinatorInv == DataInv /\ CallInv /\ FullViewInv /\ NoRewindInv /\ LineAndPending /\ FoundedInv /\ CausalInv
MutexInv == CoordinatorInv /\ Solo /\ LeaseLineInv /\ GrantorInv /\ RankInv /\ ReadyInv /\ OverInv

\* At the start nothing was rewound.
LEMMA InitNoRewind == Init => NoRewindInv
BY DEF Init, NoRewindInv, Replicas

\* The inductive invariant of roles, ledgers and calls: role events form one line that a
\* grantor's authority is checked against (claim_coordinator, transfer_coordinator,
\* release_coordinator and the pulls of coordination.py).
THEOREM CoordinatorInvHolds == Spec => []CoordinatorInv
<1>1. Init => CoordinatorInv
  BY InitData, InitNoRewind, InitLine, InitFounded, InitCausal DEF CoordinatorInv, LineAndPending
<1>2. CoordinatorInv /\ [Next]_vars => CoordinatorInv'
  BY DataKept, FullViewKept, NoRewindKept, LineKept, FoundedKept, CausalKept DEF CoordinatorInv
<1> QED BY <1>1, <1>2, PTL DEF Spec

\* The type invariant: ledgers hold stamped events, calls drafts of their own node.
THEOREM TypeCorrect == Spec => []TypeOK
<1>1. CoordinatorInv => TypeOK
  BY TypesFollow DEF CoordinatorInv
<1> QED BY <1>1, CoordinatorInvHolds, PTL

\* The grantor is single: as long as authority was given in full view of the roles before
\* it, at most one node takes itself for the coordinator, whatever replicas miss.
THEOREM OneCoordinator == Spec => []SoleGrantor
<1>1. CoordinatorInv => SoleGrantor
  BY LineMakesSole DEF CoordinatorInv, LineAndPending
<1> QED BY <1>1, CoordinatorInvHolds, PTL

\* No authoritative grant is written on a ledger that shows less than the node has seen,
\* also when the hub was restored from a backup.
THEOREM AuthoritativeOnFullView == Spec => GrantsOnFullView
<1>1. CoordinatorInv /\ [Next]_vars =>
        [\A h \in Handler : WritesGrant(h) /\ Head(op[h].todo).auth => MaxEpoch(View(h)) >= mark[Home[h]]]_vars
  <2>1. ASSUME CoordinatorInv, NEW h \in Handler, WritesGrant(h), Head(op[h].todo).auth
        PROVE  MaxEpoch(View(h)) >= mark[Home[h]]
    BY <2>1, AuthoritativeWritesOnFullView DEF CoordinatorInv
  <2> QED BY <2>1
<1> QED BY <1>1, CoordinatorInvHolds, PTL DEF Spec, GrantsOnFullView

\* The inductive invariant of leases, where the calls of a daemon do not overlap: grants
\* are ranked by epoch and grant_seq, and each names a scope its grantor saw free
\* (grant_lease, renew_lease, the lease reducer).
THEOREM MutexInvHolds ==
    ASSUME OneCallEach
    PROVE  Spec => []MutexInv
<1>1. Init => MutexInv
  BY InitData, InitNoRewind, InitLine, InitFounded, InitCausal, InitSolo, InitGrantLine, InitRanks
     DEF CoordinatorInv, MutexInv, LineAndPending
<1>2. MutexInv /\ [Next]_vars => MutexInv'
  <2> SUFFICES ASSUME MutexInv, [Next]_vars PROVE MutexInv'
    OBVIOUS
  <2>1. CoordinatorInv'
    BY DataKept, FullViewKept, NoRewindKept, LineKept, FoundedKept, CausalKept DEF CoordinatorInv, MutexInv
  <2>2. Solo' /\ LeaseLineInv' /\ GrantorInv'
    BY SoloKept, GrantLineKept, GrantorKept DEF CoordinatorInv, MutexInv, LineAndPending
  <2>3. RankInv' /\ ReadyInv' /\ OverInv'
    BY RankKept, ReadyKept, OverKept DEF CoordinatorInv, MutexInv, LineAndPending
  <2> QED BY <2>1, <2>2, <2>3 DEF MutexInv
<1> QED BY <1>1, <1>2, PTL DEF Spec

\* The authoritative lease is a mutex across the fleet as long as there was one line of
\* coordinators and the role never went back to an older epoch.
THEOREM AuthoritativeIsMutex ==
    ASSUME OneCallEach
    PROVE  Spec => []AuthoritativeExcludes
<1>1. MutexInv => AuthoritativeExcludes
  BY OverMeansExcluded DEF MutexInv, CoordinatorInv
<1> QED BY <1>1, MutexInvHolds, PTL

\* A scope reads free only because a grant of the number of its last one was given up or
\* taken from its holder, in whatever order ends and grants arrive and however the calls
\* of a daemon overlap (release_lease, revoke_lease, sweep_expired, reduce_lease).
THEOREM FreedOnlyByNumber == Spec => []FreedByItsNumber
<1>1. CoordinatorInv => FreedByItsNumber
  BY FreedMeansGivenUp DEF CoordinatorInv
<1> QED BY <1>1, CoordinatorInvHolds, PTL
==============================================================================
