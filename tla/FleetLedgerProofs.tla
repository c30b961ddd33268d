------------------------- MODULE FleetLedgerProofs --------------------------
(***************************************************************************)
(* Facts of finite sets and of the reducers of a ledger: on a finite       *)
(* ledger of events with distinct ids each reducer has one answer, and     *)
(* epochs and grant_seqs that are given out next are beyond all there are. *)
(***************************************************************************)
EXTENDS FleetLedger, FiniteSetTheorems, WellFoundedInduction, TLAPS

(***************************************************************************)
(* Numbers, finite sets and reducers.                                      *)
(***************************************************************************)
\* A non-empty set of naturals has a least element.
LEMMA SmallestOf ==
    ASSUME NEW T \in SUBSET Nat, T # {}
    PROVE  \E x \in T : \A y \in T : x <= y
<1> DEFINE R == OpToRel(<, Nat)
<1>1. \A x, y \in Nat : ~ (<<x, y>> \in R) => y <= x
  BY DEF OpToRel
<1> HIDE DEF R
<1>2. IsWellFoundedOn(R, Nat)
  BY NatLessThanWellFounded DEF R
<1>3. PICK x \in T : \A y \in T : ~ (<<y, x>> \in R)
  BY <1>2, WFMin
<1>4. \A y \in T : x <= y
  BY <1>1, <1>3
<1> QED BY <1>4

\* A non-empty finite set of integers has a greatest element.
LEMMA FiniteMax ==
    ASSUME NEW S \in SUBSET Int, S # {}, IsFiniteSet(S)
    PROVE  \E m \in S : \A x \in S : x <= m
<1>1. PICK c \in Nat : ExistsBijection(1 .. c, S)
  BY FS_CardinalityType
<1>2. PICK f : f \in Bijection(1 .. c, S)
  BY <1>1 DEF ExistsBijection
<1>3. /\ f \in [1 .. c -> S] /\ \A x \in S : \E i \in 1 .. c : f[i] = x
  BY <1>2 DEF Bijection, Injection, Surjection
<1>a. \A i \in 1 .. c : f[i] \in Int
  BY <1>3
<1>5. c >= 1
  <2>1. PICK x \in S : TRUE
    OBVIOUS
  <2>2. PICK i \in 1 .. c : f[i] = x
    BY <1>3
  <2> QED BY <2>2
<1> DEFINE Topped(n) == \E j \in 1 .. n : \A k \in 1 .. n : f[k] <= f[j]
           T == {n \in 1 .. c : ~Topped(n)}
<1>6. Topped(1)
  <2>1. f[1] \in Int
    BY <1>a, <1>5
  <2> QED BY <2>1
<1>7. ASSUME NEW n \in 1 .. c, n > 1, Topped(n - 1) PROVE Topped(n)
  <2>1. PICK j \in 1 .. n - 1 : \A k \in 1 .. n - 1 : f[k] <= f[j]
    BY <1>7
  <2>2. /\ f[n] \in Int /\ f[j] \in Int /\ \A k \in 1 .. n - 1 : f[k] \in Int
        /\ j \in 1 .. n /\ n \in 1 .. n
        /\ \A k \in 1 .. n : k = n \/ k \in 1 .. n - 1
    BY <1>a, <2>1
  <2>4. CASE f[n] <= f[j]
    <3>1. \A k \in 1 .. n : f[k] <= f[j]
      BY <2>1, <2>2, <2>4
    <3> QED BY <2>2, <3>1
  <2>5. CASE f[j] < f[n]
    <3>1. \A k \in 1 .. n : f[k] <= f[n]
      BY <2>1, <2>2, <2>5
    <3> QED BY <2>2, <3>1
  <2> QED BY <2>2, <2>4, <2>5
<1> HIDE DEF Topped
<1>4. T = {}
  <2> SUFFICES ASSUME T # {} PROVE FALSE
    OBVIOUS
  <2>0. T \in SUBSET Nat
    OBVIOUS
  <2>1. PICK n \in T : \A j \in T : n <= j
    BY <2>0, SmallestOf
  <2>2. n \in 1 .. c /\ ~Topped(n)
    BY <2>1
  <2>3. n = 1 \/ (n > 1 /\ n - 1 \in 1 .. c /\ ~(n <= n - 1))
    BY <2>2
  <2>4. n > 1 => Topped(n - 1)
    BY <2>1, <2>3
  <2> QED BY <1>6, <1>7, <2>2, <2>3, <2>4
<1>8. Topped(c)
  BY <1>4, <1>5
<1> QED BY <1>3, <1>8 DEF Topped

\* Max of a non-empty finite set is its greatest element.
LEMMA MaxIsMax ==
    ASSUME NEW S \in SUBSET Int, S # {}, IsFiniteSet(S)
    PROVE  Max(S) \in S /\ \A x \in S : x <= Max(S)
<1>1. PICK m \in S : \A x \in S : x <= m
  BY FiniteMax
<1>2. \A x \in S : m >= x
  BY <1>1
<1> QED BY <1>2 DEF Max

\* The image of a finite set is finite.
LEMMA ImageIsFinite ==
    ASSUME NEW A, IsFiniteSet(A), NEW f, f = [x \in A |-> f[x]]
    PROVE  IsFiniteSet({f[x] : x \in A})
<1> DEFINE T == {f[x] : x \in A}
<1>1. f \in Surjection(A, T)
  BY DEF Surjection
<1> QED BY <1>1, FS_Surjection

\* A function to integers takes a greatest value on a finite set.
LEMMA ImageMax ==
    ASSUME NEW A, IsFiniteSet(A), A # {}, NEW f, f = [x \in A |-> f[x]],
           \A x \in A : f[x] \in Int
    PROVE  \E m \in A : \A x \in A : f[x] <= f[m]
<1> DEFINE T == {f[x] : x \in A}
<1>1. IsFiniteSet(T) /\ T \in SUBSET Int /\ T # {}
  BY ImageIsFinite
<1>2. PICK t \in T : \A x \in T : x <= t
  BY <1>1, FiniteMax
<1> QED BY <1>2

Numbered(A) ==
    /\ IsFiniteSet(A)
    /\ \A e \in A : e.epoch \in Nat /\ e.at \in Nat /\ e.node \in Nat
    /\ \A e, f \in A : e.node = f.node /\ e.at = f.at => e = f

\* Part of a numbered set is numbered.
LEMMA NumberedSubset ==
    ASSUME NEW A, Numbered(A), NEW B \in SUBSET A
    PROVE  Numbered(B)
<1>1. IsFiniteSet(B)
  BY FS_Subset DEF Numbered
<1> QED BY <1>1 DEF Numbered

\* A non-empty numbered set has a latest event (the last tie-break of the reducers).
LEMMA LatestExists ==
    ASSUME NEW A, Numbered(A), A # {}
    PROVE  \E e \in A : \A f \in A \ {e} : Later(e, f)
<1> DEFINE at == [x \in A |-> x.at]
<1>1. PICK m \in A : \A x \in A : x.at <= m.at
  <2>1. \A x \in A : at[x] \in Int
    BY DEF Numbered
  <2>2. \E k \in A : \A x \in A : at[x] <= at[k]
    <3>1. IsFiniteSet(A)
      BY DEF Numbered
    <3> HIDE DEF at
    <3>2. at = [x \in A |-> at[x]]
      BY DEF at
    <3> QED BY <2>1, <3>1, <3>2, ImageMax
  <2> QED BY <2>2
<1> DEFINE B == {x \in A : x.at = m.at}
           node == [x \in B |-> x.node]
<1>2. B # {} /\ IsFiniteSet(B)
  BY FS_Subset DEF Numbered
<1>3. PICK e \in B : \A x \in B : x.node <= e.node
  <2>1. \A x \in B : node[x] \in Int
    BY DEF Numbered
  <2>2. \E k \in B : \A x \in B : node[x] <= node[k]
    BY <1>2, <2>1, ImageMax
  <2> QED BY <2>2
<1>4. ASSUME NEW f \in A \ {e} PROVE Later(e, f)
  <2>1. f.at <= e.at /\ f.at \in Nat /\ e.at \in Nat /\ f.node \in Nat /\ e.node \in Nat
    BY <1>1, <1>3 DEF Numbered
  <2>2. f.at = e.at => f.node <= e.node /\ f.node # e.node
    BY <1>3, <1>4 DEF Numbered
  <2> QED BY <2>1, <2>2 DEF Later
<1> QED BY <1>3, <1>4

\* One role event beats all others of a finite ledger (reduce_coordinator).
LEMMA TopAuthorityExists ==
    ASSUME NEW A, Numbered(A), A # {}
    PROVE  \E e \in A : \A f \in A \ {e} : AuthorityBeats(e, f)
<1> DEFINE epoch == [x \in A |-> x.epoch]
<1>1. PICK m \in A : \A x \in A : x.epoch <= m.epoch
  <2>1. \A x \in A : epoch[x] \in Int
    BY DEF Numbered
  <2>2. \E k \in A : \A x \in A : epoch[x] <= epoch[k]
    <3>1. IsFiniteSet(A)
      BY DEF Numbered
    <3> HIDE DEF epoch
    <3>2. epoch = [x \in A |-> epoch[x]]
      BY DEF epoch
    <3> QED BY <2>1, <3>1, <3>2, ImageMax
  <2> QED BY <2>2
<1> DEFINE B == {x \in A : x.epoch = m.epoch}
<1>2. B # {} /\ IsFiniteSet(B)
  BY FS_Subset DEF Numbered
<1>3. PICK e \in B : \A f \in B \ {e} : Later(e, f)
  BY <1>2, NumberedSubset, LatestExists
<1>4. ASSUME NEW f \in A \ {e} PROVE AuthorityBeats(e, f)
  <2>1. f.epoch <= e.epoch /\ f.epoch \in Nat /\ e.epoch \in Nat
    BY <1>1, <1>3 DEF Numbered
  <2>2. f.epoch = e.epoch => Later(e, f)
    BY <1>3, <1>4
  <2> QED BY <2>1, <2>2 DEF AuthorityBeats
<1> QED BY <1>3, <1>4

\* One grant outranks all others of a finite ledger (reduce_lease).
LEMMA TopGrantExists ==
    ASSUME NEW A, Numbered(A), A # {}, \A e \in A : e.seq \in Nat
    PROVE  \E e \in A : \A f \in A \ {e} : Outranks(e, f)
<1> DEFINE epoch == [x \in A |-> x.epoch]
<1>1. PICK m \in A : \A x \in A : x.epoch <= m.epoch
  <2>1. \A x \in A : epoch[x] \in Int
    BY DEF Numbered
  <2>2. \E k \in A : \A x \in A : epoch[x] <= epoch[k]
    <3>1. IsFiniteSet(A)
      BY DEF Numbered
    <3> HIDE DEF epoch
    <3>2. epoch = [x \in A |-> epoch[x]]
      BY DEF epoch
    <3> QED BY <2>1, <3>1, <3>2, ImageMax
  <2> QED BY <2>2
<1> DEFINE B == {x \in A : x.epoch = m.epoch}
           seq == [x \in B |-> x.seq]
<1>2. B # {} /\ IsFiniteSet(B)
  BY FS_Subset DEF Numbered
<1>3. PICK k \in B : \A x \in B : x.seq <= k.seq
  <2>1. \A x \in B : seq[x] \in Int
    OBVIOUS
  <2>2. \E j \in B : \A x \in B : seq[x] <= seq[j]
    BY <1>2, <2>1, ImageMax
  <2> QED BY <2>2
<1> DEFINE C == {x \in B : x.seq = k.seq}
<1>4. C # {} /\ IsFiniteSet(C)
  BY <1>2, FS_Subset
<1>5. PICK e \in C : \A f \in C \ {e} : Later(e, f)
  <2>1. C \in SUBSET A
    OBVIOUS
  <2>2. Numbered(C)
    BY <2>1, NumberedSubset
  <2> HIDE DEF C
  <2> QED BY <1>4, <2>2, LatestExists
<1>6. ASSUME NEW f \in A \ {e} PROVE Outranks(e, f)
  <2>1. /\ f.epoch <= e.epoch /\ f.epoch \in Nat /\ e.epoch \in Nat
        /\ f.seq \in Nat /\ e.seq \in Nat
    BY <1>1, <1>5 DEF Numbered
  <2>2. f.epoch = e.epoch => f.seq <= e.seq
    BY <1>3, <1>5
  <2>3. f.epoch = e.epoch /\ f.seq = e.seq => Later(e, f)
    BY <1>5, <1>6
  <2> QED BY <2>1, <2>2, <2>3 DEF Outranks
<1> QED BY <1>5, <1>6

GoodLedger(L) == L \in SUBSET Event /\ Numbered(L)

\* What kind an event is of tells its fields.
LEMMA EventFields ==
    ASSUME NEW e \in Event
    PROVE  /\ e.epoch \in Nat /\ e.at \in Nat /\ e.node \in Node /\ e.holder \in Node
           /\ e.kind = "role" => e \in RoleEvent
           /\ e.kind = "lease" => e \in LeaseEvent
           /\ e.kind \in {"role", "lease"}
BY DEF Event, RoleEvent, LeaseEvent

\* MaxEpoch is the greatest epoch of a finite ledger, or -1.
LEMMA MaxEpochOf ==
    ASSUME NEW L, GoodLedger(L)
    PROVE  /\ MaxEpoch(L) \in Nat \cup {-1}
           /\ \A e \in L : e.epoch <= MaxEpoch(L)
           /\ MaxEpoch(L) = -1 \/ \E e \in L : e.epoch = MaxEpoch(L)
<1> DEFINE epoch == [e \in L |-> e.epoch]
           T == {epoch[e] : e \in L}
           S == {-1} \cup {e.epoch : e \in L}
<1>1. \A e \in L : e.epoch \in Nat
  BY EventFields DEF GoodLedger
<1>2. IsFiniteSet(T)
  <2>1. IsFiniteSet(L)
    BY DEF GoodLedger, Numbered
  <2>2. epoch = [e \in L |-> epoch[e]]
    OBVIOUS
  <2> HIDE DEF epoch
  <2> QED BY <2>1, <2>2, ImageIsFinite
<1>3. S = T \cup {-1}
  OBVIOUS
<1>4. IsFiniteSet(S)
  BY <1>2, <1>3, FS_AddElement
<1>5. S \in SUBSET Int /\ S # {} /\ S \subseteq Nat \cup {-1}
  BY <1>1
<1>6. Max(S) \in S /\ \A x \in S : x <= Max(S)
  <2> HIDE DEF S
  <2> QED BY <1>4, <1>5, MaxIsMax
<1> QED BY <1>5, <1>6 DEF MaxEpoch

\* The coordinator of a ledger, if there is one, is a node with an epoch.
LEMMA CoordinatorOf ==
    ASSUME NEW L, GoodLedger(L), Coordinator(L).holder # Nobody
    PROVE  Coordinator(L) \in [holder : Node, epoch : Nat, pinned : BOOLEAN]
<1> DEFINE A == Authorities(L)
           e == CHOOSE e \in A : \A f \in A \ {e} : AuthorityBeats(e, f)
<1>1. A \in SUBSET L /\ \A a \in A : a.kind = "role"
  BY DEF Authorities, Roles
<1>2. A # {}
  BY DEF Coordinator, Vacancy
<1>3. Numbered(A)
  BY <1>1, NumberedSubset DEF GoodLedger
<1>4. e \in A
  <2> HIDE DEF A
  <2>1. \E k \in A : \A f \in A \ {k} : AuthorityBeats(k, f)
    BY <1>2, <1>3, TopAuthorityExists
  <2> QED BY <2>1
<1>5. e \in RoleEvent
  BY <1>1, <1>4, EventFields DEF GoodLedger
<1>6. e.holder \in Node /\ e.epoch \in Nat /\ e.pinned \in BOOLEAN
  BY <1>5 DEF RoleEvent
<1>7. Coordinator(L) = [holder |-> e.holder, epoch |-> e.epoch, pinned |-> e.pinned]
  BY <1>2 DEF Coordinator
<1> QED BY <1>6, <1>7

\* The winner of a scope with grants is one of them and outranks the others.
LEMMA WinnerOf ==
    ASSUME NEW L, GoodLedger(L), NEW s, Grants(L, s) # {}
    PROVE  /\ Winner(L, s) \in Grants(L, s) /\ Winner(L, s) \in LeaseEvent
           /\ \A f \in Grants(L, s) \ {Winner(L, s)} : Outranks(Winner(L, s), f)
<1> DEFINE G == Grants(L, s)
<1>1. G \in SUBSET L /\ \A g \in G : g.kind = "lease"
  BY DEF Grants
<1>2. Numbered(G)
  BY <1>1, NumberedSubset DEF GoodLedger
<1>3. \A g \in G : g \in LeaseEvent
  BY <1>1, EventFields DEF GoodLedger
<1>4. \A g \in G : g.seq \in Nat
  BY <1>3 DEF LeaseEvent
<1>5. \E k \in G : \A f \in G \ {k} : Outranks(k, f)
  <2> HIDE DEF G
  <2>1. G # {}
    BY DEF G
  <2> QED BY <1>2, <1>4, <2>1, TopGrantExists
<1>6. Winner(L, s) \in G /\ \A f \in G \ {Winner(L, s)} : Outranks(Winner(L, s), f)
  BY <1>5 DEF Winner
<1> QED BY <1>3, <1>6

\* The next grant_seq is beyond all there are (_next_grant_seq).
LEMMA NextSeqOf ==
    ASSUME NEW L, GoodLedger(L), NEW s, NEW epoch
    PROVE  /\ NextSeq(L, s, epoch) \in Nat
           /\ \A g \in Grants(L, s) : g.epoch = epoch => g.seq < NextSeq(L, s, epoch)
<1> DEFINE G == {g \in Grants(L, s) : g.epoch = epoch}
           seq == [g \in G |-> g.seq]
           T == {seq[g] : g \in G}
           S == {0} \cup {g.seq : g \in G}
<1>1. \A g \in G : g.seq \in Nat
  <2>1. \A g \in G : g \in Event /\ g.kind = "lease"
    BY DEF Grants, GoodLedger
  <2>2. \A g \in G : g \in LeaseEvent
    BY <2>1, EventFields
  <2> QED BY <2>2 DEF LeaseEvent
<1>2. IsFiniteSet(T)
  <2>1. IsFiniteSet(G)
    <3>1. G \subseteq L /\ IsFiniteSet(L)
      BY DEF Grants, GoodLedger, Numbered
    <3> QED BY <3>1, FS_Subset
  <2>2. seq = [g \in G |-> seq[g]]
    OBVIOUS
  <2> HIDE DEF G, seq
  <2> QED BY <2>1, <2>2, ImageIsFinite
<1>3. S = T \cup {0}
  OBVIOUS
<1>4. IsFiniteSet(S)
  BY <1>2, <1>3, FS_AddElement
<1>5. S \in SUBSET Int /\ S # {} /\ S \subseteq Nat
  BY <1>1
<1>6. Max(S) \in Nat /\ \A x \in S : x <= Max(S)
  <2> HIDE DEF S
  <2> QED BY <1>4, <1>5, MaxIsMax
<1>7. NextSeq(L, s, epoch) = 1 + Max(S)
  BY DEF NextSeq
<1>8. \A g \in G : g.seq \in S
  OBVIOUS
<1> HIDE DEF S
<1>9. \A g \in G : g.seq < 1 + Max(S)
  BY <1>1, <1>6, <1>8
<1> QED BY <1>6, <1>7, <1>9
============================================================================
