-------------------------- MODULE ReconcileProofs --------------------------
(***************************************************************************)
(* What was done in isolation is settled once by calls that do not         *)
(* overlap, for any nodes, scopes, ledgers and any number of calls that a  *)
(* node serves side by side (FleetReconcile).                              *)
(*                                                                         *)
(* The inductive invariant ReconcileInv says that every event and note is  *)
(* known to the node that wrote it, under a stamp it gave out once         *)
(* (LedgerInv, NotesInv); that a scope on which a node surfaced another's  *)
(* work stays contested on its ledger, whatever is written or arrives      *)
(* later (ConflictInv); and what a call under way may still record or      *)
(* adopt, given the notes that were there when it began to read (JobInv).  *)
(* Whatever the other calls of its node write meanwhile has a later stamp, *)
(* so a call's part of the invariant is disturbed by none of their steps.  *)
(***************************************************************************)
EXTENDS FleetReconcile, FleetLedgerProofs, TLAPS

Pcs == {"idle", "pulled", "scan", "detect", "open", "record", "adopt", "sweep", "stale"}

StoreKinds ==
    /\ ledger \in [Node -> SUBSET Event]
    /\ notes = [n \in Node |-> notes[n]]
    /\ hub = [ledger |-> hub.ledger, notes |-> hub.notes] /\ hub.ledger \in SUBSET Event
    /\ minted \in [Node -> Nat]
    /\ iso \in SUBSET (Node \X Nat)

IsJob(j) ==
    /\ j = [pc |-> j.pc, scopes |-> j.scopes, todo |-> j.todo, found |-> j.found, known |-> j.known,
            seen |-> j.seen]
    /\ j.pc \in Pcs /\ j.seen \in Nat

JobKinds ==
    /\ Site \in [Caller -> Node]
    /\ job = [c \in Caller |-> job[c]]
    /\ \A c \in Caller : IsJob(job[c]) /\ job[c].seen <= minted[Site[c]]

\* An event is on the ledger of its node, under a stamp this gave out.
Known(e) == e.at \in 1 .. minted[e.node] /\ e \in ledger[e.node]

LedgerInv ==
    /\ \A n \in Node : IsFiniteSet(ledger[n]) /\ \A e \in ledger[n] : Known(e)
    /\ IsFiniteSet(hub.ledger) /\ \A e \in hub.ledger : Known(e)
    /\ \A n \in Node : \A e, f \in ledger[n] : (e.node = n /\ f.node = n /\ e.at = f.at) => e = f
    /\ \A n \in Node, at \in Nat : <<n, at>> \in iso => at <= minted[n]
    /\ \A n \in Node : \A e \in ledger[n] :
          (e.node = n /\ e.kind = "lease" /\ <<n, e.at>> \in iso) => e.marker = "granted"

\* So is a note.
Noted(x) == x.by \in Node /\ x.at \in 1 .. minted[x.by] /\ x.scope \in Scope /\ x \in notes[x.by]

NotesInv ==
    /\ \A n \in Node : \A x \in notes[n] : Noted(x)
    /\ \A x \in hub.notes : Noted(x)

(***************************************************************************)
(* What another node did on a scope that was held in isolation, without    *)
(* the earliest stamp and the highest epoch.                               *)
(***************************************************************************)
Twice(n, s) == \E e, f \in IsoEvents(n, s) : f.epoch < e.epoch

Concurrent(n, s) ==
    \E g \in Grants(ledger[n], s) :
        /\ g.holder # n
        /\ \/ \E e \in IsoEvents(n, s) : e.at < g.at
           \/ \A e \in IsoEvents(n, s) : e.epoch <= g.epoch

WorkedOn(n, s) ==
    \E w \in notes[n] :
        /\ w.kind = "work" /\ w.scope = s /\ w.by # n
        /\ \E e \in IsoEvents(n, s) : e.at < w.at

Contested(n, s) ==
    /\ IsoEvents(n, s) # {}
    /\ Concurrent(n, s) \/ WorkedOn(n, s) \/ Twice(n, s)

ConflictAt(n) == \A c \in Written(n, "conflict") : Contested(n, c.scope)
ConflictInv == \A n \in Node : ConflictAt(n)

Settled(n, c) == \E r \in notes[n] : r.kind = "resolved" /\ r.about = <<n, c.at>>

\* SettledOnce, of one node.
SettledAt(n) ==
    /\ \A a, b \in Written(n, "adopted") : (a.scope = b.scope /\ a # b) => SideBySide(a, b)
    /\ \A a, b \in Written(n, "stale") : (a.about = b.about /\ a # b) => SideBySide(a, b)
    /\ \A a, b \in Written(n, "conflict") :
          (a.about = b.about /\ a.at < b.at) => SideBySide(a, b) \/ Settled(n, a)
    /\ \A a \in Written(n, "adopted"), c \in Written(n, "conflict") :
          a.scope = c.scope =>
             \/ SideBySide(a, c)
             \/ \E e, f \in IsoEvents(n, a.scope) : f.epoch < e.epoch /\ e.at < a.at

(***************************************************************************)
(* What a call has left to do, given what its node settled before it began *)
(* to read, under a stamp of at most seen, and what the call settled.      *)
(***************************************************************************)
Earlier(c, n, kind, seen) == {x \in Written(n, kind) : x.at <= seen \/ x.calls = {c}}

Unadopted(c, n, s, seen) == \A a \in Earlier(c, n, "adopted", seen) : a.scope # s
Hidden(c, n, s, seen) == \A d \in Earlier(c, n, "conflict", seen) : d.scope = s => Twice(n, s)

\* An overlap that was found, on a scope the call read as not adopted.
Found(c, n, o, seen) == o.scope \in Scope /\ Contested(n, o.scope) /\ Unadopted(c, n, o.scope, seen)

ScanOK(c, n, j) == \A a \in Earlier(c, n, "adopted", j.seen) : a.scope \in j.known

DetectOK(c, n, j) ==
    /\ \A s \in j.scopes : s \in Scope /\ IsoEvents(n, s) # {} /\ Unadopted(c, n, s, j.seen)
    /\ j.todo \subseteq j.scopes
    /\ \A o \in j.found : Found(c, n, o, j.seen)
    /\ j.found = {} => \A s \in j.scopes : s \in j.todo \/ Hidden(c, n, s, j.seen)

OpenOK(c, n, j) == \A o \in j.found : Found(c, n, o, j.seen)

RecordOK(c, n, j) ==
    \A o \in j.todo :
        /\ Found(c, n, o, j.seen)
        /\ <<o>> \notin j.known => \A d \in Earlier(c, n, "conflict", j.seen) : d.about = <<o>> => Settled(n, d)

AdoptOK(c, n, j) == \A s \in j.todo : s \in Scope /\ Unadopted(c, n, s, j.seen) /\ Hidden(c, n, s, j.seen)

SweepOK(n, j) ==
    /\ \A e \in j.todo : e \in LeaseEvent /\ e.node = n
    /\ \A k, l \in j.known : k = l

StaleOK(c, n, j) == \A x \in Earlier(c, n, "stale", j.seen) : x.about \notin j.known

JobOK(c, n, j) ==
    /\ j.pc = "scan" => ScanOK(c, n, j)
    /\ j.pc = "detect" => DetectOK(c, n, j)
    /\ j.pc = "open" => OpenOK(c, n, j)
    /\ j.pc = "record" => RecordOK(c, n, j)
    /\ j.pc = "adopt" => AdoptOK(c, n, j)
    /\ j.pc \in {"sweep", "stale"} => SweepOK(n, j)
    /\ j.pc = "stale" => StaleOK(c, n, j)

JobInv == \A c \in Caller : JobOK(c, Site[c], job[c])

ReconcileInv ==
    /\ StoreKinds /\ JobKinds /\ LedgerInv /\ NotesInv /\ ConflictInv /\ JobInv /\ SettledOnce

(***************************************************************************)
(* What grows stays.                                                       *)
(***************************************************************************)
Grows ==
    /\ iso \subseteq iso'
    /\ \A k \in Node : ledger[k] \subseteq ledger'[k] /\ notes[k] \subseteq notes'[k] /\ minted[k] <= minted'[k]

Marks == {"adopted", "stale", "conflict"}

\* No conflict, adoption or stale record is new.
QuietAt(k) == \A kind \in Marks : Written(k, kind)' = Written(k, kind)
Quiet == \A k \in Node : QuietAt(k)

\* What is new has a new stamp and is not the call's own.
Late(c) ==
    \A k \in Node, kind \in Marks : \A x \in Written(k, kind)' :
        x \in Written(k, kind) \/ (x.at \in Nat /\ minted[k] < x.at /\ x.calls # {c})

\* The ledgers the invariant allows are those the reducers are right about.
LEMMA LedgersAreGood ==
    ASSUME StoreKinds, LedgerInv, NEW n \in Node
    PROVE  GoodLedger(ledger[n])
<1>1. ledger[n] \in SUBSET Event
  BY DEF StoreKinds
<1>2. \A e \in ledger[n] : e.epoch \in Nat /\ e.at \in Nat /\ e.node \in Node
  BY <1>1, EventFields
<1>3. \A e \in ledger[n] : e.node \in Nat
  BY <1>2, NodesAreOrdered
<1>4. \A e, f \in ledger[n] : e.node = f.node /\ e.at = f.at => e = f
  BY <1>2 DEF LedgerInv, Known
<1>5. IsFiniteSet(ledger[n])
  BY DEF LedgerInv
<1> QED BY <1>1, <1>2, <1>3, <1>4, <1>5 DEF GoodLedger, Numbered

\* Events of an isolated hold stay.
LEMMA IsoEventsStay ==
    ASSUME Grows, NEW n \in Node, NEW s
    PROVE  IsoEvents(n, s) \subseteq IsoEvents(n, s)'
BY DEF Grows, IsoEvents

\* Two isolated holds stay two.
LEMMA TwiceStays ==
    ASSUME Grows, NEW n \in Node, NEW s, Twice(n, s)
    PROVE  Twice(n, s)'
BY IsoEventsStay DEF Twice

\* Events of an isolated hold have epochs and stamps.
LEMMA IsoEventFields ==
    ASSUME StoreKinds, NEW n \in Node, NEW s
    PROVE  /\ IsoEvents(n, s) \subseteq ledger[n]
           /\ \A e \in IsoEvents(n, s) : e.epoch \in Nat /\ e.at \in Nat
<1>1. \A e \in ledger[n] : e \in Event
  BY DEF StoreKinds
<1> QED BY <1>1, EventFields DEF IsoEvents

\* A contested scope stays contested: what is written or arrives later adds evidence or
\* an isolated hold of a higher epoch, and takes nothing away.
LEMMA ContestedStays ==
    ASSUME StoreKinds, StoreKinds', Grows, NEW n \in Node, NEW s, Contested(n, s)
    PROVE  Contested(n, s)'
<1>1. IsoEvents(n, s) \subseteq IsoEvents(n, s)' /\ IsoEvents(n, s) # {}
  BY IsoEventsStay DEF Contested
<1>2. CASE Twice(n, s)
  BY <1>1, <1>2, TwiceStays DEF Contested
<1>3. CASE WorkedOn(n, s)
  <2>1. WorkedOn(n, s)'
    BY <1>1, <1>3 DEF WorkedOn, Grows
  <2> QED BY <1>1, <2>1 DEF Contested
<1>4. CASE Concurrent(n, s)
  <2>1. PICK g \in Grants(ledger[n], s) :
          /\ g.holder # n
          /\ \/ \E e \in IsoEvents(n, s) : e.at < g.at
             \/ \A e \in IsoEvents(n, s) : e.epoch <= g.epoch
    BY <1>4 DEF Concurrent
  <2>2. g \in Grants(ledger[n], s)' /\ g.epoch \in Nat
    <3>1. g \in ledger[n] /\ ledger[n] \subseteq Event
      BY DEF Grants, StoreKinds
    <3>2. g.epoch \in Nat
      BY <3>1, EventFields
    <3> QED BY <3>1, <3>2 DEF Grants, Grows
  <2>3. CASE \E e \in IsoEvents(n, s) : e.at < g.at
    <3>1. Concurrent(n, s)'
      BY <1>1, <2>1, <2>2, <2>3 DEF Concurrent
    <3> QED BY <1>1, <3>1 DEF Contested
  <2>4. CASE \A e \in IsoEvents(n, s) : e.epoch <= g.epoch
    <3>1. CASE \A e \in IsoEvents(n, s)' : e.epoch <= g.epoch
      <4>1. Concurrent(n, s)'
        BY <2>1, <2>2, <3>1 DEF Concurrent
      <4> QED BY <1>1, <4>1 DEF Contested
    <3>2. CASE ~ \A e \in IsoEvents(n, s)' : e.epoch <= g.epoch
      <4>1. PICK e \in IsoEvents(n, s)' : ~ (e.epoch <= g.epoch)
        BY <3>2
      <4>2. PICK f \in IsoEvents(n, s) : TRUE
        BY <1>1
      <4>3. e.epoch \in Nat /\ f.epoch \in Nat
        <5>1. \A x \in ledger'[n] : x \in Event
          BY DEF StoreKinds
        <5>2. e \in ledger'[n] /\ f \in ledger'[n]
          BY <1>1, <4>1, <4>2 DEF IsoEvents
        <5> QED BY <5>1, <5>2, EventFields
      <4>4. f.epoch < e.epoch
        BY <2>2, <2>4, <4>1, <4>2, <4>3
      <4>5. Twice(n, s)'
        BY <1>1, <4>1, <4>2, <4>4 DEF Twice
      <4> QED BY <1>1, <4>5 DEF Contested
    <3> QED BY <3>1, <3>2
  <2> QED BY <2>1, <2>3, <2>4
<1> QED BY <1>2, <1>3, <1>4 DEF Contested

\* Who adopted what is in the adoptions written.
LEMMA AdoptedIs ==
    ASSUME NEW n \in Node
    PROVE  Adopted(n) = {a.scope : a \in Written(n, "adopted")}
BY DEF Adopted, Written

\* Where a node records none of the three, what it settled stays settled.
LEMMA QuietKeeps ==
    ASSUME ReconcileInv, StoreKinds', Grows, NEW n \in Node, QuietAt(n)
    PROVE  ConflictAt(n)' /\ SettledAt(n)'
<1>0. StoreKinds /\ ConflictAt(n) /\ SettledAt(n)
  BY DEF ReconcileInv, ConflictInv, SettledOnce, SettledAt, Settled
<1>1. ConflictAt(n)'
  <2> SUFFICES ASSUME NEW c \in Written(n, "conflict") PROVE Contested(n, c.scope)'
    BY DEF ConflictAt, QuietAt, Marks
  <2>1. Contested(n, c.scope)
    BY <1>0 DEF ConflictAt
  <2> QED BY <1>0, <2>1, ContestedStays
<1>2. SettledAt(n)'
  <2>1. /\ \A d : Settled(n, d) => Settled(n, d)'
        /\ \A s : IsoEvents(n, s) \subseteq IsoEvents(n, s)'
    BY IsoEventsStay DEF Grows, Settled
  <2> SUFFICES /\ \A a, b \in Written(n, "adopted") : (a.scope = b.scope /\ a # b) => SideBySide(a, b)
               /\ \A a, b \in Written(n, "stale") : (a.about = b.about /\ a # b) => SideBySide(a, b)
               /\ \A a, b \in Written(n, "conflict") :
                     (a.about = b.about /\ a.at < b.at) => SideBySide(a, b) \/ Settled(n, a)'
               /\ \A a \in Written(n, "adopted"), c \in Written(n, "conflict") :
                     a.scope = c.scope =>
                        \/ SideBySide(a, c)
                        \/ \E e, f \in IsoEvents(n, a.scope)' : f.epoch < e.epoch /\ e.at < a.at
    BY DEF SettledAt, QuietAt, Marks
  <2> QED BY <1>0, <2>1 DEF SettledAt
<1> QED BY <1>1, <1>2

\* Where nothing is new, nothing has an old stamp.
LEMMA QuietIsLate == Quiet => \A c : Late(c)
BY DEF Quiet, QuietAt, Late

\* What a call has read or settled is not changed by new notes of another.
LEMMA EarlierStays ==
    ASSUME Grows, NEW c, Late(c), NEW n \in Node, NEW kind \in Marks, minted[n] \in Nat,
           NEW seen \in Nat, seen <= minted[n]
    PROVE  Earlier(c, n, kind, seen)' \subseteq Earlier(c, n, kind, seen)
<1> SUFFICES ASSUME NEW x \in Written(n, kind)', x.at <= seen \/ x.calls = {c} PROVE x \in Earlier(c, n, kind, seen)
  BY DEF Earlier
<1>1. x \in Written(n, kind)
  BY DEF Late
<1> QED BY <1>1 DEF Earlier

\* What a call has left to do is still right, whatever the calls beside it write.
LEMMA JobStays ==
    ASSUME StoreKinds, StoreKinds', Grows, NEW c, Late(c), NEW n \in Node,
           NEW j, j.seen \in Nat, j.seen <= minted[n], JobOK(c, n, j)
    PROVE  JobOK(c, n, j)'
<1>1. \A kind \in Marks : Earlier(c, n, kind, j.seen)' \subseteq Earlier(c, n, kind, j.seen)
  <2>1. minted[n] \in Nat
    BY DEF StoreKinds
  <2>2. PICK seen \in Nat : seen = j.seen
    OBVIOUS
  <2>3. seen <= minted[n]
    BY <2>2
  <2>4. \A kind \in Marks : Earlier(c, n, kind, seen)' \subseteq Earlier(c, n, kind, seen)
    BY <2>1, <2>3, EarlierStays
  <2> QED BY <2>2, <2>4
<1>2. \A s : Unadopted(c, n, s, j.seen) => Unadopted(c, n, s, j.seen)'
  BY <1>1 DEF Unadopted, Marks
<1>3. \A s : Hidden(c, n, s, j.seen) => Hidden(c, n, s, j.seen)'
  BY <1>1, TwiceStays DEF Hidden, Marks
<1>4. \A o : Found(c, n, o, j.seen) => Found(c, n, o, j.seen)'
  BY <1>2, ContestedStays DEF Found
<1>5. \A s : IsoEvents(n, s) # {} => IsoEvents(n, s)' # {}
  BY IsoEventsStay
<1>6. \A d : Settled(n, d) => Settled(n, d)'
  BY DEF Settled, Grows
<1>7. j.pc = "scan" => ScanOK(c, n, j)'
  BY <1>1 DEF JobOK, ScanOK, Marks
<1>8. j.pc = "detect" => DetectOK(c, n, j)'
  BY <1>2, <1>3, <1>4, <1>5 DEF JobOK, DetectOK
<1>9. j.pc = "open" => OpenOK(c, n, j)'
  BY <1>4 DEF JobOK, OpenOK
<1>10. j.pc = "record" => RecordOK(c, n, j)'
  BY <1>1, <1>4, <1>6 DEF JobOK, RecordOK, Marks
<1>11. j.pc = "adopt" => AdoptOK(c, n, j)'
  BY <1>2, <1>3 DEF JobOK, AdoptOK
<1>12. (j.pc \in {"sweep", "stale"} => SweepOK(n, j)') /\ (j.pc = "stale" => StaleOK(c, n, j)')
  BY <1>1 DEF JobOK, SweepOK, StaleOK, Marks
<1> QED BY <1>7, <1>8, <1>9, <1>10, <1>11, <1>12 DEF JobOK

(***************************************************************************)
(* What the steps write.                                                   *)
(***************************************************************************)
\* New events of one node, each under a stamp of its own beyond those given out, keep
\* ledgers and stamps in order.
LEMMA EventsKeep ==
    ASSUME ReconcileInv, NEW n \in Node, NEW E \in SUBSET Event, IsFiniteSet(E), NEW k \in Nat,
           NEW I \in SUBSET (Node \X Nat),
           \A e \in E : e.node = n /\ e.at \in minted[n] + 1 .. minted[n] + k,
           \A e, f \in E : e.at = f.at => e = f,
           \A p \in I : \E e \in E : p = <<n, e.at>> /\ (e.kind = "lease" => e.marker = "granted"),
           ledger' = [ledger EXCEPT ![n] = @ \cup E],
           minted' = [minted EXCEPT ![n] = @ + k],
           iso' = iso \cup I, UNCHANGED <<notes, hub>>
    PROVE  StoreKinds' /\ LedgerInv' /\ NotesInv' /\ Grows /\ Quiet
<1>1. StoreKinds /\ LedgerInv /\ NotesInv
  BY DEF ReconcileInv
<1>2. /\ ledger'[n] = ledger[n] \cup E /\ minted'[n] = minted[n] + k
      /\ \A m \in Node : m # n => ledger'[m] = ledger[m] /\ minted'[m] = minted[m]
  BY <1>1 DEF StoreKinds
<1>3. StoreKinds'
  BY <1>1 DEF StoreKinds
<1>4. Grows
  <2>1. \A m \in Node : minted[m] <= minted'[m]
    BY <1>1, <1>2 DEF StoreKinds
  <2>2. \A m \in Node : ledger[m] \subseteq ledger'[m] /\ notes[m] \subseteq notes'[m]
    BY <1>2
  <2> QED BY <2>1, <2>2 DEF Grows
<1>5. Quiet
  BY DEF Quiet, QuietAt, Written
<1>6. ASSUME NEW e \in Event, Known(e) PROVE Known(e)'
  <2>1. e.node \in Node /\ e.at \in Nat
    BY EventFields
  <2>2. minted[e.node] \in Nat /\ minted'[e.node] \in Nat /\ minted[e.node] <= minted'[e.node]
    BY <1>1, <1>2, <2>1 DEF StoreKinds
  <2> QED BY <1>4, <1>6, <2>1, <2>2 DEF Known, Grows
<1>7. \A e \in E : Known(e)'
  <2> SUFFICES ASSUME NEW e \in E PROVE Known(e)'
    OBVIOUS
  <2>1. minted[n] \in Nat /\ e.node = n /\ e.at \in minted[n] + 1 .. minted[n] + k
    BY <1>1 DEF StoreKinds
  <2> QED BY <1>2, <2>1 DEF Known
<1>8. ASSUME NEW m \in Node
      PROVE  IsFiniteSet(ledger'[m]) /\ \A e \in ledger'[m] : Known(e)'
  <2>1. ledger[m] \subseteq Event /\ IsFiniteSet(ledger[m]) /\ \A e \in ledger[m] : Known(e)
    BY <1>1 DEF StoreKinds, LedgerInv
  <2>2. IsFiniteSet(ledger[m] \cup E)
    BY <2>1, FS_Union
  <2> QED BY <1>2, <1>6, <1>7, <2>1, <2>2
<1>9. IsFiniteSet(hub'.ledger) /\ \A e \in hub'.ledger : Known(e)'
  BY <1>1, <1>6 DEF StoreKinds, LedgerInv
<1>10. \A e \in ledger[n] : e.node = n => e.at \in Nat /\ e.at <= minted[n]
  BY <1>1 DEF LedgerInv, Known, StoreKinds
<1>11. ASSUME NEW m \in Node, NEW e \in ledger'[m], NEW f \in ledger'[m], e.node = m, f.node = m, e.at = f.at
       PROVE  e = f
  <2>1. CASE m # n
    BY <1>1, <1>2, <1>11, <2>1 DEF LedgerInv
  <2>2. CASE m = n
    <3>1. (e \in ledger[n] \/ e \in E) /\ (f \in ledger[n] \/ f \in E) /\ minted[n] \in Nat
      BY <1>1, <1>2, <2>2 DEF StoreKinds
    <3>2. CASE e \in ledger[n] /\ f \in ledger[n]
      BY <1>1, <1>11, <2>2, <3>2 DEF LedgerInv
    <3>3. CASE e \in E /\ f \in E
      BY <1>11, <3>3
    <3>4. CASE e \in E /\ f \in ledger[n]
      BY <1>10, <1>11, <2>2, <3>1, <3>4
    <3>5. CASE e \in ledger[n] /\ f \in E
      BY <1>10, <1>11, <2>2, <3>1, <3>5
    <3> QED BY <3>1, <3>2, <3>3, <3>4, <3>5
  <2> QED BY <2>1, <2>2
<1>12. ASSUME NEW m \in Node, NEW at \in Nat, <<m, at>> \in iso' PROVE at <= minted'[m]
  <2>1. minted[m] \in Nat /\ minted'[m] \in Nat /\ minted[m] <= minted'[m]
    BY <1>1, <1>2 DEF StoreKinds
  <2>2. CASE <<m, at>> \in iso
    BY <1>1, <2>1, <2>2 DEF LedgerInv
  <2>3. CASE <<m, at>> \in I
    <3>1. PICK e \in E : <<m, at>> = <<n, e.at>>
      BY <2>3
    <3>2. m = n /\ at = e.at /\ e.at <= minted[n] + k /\ minted[n] \in Nat /\ e.at \in Int
      BY <1>1, <3>1 DEF StoreKinds
    <3> QED BY <1>2, <3>2
  <2> QED BY <1>12, <2>2, <2>3
<1>13. ASSUME NEW m \in Node, NEW e \in ledger'[m], e.node = m, e.kind = "lease", <<m, e.at>> \in iso'
       PROVE  e.marker = "granted"
  <2>0. e \in Event
    BY <1>3 DEF StoreKinds
  <2>1. CASE <<m, e.at>> \in iso
    <3>1. e.at \in Nat /\ e.at <= minted[m] /\ minted[m] \in Nat
      BY <1>1, <2>0, <2>1, EventFields DEF LedgerInv, StoreKinds
    <3>2. e \in ledger[m]
      BY <1>2, <1>13, <3>1
    <3> QED BY <1>1, <1>13, <2>1, <3>2 DEF LedgerInv
  <2>2. CASE <<m, e.at>> \in I
    <3>1. PICK f \in E : <<m, e.at>> = <<n, f.at>> /\ (f.kind = "lease" => f.marker = "granted")
      BY <2>2
    <3>2. m = n /\ e.at = f.at /\ f \in ledger'[m] /\ f.node = m
      BY <1>2, <3>1
    <3>3. e = f
      BY <1>11, <1>13, <3>2
    <3> QED BY <1>13, <3>1, <3>3
  <2> QED BY <1>13, <2>1, <2>2
<1>14. LedgerInv'
  BY <1>8, <1>9, <1>11, <1>12, <1>13 DEF LedgerInv
<1>15. NotesInv'
  <2>1. ASSUME NEW x, Noted(x) PROVE Noted(x)'
    <3>1. minted[x.by] \in Nat /\ minted'[x.by] \in Nat /\ minted[x.by] <= minted'[x.by]
      BY <1>1, <1>2, <2>1 DEF StoreKinds, Noted
    <3> QED BY <2>1, <3>1 DEF Noted
  <2> QED BY <1>1, <2>1 DEF NotesInv
<1> QED BY <1>3, <1>4, <1>5, <1>14, <1>15

\* A new note of one node under its next stamp keeps notes in order, and is the only one
\* that is new.
LEMMA NoteKeeps ==
    ASSUME ReconcileInv, NEW n \in Node, NEW x,
           x.by = n, x.at = minted[n] + 1, x.scope \in Scope,
           Record(n, x), UNCHANGED <<ledger, iso, hub>>
    PROVE  /\ StoreKinds' /\ LedgerInv' /\ NotesInv' /\ Grows
           /\ \A k \in Node, kind \in Marks :
                 Written(k, kind)' = IF k = n /\ kind = x.kind THEN Written(k, kind) \cup {x} ELSE Written(k, kind)
<1>1. StoreKinds /\ LedgerInv /\ NotesInv
  BY DEF ReconcileInv
<1>2. /\ minted' = [minted EXCEPT ![n] = @ + 1] /\ notes' = [notes EXCEPT ![n] = @ \cup {x}]
      /\ minted'[n] = minted[n] + 1 /\ notes'[n] = notes[n] \cup {x}
      /\ \A m \in Node : m # n => minted'[m] = minted[m] /\ notes'[m] = notes[m]
  BY <1>1 DEF StoreKinds, Record, Stamps
<1>3. StoreKinds'
  <2>1. notes' = [m \in Node |-> notes'[m]]
    <3>1. PICK old : old = notes
      OBVIOUS
    <3>2. old = [m \in Node |-> old[m]] /\ notes' = [old EXCEPT ![n] = @ \cup {x}]
      BY <1>1, <1>2, <3>1 DEF StoreKinds
    <3>3. notes' = [m \in Node |-> IF m = n THEN old[n] \cup {x} ELSE old[m]]
      BY <3>2
    <3> QED BY <3>3
  <2>2. minted' \in [Node -> Nat]
    BY <1>1, <1>2 DEF StoreKinds
  <2> QED BY <1>1, <2>1, <2>2 DEF StoreKinds
<1>5. \A m \in Node : minted[m] \in Nat /\ minted'[m] \in Nat /\ minted[m] <= minted'[m]
  BY <1>1, <1>2 DEF StoreKinds
<1>4. Grows
  BY <1>2, <1>5 DEF Grows
<1>6. ASSUME NEW y, Noted(y) PROVE Noted(y)'
  BY <1>4, <1>5, <1>6 DEF Noted, Grows
<1>7. Noted(x)'
  BY <1>2, <1>5 DEF Noted
<1>8. NotesInv'
  BY <1>1, <1>2, <1>6, <1>7 DEF NotesInv
<1>9. ASSUME NEW e \in Event, Known(e) PROVE Known(e)'
  BY <1>5, <1>9, EventFields DEF Known
<1>10. LedgerInv'
  <2>1. \A m \in Node : ledger[m] \subseteq Event
    BY <1>1 DEF StoreKinds
  <2>2. hub.ledger \subseteq Event
    BY <1>1 DEF StoreKinds
  <2>3. \A m \in Node, at \in Nat : <<m, at>> \in iso => at <= minted'[m]
    BY <1>1, <1>5 DEF LedgerInv
  <2> QED BY <1>1, <1>9, <2>1, <2>2, <2>3 DEF LedgerInv
<1>11. ASSUME NEW k \in Node, NEW kind \in Marks
       PROVE  Written(k, kind)' = IF k = n /\ kind = x.kind THEN Written(k, kind) \cup {x} ELSE Written(k, kind)
  BY <1>2 DEF Written
<1> QED BY <1>3, <1>4, <1>8, <1>10, <1>11

\* So does what a pull brings (drain pull, SyncHandle.pull).
LEMMA JoinsKeep ==
    ASSUME ReconcileInv, NEW n \in Node, Joins(n), UNCHANGED <<iso, hub, stamps>>
    PROVE  StoreKinds' /\ LedgerInv' /\ NotesInv' /\ Grows /\ Quiet
<1>1. StoreKinds /\ LedgerInv /\ NotesInv
  BY DEF ReconcileInv
<1>2. /\ ledger' = [ledger EXCEPT ![n] = @ \cup hub.ledger] /\ notes' = [notes EXCEPT ![n] = @ \cup hub.notes]
      /\ ledger'[n] = ledger[n] \cup hub.ledger /\ notes'[n] = notes[n] \cup hub.notes
      /\ \A m \in Node : m # n => ledger'[m] = ledger[m] /\ notes'[m] = notes[m]
      /\ iso' = iso /\ hub' = hub /\ minted' = minted
  BY <1>1 DEF StoreKinds, Joins, stamps
<1>3. StoreKinds'
  <2>1. notes' = [m \in Node |-> notes'[m]]
    <3>1. PICK old : old = notes
      OBVIOUS
    <3>2. old = [m \in Node |-> old[m]] /\ notes' = [old EXCEPT ![n] = @ \cup hub.notes]
      BY <1>1, <1>2, <3>1 DEF StoreKinds
    <3>3. notes' = [m \in Node |-> IF m = n THEN old[n] \cup hub.notes ELSE old[m]]
      BY <3>2
    <3> QED BY <3>3
  <2>2. ledger' \in [Node -> SUBSET Event]
    BY <1>1, <1>2 DEF StoreKinds
  <2> QED BY <1>1, <1>2, <2>1, <2>2 DEF StoreKinds
<1>4. Grows
  BY <1>1, <1>2 DEF Grows, StoreKinds
<1>5. \A e : Known(e) => Known(e)'
  BY <1>2, <1>3, <1>4 DEF Known, Grows, StoreKinds
<1>6. \A x : Noted(x) => Noted(x)'
  BY <1>2, <1>4 DEF Noted, Grows
<1>7. NotesInv'
  BY <1>1, <1>2, <1>6 DEF NotesInv
<1>8. \A e \in hub.ledger : e.node = n => e \in ledger[n]
  BY <1>1 DEF LedgerInv, Known
<1>9. ASSUME NEW m \in Node
      PROVE  IsFiniteSet(ledger'[m]) /\ \A e \in ledger'[m] : Known(e)'
  <2>1. IsFiniteSet(ledger[m] \cup hub.ledger)
    BY <1>1, FS_Union DEF LedgerInv
  <2> QED BY <1>1, <1>2, <1>5, <2>1 DEF LedgerInv
<1>10. \A m \in Node : \A e \in ledger'[m] : e.node = m => e \in ledger[m]
  BY <1>2, <1>8
<1>11. LedgerInv'
  <2>1. IsFiniteSet(hub'.ledger) /\ \A e \in hub'.ledger : Known(e)'
    BY <1>1, <1>2, <1>5 DEF LedgerInv
  <2>2. \A m \in Node : \A e, f \in ledger'[m] : (e.node = m /\ f.node = m /\ e.at = f.at) => e = f
    BY <1>1, <1>10 DEF LedgerInv
  <2>3. \A m \in Node, at \in Nat : <<m, at>> \in iso' => at <= minted'[m]
    BY <1>1, <1>2 DEF LedgerInv
  <2>4. \A m \in Node : \A e \in ledger'[m] :
          (e.node = m /\ e.kind = "lease" /\ <<m, e.at>> \in iso') => e.marker = "granted"
    BY <1>1, <1>2, <1>10 DEF LedgerInv
  <2> QED BY <1>9, <2>1, <2>2, <2>3, <2>4 DEF LedgerInv
<1>12. Quiet
  <2> SUFFICES ASSUME NEW k \in Node, NEW kind PROVE Written(k, kind)' = Written(k, kind)
    BY DEF Quiet, QuietAt
  <2>1. \A x \in hub.notes : x.by = k => x \in notes[k]
    BY <1>1 DEF NotesInv, Noted
  <2> QED BY <1>2, <2>1 DEF Written
<1> QED BY <1>3, <1>4, <1>7, <1>11, <1>12

\* And what a push brings the hub.
LEMMA PushKeepsStore ==
    ASSUME ReconcileInv, NEW n \in Node, Push(n)
    PROVE  StoreKinds' /\ LedgerInv' /\ NotesInv' /\ Grows /\ Quiet /\ job' = job
<1>1. StoreKinds /\ LedgerInv /\ NotesInv
  BY DEF ReconcileInv
<1>2. /\ hub' = [ledger |-> hub.ledger \cup ledger[n], notes |-> hub.notes \cup notes[n]]
      /\ hub'.ledger = hub.ledger \cup ledger[n] /\ hub'.notes = hub.notes \cup notes[n]
      /\ ledger' = ledger /\ notes' = notes /\ iso' = iso /\ minted' = minted /\ job' = job
  BY DEF Push, stamps
<1>3. StoreKinds'
  BY <1>1, <1>2 DEF StoreKinds
<1>4. Grows
  BY <1>1, <1>2 DEF Grows, StoreKinds
<1>5. Quiet
  BY <1>2 DEF Quiet, QuietAt, Written
<1>6. (\A e : Known(e) <=> Known(e)') /\ \A x : Noted(x) <=> Noted(x)'
  BY <1>2 DEF Known, Noted
<1>7. NotesInv'
  BY <1>1, <1>2, <1>6 DEF NotesInv
<1>8. LedgerInv'
  <2>1. IsFiniteSet(hub'.ledger)
    BY <1>1, <1>2, FS_Union DEF LedgerInv
  <2> QED BY <1>1, <1>2, <1>6, <2>1 DEF LedgerInv
<1> QED BY <1>2, <1>3, <1>4, <1>5, <1>7, <1>8

\* Where nothing but jobs changes, ledgers and notes stay in order.
LEMMA StoreStays ==
    ASSUME ReconcileInv, UNCHANGED <<ledger, iso, notes, hub, stamps>>
    PROVE  StoreKinds' /\ LedgerInv' /\ NotesInv' /\ Grows /\ Quiet
<1>1. StoreKinds /\ LedgerInv /\ NotesInv
  BY DEF ReconcileInv
<1>2. ledger' = ledger /\ notes' = notes /\ iso' = iso /\ minted' = minted /\ hub' = hub
  BY DEF stamps
<1>3. StoreKinds'
  BY <1>1, <1>2 DEF StoreKinds
<1>4. (\A e : Known(e) <=> Known(e)') /\ \A x : Noted(x) <=> Noted(x)'
  BY <1>2 DEF Known, Noted
<1>5. LedgerInv' /\ NotesInv'
  BY <1>1, <1>2, <1>4 DEF LedgerInv, NotesInv
<1>6. Grows /\ Quiet
  BY <1>1, <1>2 DEF Grows, StoreKinds, Quiet, QuietAt, Written
<1> QED BY <1>3, <1>5, <1>6

\* The invariant is each node's part of it and the part of each call.
LEMMA PartsMakeInv ==
    ASSUME ReconcileInv, StoreKinds', JobKinds', LedgerInv', NotesInv', Grows,
           NEW c \in Caller, \A d \in Caller : d # c => Late(d), NEW n \in Node, \A m \in Node : m # n => QuietAt(m),
           \A d \in Caller : d # c => job'[d] = job[d], JobOK(c, Site[c], job[c])',
           ConflictAt(n)', SettledAt(n)'
    PROVE  ReconcileInv'
<1>1. \A m \in Node : ConflictAt(m)' /\ SettledAt(m)'
  BY QuietKeeps
<1>2. ASSUME NEW d \in Caller, d # c PROVE JobOK(d, Site[d], job[d])'
  <2>1. PICK j : j = job[d]
    OBVIOUS
  <2>2. PICK m \in Node : m = Site[d]
    BY DEF ReconcileInv, JobKinds
  <2>3. JobOK(d, m, j) /\ j = job'[d] /\ j.seen \in Nat /\ j.seen <= minted[m] /\ StoreKinds
    BY <1>2, <2>1, <2>2 DEF ReconcileInv, JobInv, JobKinds, IsJob
  <2>4. JobOK(d, m, j)'
    BY <1>2, <2>3, JobStays
  <2> QED BY <2>2, <2>3, <2>4
<1>3. ConflictInv' /\ SettledOnce' /\ JobInv'
  BY <1>1, <1>2 DEF ConflictInv, SettledOnce, SettledAt, Settled, JobInv
<1> QED BY <1>3 DEF ReconcileInv

\* A step beside all calls.
LEMMA BesideJobs ==
    ASSUME ReconcileInv, StoreKinds', LedgerInv', NotesInv', Grows, Quiet, job' = job
    PROVE  ReconcileInv'
<1>1. JobKinds'
  <2>1. \A c \in Caller : job[c].seen <= minted'[Site[c]]
    <3> SUFFICES ASSUME NEW c \in Caller PROVE job[c].seen <= minted'[Site[c]]
      OBVIOUS
    <3>1. Site[c] \in Node /\ job[c].seen \in Nat /\ job[c].seen <= minted[Site[c]]
      BY DEF ReconcileInv, JobKinds, IsJob
    <3>2. minted[Site[c]] \in Nat /\ minted'[Site[c]] \in Nat /\ minted[Site[c]] <= minted'[Site[c]]
      BY <3>1 DEF ReconcileInv, StoreKinds, Grows
    <3> QED BY <3>1, <3>2
  <2> QED BY <2>1 DEF ReconcileInv, JobKinds
<1>2. ASSUME NEW d \in Caller PROVE JobOK(d, Site[d], job[d])'
  <2>1. PICK j : j = job[d]
    OBVIOUS
  <2>2. PICK m \in Node : m = Site[d]
    BY DEF ReconcileInv, JobKinds
  <2>3. JobOK(d, m, j) /\ j = job'[d] /\ j.seen \in Nat /\ j.seen <= minted[m] /\ StoreKinds
    BY <2>1, <2>2 DEF ReconcileInv, JobInv, JobKinds, IsJob
  <2>4. JobOK(d, m, j)'
    BY <2>3, JobStays, QuietIsLate
  <2> QED BY <2>2, <2>3, <2>4
<1>3. \A m \in Node : ConflictAt(m)' /\ SettledAt(m)'
  BY QuietKeeps DEF Quiet
<1>4. ConflictInv' /\ SettledOnce' /\ JobInv'
  BY <1>2, <1>3 DEF ConflictInv, SettledOnce, SettledAt, Settled, JobInv
<1> QED BY <1>1, <1>4 DEF ReconcileInv

\* One call goes on.
LEMMA JobBecomes ==
    ASSUME ReconcileInv, StoreKinds', Grows, NEW c \in Caller, NEW j, Becomes(c, j), IsJob(j), j.seen <= minted[Site[c]]
    PROVE  JobKinds' /\ job'[c] = j /\ \A d \in Caller : d # c => job'[d] = job[d]
<1>1. /\ job = [d \in Caller |-> job[d]] /\ Site \in [Caller -> Node]
      /\ \A d \in Caller : IsJob(job[d]) /\ job[d].seen <= minted[Site[d]]
  BY DEF ReconcileInv, JobKinds
<1>2. job' = [job EXCEPT ![c] = j]
  BY DEF Becomes
<1>3. job'[c] = j /\ \A d \in Caller : d # c => job'[d] = job[d]
  BY <1>1, <1>2
<1>4. job' = [d \in Caller |-> job'[d]]
  <2>1. PICK old : old = job
    OBVIOUS
  <2>2. old = [d \in Caller |-> old[d]] /\ job' = [old EXCEPT ![c] = j]
    BY <1>1, <1>2, <2>1
  <2>3. job' = [d \in Caller |-> IF d = c THEN j ELSE old[d]]
    BY <2>2
  <2> QED BY <2>3
<1>5. \A d \in Caller : IsJob(job'[d]) /\ job'[d].seen <= minted[Site[d]]
  BY <1>1, <1>3
<1>6. ASSUME NEW d \in Caller PROVE job'[d].seen <= minted'[Site[d]]
  <2>1. job'[d].seen \in Nat /\ job'[d].seen <= minted[Site[d]] /\ Site[d] \in Node
    BY <1>1, <1>5 DEF IsJob
  <2>2. minted[Site[d]] \in Nat /\ minted'[Site[d]] \in Nat /\ minted[Site[d]] <= minted'[Site[d]]
    BY <2>1 DEF ReconcileInv, StoreKinds, Grows
  <2> QED BY <2>1, <2>2
<1> QED BY <1>1, <1>3, <1>4, <1>5, <1>6 DEF JobKinds, IsJob

\* A step of one call that records nothing.
LEMMA OneJob ==
    ASSUME ReconcileInv, StoreKinds', LedgerInv', NotesInv', Grows, Quiet,
           NEW c \in Caller, NEW j, Becomes(c, j), IsJob(j), j.seen <= minted[Site[c]], JobOK(c, Site[c], j)
    PROVE  ReconcileInv'
<1>1. JobKinds' /\ job'[c] = j /\ \A d \in Caller : d # c => job'[d] = job[d]
  BY JobBecomes
<1>2. PICK n \in Node : n = Site[c]
  BY DEF ReconcileInv, JobKinds
<1>3. j.seen \in Nat /\ j.seen <= minted[n] /\ JobOK(c, n, j) /\ StoreKinds /\ QuietAt(n)
  BY <1>2 DEF IsJob, ReconcileInv, Quiet
<1>4. JobOK(c, n, j)'
  BY <1>3, JobStays, QuietIsLate
<1>5. JobOK(c, Site[c], job[c])'
  BY <1>1, <1>2, <1>4
<1>6. ConflictAt(n)' /\ SettledAt(n)'
  BY <1>3, QuietKeeps
<1> QED BY <1>1, <1>5, <1>6, PartsMakeInv, QuietIsLate DEF Quiet

\* A note of a call is about nothing the call has left to do.
Spares(j, x) ==
    \/ j.pc \in {"idle", "sweep"}
    \/ j.pc = "record" /\ x.kind = "conflict" /\ \A o \in j.todo : <<o>> # x.about
    \/ j.pc = "adopt" /\ x.kind = "adopted" /\ x.scope \notin j.todo

\* So what the call has left to do is still right after it.
LEMMA OwnNoteFits ==
    ASSUME StoreKinds, StoreKinds', Grows, NEW c, NEW n \in Node, NEW x, NEW j, JobOK(c, n, j), Spares(j, x),
           \A kind \in Marks : \A y \in Written(n, kind)' : y \in Written(n, kind) \/ (y = x /\ x.kind = kind)
    PROVE  JobOK(c, n, j)'
<1>1. \A kind \in Marks : \A y \in Earlier(c, n, kind, j.seen)' :
         y \in Earlier(c, n, kind, j.seen) \/ (y = x /\ x.kind = kind)
  BY DEF Earlier
<1>2. CASE j.pc \in {"idle", "sweep"}
  BY <1>2 DEF JobOK, SweepOK
<1>3. CASE j.pc = "record" /\ x.kind = "conflict" /\ \A o \in j.todo : <<o>> # x.about
  <2>1. \A s : Unadopted(c, n, s, j.seen) => Unadopted(c, n, s, j.seen)'
    BY <1>1, <1>3 DEF Unadopted, Marks
  <2>2. \A o : Found(c, n, o, j.seen) => Found(c, n, o, j.seen)'
    BY <2>1, ContestedStays DEF Found
  <2>3. \A d : Settled(n, d) => Settled(n, d)'
    BY DEF Settled, Grows
  <2>4. RecordOK(c, n, j)'
    BY <1>1, <1>3, <2>2, <2>3 DEF JobOK, RecordOK, Marks
  <2> QED BY <1>3, <2>4 DEF JobOK
<1>4. CASE j.pc = "adopt" /\ x.kind = "adopted" /\ x.scope \notin j.todo
  <2>1. \A s \in j.todo : Unadopted(c, n, s, j.seen) => Unadopted(c, n, s, j.seen)'
    BY <1>1, <1>4 DEF Unadopted, Marks
  <2>2. \A s : Hidden(c, n, s, j.seen) => Hidden(c, n, s, j.seen)'
    BY <1>1, <1>4, TwiceStays DEF Hidden, Marks
  <2>3. AdoptOK(c, n, j)'
    BY <1>4, <2>1, <2>2 DEF JobOK, AdoptOK
  <2> QED BY <1>4, <2>3 DEF JobOK
<1> QED BY <1>2, <1>3, <1>4 DEF Spares

\* A step of one call that records a conflict, an adoption or a stale coordinator, of
\* which no note it may have read says that it is settled.
LEMMA OneNote ==
    ASSUME ReconcileInv, NEW c \in Caller, NEW n \in Node, n = Site[c],
           NEW j, Becomes(c, j), IsJob(j), j.seen <= minted[n], JobOK(c, n, j),
           NEW x, x.by = n, x.at = minted[n] + 1, x.scope \in Scope, x.kind \in Marks,
           x.calls = {c}, x.seen \in Nat, x.seen <= minted[n], Spares(j, x),
           Record(n, x), UNCHANGED <<ledger, iso, hub>>,
           x.kind = "adopted" => Unadopted(c, n, x.scope, x.seen) /\ Hidden(c, n, x.scope, x.seen),
           x.kind = "stale" => \A y \in Earlier(c, n, "stale", x.seen) : y.about # x.about,
           x.kind = "conflict" =>
              /\ Contested(n, x.scope) /\ Unadopted(c, n, x.scope, x.seen)
              /\ \A y \in Earlier(c, n, "conflict", x.seen) : y.about = x.about => Settled(n, y)
    PROVE  ReconcileInv'
<1>1. /\ StoreKinds' /\ LedgerInv' /\ NotesInv' /\ Grows
      /\ \A k \in Node, kind \in Marks :
            Written(k, kind)' = IF k = n /\ kind = x.kind THEN Written(k, kind) \cup {x} ELSE Written(k, kind)
  BY NoteKeeps
<1>2. StoreKinds /\ minted[n] \in Nat /\ SettledAt(n) /\ ConflictAt(n)
  BY DEF ReconcileInv, StoreKinds, SettledOnce, SettledAt, Settled, ConflictInv
<1>3. \A d \in Caller : d # c => Late(d)
  BY <1>1, <1>2 DEF Late
<1>4. \A m \in Node : m # n => QuietAt(m)
  BY <1>1 DEF QuietAt
<1>5. JobKinds' /\ job'[c] = j /\ \A d \in Caller : d # c => job'[d] = job[d]
  BY <1>1, JobBecomes
<1>6. JobOK(c, Site[c], job[c])'
  <2>1. \A kind \in Marks : \A y \in Written(n, kind)' : y \in Written(n, kind) \/ (y = x /\ x.kind = kind)
    BY <1>1
  <2>2. JobOK(c, n, j)'
    BY <1>1, <1>2, <2>1, OwnNoteFits
  <2> QED BY <1>5, <2>2
<1>7. \A t : (Contested(n, t) => Contested(n, t)') /\ IsoEvents(n, t) \subseteq IsoEvents(n, t)'
  BY <1>1, <1>2, ContestedStays, IsoEventsStay
<1>8. ConflictAt(n)'
  <2>1. \A d \in Written(n, "conflict")' : d \in Written(n, "conflict") \/ (d = x /\ x.kind = "conflict")
    BY <1>1 DEF Marks
  <2>2. \A d \in Written(n, "conflict")' : Contested(n, d.scope)
    BY <1>2, <2>1 DEF ConflictAt
  <2> QED BY <1>7, <2>2 DEF ConflictAt
<1>9. \A y, kind : y \in Written(n, kind) => y.at \in Nat /\ y.at <= minted[n] /\ y.at < x.at
  <2> SUFFICES ASSUME NEW y \in notes[n], y.by = n PROVE y.at \in Nat /\ y.at <= minted[n] /\ y.at < x.at
    BY DEF Written
  <2>1. y.at \in 1 .. minted[n]
    BY DEF ReconcileInv, NotesInv, Noted
  <2> QED BY <1>2, <2>1
\* The calls of an earlier note and of this one overlapped, or this one may have read it.
<1>10. ASSUME NEW kind \in Marks, NEW y \in Written(n, kind)
       PROVE  y \in Earlier(c, n, kind, x.seen) \/ (SideBySide(x, y) /\ SideBySide(y, x))
  <2>1. y.at \in Nat /\ y.at < x.at /\ x.at \in Nat
    BY <1>2, <1>9
  <2>2. CASE y.at <= x.seen \/ y.calls = {c}
    BY <2>2 DEF Earlier
  <2>3. CASE ~ (y.at <= x.seen) /\ y.calls # x.calls
    BY <2>1, <2>3 DEF SideBySide
  <2> QED BY <2>2, <2>3
<1>12. \A y : Settled(n, y) => Settled(n, y)'
  BY <1>1 DEF Settled, Grows
<1>13. SettledAt(n)'
  <2>1. ASSUME NEW a \in Written(n, "adopted")', NEW b \in Written(n, "adopted")', a.scope = b.scope, a # b
        PROVE  SideBySide(a, b)
    <3>1. CASE a \in Written(n, "adopted") /\ b \in Written(n, "adopted")
      BY <1>2, <2>1, <3>1 DEF SettledAt
    <3>2. CASE x.kind = "adopted"
      <4>1. \A y \in Written(n, "adopted") : y.scope = x.scope => SideBySide(x, y) /\ SideBySide(y, x)
        BY <1>10, <3>2 DEF Unadopted, Marks
      <4>2. (a \in Written(n, "adopted") \/ a = x) /\ (b \in Written(n, "adopted") \/ b = x)
        BY <1>1, <2>1 DEF Marks
      <4> QED BY <2>1, <3>1, <4>1, <4>2
    <3>3. CASE x.kind # "adopted"
      BY <1>1, <2>1, <3>1, <3>3 DEF Marks
    <3> QED BY <3>2, <3>3
  <2>2. ASSUME NEW a \in Written(n, "stale")', NEW b \in Written(n, "stale")', a.about = b.about, a # b
        PROVE  SideBySide(a, b)
    <3>1. CASE a \in Written(n, "stale") /\ b \in Written(n, "stale")
      BY <1>2, <2>2, <3>1 DEF SettledAt
    <3>2. CASE x.kind = "stale"
      <4>1. \A y \in Written(n, "stale") : y.about = x.about => SideBySide(x, y) /\ SideBySide(y, x)
        BY <1>10, <3>2 DEF Marks
      <4>2. (a \in Written(n, "stale") \/ a = x) /\ (b \in Written(n, "stale") \/ b = x)
        BY <1>1, <2>2 DEF Marks
      <4> QED BY <2>2, <3>1, <4>1, <4>2
    <3>3. CASE x.kind # "stale"
      BY <1>1, <2>2, <3>1, <3>3 DEF Marks
    <3> QED BY <3>2, <3>3
  <2>3. ASSUME NEW a \in Written(n, "conflict")', NEW b \in Written(n, "conflict")', a.about = b.about, a.at < b.at
        PROVE  SideBySide(a, b) \/ Settled(n, a)'
    <3>1. CASE a \in Written(n, "conflict") /\ b \in Written(n, "conflict")
      BY <1>2, <1>12, <2>3, <3>1 DEF SettledAt
    <3>2. CASE x.kind = "conflict" /\ a \in Written(n, "conflict") /\ b = x
      <4>1. Settled(n, a) \/ SideBySide(a, x)
        BY <1>10, <2>3, <3>2 DEF Marks
      <4> QED BY <1>12, <3>2, <4>1
    <3>3. CASE a = x
      <4>1. b = x \/ b \in Written(n, "conflict")
        BY <1>1, <2>3 DEF Marks
      <4>2. ~ (x.at < x.at) /\ x.at \in Nat
        BY <1>2
      <4>3. b \in Written(n, "conflict") => b.at \in Nat /\ b.at < x.at
        BY <1>9
      <4> QED BY <2>3, <3>3, <4>1, <4>2, <4>3
    <3>4. /\ a \in Written(n, "conflict") \/ (a = x /\ x.kind = "conflict")
          /\ b \in Written(n, "conflict") \/ (b = x /\ x.kind = "conflict")
      BY <1>1, <2>3 DEF Marks
    <3> QED BY <3>1, <3>2, <3>3, <3>4
  <2>4. ASSUME NEW a \in Written(n, "adopted")', NEW d \in Written(n, "conflict")', a.scope = d.scope
        PROVE  \/ SideBySide(a, d)
               \/ \E e, f \in IsoEvents(n, a.scope)' : f.epoch < e.epoch /\ e.at < a.at
    <3>1. CASE a \in Written(n, "adopted") /\ d \in Written(n, "conflict")
      <4>1. \/ SideBySide(a, d)
            \/ \E e, f \in IsoEvents(n, a.scope) : f.epoch < e.epoch /\ e.at < a.at
        BY <1>2, <2>4, <3>1 DEF SettledAt
      <4> QED BY <1>7, <4>1
    <3>2. CASE x.kind = "conflict" /\ a \in Written(n, "adopted") /\ d = x
      BY <1>10, <2>4, <3>2 DEF Unadopted, Marks
    <3>3. CASE x.kind = "adopted" /\ a = x /\ d \in Written(n, "conflict")
      <4>1. SideBySide(x, d) \/ Twice(n, x.scope)
        BY <1>10, <2>4, <3>3 DEF Hidden, Marks
      <4>2. ASSUME Twice(n, x.scope)
            PROVE  \E e, f \in IsoEvents(n, x.scope)' : f.epoch < e.epoch /\ e.at < x.at
        <5>1. PICK e, f \in IsoEvents(n, x.scope) : f.epoch < e.epoch
          BY <4>2 DEF Twice
        <5>2. e.at \in Nat /\ e.at <= minted[n]
          <6>1. e \in ledger[n] /\ e.node = n
            BY <5>1 DEF IsoEvents
          <6> QED BY <6>1 DEF ReconcileInv, LedgerInv, Known
        <5>3. e.at < x.at
          BY <1>2, <5>2
        <5> QED BY <1>7, <5>1, <5>3
      <4> QED BY <3>3, <4>1, <4>2
    <3>4. /\ a \in Written(n, "adopted") \/ (a = x /\ x.kind = "adopted")
          /\ d \in Written(n, "conflict") \/ (d = x /\ x.kind = "conflict")
      BY <1>1, <2>4 DEF Marks
    <3> QED BY <3>1, <3>2, <3>3, <3>4
  <2> QED BY <2>1, <2>2, <2>3, <2>4 DEF SettledAt
<1> QED BY <1>1, <1>3, <1>4, <1>5, <1>6, <1>8, <1>13, PartsMakeInv

(***************************************************************************)
(* The calls beside reconciliations.                                       *)
(***************************************************************************)
\* A draft that is stamped is an event.
LEMMA Stamped ==
    ASSUME NEW d \in Event, NEW at \in Nat, NEW e, e = [d EXCEPT !.at = at]
    PROVE  e \in Event /\ e.at = at /\ e.node = d.node /\ e.kind = d.kind /\ e.marker = d.marker
<1>1. CASE d \in RoleEvent
  BY <1>1 DEF Event, RoleEvent
<1>2. CASE d \in LeaseEvent
  BY <1>2 DEF Event, LeaseEvent
<1> QED BY <1>1, <1>2 DEF Event

\* One more event of a node, marked isolated or not.
LEMMA AppendKeeps ==
    ASSUME ReconcileInv, NEW n \in Node, NEW d \in Event, d.node = n, AppendEvent(n, d),
           NEW marked \in BOOLEAN, marked => d.marker = "granted",
           iso' = IF marked THEN iso \cup {<<n, minted[n] + 1>>} ELSE iso,
           UNCHANGED <<notes, hub>>
    PROVE  StoreKinds' /\ LedgerInv' /\ NotesInv' /\ Grows /\ Quiet
<1>1. minted[n] \in Nat
  BY DEF ReconcileInv, StoreKinds
<1>2. PICK e : e = [d EXCEPT !.at = minted[n] + 1]
  OBVIOUS
<1>3. e \in Event /\ e.at = minted[n] + 1 /\ e.node = n /\ e.marker = d.marker
  BY <1>1, <1>2, Stamped
<1>4. PICK E : E = {e}
  OBVIOUS
<1>5. PICK I : I = IF marked THEN {<<n, minted[n] + 1>>} ELSE {}
  OBVIOUS
<1>6. E \in SUBSET Event /\ IsFiniteSet(E)
  BY <1>3, <1>4, FS_Singleton
<1>7. I \in SUBSET (Node \X Nat) /\ iso' = iso \cup I
  BY <1>1, <1>5
<1>8. \A x \in E : x.node = n /\ x.at \in minted[n] + 1 .. minted[n] + 1
  BY <1>1, <1>3, <1>4
<1>9. \A x, y \in E : x.at = y.at => x = y
  BY <1>4
<1>10. \A p \in I : \E x \in E : p = <<n, x.at>> /\ (x.kind = "lease" => x.marker = "granted")
  BY <1>3, <1>4, <1>5
<1>11. ledger' = [ledger EXCEPT ![n] = @ \cup E] /\ minted' = [minted EXCEPT ![n] = @ + 1]
  BY <1>2, <1>4 DEF AppendEvent, Stamps
<1> QED BY <1>6, <1>7, <1>8, <1>9, <1>10, <1>11, EventsKeep

LEMMA IsoClaimKeeps == ASSUME ReconcileInv, NEW n \in Node, IsoClaim(n) PROVE ReconcileInv'
<1> DEFINE epoch == MaxEpoch(ledger[n]) + 1
           c == [Role(n, "claimed", epoch, n, FALSE) EXCEPT !.at = minted[n] + 1]
           g == [Role(n, "granted", epoch, n, FALSE) EXCEPT !.at = minted[n] + 2]
<1>1. StoreKinds /\ LedgerInv /\ minted[n] \in Nat
  BY DEF ReconcileInv, StoreKinds
<1>2. epoch \in Nat
  BY <1>1, LedgersAreGood, MaxEpochOf
<1>3. /\ ledger' = [ledger EXCEPT ![n] = @ \cup {c, g}]
      /\ iso' = iso \cup {<<n, c.at>>, <<n, g.at>>}
      /\ minted' = [minted EXCEPT ![n] = @ + 2]
      /\ UNCHANGED <<notes, hub>> /\ job' = job
  BY DEF IsoClaim, Stamps
<1> HIDE DEF epoch
<1>4. /\ c \in Event /\ c.node = n /\ c.at = minted[n] + 1 /\ c.kind = "role"
      /\ g \in Event /\ g.node = n /\ g.at = minted[n] + 2 /\ g.kind = "role"
  <2>1. PICK d, f : d = Role(n, "claimed", epoch, n, FALSE) /\ f = Role(n, "granted", epoch, n, FALSE)
    OBVIOUS
  <2>2. /\ d \in Event /\ d.node = n /\ d.kind = "role"
        /\ f \in Event /\ f.node = n /\ f.kind = "role"
    BY <1>2, <2>1 DEF Role, Event, RoleEvent
  <2>3. minted[n] + 1 \in Nat /\ minted[n] + 2 \in Nat
    BY <1>1
  <2>4. c = [d EXCEPT !.at = minted[n] + 1] /\ g = [f EXCEPT !.at = minted[n] + 2]
    BY <2>1
  <2> HIDE DEF c, g
  <2> QED BY <2>2, <2>3, <2>4, Stamped
<1> HIDE DEF c, g
<1>6. PICK E : E = {c, g}
  OBVIOUS
<1>7. PICK I : I = {<<n, c.at>>, <<n, g.at>>}
  OBVIOUS
<1>8. E \in SUBSET Event
  BY <1>4, <1>6
<1>9. IsFiniteSet(E)
  <2>1. E = {c} \cup {g}
    BY <1>6
  <2> QED BY <2>1, FS_Singleton, FS_AddElement
<1>10. I \in SUBSET (Node \X Nat) /\ iso' = iso \cup I
  BY <1>1, <1>3, <1>4, <1>7
<1>11. \A x \in E : x.node = n /\ x.at \in minted[n] + 1 .. minted[n] + 2
  BY <1>1, <1>4, <1>6
<1>12. \A x, y \in E : x.at = y.at => x = y
  BY <1>1, <1>4, <1>6
<1>13. \A p \in I : \E x \in E : p = <<n, x.at>> /\ (x.kind = "lease" => x.marker = "granted")
  BY <1>4, <1>6, <1>7
<1>14. /\ ledger' = [ledger EXCEPT ![n] = @ \cup E] /\ minted' = [minted EXCEPT ![n] = @ + 2]
       /\ UNCHANGED <<notes, hub>>
  BY <1>3, <1>6
<1>15. StoreKinds' /\ LedgerInv' /\ NotesInv' /\ Grows /\ Quiet
  <2>1. 2 \in Nat
    OBVIOUS
  <2> QED BY <1>8, <1>9, <1>10, <1>11, <1>12, <1>13, <1>14, <2>1, EventsKeep
<1> QED BY <1>3, <1>15, BesideJobs

LEMMA GrantToKeeps ==
    ASSUME ReconcileInv, NEW n \in Node, NEW s \in Scope, NEW h \in Node, GrantTo(n, s, h)
    PROVE  ReconcileInv'
<1> DEFINE c == Coordinator(ledger[n])
<1>1. GoodLedger(ledger[n])
  BY LedgersAreGood DEF ReconcileInv
<1>2. c.holder # Nobody
  BY NodesAreOrdered DEF GrantTo
<1>3. c.epoch \in Nat
  BY <1>1, <1>2, CoordinatorOf
<1>4. PICK k \in Nat : k = NextSeq(ledger[n], s, c.epoch)
  BY <1>1, NextSeqOf
<1>5. PICK epoch \in Nat : epoch = c.epoch
  BY <1>3
<1>6. PICK d : d = [Grant(n, s, epoch, h, FALSE) EXCEPT !.seq = k]
  OBVIOUS
<1>7. d \in LeaseEvent /\ d.node = n /\ d.marker = "granted"
  BY <1>6 DEF Grant, LeaseEvent
<1>8. AppendEvent(n, d) /\ UNCHANGED <<notes, hub, job>>
  BY <1>4, <1>5, <1>6 DEF GrantTo
<1>9. PICK marked \in BOOLEAN : iso' = IF marked THEN iso \cup {<<n, minted[n] + 1>>} ELSE iso
  <2>1. CASE LeadsIso(n) /\ h = n
    BY <2>1 DEF GrantTo
  <2>2. CASE ~ (LeadsIso(n) /\ h = n)
    BY <2>2 DEF GrantTo
  <2> QED BY <2>1, <2>2
<1>10. StoreKinds' /\ LedgerInv' /\ NotesInv' /\ Grows /\ Quiet
  BY <1>7, <1>8, <1>9, AppendKeeps DEF Event
<1> QED BY <1>8, <1>10, BesideJobs

\* The end of a lease that is held is an event.
LEMMA EndIsEvent ==
    ASSUME ReconcileInv, NEW n \in Node, NEW s \in Scope, LeaseHolder(ledger[n], s, 0) # Nobody
    PROVE  End(n, Winner(ledger[n], s)) \in LeaseEvent /\ End(n, Winner(ledger[n], s)).node = n
<1>1. GoodLedger(ledger[n])
  BY LedgersAreGood DEF ReconcileInv
<1>2. Grants(ledger[n], s) # {}
  BY DEF LeaseHolder, LeaseState
<1>3. PICK w \in LeaseEvent : w = Winner(ledger[n], s)
  BY <1>1, <1>2, WinnerOf
<1>4. End(n, w) \in LeaseEvent /\ End(n, w).node = n
  BY DEF End, LeaseEvent
<1> QED BY <1>3, <1>4

LEMMA ReleaseKeeps ==
    ASSUME ReconcileInv, NEW n \in Node, NEW s \in Scope, Release(n, s)
    PROVE  ReconcileInv'
<1>1. PICK d \in LeaseEvent : d = End(n, Winner(ledger[n], s)) /\ d.node = n
  BY EndIsEvent, NodesAreOrdered DEF Release
<1>2. AppendEvent(n, d) /\ UNCHANGED <<iso, notes, hub, job>>
  BY <1>1 DEF Release
<1>3. iso' = IF FALSE THEN iso \cup {<<n, minted[n] + 1>>} ELSE iso
  BY <1>2
<1>4. d \in Event
  BY DEF Event
<1>5. StoreKinds' /\ LedgerInv' /\ NotesInv' /\ Grows /\ Quiet
  <2>1. FALSE \in BOOLEAN /\ (FALSE => d.marker = "granted")
    OBVIOUS
  <2> QED BY <1>1, <1>2, <1>3, <1>4, <2>1, AppendKeeps
<1> QED BY <1>2, <1>5, BesideJobs

\* A note that is none of the three changes nothing that was settled.
LEMMA OtherNote ==
    ASSUME ReconcileInv, NEW n \in Node, NEW x,
           x.by = n, x.at = minted[n] + 1, x.scope \in Scope, x.kind \notin Marks,
           Record(n, x), UNCHANGED <<ledger, iso, hub, job>>
    PROVE  ReconcileInv'
<1>1. /\ StoreKinds' /\ LedgerInv' /\ NotesInv' /\ Grows
      /\ \A k \in Node, kind \in Marks :
            Written(k, kind)' = IF k = n /\ kind = x.kind THEN Written(k, kind) \cup {x} ELSE Written(k, kind)
  BY NoteKeeps
<1>2. Quiet
  BY <1>1 DEF Quiet, QuietAt, Marks
<1> QED BY <1>1, <1>2, BesideJobs

LEMMA WorkKeeps ==
    ASSUME ReconcileInv, NEW n \in Node, NEW s \in Scope, Work(n, s)
    PROVE  ReconcileInv'
<1>1. PICK x : x = Note("work", n, s, <<>>)
  OBVIOUS
<1>2. x.by = n /\ x.at = minted[n] + 1 /\ x.scope = s /\ x.kind = "work"
  BY <1>1 DEF Note
<1>0. x.kind \notin Marks
  BY <1>2 DEF Marks
<1>3. Record(n, x) /\ UNCHANGED <<ledger, iso, hub, job>>
  BY <1>1 DEF Work
<1> QED BY <1>0, <1>2, <1>3, OtherNote

LEMMA ResolveKeeps ==
    ASSUME ReconcileInv, NEW n \in Node, Resolve(n)
    PROVE  ReconcileInv'
<1>1. PICK c \in notes[n] : Record(n, Note("resolved", n, c.scope, <<c.by, c.at>>)) /\ UNCHANGED <<ledger, iso, hub, job>>
  BY DEF Resolve
<1>2. PICK x : x = Note("resolved", n, c.scope, <<c.by, c.at>>)
  OBVIOUS
<1>3. c.scope \in Scope
  BY DEF ReconcileInv, NotesInv, Noted
<1>4. x.by = n /\ x.at = minted[n] + 1 /\ x.scope = c.scope /\ x.kind = "resolved"
  BY <1>2 DEF Note
<1>5. x.kind \notin Marks
  BY <1>4 DEF Marks
<1> QED BY <1>1, <1>2, <1>3, <1>4, <1>5, OtherNote

LEMMA PushKeeps == ASSUME ReconcileInv, NEW n \in Node, Push(n) PROVE ReconcileInv'
BY PushKeepsStore, BesideJobs

LEMMA PullKeeps == ASSUME ReconcileInv, NEW n \in Node, Pull(n) PROVE ReconcileInv'
<1>1. Joins(n) /\ UNCHANGED <<iso, hub, stamps>> /\ job' = job
  BY DEF Pull
<1> QED BY <1>1, JoinsKeep, BesideJobs

(***************************************************************************)
(* Reconciliations and sweeps.                                             *)
(***************************************************************************)
\* _iso_claim_info finds the earliest stamp and the highest epoch.
LEMMA ClaimInfoIs ==
    ASSUME ReconcileInv, NEW n \in Node, NEW s, IsoEvents(n, s) # {}
    PROVE  /\ \E e \in IsoEvents(n, s) : e.at = ClaimedAt(n, s)
           /\ \A e \in IsoEvents(n, s) : ClaimedAt(n, s) <= e.at /\ e.epoch <= ClaimEpoch(n, s)
           /\ \E e \in IsoEvents(n, s) : e.epoch = ClaimEpoch(n, s)
<1> DEFINE X == IsoEvents(n, s)
           epoch == [e \in X |-> e.epoch]
           T == {e.at : e \in X}
           P == {epoch[e] : e \in X}
<1>1. X \subseteq ledger[n] /\ \A e \in X : e.epoch \in Nat /\ e.at \in Nat
  BY IsoEventFields DEF ReconcileInv
<1>2. ClaimedAt(n, s) \in T /\ \A x \in T : ClaimedAt(n, s) <= x
  <2>1. T \in SUBSET Nat /\ T # {}
    BY <1>1
  <2>2. ClaimedAt(n, s) = Min(T)
    BY DEF ClaimedAt
  <2> HIDE DEF T
  <2>3. \E x \in T : \A y \in T : x <= y
    BY <2>1, SmallestOf
  <2> QED BY <2>2, <2>3 DEF Min
<1>3. ClaimEpoch(n, s) \in P /\ \A x \in P : x <= ClaimEpoch(n, s)
  <2>1. P \in SUBSET Int /\ P # {}
    BY <1>1
  <2>2. ClaimEpoch(n, s) = Max(P)
    BY DEF ClaimEpoch
  <2>3. IsFiniteSet(P)
    <3>1. IsFiniteSet(X)
      BY <1>1, FS_Subset DEF ReconcileInv, LedgerInv
    <3>2. epoch = [e \in X |-> epoch[e]]
      OBVIOUS
    <3> HIDE DEF X, epoch
    <3> QED BY <3>1, <3>2, ImageIsFinite
  <2> HIDE DEF P
  <2> QED BY <2>1, <2>2, <2>3, MaxIsMax
<1> QED BY <1>2, <1>3

\* What _detect_overlap reports contests the scope.
LEMMA OverlapContests ==
    ASSUME ReconcileInv, NEW n \in Node, NEW s \in Scope, IsoEvents(n, s) # {}, NEW o \in Overlaps(n, s)
    PROVE  o.scope = s /\ Contested(n, s)
<1> DEFINE holder == LeaseHolder(ledger[n], s, 0)
           since  == {g \in Grants(ledger[n], s) :
                        g.holder # n /\ (g.at > ClaimedAt(n, s) \/ g.epoch >= ClaimEpoch(n, s))}
           worked == {w \in notes[n] : w.kind = "work" /\ w.scope = s /\ w.by # n /\ w.at > ClaimedAt(n, s)}
<1>1. CASE holder \notin {Nobody, n}
  <2>1. o = Overlap(s, "held", holder)
    BY <1>1 DEF Overlaps
  <2>2. Grants(ledger[n], s) # {} /\ holder = Winner(ledger[n], s).holder
    BY <1>1 DEF LeaseHolder, LeaseState
  <2>3. GoodLedger(ledger[n])
    BY LedgersAreGood DEF ReconcileInv
  <2>4. PICK w \in Grants(ledger[n], s) : w = Winner(ledger[n], s) /\ w \in LeaseEvent
    BY <2>2, <2>3, WinnerOf
  <2>5. \A f \in Grants(ledger[n], s) \ {w} : Outranks(w, f)
    BY <2>2, <2>3, <2>4, WinnerOf
  <2>6. ASSUME NEW e \in IsoEvents(n, s) PROVE e.epoch <= w.epoch
    <3>1. e \in Grants(ledger[n], s)
      BY <2>6 DEF IsoEvents, Grants, ReconcileInv, LedgerInv
    <3>2. e.epoch \in Nat /\ w.epoch \in Nat
      BY <2>4, IsoEventFields DEF ReconcileInv, LeaseEvent
    <3> QED BY <2>5, <3>1, <3>2 DEF Outranks
  <2>7. Concurrent(n, s)
    BY <1>1, <2>2, <2>4, <2>6 DEF Concurrent
  <2> QED BY <2>1, <2>7 DEF Contested, Overlap
<1>2. CASE holder \in {Nobody, n}
  <2>1. o \in {Overlap(s, "granted", g.holder) : g \in since} \cup {Overlap(s, "work", w.by) : w \in worked}
    BY <1>2 DEF Overlaps
  <2>2. CASE o \in {Overlap(s, "granted", g.holder) : g \in since}
    <3>1. PICK g \in since : o = Overlap(s, "granted", g.holder)
      BY <2>2
    <3>2. g.at \in Nat /\ g.epoch \in Nat
      <4>1. g \in Event
        BY <3>1 DEF Grants, ReconcileInv, StoreKinds
      <4> QED BY <4>1, EventFields
    <3>3. Concurrent(n, s)
      <4>1. CASE g.at > ClaimedAt(n, s)
        <5>1. PICK e \in IsoEvents(n, s) : e.at = ClaimedAt(n, s) /\ e.at \in Nat
          BY ClaimInfoIs, IsoEventFields DEF ReconcileInv
        <5>2. e.at < g.at
          BY <3>2, <4>1, <5>1
        <5> QED BY <3>1, <5>2 DEF Concurrent
      <4>2. CASE g.epoch >= ClaimEpoch(n, s)
        <5>1. \A e \in IsoEvents(n, s) : e.epoch \in Nat /\ e.epoch <= ClaimEpoch(n, s) /\ ClaimEpoch(n, s) \in Nat
          BY ClaimInfoIs, IsoEventFields DEF ReconcileInv
        <5>2. \A e \in IsoEvents(n, s) : e.epoch <= g.epoch
          BY <3>2, <4>2, <5>1
        <5> QED BY <3>1, <5>2 DEF Concurrent
      <4> QED BY <3>1, <4>1, <4>2
    <3> QED BY <3>1, <3>3 DEF Contested, Overlap
  <2>3. CASE o \in {Overlap(s, "work", w.by) : w \in worked}
    <3>1. PICK w \in worked : o = Overlap(s, "work", w.by)
      BY <2>3
    <3>2. w.at \in Nat
      BY <3>1 DEF ReconcileInv, NotesInv, Noted, StoreKinds
    <3>3. PICK e \in IsoEvents(n, s) : e.at = ClaimedAt(n, s) /\ e.at \in Nat
      BY ClaimInfoIs, IsoEventFields DEF ReconcileInv
    <3>4. e.at < w.at
      BY <3>1, <3>2, <3>3
    <3>5. WorkedOn(n, s)
      BY <3>1, <3>4 DEF WorkedOn
    <3> QED BY <3>1, <3>5 DEF Contested, Overlap
  <2> QED BY <2>1, <2>2, <2>3
<1> QED BY <1>1, <1>2

\* Where it reports nothing, nobody else was granted the scope or worked on it.
LEMMA NoOverlapMeans ==
    ASSUME ReconcileInv, NEW n \in Node, NEW s \in Scope, IsoEvents(n, s) # {}, Overlaps(n, s) = {}
    PROVE  ~ Concurrent(n, s) /\ ~ WorkedOn(n, s)
<1> DEFINE holder == LeaseHolder(ledger[n], s, 0)
           since  == {g \in Grants(ledger[n], s) :
                        g.holder # n /\ (g.at > ClaimedAt(n, s) \/ g.epoch >= ClaimEpoch(n, s))}
           worked == {w \in notes[n] : w.kind = "work" /\ w.scope = s /\ w.by # n /\ w.at > ClaimedAt(n, s)}
<1>1. holder \in {Nobody, n}
  BY DEF Overlaps
<1>2. since = {} /\ worked = {}
  BY <1>1 DEF Overlaps
<1>3. \A e \in IsoEvents(n, s) : /\ e.at \in Nat /\ e.epoch \in Nat
                                 /\ ClaimedAt(n, s) \in Nat /\ ClaimedAt(n, s) <= e.at
  BY ClaimInfoIs, IsoEventFields DEF ReconcileInv
<1>4. ~ Concurrent(n, s)
  <2> SUFFICES ASSUME NEW g \in Grants(ledger[n], s), g.holder # n,
                      \/ \E e \in IsoEvents(n, s) : e.at < g.at
                      \/ \A e \in IsoEvents(n, s) : e.epoch <= g.epoch
               PROVE  FALSE
    BY DEF Concurrent
  <2>1. g.at \in Nat /\ g.epoch \in Nat
    <3>1. g \in Event
      BY DEF Grants, ReconcileInv, StoreKinds
    <3> QED BY <3>1, EventFields
  <2>2. g.at > ClaimedAt(n, s) \/ g.epoch >= ClaimEpoch(n, s)
    <3>1. CASE \E e \in IsoEvents(n, s) : e.at < g.at
      BY <1>3, <2>1, <3>1
    <3>2. CASE \A e \in IsoEvents(n, s) : e.epoch <= g.epoch
      <4>1. PICK e \in IsoEvents(n, s) : e.epoch = ClaimEpoch(n, s)
        BY ClaimInfoIs
      <4> QED BY <1>3, <2>1, <3>2, <4>1
    <3> QED BY <3>1, <3>2
  <2> QED BY <1>2, <2>2
<1>5. ~ WorkedOn(n, s)
  <2> SUFFICES ASSUME NEW w \in notes[n], w.kind = "work", w.scope = s, w.by # n,
                      NEW e \in IsoEvents(n, s), e.at < w.at
               PROVE  FALSE
    BY DEF WorkedOn
  <2>1. w.at \in Nat
    BY DEF ReconcileInv, NotesInv, Noted, StoreKinds
  <2>2. w.at > ClaimedAt(n, s)
    BY <1>3, <2>1
  <2> QED BY <1>2, <2>2
<1> QED BY <1>4, <1>5

(***************************************************************************)
(* The steps of a call.                                                    *)
(***************************************************************************)
\* What a call settles carries its name and when it began to read.
LEMMA SettlesIs ==
    ASSUME NEW c, NEW kind, NEW s, NEW about, NEW x, x = Settles(c, kind, s, about)
    PROVE  /\ x.kind = kind /\ x.by = Site[c] /\ x.at = minted[Site[c]] + 1 /\ x.scope = s /\ x.about = about
           /\ x.calls = {c} /\ x.seen = job[c].seen
BY DEF Settles, Note

\* The locals of a call and what they are.
LEMMA JobRecord ==
    ASSUME NEW p \in Pcs, NEW S, NEW T, NEW F, NEW K, NEW m \in Nat, NEW j,
           j = [pc |-> p, scopes |-> S, todo |-> T, found |-> F, known |-> K, seen |-> m]
    PROVE  /\ IsJob(j)
           /\ j.pc = p /\ j.scopes = S /\ j.todo = T /\ j.found = F /\ j.known = K /\ j.seen = m
BY DEF IsJob

\* Whoever has its fields is that call.
SameFields(a, j) ==
    /\ DOMAIN a = DOMAIN j /\ a = [x \in DOMAIN a |-> a[x]]
    /\ a.pc = j.pc /\ a.scopes = j.scopes /\ a.todo = j.todo /\ a.found = j.found
    /\ a.known = j.known /\ a.seen = j.seen

LEMMA SameJob == ASSUME NEW a, NEW j, IsJob(j), SameFields(a, j) PROVE a = j
<1>1. DOMAIN a = {"pc", "scopes", "todo", "found", "known", "seen"}
  BY DEF IsJob, SameFields
<1>2. a = [pc |-> a.pc, scopes |-> a.scopes, todo |-> a.todo, found |-> a.found, known |-> a.known, seen |-> a.seen]
  BY <1>1 DEF SameFields
<1> QED BY <1>2 DEF IsJob, SameFields

LEMMA CallIs ==
    ASSUME ReconcileInv, NEW c \in Caller
    PROVE  /\ Site[c] \in Node /\ minted[Site[c]] \in Nat
           /\ IsJob(job[c]) /\ job[c].seen \in Nat /\ job[c].seen <= minted[Site[c]] /\ JobOK(c, Site[c], job[c])
BY DEF ReconcileInv, StoreKinds, JobKinds, JobInv, IsJob

\* A call that ends, or has not begun, has nothing left to get wrong.
LEMMA NoJobFits == NoJob.pc = "idle" /\ IsJob(NoJob) /\ NoJob.seen = 0 /\ \A c, n : JobOK(c, n, NoJob)
<1>1. NoJob.pc = "idle" /\ IsJob(NoJob) /\ NoJob.seen = 0
  BY DEF NoJob, IsJob, Pcs
<1> QED BY <1>1 DEF JobOK

\* A call that only reads.
LEMMA ReadsKeep ==
    ASSUME ReconcileInv, NEW c \in Caller, NEW j, Reads(c, j),
           IsJob(j), j.seen <= minted[Site[c]], JobOK(c, Site[c], j)
    PROVE  ReconcileInv'
<1>1. StoreKinds' /\ LedgerInv' /\ NotesInv' /\ Grows /\ Quiet
  BY StoreStays DEF Reads
<1> QED BY <1>1, OneJob DEF Reads

\* A call that has nothing to do, or ends.
LEMMA EndKeeps == ASSUME ReconcileInv, NEW c \in Caller, Reads(c, NoJob) PROVE ReconcileInv'
<1>1. PICK j : j = NoJob
  OBVIOUS
<1>2. IsJob(j) /\ j.seen = 0 /\ JobOK(c, Site[c], j) /\ Reads(c, j)
  BY <1>1, NoJobFits
<1>3. j.seen <= minted[Site[c]]
  BY <1>2, CallIs
<1> QED BY <1>2, <1>3, ReadsKeep

LEMMA BeginReconcileKeeps ==
    ASSUME ReconcileInv, NEW c \in Caller, BeginReconcile(c)
    PROVE  ReconcileInv'
<1>1. Site[c] \in Node /\ minted[Site[c]] \in Nat
  BY CallIs
<1>2. StoreKinds' /\ LedgerInv' /\ NotesInv' /\ Grows /\ Quiet
  BY <1>1, JoinsKeep DEF BeginReconcile
<1>3. PICK j : j = [pc |-> "pulled", scopes |-> {}, todo |-> {}, found |-> {}, known |-> {}, seen |-> 0]
  OBVIOUS
<1>4. IsJob(j) /\ j.pc = "pulled" /\ j.seen = 0
  BY <1>3, JobRecord DEF Pcs
<1>5. Becomes(c, j)
  <2>1. j = [NoJob EXCEPT !.pc = "pulled"]
    BY <1>3 DEF NoJob
  <2> QED BY <2>1 DEF BeginReconcile
<1>6. JobOK(c, Site[c], j) /\ j.seen <= minted[Site[c]]
  BY <1>1, <1>4 DEF JobOK
<1> QED BY <1>2, <1>4, <1>5, <1>6, OneJob

\* The scopes adopted so far are those of the notes that are there (_adopted_scopes).
LEMMA ReadAdoptedKeeps ==
    ASSUME ReconcileInv, NEW c \in Caller, ReadAdopted(c)
    PROVE  ReconcileInv'
<1>1. PICK n \in Node, m \in Nat : n = Site[c] /\ m = minted[n]
  BY CallIs
<1>2. PICK j : j = [pc |-> "scan", scopes |-> {}, todo |-> {}, found |-> {}, known |-> Adopted(n), seen |-> m]
  OBVIOUS
<1>3. IsJob(j) /\ j.pc = "scan" /\ j.known = Adopted(n) /\ j.seen = m
  BY <1>2, JobRecord DEF Pcs
<1>4. Reads(c, j)
  <2>1. j = [NoJob EXCEPT !.pc = "scan", !.known = Adopted(n), !.seen = m]
    <3>1. PICK a : a = [NoJob EXCEPT !.pc = "scan", !.known = Adopted(n), !.seen = m]
      OBVIOUS
    <3>2. SameFields(a, j)
      BY <1>2, <3>1 DEF NoJob, SameFields
    <3>3. a = j
      BY <1>3, <3>2, SameJob
    <3> QED BY <3>1, <3>3
  <2> QED BY <1>1, <2>1 DEF ReadAdopted
<1>5. ScanOK(c, n, j)
  BY <1>3, AdoptedIs DEF ScanOK, Earlier
<1>6. JobOK(c, Site[c], j) /\ j.seen <= minted[Site[c]]
  BY <1>1, <1>3, <1>5 DEF JobOK
<1> QED BY <1>3, <1>4, <1>6, ReadsKeep

LEMMA ReadScopesKeeps ==
    ASSUME ReconcileInv, NEW c \in Caller, ReadScopes(c)
    PROVE  ReconcileInv'
<1>1. PICK n, k : n \in Node /\ n = Site[c] /\ k = job[c]
  BY CallIs
<1>2. k.pc = "scan" /\ k.seen \in Nat /\ k.seen <= minted[n] /\ ScanOK(c, n, k)
  BY <1>1, CallIs DEF JobOK, ReadScopes
<1>3. PICK left : left = IsoScopes(n) \ k.known
  OBVIOUS
<1>4. PICK j : j = [pc |-> "detect", scopes |-> left, todo |-> left, found |-> {}, known |-> {}, seen |-> k.seen]
  OBVIOUS
<1>5. IsJob(j) /\ j.pc = "detect" /\ j.scopes = left /\ j.todo = left /\ j.found = {} /\ j.seen = k.seen
  BY <1>2, <1>4, JobRecord DEF Pcs
<1>6. \A s \in left : s \in Scope /\ IsoEvents(n, s) # {} /\ Unadopted(c, n, s, k.seen)
  BY <1>2, <1>3 DEF IsoScopes, ScanOK, Unadopted
<1>7. JobOK(c, Site[c], j) /\ j.seen <= minted[Site[c]]
  <2>1. DetectOK(c, n, j)
    BY <1>5, <1>6 DEF DetectOK
  <2> QED BY <1>1, <1>2, <1>5, <2>1 DEF JobOK
<1>8. Reads(c, j) \/ Reads(c, NoJob)
  <2>1. j = [NoJob EXCEPT !.pc = "detect", !.scopes = left, !.todo = left, !.seen = k.seen]
    <3>1. PICK a : a = [NoJob EXCEPT !.pc = "detect", !.scopes = left, !.todo = left, !.seen = k.seen]
      OBVIOUS
    <3>2. SameFields(a, j)
      BY <1>4, <3>1 DEF NoJob, SameFields
    <3>3. a = j
      BY <1>5, <3>2, SameJob
    <3> QED BY <3>1, <3>3
  <2> QED BY <1>1, <1>3, <2>1 DEF ReadScopes
<1> QED BY <1>5, <1>7, <1>8, ReadsKeep, EndKeeps

\* Where _detect_overlap reports nothing on a scope, a conflict surfaced on it before is
\* hidden by a second isolated hold.
LEMMA NoOverlapHides ==
    ASSUME ReconcileInv, NEW n \in Node, NEW s \in Scope, IsoEvents(n, s) # {}, Overlaps(n, s) = {}, NEW c, NEW seen
    PROVE  Hidden(c, n, s, seen)
<1> SUFFICES ASSUME NEW d \in Written(n, "conflict"), d.scope = s PROVE Twice(n, s)
  BY DEF Hidden, Earlier
<1>1. Contested(n, s)
  BY DEF ReconcileInv, ConflictInv, ConflictAt
<1> QED BY <1>1, NoOverlapMeans DEF Contested

LEMMA DetectKeeps == ASSUME ReconcileInv, NEW c \in Caller, Detect(c) PROVE ReconcileInv'
<1>1. PICK n, k : n \in Node /\ n = Site[c] /\ k = job[c]
  BY CallIs
<1>2. /\ k.pc = "detect" /\ k.seen \in Nat /\ k.seen <= minted[n] /\ DetectOK(c, n, k)
      /\ k = [pc |-> k.pc, scopes |-> k.scopes, todo |-> k.todo, found |-> k.found, known |-> k.known,
              seen |-> k.seen]
  BY <1>1, CallIs DEF JobOK, Detect, IsJob
<1>3. PICK s \in k.todo :
         \E found \in IF Overlaps(n, s) = {} THEN {{}} ELSE {{o} : o \in Overlaps(n, s)} :
            Reads(c, Detected([k EXCEPT !.todo = @ \ {s}, !.found = @ \cup found]))
  BY <1>1 DEF Detect
<1>4. PICK found : /\ found \in IF Overlaps(n, s) = {} THEN {{}} ELSE {{o} : o \in Overlaps(n, s)}
                   /\ Reads(c, Detected([k EXCEPT !.todo = @ \ {s}, !.found = @ \cup found]))
  BY <1>3
<1>5. PICK T, F : T = k.todo \ {s} /\ F = k.found \cup found
  OBVIOUS
<1>6. PICK l : l = [pc |-> "detect", scopes |-> k.scopes, todo |-> T, found |-> F, known |-> k.known, seen |-> k.seen]
  OBVIOUS
<1>7. /\ IsJob(l) /\ l.pc = "detect" /\ l.scopes = k.scopes /\ l.todo = T /\ l.found = F
      /\ l.seen = k.seen
  BY <1>2, <1>6, JobRecord DEF Pcs
<1>8. Reads(c, Detected(l))
  <2>1. l = [k EXCEPT !.todo = T, !.found = F]
    <3>1. PICK a : a = [k EXCEPT !.todo = T, !.found = F]
      OBVIOUS
    <3>2. SameFields(a, l)
      BY <1>2, <1>6, <3>1 DEF SameFields
    <3>3. a = l
      BY <1>7, <3>2, SameJob
    <3> QED BY <3>1, <3>3
  <2>2. [k EXCEPT !.todo = @ \ {s}, !.found = @ \cup found] = [k EXCEPT !.todo = T, !.found = F]
    BY <1>2, <1>5
  <2> QED BY <1>4, <2>1, <2>2
<1>9. s \in k.scopes /\ s \in Scope /\ IsoEvents(n, s) # {} /\ Unadopted(c, n, s, k.seen)
  BY <1>2, <1>3 DEF DetectOK
<1>10. \A o \in F : Found(c, n, o, k.seen)
  <2>1. \A o \in k.found : Found(c, n, o, k.seen)
    BY <1>2 DEF DetectOK
  <2>2. \A o \in found : o \in Overlaps(n, s)
    BY <1>4
  <2>3. \A o \in Overlaps(n, s) : Found(c, n, o, k.seen)
    BY <1>1, <1>9, OverlapContests DEF Found
  <2> QED BY <1>5, <2>1, <2>2, <2>3
<1>11. F = {} => \A t \in k.scopes : t \in T \/ Hidden(c, n, t, k.seen)
  <2> SUFFICES ASSUME F = {}, NEW t \in k.scopes, t \notin T PROVE Hidden(c, n, t, k.seen)
    OBVIOUS
  <2>1. k.found = {} /\ found = {}
    BY <1>5
  <2>2. CASE t = s
    <3>1. Overlaps(n, s) = {}
      BY <1>4, <2>1
    <3> QED BY <1>1, <1>9, <2>2, <3>1, NoOverlapHides
  <2>3. CASE t # s
    BY <1>2, <1>5, <2>1, <2>3 DEF DetectOK
  <2> QED BY <2>2, <2>3
<1>12. CASE T # {}
  <2>1. Detected(l) = l
    BY <1>7, <1>12 DEF Detected
  <2>2. DetectOK(c, n, l)
    BY <1>2, <1>5, <1>7, <1>10, <1>11 DEF DetectOK
  <2>3. JobOK(c, Site[c], l) /\ l.seen <= minted[Site[c]]
    BY <1>1, <1>2, <1>7, <2>2 DEF JobOK
  <2> QED BY <1>7, <1>8, <2>1, <2>3, ReadsKeep
<1>13. CASE T = {} /\ F # {}
  <2>1. PICK j : j = [pc |-> "open", scopes |-> k.scopes, todo |-> T, found |-> F, known |-> k.known, seen |-> k.seen]
    OBVIOUS
  <2>2. IsJob(j) /\ j.pc = "open" /\ j.found = F /\ j.seen = k.seen
    BY <1>2, <2>1, JobRecord DEF Pcs
  <2>3. Detected(l) = j
    <3>1. j = [l EXCEPT !.pc = "open"]
      BY <1>6, <2>1
    <3> QED BY <1>7, <1>13, <3>1 DEF Detected
  <2>4. OpenOK(c, n, j)
    BY <1>10, <2>2 DEF OpenOK
  <2>5. JobOK(c, Site[c], j) /\ j.seen <= minted[Site[c]]
    BY <1>1, <1>2, <2>2, <2>4 DEF JobOK
  <2> QED BY <1>8, <2>2, <2>3, <2>5, ReadsKeep
<1>14. CASE T = {} /\ F = {}
  <2>1. PICK j : j = [pc |-> "adopt", scopes |-> {}, todo |-> k.scopes, found |-> {}, known |-> {}, seen |-> k.seen]
    OBVIOUS
  <2>2. IsJob(j) /\ j.pc = "adopt" /\ j.todo = k.scopes /\ j.seen = k.seen
    BY <1>2, <2>1, JobRecord DEF Pcs
  <2>3. Detected(l) = j
    <3>1. j = [NoJob EXCEPT !.pc = "adopt", !.todo = l.scopes, !.seen = l.seen]
      <4>1. PICK a : a = [NoJob EXCEPT !.pc = "adopt", !.todo = l.scopes, !.seen = l.seen]
        OBVIOUS
      <4>2. SameFields(a, j)
        BY <1>7, <2>1, <4>1 DEF NoJob, SameFields
      <4>3. a = j
        BY <2>2, <4>2, SameJob
      <4> QED BY <4>1, <4>3
    <3> QED BY <1>7, <1>14, <3>1 DEF Detected
  <2>4. AdoptOK(c, n, j)
    BY <1>2, <1>11, <1>14, <2>2 DEF AdoptOK, DetectOK
  <2>5. JobOK(c, Site[c], j) /\ j.seen <= minted[Site[c]]
    BY <1>1, <1>2, <2>2, <2>4 DEF JobOK
  <2> QED BY <1>8, <2>2, <2>3, <2>5, ReadsKeep
<1> QED BY <1>12, <1>13, <1>14

LEMMA ReadOpenKeeps ==
    ASSUME ReconcileInv, NEW c \in Caller, ReadOpen(c)
    PROVE  ReconcileInv'
<1>1. PICK n, k : n \in Node /\ n = Site[c] /\ k = job[c]
  BY CallIs
<1>2. k.pc = "open" /\ k.seen \in Nat /\ k.seen <= minted[n] /\ OpenOK(c, n, k)
  BY <1>1, CallIs DEF JobOK, ReadOpen
<1>3. PICK j : j = [pc |-> "record", scopes |-> {}, todo |-> k.found, found |-> {}, known |-> OpenConflicts(n),
                    seen |-> k.seen]
  OBVIOUS
<1>4. IsJob(j) /\ j.pc = "record" /\ j.todo = k.found /\ j.known = OpenConflicts(n) /\ j.seen = k.seen
  BY <1>2, <1>3, JobRecord DEF Pcs
<1>5. Reads(c, j)
  <2>1. j = [NoJob EXCEPT !.pc = "record", !.todo = k.found, !.known = OpenConflicts(n), !.seen = k.seen]
    <3>1. PICK a : a = [NoJob EXCEPT !.pc = "record", !.todo = k.found, !.known = OpenConflicts(n), !.seen = k.seen]
      OBVIOUS
    <3>2. SameFields(a, j)
      BY <1>3, <3>1 DEF NoJob, SameFields
    <3>3. a = j
      BY <1>4, <3>2, SameJob
    <3> QED BY <3>1, <3>3
  <2> QED BY <1>1, <2>1 DEF ReadOpen
<1>6. ASSUME NEW d \in Written(n, "conflict"), d.about \notin OpenConflicts(n) PROVE Settled(n, d)
  <2>1. d \in notes[n] /\ d.kind = "conflict" /\ d.by = n
    BY DEF Written
  <2>2. <<d.by, d.at>> \in {r.about : r \in {r \in notes[n] : r.kind = "resolved"}}
    BY <1>6, <2>1 DEF OpenConflicts
  <2> QED BY <2>1, <2>2 DEF Settled
<1>7. RecordOK(c, n, j)
  BY <1>2, <1>4, <1>6 DEF RecordOK, OpenOK, Earlier
<1>8. JobOK(c, Site[c], j) /\ j.seen <= minted[Site[c]]
  BY <1>1, <1>2, <1>4, <1>7 DEF JobOK
<1> QED BY <1>4, <1>5, <1>8, ReadsKeep

\* One piece of work of a call is done.
LEMMA DoneIs ==
    ASSUME ReconcileInv, NEW c \in Caller, NEW x, Done(c, x), job[c].pc \in {"record", "adopt"}
    PROVE  \E j : /\ Becomes(c, j) /\ IsJob(j) /\ j.seen <= minted[Site[c]] /\ JobOK(c, Site[c], j)
                  /\ j.pc = "idle" \/ (j.pc = job[c].pc /\ j.todo = job[c].todo \ {x})
<1>1. PICK n, k : n \in Node /\ n = Site[c] /\ k = job[c]
  BY CallIs
<1>2. /\ k.pc \in {"record", "adopt"} /\ k.pc \in Pcs /\ k.seen \in Nat /\ k.seen <= minted[n] /\ JobOK(c, n, k)
      /\ k = [pc |-> k.pc, scopes |-> k.scopes, todo |-> k.todo, found |-> k.found, known |-> k.known,
              seen |-> k.seen]
  BY <1>1, CallIs DEF IsJob
<1>3. PICK T : T = k.todo \ {x}
  OBVIOUS
<1>4. CASE T = {}
  <2>1. Becomes(c, NoJob)
    BY <1>1, <1>3, <1>4 DEF Done
  <2>2. NoJob.seen <= minted[Site[c]]
    BY NoJobFits, CallIs
  <2> QED BY <2>1, <2>2, NoJobFits
<1>5. CASE T # {}
  <2>1. PICK j : j = [pc |-> k.pc, scopes |-> k.scopes, todo |-> T, found |-> k.found, known |-> k.known,
                      seen |-> k.seen]
    OBVIOUS
  <2>2. IsJob(j) /\ j.pc = k.pc /\ j.todo = T /\ j.known = k.known /\ j.seen = k.seen
    BY <1>2, <2>1, JobRecord
  <2>3. Becomes(c, j)
    <3>1. j = [k EXCEPT !.todo = T]
      BY <1>2, <2>1
    <3> QED BY <1>1, <1>3, <1>5, <3>1 DEF Done
  <2>4. k.pc = "record" => RecordOK(c, n, j)
    BY <1>2, <1>3, <2>2 DEF JobOK, RecordOK
  <2>5. k.pc = "adopt" => AdoptOK(c, n, j)
    BY <1>2, <1>3, <2>2 DEF JobOK, AdoptOK
  <2>6. JobOK(c, Site[c], j) /\ j.seen <= minted[Site[c]]
    BY <1>1, <1>2, <2>2, <2>4, <2>5 DEF JobOK
  <2> QED BY <1>1, <1>3, <2>2, <2>3, <2>6
<1> QED BY <1>4, <1>5

LEMMA RecordConflictKeeps ==
    ASSUME ReconcileInv, NEW c \in Caller, RecordConflict(c)
    PROVE  ReconcileInv'
<1>1. PICK n, k : n \in Node /\ n = Site[c] /\ k = job[c]
  BY CallIs
<1>2. PICK o \in k.todo :
         /\ Done(c, o)
         /\ IF <<o>> \in k.known THEN UNCHANGED <<notes, stamps>>
            ELSE Record(n, Settles(c, "conflict", o.scope, <<o>>))
  BY <1>1 DEF RecordConflict
<1>3. k.pc = "record" /\ UNCHANGED <<ledger, iso, hub>>
  BY <1>1 DEF RecordConflict
<1>4. k.seen \in Nat /\ k.seen <= minted[n] /\ RecordOK(c, n, k)
  BY <1>1, <1>3, CallIs DEF JobOK
<1>5. PICK j : /\ Becomes(c, j) /\ IsJob(j) /\ j.seen <= minted[Site[c]] /\ JobOK(c, Site[c], j)
               /\ j.pc = "idle" \/ (j.pc = k.pc /\ j.todo = k.todo \ {o})
  BY <1>1, <1>2, <1>3, DoneIs
<1>6. CASE <<o>> \in k.known
  <2>1. Reads(c, j)
    BY <1>2, <1>3, <1>5, <1>6 DEF Reads
  <2> QED BY <1>5, <2>1, ReadsKeep
<1>7. CASE <<o>> \notin k.known
  <2>1. PICK x : x = Settles(c, "conflict", o.scope, <<o>>)
    OBVIOUS
  <2>2. /\ x.kind = "conflict" /\ x.by = n /\ x.at = minted[n] + 1 /\ x.scope = o.scope
        /\ x.about = <<o>> /\ x.calls = {c} /\ x.seen = k.seen
    BY <1>1, <2>1, SettlesIs
  <2>3. Record(n, x)
    BY <1>2, <1>7, <2>1
  <2>4. /\ x.scope \in Scope /\ Contested(n, x.scope) /\ Unadopted(c, n, x.scope, x.seen)
        /\ \A y \in Earlier(c, n, "conflict", x.seen) : y.about = x.about => Settled(n, y)
    BY <1>2, <1>4, <1>7, <2>2 DEF RecordOK, Found
  <2>5. Spares(j, x)
    <3>1. \A p : p # o => <<p>> # x.about
      BY <2>2
    <3> QED BY <1>3, <1>5, <2>2, <3>1 DEF Spares
  <2> QED BY <1>1, <1>3, <1>4, <1>5, <2>2, <2>3, <2>4, <2>5, OneNote DEF Marks
<1> QED BY <1>6, <1>7

LEMMA AdoptKeeps ==
    ASSUME ReconcileInv, NEW c \in Caller, Adopt(c)
    PROVE  ReconcileInv'
<1>1. PICK n, k : n \in Node /\ n = Site[c] /\ k = job[c]
  BY CallIs
<1>2. PICK s \in k.todo : Done(c, s) /\ Record(n, Settles(c, "adopted", s, <<>>))
  BY <1>1 DEF Adopt
<1>3. k.pc = "adopt" /\ UNCHANGED <<ledger, iso, hub>>
  BY <1>1 DEF Adopt
<1>4. k.seen \in Nat /\ k.seen <= minted[n] /\ AdoptOK(c, n, k)
  BY <1>1, <1>3, CallIs DEF JobOK
<1>5. PICK j : /\ Becomes(c, j) /\ IsJob(j) /\ j.seen <= minted[Site[c]] /\ JobOK(c, Site[c], j)
               /\ j.pc = "idle" \/ (j.pc = k.pc /\ j.todo = k.todo \ {s})
  BY <1>1, <1>2, <1>3, DoneIs
<1>6. PICK x : x = Settles(c, "adopted", s, <<>>)
  OBVIOUS
<1>7. x.kind = "adopted" /\ x.by = n /\ x.at = minted[n] + 1 /\ x.scope = s /\ x.calls = {c} /\ x.seen = k.seen
  BY <1>1, <1>6, SettlesIs
<1>8. Record(n, x)
  BY <1>2, <1>6
<1>9. x.scope \in Scope /\ Unadopted(c, n, x.scope, x.seen) /\ Hidden(c, n, x.scope, x.seen)
  BY <1>2, <1>4, <1>7 DEF AdoptOK
<1>10. Spares(j, x)
  BY <1>3, <1>5, <1>7 DEF Spares
<1> QED BY <1>1, <1>3, <1>4, <1>5, <1>7, <1>8, <1>9, <1>10, OneNote DEF Marks

(***************************************************************************)
(* The sweep.                                                              *)
(***************************************************************************)
\* A sweep that goes on, or has nothing left to do.
LEMMA SweepLeftFits ==
    ASSUME NEW c, NEW n, NEW p \in {"sweep", "stale"}, NEW T, NEW K, NEW m \in Nat, NEW j,
           j = [pc |-> p, scopes |-> {}, todo |-> T, found |-> {}, known |-> K, seen |-> m],
           \A e \in T : e \in LeaseEvent /\ e.node = n, \A k, l \in K : k = l, NEW l, l = SweepLeft(j), p = "sweep"
    PROVE  IsJob(l) /\ JobOK(c, n, l) /\ (l.seen = m \/ l.seen = 0)
<1>1. IsJob(j) /\ j.pc = p /\ j.todo = T /\ j.known = K /\ j.seen = m
  BY JobRecord DEF Pcs
<1>2. JobOK(c, n, j)
  BY <1>1 DEF JobOK, SweepOK
<1> QED BY <1>1, <1>2, NoJobFits DEF SweepLeft

LEMMA BeginSweepKeeps ==
    ASSUME ReconcileInv, NEW c \in Caller, NEW stale \in SUBSET Node, BeginSweep(c, stale)
    PROVE  ReconcileInv'
<1>1. PICK n \in Node : n = Site[c]
  BY CallIs
<1>2. PICK T : T = {End(n, Winner(ledger[n], s)) : s \in {s \in Scope : LeaseHolder(ledger[n], s, 0) \in stale}}
  OBVIOUS
<1>3. PICK K : K = IF Coordinator(ledger[n]).holder \in stale
                   THEN {<<Coordinator(ledger[n]).holder, Coordinator(ledger[n]).epoch>>} ELSE {}
  OBVIOUS
<1>4. PICK j : j = [pc |-> "sweep", scopes |-> {}, todo |-> T, found |-> {}, known |-> K, seen |-> 0]
  OBVIOUS
<1>5. Reads(c, SweepLeft(j))
  <2>1. j = [NoJob EXCEPT !.pc = "sweep", !.todo = T, !.known = K]
    <3>1. PICK a : a = [NoJob EXCEPT !.pc = "sweep", !.todo = T, !.known = K]
      OBVIOUS
    <3>2. SameFields(a, j)
      BY <1>4, <3>1 DEF NoJob, SameFields
    <3>3. IsJob(j)
      BY <1>4, JobRecord DEF Pcs
    <3>4. a = j
      BY <3>2, <3>3, SameJob
    <3> QED BY <3>1, <3>4
  <2> QED BY <1>1, <1>2, <1>3, <2>1 DEF BeginSweep
<1>6. \A e \in T : e \in LeaseEvent /\ e.node = n
  <2> SUFFICES ASSUME NEW s \in Scope, LeaseHolder(ledger[n], s, 0) \in stale
               PROVE  End(n, Winner(ledger[n], s)) \in LeaseEvent /\ End(n, Winner(ledger[n], s)).node = n
    BY <1>2
  <2>1. LeaseHolder(ledger[n], s, 0) # Nobody
    BY NodesAreOrdered
  <2> QED BY <2>1, EndIsEvent
<1>7. \A k, l \in K : k = l
  BY <1>3
<1>8. PICK l : l = SweepLeft(j)
  OBVIOUS
<1>9. IsJob(l) /\ JobOK(c, Site[c], l) /\ l.seen = 0
  BY <1>1, <1>4, <1>6, <1>7, <1>8, SweepLeftFits
<1>10. l.seen <= minted[Site[c]]
  BY <1>9, CallIs
<1> QED BY <1>5, <1>8, <1>9, <1>10, ReadsKeep

LEMMA ReclaimKeeps ==
    ASSUME ReconcileInv, NEW c \in Caller, Reclaim(c)
    PROVE  ReconcileInv'
<1>1. PICK n, k : n \in Node /\ n = Site[c] /\ k = job[c]
  BY CallIs
<1>2. PICK e \in k.todo : AppendEvent(n, e) /\ Becomes(c, SweepLeft([k EXCEPT !.todo = @ \ {e}]))
  BY <1>1 DEF Reclaim
<1>3. k.pc = "sweep" /\ UNCHANGED <<iso, notes, hub>>
  BY <1>1 DEF Reclaim
<1>4. /\ k.seen \in Nat /\ k.seen <= minted[n] /\ SweepOK(n, k) /\ minted[n] \in Nat /\ IsJob(k)
      /\ k = [pc |-> k.pc, scopes |-> k.scopes, todo |-> k.todo, found |-> k.found, known |-> k.known,
              seen |-> k.seen]
  BY <1>1, <1>3, CallIs DEF JobOK, IsJob
<1>5. e \in Event /\ e.node = n
  BY <1>2, <1>4 DEF Event, SweepOK
<1>6. StoreKinds' /\ LedgerInv' /\ NotesInv' /\ Grows /\ Quiet
  <2>1. PICK marked \in BOOLEAN : ~marked
    OBVIOUS
  <2>2. iso' = IF marked THEN iso \cup {<<n, minted[n] + 1>>} ELSE iso
    BY <1>3, <2>1
  <2> QED BY <1>1, <1>2, <1>3, <1>5, <2>1, <2>2, AppendKeeps
<1>7. PICK T : T = k.todo \ {e}
  OBVIOUS
<1>8. PICK j : j = [pc |-> "sweep", scopes |-> k.scopes, todo |-> T, found |-> k.found, known |-> k.known,
                    seen |-> k.seen]
  OBVIOUS
<1>9. IsJob(j) /\ j.pc = "sweep" /\ j.todo = T /\ j.known = k.known /\ j.seen = k.seen
  BY <1>4, <1>8, JobRecord DEF Pcs
<1>10. j = [k EXCEPT !.todo = @ \ {e}]
  BY <1>3, <1>4, <1>7, <1>8
<1>11. JobOK(c, n, j)
  BY <1>4, <1>7, <1>9 DEF JobOK, SweepOK
<1>12. PICK l : l = SweepLeft(j)
  OBVIOUS
<1>13. IsJob(l) /\ JobOK(c, Site[c], l) /\ l.seen <= minted[Site[c]] /\ Becomes(c, l)
  <2>1. l = j \/ l = NoJob
    BY <1>12 DEF SweepLeft
  <2>2. NoJob.seen <= minted[n] /\ j.seen <= minted[n]
    BY <1>4, <1>9, NoJobFits
  <2> QED BY <1>1, <1>2, <1>9, <1>10, <1>11, <1>12, <2>1, <2>2, NoJobFits
<1> QED BY <1>6, <1>13, OneJob

LEMMA ReadStaleKeeps ==
    ASSUME ReconcileInv, NEW c \in Caller, ReadStale(c)
    PROVE  ReconcileInv'
<1>1. PICK n, k : n \in Node /\ n = Site[c] /\ k = job[c]
  BY CallIs
<1>2. PICK who \in k.known :
         Reads(c, IF \E x \in notes[n] : x.kind = "stale" /\ x.about = who
                  THEN SweepLeft([k EXCEPT !.known = {}])
                  ELSE [k EXCEPT !.pc = "stale", !.seen = minted[n]])
  BY <1>1 DEF ReadStale
<1>3. /\ k.pc = "sweep" /\ k.seen \in Nat /\ k.seen <= minted[n] /\ SweepOK(n, k) /\ minted[n] \in Nat
      /\ k = [pc |-> k.pc, scopes |-> k.scopes, todo |-> k.todo, found |-> k.found, known |-> k.known,
              seen |-> k.seen]
  BY <1>1, CallIs DEF JobOK, IsJob, ReadStale
<1>4. CASE \E x \in notes[n] : x.kind = "stale" /\ x.about = who
  <2>1. PICK j : j = [pc |-> "sweep", scopes |-> k.scopes, todo |-> k.todo, found |-> k.found, known |-> {},
                      seen |-> k.seen]
    OBVIOUS
  <2>2. IsJob(j) /\ j.pc = "sweep" /\ j.todo = k.todo /\ j.known = {} /\ j.seen = k.seen
    BY <1>3, <2>1, JobRecord DEF Pcs
  <2>3. JobOK(c, n, j)
    BY <1>3, <2>2 DEF JobOK, SweepOK
  <2>4. PICK l : l = SweepLeft(j)
    OBVIOUS
  <2>5. Reads(c, l)
    <3>1. j = [k EXCEPT !.known = {}]
      BY <1>3, <2>1
    <3> QED BY <1>2, <1>4, <2>4, <3>1
  <2>6. IsJob(l) /\ JobOK(c, Site[c], l) /\ l.seen <= minted[Site[c]]
    <3>1. l = j \/ l = NoJob
      BY <2>4 DEF SweepLeft
    <3>2. NoJob.seen <= minted[n] /\ j.seen <= minted[n]
      BY <1>3, <2>2, NoJobFits
    <3> QED BY <1>1, <2>2, <2>3, <3>1, <3>2, NoJobFits
  <2> QED BY <2>5, <2>6, ReadsKeep
<1>5. CASE ~ \E x \in notes[n] : x.kind = "stale" /\ x.about = who
  <2>1. PICK m \in Nat : m = minted[n]
    BY <1>3
  <2>2. PICK j : j = [pc |-> "stale", scopes |-> k.scopes, todo |-> k.todo, found |-> k.found, known |-> k.known,
                      seen |-> m]
    OBVIOUS
  <2>3. IsJob(j) /\ j.pc = "stale" /\ j.todo = k.todo /\ j.known = k.known /\ j.seen = m
    BY <2>2, JobRecord DEF Pcs
  <2>4. SweepOK(n, j)
    BY <1>3, <2>3 DEF SweepOK
  <2>5. StaleOK(c, n, j)
    <3>1. \A y \in k.known : y = who
      BY <1>2, <1>3 DEF SweepOK
    <3> QED BY <1>5, <2>3, <3>1 DEF StaleOK, Earlier, Written
  <2>6. JobOK(c, Site[c], j) /\ j.seen <= minted[Site[c]]
    BY <1>1, <1>3, <2>1, <2>3, <2>4, <2>5 DEF JobOK
  <2>7. Reads(c, j)
    <3>1. j = [k EXCEPT !.pc = "stale", !.seen = minted[n]]
      <4>1. PICK a : a = [k EXCEPT !.pc = "stale", !.seen = minted[n]]
        OBVIOUS
      <4>2. SameFields(a, j)
        BY <1>3, <2>1, <2>2, <4>1 DEF SameFields
      <4>3. a = j
        BY <2>3, <4>2, SameJob
      <4> QED BY <4>1, <4>3
    <3> QED BY <1>2, <1>5, <3>1
  <2> QED BY <2>3, <2>6, <2>7, ReadsKeep
<1> QED BY <1>4, <1>5

LEMMA RecordStaleKeeps ==
    ASSUME ReconcileInv, NEW c \in Caller, RecordStale(c)
    PROVE  ReconcileInv'
<1>1. PICK n, k : n \in Node /\ n = Site[c] /\ k = job[c]
  BY CallIs
<1>2. PICK who \in k.known, s \in Scope : Record(n, Settles(c, "stale", s, who))
  BY <1>1 DEF RecordStale
<1>3. /\ k.pc = "stale" /\ UNCHANGED <<ledger, iso, hub>>
      /\ Becomes(c, SweepLeft([k EXCEPT !.pc = "sweep", !.known = {}, !.seen = 0]))
  BY <1>1 DEF RecordStale
<1>4. /\ k.seen \in Nat /\ k.seen <= minted[n] /\ SweepOK(n, k) /\ StaleOK(c, n, k) /\ minted[n] \in Nat
      /\ k = [pc |-> k.pc, scopes |-> k.scopes, todo |-> k.todo, found |-> k.found, known |-> k.known,
              seen |-> k.seen]
  BY <1>1, <1>3, CallIs DEF JobOK, IsJob
<1>5. PICK j : j = [pc |-> "sweep", scopes |-> k.scopes, todo |-> k.todo, found |-> k.found, known |-> {}, seen |-> 0]
  OBVIOUS
<1>6. IsJob(j) /\ j.pc = "sweep" /\ j.todo = k.todo /\ j.known = {} /\ j.seen = 0
  BY <1>5, JobRecord DEF Pcs
<1>7. JobOK(c, n, j)
  BY <1>4, <1>6 DEF JobOK, SweepOK
<1>8. PICK l : l = SweepLeft(j)
  OBVIOUS
<1>9. Becomes(c, l)
  <2>1. j = [k EXCEPT !.pc = "sweep", !.known = {}, !.seen = 0]
    <3>1. PICK a : a = [k EXCEPT !.pc = "sweep", !.known = {}, !.seen = 0]
      OBVIOUS
    <3>2. SameFields(a, j)
      BY <1>4, <1>5, <3>1 DEF SameFields
    <3>3. a = j
      BY <1>6, <3>2, SameJob
    <3> QED BY <3>1, <3>3
  <2> QED BY <1>3, <1>8, <2>1
<1>10. IsJob(l) /\ JobOK(c, n, l) /\ l.seen <= minted[n]
  <2>1. l = j \/ l = NoJob
    BY <1>8 DEF SweepLeft
  <2>2. NoJob.seen <= minted[n] /\ j.seen <= minted[n]
    BY <1>4, <1>6, NoJobFits
  <2> QED BY <1>6, <1>7, <2>1, <2>2, NoJobFits
<1>11. PICK x : x = Settles(c, "stale", s, who)
  OBVIOUS
<1>12. /\ x.kind = "stale" /\ x.by = n /\ x.at = minted[n] + 1 /\ x.scope = s
       /\ x.about = who /\ x.calls = {c} /\ x.seen = k.seen
  BY <1>1, <1>11, SettlesIs
<1>13. Record(n, x) /\ \A y \in Earlier(c, n, "stale", x.seen) : y.about # x.about
  BY <1>2, <1>4, <1>11, <1>12 DEF StaleOK
<1>14. Spares(l, x)
  BY <1>6, <1>8, NoJobFits DEF SweepLeft, Spares
<1> QED BY <1>1, <1>2, <1>3, <1>4, <1>9, <1>10, <1>12, <1>13, <1>14, OneNote DEF Marks

(***************************************************************************)
(* The beginning.                                                          *)
(***************************************************************************)
\* What a node wrote before: events of its own under stamps given once, the leases all
\* granted.
LEMMA FoundedIs ==
    ASSUME ReconcileConstantsOK, NEW n \in Node, NEW last \in Nat,
           last = IF n = 1 THEN 2 ELSE IF CutOff[n] = <<>> THEN 0 ELSE 2 + Len(CutOff[n])
    PROVE  /\ Founded(n) \subseteq Event /\ IsFiniteSet(Founded(n))
           /\ \A e \in Founded(n) : e.node = n /\ e.at \in 1 .. last /\ (e.kind = "lease" => e.marker = "granted")
           /\ \A e, f \in Founded(n) : e.at = f.at => e = f
<1> DEFINE claim(e) == [Role(n, "claimed", e, n, FALSE) EXCEPT !.at = 1]
           grant(e) == [Role(n, "granted", e, n, FALSE) EXCEPT !.at = 2]
           lease(i) == [Grant(n, CutOff[n][i], 2, n, FALSE) EXCEPT !.at = 2 + i, !.seq = 1]
<1>1. ASSUME NEW e \in Nat
      PROVE  /\ claim(e) \in Event /\ claim(e).node = n /\ claim(e).at = 1 /\ claim(e).kind = "role"
             /\ grant(e) \in Event /\ grant(e).node = n /\ grant(e).at = 2 /\ grant(e).kind = "role"
  BY <1>1 DEF Role, Event, RoleEvent
<1>2. CASE n = 1
  <2>1. PICK c, g : c = claim(1) /\ g = grant(1)
    OBVIOUS
  <2>2. Founded(n) = {c, g}
    BY <1>2, <2>1 DEF Founded
  <2>3. /\ c \in Event /\ c.node = n /\ c.at = 1 /\ c.kind = "role"
        /\ g \in Event /\ g.node = n /\ g.at = 2 /\ g.kind = "role"
    BY <1>1, <2>1
  <2>4. IsFiniteSet({c} \cup {g})
    BY FS_Singleton, FS_AddElement
  <2>5. {c, g} = {c} \cup {g}
    OBVIOUS
  <2> HIDE DEF claim, grant, lease
  <2> QED BY <1>2, <2>2, <2>3, <2>4, <2>5
<1>3. CASE n # 1 /\ CutOff[n] = <<>>
  <2>1. Founded(n) = {}
    BY <1>3 DEF Founded
  <2> QED BY <2>1, FS_EmptySet
<1>4. CASE n # 1 /\ CutOff[n] # <<>>
  <2>1. PICK c, g : c = claim(2) /\ g = grant(2)
    OBVIOUS
  <2>2. PICK S \in Seq(Scope) : S = CutOff[n]
    BY <1>4 DEF ReconcileConstantsOK
  <2>3. PICK H : H = {lease(i) : i \in 1 .. Len(S)}
    OBVIOUS
  <2>4. Founded(n) = {c, g} \cup H
    <3>1. DOMAIN CutOff[n] = 1 .. Len(S)
      BY <2>2
    <3> QED BY <1>4, <2>1, <2>3, <3>1 DEF Founded
  <2>5. /\ c \in Event /\ c.node = n /\ c.at = 1 /\ c.kind = "role"
        /\ g \in Event /\ g.node = n /\ g.at = 2 /\ g.kind = "role"
    BY <1>1, <2>1
  <2>6. ASSUME NEW i \in 1 .. Len(S)
        PROVE  /\ lease(i) \in Event /\ lease(i).node = n /\ lease(i).at = 2 + i
               /\ lease(i).kind = "lease" /\ lease(i).marker = "granted"
    <3>1. S[i] \in Scope /\ 2 + i \in Nat /\ CutOff[n][i] = S[i]
      BY <2>2, <2>6
    <3> QED BY <3>1 DEF Grant, Event, LeaseEvent
  <2>7. IsFiniteSet({c, g} \cup H)
    <3>1. IsFiniteSet(1 .. Len(S))
      BY FS_Interval
    <3>2. IsFiniteSet(H)
      <4>1. PICK D : D = 1 .. Len(S)
        OBVIOUS
      <4>2. PICK f : f = [i \in D |-> lease(i)]
        OBVIOUS
      <4>3. f \in Surjection(D, H)
        BY <2>3, <4>1, <4>2 DEF Surjection
      <4> QED BY <3>1, <4>1, <4>3, FS_Surjection
    <3>3. IsFiniteSet({c} \cup {g})
      BY FS_Singleton, FS_AddElement
    <3>4. {c, g} = {c} \cup {g}
      OBVIOUS
    <3> QED BY <3>2, <3>3, <3>4, FS_Union
  <2>8. last = 2 + Len(S) /\ Len(S) \in Nat
    BY <1>4, <2>2
  <2> HIDE DEF claim, grant, lease
  <2>9. \A e \in H : e \in Event /\ e.node = n /\ e.kind = "lease" /\ e.marker = "granted" /\ e.at \in 3 .. last
    BY <2>3, <2>6, <2>8
  <2>10. \A e, f \in H : e.at = f.at => e = f
    <3> SUFFICES ASSUME NEW i \in 1 .. Len(S), NEW k \in 1 .. Len(S), lease(i).at = lease(k).at
                 PROVE  i = k
      BY <2>3
    <3> QED BY <2>6, <2>8
  <2>11. \A e \in Founded(n) : e = c \/ e = g \/ e \in H
    BY <2>4
  <2>12. \A e, f \in Founded(n) : e.at = f.at => e = f
    BY <2>5, <2>8, <2>9, <2>10, <2>11
  <2>13. \A e \in Founded(n) :
           e \in Event /\ e.node = n /\ e.at \in 1 .. last /\ (e.kind = "lease" => e.marker = "granted")
    BY <2>5, <2>8, <2>9, <2>11
  <2> QED BY <2>4, <2>7, <2>12, <2>13
<1> QED BY <1>2, <1>3, <1>4

LEMMA ReconcileInitInv == ASSUME ReconcileConstantsOK, ReconcileInit PROVE ReconcileInv
<1>1. minted \in [Node -> Nat]
  <2> SUFFICES ASSUME NEW n \in Node
               PROVE  (IF n = 1 THEN 2 ELSE IF CutOff[n] = <<>> THEN 0 ELSE 2 + Len(CutOff[n])) \in Nat
    BY DEF ReconcileInit
  <2>1. CASE n = 1
    BY <2>1
  <2>2. CASE n # 1
    <3>1. Len(CutOff[n]) \in Nat
      BY <2>2 DEF ReconcileConstantsOK
    <3> QED BY <2>2, <3>1
  <2> QED BY <2>1, <2>2
<1>2. \A n \in Node :
        /\ Founded(n) \subseteq Event /\ IsFiniteSet(Founded(n))
        /\ \A e \in Founded(n) : e.node = n /\ e.at \in 1 .. minted[n] /\ (e.kind = "lease" => e.marker = "granted")
        /\ \A e, f \in Founded(n) : e.at = f.at => e = f
  <2> SUFFICES ASSUME NEW n \in Node
               PROVE  /\ Founded(n) \subseteq Event /\ IsFiniteSet(Founded(n))
                      /\ \A e \in Founded(n) :
                            e.node = n /\ e.at \in 1 .. minted[n] /\ (e.kind = "lease" => e.marker = "granted")
                      /\ \A e, f \in Founded(n) : e.at = f.at => e = f
    OBVIOUS
  <2>1. PICK last \in Nat : last = minted[n]
    BY <1>1
  <2>2. last = IF n = 1 THEN 2 ELSE IF CutOff[n] = <<>> THEN 0 ELSE 2 + Len(CutOff[n])
    BY <2>1 DEF ReconcileInit
  <2> QED BY <2>1, <2>2, FoundedIs
<1>3. 1 \in Node
  BY DEF ReconcileConstantsOK
<1>4. /\ \A n \in Node : ledger[n] = Founded(1) \cup Founded(n)
      /\ hub.ledger = Founded(1) /\ hub.notes = {} /\ hub = [ledger |-> hub.ledger, notes |-> hub.notes]
      /\ \A n \in Node : notes[n] = {}
  BY DEF ReconcileInit
<1>5. \A m, at : <<m, at>> \in iso => m \in Node /\ \E e \in Founded(m) : at = e.at
  BY DEF ReconcileInit
<1>6. StoreKinds
  <2>1. ledger \in [Node -> SUBSET Event]
    <3>1. \A n \in Node : Founded(1) \cup Founded(n) \in SUBSET Event
      BY <1>2, <1>3
    <3> QED BY <3>1 DEF ReconcileInit
  <2>2. notes = [n \in Node |-> notes[n]]
    BY DEF ReconcileInit
  <2>3. iso \in SUBSET (Node \X Nat)
    <3> SUFFICES ASSUME NEW n \in Node, NEW e \in Founded(n) PROVE <<n, e.at>> \in Node \X Nat
      BY DEF ReconcileInit
    <3>1. e.at \in 1 .. minted[n]
      BY <1>2
    <3> QED BY <3>1
  <2>4. hub.ledger \in SUBSET Event
    BY <1>2, <1>3, <1>4
  <2> QED BY <1>1, <1>4, <2>1, <2>2, <2>3, <2>4 DEF StoreKinds
<1>7. LedgerInv
  <2>1. \A m \in Node : \A e \in Founded(m) : Known(e)
    BY <1>2, <1>4 DEF Known
  <2>2. ASSUME NEW n \in Node PROVE IsFiniteSet(ledger[n]) /\ \A e \in ledger[n] : Known(e)
    <3>1. IsFiniteSet(Founded(1)) /\ IsFiniteSet(Founded(n)) /\ ledger[n] = Founded(1) \cup Founded(n)
      BY <1>2, <1>3, <1>4
    <3>2. IsFiniteSet(ledger[n])
      BY <3>1, FS_Union
    <3> QED BY <1>3, <2>1, <3>1, <3>2
  <2>3. IsFiniteSet(hub.ledger) /\ \A e \in hub.ledger : Known(e)
    BY <1>2, <1>3, <1>4, <2>1
  <2>4. \A n \in Node : \A e \in ledger[n] : e.node = n => e \in Founded(n)
    BY <1>2, <1>3, <1>4
  <2>5. \A n \in Node : \A e, f \in ledger[n] : (e.node = n /\ f.node = n /\ e.at = f.at) => e = f
    BY <1>2, <2>4
  <2>6. ASSUME NEW n \in Node, NEW at \in Nat, <<n, at>> \in iso PROVE at <= minted[n]
    <3>1. PICK e \in Founded(n) : at = e.at
      BY <1>5, <2>6
    <3>2. e.at \in 1 .. minted[n] /\ minted[n] \in Nat
      BY <1>1, <1>2
    <3> QED BY <3>1, <3>2
  <2>7. \A n \in Node : \A e \in ledger[n] :
          (e.node = n /\ e.kind = "lease" /\ <<n, e.at>> \in iso) => e.marker = "granted"
    BY <1>2, <2>4
  <2> QED BY <2>2, <2>3, <2>5, <2>6, <2>7 DEF LedgerInv
<1>8. NotesInv
  BY <1>4 DEF NotesInv
<1>9. \A n \in Node : \A kind : Written(n, kind) = {}
  BY <1>4 DEF Written
<1>10. ConflictInv /\ SettledOnce
  BY <1>9 DEF ConflictInv, ConflictAt, SettledOnce
<1>11. job = [c \in Caller |-> NoJob] /\ \A c \in Caller : job[c] = NoJob
  BY DEF ReconcileInit
<1>12. JobKinds
  <2>1. job = [c \in Caller |-> job[c]]
    BY <1>11
  <2>2. Site \in [Caller -> Node]
    BY DEF ReconcileConstantsOK
  <2>3. \A c \in Caller : minted[Site[c]] \in Nat
    BY <1>1, <2>2
  <2> QED BY <1>11, <2>1, <2>2, <2>3, NoJobFits DEF JobKinds
<1>13. JobInv
  <2>1. \A c \in Caller : Site[c] \in Node
    BY DEF ReconcileConstantsOK
  <2> QED BY <1>11, <2>1, NoJobFits DEF JobInv
<1> QED BY <1>6, <1>7, <1>8, <1>10, <1>12, <1>13 DEF ReconcileInv

(***************************************************************************)
(* Every step keeps the invariant.                                         *)
(***************************************************************************)
LEMMA JobStepKeeps == ASSUME ReconcileInv, NEW c \in Caller, JobStep(c) PROVE ReconcileInv'
<1>1. CASE BeginReconcile(c)
  BY <1>1, BeginReconcileKeeps
<1>2. CASE ReadAdopted(c)
  BY <1>2, ReadAdoptedKeeps
<1>3. CASE ReadScopes(c)
  BY <1>3, ReadScopesKeeps
<1>4. CASE Detect(c)
  BY <1>4, DetectKeeps
<1>5. CASE ReadOpen(c)
  BY <1>5, ReadOpenKeeps
<1>6. CASE RecordConflict(c)
  BY <1>6, RecordConflictKeeps
<1>7. CASE Adopt(c)
  BY <1>7, AdoptKeeps
<1>8. CASE \E stale \in SUBSET Node : BeginSweep(c, stale)
  BY <1>8, BeginSweepKeeps
<1>9. CASE Reclaim(c)
  BY <1>9, ReclaimKeeps
<1>10. CASE ReadStale(c)
  BY <1>10, ReadStaleKeeps
<1>11. CASE RecordStale(c)
  BY <1>11, RecordStaleKeeps
<1>12. CASE Aborts(c)
  BY <1>12, EndKeeps DEF Aborts
<1> QED BY <1>1, <1>2, <1>3, <1>4, <1>5, <1>6, <1>7, <1>8, <1>9, <1>10, <1>11, <1>12 DEF JobStep

LEMMA ReconcileStepKeeps ==
    ASSUME ReconcileInv, [ReconcileNext]_reconcileVars
    PROVE  ReconcileInv'
<1>1. CASE UNCHANGED reconcileVars
  <2>1. UNCHANGED <<ledger, iso, notes, hub, stamps>> /\ job' = job
    BY <1>1 DEF reconcileVars
  <2> QED BY <2>1, StoreStays, BesideJobs
<1>2. CASE \E c \in Caller : JobStep(c)
  BY <1>2, JobStepKeeps
<1>3. ASSUME NEW n \in Node,
             \/ IsoClaim(n) \/ Push(n) \/ Pull(n) \/ Resolve(n)
             \/ \E s \in Scope : Release(n, s) \/ Work(n, s) \/ \E h \in Node : GrantTo(n, s, h)
      PROVE  ReconcileInv'
  BY <1>3, IsoClaimKeeps, PushKeeps, PullKeeps, ResolveKeeps, ReleaseKeeps, WorkKeeps, GrantToKeeps
<1> QED BY <1>1, <1>2, <1>3 DEF ReconcileNext

\* The invariant holds of every run of nodes that are cut off, write and come home, also
\* when reconciliations and sweeps of one node run side by side, end anywhere and begin
\* again (reconcile.py, the threads of loopback.py).
THEOREM ReconcileInvHolds == ASSUME ReconcileConstantsOK PROVE ReconcileSpec => []ReconcileInv
<1>1. ReconcileInit => ReconcileInv
  BY ReconcileInitInv
<1>2. ReconcileInv /\ [ReconcileNext]_reconcileVars => ReconcileInv'
  BY ReconcileStepKeeps
<1> QED BY <1>1, <1>2, PTL DEF ReconcileSpec

\* Ledgers hold events and notes their writers stamped, and a reconcile or sweep is in
\* one of its phases.
THEOREM ReconcileTypeCorrect == ASSUME ReconcileConstantsOK PROVE ReconcileSpec => []ReconcileTypeOK
<1>1. ReconcileInv => ReconcileTypeOK
  <2> SUFFICES ASSUME ReconcileInv PROVE ReconcileTypeOK
    OBVIOUS
  <2>1. ASSUME NEW c \in Caller PROVE job[c].pc \in Pcs /\ job[c].seen \in 0 .. minted[Site[c]]
    <3>1. minted[Site[c]] \in Nat /\ job[c].pc \in Pcs /\ job[c].seen \in Nat /\ job[c].seen <= minted[Site[c]]
      BY CallIs DEF IsJob
    <3> QED BY <3>1
  <2> QED BY <2>1 DEF ReconcileInv, ReconcileTypeOK, StoreKinds, LedgerInv, NotesInv, Known, Noted, Pcs
<1> QED BY <1>1, ReconcileInvHolds, PTL

\* What was done in isolation is settled again only by calls of one node that overlapped:
\* of calls that do not, none surfaces an open conflict, adopts a scope or records a
\* stale coordinator that an earlier one did, and none adopts a scope on which another
\* surfaced a conflict unless an isolated hold of a higher epoch hides the other's work
\* (reconcile, _open_iso_conflicts, sweep_stale_nodes).
THEOREM OnlyOverlapsSettleTwice == ASSUME ReconcileConstantsOK PROVE ReconcileSpec => []SettledOnce
<1>1. ReconcileInv => SettledOnce
  BY DEF ReconcileInv
<1> QED BY <1>1, ReconcileInvHolds, PTL
============================================================================
