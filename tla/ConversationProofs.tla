------------------------- MODULE ConversationProofs -------------------------
(***************************************************************************)
(* Proofs about a conversation, for any number of requests, legs, claims,  *)
(* crashes, turns and chunks.                                              *)
(*                                                                         *)
(* One that goes on in new legs never forks and loses no claim: the        *)
(* inductive invariant ResumeInv says who holds the resume lock and why,   *)
(* to which leg each thread belongs, who still attends to a program that   *)
(* runs and to a claim that is held.                                       *)
(*                                                                         *)
(* What a chat shows of an unfinished answer has no hole: the chunks of a  *)
(* response are folded into what is shown, so one step of the proof of     *)
(* ChatInv is an induction over their number.                              *)
(*                                                                         *)
(* The images its prompts refer to are kept and a refused batch is undone: *)
(* CacheInv says what the holder of the cache's lock found, what it has    *)
(* yet to write or restore, and what the editor may write meanwhile.       *)
(*                                                                         *)
(* Its follow-ups are sent once and in order: PanelInv says which of them  *)
(* may still be sent.                                                      *)
(***************************************************************************)
EXTENDS SessionResume, SessionStream, ArtifactCache, FollowUps, FiniteSetTheorems, SequenceTheorems,
    WellFoundedInduction, NaturalsInduction, TLAPS

\* The places of a resumption: before its leg is recorded, and after.
Before == {"acquire", "prepare", "insert", "giveback"}
Starting == {"register", "open", "launch", "launched", "undo", "undone"}
\* The places of whoever ends a leg, and of its worker.
Ending == {"kill", "t8", "deregister", "release"}
Working == {"turn", "cleanup"}
Pcs == {"idle", "over", "lock", "check"} \cup Before \cup Starting \cup Ending \cup Working

Locals == [pc : Pcs, leg : 0 .. MaxLegs, claim : Claim \cup {NoClaim}, proven : BOOLEAN,
           fatal : BOOLEAN, was : BOOLEAN, resumes : BOOLEAN]

\* The types of everything the steps read.
ResumeKinds ==
    /\ writes \in BOOLEAN /\ refused \in BOOLEAN /\ legs \in Leg /\ live \in SUBSET Leg
    /\ t8 \in [Leg -> BOOLEAN] /\ owned \in [Leg -> BOOLEAN]
    /\ state \in [Leg -> {"none", "open", "running", "idle", "terminal"}]
    /\ token \in [Leg -> Claim \cup {NoClaim}]
    /\ adapter \in [Leg -> {"none", "alive", "dead", "stray"}]
    /\ envelope \in {"open", "ended"} /\ lock \in Handler \cup {NoThread}
    /\ holder \in Claim \cup {NoClaim, Other} /\ loc \in [Thread -> Locals]

Resumes(t) == loc[t].resumes
In(t, places) == loc[t].pc \in places

\* A request that resumes holds the resume lock once it has passed it; it has no
\* claim before it acquires one.
OfHandler(h) ==
    /\ ~In(h, Working)
    /\ In(h, {"lock", "check"} \cup Before \cup Starting) => Resumes(h)
    /\ In(h, {"idle", "over", "kill"}) => ~Resumes(h)
    /\ Resumes(h) /\ ~In(h, {"lock"}) => lock = h
    /\ In(h, {"lock", "check", "acquire"}) => loc[h].claim = NoClaim

\* A worker ends its own leg.
OfWorker(l) ==
    /\ In(l, {"idle"} \cup Working \cup Ending) /\ ~Resumes(l)
    /\ ~At(l, "idle") => MyLeg(l) = l /\ l <= legs

Claimless(t) == ~Resumes(t) => loc[t].claim = NoClaim

ThreadInv ==
    /\ \A h \in Handler : OfHandler(h)
    /\ \A l \in Leg : OfWorker(l)
    /\ \A t \in Thread : Claimless(t)

\* Whoever works on a leg or ends it came after its record.
Recorded(t) == In(t, Working \cup Ending) => MyLeg(t) \in 1 .. legs

\* A resumption works on the next leg, which nobody else knows until it has
\* registered it.
OfResumption(h) ==
    /\ In(h, Before) => MyLeg(h) = legs + 1 /\ legs < MaxLegs /\ t8[legs] /\ live = {}
    /\ At(h, "register") => live = {} /\ \A t \in Thread : In(t, Working \cup Ending) => MyLeg(t) # legs
    /\ Resumes(h) /\ In(h, Starting \cup Ending) => MyLeg(h) = legs
    /\ In(h, Before \cup {"register", "open", "launch"}) => At(MyLeg(h), "idle")

\* Only the latest leg is live; older ones are finalized.
LegInv ==
    /\ live \subseteq {legs} /\ \A l \in 1 .. legs - 1 : t8[l]
    /\ \A t \in Thread : Recorded(t)
    /\ \A h \in Handler : OfResumption(h)

\* A leg that somebody ends is terminal, ...
EndsTerminal(t) == ~Resumes(t) /\ In(t, {"kill", "t8", "deregister"}) => state[MyLeg(t)] = "terminal"

\* ... and one that is taken from the registry while it is started.
StartsLive(h) == In(h, {"open", "launch", "launched"}) => MyLeg(h) \in live \/ state[MyLeg(h)] = "terminal"

StateInv ==
    /\ \A t \in Thread : EndsTerminal(t)
    /\ \A h \in Handler : StartsLive(h)

\* A program that runs is being started, or is that of a live leg nobody has
\* finalized; or the lease says so.
Opening == {"insert", "register", "open", "launch", "launched", "undo"}
Final == {"t8", "deregister"}
Attended(l) ==
    \/ \E h \in Handler : MyLeg(h) = l /\ In(h, Opening)
    \/ l \in live /\ \A t \in Thread : MyLeg(t) = l => ~In(t, Final)
DeadlyTurn(l) == In(l, Working) /\ loc[l].fatal

AdapterInv ==
    ~refused => \A l \in Leg : adapter[l] = "alive" => Attended(l) /\ ~DeadlyTurn(l)

\* Somebody will give the claim of leg l back.
Guarded(l) == l \in live \/ \E t \in Thread : At(t, "release") /\ MyLeg(t) = l

\* From the registration on the claim of a resumption is its leg's to give back.
Registered(h) ==
    \/ In(h, {"open", "launch", "launched"})
    \/ At(h, "undo") /\ MyLeg(h) \in live
    \/ Resumes(h) /\ loc[h].was /\ In(h, {"t8", "deregister", "release", "undone"})

Accounted ==
    \/ \E l \in live : token[l] = holder
    \/ \E t \in Thread : loc[t].claim = holder
    \/ \E t \in Thread : At(t, "release") /\ token[MyLeg(t)] = holder

Handed(h) == Registered(h) /\ loc[h].claim = holder => token[MyLeg(h)] = holder /\ Guarded(MyLeg(h))

ClaimInv ==
    /\ holder \in Claim => writes
    /\ \A h \in Handler : At(h, "acquire") => writes
    /\ holder \in Claim /\ ~refused => Accounted /\ \A h \in Handler : Handed(h)

ResumeInv == ResumeKinds /\ ThreadInv /\ LegInv /\ StateInv /\ AdapterInv /\ ClaimInv

----------------------------------------------------------------------------
(***************************************************************************)
(* What the constants and the helpers of the steps come to.                *)
(***************************************************************************)
LEMMA Facts ==
    ASSUME ConstantsOK
    PROVE  /\ NoThread \notin Handler /\ NoClaim \notin Claim /\ Other \notin Claim /\ NoClaim # Other
           /\ Claim # {} /\ MaxLegs \in Nat /\ 1 < MaxLegs /\ Handler \cap Leg = {}
           /\ Leg \subseteq Thread /\ Handler \subseteq Thread
BY DEF ConstantsOK, Leg, Thread

LEMMA PcNames ==
    /\ "idle" \in Pcs /\ "over" \in Pcs /\ "lock" \in Pcs /\ "check" \in Pcs /\ "acquire" \in Pcs
    /\ "prepare" \in Pcs /\ "insert" \in Pcs /\ "giveback" \in Pcs /\ "register" \in Pcs /\ "open" \in Pcs
    /\ "launch" \in Pcs /\ "launched" \in Pcs /\ "undo" \in Pcs /\ "undone" \in Pcs /\ "kill" \in Pcs
    /\ "t8" \in Pcs /\ "deregister" \in Pcs /\ "release" \in Pcs /\ "turn" \in Pcs /\ "cleanup" \in Pcs
BY DEF Pcs, Before, Starting, Ending, Working

\* A thread that does nothing, and one whose request is over.
LEMMA IdleIs ==
    ASSUME ConstantsOK
    PROVE  /\ IdleThread \in Locals /\ IdleThread.pc = "idle" /\ IdleThread.claim = NoClaim
           /\ ~IdleThread.resumes /\ ~IdleThread.was /\ ~IdleThread.fatal
           /\ \A t \in Thread : /\ Over(t) \in Locals /\ Over(t).claim = NoClaim /\ ~Over(t).resumes
                                /\ Over(t).pc = IF t \in Handler THEN "over" ELSE "idle"
<1> USE Facts, PcNames
<1>1. IdleThread \in Locals /\ IdleThread.pc = "idle" /\ IdleThread.claim = NoClaim
  BY DEF IdleThread, Locals
<1>2. ~IdleThread.resumes /\ ~IdleThread.was /\ ~IdleThread.fatal
  BY DEF IdleThread
<1>3. [IdleThread EXCEPT !.pc = "over"] \in Locals
  BY <1>1 DEF Locals
<1>4. /\ [IdleThread EXCEPT !.pc = "over"].pc = "over" /\ [IdleThread EXCEPT !.pc = "over"].claim = NoClaim
      /\ ~[IdleThread EXCEPT !.pc = "over"].resumes
  BY DEF IdleThread
<1>5. ASSUME NEW t \in Thread
      PROVE  /\ Over(t) \in Locals /\ Over(t).claim = NoClaim /\ ~Over(t).resumes
             /\ Over(t).pc = IF t \in Handler THEN "over" ELSE "idle"
  <2>1. CASE t \in Handler
    BY <1>3, <1>4, <2>1 DEF Over
  <2>2. CASE t \notin Handler
    BY <1>1, <1>2, <2>2 DEF Over
  <2> QED BY <2>1, <2>2
<1> QED BY <1>1, <1>2, <1>5

\* Thread t comes to p, the others stay.
Moved(t, p) ==
    /\ loc' \in [Thread -> Locals] /\ loc'[t].pc = p
    /\ \A u \in Thread : u # t => loc'[u] = loc[u]

\* It goes on with its leg and its claim ...
Same(t) ==
    /\ loc'[t].leg = loc[t].leg /\ loc'[t].claim = loc[t].claim
    /\ loc'[t].resumes = loc[t].resumes

\* ... or with nothing.
Emptied(t) == loc'[t].claim = NoClaim /\ ~loc'[t].resumes

LEMMA MovedIs ==
    ASSUME ResumeKinds, NEW t \in Thread, NEW k \in Locals, loc' = [loc EXCEPT ![t] = k]
    PROVE  Moved(t, k.pc) /\ loc'[t] = k
BY DEF ResumeKinds, Moved

LEMMA FieldsSet ==
    ASSUME NEW k \in Locals, NEW p \in Pcs, NEW a \in BOOLEAN, NEW b \in BOOLEAN
    PROVE  /\ [k EXCEPT !.pc = p] \in Locals
           /\ [k EXCEPT !.pc = p, !.proven = a] \in Locals
           /\ [k EXCEPT !.pc = p, !.proven = a, !.was = b] \in Locals
           /\ [k EXCEPT !.pc = p, !.fatal = TRUE, !.proven = a] \in Locals
BY DEF Locals

LEMMA GoIs ==
    ASSUME ResumeKinds, NEW t \in Thread, NEW p \in Pcs, Go(t, p)
    PROVE  Moved(t, p) /\ Same(t) /\ loc'[t].was = loc[t].was /\ loc'[t].fatal = loc[t].fatal
<1>1. PICK k : k = [loc[t] EXCEPT !.pc = p]
  OBVIOUS
<1>2. loc[t] \in Locals
  BY DEF ResumeKinds
<1>3. k \in Locals /\ loc' = [loc EXCEPT ![t] = k]
  BY <1>1, <1>2, FieldsSet DEF Go, ResumeKinds
<1>4. /\ k.pc = p /\ k.leg = loc[t].leg /\ k.claim = loc[t].claim
      /\ k.resumes = loc[t].resumes /\ k.was = loc[t].was /\ k.fatal = loc[t].fatal
  BY <1>1, <1>2 DEF Locals
<1> QED BY <1>3, <1>4, MovedIs DEF Same

LEMMA ProvenIs ==
    ASSUME ResumeKinds, NEW t \in Thread, NEW p \in Pcs, NEW a \in BOOLEAN,
           loc' = [loc EXCEPT ![t].pc = p, ![t].proven = a]
    PROVE  Moved(t, p) /\ Same(t) /\ loc'[t].was = loc[t].was /\ loc'[t].fatal = loc[t].fatal
<1>1. PICK k : k = [loc[t] EXCEPT !.pc = p, !.proven = a]
  OBVIOUS
<1>2. loc[t] \in Locals
  BY DEF ResumeKinds
<1>3. k \in Locals /\ loc' = [loc EXCEPT ![t] = k]
  BY <1>1, <1>2, FieldsSet DEF ResumeKinds
<1>4. /\ k.pc = p /\ k.leg = loc[t].leg /\ k.claim = loc[t].claim
      /\ k.resumes = loc[t].resumes /\ k.was = loc[t].was /\ k.fatal = loc[t].fatal
  BY <1>1, <1>2 DEF Locals
<1> QED BY <1>3, <1>4, MovedIs DEF Same

LEMMA LeaveIs ==
    ASSUME ConstantsOK, ResumeKinds, NEW h \in Handler, Leave(h)
    PROVE  Moved(h, "over") /\ Emptied(h) /\ lock' = IF lock = h THEN NoThread ELSE lock
<1>1. h \in Thread /\ Over(h) \in Locals /\ loc' = [loc EXCEPT ![h] = Over(h)]
  BY Facts, IdleIs DEF Leave
<1>2. Over(h).pc = "over" /\ Over(h).claim = NoClaim /\ ~Over(h).resumes
  BY <1>1, IdleIs
<1> QED BY <1>1, <1>2, MovedIs DEF Emptied, Leave

\* The lease is at most refused, or free.
Yields == refused' \in BOOLEAN /\ (refused => refused') /\ holder' \in {holder, NoClaim}

\* What a release of claim c leaves.
LEMMA ReleasesIs ==
    ASSUME ResumeKinds, NEW c \in Claim \cup {NoClaim}, NEW proven, NEW r \in Releases(c, proven), GivesBack(r)
    PROVE  /\ Yields /\ (c \in Claim /\ c # NoClaim /\ holder' = c => refused')
           /\ (~r.ok => refused')
           /\ (r.ok /\ c # NoClaim => holder' = NoClaim)
<1> DEFINE result(h, s, ok) == [holder |-> h, refused |-> s, ok |-> ok]
<1>1. CASE c = NoClaim \/ holder = NoClaim
  <2>1. r = result(holder, refused, TRUE)
    BY <1>1 DEF Releases
  <2>2. r.holder = holder /\ r.refused = refused /\ r.ok
    BY <2>1
  <2> QED BY <1>1, <2>2 DEF GivesBack, Yields, ResumeKinds
<1>2. CASE ~(c = NoClaim \/ holder = NoClaim)
  <2>1. r = result(holder, TRUE, FALSE) \/ (r = result(NoClaim, FALSE, TRUE) /\ holder = c /\ ~refused)
    BY <1>2 DEF Releases
  <2>2. CASE r = result(holder, TRUE, FALSE)
    <3>1. r.holder = holder /\ r.refused = TRUE /\ ~r.ok
      BY <2>2
    <3> QED BY <1>2, <3>1 DEF GivesBack, Yields, ResumeKinds
  <2>3. CASE r = result(NoClaim, FALSE, TRUE) /\ holder = c /\ ~refused
    <3>1. r.holder = NoClaim /\ r.refused = FALSE /\ r.ok
      BY <2>3
    <3> QED BY <1>2, <2>3, <3>1 DEF GivesBack, Yields, ResumeKinds
  <2> QED BY <2>1, <2>2, <2>3
<1> QED BY <1>1, <1>2

\* A program that was to be ended is dead, or the lease is refused.
LEMMA KillIs ==
    ASSUME ResumeKinds, NEW l \in Leg, NEW proven \in BOOLEAN, Kill(l, proven)
    PROVE  /\ Yields /\ holder' = holder /\ (adapter'[l] = "alive" => refused')
           /\ adapter' \in [Leg -> {"none", "alive", "dead", "stray"}]
           /\ \A m \in Leg : adapter'[m] \in {adapter[m], "dead"}
           /\ (~proven => refused')
<1>1. refused' = (refused \/ ~proven) /\ holder' = holder
  BY DEF Kill
<1>2. refused' \in BOOLEAN /\ (refused => refused') /\ (~proven => refused')
  BY <1>1
<1>3. CASE proven
  BY <1>1, <1>2, <1>3 DEF Kill, ResumeKinds, Yields
<1>4. CASE ~proven
  BY <1>1, <1>2, <1>4 DEF Kill, ResumeKinds, Yields
<1> QED BY <1>3, <1>4

(***************************************************************************)
(* Where the steps lead.                                                   *)
(***************************************************************************)
LEMMA RequestIs ==
    ASSUME ConstantsOK, ResumeKinds, NEW h \in Handler, NEW l \in Leg, Request(h, l)
    PROVE  /\ loc[h].pc = "idle" /\ Moved(h, "lock") /\ loc'[h].leg = l
           /\ loc'[h].claim = NoClaim /\ loc'[h].resumes /\ ~loc'[h].was
<1>1. PICK k : k = [IdleThread EXCEPT !.pc = "lock", !.leg = l, !.resumes = TRUE]
  OBVIOUS
<1>a. IdleThread \in Locals /\ IdleThread.claim = NoClaim /\ "lock" \in Pcs /\ l \in 0 .. MaxLegs
  BY IdleIs, PcNames, Facts DEF Leg
<1>2. k \in Locals /\ k.pc = "lock" /\ k.leg = l /\ k.claim = NoClaim
  BY <1>1, <1>a DEF Locals
<1>3. k.resumes /\ ~k.was
  BY <1>1 DEF IdleThread
<1>4. loc' = [loc EXCEPT ![h] = k] /\ loc[h].pc = "idle" /\ h \in Thread
  BY <1>1, Facts DEF Request, Arrives, At
<1> QED BY <1>2, <1>3, <1>4, MovedIs, ZenonT(40)

LEMMA CheckIs ==
    ASSUME ConstantsOK, ResumeKinds, NEW h \in Handler, Check(h)
    PROVE  /\ loc[h].pc = "check" /\ legs < MaxLegs /\ live = {} /\ t8[legs]
           /\ Moved(h, IF writes THEN "acquire" ELSE "prepare") /\ loc'[h].leg = legs + 1
           /\ loc'[h].claim = loc[h].claim /\ loc'[h].resumes = loc[h].resumes
<1>0. h \in Thread /\ loc[h] \in Locals /\ legs \in Leg /\ legs < MaxLegs
  BY Facts DEF ResumeKinds, Check
<1>1. PICK p : p = IF writes THEN "acquire" ELSE "prepare"
  OBVIOUS
<1>2. PICK k : k = [loc[h] EXCEPT !.pc = p, !.leg = legs + 1]
  OBVIOUS
<1>3. legs + 1 \in 0 .. MaxLegs /\ p \in Pcs
  BY <1>0, <1>1, Facts, PcNames DEF Leg
<1>4. k \in Locals /\ k.pc = p /\ k.leg = legs + 1 /\ k.claim = loc[h].claim /\ k.resumes = loc[h].resumes
  BY <1>0, <1>2, <1>3 DEF Locals
<1>5. loc' = [loc EXCEPT ![h] = k]
  BY <1>0, <1>1, <1>2 DEF Check, ResumeKinds
<1>6. Moved(h, p) /\ loc'[h] = k
  BY <1>0, <1>4, <1>5, MovedIs
<1>7. loc[h].pc = "check" /\ live = {} /\ t8[legs]
  BY DEF Check, At, Resumable
<1> QED BY <1>0, <1>1, <1>4, <1>6, <1>7

\* A granted claim is nobody's.
LEMMA AcquireIs ==
    ASSUME ConstantsOK, ResumeKinds, NEW h \in Handler, Acquire(h)
    PROVE  /\ loc[h].pc = "acquire" /\ (refused => refused') /\ refused' \in BOOLEAN
           /\ \/ /\ holder' \in Claim /\ ~refused' /\ UNCHANGED lock /\ Moved(h, "prepare")
                 /\ loc'[h].claim = holder' /\ loc'[h].leg = loc[h].leg /\ loc'[h].resumes = loc[h].resumes
                 /\ \A t \in Thread : loc[t].claim # holder'
              \/ holder' = holder /\ Leave(h)
<1>0. h \in Thread /\ loc[h] \in Locals /\ loc[h].pc = "acquire" /\ refused \in BOOLEAN
  BY Facts DEF ResumeKinds, Acquire, At
<1>1. CASE refused' \in {refused, TRUE} /\ UNCHANGED holder /\ Leave(h)
  <2>1. refused' = refused \/ refused' = TRUE
    BY <1>1
  <2>2. (refused => refused') /\ refused' \in BOOLEAN
    BY <1>0, <2>1
  <2> QED BY <1>0, <1>1, <2>2
<1>2. CASE /\ Fresh # {} /\ holder = NoClaim /\ ~refused
           /\ holder' = CHOOSE c \in Fresh : TRUE
           /\ loc' = [loc EXCEPT ![h].claim = holder', ![h].pc = "prepare"]
           /\ UNCHANGED <<lock, refused>>
  <2>1. PICK c : c = holder'
    OBVIOUS
  <2>2. c \in Fresh
    BY <1>2, <2>1
  <2>3. c \in Claim /\ \A t \in Thread : loc[t].claim # c
    BY <2>2 DEF Fresh
  <2>4. PICK k : k = [loc[h] EXCEPT !.claim = c, !.pc = "prepare"]
    OBVIOUS
  <2>5. k \in Locals /\ k.pc = "prepare" /\ k.leg = loc[h].leg /\ k.claim = c /\ k.resumes = loc[h].resumes
    BY <1>0, <2>3, <2>4, PcNames DEF Locals
  <2>6. loc' = [loc EXCEPT ![h] = k]
    BY <1>0, <1>2, <2>1, <2>4 DEF ResumeKinds
  <2>7. Moved(h, "prepare") /\ loc'[h] = k
    BY <1>0, <2>5, <2>6, MovedIs
  <2>8. holder' \in Claim /\ ~refused' /\ UNCHANGED lock /\ refused' \in BOOLEAN /\ ~refused
    BY <1>0, <1>2, <2>1, <2>3
  <2> QED BY <1>0, <2>1, <2>3, <2>5, <2>7, <2>8
<1> QED BY <1>1, <1>2 DEF Acquire

\* The worker of the new leg comes to its turn.
LEMMA LaunchIs ==
    ASSUME ConstantsOK, ResumeKinds, NEW h \in Handler, Launch(h), MyLeg(h) \in Leg
    PROVE  /\ loc[h].pc = "launch" /\ loc' \in [Thread -> Locals]
           /\ loc'[h].pc = "launched" /\ Same(h)
           /\ loc'[MyLeg(h)].pc = "turn" /\ loc'[MyLeg(h)].leg = MyLeg(h)
           /\ Emptied(MyLeg(h)) /\ ~loc'[MyLeg(h)].fatal
           /\ \A t \in Thread : t # h /\ t # MyLeg(h) => loc'[t] = loc[t]
<1>0. h \in Thread /\ loc[h] \in Locals /\ loc[h].pc = "launch" /\ MyLeg(h) \in Thread /\ MyLeg(h) # h
  BY Facts DEF ResumeKinds, Launch, At
<1>1. PICK w : w = [IdleThread EXCEPT !.pc = "turn", !.leg = MyLeg(h)]
  OBVIOUS
<1>2. PICK k : k = [loc[h] EXCEPT !.pc = "launched"]
  OBVIOUS
<1>3. /\ w \in Locals /\ w.pc = "turn" /\ w.leg = MyLeg(h) /\ w.claim = NoClaim
      /\ ~w.resumes /\ ~w.fatal
  <2>1. IdleThread \in Locals /\ IdleThread.claim = NoClaim /\ "turn" \in Pcs /\ MyLeg(h) \in 0 .. MaxLegs
    BY IdleIs, PcNames, Facts DEF Leg
  <2>2. w \in Locals /\ w.pc = "turn" /\ w.leg = MyLeg(h) /\ w.claim = NoClaim
    BY <1>1, <2>1 DEF Locals
  <2> QED BY <1>1, <2>2 DEF IdleThread
<1>5. /\ k \in Locals /\ k.pc = "launched" /\ k.leg = loc[h].leg /\ k.claim = loc[h].claim
      /\ k.resumes = loc[h].resumes
  BY <1>0, <1>2, PcNames DEF Locals
<1>6. loc' = [loc EXCEPT ![h] = k, ![MyLeg(h)] = w]
  BY <1>0, <1>1, <1>2 DEF Launch, ResumeKinds
<1>7. /\ loc' \in [Thread -> Locals] /\ loc'[h] = k /\ loc'[MyLeg(h)] = w
      /\ \A t \in Thread : t # h /\ t # MyLeg(h) => loc'[t] = loc[t]
  BY <1>0, <1>3, <1>5, <1>6 DEF ResumeKinds
<1> QED BY <1>0, <1>3, <1>5, <1>7 DEF Same, Emptied

LEMMA UndoIs ==
    ASSUME ConstantsOK, ResumeKinds, NEW h \in Handler, Undo(h), MyLeg(h) \in Leg
    PROVE  /\ loc[h].pc = "undo" /\ Moved(h, "t8") /\ Same(h) /\ (loc'[h].was <=> MyLeg(h) \in live)
           /\ Yields /\ holder' = holder /\ (adapter'[MyLeg(h)] = "alive" => refused')
           /\ adapter' \in [Leg -> {"none", "alive", "dead", "stray"}]
           /\ \A m \in Leg : adapter'[m] \in {adapter[m], "dead"}
<1>0. h \in Thread /\ loc[h] \in Locals /\ loc[h].pc = "undo"
  BY Facts DEF ResumeKinds, Undo, At
<1>1. PICK proven \in BOOLEAN :
         /\ IF adapter[MyLeg(h)] = "none"
            THEN proven /\ UNCHANGED <<adapter, lease>>
            ELSE Kill(MyLeg(h), proven)
         /\ loc' = [loc EXCEPT ![h].pc = "t8", ![h].proven = proven, ![h].was = MyLeg(h) \in live]
  BY DEF Undo
<1>a. (MyLeg(h) \in live) \in BOOLEAN
  OBVIOUS
<1>2. PICK b \in BOOLEAN : b = (MyLeg(h) \in live)
  BY <1>a, Zenon
<1>3. PICK k : k = [loc[h] EXCEPT !.pc = "t8", !.proven = proven, !.was = b]
  OBVIOUS
<1>4. loc' = [loc EXCEPT ![h] = k]
  <2>1. loc' = [loc EXCEPT ![h].pc = "t8", ![h].proven = proven, ![h].was = b]
    BY <1>1, <1>2, Zenon
  <2> QED BY <1>0, <1>3, <2>1 DEF ResumeKinds
<1>5. k \in Locals
  BY <1>0, <1>3, FieldsSet, PcNames
<1>6. k.pc = "t8" /\ k.leg = loc[h].leg /\ k.claim = loc[h].claim /\ k.resumes = loc[h].resumes /\ k.was = b
  BY <1>0, <1>3 DEF Locals
<1>7. Moved(h, "t8") /\ loc'[h] = k
  BY <1>0, <1>4, <1>5, <1>6, MovedIs
<1>8. loc'[h].was <=> MyLeg(h) \in live
  BY <1>2, <1>6, <1>7, Zenon
<1>9. /\ Yields /\ holder' = holder /\ (adapter'[MyLeg(h)] = "alive" => refused')
      /\ adapter' \in [Leg -> {"none", "alive", "dead", "stray"}]
      /\ \A m \in Leg : adapter'[m] \in {adapter[m], "dead"}
  <2>1. CASE adapter[MyLeg(h)] = "none"
    BY <1>1, <2>1 DEF Yields, lease, ResumeKinds
  <2>2. CASE adapter[MyLeg(h)] # "none"
    BY <1>1, <2>2, KillIs
  <2> QED BY <2>1, <2>2
<1> QED BY <1>0, <1>6, <1>7, <1>8, <1>9 DEF Same

LEMMA EndIs ==
    ASSUME ConstantsOK, ResumeKinds, NEW h \in Handler, NEW l \in Leg, EndLeg(h, l)
    PROVE  /\ loc[h].pc = "idle" /\ l \in live /\ Moved(h, "kill") /\ loc'[h].leg = l /\ Emptied(h)
<1>1. PICK k : k = [IdleThread EXCEPT !.pc = "kill", !.leg = l]
  OBVIOUS
<1>2. k \in Locals /\ k.pc = "kill" /\ k.leg = l /\ k.claim = NoClaim /\ ~k.resumes
  <2>1. IdleThread \in Locals /\ IdleThread.claim = NoClaim /\ "kill" \in Pcs /\ l \in 0 .. MaxLegs
    BY IdleIs, PcNames, Facts DEF Leg
  <2>2. k \in Locals /\ k.pc = "kill" /\ k.leg = l /\ k.claim = NoClaim
    BY <1>1, <2>1 DEF Locals
  <2> QED BY <1>1, <2>2 DEF IdleThread
<1>4. loc' = [loc EXCEPT ![h] = k] /\ loc[h].pc = "idle" /\ l \in live /\ h \in Thread
  BY <1>1, Facts DEF EndLeg, Arrives, At
<1> QED BY <1>2, <1>4, MovedIs DEF Emptied

LEMMA TurnEndsIs ==
    ASSUME ConstantsOK, ResumeKinds, NEW l \in Leg, TurnEnds(l)
    PROVE  /\ loc[l].pc = "turn" /\ Moved(l, "cleanup") /\ Same(l)
           /\ Yields /\ holder' = holder
           /\ adapter' \in [Leg -> {"none", "alive", "dead", "stray"}]
           /\ \A m \in Leg : adapter'[m] \in {adapter[m], "dead"}
           /\ (loc'[l].fatal /\ ~loc[l].fatal => (adapter'[l] = "alive" => refused'))
<1>0. l \in Thread /\ loc[l] \in Locals /\ loc[l].pc = "turn"
  BY Facts DEF ResumeKinds, TurnEnds, At
<1>1. CASE Go(l, "cleanup") /\ UNCHANGED <<adapter, lease>>
  BY <1>0, <1>1, GoIs, PcNames DEF Yields, lease, ResumeKinds
<1>2. ASSUME NEW proven \in BOOLEAN, Kill(l, proven),
             loc' = [loc EXCEPT ![l].pc = "cleanup", ![l].fatal = TRUE, ![l].proven = proven]
      PROVE  /\ Moved(l, "cleanup") /\ Same(l) /\ loc'[l].fatal
  <2>1. PICK k : k = [loc[l] EXCEPT !.pc = "cleanup", !.fatal = TRUE, !.proven = proven]
    OBVIOUS
  <2>2. loc' = [loc EXCEPT ![l] = k] /\ k \in Locals
    BY <1>0, <1>2, <2>1, FieldsSet, PcNames DEF ResumeKinds
  <2>3. /\ k.pc = "cleanup" /\ k.leg = loc[l].leg /\ k.claim = loc[l].claim
        /\ k.resumes = loc[l].resumes /\ k.fatal
    BY <1>0, <2>1 DEF Locals
  <2> QED BY <1>0, <2>2, <2>3, MovedIs DEF Same
<1> QED BY <1>0, <1>1, <1>2, KillIs DEF TurnEnds

\* After its turn the worker is idle, or ends its leg, whose claim it tried to give back.
LEMMA CleanupIs ==
    ASSUME ConstantsOK, ResumeKinds, NEW l \in Leg, Cleanup(l)
    PROVE  /\ loc[l].pc = "cleanup" /\ Yields /\ (token[l] \in Claim /\ holder' = token[l] => refused')
           /\ token' \in {token, [token EXCEPT ![l] = NoClaim]}
           /\ \/ Moved(l, "idle") /\ Emptied(l) /\ state[l] = "running" /\ state' = [state EXCEPT ![l] = "idle"]
              \/ Moved(l, "idle") /\ Emptied(l) /\ state' = [state EXCEPT ![l] = "terminal"]
              \/ /\ Moved(l, "t8") /\ Same(l) /\ loc[l].fatal
                 /\ state' = [state EXCEPT ![l] = "terminal"]
              \/ Moved(l, "kill") /\ Same(l) /\ state' = [state EXCEPT ![l] = "terminal"]
<1>0. l \in Thread /\ loc[l] \in Locals /\ loc[l].pc = "cleanup" /\ token[l] \in Claim \cup {NoClaim}
  BY Facts DEF ResumeKinds, Cleanup, At
<1>1. PICK reconciled \in BOOLEAN :
         \E r \in Releases(token[l], loc[l].proven /\ reconciled) :
            /\ GivesBack(r)
            /\ token' = IF r.ok THEN [token EXCEPT ![l] = NoClaim] ELSE token
            /\ LET good == ~loc[l].fatal /\ r.ok /\ reconciled /\ ~refused
               IN  /\ state' = IF good /\ state[l] = "running"
                               THEN [state EXCEPT ![l] = "idle"] ELSE [state EXCEPT ![l] = "terminal"]
                   /\ loc' = [loc EXCEPT ![l] = IF good THEN IdleThread
                         ELSE [loc[l] EXCEPT !.pc = IF loc[l].fatal THEN "t8" ELSE "kill"]]
  BY DEF Cleanup
<1>r. PICK r \in Releases(token[l], loc[l].proven /\ reconciled) :
         /\ GivesBack(r)
         /\ token' = IF r.ok THEN [token EXCEPT ![l] = NoClaim] ELSE token
         /\ LET good == ~loc[l].fatal /\ r.ok /\ reconciled /\ ~refused
            IN  /\ state' = IF good /\ state[l] = "running"
                            THEN [state EXCEPT ![l] = "idle"] ELSE [state EXCEPT ![l] = "terminal"]
                /\ loc' = [loc EXCEPT ![l] = IF good THEN IdleThread
                      ELSE [loc[l] EXCEPT !.pc = IF loc[l].fatal THEN "t8" ELSE "kill"]]
  BY <1>1
<1>2. Yields /\ (token[l] \in Claim /\ token[l] # NoClaim /\ holder' = token[l] => refused')
  BY <1>0, <1>r, ReleasesIs
<1>3. token' \in {token, [token EXCEPT ![l] = NoClaim]}
  BY <1>r
<1>4. CASE ~loc[l].fatal /\ r.ok /\ reconciled /\ ~refused
  <2>0. loc' = [loc EXCEPT ![l] = IdleThread]
    BY <1>r, <1>4, Zenon
  <2>1. Moved(l, "idle") /\ loc'[l] = IdleThread
    BY <1>0, <2>0, IdleIs, MovedIs
  <2>2. \/ state[l] = "running" /\ state' = [state EXCEPT ![l] = "idle"]
        \/ state' = [state EXCEPT ![l] = "terminal"]
    BY <1>r
  <2> QED BY <1>0, <1>2, <1>3, <2>1, <2>2, IdleIs, Facts DEF Emptied
<1>5. CASE ~(~loc[l].fatal /\ r.ok /\ reconciled /\ ~refused)
  <2>1. PICK p \in {"t8", "kill"} : p = IF loc[l].fatal THEN "t8" ELSE "kill"
    OBVIOUS
  <2>2. state' = [state EXCEPT ![l] = "terminal"] /\ loc' = [loc EXCEPT ![l] = [loc[l] EXCEPT !.pc = p]]
    BY <1>r, <1>5, <2>1
  <2>3. Go(l, p)
    BY <1>0, <2>2 DEF Go, ResumeKinds
  <2>4. Moved(l, p) /\ Same(l)
    BY <1>0, <2>1, <2>3, GoIs, PcNames
  <2> QED BY <1>0, <1>2, <1>3, <2>1, <2>2, <2>4, Facts
<1> QED BY <1>4, <1>5

LEMMA DisownIs ==
    ASSUME ConstantsOK, ResumeKinds, NEW t \in Thread, Disown(t)
    PROVE  /\ owned' \in [Leg -> BOOLEAN]
           /\ IF loc[t].resumes THEN Moved(t, "undone") /\ Same(t) /\ loc'[t].was = loc[t].was
                                ELSE Moved(t, IF t \in Handler THEN "over" ELSE "idle") /\ Emptied(t)
<1>1. owned' \in [Leg -> BOOLEAN]
  BY DEF Disown, ResumeKinds
<1>2. CASE loc[t].resumes
  <2>1. Go(t, "undone")
    BY <1>2 DEF Disown, Ended, Go, ResumeKinds
  <2> QED BY <1>1, <1>2, <2>1, GoIs, PcNames
<1>3. CASE ~loc[t].resumes
  <2>1. loc' = [loc EXCEPT ![t] = Over(t)]
    BY <1>3 DEF Disown, Ended
  <2> QED BY <1>1, <1>3, <2>1, IdleIs, MovedIs DEF Emptied
<1> QED BY <1>2, <1>3

\* The steps that only go on, or leave.
LEMMA PlainIs ==
    ASSUME ConstantsOK, ResumeKinds, NEW h \in Handler
    PROVE  /\ TakeLock(h) => At(h, "lock") /\ Moved(h, "check") /\ Same(h) /\ lock = NoThread /\ lock' = h
           /\ Refuse(h) => At(h, "check") /\ Leave(h)
           /\ Prepare(h) => At(h, "prepare") /\ Moved(h, "insert") /\ Same(h)
           /\ Denied(h) => At(h, "prepare") /\ Moved(h, "giveback") /\ Same(h)
           /\ Unprepared(h) => At(h, "insert") /\ Moved(h, "giveback") /\ Same(h)
           /\ GiveBack(h) => At(h, "giveback") /\ Leave(h)
           /\ Insert(h) => At(h, "insert") /\ Moved(h, "register") /\ Same(h)
           /\ Register(h) => At(h, "register") /\ Moved(h, "open") /\ Same(h)
           /\ Open(h) => At(h, "open") /\ Moved(h, "launch") /\ Same(h)
           /\ Launched(h) => At(h, "launched") /\ \/ Moved(h, "undo") /\ Same(h) /\ UNCHANGED lock
                                                  \/ state[MyLeg(h)] # "terminal" /\ Leave(h)
           /\ StartFails(h) => In(h, {"register", "open", "launch"}) /\ Moved(h, "undo") /\ Same(h)
           /\ Undone(h) => At(h, "undone") /\ Leave(h)
<1> h \in Thread /\ "check" \in Pcs /\ "insert" \in Pcs /\ "giveback" \in Pcs /\ "register" \in Pcs
    /\ "open" \in Pcs /\ "launch" \in Pcs /\ "undo" \in Pcs
  BY Facts, PcNames
<1>1. TakeLock(h) => At(h, "lock") /\ Moved(h, "check") /\ Same(h) /\ lock = NoThread /\ lock' = h
  BY GoIs DEF TakeLock, Takes
<1>2. Refuse(h) => At(h, "check") /\ Leave(h)
  BY DEF Refuse
<1>3. Prepare(h) => At(h, "prepare") /\ Moved(h, "insert") /\ Same(h)
  BY GoIs DEF Prepare
<1>4. Denied(h) => At(h, "prepare") /\ Moved(h, "giveback") /\ Same(h)
  BY GoIs DEF Denied
<1>5. Unprepared(h) => At(h, "insert") /\ Moved(h, "giveback") /\ Same(h)
  BY ProvenIs DEF Unprepared
<1>6. GiveBack(h) => At(h, "giveback") /\ Leave(h)
  BY DEF GiveBack
<1>7. Insert(h) => At(h, "insert") /\ Moved(h, "register") /\ Same(h)
  BY GoIs DEF Insert
<1>8. Register(h) => At(h, "register") /\ Moved(h, "open") /\ Same(h)
  BY GoIs DEF Register
<1>9. Open(h) => At(h, "open") /\ Moved(h, "launch") /\ Same(h)
  BY GoIs DEF Open
<1>10. Launched(h) => At(h, "launched") /\ \/ Moved(h, "undo") /\ Same(h) /\ UNCHANGED lock
                                           \/ state[MyLeg(h)] # "terminal" /\ Leave(h)
  BY GoIs DEF Launched
<1>11. StartFails(h) => In(h, {"register", "open", "launch"}) /\ Moved(h, "undo") /\ Same(h)
  BY GoIs DEF StartFails, In
<1>12. Undone(h) => At(h, "undone") /\ Leave(h)
  BY DEF Undone
<1> QED BY <1>1, <1>2, <1>3, <1>4, <1>5, <1>6, <1>7, <1>8, <1>9, <1>10, <1>11, <1>12

\* Those of whoever ends a leg.
LEMMA EndingIs ==
    ASSUME ConstantsOK, ResumeKinds, NEW t \in Thread
    PROVE  /\ EndAdapter(t) => At(t, "kill") /\ Moved(t, "t8") /\ Same(t)
           /\ Finalize(t) => At(t, "t8") /\ Moved(t, "deregister") /\ Same(t) /\ loc'[t].was = loc[t].was
           /\ Deregister(t) => At(t, "deregister") /\ \/ Moved(t, "release") /\ Same(t) /\ loc'[t].was = loc[t].was
                                                      \/ Disown(t)
           /\ ReleaseToken(t) => At(t, "release") /\ Disown(t)
<1> "t8" \in Pcs /\ "deregister" \in Pcs /\ "release" \in Pcs
  BY PcNames
<1>1. EndAdapter(t) => At(t, "kill") /\ Moved(t, "t8") /\ Same(t)
  BY ProvenIs DEF EndAdapter
<1>2. Finalize(t) => At(t, "t8") /\ Moved(t, "deregister") /\ Same(t) /\ loc'[t].was = loc[t].was
  BY GoIs DEF Finalize
<1>3. Deregister(t) => At(t, "deregister") /\ \/ Moved(t, "release") /\ Same(t) /\ loc'[t].was = loc[t].was
                                              \/ Disown(t)
  BY GoIs DEF Deregister
<1>4. ReleaseToken(t) => At(t, "release") /\ Disown(t)
  BY DEF ReleaseToken
<1> QED BY <1>1, <1>2, <1>3, <1>4

----------------------------------------------------------------------------
(***************************************************************************)
(* Every step keeps every type.                                            *)
(***************************************************************************)
LEMMA KindsKept ==
    ASSUME ConstantsOK, ResumeKinds, ThreadInv, LegInv, [Next]_vars
    PROVE  ResumeKinds'
<1> USE Facts
<1>0. /\ writes \in BOOLEAN /\ refused \in BOOLEAN /\ legs \in Leg /\ live \in SUBSET Leg
      /\ t8 \in [Leg -> BOOLEAN] /\ owned \in [Leg -> BOOLEAN]
      /\ state \in [Leg -> {"none", "open", "running", "idle", "terminal"}]
      /\ token \in [Leg -> Claim \cup {NoClaim}]
      /\ adapter \in [Leg -> {"none", "alive", "dead", "stray"}]
      /\ envelope \in {"open", "ended"} /\ lock \in Handler \cup {NoThread}
      /\ holder \in Claim \cup {NoClaim, Other} /\ loc \in [Thread -> Locals]
  BY DEF ResumeKinds
<1>1. ASSUME NEW h \in Handler, HandlerStep(h) PROVE ResumeKinds'
  <2>0. h \in Thread /\ loc[h] \in Locals /\ MyLeg(h) \in 0 .. MaxLegs
    BY <1>0 DEF Locals, MyLeg
  <2>s. In(h, {"register", "open", "launch", "launched", "undo"}) => MyLeg(h) \in Leg
    BY <1>0 DEF ThreadInv, OfHandler, LegInv, OfResumption, Starting, In
  <2>l. Leave(h) => loc' \in [Thread -> Locals] /\ lock' \in Handler \cup {NoThread}
    BY <1>0, LeaveIs DEF Moved
  <2>1. ASSUME NEW l \in Leg, Request(h, l) PROVE ResumeKinds'
    BY <1>0, <2>1, RequestIs DEF Moved, Request, records, lease, ResumeKinds
  <2>2. ASSUME NEW l \in Leg, EndLeg(h, l) PROVE ResumeKinds'
    BY <1>0, <2>2, EndIs DEF Moved, EndLeg, records, lease, ResumeKinds
  <2>3. CASE TakeLock(h)
    BY <1>0, <2>3, PlainIs DEF Moved, TakeLock, Takes, records, lease, ResumeKinds
  <2>4. CASE Refuse(h)
    BY <1>0, <2>4, <2>l, PlainIs DEF Refuse, records, lease, ResumeKinds
  <2>5. CASE Check(h)
    BY <1>0, <2>5, CheckIs DEF Moved, Check, records, lease, ResumeKinds
  <2>6. CASE Acquire(h)
    <3>1. refused' \in BOOLEAN /\ holder' \in Claim \cup {NoClaim, Other}
      BY <1>0, <2>6, AcquireIs
    <3>2. loc' \in [Thread -> Locals] /\ lock' \in Handler \cup {NoThread}
      BY <1>0, <2>6, <2>l, AcquireIs DEF Moved
    <3> QED BY <1>0, <2>6, <3>1, <3>2 DEF Acquire, records, ResumeKinds
  <2>7. CASE Prepare(h)
    <3>1. adapter' \in [Leg -> {"none", "alive", "dead", "stray"}]
      BY <1>0, <2>7 DEF Prepare
    <3> QED BY <1>0, <2>7, <3>1, PlainIs DEF Moved, Prepare, records, lease, ResumeKinds
  <2>8. CASE Denied(h)
    <3>1. refused' \in BOOLEAN
      BY <1>0, <2>8 DEF Denied
    <3> QED BY <1>0, <2>8, <3>1, PlainIs DEF Moved, Denied, records, ResumeKinds
  <2>9. CASE Unprepared(h)
    <3>1. PICK proven \in BOOLEAN :
             IF adapter[MyLeg(h)] = "alive" THEN Kill(MyLeg(h), proven) ELSE proven /\ UNCHANGED <<adapter, lease>>
      BY <2>9 DEF Unprepared
    <3>2. MyLeg(h) \in Leg
      BY <1>0, <2>0, <2>9, PlainIs DEF LegInv, OfResumption, Before, In, At, Leg
    <3>3. /\ adapter' \in [Leg -> {"none", "alive", "dead", "stray"}]
          /\ refused' \in BOOLEAN /\ holder' = holder
      <4>1. CASE adapter[MyLeg(h)] = "alive"
        BY <3>1, <3>2, <4>1, KillIs DEF Yields
      <4>2. CASE adapter[MyLeg(h)] # "alive"
        BY <1>0, <3>1, <4>2 DEF lease
      <4> QED BY <4>1, <4>2
    <3> QED BY <1>0, <2>9, <3>3, PlainIs DEF Moved, Unprepared, records, ResumeKinds
  <2>10. CASE GiveBack(h)
    <3>1. PICK r \in Releases(loc[h].claim, loc[h].proven) : GivesBack(r)
      BY <2>10 DEF GiveBack
    <3>2. refused' \in BOOLEAN /\ holder' \in {holder, NoClaim}
      <4>1. loc[h].claim \in Claim \cup {NoClaim}
        BY <2>0 DEF Locals
      <4> QED BY <3>1, <4>1, ReleasesIs DEF Yields
    <3> QED BY <1>0, <2>10, <2>l, <3>2 DEF GiveBack, records, ResumeKinds
  <2>11. CASE Insert(h)
    <3>1. legs' \in Leg
      BY <1>0, <2>11, PlainIs DEF Insert, LegInv, OfResumption, Before, In, At, Leg
    <3> QED BY <1>0, <2>11, <3>1, PlainIs DEF Moved, Insert, lease, ResumeKinds
  <2>12. CASE Register(h)
    <3>1. /\ owned' \in [Leg -> BOOLEAN] /\ state' \in [Leg -> {"none", "open", "running", "idle", "terminal"}]
      BY <1>0, <2>12 DEF Register
    <3>2. token' \in [Leg -> Claim \cup {NoClaim}]
      BY <1>0, <2>0, <2>12 DEF Register, Locals
    <3>3. live' \in SUBSET Leg
      <4>1. MyLeg(h) \in Leg
        BY <2>s, <2>12 DEF Register, In, At
      <4> QED BY <1>0, <2>12, <4>1 DEF Register
    <3> QED BY <1>0, <2>12, <3>1, <3>2, <3>3, PlainIs DEF Moved, Register, lease, ResumeKinds
  <2>13. CASE Open(h)
    <3>1. adapter' \in [Leg -> {"none", "alive", "dead", "stray"}]
      BY <1>0, <2>13 DEF Open
    <3> QED BY <1>0, <2>13, <3>1, PlainIs DEF Moved, Open, lease, ResumeKinds
  <2>14. CASE Launch(h)
    <3>1. MyLeg(h) \in Leg
      BY <2>s, <2>14 DEF Launch, In, At
    <3>2. state' \in [Leg -> {"none", "open", "running", "idle", "terminal"}]
      BY <1>0, <2>14 DEF Launch
    <3> QED BY <1>0, <2>14, <3>1, <3>2, LaunchIs DEF Launch, records, lease, ResumeKinds
  <2>15. CASE Launched(h)
    BY <1>0, <2>15, <2>l, PlainIs DEF Moved, Launched, records, lease, ResumeKinds
  <2>16. CASE StartFails(h)
    <3>1. refused' \in BOOLEAN
      BY <1>0, <2>16 DEF StartFails
    <3> QED BY <1>0, <2>16, <3>1, PlainIs DEF Moved, StartFails, records, ResumeKinds
  <2>17. CASE Undo(h)
    <3>1. MyLeg(h) \in Leg
      BY <2>s, <2>17 DEF Undo, In, At
    <3>2. /\ loc' \in [Thread -> Locals] /\ refused' \in BOOLEAN /\ holder' = holder
          /\ adapter' \in [Leg -> {"none", "alive", "dead", "stray"}]
      BY <2>17, <3>1, UndoIs DEF Moved, Yields
    <3> QED BY <1>0, <2>17, <3>2 DEF Undo, records, ResumeKinds
  <2>18. CASE Undone(h)
    <3>1. refused' \in BOOLEAN /\ holder' \in {holder, NoClaim}
      <4>1. loc[h].claim \in Claim \cup {NoClaim}
        BY <2>0, SMTT(20) DEF Locals
      <4> QED BY <1>0, <2>18, <4>1, ReleasesIs DEF Yields, Undone, lease
    <3> QED BY <1>0, <2>18, <2>l, <3>1 DEF Undone, records, ResumeKinds
  <2> QED BY <1>1, <2>1, <2>2, <2>3, <2>4, <2>5, <2>6, <2>7, <2>8, <2>9, <2>10, <2>11, <2>12, <2>13, <2>14,
             <2>15, <2>16, <2>17, <2>18 DEF HandlerStep
<1>2. ASSUME NEW l \in Leg, TurnEnds(l) PROVE ResumeKinds'
  BY <1>0, <1>2, TurnEndsIs DEF Moved, TurnEnds, records, ResumeKinds, Yields
<1>3. ASSUME NEW l \in Leg, Cleanup(l) PROVE ResumeKinds'
  <2>1. token' \in [Leg -> Claim \cup {NoClaim}]
    BY <1>0, <1>3, CleanupIs
  <2>2. state' \in [Leg -> {"none", "open", "running", "idle", "terminal"}] /\ loc' \in [Thread -> Locals]
    BY <1>0, <1>3, CleanupIs DEF Moved
  <2>3. refused' \in BOOLEAN /\ holder' \in Claim \cup {NoClaim, Other}
    BY <1>0, <1>3, CleanupIs DEF Yields
  <2> QED BY <1>0, <1>3, <2>1, <2>2, <2>3 DEF Cleanup, records, ResumeKinds
<1>4. ASSUME NEW t \in Thread, Finalization(t) PROVE ResumeKinds'
  <2>0. loc[t] \in Locals /\ (In(t, Ending) => MyLeg(t) \in Leg)
    BY <1>0 DEF LegInv, Recorded, In, Leg
  <2>1. CASE EndAdapter(t)
    <3>1. MyLeg(t) \in Leg
      BY <2>0, <2>1 DEF EndAdapter, In, At, Ending
    <3>2. /\ refused' \in BOOLEAN /\ holder' = holder
          /\ adapter' \in [Leg -> {"none", "alive", "dead", "stray"}]
      BY <2>1, <3>1, KillIs DEF EndAdapter, Yields
    <3> QED BY <1>0, <2>1, <3>2, EndingIs DEF Moved, EndAdapter, records, ResumeKinds
  <2>2. CASE Finalize(t)
    <3>1. /\ state' \in [Leg -> {"none", "open", "running", "idle", "terminal"}]
          /\ t8' \in [Leg -> BOOLEAN]
      BY <1>0, <2>2 DEF Finalize
    <3>2. refused' \in BOOLEAN
      BY <2>2 DEF Finalize
    <3> QED BY <1>0, <2>2, <3>1, <3>2, EndingIs DEF Moved, Finalize, ResumeKinds
  <2>3. CASE Deregister(t)
    <3>1. owned' \in [Leg -> BOOLEAN] /\ loc' \in [Thread -> Locals]
      <4>1. CASE Disown(t)
        BY <1>0, <4>1, DisownIs DEF Moved
      <4>2. CASE Go(t, "release") /\ UNCHANGED owned
        BY <1>0, <4>2, GoIs, PcNames DEF Moved
      <4> QED BY <2>3, <4>1, <4>2 DEF Deregister
    <3> QED BY <1>0, <2>3, <3>1 DEF Deregister, lease, ResumeKinds
  <2>4. CASE ReleaseToken(t)
    <3>1. owned' \in [Leg -> BOOLEAN] /\ loc' \in [Thread -> Locals]
      BY <1>0, <2>4, DisownIs DEF Moved, ReleaseToken
    <3>2. MyLeg(t) \in Leg /\ token[MyLeg(t)] \in Claim \cup {NoClaim}
      BY <1>0, <2>0, <2>4 DEF ReleaseToken, In, At, Ending
    <3>3. /\ refused' \in BOOLEAN /\ holder' \in {holder, NoClaim}
          /\ token' \in {token, [token EXCEPT ![MyLeg(t)] = NoClaim]}
      BY <2>4, <3>2, ReleasesIs DEF Yields, ReleaseToken
    <3>4. token' \in [Leg -> Claim \cup {NoClaim}]
      BY <1>0, <3>3
    <3> QED BY <1>0, <2>4, <3>1, <3>3, <3>4 DEF ReleaseToken, ResumeKinds
  <2> QED BY <1>4, <2>1, <2>2, <2>3, <2>4 DEF Finalization
<1>5. CASE OtherConversation
  <2>1. refused' \in BOOLEAN
    BY <1>0, <1>5 DEF OtherConversation
  <2> QED BY <1>0, <1>5, <2>1 DEF OtherConversation, records, ResumeKinds
<1>6. CASE CrashAndBoot
  <2>1. loc' \in [Thread -> Locals]
    BY <1>0, <1>6, IdleIs DEF CrashAndBoot
  <2>2. /\ t8' \in [Leg -> BOOLEAN] /\ owned' \in [Leg -> BOOLEAN] /\ token' \in [Leg -> Claim \cup {NoClaim}]
        /\ adapter' \in [Leg -> {"none", "alive", "dead", "stray"}]
    <3>1. t8' = [l \in Leg |-> t8[l] \/ owned[l]] /\ owned' = [l \in Leg |-> FALSE]
      BY <1>6 DEF CrashAndBoot
    <3>2. t8' \in [Leg -> BOOLEAN] /\ owned' \in [Leg -> BOOLEAN]
      BY <3>1
    <3>3. token' \in [Leg -> Claim \cup {NoClaim}]
      BY <1>6 DEF CrashAndBoot
    <3>4. adapter' \in [Leg -> {"none", "alive", "dead", "stray"}]
      BY <1>0, <1>6 DEF CrashAndBoot
    <3> QED BY <3>2, <3>3, <3>4
  <2>3. refused' \in BOOLEAN
    BY <1>0, <1>6 DEF CrashAndBoot
  <2> QED BY <1>0, <1>6, <2>1, <2>2, <2>3 DEF CrashAndBoot, ResumeKinds
<1>7. CASE UNCHANGED vars
  BY <1>0, <1>7 DEF vars, records, lease, ResumeKinds
<1> QED BY <1>1, <1>2, <1>3, <1>4, <1>5, <1>6, <1>7 DEF Next

----------------------------------------------------------------------------
(***************************************************************************)
(* The resume lock and the threads: what one thread's step asks of it.     *)
(***************************************************************************)
LEMMA ThreadMoves ==
    ASSUME ConstantsOK, ResumeKinds, ThreadInv, NEW t \in Thread, NEW p, Moved(t, p),
           legs' \in Leg, legs <= legs', lock' = lock \/ lock \in {t, NoThread},
           t \in Handler => OfHandler(t)', t \in Leg => OfWorker(t)', Claimless(t)'
    PROVE  ThreadInv'
<1> USE Facts
<1>1. ASSUME NEW h \in Handler PROVE OfHandler(h)'
  <2>1. CASE h = t
    BY <2>1
  <2>2. CASE h # t
    <3>1. loc'[h] = loc[h] /\ OfHandler(h)
      BY <2>2 DEF ThreadInv, Moved
    <3>2. lock = h => lock' = h
      BY <2>2
    <3> QED BY <3>1, <3>2 DEF OfHandler, In, Resumes
  <2> QED BY <2>1, <2>2
<1>2. ASSUME NEW l \in Leg PROVE OfWorker(l)'
  <2>1. CASE l = t
    BY <2>1
  <2>2. CASE l # t
    <3>1. loc'[l] = loc[l] /\ OfWorker(l)
      BY <2>2 DEF ThreadInv, Moved
    <3>2. l <= legs => l <= legs'
      BY DEF ResumeKinds, Leg
    <3> QED BY <3>1, <3>2 DEF OfWorker, In, Resumes, At, MyLeg
  <2> QED BY <2>1, <2>2
<1>3. ASSUME NEW u \in Thread PROVE Claimless(u)'
  <2>1. CASE u = t
    BY <2>1
  <2>2. CASE u # t
    BY <2>2 DEF ThreadInv, Claimless, Resumes, Moved
  <2> QED BY <2>1, <2>2
<1> QED BY <1>1, <1>2, <1>3 DEF ThreadInv

\* A thread that leaves asks for nothing, one that goes on for little.
LEMMA LeavesThreads ==
    ASSUME ConstantsOK, ResumeKinds, ThreadInv, NEW h \in Handler, Leave(h), legs' = legs
    PROVE  ThreadInv'
<1>1. h \in Thread /\ h \notin Leg /\ legs \in Leg /\ legs <= legs
  BY Facts DEF ResumeKinds, Leg
<1>2. Moved(h, "over") /\ Emptied(h) /\ (lock' = lock \/ lock \in {h, NoThread})
  BY LeaveIs
<1>3. OfHandler(h)' /\ Claimless(h)'
  BY <1>2 DEF OfHandler, Claimless, In, Resumes, Moved, Emptied, Before, Starting, Working
<1> QED BY <1>1, <1>2, <1>3, ThreadMoves

LEMMA ResumesOn ==
    ASSUME ConstantsOK, ResumeKinds, ThreadInv, NEW h \in Handler, Resumes(h), ~At(h, "lock"),
           NEW p \in {"insert", "giveback", "register", "open", "launch", "launched", "undo", "t8", "undone"},
           Moved(h, p), Same(h), lock' = lock, legs' \in Leg, legs <= legs'
    PROVE  ThreadInv'
<1>1. h \in Thread /\ h \notin Leg /\ OfHandler(h) /\ loc'[h].pc = p
  BY Facts DEF ThreadInv, Moved
<1>2. OfHandler(h)'
  BY <1>1 DEF OfHandler, In, At, Resumes, Same, Before, Starting, Working
<1>3. Claimless(h)'
  BY DEF Claimless, Resumes, Same
<1> QED BY <1>1, <1>2, <1>3, ThreadMoves

LEMMA EndsOn ==
    ASSUME ConstantsOK, ResumeKinds, ThreadInv, NEW t \in Thread, In(t, Working \cup Ending),
           NEW p \in {"cleanup", "kill", "t8", "deregister", "release"},
           t \in Handler => p \in {"t8", "deregister", "release"},
           Moved(t, p), Same(t), lock' = lock, legs' = legs
    PROVE  ThreadInv'
<1> USE Facts
<1>0. legs \in Leg /\ legs <= legs
  BY DEF ResumeKinds, Leg
<1>1. ASSUME t \in Handler PROVE OfHandler(t)'
  BY <1>1 DEF ThreadInv, OfHandler, In, At, Resumes, Same, Moved, Before, Starting, Working, Ending
<1>2. ASSUME t \in Leg PROVE OfWorker(t)'
  BY <1>2 DEF ThreadInv, OfWorker, In, At, Resumes, Same, MyLeg, Moved, Working, Ending
<1>3. Claimless(t)'
  BY DEF ThreadInv, Claimless, Resumes, Same
<1> QED BY <1>0, <1>1, <1>2, <1>3, ThreadMoves

\* Whoever ends a leg, in its last step.
LEMMA DisownsThreads ==
    ASSUME ConstantsOK, ResumeKinds, ThreadInv, NEW t \in Thread, In(t, Ending), Disown(t), lock' = lock, legs' = legs
    PROVE  ThreadInv'
<1> USE Facts
<1>0. legs \in Leg /\ legs <= legs
  BY DEF ResumeKinds, Leg
<1>1. CASE Resumes(t)
  <2>1. Moved(t, "undone") /\ Same(t)
    BY <1>1, DisownIs DEF Resumes
  <2>2. t \notin Leg /\ ~At(t, "lock")
    BY <1>1 DEF ThreadInv, OfWorker, In, At, Ending
  <2>3. t \in Handler
    BY <2>2 DEF Thread
  <2> QED BY <1>0, <1>1, <2>1, <2>2, <2>3, ResumesOn
<1>2. CASE ~Resumes(t)
  <2>1. Moved(t, IF t \in Handler THEN "over" ELSE "idle") /\ Emptied(t)
    BY <1>2, DisownIs DEF Resumes
  <2>2. t \in Handler => OfHandler(t)'
    BY <2>1 DEF OfHandler, In, Resumes, Moved, Emptied, Before, Starting, Working
  <2>3. t \in Leg => OfWorker(t)'
    BY <2>1 DEF OfWorker, In, At, Resumes, Moved, Emptied
  <2>4. Claimless(t)'
    BY <2>1 DEF Claimless, Resumes, Emptied
  <2> QED BY <1>0, <2>1, <2>2, <2>3, <2>4, ThreadMoves
<1> QED BY <1>1, <1>2

LEMMA ThreadKept ==
    ASSUME ConstantsOK, ResumeKinds, ResumeKinds', ThreadInv, LegInv, [Next]_vars
    PROVE  ThreadInv'
<1> USE Facts
<1>0. legs \in Leg /\ legs' \in Leg /\ legs <= legs /\ legs <= legs + 1
  BY DEF ResumeKinds, Leg
<1>1. ASSUME NEW h \in Handler, HandlerStep(h) PROVE ThreadInv'
  <2>0. h \in Thread /\ h \notin Leg /\ OfHandler(h)
    BY DEF ThreadInv
  <2>1. ASSUME NEW l \in Leg, Request(h, l) PROVE ThreadInv'
    <3>1. OfHandler(h)' /\ Claimless(h)' /\ Moved(h, "lock")
      BY <2>1, RequestIs DEF Moved, OfHandler, Claimless, In, Resumes, Working
    <3>2. lock' = lock /\ legs' = legs
      BY <2>1 DEF Request, records
    <3> QED BY <1>0, <2>0, <3>1, <3>2, ThreadMoves
  <2>2. ASSUME NEW l \in Leg, EndLeg(h, l) PROVE ThreadInv'
    <3>1. OfHandler(h)' /\ Claimless(h)' /\ Moved(h, "kill")
      BY <2>2, EndIs DEF Moved, Emptied, OfHandler, Claimless, In, Resumes, Before, Starting, Working
    <3>2. lock' = lock /\ legs' = legs
      BY <2>2 DEF EndLeg, records
    <3> QED BY <1>0, <2>0, <3>1, <3>2, ThreadMoves
  <2>3. CASE TakeLock(h)
    <3>1. At(h, "lock") /\ Moved(h, "check") /\ Same(h) /\ lock = NoThread /\ lock' = h
      BY <2>3, PlainIs
    <3>2. OfHandler(h)' /\ Claimless(h)'
      BY <2>0, <3>1 DEF Moved, Same, OfHandler, Claimless, In, At, Resumes, Before, Starting, Working
    <3> QED BY <1>0, <2>0, <2>3, <3>1, <3>2, ThreadMoves DEF TakeLock, records
  <2>4. CASE Refuse(h)
    BY <2>4, LeavesThreads DEF Refuse, records
  <2>5. CASE Check(h)
    <3>1. PICK p : p = IF writes THEN "acquire" ELSE "prepare"
      OBVIOUS
    <3>2. /\ loc[h].pc = "check" /\ Moved(h, p) /\ loc'[h].claim = loc[h].claim
          /\ loc'[h].resumes = loc[h].resumes /\ p \in {"acquire", "prepare"}
      BY <2>5, <3>1, CheckIs
    <3>3. OfHandler(h)' /\ Claimless(h)'
      <4>1. lock' = lock
        BY <2>5 DEF Check
      <4> QED BY <2>0, <3>2, <4>1 DEF Moved, OfHandler, Claimless, In, Resumes, Before, Starting, Working
    <3> QED BY <1>0, <2>0, <2>5, <3>2, <3>3, ThreadMoves DEF Check, records
  <2>6. CASE Acquire(h)
    <3>1. legs' = legs /\ loc[h].pc = "acquire"
      BY <2>6, AcquireIs DEF Acquire, records
    <3>2. CASE /\ UNCHANGED lock /\ Moved(h, "prepare")
               /\ loc'[h].claim = holder' /\ loc'[h].leg = loc[h].leg /\ loc'[h].resumes = loc[h].resumes
      <4>1. OfHandler(h)' /\ Claimless(h)'
        BY <2>0, <3>1, <3>2 DEF Moved, OfHandler, Claimless, In, Resumes, Before, Starting, Working
      <4> QED BY <1>0, <2>0, <3>1, <3>2, <4>1, ThreadMoves
    <3>3. CASE Leave(h)
      BY <3>1, <3>3, LeavesThreads
    <3> QED BY <2>6, <3>2, <3>3, AcquireIs
  <2>r. In(h, Before \cup Starting) => Resumes(h) /\ ~At(h, "lock")
    BY <2>0 DEF OfHandler, In, At, Before, Starting
  <2>7. CASE Prepare(h)
    <3>1. legs' = legs /\ lock' = lock /\ In(h, Before \cup Starting)
      BY <2>7, PlainIs DEF Prepare, records, In, At, Before
    <3>2. Moved(h, "insert") /\ Same(h)
      BY <2>7, PlainIs
    <3> QED BY <1>0, <2>r, <3>1, <3>2, ResumesOn
  <2>8. CASE Denied(h)
    <3>1. legs' = legs /\ lock' = lock /\ In(h, Before \cup Starting)
      BY <2>8, PlainIs DEF Denied, records, In, At, Before
    <3>2. Moved(h, "giveback") /\ Same(h)
      BY <2>8, PlainIs
    <3> QED BY <1>0, <2>r, <3>1, <3>2, ResumesOn
  <2>9. CASE Unprepared(h)
    <3>1. legs' = legs /\ lock' = lock /\ In(h, Before \cup Starting)
      BY <2>9, PlainIs DEF Unprepared, records, In, At, Before
    <3>2. Moved(h, "giveback") /\ Same(h)
      BY <2>9, PlainIs
    <3> QED BY <1>0, <2>r, <3>1, <3>2, ResumesOn
  <2>10. CASE GiveBack(h)
    BY <2>10, LeavesThreads DEF GiveBack, records
  <2>11. CASE Insert(h)
    <3>1. legs' = legs + 1 /\ lock' = lock /\ In(h, Before \cup Starting)
      BY <2>11, PlainIs DEF Insert, In, At, Before
    <3>2. Moved(h, "register") /\ Same(h)
      BY <2>11, PlainIs
    <3> QED BY <1>0, <2>r, <3>1, <3>2, ResumesOn
  <2>12. CASE Register(h)
    <3>1. legs' = legs /\ lock' = lock /\ In(h, Before \cup Starting)
      BY <2>12, PlainIs DEF Register, In, At, Starting
    <3>2. Moved(h, "open") /\ Same(h)
      BY <2>12, PlainIs
    <3> QED BY <1>0, <2>r, <3>1, <3>2, ResumesOn
  <2>13. CASE Open(h)
    <3>1. legs' = legs /\ lock' = lock /\ In(h, Before \cup Starting)
      BY <2>13, PlainIs DEF Open, In, At, Starting
    <3>2. Moved(h, "launch") /\ Same(h)
      BY <2>13, PlainIs
    <3> QED BY <1>0, <2>r, <3>1, <3>2, ResumesOn
  <2>14. CASE Launch(h)
    <3>1. /\ legs' = legs /\ lock' = lock /\ In(h, Before \cup Starting) /\ At(h, "launch")
      BY <2>14 DEF Launch, records, In, At, Starting
    <3>2. MyLeg(h) = legs
      BY <2>r, <3>1 DEF LegInv, OfResumption, In, At, Starting
    <3>3. /\ loc'[h].pc = "launched" /\ Same(h)
          /\ loc'[legs].pc = "turn" /\ loc'[legs].leg = legs /\ Emptied(legs)
          /\ \A t \in Thread : t # h /\ t # legs => loc'[t] = loc[t]
      BY <1>0, <2>14, <3>2, LaunchIs
    <3>4. ASSUME NEW g \in Handler PROVE OfHandler(g)'
      <4>1. CASE g = h
        BY <2>0, <2>r, <3>1, <3>3, <4>1 DEF OfHandler, In, At, Resumes, Same, Before, Starting, Working
      <4>2. CASE g # h
        <5>1. loc'[g] = loc[g] /\ OfHandler(g)
          BY <1>0, <3>3, <4>2 DEF ThreadInv
        <5> QED BY <3>1, <5>1 DEF OfHandler, In, Resumes
      <4> QED BY <4>1, <4>2
    <3>5. ASSUME NEW l \in Leg PROVE OfWorker(l)'
      <4>1. CASE l = legs
        BY <1>0, <3>1, <3>3, <4>1 DEF OfWorker, In, At, Resumes, MyLeg, Emptied, Working
      <4>2. CASE l # legs
        <5>1. loc'[l] = loc[l] /\ OfWorker(l)
          BY <2>0, <3>3, <4>2 DEF ThreadInv
        <5> QED BY <3>1, <5>1 DEF OfWorker, In, At, Resumes, MyLeg
      <4> QED BY <4>1, <4>2
    <3>6. ASSUME NEW t \in Thread PROVE Claimless(t)'
      BY <3>3 DEF ThreadInv, Claimless, Resumes, Same, Emptied
    <3> QED BY <3>4, <3>5, <3>6 DEF ThreadInv
  <2>15. CASE Launched(h)
    <3>1. legs' = legs /\ In(h, Before \cup Starting)
      BY <2>15, PlainIs DEF Launched, records, In, At, Starting
    <3>2. CASE Leave(h)
      BY <3>1, <3>2, LeavesThreads
    <3>3. CASE Moved(h, "undo") /\ Same(h) /\ UNCHANGED lock
      BY <1>0, <2>r, <3>1, <3>3, ResumesOn
    <3> QED BY <2>15, <3>2, <3>3, PlainIs
  <2>16. CASE StartFails(h)
    <3>1. legs' = legs /\ lock' = lock /\ In(h, Before \cup Starting)
      BY <2>16, PlainIs DEF StartFails, records, In, Starting
    <3>2. Moved(h, "undo") /\ Same(h)
      BY <2>16, PlainIs
    <3> QED BY <1>0, <2>r, <3>1, <3>2, ResumesOn
  <2>17. CASE Undo(h)
    <3>1. legs' = legs /\ lock' = lock /\ In(h, Before \cup Starting)
      BY <2>17 DEF Undo, records, In, At, Starting
    <3>2. MyLeg(h) = legs
      BY <2>r, <2>17, <3>1 DEF LegInv, OfResumption, In, At, Starting, Undo
    <3>3. Moved(h, "t8") /\ Same(h)
      BY <1>0, <2>17, <3>2, UndoIs
    <3> QED BY <1>0, <2>r, <3>1, <3>3, ResumesOn
  <2>18. CASE Undone(h)
    BY <2>18, LeavesThreads DEF Undone, records
  <2> QED BY <1>1, <2>1, <2>2, <2>3, <2>4, <2>5, <2>6, <2>7, <2>8, <2>9, <2>10, <2>11, <2>12, <2>13, <2>14,
             <2>15, <2>16, <2>17, <2>18 DEF HandlerStep
<1>2. ASSUME NEW l \in Leg, TurnEnds(l) PROVE ThreadInv'
  <2>1. legs' = legs /\ lock' = lock /\ At(l, "turn") /\ Moved(l, "cleanup") /\ Same(l) /\ l \notin Handler
    BY <1>2, TurnEndsIs DEF TurnEnds, records, At
  <2>2. In(l, Working \cup Ending)
    BY <2>1 DEF In, At, Working
  <2> QED BY <2>1, <2>2, EndsOn, SMTT(20)
<1>3. ASSUME NEW l \in Leg, Cleanup(l) PROVE ThreadInv'
  <2>1. legs' = legs /\ lock' = lock /\ loc[l].pc = "cleanup" /\ l \notin Handler
    BY <1>3, CleanupIs DEF Cleanup, records
  <2>2. CASE Moved(l, "idle") /\ Emptied(l)
    <3>1. OfWorker(l)' /\ Claimless(l)'
      BY <2>2 DEF OfWorker, In, At, Resumes, Moved, Emptied, Claimless
    <3> QED BY <1>0, <2>1, <2>2, <3>1, ThreadMoves
  <2>3. ASSUME NEW p \in {"t8", "kill"}, Moved(l, p), Same(l) PROVE ThreadInv'
    <3>1. In(l, Working \cup Ending)
      BY <2>1 DEF In, Working
    <3> QED BY <2>1, <2>3, <3>1, EndsOn
  <2> QED BY <1>3, <2>2, <2>3, CleanupIs
<1>4. ASSUME NEW t \in Thread, Finalization(t) PROVE ThreadInv'
  <2>e. In(t, Ending) => In(t, Working \cup Ending)
    BY DEF In
  <2>1. CASE EndAdapter(t)
    <3>1. legs' = legs /\ lock' = lock /\ In(t, Ending)
      BY <2>1, EndingIs DEF EndAdapter, records, In, At, Ending
    <3>2. Moved(t, "t8") /\ Same(t)
      BY <2>1, EndingIs
    <3> QED BY <2>e, <3>1, <3>2, EndsOn
  <2>2. CASE Finalize(t)
    <3>1. legs' = legs /\ lock' = lock /\ In(t, Ending)
      BY <2>2, EndingIs DEF Finalize, In, At, Ending
    <3>2. Moved(t, "deregister") /\ Same(t)
      BY <2>2, EndingIs
    <3> QED BY <2>e, <3>1, <3>2, EndsOn
  <2>3. CASE Deregister(t)
    <3>1. legs' = legs /\ lock' = lock /\ In(t, Ending)
      BY <2>3, EndingIs DEF Deregister, In, At, Ending
    <3>2. CASE Disown(t)
      BY <3>1, <3>2, DisownsThreads
    <3>3. CASE Moved(t, "release") /\ Same(t)
      BY <2>e, <3>1, <3>3, EndsOn
    <3> QED BY <2>3, <3>2, <3>3, EndingIs
  <2>4. CASE ReleaseToken(t)
    <3>1. legs' = legs /\ lock' = lock /\ In(t, Ending)
      BY <2>4, EndingIs DEF ReleaseToken, In, At, Ending
    <3> QED BY <2>4, <3>1, DisownsThreads, EndingIs
  <2> QED BY <1>4, <2>1, <2>2, <2>3, <2>4 DEF Finalization
<1>5. CASE OtherConversation
  BY <1>5 DEF OtherConversation, records, ThreadInv, OfHandler, OfWorker, Claimless, In, At, Resumes, MyLeg
<1>6. CASE CrashAndBoot
  <2>1. ASSUME NEW t \in Thread
        PROVE  /\ loc'[t].claim = NoClaim /\ ~loc'[t].resumes
               /\ loc'[t].pc = "idle" \/ (t \in Handler /\ loc'[t].pc = "over")
    <3>1. loc'[t] = IF At(t, "idle") THEN IdleThread ELSE Over(t)
      BY <1>6 DEF CrashAndBoot
    <3> QED BY <3>1, IdleIs
  <2>2. ASSUME NEW h \in Handler PROVE OfHandler(h)'
    <3>1. (loc'[h].pc = "idle" \/ loc'[h].pc = "over") /\ ~loc'[h].resumes
      BY <2>1
    <3> QED BY <3>1 DEF OfHandler, In, Resumes, Before, Starting, Working
  <2>3. ASSUME NEW l \in Leg PROVE OfWorker(l)'
    <3>1. loc'[l].pc = "idle" /\ ~loc'[l].resumes
      BY <2>1
    <3> QED BY <3>1 DEF OfWorker, In, At, Resumes
  <2>4. ASSUME NEW t \in Thread PROVE Claimless(t)'
    BY <2>1 DEF Claimless
  <2> QED BY <2>2, <2>3, <2>4 DEF ThreadInv
<1>7. CASE UNCHANGED vars
  BY <1>7 DEF vars, records, ThreadInv, OfHandler, OfWorker, Claimless, In, At, Resumes, MyLeg
<1> QED BY <1>1, <1>2, <1>3, <1>4, <1>5, <1>6, <1>7 DEF Next

----------------------------------------------------------------------------
(***************************************************************************)
(* The legs: what one thread's step asks of them.                          *)
(***************************************************************************)
LEMMA OneResumes ==
    ASSUME ThreadInv, NEW g \in Handler, NEW h \in Handler,
           Resumes(g), Resumes(h), ~At(g, "lock"), ~At(h, "lock")
    PROVE  g = h
BY DEF ThreadInv, OfHandler, In, At

LEMMA LegMoves ==
    ASSUME ConstantsOK, ResumeKinds, ThreadInv, LegInv, NEW t \in Thread, NEW p, Moved(t, p),
           legs' = legs, live' \subseteq live, \A l \in Leg : t8[l] => t8'[l],
           t \in Leg => ~At(t, "idle"), Recorded(t)', t \in Handler => OfResumption(t)',
           p \in Working \cup Ending =>
              \/ loc'[t].leg = loc[t].leg /\ In(t, Working \cup Ending)
              \/ live # {}
              \/ t \in Handler /\ Resumes(t) /\ ~At(t, "lock")
    PROVE  LegInv'
<1> USE Facts
<1>0. legs \in Leg /\ loc'[t].pc = p /\ \A u \in Thread : u # t => loc'[u] = loc[u]
  BY DEF ResumeKinds, Moved
<1>1. live' \subseteq {legs'} /\ \A l \in 1 .. legs' - 1 : t8'[l]
  BY <1>0 DEF LegInv, Leg
<1>2. ASSUME NEW u \in Thread PROVE Recorded(u)'
  BY <1>0 DEF LegInv, Recorded, In, MyLeg
<1>3. ASSUME NEW h \in Handler PROVE OfResumption(h)'
  <2>1. CASE h = t
    BY <2>1
  <2>2. CASE h # t
    <3>0. loc'[h] = loc[h] /\ OfResumption(h) /\ OfHandler(h)
      BY <1>0, <2>2 DEF LegInv, ThreadInv
    <3>1. (In(h, Before) => MyLeg(h) = legs + 1 /\ legs < MaxLegs /\ t8[legs] /\ live = {})'
      BY <1>0, <3>0 DEF OfResumption, In, MyLeg
    <3>2. ASSUME At(h, "register")'
          PROVE  live' = {} /\ \A u \in Thread : (In(u, Working \cup Ending) => MyLeg(u) # legs)'
      <4>1. At(h, "register") /\ live = {} /\ Resumes(h) /\ ~At(h, "lock")
        BY <3>0, <3>2 DEF OfResumption, OfHandler, At, In, Starting
      <4>2. ASSUME NEW u \in Thread, In(u, Working \cup Ending)' PROVE (MyLeg(u) # legs)'
        <5>1. CASE u # t
          BY <1>0, <3>0, <4>1, <4>2, <5>1 DEF OfResumption, In, MyLeg
        <5>2. CASE u = t
          <6>1. p \in Working \cup Ending
            BY <1>0, <4>2, <5>2 DEF In
          <6>2. loc'[t].leg = loc[t].leg /\ In(t, Working \cup Ending)
            BY <2>2, <4>1, <6>1, OneResumes
          <6> QED BY <3>0, <4>1, <5>2, <6>2 DEF OfResumption, MyLeg
        <5> QED BY <5>1, <5>2
      <4> QED BY <4>1, <4>2
    <3>3. (Resumes(h) /\ In(h, Starting \cup Ending) => MyLeg(h) = legs)'
      BY <3>0 DEF OfResumption, In, Resumes, MyLeg
    <3>4. ASSUME In(h, Before \cup {"register", "open", "launch"})' PROVE At(MyLeg(h), "idle")'
      <4>1. In(h, Before \cup {"register", "open", "launch"}) /\ At(MyLeg(h), "idle")
        BY <3>0, <3>4 DEF OfResumption, In
      <4>2. MyLeg(h) \in Leg
        BY <1>0, <3>0, <4>1 DEF OfResumption, OfHandler, In, Starting, Leg
      <4>3. MyLeg(h) # t
        BY <4>1, <4>2
      <4> QED BY <1>0, <3>0, <4>1, <4>2, <4>3 DEF At, MyLeg
    <3> QED BY <3>1, <3>2, <3>3, <3>4 DEF OfResumption
  <2> QED BY <2>1, <2>2
<1> QED BY <1>1, <1>2, <1>3 DEF LegInv

\* A request that is over does not matter to them.
LEMMA LeavesLegs ==
    ASSUME ConstantsOK, ResumeKinds, ThreadInv, LegInv, NEW h \in Handler, Leave(h), legs' = legs, live' = live, t8' = t8
    PROVE  LegInv'
<1>1. h \in Thread /\ h \notin Leg /\ Moved(h, "over") /\ Emptied(h) /\ loc'[h].pc = "over"
  BY Facts, LeaveIs DEF Moved
<1>2. Recorded(h)' /\ OfResumption(h)'
  BY <1>1 DEF Recorded, OfResumption, In, At, Resumes, Emptied, Before, Starting, Working, Ending
<1>3. "over" \notin Working \cup Ending
  BY DEF Working, Ending
<1> QED BY <1>1, <1>2, <1>3, LegMoves

\* A resumption that goes on, before its leg is recorded and after its registration.
LEMMA ResumesLegs ==
    ASSUME ConstantsOK, ResumeKinds, ThreadInv, LegInv, NEW h \in Handler, Resumes(h), NEW p, Moved(h, p), Same(h),
           \/ In(h, Before) /\ p \in {"prepare", "insert", "giveback"}
           \/ In(h, {"open"}) /\ p = "launch"
           \/ In(h, Starting \cup Ending) /\ p \in {"launched", "undo", "undone", "t8", "deregister", "release"},
           legs' = legs, live' \subseteq live, \A l \in Leg : t8[l] => t8'[l]
    PROVE  LegInv'
<1> USE Facts
<1>0. /\ h \in Thread /\ h \notin Leg /\ legs \in Leg /\ OfResumption(h) /\ ~At(h, "lock") /\ loc'[h].pc = p
      /\ \A u \in Thread : u # h => loc'[u] = loc[u]
  BY DEF ResumeKinds, LegInv, In, At, Before, Starting, Ending, Moved
<1>1. loc'[h].leg = loc[h].leg
  BY DEF Same
<1>2. OfResumption(h)'
  <2>1. CASE In(h, Before) /\ p \in {"prepare", "insert", "giveback"}
    <3>1. MyLeg(h) = legs + 1 /\ legs < MaxLegs /\ t8[legs] /\ live = {} /\ At(MyLeg(h), "idle")
      BY <1>0, <2>1 DEF OfResumption, In
    <3>2. MyLeg(h) \in Leg /\ MyLeg(h) # h
      BY <1>0, <3>1 DEF Leg
    <3>3. loc'[MyLeg(h)] = loc[MyLeg(h)]
      BY <1>0, <3>2
    <3>4. /\ In(h, Before)' /\ ~At(h, "register")' /\ ~In(h, Starting \cup Ending)'
      BY <1>0, <2>1 DEF In, At, Before, Starting, Ending
    <3>5. At(MyLeg(h), "idle")'
      BY <1>1, <3>1, <3>3 DEF At, MyLeg
    <3>6. (MyLeg(h) = legs + 1 /\ legs < MaxLegs /\ t8[legs] /\ live = {})'
      BY <1>0, <1>1, <3>1 DEF MyLeg
    <3> QED BY <3>4, <3>5, <3>6 DEF OfResumption
  <2>2. CASE In(h, {"open"}) /\ p = "launch"
    <3>1. MyLeg(h) = legs /\ At(MyLeg(h), "idle")
      BY <1>0, <2>2 DEF OfResumption, In, Starting
    <3>2. At(MyLeg(h), "idle")' /\ (MyLeg(h) = legs)'
      BY <1>0, <1>1, <3>1 DEF At, MyLeg
    <3>3. ~In(h, Before)' /\ ~At(h, "register")'
      BY <1>0, <2>2 DEF In, At, Before
    <3> QED BY <3>2, <3>3 DEF OfResumption
  <2>3. CASE In(h, Starting \cup Ending) /\ p \in {"launched", "undo", "undone", "t8", "deregister", "release"}
    <3>1. (MyLeg(h) = legs)'
      BY <1>0, <1>1, <2>3 DEF OfResumption, MyLeg
    <3>2. ~In(h, Before \cup {"register", "open", "launch"})' /\ ~At(h, "register")' /\ ~In(h, Before)'
      BY <1>0, <2>3 DEF In, At, Before
    <3> QED BY <3>1, <3>2 DEF OfResumption
  <2> QED BY <2>1, <2>2, <2>3
<1>3. Recorded(h)'
  <2>1. ASSUME p \in Working \cup Ending PROVE loc[h].leg = legs
    BY <1>0, <2>1 DEF OfResumption, Working, Ending, MyLeg, In
  <2> QED BY <1>0, <1>1, <2>1 DEF Recorded, In, MyLeg, Leg
<1> QED BY <1>0, <1>2, <1>3, LegMoves

\* Whoever ends a leg goes on with it.
LEMMA EndsLegs ==
    ASSUME ConstantsOK, ResumeKinds, ThreadInv, LegInv, NEW t \in Thread, In(t, Working \cup Ending), NEW p, Moved(t, p),
           Same(t) \/ p \notin Working \cup Ending, p \in {"idle", "over", "undone"} \cup Working \cup Ending,
           ~Resumes(t) => ~loc'[t].resumes,
           Resumes(t) => Same(t) /\ p \in {"undone", "t8", "deregister", "release"},
           legs' = legs, live' \subseteq live, \A l \in Leg : t8[l] => t8'[l]
    PROVE  LegInv'
<1> USE Facts
<1>1. CASE Resumes(t)
  <2>1. t \in Handler
    BY <1>1 DEF ThreadInv, OfWorker, Thread
  <2>2. In(t, Starting \cup Ending)
    BY <2>1 DEF ThreadInv, OfHandler, In
  <2> QED BY <1>1, <2>1, <2>2, ResumesLegs
<1>2. CASE ~Resumes(t)
  <2>0. loc'[t].pc = p /\ ~At(t, "idle") /\ Recorded(t)
    BY DEF Moved, In, At, Working, Ending, LegInv
  <2>1. Recorded(t)'
    BY <2>0 DEF Recorded, In, MyLeg, Same
  <2>2. OfResumption(t)'
    BY <1>2, <2>0 DEF OfResumption, In, At, Resumes, Before, Starting, Working, Ending
  <2> QED BY <2>0, <2>1, <2>2, LegMoves DEF Same
<1> QED BY <1>1, <1>2

LEMMA LegKept ==
    ASSUME ConstantsOK, ResumeKinds, ResumeKinds', ThreadInv, LegInv, [Next]_vars
    PROVE  LegInv'
<1> USE Facts
<1>0. /\ legs \in Leg /\ t8 \in [Leg -> BOOLEAN]
      /\ \A t \in Thread : In(t, Ending) => In(t, Working \cup Ending)
  BY DEF ResumeKinds, In
<1>1. ASSUME NEW h \in Handler, HandlerStep(h) PROVE LegInv'
  <2>0. h \in Thread /\ h \notin Leg /\ OfHandler(h) /\ OfResumption(h)
    BY DEF ThreadInv, LegInv
  <2>r. In(h, {"check"} \cup Before \cup Starting) => Resumes(h) /\ ~At(h, "lock")
    BY <2>0 DEF OfHandler, In, At, Before, Starting
  <2>1. ASSUME NEW l \in Leg, Request(h, l) PROVE LegInv'
    <3>1. Moved(h, "lock") /\ loc'[h].pc = "lock" /\ live' = live /\ t8' = t8 /\ legs' = legs
      BY <2>1, RequestIs DEF Moved, Request, records
    <3>2. Recorded(h)' /\ OfResumption(h)'
      BY <3>1 DEF Recorded, OfResumption, In, At, Before, Starting, Working, Ending
    <3>3. "lock" \notin Working \cup Ending
      BY DEF Working, Ending
    <3> QED BY <2>0, <3>1, <3>2, <3>3, LegMoves
  <2>2. ASSUME NEW l \in Leg, EndLeg(h, l) PROVE LegInv'
    <3>1. /\ Moved(h, "kill") /\ loc'[h].pc = "kill" /\ loc'[h].leg = l /\ Emptied(h) /\ l \in live
          /\ live' = live /\ t8' = t8 /\ legs' = legs
      BY <2>2, EndIs DEF Moved, EndLeg, records
    <3>2. OfResumption(h)'
      BY <3>1 DEF Emptied, OfResumption, In, At, Resumes, Before, Starting
    <3>3. Recorded(h)'
      BY <1>0, <3>1 DEF LegInv, Recorded, In, MyLeg, Leg
    <3> QED BY <2>0, <3>1, <3>2, <3>3, LegMoves
  <2>3. CASE TakeLock(h)
    <3>1. /\ Moved(h, "check") /\ loc'[h].pc = "check" /\ live' = live /\ t8' = t8 /\ legs' = legs
      BY <2>3, PlainIs DEF Moved, TakeLock, records
    <3>2. Recorded(h)' /\ OfResumption(h)'
      BY <3>1 DEF Recorded, OfResumption, In, At, Before, Starting, Working, Ending
    <3>3. "check" \notin Working \cup Ending
      BY DEF Working, Ending
    <3> QED BY <2>0, <3>1, <3>2, <3>3, LegMoves
  <2>4. CASE Refuse(h)
    BY <2>4, LeavesLegs DEF Refuse, records
  <2>5. CASE Check(h)
    <3>1. PICK p : p = IF writes THEN "acquire" ELSE "prepare"
      OBVIOUS
    <3>2. /\ legs < MaxLegs /\ live = {} /\ t8[legs] /\ Moved(h, p) /\ loc'[h].pc = p
          /\ loc'[h].leg = legs + 1 /\ p \in {"acquire", "prepare"}
          /\ live' = live /\ t8' = t8 /\ legs' = legs
      BY <2>5, <3>1, CheckIs DEF Moved, Check, records
    <3>3. legs + 1 \in Leg /\ At(legs + 1, "idle")
      <4>1. legs + 1 \in Leg /\ ~(legs + 1 <= legs)
        BY <1>0, <3>2 DEF Leg
      <4> QED BY <4>1 DEF ThreadInv, OfWorker
    <3>4. OfResumption(h)'
      <4>1. loc'[legs + 1] = loc[legs + 1]
        BY <2>0, <3>2, <3>3 DEF Moved
      <4>2. At(MyLeg(h), "idle")'
        BY <3>2, <3>3, <4>1 DEF At, MyLeg
      <4>3. In(h, Before)' /\ ~At(h, "register")' /\ ~In(h, Starting \cup Ending)'
        BY <3>2 DEF In, At, Before, Starting, Ending
      <4> QED BY <3>2, <4>2, <4>3 DEF OfResumption, MyLeg
    <3>5. Recorded(h)' /\ p \notin Working \cup Ending
      BY <3>2 DEF Recorded, In, Working, Ending
    <3> QED BY <2>0, <3>2, <3>4, <3>5, LegMoves
  <2>6. CASE Acquire(h)
    <3>1. live' = live /\ t8' = t8 /\ legs' = legs /\ In(h, Before)
      BY <2>6, AcquireIs DEF Acquire, records, In, Before
    <3>2. ASSUME Moved(h, "prepare"), loc'[h].claim = holder', loc'[h].leg = loc[h].leg,
                 loc'[h].resumes = loc[h].resumes
          PROVE  LegInv'
      <4>0. loc'[h].pc = "prepare"
        BY <3>2 DEF Moved
      <4>1. MyLeg(h) = legs + 1 /\ legs < MaxLegs /\ t8[legs] /\ live = {} /\ At(MyLeg(h), "idle")
        BY <2>0, <3>1 DEF OfResumption, In
      <4>2. MyLeg(h) \in Leg /\ MyLeg(h) # h
        BY <1>0, <2>0, <4>1 DEF Leg
      <4>3. loc'[MyLeg(h)] = loc[MyLeg(h)]
        BY <3>2, <4>2 DEF Moved
      <4>4. At(MyLeg(h), "idle")' /\ (MyLeg(h) = legs + 1)'
        BY <3>1, <3>2, <4>1, <4>3 DEF At, MyLeg
      <4>5. /\ In(h, Before)' /\ ~At(h, "register")' /\ ~In(h, Starting \cup Ending)' /\ Recorded(h)'
            /\ "prepare" \notin Working \cup Ending
        BY <4>0 DEF In, At, Before, Starting, Working, Ending, Recorded
      <4>6. OfResumption(h)'
        BY <3>1, <4>1, <4>4, <4>5 DEF OfResumption
      <4> QED BY <2>0, <3>1, <3>2, <4>5, <4>6, LegMoves
    <3>3. CASE Leave(h)
      BY <3>1, <3>3, LeavesLegs
    <3> QED BY <2>6, <3>2, <3>3, AcquireIs
  <2>7. CASE Prepare(h)
    <3>1. legs' = legs /\ live' = live /\ t8' = t8 /\ In(h, Before)
      BY <2>7, PlainIs DEF Prepare, records, In, At, Before
    <3>2. Resumes(h) /\ Moved(h, "insert") /\ Same(h)
      BY <2>r, <2>7, <3>1, PlainIs DEF In
    <3> QED BY <3>1, <3>2, ResumesLegs
  <2>8. CASE Denied(h)
    <3>1. legs' = legs /\ live' = live /\ t8' = t8 /\ In(h, Before)
      BY <2>8, PlainIs DEF Denied, records, In, At, Before
    <3>2. Resumes(h) /\ Moved(h, "giveback") /\ Same(h)
      BY <2>r, <2>8, <3>1, PlainIs DEF In
    <3> QED BY <3>1, <3>2, ResumesLegs
  <2>9. CASE Unprepared(h)
    <3>1. legs' = legs /\ live' = live /\ t8' = t8 /\ In(h, Before)
      BY <2>9, PlainIs DEF Unprepared, records, In, At, Before
    <3>2. Resumes(h) /\ Moved(h, "giveback") /\ Same(h)
      BY <2>r, <2>9, <3>1, PlainIs DEF In
    <3> QED BY <3>1, <3>2, ResumesLegs
  <2>10. CASE GiveBack(h)
    BY <2>10, LeavesLegs DEF GiveBack, records
  <2>11. CASE Insert(h)
    <3>1. legs' = legs + 1 /\ live' = live /\ t8' = t8 /\ In(h, Before)
      BY <2>11, PlainIs DEF Insert, In, At, Before
    <3>2. Resumes(h) /\ ~At(h, "lock") /\ Same(h) /\ loc'[h].pc = "register"
      BY <2>r, <2>11, <3>1, PlainIs DEF In, Moved
    <3>3. \A u \in Thread : u # h => loc'[u] = loc[u]
      BY <2>11, PlainIs DEF Moved
    <3>4. MyLeg(h) = legs + 1 /\ legs < MaxLegs /\ t8[legs] /\ live = {} /\ At(MyLeg(h), "idle")
      BY <2>0, <3>1 DEF OfResumption, In
    <3>5. live' \subseteq {legs'} /\ \A l \in 1 .. legs' - 1 : t8'[l]
      BY <1>0, <3>1, <3>4 DEF LegInv, Leg
    <3>6. ASSUME NEW u \in Thread PROVE Recorded(u)'
      <4>1. CASE u = h
        BY <3>2, <4>1 DEF Recorded, In, Working, Ending
      <4>2. CASE u # h
        BY <1>0, <3>1, <3>3, <4>2 DEF LegInv, Recorded, In, MyLeg, Leg
      <4> QED BY <4>1, <4>2
    <3>7. ASSUME NEW g \in Handler PROVE OfResumption(g)'
      <4>1. CASE g = h
        <5>1. ASSUME NEW u \in Thread, In(u, Working \cup Ending)' PROVE (MyLeg(u) # legs)'
          <6>1. u # h
            BY <3>2, <5>1 DEF In, Working, Ending
          <6>2. MyLeg(u) \in 1 .. legs
            BY <3>3, <5>1, <6>1 DEF LegInv, Recorded, In
          <6> QED BY <1>0, <3>1, <3>3, <6>1, <6>2 DEF MyLeg, Leg
        <5>2. At(MyLeg(h), "idle")' /\ (MyLeg(h) = legs)'
          <6>1. MyLeg(h) \in Leg /\ MyLeg(h) # h
            BY <1>0, <2>0, <3>4 DEF Leg
          <6>2. loc'[MyLeg(h)] = loc[MyLeg(h)]
            BY <3>3, <6>1
          <6> QED BY <3>1, <3>2, <3>4, <6>2 DEF At, MyLeg, Same
        <5>3. ~In(h, Before)'
          BY <3>2 DEF In, Before
        <5> QED BY <3>1, <3>4, <4>1, <5>1, <5>2, <5>3 DEF OfResumption
      <4>2. CASE g # h
        <5>1. loc'[g] = loc[g] /\ OfHandler(g)
          BY <3>3, <4>2 DEF ThreadInv
        <5>2. ~(Resumes(g) /\ ~At(g, "lock"))
          BY <3>2, <4>2, OneResumes
        <5>3. ~In(g, Before \cup Starting) /\ ~(Resumes(g) /\ In(g, Starting \cup Ending))
          BY <5>1, <5>2 DEF OfHandler, In, At, Before, Starting, Ending
        <5> QED BY <5>1, <5>3 DEF OfResumption, In, At, Resumes, Before, Starting
      <4> QED BY <4>1, <4>2
    <3> QED BY <3>5, <3>6, <3>7 DEF LegInv
  <2>12. CASE Register(h)
    <3>1. legs' = legs /\ live' = live \cup {MyLeg(h)} /\ t8' = t8 /\ At(h, "register")
      BY <2>12, PlainIs DEF Register
    <3>2. Resumes(h) /\ ~At(h, "lock") /\ Same(h) /\ loc'[h].pc = "open"
      BY <2>r, <2>12, <3>1, PlainIs DEF In, At, Starting, Moved
    <3>3. \A u \in Thread : u # h => loc'[u] = loc[u]
      BY <2>12, PlainIs DEF Moved
    <3>4. MyLeg(h) = legs /\ At(MyLeg(h), "idle")
      BY <2>0, <3>1, <3>2 DEF OfResumption, In, At, Starting
    <3>5. live' \subseteq {legs'} /\ \A l \in 1 .. legs' - 1 : t8'[l]
      BY <3>1, <3>4 DEF LegInv
    <3>6. ASSUME NEW u \in Thread PROVE Recorded(u)'
      <4>1. CASE u = h
        BY <3>2, <4>1 DEF Recorded, In, Working, Ending
      <4>2. CASE u # h
        BY <1>0, <3>1, <3>3, <4>2 DEF LegInv, Recorded, In, MyLeg, Leg
      <4> QED BY <4>1, <4>2
    <3>7. ASSUME NEW g \in Handler PROVE OfResumption(g)'
      <4>1. CASE g = h
        <5>2. At(MyLeg(h), "idle")' /\ (MyLeg(h) = legs)'
          <6>1. MyLeg(h) \in Leg /\ MyLeg(h) # h
            BY <1>0, <2>0, <3>4
          <6>2. loc'[MyLeg(h)] = loc[MyLeg(h)]
            BY <3>3, <6>1
          <6> QED BY <3>1, <3>2, <3>4, <6>2 DEF At, MyLeg, Same
        <5>3. ~In(h, Before)' /\ ~At(h, "register")'
          BY <3>2 DEF In, At, Before
        <5> QED BY <4>1, <5>2, <5>3 DEF OfResumption
      <4>2. CASE g # h
        <5>1. loc'[g] = loc[g] /\ OfHandler(g)
          BY <3>3, <4>2 DEF ThreadInv
        <5>2. ~(Resumes(g) /\ ~At(g, "lock"))
          BY <3>2, <4>2, OneResumes
        <5>3. ~In(g, Before \cup Starting) /\ ~(Resumes(g) /\ In(g, Starting \cup Ending))
          BY <5>1, <5>2 DEF OfHandler, In, At, Before, Starting, Ending
        <5> QED BY <5>1, <5>3 DEF OfResumption, In, At, Resumes, Before, Starting
      <4> QED BY <4>1, <4>2
    <3> QED BY <3>5, <3>6, <3>7 DEF LegInv
  <2>13. CASE Open(h)
    <3>1. legs' = legs /\ live' = live /\ t8' = t8 /\ In(h, {"open"}) /\ In(h, Starting)
      BY <2>13, PlainIs DEF Open, In, At, Starting
    <3>2. Resumes(h) /\ Moved(h, "launch") /\ Same(h)
      BY <2>r, <2>13, <3>1, PlainIs DEF In
    <3> QED BY <3>1, <3>2, ResumesLegs
  <2>14. CASE Launch(h)
    <3>1. legs' = legs /\ live' = live /\ t8' = t8 /\ At(h, "launch")
      BY <2>14 DEF Launch, records
    <3>2. Resumes(h) /\ ~At(h, "lock")
      BY <2>r, <3>1 DEF In, At, Starting
    <3>3. MyLeg(h) = legs
      BY <2>0, <3>1, <3>2 DEF OfResumption, In, At, Starting
    <3>4. /\ loc'[h].pc = "launched" /\ Same(h) /\ loc'[legs].pc = "turn" /\ loc'[legs].leg = legs
          /\ \A t \in Thread : t # h /\ t # legs => loc'[t] = loc[t]
      BY <1>0, <2>14, <3>3, LaunchIs
    <3>5. ASSUME NEW u \in Thread PROVE Recorded(u)'
      <4>1. CASE u = h
        BY <3>4, <4>1 DEF Recorded, In, Working, Ending
      <4>2. CASE u = legs
        BY <1>0, <3>1, <3>4, <4>2 DEF Recorded, MyLeg, Leg
      <4>3. CASE u # h /\ u # legs
        BY <1>0, <3>1, <3>4, <4>3 DEF LegInv, Recorded, In, MyLeg
      <4> QED BY <4>1, <4>2, <4>3
    <3>6. ASSUME NEW g \in Handler PROVE OfResumption(g)'
      <4>1. CASE g = h
        <5>1. (MyLeg(h) = legs)'
          BY <3>1, <3>3, <3>4 DEF MyLeg, Same
        <5>2. ~In(h, Before \cup {"register", "open", "launch"})' /\ ~At(h, "register")' /\ ~In(h, Before)'
          BY <3>4 DEF In, At, Before
        <5> QED BY <4>1, <5>1, <5>2 DEF OfResumption
      <4>2. CASE g # h
        <5>1. loc'[g] = loc[g] /\ OfHandler(g)
          BY <1>0, <3>4, <4>2 DEF ThreadInv
        <5>2. ~(Resumes(g) /\ ~At(g, "lock"))
          BY <3>2, <4>2, OneResumes
        <5>3. ~In(g, Before \cup Starting) /\ ~(Resumes(g) /\ In(g, Starting \cup Ending))
          BY <5>1, <5>2 DEF OfHandler, In, At, Before, Starting, Ending
        <5> QED BY <5>1, <5>3 DEF OfResumption, In, At, Resumes, Before, Starting
      <4> QED BY <4>1, <4>2
    <3> QED BY <3>1, <3>5, <3>6 DEF LegInv
  <2>15. CASE Launched(h)
    <3>1. legs' = legs /\ live' = live /\ t8' = t8 /\ In(h, Starting)
      BY <2>15, PlainIs DEF Launched, records, In, At, Starting
    <3>2. CASE Leave(h)
      BY <3>1, <3>2, LeavesLegs
    <3>3. CASE Moved(h, "undo") /\ Same(h)
      <4>1. Resumes(h) /\ In(h, Starting \cup Ending)
        BY <2>r, <3>1 DEF In
      <4> QED BY <3>1, <3>3, <4>1, ResumesLegs
    <3> QED BY <2>15, <3>2, <3>3, PlainIs
  <2>16. CASE StartFails(h)
    <3>1. legs' = legs /\ live' = live /\ t8' = t8 /\ In(h, Starting)
      BY <2>16, PlainIs DEF StartFails, records, In, Starting
    <3>2. Resumes(h) /\ In(h, Starting \cup Ending) /\ Moved(h, "undo") /\ Same(h)
      BY <2>r, <2>16, <3>1, PlainIs DEF In
    <3> QED BY <3>1, <3>2, ResumesLegs
  <2>17. CASE Undo(h)
    <3>1. legs' = legs /\ live' = live /\ t8' = t8 /\ In(h, Starting)
      BY <2>17 DEF Undo, records, In, At, Starting
    <3>2. Resumes(h) /\ In(h, Starting \cup Ending)
      BY <2>r, <3>1 DEF In
    <3>3. Moved(h, "t8") /\ Same(h)
      BY <1>0, <2>0, <2>17, <3>2, UndoIs DEF OfResumption
    <3> QED BY <3>1, <3>2, <3>3, ResumesLegs
  <2>18. CASE Undone(h)
    BY <2>18, LeavesLegs DEF Undone, records
  <2> QED BY <1>1, <2>1, <2>2, <2>3, <2>4, <2>5, <2>6, <2>7, <2>8, <2>9, <2>10, <2>11, <2>12, <2>13, <2>14,
             <2>15, <2>16, <2>17, <2>18 DEF HandlerStep
<1>2. ASSUME NEW l \in Leg, TurnEnds(l) PROVE LegInv'
  <2>1. /\ legs' = legs /\ live' = live /\ t8' = t8 /\ In(l, Working \cup Ending) /\ Moved(l, "cleanup") /\ Same(l)
        /\ ~Resumes(l)
    BY <1>2, TurnEndsIs DEF TurnEnds, records, In, Working, ThreadInv, OfWorker
  <2> QED BY <2>1, EndsLegs DEF Working, Same, Resumes
<1>3. ASSUME NEW l \in Leg, Cleanup(l) PROVE LegInv'
  <2>1. legs' = legs /\ live' = live /\ t8' = t8 /\ In(l, Working \cup Ending) /\ ~Resumes(l)
    BY <1>3, CleanupIs DEF Cleanup, records, In, Working, ThreadInv, OfWorker
  <2>2. CASE Moved(l, "idle") /\ Emptied(l)
    BY <2>1, <2>2, EndsLegs DEF Working, Ending, Emptied
  <2>3. ASSUME NEW p \in {"t8", "kill"}, Moved(l, p), Same(l) PROVE LegInv'
    BY <2>1, <2>3, EndsLegs DEF Ending, Same, Resumes
  <2> QED BY <1>3, <2>2, <2>3, CleanupIs
<1>4. ASSUME NEW t \in Thread, Finalization(t) PROVE LegInv'
  <2>0. At(t, "kill") => ~Resumes(t)
    BY DEF ThreadInv, OfHandler, OfWorker, In, At, Thread
  <2>1. CASE EndAdapter(t)
    <3>1. legs' = legs /\ live' = live /\ t8' = t8 /\ In(t, Working \cup Ending) /\ Moved(t, "t8") /\ Same(t)
      BY <2>1, EndingIs DEF EndAdapter, records, In, At, Ending
    <3> QED BY <3>1, EndsLegs DEF Ending, Same, Resumes
  <2>2. CASE Finalize(t)
    <3>1. legs' = legs /\ live' = live /\ In(t, Working \cup Ending) /\ Moved(t, "deregister") /\ Same(t)
      BY <2>2, EndingIs DEF Finalize, records, In, At, Ending
    <3>2. \A l \in Leg : t8[l] => t8'[l]
      BY <1>0, <2>2 DEF Finalize
    <3> QED BY <3>1, <3>2, EndsLegs DEF Ending, Same, Resumes
  <2>d. ASSUME Disown(t), In(t, Ending), legs' = legs, live' \subseteq live, t8' = t8 PROVE LegInv'
    <3>1. CASE Resumes(t)
      <4>1. Moved(t, "undone") /\ Same(t)
        BY <2>d, <3>1, DisownIs DEF Resumes
      <4> QED BY <1>0, <2>d, <3>1, <4>1, EndsLegs
    <3>2. CASE ~Resumes(t)
      <4>1. PICK p \in {"over", "idle"} : Moved(t, p) /\ Emptied(t)
        BY <2>d, <3>2, DisownIs DEF Resumes
      <4>2. p \notin Working \cup Ending /\ ~loc'[t].resumes
        BY <4>1 DEF Working, Ending, Emptied
      <4> QED BY <1>0, <2>d, <3>2, <4>1, <4>2, EndsLegs
    <3> QED BY <3>1, <3>2
  <2>3. CASE Deregister(t)
    <3>1. legs' = legs /\ live' \subseteq live /\ t8' = t8 /\ In(t, Ending)
      BY <2>3, EndingIs DEF Deregister, In, At, Ending
    <3>2. CASE Moved(t, "release") /\ Same(t)
      BY <1>0, <3>1, <3>2, EndsLegs DEF Ending, Same, Resumes
    <3> QED BY <2>3, <2>d, <3>1, <3>2, EndingIs
  <2>4. CASE ReleaseToken(t)
    <3>1. legs' = legs /\ live' = live /\ t8' = t8 /\ In(t, Ending)
      BY <2>4, EndingIs DEF ReleaseToken, In, At, Ending
    <3> QED BY <2>4, <2>d, <3>1, EndingIs
  <2> QED BY <1>4, <2>1, <2>2, <2>3, <2>4 DEF Finalization
<1>5. CASE OtherConversation
  BY <1>5 DEF OtherConversation, records, LegInv, OfResumption, Recorded, In, At, Resumes, MyLeg
<1>6. CASE CrashAndBoot
  <2>1. live' = {} /\ legs' = legs /\ \A l \in Leg : t8[l] => t8'[l]
    BY <1>6 DEF CrashAndBoot
  <2>2. ASSUME NEW t \in Thread PROVE loc'[t].pc \in {"idle", "over"} /\ ~loc'[t].resumes
    <3>1. loc'[t] = IF At(t, "idle") THEN IdleThread ELSE Over(t)
      BY <1>6 DEF CrashAndBoot
    <3> QED BY <3>1, IdleIs
  <2>3. ASSUME NEW t \in Thread PROVE Recorded(t)'
    BY <2>2 DEF Recorded, In, Working, Ending
  <2>4. ASSUME NEW h \in Handler PROVE OfResumption(h)'
    <3>1. loc'[h].pc \in {"idle", "over"} /\ ~loc'[h].resumes
      BY <2>2
    <3> QED BY <3>1 DEF OfResumption, In, At, Resumes, Before
  <2>5. live' \subseteq {legs'} /\ \A l \in 1 .. legs' - 1 : t8'[l]
    BY <1>0, <2>1 DEF LegInv, Leg
  <2> QED BY <2>3, <2>4, <2>5 DEF LegInv
<1>7. CASE UNCHANGED vars
  BY <1>7 DEF vars, records, LegInv, OfResumption, Recorded, In, At, Resumes, MyLeg
<1> QED BY <1>1, <1>2, <1>3, <1>4, <1>5, <1>6, <1>7 DEF Next

----------------------------------------------------------------------------
(***************************************************************************)
(* The states of the legs.                                                 *)
(***************************************************************************)
LEMMA StateMoves ==
    ASSUME ConstantsOK, ResumeKinds, ThreadInv, LegInv, StateInv, NEW t \in Thread, NEW p, Moved(t, p), live' = live,
           \A l \in Leg : state[l] = "terminal" => state'[l] = "terminal",
           p \in {"kill", "t8", "deregister"} => loc'[t].resumes \/ state'[loc'[t].leg] = "terminal",
           p \in {"open", "launch", "launched"} => loc'[t].leg \in live \/ state'[loc'[t].leg] = "terminal"
    PROVE  StateInv'
<1> USE Facts
<1>0. legs \in Leg /\ loc'[t].pc = p /\ \A u \in Thread : u # t => loc'[u] = loc[u]
  BY DEF ResumeKinds, Moved
<1>1. ASSUME NEW u \in Thread PROVE EndsTerminal(u)'
  <2>1. CASE u = t
    BY <1>0, <2>1 DEF EndsTerminal, In, Resumes, MyLeg
  <2>2. CASE u # t
    <3>1. loc'[u] = loc[u] /\ EndsTerminal(u) /\ Recorded(u)
      BY <1>0, <2>2 DEF StateInv, LegInv
    <3>2. In(u, {"kill", "t8", "deregister"}) => MyLeg(u) \in Leg
      BY <1>0, <3>1 DEF Recorded, In, Ending, Leg
    <3> QED BY <3>1, <3>2 DEF EndsTerminal, In, Resumes, MyLeg
  <2> QED BY <2>1, <2>2
<1>2. ASSUME NEW h \in Handler PROVE StartsLive(h)'
  <2>1. CASE h = t
    BY <1>0, <2>1 DEF StartsLive, In, MyLeg
  <2>2. CASE h # t
    <3>1. loc'[h] = loc[h] /\ StartsLive(h) /\ OfHandler(h) /\ OfResumption(h)
      BY <1>0, <2>2 DEF StateInv, ThreadInv, LegInv
    <3>2. In(h, {"open", "launch", "launched"}) => MyLeg(h) \in Leg
      BY <1>0, <3>1 DEF OfHandler, OfResumption, In, Starting
    <3> QED BY <3>1, <3>2 DEF StartsLive, In, MyLeg
  <2> QED BY <2>1, <2>2
<1> QED BY <1>1, <1>2 DEF StateInv

LEMMA StateStays ==
    ASSUME ConstantsOK, ResumeKinds, ThreadInv, LegInv, StateInv, NEW t \in Thread,
           NEW p \in {"idle", "over", "lock", "check", "turn", "cleanup", "undo", "undone", "register", "release"}
                     \cup Before,
           Moved(t, p), live' = live, state' = state
    PROVE  StateInv'
BY StateMoves DEF Before

LEMMA StateKept ==
    ASSUME ConstantsOK, ResumeKinds, ResumeKinds', ThreadInv, LegInv, StateInv, [Next]_vars
    PROVE  StateInv'
<1> USE Facts
<1>0. /\ legs \in Leg /\ live \in SUBSET Leg
      /\ state \in [Leg -> {"none", "open", "running", "idle", "terminal"}]
  BY DEF ResumeKinds
<1>1. ASSUME NEW h \in Handler, HandlerStep(h) PROVE StateInv'
  <2>0. h \in Thread /\ h \notin Leg /\ OfHandler(h) /\ OfResumption(h) /\ StartsLive(h)
    BY DEF ThreadInv, LegInv, StateInv
  <2>r. In(h, Starting) => Resumes(h) /\ ~At(h, "lock") /\ MyLeg(h) = legs
    BY <2>0 DEF OfHandler, OfResumption, In, At, Starting
  <2>l. ASSUME Leave(h), live' = live, state' = state PROVE StateInv'
    <3>1. Moved(h, "over")
      BY <2>l, LeaveIs
    <3> QED BY <2>0, <2>l, <3>1, StateStays
  <2>1. ASSUME NEW l \in Leg, Request(h, l) PROVE StateInv'
    BY <2>0, <2>1, RequestIs, StateStays DEF Request, records
  <2>2. ASSUME NEW l \in Leg, EndLeg(h, l) PROVE StateInv'
    <3>1. Moved(h, "kill") /\ loc'[h].leg = l /\ live' = live /\ state' = [state EXCEPT ![l] = "terminal"]
      BY <2>2, EndIs DEF EndLeg, records
    <3>2. state'[l] = "terminal" /\ \A m \in Leg : state[m] = "terminal" => state'[m] = "terminal"
      BY <1>0, <3>1
    <3> QED BY <2>0, <3>1, <3>2, StateMoves
  <2>3. CASE TakeLock(h)
    BY <2>0, <2>3, PlainIs, StateStays DEF TakeLock, records
  <2>4. CASE Refuse(h)
    BY <2>4, <2>l DEF Refuse, records
  <2>5. CASE Check(h)
    <3>1. PICK p \in {"acquire", "prepare"} : p = IF writes THEN "acquire" ELSE "prepare"
      OBVIOUS
    <3>2. Moved(h, p) /\ live' = live /\ state' = state /\ p \in Before
      BY <2>5, <3>1, CheckIs DEF Check, records, Before
    <3> QED BY <2>0, <3>2, StateStays
  <2>6. CASE Acquire(h)
    <3>1. live' = live /\ state' = state
      BY <2>6 DEF Acquire
    <3>2. CASE Moved(h, "prepare")
      BY <2>0, <3>1, <3>2, StateStays DEF Before
    <3> QED BY <2>6, <2>l, <3>1, <3>2, AcquireIs
  <2>7. CASE Prepare(h)
    BY <2>0, <2>7, PlainIs, StateStays DEF Prepare, Before
  <2>8. CASE Denied(h)
    BY <2>0, <2>8, PlainIs, StateStays DEF Denied, Before
  <2>9. CASE Unprepared(h)
    BY <2>0, <2>9, PlainIs, StateStays DEF Unprepared, Before
  <2>10. CASE GiveBack(h)
    BY <2>10, <2>l DEF GiveBack
  <2>11. CASE Insert(h)
    BY <2>0, <2>11, PlainIs, StateStays DEF Insert
  <2>12. CASE Register(h)
    <3>1. /\ Moved(h, "open") /\ Same(h) /\ loc'[h].pc = "open" /\ At(h, "register") /\ MyLeg(h) = legs
          /\ live' = live \cup {legs} /\ state' = [state EXCEPT ![legs] = "open"]
      BY <2>r, <2>12, PlainIs DEF Register, Moved, In, At, Starting
    <3>2. ASSUME NEW u \in Thread PROVE EndsTerminal(u)'
      <4>1. CASE u = h
        BY <3>1, <4>1 DEF EndsTerminal, In
      <4>2. CASE u # h
        <5>1. loc'[u] = loc[u] /\ EndsTerminal(u) /\ Recorded(u)
          BY <3>1, <4>2 DEF Moved, StateInv, LegInv
        <5>2. In(u, {"kill", "t8", "deregister"}) => MyLeg(u) \in Leg /\ MyLeg(u) # legs
          BY <1>0, <2>0, <3>1, <5>1 DEF OfResumption, Recorded, In, Ending, Leg
        <5> QED BY <1>0, <3>1, <5>1, <5>2 DEF EndsTerminal, In, Resumes, MyLeg
      <4> QED BY <4>1, <4>2
    <3>3. ASSUME NEW g \in Handler PROVE StartsLive(g)'
      <4>1. CASE g = h
        BY <3>1, <4>1 DEF StartsLive, MyLeg, Same
      <4>2. CASE g # h
        <5>1. loc'[g] = loc[g] /\ OfHandler(g) /\ OfResumption(g)
          BY <3>1, <4>2 DEF Moved, ThreadInv, LegInv
        <5> QED BY <3>1, <5>1 DEF StartsLive, OfHandler, OfResumption, In, MyLeg, Starting
      <4> QED BY <4>1, <4>2
    <3> QED BY <3>2, <3>3 DEF StateInv
  <2>13. CASE Open(h)
    <3>1. Moved(h, "launch") /\ Same(h) /\ At(h, "open") /\ live' = live /\ state' = state
      BY <2>13, PlainIs DEF Open
    <3>2. loc'[h].leg \in live \/ state'[loc'[h].leg] = "terminal"
      BY <2>0, <3>1 DEF StartsLive, In, At, Same, MyLeg
    <3> QED BY <2>0, <3>1, <3>2, StateMoves
  <2>14. CASE Launch(h)
    <3>1. /\ At(h, "launch") /\ MyLeg(h) = legs /\ live' = live /\ state' = [state EXCEPT ![legs] = "running"]
          /\ state[legs] = "open"
      BY <2>r, <2>14 DEF Launch, In, At, Starting
    <3>2. /\ loc'[h].pc = "launched" /\ Same(h) /\ loc'[legs].pc = "turn"
          /\ \A t \in Thread : t # h /\ t # legs => loc'[t] = loc[t]
      BY <1>0, <2>14, <3>1, LaunchIs
    <3>3. legs \in live
      BY <2>0, <3>1 DEF StartsLive, In, At
    <3>4. ASSUME NEW u \in Thread PROVE EndsTerminal(u)'
      <4>1. CASE u = h \/ u = legs
        BY <3>2, <4>1 DEF EndsTerminal, In
      <4>2. CASE u # h /\ u # legs
        <5>1. loc'[u] = loc[u] /\ EndsTerminal(u) /\ Recorded(u)
          BY <3>2, <4>2 DEF StateInv, LegInv
        <5>2. In(u, {"kill", "t8", "deregister"}) => MyLeg(u) \in Leg
          BY <1>0, <5>1 DEF Recorded, In, Ending, Leg
        <5> QED BY <1>0, <3>1, <5>1, <5>2 DEF EndsTerminal, In, Resumes, MyLeg
      <4> QED BY <4>1, <4>2
    <3>5. ASSUME NEW g \in Handler PROVE StartsLive(g)'
      <4>1. CASE g = h
        BY <3>1, <3>2, <3>3, <4>1 DEF StartsLive, MyLeg, Same
      <4>2. CASE g # h
        <5>1. loc'[g] = loc[g] /\ OfHandler(g) /\ OfResumption(g)
          BY <1>0, <3>2, <4>2 DEF ThreadInv, LegInv
        <5> QED BY <3>1, <3>3, <5>1 DEF StartsLive, OfHandler, OfResumption, In, MyLeg, Starting
      <4> QED BY <4>1, <4>2
    <3> QED BY <3>4, <3>5 DEF StateInv
  <2>15. CASE Launched(h)
    <3>1. live' = live /\ state' = state
      BY <2>15 DEF Launched, records
    <3>2. CASE Moved(h, "undo")
      BY <2>0, <3>1, <3>2, StateStays
    <3> QED BY <2>15, <2>l, <3>1, <3>2, PlainIs
  <2>16. CASE StartFails(h)
    BY <2>0, <2>16, PlainIs, StateStays DEF StartFails
  <2>17. CASE Undo(h)
    <3>1. Resumes(h) /\ MyLeg(h) \in Leg /\ live' = live /\ state' = state
      BY <1>0, <2>r, <2>17 DEF Undo, In, At, Starting
    <3>2. Moved(h, "t8") /\ loc'[h].resumes
      BY <2>17, <3>1, UndoIs DEF Same, Resumes
    <3> QED BY <2>0, <3>1, <3>2, StateMoves
  <2>18. CASE Undone(h)
    BY <2>18, <2>l, SMTT(20) DEF Undone
  <2> QED BY <1>1, <2>1, <2>2, <2>3, <2>4, <2>5, <2>6, <2>7, <2>8, <2>9, <2>10, <2>11, <2>12, <2>13, <2>14,
             <2>15, <2>16, <2>17, <2>18 DEF HandlerStep
<1>2. ASSUME NEW l \in Leg, TurnEnds(l) PROVE StateInv'
  BY <1>2, TurnEndsIs, StateStays DEF TurnEnds
<1>3. ASSUME NEW l \in Leg, Cleanup(l) PROVE StateInv'
  <2>1. live' = live /\ loc[l].pc = "cleanup" /\ OfWorker(l)
    BY <1>3, CleanupIs DEF Cleanup, ThreadInv
  <2>2. \A m \in Leg : state[m] = "terminal" => state'[m] = "terminal"
    BY <1>0, <1>3, CleanupIs
  <2>3. CASE Moved(l, "idle")
    BY <2>1, <2>2, <2>3, StateMoves
  <2>4. ASSUME NEW p \in {"t8", "kill"}, Moved(l, p), Same(l), state' = [state EXCEPT ![l] = "terminal"] PROVE StateInv'
    <3>1. state'[loc'[l].leg] = "terminal"
      BY <1>0, <2>1, <2>4 DEF OfWorker, At, MyLeg, Same
    <3> QED BY <2>1, <2>2, <2>4, <3>1, StateMoves
  <2> QED BY <1>3, <2>3, <2>4, CleanupIs
<1>4. ASSUME NEW t \in Thread, Finalization(t) PROVE StateInv'
  <2>0. EndsTerminal(t) /\ Recorded(t)
    BY DEF StateInv, LegInv
  <2>1. CASE EndAdapter(t)
    <3>1. /\ live' = live /\ state' = state /\ At(t, "kill") /\ Moved(t, "t8") /\ Same(t)
      BY <2>1, EndingIs DEF EndAdapter
    <3>2. loc'[t].resumes \/ state'[loc'[t].leg] = "terminal"
      BY <2>0, <3>1 DEF EndsTerminal, In, At, Same, Resumes, MyLeg
    <3> QED BY <3>1, <3>2, StateMoves
  <2>2. CASE Finalize(t)
    <3>1. /\ live' = live /\ At(t, "t8") /\ Moved(t, "deregister") /\ Same(t)
          /\ state' = IF MyLeg(t) \in live THEN [state EXCEPT ![MyLeg(t)] = "terminal"] ELSE state
      BY <2>2, EndingIs DEF Finalize
    <3>2. \A m \in Leg : state[m] = "terminal" => state'[m] = "terminal"
      BY <1>0, <3>1
    <3>3. loc'[t].resumes \/ state'[loc'[t].leg] = "terminal"
      BY <2>0, <3>1, <3>2 DEF EndsTerminal, In, At, Same, Resumes, MyLeg
    <3> QED BY <3>1, <3>2, <3>3, StateMoves
  <2>3. CASE Deregister(t)
    <3>1. /\ live' = live \ {MyLeg(t)} /\ state' = state /\ At(t, "deregister")
      BY <2>3 DEF Deregister
    <3>2. PICK p \in {"release", "undone", "over", "idle"} : Moved(t, p)
      BY <2>3, EndingIs, DisownIs
    <3>3. ASSUME NEW u \in Thread PROVE EndsTerminal(u)'
      <4>1. CASE u = t
        BY <3>2, <4>1 DEF Moved, EndsTerminal, In
      <4>2. CASE u # t
        BY <3>1, <3>2, <4>2 DEF Moved, StateInv, EndsTerminal, In, Resumes, MyLeg
      <4> QED BY <4>1, <4>2
    <3>4. ASSUME NEW h \in Handler PROVE StartsLive(h)'
      <4>1. CASE h = t
        BY <3>2, <4>1 DEF Moved, StartsLive, In
      <4>2. CASE h # t
        <5>1. loc'[h] = loc[h] /\ StartsLive(h) /\ OfHandler(h)
          BY <3>2, <4>2 DEF Moved, StateInv, ThreadInv
        <5>2. CASE MyLeg(h) # MyLeg(t)
          BY <3>1, <5>1, <5>2 DEF StartsLive, In, MyLeg
        <5>3. CASE ~Resumes(t) /\ MyLeg(h) = MyLeg(t)
          BY <2>0, <3>1, <5>1, <5>3 DEF StartsLive, EndsTerminal, In, At, MyLeg
        <5>4. CASE Resumes(t)
          <6>1. t \in Handler /\ ~At(t, "lock")
            BY <3>1, <5>4 DEF ThreadInv, OfWorker, Thread, At
          <6>2. ~(Resumes(h) /\ ~At(h, "lock"))
            BY <4>2, <5>4, <6>1, OneResumes
          <6>3. ~In(h, {"open", "launch", "launched"})
            BY <5>1, <6>2 DEF OfHandler, In, At, Starting
          <6> QED BY <5>1, <6>3 DEF StartsLive, In
        <5> QED BY <5>2, <5>3, <5>4
      <4> QED BY <4>1, <4>2
    <3> QED BY <3>3, <3>4 DEF StateInv
  <2>4. CASE ReleaseToken(t)
    <3>1. live' = live /\ state' = state
      BY <2>4 DEF ReleaseToken
    <3>2. PICK p \in {"undone", "over", "idle"} : Moved(t, p)
      BY <2>4, EndingIs, DisownIs
    <3> QED BY <3>1, <3>2, StateStays
  <2> QED BY <1>4, <2>1, <2>2, <2>3, <2>4 DEF Finalization
<1>5. CASE OtherConversation
  BY <1>5 DEF OtherConversation, StateInv, EndsTerminal, StartsLive, In, Resumes, MyLeg
<1>6. CASE CrashAndBoot
  <2>2. ASSUME NEW t \in Thread PROVE loc'[t].pc \in {"idle", "over"}
    <3>1. loc'[t] = IF At(t, "idle") THEN IdleThread ELSE Over(t)
      BY <1>6 DEF CrashAndBoot
    <3> QED BY <3>1, IdleIs
  <2> QED BY <2>2 DEF StateInv, EndsTerminal, StartsLive, In
<1>7. CASE UNCHANGED vars
  BY <1>7 DEF vars, StateInv, EndsTerminal, StartsLive, In, Resumes, MyLeg
<1> QED BY <1>1, <1>2, <1>3, <1>4, <1>5, <1>6, <1>7 DEF Next

----------------------------------------------------------------------------
(***************************************************************************)
(* The programs that run.                                                  *)
(***************************************************************************)
LEMMA AdapterMoves ==
    ASSUME ConstantsOK, ResumeKinds, AdapterInv, NEW t \in Thread, NEW p, Moved(t, p), live \subseteq live',
           refused => refused',
           \A m \in Leg : \/ adapter'[m] \in {adapter[m], "dead"}
                          \/ t \in Handler /\ p \in Opening /\ m = loc'[t].leg /\ At(m, "idle"),
           ~refused' /\ t \in Handler /\ In(t, Opening) /\ MyLeg(t) \in Leg /\ adapter'[MyLeg(t)] = "alive" =>
              p \in Opening /\ loc'[t].leg = loc[t].leg,
           ~refused' /\ p \in Final /\ adapter'[loc'[t].leg] = "alive" =>
              In(t, Final) /\ loc'[t].leg = loc[t].leg,
           ~refused' /\ t \in Leg /\ p \in Working /\ loc'[t].fatal => adapter'[t] # "alive"
    PROVE  AdapterInv'
<1> USE Facts
<1>0. loc'[t].pc = p /\ \A u \in Thread : u # t => loc'[u] = loc[u]
  BY DEF Moved
<1> SUFFICES ASSUME ~refused', NEW l \in Leg, adapter'[l] = "alive"
             PROVE  Attended(l)' /\ ~DeadlyTurn(l)'
  BY DEF AdapterInv
<1>1. CASE t \in Handler /\ p \in Opening /\ l = loc'[t].leg /\ At(l, "idle")
  <2>1. Attended(l)'
    BY <1>0, <1>1 DEF Attended, In, MyLeg
  <2>2. ~DeadlyTurn(l)'
    BY <1>0, <1>1 DEF DeadlyTurn, In, At, Working
  <2> QED BY <2>1, <2>2
<1>2. CASE adapter'[l] \in {adapter[l], "dead"}
  <2>1. adapter[l] = "alive" /\ Attended(l) /\ ~DeadlyTurn(l)
    BY <1>2 DEF AdapterInv
  <2>2. ~DeadlyTurn(l)'
    BY <1>0, <2>1 DEF DeadlyTurn, In
  <2>3. CASE \E h \in Handler : MyLeg(h) = l /\ In(h, Opening)
    <3>1. PICK h \in Handler : MyLeg(h) = l /\ In(h, Opening)
      BY <2>3
    <3>2. (MyLeg(h) = l /\ In(h, Opening))'
      <4>1. CASE h = t
        BY <1>0, <3>1, <4>1 DEF In, MyLeg
      <4>2. CASE h # t
        BY <1>0, <3>1, <4>2 DEF In, MyLeg
      <4> QED BY <4>1, <4>2
    <3> QED BY <2>2, <3>2 DEF Attended
  <2>4. CASE l \in live /\ \A u \in Thread : MyLeg(u) = l => ~In(u, Final)
    <3>1. ASSUME NEW u \in Thread, (MyLeg(u) = l)' PROVE ~In(u, Final)'
      <4>1. CASE u = t
        BY <1>0, <2>4, <3>1, <4>1 DEF In, MyLeg
      <4>2. CASE u # t
        BY <1>0, <2>4, <3>1, <4>2 DEF In, MyLeg
      <4> QED BY <4>1, <4>2
    <3> QED BY <2>2, <2>4, <3>1 DEF Attended
  <2> QED BY <2>1, <2>3, <2>4 DEF Attended
<1> QED BY <1>1, <1>2

\* A thread that neither opens a program nor ends one.
LEMMA AdapterStays ==
    ASSUME ConstantsOK, ResumeKinds, AdapterInv, NEW t \in Thread, NEW p, Moved(t, p), live' = live,
           refused => refused', adapter' = adapter, t \notin Handler \/ ~In(t, Opening),
           p \notin Final, p \notin Working
    PROVE  AdapterInv'
BY AdapterMoves

\* An opening that goes on.
LEMMA OpeningStays ==
    ASSUME ConstantsOK, ResumeKinds, AdapterInv, NEW h \in Handler, NEW p \in Opening, Moved(h, p), Same(h),
           live \subseteq live', refused => refused',
           \/ adapter' = adapter
           \/ /\ MyLeg(h) \in Leg /\ At(MyLeg(h), "idle")
              /\ \A m \in Leg : m # MyLeg(h) => adapter'[m] = adapter[m]
    PROVE  AdapterInv'
<1>1. h \in Thread /\ h \notin Leg /\ p \notin Final /\ loc'[h].leg = MyLeg(h)
  BY Facts DEF Opening, Final, Same, MyLeg
<1>2. \A m \in Leg : \/ adapter'[m] \in {adapter[m], "dead"}
                     \/ m = loc'[h].leg /\ At(m, "idle")
  BY <1>1
<1> QED BY <1>1, <1>2, AdapterMoves DEF MyLeg

LEMMA AdapterKept ==
    ASSUME ConstantsOK, ResumeKinds, ResumeKinds', ThreadInv, LegInv, StateInv, AdapterInv, [Next]_vars
    PROVE  AdapterInv'
<1> USE Facts
<1>0. /\ legs \in Leg /\ live \in SUBSET Leg /\ refused \in BOOLEAN
      /\ adapter \in [Leg -> {"none", "alive", "dead", "stray"}]
  BY DEF ResumeKinds
<1>1. ASSUME NEW h \in Handler, HandlerStep(h) PROVE AdapterInv'
  <2>0. h \in Thread /\ h \notin Leg /\ OfHandler(h) /\ OfResumption(h) /\ StartsLive(h)
    BY DEF ThreadInv, LegInv, StateInv
  <2>r. In(h, Starting) => Resumes(h) /\ ~At(h, "lock") /\ MyLeg(h) = legs
    BY <2>0 DEF OfHandler, OfResumption, In, At, Starting
  <2>b. In(h, Before) => Resumes(h) /\ ~At(h, "lock") /\ MyLeg(h) \in Leg /\ At(MyLeg(h), "idle")
    BY <1>0, <2>0 DEF OfHandler, OfResumption, In, At, Before, Leg
  <2>l. ASSUME Leave(h), live' = live, adapter' = adapter, refused => refused', ~In(h, Opening) PROVE AdapterInv'
    <3>1. Moved(h, "over")
      BY <2>l, LeaveIs
    <3> QED BY <2>0, <2>l, <3>1, AdapterStays DEF Final, Working
  <2>1. ASSUME NEW l \in Leg, Request(h, l) PROVE AdapterInv'
    BY <2>0, <2>1, RequestIs, AdapterStays DEF Request, records, lease, In, Opening, Final, Working
  <2>2. ASSUME NEW l \in Leg, EndLeg(h, l) PROVE AdapterInv'
    BY <2>0, <2>2, EndIs, AdapterStays DEF EndLeg, records, lease, In, Opening, Final, Working
  <2>3. CASE TakeLock(h)
    BY <2>0, <2>3, PlainIs, AdapterStays DEF TakeLock, records, lease, In, At, Opening, Final, Working
  <2>4. CASE Refuse(h)
    BY <2>4, <2>l, PlainIs DEF Refuse, records, lease, In, At, Opening
  <2>5. CASE Check(h)
    <3>1. PICK p \in {"acquire", "prepare"} : p = IF writes THEN "acquire" ELSE "prepare"
      OBVIOUS
    <3>2. Moved(h, p) /\ live' = live /\ adapter' = adapter /\ refused' = refused /\ ~In(h, Opening)
      BY <2>5, <3>1, CheckIs DEF Check, records, lease, In, At, Opening
    <3> QED BY <2>0, <3>2, AdapterStays DEF Final, Working
  <2>6. CASE Acquire(h)
    <3>1. live' = live /\ adapter' = adapter /\ (refused => refused') /\ ~In(h, Opening)
      BY <2>6, AcquireIs DEF Acquire, In, Opening
    <3>2. CASE Moved(h, "prepare")
      BY <2>0, <3>1, <3>2, AdapterStays DEF Final, Working
    <3> QED BY <2>6, <2>l, <3>1, <3>2, AcquireIs
  <2>7. CASE Prepare(h)
    <3>1. /\ Moved(h, "insert") /\ Same(h) /\ live' = live /\ refused' = refused
          /\ adapter' \in {adapter, [adapter EXCEPT ![MyLeg(h)] = "alive"]}
      BY <2>7, PlainIs DEF Prepare, lease
    <3>2. MyLeg(h) \in Leg /\ At(MyLeg(h), "idle")
      BY <2>b, <2>7 DEF Prepare, In, At, Before
    <3>3. \A m \in Leg : m # MyLeg(h) => adapter'[m] = adapter[m]
      BY <1>0, <3>1
    <3> QED BY <3>1, <3>2, <3>3, OpeningStays DEF Opening
  <2>8. CASE Denied(h)
    <3>1. refused => refused'
      BY <2>8 DEF Denied
    <3> QED BY <2>0, <2>8, <3>1, PlainIs, AdapterStays DEF Denied, In, At, Opening, Final, Working
  <2>9. CASE Unprepared(h)
    <3>0. At(h, "insert") /\ Moved(h, "giveback") /\ Same(h) /\ live' = live
      BY <2>9, PlainIs DEF Unprepared
    <3>1. PICK proven \in BOOLEAN :
             IF adapter[MyLeg(h)] = "alive" THEN Kill(MyLeg(h), proven) ELSE proven /\ UNCHANGED <<adapter, lease>>
      BY <2>9 DEF Unprepared
    <3>2. MyLeg(h) \in Leg
      BY <2>b, <3>0 DEF In, At, Before
    <3>3. /\ (refused => refused') /\ \A m \in Leg : adapter'[m] \in {adapter[m], "dead"}
          /\ (adapter'[MyLeg(h)] = "alive" => refused')
      <4>1. CASE adapter[MyLeg(h)] = "alive"
        BY <3>1, <3>2, <4>1, KillIs DEF Yields
      <4>2. CASE adapter[MyLeg(h)] # "alive"
        BY <3>1, <4>2 DEF lease
      <4> QED BY <4>1, <4>2
    <3> QED BY <2>0, <3>0, <3>3, AdapterMoves DEF Final
  <2>10. CASE GiveBack(h)
    <3>1. refused => refused'
      <4>1. loc[h].claim \in Claim \cup {NoClaim}
        BY <2>0 DEF ResumeKinds, Locals
      <4> QED BY <2>10, <4>1, ReleasesIs DEF GiveBack, Yields
    <3> QED BY <2>10, <2>l, <3>1 DEF GiveBack, In, At, Opening
  <2>11. CASE Insert(h)
    BY <2>11, PlainIs, OpeningStays DEF Insert, lease, Opening
  <2>12. CASE Register(h)
    <3>1. live \subseteq live' /\ adapter' = adapter /\ refused' = refused
      BY <2>12 DEF Register, lease
    <3> QED BY <2>12, <3>1, PlainIs, OpeningStays DEF Opening
  <2>13. CASE Open(h)
    <3>1. /\ Moved(h, "launch") /\ Same(h) /\ live' = live /\ refused' = refused
          /\ adapter' = [adapter EXCEPT ![MyLeg(h)] = "alive"] /\ At(h, "open")
      BY <2>13, PlainIs DEF Open, lease
    <3>2. MyLeg(h) \in Leg /\ At(MyLeg(h), "idle")
      BY <1>0, <2>0, <2>r, <3>1 DEF OfResumption, In, At, Starting
    <3>3. \A m \in Leg : m # MyLeg(h) => adapter'[m] = adapter[m]
      BY <1>0, <3>1
    <3> QED BY <3>1, <3>2, <3>3, OpeningStays DEF Opening
  <2>14. CASE Launch(h)
    <3>1. At(h, "launch") /\ MyLeg(h) = legs /\ live' = live /\ adapter' = adapter /\ refused' = refused
      BY <2>r, <2>14 DEF Launch, lease, In, At, Starting
    <3>2. /\ loc'[h].pc = "launched" /\ Same(h) /\ loc'[legs].pc = "turn" /\ ~loc'[legs].fatal
          /\ \A t \in Thread : t # h /\ t # legs => loc'[t] = loc[t]
      BY <1>0, <2>14, <3>1, LaunchIs
    <3> SUFFICES ASSUME ~refused', NEW l \in Leg, adapter'[l] = "alive"
                 PROVE  Attended(l)' /\ ~DeadlyTurn(l)'
      BY DEF AdapterInv
    <3>3. adapter[l] = "alive" /\ Attended(l) /\ ~DeadlyTurn(l)
      BY <3>1 DEF AdapterInv
    <3>4. ~DeadlyTurn(l)'
      <4>1. CASE l = legs
        BY <3>2, <4>1 DEF DeadlyTurn
      <4>2. CASE l # legs
        BY <2>0, <3>2, <3>3, <4>2 DEF DeadlyTurn, In
      <4> QED BY <4>1, <4>2
    <3>5. CASE l = legs
      BY <3>1, <3>2, <3>4, <3>5 DEF Attended, In, MyLeg, Opening, Same
    <3>6. CASE l # legs
      <4>1. CASE \E g \in Handler : MyLeg(g) = l /\ In(g, Opening)
        <5>1. PICK g \in Handler : MyLeg(g) = l /\ In(g, Opening)
          BY <4>1
        <5>2. loc'[g] = loc[g]
          BY <1>0, <3>1, <3>2, <3>6, <5>1
        <5> QED BY <3>4, <5>1, <5>2 DEF Attended, In, MyLeg
      <4>2. CASE l \in live /\ \A u \in Thread : MyLeg(u) = l => ~In(u, Final)
        <5>1. ASSUME NEW u \in Thread, (MyLeg(u) = l)' PROVE ~In(u, Final)'
          <6>1. CASE u = h \/ u = legs
            BY <3>2, <6>1 DEF In, Final
          <6>2. CASE u # h /\ u # legs
            BY <3>2, <4>2, <5>1, <6>2 DEF In, MyLeg
          <6> QED BY <6>1, <6>2
        <5> QED BY <3>1, <3>4, <4>2, <5>1 DEF Attended
      <4> QED BY <3>3, <4>1, <4>2 DEF Attended
    <3> QED BY <3>5, <3>6
  <2>15. CASE Launched(h)
    <3>1. live' = live /\ adapter' = adapter /\ refused' = refused /\ At(h, "launched")
      BY <2>15, PlainIs DEF Launched, records, lease
    <3>2. CASE Moved(h, "undo") /\ Same(h)
      BY <3>1, <3>2, OpeningStays DEF Opening
    <3>3. CASE state[MyLeg(h)] # "terminal" /\ Leave(h)
      <4>1. Moved(h, "over") /\ loc'[h].pc = "over" /\ \A u \in Thread : u # h => loc'[u] = loc[u]
        BY <3>3, LeaveIs DEF Moved
      <4>2. MyLeg(h) \in live /\ Resumes(h) /\ ~At(h, "lock")
        BY <2>0, <2>r, <3>1, <3>3 DEF StartsLive, In, At, Starting
      <4>3. ASSUME NEW u \in Thread, MyLeg(u) = MyLeg(h) PROVE ~In(u, Final)
        <5>1. CASE Resumes(u)
          <6>1. CASE At(u, "lock")
            BY <6>1 DEF In, At, Final
          <6>2. CASE ~At(u, "lock")
            <7>1. u \in Handler
              BY <5>1 DEF ThreadInv, OfWorker, Thread
            <7>2. u = h
              BY <4>2, <5>1, <6>2, <7>1, OneResumes
            <7> QED BY <3>1, <7>2 DEF In, At, Final
          <6> QED BY <6>1, <6>2
        <5>2. CASE ~Resumes(u)
          BY <3>3, <4>3, <5>2 DEF StateInv, EndsTerminal, In, Final
        <5> QED BY <5>1, <5>2
      <4> SUFFICES ASSUME ~refused', NEW l \in Leg, adapter'[l] = "alive"
                   PROVE  Attended(l)' /\ ~DeadlyTurn(l)'
        BY DEF AdapterInv
      <4>4. adapter[l] = "alive" /\ Attended(l) /\ ~DeadlyTurn(l)
        BY <3>1 DEF AdapterInv
      <4>5. ~DeadlyTurn(l)'
        BY <2>0, <4>1, <4>4 DEF DeadlyTurn, In
      <4>6. CASE l = MyLeg(h)
        <5>1. ASSUME NEW u \in Thread, (MyLeg(u) = l)' PROVE ~In(u, Final)'
          <6>1. CASE u = h
            BY <4>1, <6>1 DEF In, Final
          <6>2. CASE u # h
            BY <4>1, <4>3, <4>6, <5>1, <6>2 DEF In, MyLeg
          <6> QED BY <6>1, <6>2
        <5> QED BY <3>1, <4>2, <4>5, <4>6, <5>1 DEF Attended
      <4>7. CASE l # MyLeg(h)
        <5>1. CASE \E g \in Handler : MyLeg(g) = l /\ In(g, Opening)
          <6>1. PICK g \in Handler : MyLeg(g) = l /\ In(g, Opening)
            BY <5>1
          <6>2. loc'[g] = loc[g]
            BY <4>1, <4>7, <6>1
          <6> QED BY <4>5, <6>1, <6>2 DEF Attended, In, MyLeg
        <5>2. CASE l \in live /\ \A u \in Thread : MyLeg(u) = l => ~In(u, Final)
          <6>1. ASSUME NEW u \in Thread, (MyLeg(u) = l)' PROVE ~In(u, Final)'
            <7>1. CASE u = h
              BY <4>1, <7>1 DEF In, Final
            <7>2. CASE u # h
              BY <4>1, <5>2, <6>1, <7>2 DEF In, MyLeg
            <7> QED BY <7>1, <7>2
          <6> QED BY <3>1, <4>5, <5>2, <6>1 DEF Attended
        <5> QED BY <4>4, <5>1, <5>2 DEF Attended
      <4> QED BY <4>6, <4>7
    <3> QED BY <2>15, <3>2, <3>3, PlainIs
  <2>16. CASE StartFails(h)
    <3>1. refused => refused'
      BY <2>16 DEF StartFails
    <3> QED BY <2>16, <3>1, PlainIs, OpeningStays DEF StartFails, Opening
  <2>17. CASE Undo(h)
    <3>1. Resumes(h) /\ MyLeg(h) \in Leg /\ live' = live
      BY <1>0, <2>r, <2>17 DEF Undo, In, At, Starting
    <3>2. /\ Moved(h, "t8") /\ Same(h) /\ (refused => refused') /\ (adapter'[MyLeg(h)] = "alive" => refused')
          /\ \A m \in Leg : adapter'[m] \in {adapter[m], "dead"}
      BY <2>17, <3>1, UndoIs DEF Yields
    <3> QED BY <2>0, <3>1, <3>2, AdapterMoves DEF Same, MyLeg
  <2>18. CASE Undone(h)
    <3>1. refused => refused'
      <4>1. loc[h].claim \in Claim \cup {NoClaim}
        BY <2>0 DEF ResumeKinds, Locals
      <4> QED BY <2>18, <4>1, ReleasesIs DEF Undone, Yields, lease
    <3> QED BY <2>18, <2>l, <3>1 DEF Undone, In, At, Opening
  <2> QED BY <1>1, <2>1, <2>2, <2>3, <2>4, <2>5, <2>6, <2>7, <2>8, <2>9, <2>10, <2>11, <2>12, <2>13, <2>14,
             <2>15, <2>16, <2>17, <2>18 DEF HandlerStep
<1>2. ASSUME NEW l \in Leg, TurnEnds(l) PROVE AdapterInv'
  <2>1. /\ Moved(l, "cleanup") /\ l \notin Handler /\ live' = live /\ (refused => refused') /\ loc[l].pc = "turn"
        /\ \A m \in Leg : adapter'[m] \in {adapter[m], "dead"}
        /\ (loc'[l].fatal /\ ~loc[l].fatal => (adapter'[l] = "alive" => refused'))
    BY <1>2, TurnEndsIs DEF TurnEnds, Yields
  <2>2. ~refused' /\ loc'[l].fatal => adapter'[l] # "alive"
    BY <2>1 DEF AdapterInv, DeadlyTurn, In, Working
  <2> QED BY <2>1, <2>2, AdapterMoves DEF Final
<1>3. ASSUME NEW l \in Leg, Cleanup(l) PROVE AdapterInv'
  <2>1. live' = live /\ adapter' = adapter /\ (refused => refused') /\ loc[l].pc = "cleanup" /\ l \notin Handler
    BY <1>3, CleanupIs DEF Cleanup, Yields
  <2>2. CASE Moved(l, "idle") \/ Moved(l, "kill")
    BY <2>1, <2>2, AdapterStays DEF Final, Working
  <2>3. CASE Moved(l, "t8") /\ Same(l) /\ loc[l].fatal
    <3>1. loc'[l].leg = l
      BY <2>1, <2>3 DEF ThreadInv, OfWorker, At, MyLeg, Same
    <3>2. ~refused' => adapter'[l] # "alive"
      BY <2>1, <2>3 DEF AdapterInv, DeadlyTurn, In, Working
    <3> QED BY <2>1, <2>3, <3>1, <3>2, AdapterMoves DEF Working
  <2> QED BY <1>3, <2>2, <2>3, CleanupIs
<1>4. ASSUME NEW t \in Thread, Finalization(t) PROVE AdapterInv'
  <2>1. CASE EndAdapter(t)
    <3>1. live' = live /\ At(t, "kill") /\ Moved(t, "t8") /\ Same(t)
      BY <2>1, EndingIs DEF EndAdapter
    <3>2. MyLeg(t) \in Leg
      BY <1>0, <3>1 DEF LegInv, Recorded, In, At, Ending, Leg
    <3>3. /\ (refused => refused') /\ (adapter'[MyLeg(t)] = "alive" => refused')
          /\ \A m \in Leg : adapter'[m] \in {adapter[m], "dead"}
      BY <2>1, <3>2, KillIs DEF EndAdapter, Yields
    <3>4. ~In(t, Opening)
      BY <3>1 DEF In, At, Opening
    <3> QED BY <3>1, <3>3, <3>4, AdapterMoves DEF Same, MyLeg, Working
  <2>2. CASE Finalize(t)
    <3>1. /\ live' = live /\ adapter' = adapter /\ At(t, "t8") /\ Moved(t, "deregister") /\ Same(t)
      BY <2>2, EndingIs DEF Finalize
    <3>2. refused => refused'
      BY <2>2 DEF Finalize
    <3>3. ~In(t, Opening) /\ In(t, Final)
      BY <3>1 DEF In, At, Opening, Final
    <3> QED BY <3>1, <3>2, <3>3, AdapterMoves DEF Same, Working
  <2>3. CASE Deregister(t)
    <3>1. live' = live \ {MyLeg(t)} /\ adapter' = adapter /\ refused' = refused /\ At(t, "deregister")
      BY <2>3 DEF Deregister, lease
    <3>2. PICK p \in {"release", "undone", "over", "idle"} : Moved(t, p)
      BY <2>3, EndingIs, DisownIs
    <3>3. loc'[t].pc = p /\ \A u \in Thread : u # t => loc'[u] = loc[u]
      BY <3>2 DEF Moved
    <3> SUFFICES ASSUME ~refused', NEW l \in Leg, adapter'[l] = "alive"
                 PROVE  Attended(l)' /\ ~DeadlyTurn(l)'
      BY DEF AdapterInv
    <3>4. adapter[l] = "alive" /\ Attended(l) /\ ~DeadlyTurn(l)
      BY <3>1 DEF AdapterInv
    <3>5. ~DeadlyTurn(l)'
      BY <3>3, <3>4 DEF DeadlyTurn, In, Working
    <3>6. CASE \E g \in Handler : MyLeg(g) = l /\ In(g, Opening)
      <4>1. PICK g \in Handler : MyLeg(g) = l /\ In(g, Opening)
        BY <3>6
      <4>2. g # t
        BY <3>1, <4>1 DEF In, At, Opening
      <4> QED BY <3>3, <3>5, <4>1, <4>2 DEF Attended, In, MyLeg
    <3>7. CASE l \in live /\ \A u \in Thread : MyLeg(u) = l => ~In(u, Final)
      <4>1. MyLeg(t) # l
        BY <3>1, <3>7 DEF In, At, Final
      <4>2. ASSUME NEW u \in Thread, (MyLeg(u) = l)' PROVE ~In(u, Final)'
        <5>1. CASE u = t
          BY <3>3, <5>1 DEF In, Final
        <5>2. CASE u # t
          BY <3>3, <3>7, <4>2, <5>2 DEF In, MyLeg
        <5> QED BY <5>1, <5>2
      <4> QED BY <3>1, <3>5, <3>7, <4>1, <4>2 DEF Attended
    <3> QED BY <3>4, <3>6, <3>7 DEF Attended
  <2>4. CASE ReleaseToken(t)
    <3>1. live' = live /\ adapter' = adapter /\ At(t, "release")
      BY <2>4 DEF ReleaseToken
    <3>2. PICK p \in {"undone", "over", "idle"} : Moved(t, p)
      BY <2>4, EndingIs, DisownIs
    <3>3. refused => refused'
      <4>1. token[MyLeg(t)] \in Claim \cup {NoClaim}
        BY <1>0, <3>1 DEF LegInv, Recorded, In, At, Ending, Leg, ResumeKinds
      <4> QED BY <2>4, <4>1, ReleasesIs DEF ReleaseToken, Yields
    <3>4. ~In(t, Opening) /\ p \notin Final /\ p \notin Working
      BY <3>1, <3>2 DEF In, At, Opening, Final, Working
    <3> QED BY <3>1, <3>2, <3>3, <3>4, AdapterStays
  <2> QED BY <1>4, <2>1, <2>2, <2>3, <2>4 DEF Finalization
<1>5. CASE OtherConversation
  <2>1. refused => refused'
    BY <1>5 DEF OtherConversation
  <2> QED BY <1>5, <2>1 DEF OtherConversation, AdapterInv, Attended, DeadlyTurn, In, MyLeg
<1>6. CASE CrashAndBoot
  <2>1. \A l \in Leg : adapter'[l] # "alive"
    BY <1>0, <1>6 DEF CrashAndBoot
  <2> QED BY <2>1 DEF AdapterInv
<1>7. CASE UNCHANGED vars
  BY <1>7 DEF vars, lease, AdapterInv, Attended, DeadlyTurn, In, MyLeg
<1> QED BY <1>1, <1>2, <1>3, <1>4, <1>5, <1>6, <1>7 DEF Next

----------------------------------------------------------------------------
(***************************************************************************)
(* The claim that holds the workspace: what a step must not lose.          *)
(***************************************************************************)
LEMMA ClaimMoves ==
    ASSUME ConstantsOK, ResumeKinds, ClaimInv, NEW t \in Thread, NEW p, Moved(t, p),
           writes' = writes, token' = token, live' = live, refused => refused',
           holder' = holder \/ holder' \notin Claim,
           p = "acquire" => writes, ~At(t, "release"),
           holder \in Claim /\ holder' = holder /\ ~refused' /\ loc[t].claim = holder => loc'[t].claim = holder,
           t \in Handler /\ Registered(t)' => Registered(t) /\ Same(t)
    PROVE  ClaimInv'
<1> USE Facts
<1>0. loc'[t].pc = p /\ \A u \in Thread : u # t => loc'[u] = loc[u]
  BY DEF Moved
<1>1. (holder \in Claim => writes)'
  BY DEF ClaimInv
<1>2. ASSUME NEW h \in Handler PROVE (At(h, "acquire") => writes)'
  BY <1>0 DEF ClaimInv, At
<1>3. ASSUME holder' \in Claim, ~refused' PROVE Accounted' /\ \A h \in Handler : Handed(h)'
  <2>0. holder' = holder /\ holder \in Claim /\ Accounted /\ \A h \in Handler : Handed(h)
    BY <1>3 DEF ClaimInv
  <2>g. ASSUME NEW u \in Thread, At(u, "release") PROVE u # t /\ loc'[u] = loc[u]
    BY <1>0, <2>g
  <2>1. Accounted'
    <3>1. CASE \E l \in live : token[l] = holder
      BY <2>0, <3>1 DEF Accounted
    <3>2. CASE \E u \in Thread : loc[u].claim = holder
      BY <1>0, <1>3, <2>0, <3>2 DEF Accounted
    <3>3. CASE \E u \in Thread : At(u, "release") /\ token[MyLeg(u)] = holder
      BY <2>0, <2>g, <3>3 DEF Accounted, At, MyLeg
    <3> QED BY <2>0, <3>1, <3>2, <3>3 DEF Accounted
  <2>2. ASSUME NEW h \in Handler, Registered(h)', (loc[h].claim = holder)'
        PROVE  (token[MyLeg(h)] = holder /\ Guarded(MyLeg(h)))'
    <3>1. Registered(h) /\ loc'[h].claim = loc[h].claim /\ loc'[h].leg = loc[h].leg
      <4>1. CASE h = t
        BY <2>2, <4>1 DEF Same
      <4>2. CASE h # t
        BY <1>0, <2>2, <4>2 DEF Registered, In, At, Resumes, MyLeg
      <4> QED BY <4>1, <4>2
    <3>2. token[MyLeg(h)] = holder /\ Guarded(MyLeg(h))
      BY <2>0, <2>2, <3>1 DEF Handed
    <3> QED BY <2>0, <2>g, <3>1, <3>2 DEF Guarded, At, MyLeg
  <2> QED BY <2>1, <2>2 DEF Handed
<1> QED BY <1>1, <1>2, <1>3 DEF ClaimInv

\* A thread that has no claim to lose and comes to none of the places after the
\* registration, or stays there.
LEMMA ClaimStays ==
    ASSUME ConstantsOK, ResumeKinds, ClaimInv, NEW t \in Thread, NEW p, Moved(t, p),
           writes' = writes, token' = token, live' = live, refused => refused', holder' = holder,
           ~At(t, "release"), p = "acquire" => writes,
           loc[t].claim = NoClaim \/ Same(t),
           p \in {"idle", "over", "lock", "check", "turn", "cleanup", "register", "kill"} \cup Before
    PROVE  ClaimInv'
<1> USE Facts
<1>1. t \in Handler => ~Registered(t)'
  BY DEF Moved, Registered, In, At, Before
<1>2. loc[t].claim = holder /\ holder \in Claim => loc'[t].claim = holder
  BY DEF Same
<1> QED BY <1>1, <1>2, ClaimMoves

LEMMA LeavesClaim ==
    ASSUME ConstantsOK, ResumeKinds, ClaimInv, NEW h \in Handler, Leave(h),
           writes' = writes, token' = token, live' = live, refused => refused', ~At(h, "release"),
           holder' = holder \/ holder' \notin Claim,
           holder \in Claim /\ holder' = holder /\ ~refused' => loc[h].claim # holder
    PROVE  ClaimInv'
<1> USE Facts
<1>1. h \in Thread /\ Moved(h, "over")
  BY LeaveIs
<1>2. ~Registered(h)'
  BY <1>1 DEF Moved, Registered, In, At
<1> QED BY <1>1, <1>2, ClaimMoves

\* A claim that was given back is not its holder's any more, or the lease says so.
LEMMA GivenBack ==
    ASSUME ConstantsOK, ResumeKinds, NEW c \in Claim \cup {NoClaim}, NEW proven,
           \E r \in Releases(c, proven) : GivesBack(r)
    PROVE  /\ refused => refused'
           /\ holder' = holder \/ holder' \notin Claim
           /\ holder \in Claim /\ holder' = holder /\ ~refused' => c # holder
BY Facts, ReleasesIs DEF Yields

\* After its registration the claim is the leg's: its resumption may leave.
LEMMA LeavesHanded ==
    ASSUME ConstantsOK, ResumeKinds, ClaimInv, NEW h \in Handler, Leave(h), Registered(h), ~At(h, "release"),
           writes' = writes, token' = token, live' = live, refused' = refused, holder' = holder
    PROVE  ClaimInv'
<1> USE Facts
<1>0. loc'[h].pc = "over" /\ \A u \in Thread : u # h => loc'[u] = loc[u]
  BY LeaveIs DEF Moved
<1>1. ASSUME NEW g \in Handler PROVE (At(g, "acquire") => writes)'
  BY <1>0 DEF ClaimInv, At
<1>2. ASSUME holder' \in Claim, ~refused' PROVE Accounted' /\ \A g \in Handler : Handed(g)'
  <2>0. holder' = holder /\ Accounted /\ \A g \in Handler : Handed(g)
    BY <1>2 DEF ClaimInv
  <2>g. ASSUME NEW u \in Thread, At(u, "release") PROVE loc'[u] = loc[u]
    BY <1>0, <2>g
  <2>1. Accounted'
    <3>1. CASE \E l \in live : token[l] = holder
      BY <2>0, <3>1 DEF Accounted
    <3>2. CASE \E u \in Thread : loc[u].claim = holder
      <4>1. PICK u \in Thread : loc[u].claim = holder
        BY <3>2
      <4>2. CASE u # h
        BY <1>0, <2>0, <4>1, <4>2 DEF Accounted
      <4>3. CASE u = h
        <5>1. token[MyLeg(h)] = holder /\ Guarded(MyLeg(h))
          BY <2>0, <4>1, <4>3 DEF Handed
        <5>2. CASE MyLeg(h) \in live
          BY <2>0, <5>1, <5>2 DEF Accounted
        <5>3. CASE \E v \in Thread : At(v, "release") /\ MyLeg(v) = MyLeg(h)
          BY <2>0, <2>g, <5>1, <5>3 DEF Accounted, At, MyLeg
        <5> QED BY <5>1, <5>2, <5>3 DEF Guarded
      <4> QED BY <4>2, <4>3
    <3>3. CASE \E u \in Thread : At(u, "release") /\ token[MyLeg(u)] = holder
      BY <2>0, <2>g, <3>3 DEF Accounted, At, MyLeg
    <3> QED BY <2>0, <3>1, <3>2, <3>3 DEF Accounted
  <2>2. ASSUME NEW g \in Handler, Registered(g)', (loc[g].claim = holder)'
        PROVE  (token[MyLeg(g)] = holder /\ Guarded(MyLeg(g)))'
    <3>1. g # h
      BY <1>0, <2>2 DEF Registered, In, At
    <3>2. Registered(g) /\ loc'[g] = loc[g]
      BY <1>0, <2>2, <3>1 DEF Registered, In, At, Resumes, MyLeg
    <3>3. token[MyLeg(g)] = holder /\ Guarded(MyLeg(g))
      BY <2>0, <2>2, <3>2 DEF Handed
    <3> QED BY <2>0, <2>g, <3>2, <3>3 DEF Guarded, At, MyLeg
  <2> QED BY <2>1, <2>2 DEF Handed
<1> QED BY <1>1, <1>2 DEF ClaimInv

\* The claim of leg m was given back by thread t.
LEMMA TokenMoves ==
    ASSUME ConstantsOK, ResumeKinds, ClaimInv, NEW t \in Thread, NEW p, Moved(t, p), NEW m \in Leg,
           writes' = writes, live' = live, Yields, p # "acquire",
           token[m] \in Claim /\ holder' = token[m] => refused',
           token' \in {token, [token EXCEPT ![m] = NoClaim]},
           At(t, "release") => MyLeg(t) = m,
           loc[t].claim = NoClaim \/ Same(t),
           t \in Handler /\ Registered(t)' => Registered(t) /\ Same(t)
    PROVE  ClaimInv'
<1> USE Facts
<1>0. loc'[t].pc = p /\ \A u \in Thread : u # t => loc'[u] = loc[u]
  BY DEF Moved
<1>1. (holder \in Claim => writes)'
  BY DEF ClaimInv, Yields
<1>2. ASSUME NEW h \in Handler PROVE (At(h, "acquire") => writes)'
  BY <1>0 DEF ClaimInv, At
<1>3. ASSUME holder' \in Claim, ~refused' PROVE Accounted' /\ \A h \in Handler : Handed(h)'
  <2>0. holder' = holder /\ holder \in Claim /\ Accounted /\ \A h \in Handler : Handed(h)
    BY <1>3 DEF ClaimInv, Yields
  <2>1. token[m] # holder /\ \A l \in Leg : token[l] = holder => token'[l] = holder
    BY <1>3, <2>0 DEF ResumeKinds
  <2>k. \A l : token[l] = holder => token'[l] = holder
    <3>1. CASE token' = token
      BY <3>1
    <3>2. CASE token' = [token EXCEPT ![m] = NoClaim]
      BY <2>1, <3>2 DEF ResumeKinds
    <3> QED BY <3>1, <3>2
  <2>2. Accounted'
    <3>1. CASE \E l \in live : token[l] = holder
      BY <2>0, <2>k, <3>1 DEF Accounted
    <3>2. CASE \E u \in Thread : loc[u].claim = holder
      BY <1>0, <2>0, <3>2 DEF Accounted, Same
    <3>3. CASE \E u \in Thread : At(u, "release") /\ token[MyLeg(u)] = holder
      BY <1>0, <2>0, <2>1, <2>k, <3>3 DEF Accounted, At, MyLeg
    <3> QED BY <2>0, <3>1, <3>2, <3>3 DEF Accounted
  <2>3. ASSUME NEW h \in Handler, Registered(h)', (loc[h].claim = holder)'
        PROVE  (token[MyLeg(h)] = holder /\ Guarded(MyLeg(h)))'
    <3>1. Registered(h) /\ loc'[h].claim = loc[h].claim /\ loc'[h].leg = loc[h].leg
      <4>1. CASE h = t
        BY <2>3, <4>1 DEF Same
      <4>2. CASE h # t
        BY <1>0, <2>3, <4>2 DEF Registered, In, At, Resumes, MyLeg
      <4> QED BY <4>1, <4>2
    <3>2. token[MyLeg(h)] = holder /\ Guarded(MyLeg(h))
      BY <2>0, <2>3, <3>1 DEF Handed
    <3>3. (token[MyLeg(h)] = holder)'
      BY <2>0, <2>k, <3>1, <3>2 DEF MyLeg
    <3>4. CASE MyLeg(h) \in live
      BY <3>1, <3>3, <3>4 DEF Guarded, MyLeg
    <3>5. CASE \E u \in Thread : At(u, "release") /\ MyLeg(u) = MyLeg(h)
      <4>1. PICK u \in Thread : At(u, "release") /\ MyLeg(u) = MyLeg(h)
        BY <3>5
      <4>2. u # t
        BY <2>1, <3>2, <4>1
      <4> QED BY <1>0, <3>1, <3>3, <4>1, <4>2 DEF Guarded, At, MyLeg
    <3> QED BY <3>2, <3>4, <3>5 DEF Guarded
  <2> QED BY <2>2, <2>3 DEF Handed
<1> QED BY <1>1, <1>2, <1>3 DEF ClaimInv

LEMMA ClaimKept ==
    ASSUME ConstantsOK, ResumeKinds, ResumeKinds', ThreadInv, LegInv, ClaimInv, [Next]_vars
    PROVE  ClaimInv'
<1> USE Facts
<1>0. /\ legs \in Leg /\ live \in SUBSET Leg /\ refused \in BOOLEAN
      /\ token \in [Leg -> Claim \cup {NoClaim}]
  BY DEF ResumeKinds
<1>1. ASSUME NEW h \in Handler, HandlerStep(h) PROVE ClaimInv'
  <2>0. h \in Thread /\ h \notin Leg /\ OfHandler(h) /\ OfResumption(h) /\ Claimless(h)
    BY DEF ThreadInv, LegInv
  <2>r. In(h, Starting) => Resumes(h) /\ ~At(h, "lock") /\ MyLeg(h) = legs
    BY <2>0 DEF OfHandler, OfResumption, In, At, Starting
  <2>n. In(h, {"idle", "lock", "check", "acquire"}) => loc[h].claim = NoClaim
    BY <2>0 DEF OfHandler, Claimless, In
  <2>c. loc[h].claim \in Claim \cup {NoClaim}
    BY <2>0 DEF ResumeKinds, Locals
  <2>1. ASSUME NEW l \in Leg, Request(h, l) PROVE ClaimInv'
    BY <2>0, <2>n, <2>1, RequestIs, ClaimStays DEF Request, records, lease, In, At
  <2>2. ASSUME NEW l \in Leg, EndLeg(h, l) PROVE ClaimInv'
    BY <2>0, <2>n, <2>2, EndIs, ClaimStays DEF EndLeg, records, lease, In, At
  <2>3. CASE TakeLock(h)
    BY <2>0, <2>3, PlainIs, ClaimStays DEF TakeLock, records, lease, At
  <2>4. CASE Refuse(h)
    <3>1. /\ At(h, "check") /\ Leave(h) /\ writes' = writes /\ token' = token /\ live' = live
          /\ refused' = refused /\ holder' = holder
      BY <2>4, PlainIs DEF Refuse, records, lease
    <3>2. loc[h].claim \notin Claim
      BY <2>n, <3>1 DEF In, At
    <3> QED BY <3>1, <3>2, LeavesClaim DEF At
  <2>5. CASE Check(h)
    <3>1. PICK p \in {"acquire", "prepare"} : p = IF writes THEN "acquire" ELSE "prepare"
      OBVIOUS
    <3>2. /\ Moved(h, p) /\ loc[h].pc = "check" /\ writes' = writes /\ token' = token /\ live' = live
          /\ refused' = refused /\ holder' = holder
      BY <2>5, <3>1, CheckIs DEF Check, records, lease
    <3>3. loc[h].claim = NoClaim /\ ~At(h, "release") /\ p \in Before /\ (p = "acquire" => writes)
      BY <2>n, <3>1, <3>2 DEF In, At, Before
    <3> QED BY <2>0, <3>2, <3>3, ClaimStays
  <2>6. CASE Acquire(h)
    <3>1. /\ writes' = writes /\ token' = token /\ live' = live /\ (refused => refused') /\ At(h, "acquire")
          /\ loc[h].claim = NoClaim
      BY <2>n, <2>6, AcquireIs DEF Acquire, In, At
    <3>2. ASSUME holder' \in Claim, ~refused', Moved(h, "prepare"), loc'[h].claim = holder',
                 \A t \in Thread : loc[t].claim # holder'
          PROVE  ClaimInv'
      <4>0. loc'[h].pc = "prepare" /\ \A u \in Thread : u # h => loc'[u] = loc[u]
        BY <3>2 DEF Moved
      <4>1. writes' /\ \A g \in Handler : (At(g, "acquire") => writes)'
        BY <3>1 DEF ClaimInv
      <4>2. Accounted'
        BY <2>0, <3>2 DEF Accounted
      <4>3. ASSUME NEW g \in Handler PROVE Handed(g)'
        <5>1. CASE g = h
          BY <4>0, <5>1 DEF Handed, Registered, In, At
        <5>2. CASE g # h
          BY <3>2, <4>0, <5>2 DEF Handed
        <5> QED BY <5>1, <5>2
      <4> QED BY <4>1, <4>2, <4>3 DEF ClaimInv
    <3>3. CASE holder' = holder /\ Leave(h)
      BY <3>1, <3>3, LeavesClaim DEF At
    <3> QED BY <2>6, <3>2, <3>3, AcquireIs
  <2>7. CASE Prepare(h)
    BY <2>0, <2>7, PlainIs, ClaimStays DEF Prepare, lease, At, Before
  <2>8. CASE Denied(h)
    <3>1. refused => refused'
      BY <2>8 DEF Denied
    <3> QED BY <2>0, <2>8, <3>1, PlainIs, ClaimStays DEF Denied, At, Before
  <2>9. CASE Unprepared(h)
    <3>0. /\ At(h, "insert") /\ Moved(h, "giveback") /\ Same(h)
          /\ writes' = writes /\ token' = token /\ live' = live
      BY <2>9, PlainIs DEF Unprepared
    <3>1. PICK proven \in BOOLEAN :
             IF adapter[MyLeg(h)] = "alive" THEN Kill(MyLeg(h), proven) ELSE proven /\ UNCHANGED <<adapter, lease>>
      BY <2>9 DEF Unprepared
    <3>2. (refused => refused') /\ holder' = holder
      BY <3>1 DEF lease, Kill
    <3> QED BY <2>0, <3>0, <3>2, ClaimStays DEF At, Before
  <2>10. CASE GiveBack(h)
    <3>1. /\ At(h, "giveback") /\ Leave(h) /\ writes' = writes /\ token' = token /\ live' = live
      BY <2>10 DEF GiveBack
    <3>2. \E r \in Releases(loc[h].claim, loc[h].proven) : GivesBack(r)
      BY <2>10 DEF GiveBack
    <3>3. /\ refused => refused'
          /\ holder' = holder \/ holder' \notin Claim
          /\ holder \in Claim /\ holder' = holder /\ ~refused' => loc[h].claim # holder
      BY <2>c, <3>2, GivenBack
    <3> QED BY <3>1, <3>3, LeavesClaim DEF At
  <2>11. CASE Insert(h)
    BY <2>0, <2>11, PlainIs, ClaimStays DEF Insert, lease, At
  <2>12. CASE Register(h)
    <3>1. /\ Moved(h, "open") /\ Same(h) /\ At(h, "register") /\ MyLeg(h) = legs
          /\ live' = live \cup {legs} /\ token' = [token EXCEPT ![legs] = loc[h].claim]
          /\ writes' = writes /\ refused' = refused /\ holder' = holder
      BY <2>r, <2>12, PlainIs DEF Register, lease, In, At, Starting
    <3>2. loc'[h].pc = "open" /\ \A u \in Thread : u # h => loc'[u] = loc[u]
      BY <3>1 DEF Moved
    <3>3. live = {} /\ Resumes(h) /\ \A u \in Thread : At(u, "release") => MyLeg(u) # legs
      BY <2>0, <2>r, <3>1 DEF OfResumption, In, At, Ending, Starting
    <3>4. (holder \in Claim => writes)' /\ \A g \in Handler : (At(g, "acquire") => writes)'
      BY <3>1, <3>2 DEF ClaimInv, At
    <3>5. ASSUME holder' \in Claim, ~refused' PROVE Accounted' /\ \A g \in Handler : Handed(g)'
      <4>0. holder' = holder /\ Accounted
        BY <3>1, <3>5 DEF ClaimInv
      <4>1. Accounted'
        <5>1. CASE \E u \in Thread : loc[u].claim = holder
          BY <3>1, <3>2, <4>0, <5>1 DEF Accounted, Same
        <5>2. CASE \E u \in Thread : At(u, "release") /\ token[MyLeg(u)] = holder
          <6>1. PICK u \in Thread : At(u, "release") /\ token[MyLeg(u)] = holder
            BY <5>2
          <6>2. u # h /\ MyLeg(u) # legs /\ MyLeg(u) \in Leg
            BY <1>0, <3>1, <3>3, <6>1 DEF At, LegInv, Recorded, In, Ending, Leg
          <6> QED BY <1>0, <3>1, <3>2, <4>0, <6>1, <6>2 DEF Accounted, At, MyLeg
        <5> QED BY <3>3, <4>0, <5>1, <5>2 DEF Accounted
      <4>2. ASSUME NEW g \in Handler PROVE Handed(g)'
        <5>1. CASE g = h
          <6>1. (MyLeg(h) = legs /\ legs \in live)' /\ loc'[h].claim = loc[h].claim
            BY <2>12, <3>1 DEF Same, MyLeg, Register
          <6>2. token'[legs] = loc[h].claim /\ legs' = legs
            BY <1>0, <2>12, <3>1 DEF Register
          <6> QED BY <5>1, <6>1, <6>2 DEF Handed, Guarded
        <5>2. CASE g # h
          <6>1. ~(Resumes(g) /\ ~At(g, "lock"))
            BY <2>r, <3>1, <3>3, <5>2, OneResumes DEF In, At, Starting
          <6>2. OfHandler(g) /\ loc'[g] = loc[g]
            BY <3>2, <5>2 DEF ThreadInv
          <6>3. ~Registered(g)'
            BY <6>1, <6>2 DEF OfHandler, Registered, In, At, Resumes, Starting
          <6> QED BY <6>3 DEF Handed
        <5> QED BY <5>1, <5>2
      <4> QED BY <4>1, <4>2
    <3> QED BY <3>4, <3>5 DEF ClaimInv
  <2>13. CASE Open(h)
    <3>1. /\ At(h, "open") /\ Moved(h, "launch") /\ Same(h)
          /\ writes' = writes /\ token' = token /\ live' = live /\ refused' = refused /\ holder' = holder
      BY <2>13, PlainIs DEF Open, lease
    <3>2. Registered(h)
      BY <3>1 DEF Registered, In, At
    <3> QED BY <2>0, <3>1, <3>2, ClaimMoves DEF At, Same
  <2>14. CASE Launch(h)
    <3>1. /\ At(h, "launch") /\ MyLeg(h) = legs
          /\ writes' = writes /\ token' = token /\ live' = live /\ refused' = refused /\ holder' = holder
      BY <2>r, <2>14 DEF Launch, lease, In, At, Starting
    <3>2. /\ loc'[h].pc = "launched" /\ Same(h) /\ loc'[legs].pc = "turn"
          /\ \A t \in Thread : t # h /\ t # legs => loc'[t] = loc[t]
      BY <1>0, <2>14, <3>1, LaunchIs
    <3>3. At(legs, "idle") /\ loc[legs].claim = NoClaim /\ Registered(h)
      BY <1>0, <2>0, <3>1 DEF OfResumption, ThreadInv, OfWorker, Claimless, Registered, In, At
    <3>4. (holder \in Claim => writes)' /\ \A g \in Handler : (At(g, "acquire") => writes)'
      BY <1>0, <3>1, <3>2 DEF ClaimInv, At
    <3>5. ASSUME holder' \in Claim, ~refused' PROVE Accounted' /\ \A g \in Handler : Handed(g)'
      <4>0. holder' = holder /\ Accounted /\ \A g \in Handler : Handed(g)
        BY <3>1, <3>5 DEF ClaimInv
      <4>g. ASSUME NEW u \in Thread, At(u, "release") PROVE loc'[u] = loc[u]
        BY <3>1, <3>2, <3>3, <4>g DEF At
      <4>1. Accounted'
        <5>1. CASE \E l \in live : token[l] = holder
          BY <3>1, <4>0, <5>1 DEF Accounted
        <5>2. CASE \E u \in Thread : loc[u].claim = holder
          BY <3>2, <3>3, <3>5, <4>0, <5>2 DEF Accounted, Same
        <5>3. CASE \E u \in Thread : At(u, "release") /\ token[MyLeg(u)] = holder
          BY <3>1, <4>0, <4>g, <5>3 DEF Accounted, At, MyLeg
        <5> QED BY <4>0, <5>1, <5>2, <5>3 DEF Accounted
      <4>2. ASSUME NEW g \in Handler, Registered(g)', (loc[g].claim = holder)'
            PROVE  (token[MyLeg(g)] = holder /\ Guarded(MyLeg(g)))'
        <5>1. Registered(g) /\ loc'[g].claim = loc[g].claim /\ loc'[g].leg = loc[g].leg
          <6>1. CASE g = h
            BY <3>2, <3>3, <6>1 DEF Same
          <6>2. CASE g # h
            <7>1. loc'[g] = loc[g]
              BY <1>0, <3>2, <6>2
            <7> QED BY <3>1, <4>2, <7>1 DEF Registered, In, At, Resumes, MyLeg
          <6> QED BY <6>1, <6>2
        <5>2. token[MyLeg(g)] = holder /\ Guarded(MyLeg(g))
          BY <4>0, <4>2, <5>1 DEF Handed
        <5> QED BY <3>1, <4>0, <4>g, <5>1, <5>2 DEF Guarded, At, MyLeg
      <4> QED BY <4>1, <4>2 DEF Handed
    <3> QED BY <3>4, <3>5 DEF ClaimInv
  <2>15. CASE Launched(h)
    <3>1. /\ At(h, "launched") /\ Registered(h)
          /\ writes' = writes /\ token' = token /\ live' = live /\ refused' = refused /\ holder' = holder
      BY <2>15, PlainIs DEF Launched, records, lease, Registered, In, At
    <3>2. CASE Moved(h, "undo") /\ Same(h)
      BY <2>0, <3>1, <3>2, ClaimMoves DEF At, Same
    <3>3. CASE Leave(h)
      BY <3>1, <3>3, LeavesHanded DEF At
    <3> QED BY <2>15, <3>2, <3>3, PlainIs
  <2>16. CASE StartFails(h)
    <3>0. refused => refused'
      BY <2>16 DEF StartFails
    <3>1. /\ In(h, {"register", "open", "launch"}) /\ Moved(h, "undo") /\ Same(h) /\ (refused => refused')
          /\ writes' = writes /\ token' = token /\ live' = live /\ holder' = holder
      BY <2>16, <3>0, PlainIs DEF StartFails
    <3>2. Registered(h)' => Registered(h)
      <4>1. CASE At(h, "register")
        <5>1. live = {}
          BY <2>0, <4>1 DEF OfResumption
        <5> QED BY <3>1, <5>1 DEF Registered, Moved, In, At
      <4>2. CASE ~At(h, "register")
        BY <3>1, <4>2 DEF Registered, In, At
      <4> QED BY <4>1, <4>2
    <3> QED BY <2>0, <3>1, <3>2, ClaimMoves DEF In, At, Same
  <2>17. CASE Undo(h)
    <3>1. /\ Resumes(h) /\ MyLeg(h) \in Leg /\ At(h, "undo") /\ live' = live /\ writes' = writes /\ token' = token
      BY <1>0, <2>r, <2>17 DEF Undo, In, At, Starting
    <3>2. /\ Moved(h, "t8") /\ Same(h) /\ (refused => refused') /\ holder' = holder
          /\ (loc'[h].was <=> MyLeg(h) \in live)
      BY <2>17, <3>1, UndoIs DEF Yields
    <3>3. Registered(h)' => Registered(h)
      BY <3>1, <3>2 DEF Registered, Moved, In, At
    <3> QED BY <2>0, <3>1, <3>2, <3>3, ClaimMoves DEF At, Same
  <2>18. CASE Undone(h)
    <3>1. /\ At(h, "undone") /\ Leave(h) /\ writes' = writes /\ token' = token /\ live' = live
          /\ Resumes(h)
      BY <2>r, <2>18 DEF Undone, In, At, Starting
    <3>2. CASE loc[h].was
      <4>1. Registered(h)
        BY <3>1, <3>2 DEF Registered, In, At
      <4>2. refused' = refused /\ holder' = holder
        BY <2>18, <3>2 DEF Undone, lease
      <4> QED BY <3>1, <4>1, <4>2, LeavesHanded DEF At
    <3>3. CASE ~loc[h].was
      <4>1. \E r \in Releases(loc[h].claim, loc[h].proven) : GivesBack(r)
        BY <2>18, <3>3 DEF Undone
      <4>2. /\ refused => refused'
            /\ holder' = holder \/ holder' \notin Claim
            /\ holder \in Claim /\ holder' = holder /\ ~refused' => loc[h].claim # holder
        BY <2>c, <4>1, GivenBack
      <4> QED BY <3>1, <4>2, LeavesClaim DEF At
    <3> QED BY <3>2, <3>3
  <2> QED BY <1>1, <2>1, <2>2, <2>3, <2>4, <2>5, <2>6, <2>7, <2>8, <2>9, <2>10, <2>11, <2>12, <2>13, <2>14,
             <2>15, <2>16, <2>17, <2>18 DEF HandlerStep
<1>2. ASSUME NEW l \in Leg, TurnEnds(l) PROVE ClaimInv'
  <2>1. /\ Moved(l, "cleanup") /\ Same(l) /\ loc[l].pc = "turn" /\ (refused => refused') /\ holder' = holder
        /\ writes' = writes /\ token' = token /\ live' = live
    BY <1>2, TurnEndsIs DEF TurnEnds, Yields
  <2> QED BY <2>1, ClaimStays DEF At
<1>3. ASSUME NEW l \in Leg, Cleanup(l) PROVE ClaimInv'
  <2>1. /\ loc[l].pc = "cleanup" /\ Yields /\ (token[l] \in Claim /\ holder' = token[l] => refused')
        /\ token' \in {token, [token EXCEPT ![l] = NoClaim]} /\ writes' = writes /\ live' = live
    BY <1>3, CleanupIs DEF Cleanup
  <2>2. l \notin Handler /\ loc[l].claim = NoClaim
    BY DEF ThreadInv, OfWorker, Claimless
  <2>3. PICK p \in {"idle", "t8", "kill"} : Moved(l, p)
    BY <1>3, CleanupIs
  <2> QED BY <2>1, <2>2, <2>3, TokenMoves DEF At
<1>4. ASSUME NEW t \in Thread, Finalization(t) PROVE ClaimInv'
  <2>0. /\ ~Resumes(t) => loc[t].claim = NoClaim
        /\ In(t, Ending) => MyLeg(t) \in Leg
    BY <1>0 DEF ThreadInv, Claimless, LegInv, Recorded, In, Leg
  <2>d. ASSUME Disown(t), In(t, {"deregister", "release"})
        PROVE  \E p \in {"undone", "over", "idle"} :
                  /\ Moved(t, p) /\ (loc[t].claim = NoClaim \/ Same(t))
                  /\ (t \in Handler /\ Registered(t)' => Registered(t) /\ Same(t))
    <3>1. CASE Resumes(t)
      <4>1. Moved(t, "undone") /\ Same(t) /\ loc'[t].was = loc[t].was
        BY <2>d, <3>1, DisownIs DEF Resumes
      <4>2. Registered(t)' => Registered(t)
        BY <2>d, <3>1, <4>1 DEF Registered, Moved, In, At
      <4> QED BY <4>1, <4>2
    <3>2. CASE ~Resumes(t)
      <4>1. PICK p \in {"over", "idle"} : Moved(t, p)
        BY <2>d, <3>2, DisownIs DEF Resumes
      <4>2. ~Registered(t)'
        BY <4>1 DEF Registered, Moved, In, At
      <4> QED BY <2>0, <3>2, <4>1, <4>2
    <3> QED BY <3>1, <3>2
  <2>1. CASE EndAdapter(t)
    <3>1. /\ At(t, "kill") /\ Moved(t, "t8") /\ Same(t) /\ (refused => refused') /\ holder' = holder
          /\ writes' = writes /\ token' = token /\ live' = live
      BY <2>1, EndingIs DEF EndAdapter, Kill
    <3>2. t \in Handler => ~Registered(t)'
      BY <3>1 DEF ThreadInv, OfHandler, Registered, Moved, Same, In, At, Resumes
    <3> QED BY <3>1, <3>2, ClaimMoves DEF At, Same
  <2>2. CASE Finalize(t)
    <3>1. /\ At(t, "t8") /\ Moved(t, "deregister") /\ Same(t) /\ loc'[t].was = loc[t].was /\ holder' = holder
          /\ writes' = writes /\ token' = token /\ live' = live
      BY <2>2, EndingIs DEF Finalize
    <3>2. refused => refused'
      BY <2>2 DEF Finalize
    <3>3. Registered(t)' => Registered(t)
      BY <3>1 DEF Registered, Moved, Same, In, At, Resumes
    <3> QED BY <3>1, <3>2, <3>3, ClaimMoves DEF At, Same
  <2>3. CASE Deregister(t)
    <3>0. /\ At(t, "deregister") /\ live' = live \ {MyLeg(t)} /\ refused' = refused /\ holder' = holder
          /\ writes' = writes /\ token' = token
      BY <2>3 DEF Deregister, lease
    <3>1. PICK p \in {"release", "undone", "over", "idle"} :
             /\ Moved(t, p) /\ (loc[t].claim = NoClaim \/ Same(t))
             /\ (t \in Handler /\ Registered(t)' => Registered(t) /\ Same(t))
             /\ (MyLeg(t) \in live /\ token[MyLeg(t)] # NoClaim => p = "release" /\ Same(t))
      <4>1. CASE MyLeg(t) \in live /\ token[MyLeg(t)] # NoClaim
        <5>1. Go(t, "release")
          BY <2>3, <4>1 DEF Deregister
        <5>2. Moved(t, "release") /\ Same(t) /\ loc'[t].was = loc[t].was
          BY <5>1, GoIs, PcNames
        <5>3. Registered(t)' => Registered(t)
          BY <3>0, <5>2 DEF Registered, Moved, Same, In, At, Resumes
        <5> QED BY <5>2, <5>3
      <4>2. CASE ~(MyLeg(t) \in live /\ token[MyLeg(t)] # NoClaim)
        <5>1. Disown(t)
          BY <2>3, <4>2 DEF Deregister
        <5>2. In(t, {"deregister", "release"})
          BY <3>0 DEF In, At
        <5>3. PICK p \in {"undone", "over", "idle"} :
                  /\ Moved(t, p) /\ (loc[t].claim = NoClaim \/ Same(t))
                  /\ (t \in Handler /\ Registered(t)' => Registered(t) /\ Same(t))
          BY <2>d, <5>1, <5>2
        <5> QED BY <4>2, <5>3
      <4> QED BY <4>1, <4>2
    <3>2. loc'[t].pc = p /\ \A u \in Thread : u # t => loc'[u] = loc[u]
      BY <3>1 DEF Moved
    <3>3. (holder \in Claim => writes)' /\ \A g \in Handler : (At(g, "acquire") => writes)'
      BY <3>0, <3>2 DEF ClaimInv, At
    <3>4. ASSUME holder' \in Claim, ~refused' PROVE Accounted' /\ \A g \in Handler : Handed(g)'
      <4>0. holder' = holder /\ Accounted /\ \A g \in Handler : Handed(g)
        BY <3>0, <3>4 DEF ClaimInv
      <4>g. ASSUME NEW u \in Thread, At(u, "release") PROVE loc'[u] = loc[u]
        BY <3>0, <3>2, <4>g DEF At
      <4>r. ASSUME MyLeg(t) \in live, token[MyLeg(t)] = holder
            PROVE  (At(t, "release") /\ MyLeg(t) = loc[t].leg)' /\ loc'[t].leg = MyLeg(t)
        BY <3>1, <3>2, <3>4, <4>0, <4>r DEF At, MyLeg, Same
      <4>1. Accounted'
        <5>1. CASE \E l \in live : token[l] = holder
          <6>1. PICK l \in live : token[l] = holder
            BY <5>1
          <6>2. CASE l = MyLeg(t)
            BY <3>0, <4>0, <4>r, <6>1, <6>2 DEF Accounted, MyLeg
          <6>3. CASE l # MyLeg(t)
            BY <3>0, <4>0, <6>1, <6>3 DEF Accounted
          <6> QED BY <6>2, <6>3
        <5>2. CASE \E u \in Thread : loc[u].claim = holder
          BY <3>1, <3>2, <3>4, <4>0, <5>2 DEF Accounted, Same
        <5>3. CASE \E u \in Thread : At(u, "release") /\ token[MyLeg(u)] = holder
          BY <3>0, <4>0, <4>g, <5>3 DEF Accounted, At, MyLeg
        <5> QED BY <4>0, <5>1, <5>2, <5>3 DEF Accounted
      <4>2. ASSUME NEW g \in Handler, Registered(g)', (loc[g].claim = holder)'
            PROVE  (token[MyLeg(g)] = holder /\ Guarded(MyLeg(g)))'
        <5>1. Registered(g) /\ loc'[g].claim = loc[g].claim /\ loc'[g].leg = loc[g].leg
          <6>1. CASE g = t
            BY <3>1, <4>2, <6>1 DEF Same
          <6>2. CASE g # t
            BY <3>0, <3>2, <4>2, <6>2 DEF Registered, In, At, Resumes, MyLeg
          <6> QED BY <6>1, <6>2
        <5>2. token[MyLeg(g)] = holder /\ Guarded(MyLeg(g))
          BY <4>0, <4>2, <5>1 DEF Handed
        <5>3. (token[MyLeg(g)] = holder)'
          BY <3>0, <4>0, <5>1, <5>2 DEF MyLeg
        <5>4. CASE MyLeg(g) \in live /\ MyLeg(g) = MyLeg(t)
          BY <4>r, <5>1, <5>2, <5>3, <5>4 DEF Guarded, MyLeg
        <5>5. CASE MyLeg(g) \in live /\ MyLeg(g) # MyLeg(t)
          BY <3>0, <5>1, <5>3, <5>5 DEF Guarded, MyLeg
        <5>6. CASE \E u \in Thread : At(u, "release") /\ MyLeg(u) = MyLeg(g)
          BY <4>g, <5>1, <5>3, <5>6 DEF Guarded, At, MyLeg
        <5> QED BY <5>2, <5>4, <5>5, <5>6 DEF Guarded
      <4> QED BY <4>1, <4>2 DEF Handed
    <3> QED BY <3>3, <3>4 DEF ClaimInv
  <2>4. CASE ReleaseToken(t)
    <3>1. /\ At(t, "release") /\ writes' = writes /\ live' = live /\ Disown(t)
      BY <2>4 DEF ReleaseToken
    <3>2. MyLeg(t) \in Leg /\ token[MyLeg(t)] \in Claim \cup {NoClaim} /\ In(t, {"deregister", "release"})
      BY <1>0, <2>0, <3>1 DEF In, At, Ending
    <3>3. /\ Yields /\ (token[MyLeg(t)] \in Claim /\ holder' = token[MyLeg(t)] => refused')
          /\ token' \in {token, [token EXCEPT ![MyLeg(t)] = NoClaim]}
      BY <2>4, <3>2, ReleasesIs DEF ReleaseToken
    <3>4. PICK p \in {"undone", "over", "idle"} :
             /\ Moved(t, p) /\ (loc[t].claim = NoClaim \/ Same(t))
             /\ (t \in Handler /\ Registered(t)' => Registered(t) /\ Same(t))
      BY <2>d, <3>1, <3>2
    <3> QED BY <3>1, <3>2, <3>3, <3>4, TokenMoves
  <2> QED BY <1>4, <2>1, <2>2, <2>3, <2>4 DEF Finalization
<1>5. CASE OtherConversation
  <2>1. holder' \notin Claim /\ loc' = loc /\ writes' = writes
    BY <1>5 DEF OtherConversation
  <2> QED BY <2>1 DEF ClaimInv, At
<1>6. CASE CrashAndBoot
  <2>1. holder' \notin Claim /\ writes' = writes
    BY <1>6 DEF CrashAndBoot
  <2>2. ASSUME NEW h \in Handler PROVE ~At(h, "acquire")'
    <3>1. loc'[h] = IF At(h, "idle") THEN IdleThread ELSE Over(h)
      BY <1>6 DEF CrashAndBoot
    <3> QED BY <3>1, IdleIs DEF At
  <2> QED BY <2>1, <2>2 DEF ClaimInv
<1>7. CASE UNCHANGED vars
  <2>1. /\ writes' = writes /\ live' = live /\ token' = token /\ holder' = holder /\ refused' = refused
        /\ loc' = loc
    BY <1>7 DEF vars, lease
  <2> QED BY <2>1 DEF ClaimInv, Accounted, Handed, Registered, Guarded, In, At, Resumes, MyLeg
<1> QED BY <1>1, <1>2, <1>3, <1>4, <1>5, <1>6, <1>7 DEF Next

----------------------------------------------------------------------------
(***************************************************************************)
(* The theorems.                                                           *)
(***************************************************************************)
LEMMA ResumeInitInv ==
    ASSUME ConstantsOK, Init
    PROVE  ResumeInv
<1> USE Facts
<1>1. PICK c : c = CHOOSE d \in Claim : TRUE
  OBVIOUS
<1>2. c \in Claim
  BY <1>1
<1>3. 1 \in Leg /\ 1 \in Thread /\ 1 \notin Handler
  BY DEF Leg
<1>4. /\ writes \in BOOLEAN /\ legs = 1 /\ t8 = [l \in Leg |-> FALSE] /\ owned = [l \in Leg |-> l = 1]
      /\ live = {1} /\ state = [l \in Leg |-> IF l = 1 THEN "running" ELSE "none"]
      /\ adapter = [l \in Leg |-> IF l = 1 THEN "alive" ELSE "none"]
      /\ token = [l \in Leg |-> IF l = 1 /\ writes THEN c ELSE NoClaim]
      /\ envelope = "open" /\ lock = NoThread /\ holder = token[1] /\ refused = FALSE
      /\ loc = [t \in Thread |-> IF t = 1 THEN [IdleThread EXCEPT !.pc = "turn", !.leg = 1] ELSE IdleThread]
  BY <1>1 DEF Init
<1>5. PICK w : w = [IdleThread EXCEPT !.pc = "turn", !.leg = 1]
  OBVIOUS
<1>6. /\ w \in Locals /\ w.pc = "turn" /\ w.leg = 1 /\ w.claim = NoClaim /\ ~w.resumes /\ ~w.fatal
  <2>1. IdleThread \in Locals /\ IdleThread.claim = NoClaim /\ "turn" \in Pcs /\ 1 \in 0 .. MaxLegs
    BY IdleIs, PcNames
  <2>2. w \in Locals /\ w.pc = "turn" /\ w.leg = 1 /\ w.claim = NoClaim
    BY <1>5, <2>1 DEF Locals
  <2> QED BY <1>5, <2>2 DEF IdleThread
<1>7. loc \in [Thread -> Locals] /\ loc[1] = w /\ \A t \in Thread : t # 1 => loc[t] = IdleThread
  BY <1>3, <1>4, <1>5, <1>6, IdleIs
<1>8. holder = (IF writes THEN c ELSE NoClaim) /\ state[1] = "running"
  BY <1>3, <1>4
<1>9. ResumeKinds
  <2>1. t8 \in [Leg -> BOOLEAN] /\ owned \in [Leg -> BOOLEAN]
    BY <1>4
  <2>2. /\ state \in [Leg -> {"none", "open", "running", "idle", "terminal"}]
        /\ adapter \in [Leg -> {"none", "alive", "dead", "stray"}]
    BY <1>4
  <2>3. token \in [Leg -> Claim \cup {NoClaim}] /\ holder \in Claim \cup {NoClaim, Other}
    BY <1>2, <1>4, <1>8
  <2> QED BY <1>3, <1>4, <1>7, <2>1, <2>2, <2>3 DEF ResumeKinds
<1>i. ASSUME NEW t \in Thread, t # 1
      PROVE  loc[t].pc = "idle" /\ loc[t].claim = NoClaim /\ ~loc[t].resumes
  BY <1>7, <1>i, IdleIs
<1>10. ThreadInv
  <2>1. ASSUME NEW h \in Handler PROVE OfHandler(h)
    BY <1>3, <1>i DEF OfHandler, In, Resumes, Before, Starting, Working
  <2>2. ASSUME NEW l \in Leg PROVE OfWorker(l)
    <3>1. CASE l = 1
      <4>1. loc[l].pc = "turn" /\ loc[l].leg = 1 /\ ~loc[l].resumes /\ legs = 1
        BY <1>4, <1>6, <1>7, <3>1
      <4> QED BY <3>1, <4>1 DEF OfWorker, In, At, Resumes, MyLeg, Working
    <3>2. CASE l # 1
      BY <1>i, <3>2 DEF OfWorker, In, At, Resumes
    <3> QED BY <3>1, <3>2
  <2>3. ASSUME NEW t \in Thread PROVE Claimless(t)
    <3>1. CASE t = 1
      BY <1>6, <1>7, <3>1 DEF Claimless
    <3>2. CASE t # 1
      BY <1>i, <3>2 DEF Claimless
    <3> QED BY <3>1, <3>2
  <2> QED BY <2>1, <2>2, <2>3 DEF ThreadInv
<1>11. LegInv
  <2>1. ASSUME NEW h \in Handler PROVE OfResumption(h)
    BY <1>3, <1>i DEF OfResumption, In, At, Resumes, Before
  <2>2. ASSUME NEW t \in Thread PROVE Recorded(t)
    <3>1. CASE t = 1
      BY <1>4, <1>6, <1>7, <3>1 DEF Recorded, MyLeg
    <3>2. CASE t # 1
      BY <1>i, <3>2 DEF Recorded, In, Working, Ending
    <3> QED BY <3>1, <3>2
  <2> QED BY <1>4, <2>1, <2>2 DEF LegInv
<1>12. StateInv
  <2>1. ASSUME NEW t \in Thread PROVE loc[t].pc \in {"idle", "turn"}
    BY <1>6, <1>7, <1>i
  <2> QED BY <2>1 DEF StateInv, EndsTerminal, StartsLive, In
<1>13. AdapterInv
  <2>1. ASSUME NEW t \in Thread PROVE loc[t].pc \in {"idle", "turn"}
    BY <1>6, <1>7, <1>i
  <2>2. ASSUME NEW l \in Leg, adapter[l] = "alive" PROVE Attended(l) /\ ~DeadlyTurn(l)
    <3>1. l = 1
      BY <1>4, <2>2
    <3> QED BY <1>4, <1>6, <1>7, <2>1, <3>1 DEF Attended, DeadlyTurn, In, Final
  <2> QED BY <2>2 DEF AdapterInv
<1>14. ClaimInv
  <2>1. holder \in Claim => writes
    BY <1>8
  <2>2. ASSUME NEW h \in Handler PROVE ~At(h, "acquire") /\ ~Registered(h)
    BY <1>3, <1>i DEF At, Registered, In, Resumes
  <2>3. Accounted
    BY <1>4 DEF Accounted
  <2> QED BY <2>1, <2>2, <2>3 DEF ClaimInv, Handed
<1> QED BY <1>9, <1>10, <1>11, <1>12, <1>13, <1>14 DEF ResumeInv

\* ResumeInv is inductive: it holds whatever requests, ends and crashes come.
THEOREM ResumeInvHolds ==
    ASSUME ConstantsOK PROVE Spec => []ResumeInv
<1>1. Init => ResumeInv
  BY ResumeInitInv
<1>2. ResumeInv /\ [Next]_vars => ResumeInv'
  <2> SUFFICES ASSUME ResumeInv, [Next]_vars PROVE ResumeInv'
    OBVIOUS
  <2>1. ResumeKinds /\ ThreadInv /\ LegInv /\ StateInv /\ AdapterInv /\ ClaimInv
    BY DEF ResumeInv
  <2>2. ResumeKinds'
    BY <2>1, KindsKept
  <2>3. ThreadInv' /\ LegInv' /\ StateInv'
    BY <2>1, <2>2, ThreadKept, LegKept, StateKept
  <2>4. AdapterInv' /\ ClaimInv'
    BY <2>1, <2>2, AdapterKept, ClaimKept
  <2> QED BY <2>2, <2>3, <2>4 DEF ResumeInv
<1> QED BY <1>1, <1>2, PTL DEF Spec

\* Every variable has the values the code can give it.
THEOREM ResumeTypeCorrect ==
    ASSUME ConstantsOK PROVE Spec => []TypeOK
<1>1. ResumeInv => TypeOK
  <2> SUFFICES ASSUME ResumeKinds PROVE TypeOK
    BY DEF ResumeInv
  <2>1. \A t \in Thread : MyLeg(t) \in 0 .. MaxLegs
    BY DEF ResumeKinds, Locals, MyLeg
  <2>2. {refused, writes} \subseteq BOOLEAN
    BY DEF ResumeKinds
  <2> QED BY <2>1, <2>2 DEF ResumeKinds, TypeOK
<1> QED BY <1>1, ResumeInvHolds, PTL

\* The conversation never forks, its older programs are dead or recovery is
\* required, and no claim is lost, for any number of requests, legs, claims and
\* crashes (_resume_driven_conversation, _finalize_driven).
THEOREM ConversationsNeverFork ==
    ASSUME ConstantsOK PROVE Spec => []NeverForks
<1>1. ResumeInv => NeverForks
  <2> SUFFICES ASSUME ResumeKinds, ThreadInv, LegInv, StateInv, AdapterInv, ClaimInv PROVE NeverForks
    BY DEF ResumeInv
  <2>0. legs \in Leg /\ MaxLegs \in Nat
    BY Facts DEF ResumeKinds
  <2>1. \A l \in 1 .. legs - 1 : t8[l]
    BY DEF LegInv
  <2>2. \A l, m \in live : l = m
    BY DEF LegInv
  <2>3. ASSUME NEW l \in 1 .. legs - 1, adapter[l] = "alive", ~refused PROVE FALSE
    <3>1. l \in Leg /\ l # legs
      BY <2>0, <2>3 DEF Leg
    <3>2. Attended(l)
      BY <2>3, <3>1 DEF AdapterInv
    <3>3. PICK h \in Handler : MyLeg(h) = l /\ In(h, Opening)
      BY <3>1, <3>2 DEF Attended, LegInv
    <3>4. OfHandler(h) /\ OfResumption(h)
      BY DEF ThreadInv, LegInv
    <3>5. MyLeg(h) = legs \/ MyLeg(h) = legs + 1
      BY <3>3, <3>4 DEF OfHandler, OfResumption, In, Opening, Before, Starting
    <3> QED BY <2>0, <2>3, <3>1, <3>3, <3>5 DEF Leg
  <2>4. holder \in Claim /\ ~refused => Accounted
    BY DEF ClaimInv
  <2> QED BY <2>1, <2>2, <2>3, <2>4 DEF NeverForks, Accounted
<1> QED BY <1>1, ResumeInvHolds, PTL

----------------------------------------------------------------------------
----------------------------------------------------------------------------
(***************************************************************************)
(* The invariant.                                                          *)
(***************************************************************************)
Workers == {"idle", "running", "answered", "silent", "over"}
EventKinds == {"user", "close", "assistant", "end"}
Entries == [kind : EventKinds, turn : Nat]
Chunk == [seq : Nat, turn : Nat]
Answers == [chunks : Seq(Chunk), cursor : Nat, dropped : BOOLEAN]
Polls == [pc : {"idle", "deltas", "sent", "stopped"}, events : Seq(Entries), more : BOOLEAN,
          answer : Answers]
Streams == [shown : SUBSET Nat, of : Nat, suppressed : BOOLEAN, cursor : Nat, final : SUBSET Nat]

StreamKinds ==
    /\ turn \in Nat /\ turn <= MaxTurns /\ worker \in Workers /\ ring \in BOOLEAN
    /\ made \in Seq(Nat) /\ Len(made) <= MaxChunks /\ active \in {None, turn}
    /\ log \in Seq(Entries) /\ since \in [events : Nat, deltas : Nat]
    /\ poll \in Polls /\ stream \in Streams

\* Chunks are of turns that began, in the order of the turns.
TurnInv ==
    /\ worker \in {"running", "answered"} => turn > 0
    /\ \A i \in 1 .. Len(made) : made[i] > 0 /\ made[i] <= turn
    /\ \A i, j \in 1 .. Len(made) : i <= j => made[i] <= made[j]

\* A response holds what follows the reader's cursors.
FollowsEvents(events, from) ==
    /\ from + Len(events) <= Len(log)
    /\ \A i \in 1 .. Len(events) : events[i] = log[from + i]

FollowsChunks(a, from) ==
    /\ a.cursor <= Len(made)
    /\ a.dropped => a.chunks = <<>>
    /\ ~a.dropped => Larger(from, a.cursor) = from + Len(a.chunks)
    /\ \A i \in 1 .. Len(a.chunks) : /\ from + i <= Len(made)
                                     /\ a.chunks[i].seq = from + i
                                     /\ a.chunks[i].turn = made[from + i]

PollInv ==
    /\ since.events <= Len(log) /\ since.deltas <= Len(made)
    /\ poll.pc \in {"deltas", "sent"} => FollowsEvents(poll.events, since.events)
    /\ poll.pc = "sent" => FollowsChunks(poll.answer, since.deltas)

\* Where the reader has come to p: from any chunk that is shown on, every chunk up
\* to there is shown or is of a later turn; and that turn has no durable answer.
ShowsTo(s, p) ==
    /\ s.cursor <= p /\ s.of <= turn
    /\ s.suppressed \/ s.of = None => s.shown = {}
    /\ s.shown # {} => s.of \notin s.final
    /\ \A i \in s.shown : i \in 1 .. p /\ made[i] = s.of
    /\ \A i \in s.shown : \A j \in i .. p : j \in s.shown \/ made[j] > s.of

StreamInv ==
    /\ stream.cursor = since.deltas
    /\ ShowsTo(stream, since.deltas)
    /\ \A i \in 1 .. since.events : log[i].kind = "assistant" => log[i].turn \in stream.final

ChatInv == StreamKinds /\ TurnInv /\ PollInv /\ StreamInv

----------------------------------------------------------------------------
(***************************************************************************)
(* Induction over the chunks of a response.                                *)
(***************************************************************************)
\* A set of numbers that has 0 and with every number the next has them all.
LEMMA Inductive ==
    ASSUME NEW S, 0 \in S, \A n \in Nat : n \in S => n + 1 \in S
    PROVE  Nat \subseteq S
<1> DEFINE T == Nat \ S
<1> SUFFICES ASSUME T # {} PROVE FALSE
  OBVIOUS
<1>1. IsWellFoundedOn(OpToRel(<, Nat), Nat)
  BY NatLessThanWellFounded
<1>2. PICK x \in T : \A y \in T : <<y, x>> \notin OpToRel(<, Nat)
  <2>1. T \subseteq Nat /\ T # {}
    OBVIOUS
  <2> HIDE DEF T
  <2> QED BY <1>1, <2>1, WFMin
<1>3. x # 0 /\ x \in Nat /\ x - 1 \in Nat /\ x - 1 < x
  OBVIOUS
<1>4. x - 1 \notin T
  <2>1. <<x - 1, x>> \in OpToRel(<, Nat)
    BY <1>3 DEF OpToRel
  <2> QED BY <1>2, <2>1
<1>5. x - 1 \in S /\ (x - 1) + 1 = x
  BY <1>3, <1>4
<1> QED BY <1>3, <1>5

\* The states between the chunks of a response.
Between(g, s, chunks, n) ==
    g = [i \in 0 .. n |-> IF i = 0 THEN s ELSE Take(g[i - 1], chunks[i])]

LEMMA BetweenSteps ==
    ASSUME NEW g, NEW s, NEW chunks, NEW n \in Nat, Between(g, s, chunks, n)
    PROVE  g[0] = s /\ \A i \in 1 .. n : g[i] = Take(g[i - 1], chunks[i])
<1>1. g = [i \in 0 .. n |-> IF i = 0 THEN s ELSE Take(g[i - 1], chunks[i])]
  BY DEF Between
<1>2. g[0] = s
  <2>1. 0 \in 0 .. n
    OBVIOUS
  <2> QED BY <1>1, <2>1
<1>3. ASSUME NEW i \in 1 .. n PROVE g[i] = Take(g[i - 1], chunks[i])
  <2>1. i \in 0 .. n /\ i # 0
    OBVIOUS
  <2> QED BY <1>1, <2>1
<1> QED BY <1>2, <1>3

\* They exist, and the last of them is what Taken returns.
LEMMA TakenIs ==
    ASSUME NEW s, NEW chunks, Len(chunks) \in Nat
    PROVE  \E g : Between(g, s, chunks, Len(chunks)) /\ Taken(s, chunks) = g[Len(chunks)]
<1> DEFINE S == {n \in Nat : \E g : Between(g, s, chunks, n)}
<1>1. 0 \in S
  <2>1. Between([i \in 0 .. 0 |-> s], s, chunks, 0)
    BY DEF Between
  <2> QED BY <2>1
<1>2. ASSUME NEW n \in Nat, n \in S PROVE n + 1 \in S
  <2>1. PICK g : Between(g, s, chunks, n)
    BY <1>2
  <2> DEFINE h == [i \in 0 .. n + 1 |-> IF i = n + 1 THEN Take(g[n], chunks[n + 1]) ELSE g[i]]
  <2>2. \A i \in 0 .. n + 1 : h[i] = IF i = 0 THEN s ELSE Take(h[i - 1], chunks[i])
    BY <2>1 DEF Between
  <2>3. h = [i \in 0 .. n + 1 |-> IF i = 0 THEN s ELSE Take(h[i - 1], chunks[i])]
    BY <2>2
  <2>4. Between(h, s, chunks, n + 1)
    <3> HIDE DEF h
    <3> QED BY <2>3 DEF Between
  <2>5. \E k : Between(k, s, chunks, n + 1)
    <3> HIDE DEF h
    <3> QED BY <2>4
  <2> QED BY <2>5
<1>3. Nat \subseteq S
  <2> HIDE DEF S
  <2> QED BY <1>1, <1>2, Inductive
<1>4. \E g : Between(g, s, chunks, Len(chunks))
  BY <1>3
<1> QED BY <1>4 DEF Taken, Between

\* What clearing, suppressing and moving the cursor leave of a reducer's state.
LEMMA ClearedIs ==
    ASSUME NEW s \in Streams
    PROVE  /\ Cleared(s) \in Streams /\ Cleared(s).shown = {} /\ Cleared(s).of = None
           /\ Cleared(s).suppressed = s.suppressed /\ Cleared(s).cursor = s.cursor
           /\ Cleared(s).final = s.final
BY DEF Cleared, Streams, None

LEMMA SuppressedIs ==
    ASSUME NEW s \in Streams, NEW n \in Nat, s.cursor <= n
    PROVE  /\ Suppressed(s, n) \in Streams /\ Suppressed(s, n).shown = {}
           /\ Suppressed(s, n).of = None /\ Suppressed(s, n).cursor = n
           /\ Suppressed(s, n).final = s.final
<1>1. PICK c : c = Cleared(s)
  OBVIOUS
<1>2. c \in Streams /\ c.shown = {} /\ c.of = None /\ c.cursor = s.cursor /\ c.final = s.final
  BY <1>1, ClearedIs
<1>3. Suppressed(s, n) = [c EXCEPT !.suppressed = TRUE, !.cursor = Larger(c.cursor, n)]
  BY <1>1 DEF Suppressed
<1>4. Larger(c.cursor, n) = n
  BY <1>2 DEF Larger, Streams
<1> QED BY <1>2, <1>3, <1>4 DEF Streams

LEMMA BumpIs ==
    ASSUME NEW s \in Streams, NEW n \in Nat, s.cursor <= n
    PROVE  Bump(s, n) = [s EXCEPT !.cursor = n]
BY DEF Bump, Larger, Streams

\* A reader that shows nothing shows nothing wrong.
LEMMA NothingShown ==
    ASSUME StreamKinds, NEW s \in Streams, NEW p \in Nat, s.shown = {}, s.cursor <= p, s.of <= turn
    PROVE  ShowsTo(s, p)
BY DEF ShowsTo

\* One chunk more (StreamReducer.applyDeltas).
LEMMA TakeKeeps ==
    ASSUME StreamKinds, TurnInv, NEW s \in Streams, NEW c \in Chunk, NEW p \in Nat,
           p + 1 <= Len(made), c.seq = p + 1, c.turn = made[p + 1], ShowsTo(s, p)
    PROVE  Take(s, c) \in Streams /\ ShowsTo(Take(s, c), p + 1) /\ Take(s, c).final = s.final
<1>0. made[p + 1] \in Nat /\ made[p + 1] > 0 /\ made[p + 1] <= turn /\ turn \in Nat
  BY DEF StreamKinds, TurnInv
<1>1. ~(c.seq <= s.cursor)
  BY DEF ShowsTo, Streams
<1>2. CASE c.turn \in s.final
  <2>1. Take(s, c) = s
    BY <1>2 DEF Take
  <2>2. ASSUME NEW i \in s.shown PROVE made[p + 1] > s.of
    <3>1. i \in 1 .. p /\ made[i] = s.of /\ s.of \notin s.final
      BY <2>2 DEF ShowsTo
    <3>2. made[i] <= made[p + 1]
      BY <3>1 DEF TurnInv
    <3> QED BY <1>0, <1>2, <3>1, <3>2 DEF Streams
  <2>3. \A i \in s.shown : \A j \in i .. p + 1 : j \in s.shown \/ made[j] > s.of
    <3> TAKE i \in s.shown
    <3> TAKE j \in i .. p + 1
    <3>1. i \in Nat
      BY DEF ShowsTo
    <3>2. j \in i .. p \/ j = p + 1
      BY <3>1
    <3> QED BY <2>2, <3>2 DEF ShowsTo
  <2> QED BY <2>1, <2>3 DEF ShowsTo, Streams
<1>3. CASE c.turn \notin s.final /\ c.seq # s.cursor + 1
  <2>1. Take(s, c) = Suppressed(s, c.seq)
    BY <1>1, <1>3 DEF Take
  <2>2. s.cursor <= p + 1 /\ s.cursor \in Nat
    BY DEF ShowsTo, Streams
  <2>3. PICK t : t = Suppressed(s, p + 1)
    OBVIOUS
  <2>4. t \in Streams /\ t.shown = {} /\ t.of = None /\ t.cursor = p + 1 /\ t.final = s.final
    BY <2>2, <2>3, SuppressedIs
  <2>5. t.of <= turn
    BY <1>0, <2>4 DEF None
  <2>6. ShowsTo(t, p + 1)
    BY <2>4, <2>5, NothingShown
  <2> QED BY <2>1, <2>3, <2>4, <2>6
<1>4. CASE c.turn \notin s.final /\ c.seq = s.cursor + 1 /\ s.suppressed
  <2>1. Take(s, c) = [s EXCEPT !.cursor = c.seq]
    BY <1>1, <1>4 DEF Take
  <2> QED BY <1>4, <2>1 DEF ShowsTo, Streams
<1>5. CASE c.turn \notin s.final /\ c.seq = s.cursor + 1 /\ ~s.suppressed
  <2> DEFINE seen == IF s.of \in {None, c.turn} THEN s.shown \cup {c.seq} ELSE {c.seq}
  <2>1. Take(s, c) = [s EXCEPT !.cursor = c.seq, !.of = c.turn, !.shown = seen]
    BY <1>1, <1>5 DEF Take
  <2>2. \A i \in seen : i \in 1 .. p + 1 /\ made[i] = c.turn
    BY DEF ShowsTo
  <2>3. \A i \in seen : \A j \in i .. p + 1 : j \in seen \/ made[j] > c.turn
    <3> TAKE i \in seen
    <3> TAKE j \in i .. p + 1
    <3>1. i \in Nat /\ (j \in i .. p \/ j = p + 1) /\ p + 1 \in seen
      BY <2>2
    <3>2. CASE i = p + 1
      BY <3>1, <3>2
    <3>3. CASE i # p + 1
      <4>1. i \in s.shown /\ s.of \in {None, c.turn}
        BY <3>3
      <4>2. s.of = c.turn
        BY <4>1 DEF ShowsTo
      <4>3. j \in i .. p => j \in s.shown \/ made[j] > s.of
        BY <4>1 DEF ShowsTo
      <4> QED BY <3>1, <4>1, <4>2, <4>3
    <3> QED BY <3>2, <3>3
  <2>5. seen \in SUBSET Nat /\ c.turn \in Nat /\ p + 1 \in Nat
    BY <2>2 DEF Chunk
  <2> HIDE DEF seen
  <2>6. PICK t : t = [s EXCEPT !.cursor = p + 1, !.of = c.turn, !.shown = seen]
    OBVIOUS
  <2>7. t \in Streams /\ t.final = s.final /\ t.of = c.turn /\ t.shown = seen /\ t.cursor = p + 1
    BY <2>5, <2>6 DEF Streams
  <2>8. t.suppressed = s.suppressed
    BY <2>6 DEF Streams
  <2>4. Take(s, c) \in Streams /\ Take(s, c).final = s.final /\ Take(s, c).of = c.turn
        /\ Take(s, c).shown = seen /\ Take(s, c).cursor = p + 1 /\ ~Take(s, c).suppressed
    BY <1>5, <2>1, <2>6, <2>7, <2>8
  <2> QED BY <1>0, <1>5, <2>2, <2>3, <2>4 DEF ShowsTo, None
<1> QED BY <1>2, <1>3, <1>4, <1>5 DEF Streams

\* All chunks of a response that follows the reader's cursor.
LEMMA TakenKeeps ==
    ASSUME StreamKinds, TurnInv, NEW s \in Streams, NEW a \in Answers, NEW from \in Nat,
           FollowsChunks(a, from), ShowsTo(s, from)
    PROVE  /\ Taken(s, a.chunks) \in Streams
           /\ ShowsTo(Taken(s, a.chunks), from + Len(a.chunks))
           /\ Taken(s, a.chunks).final = s.final
<1> DEFINE N == Len(a.chunks)
           Good(t, n) == t \in Streams /\ ShowsTo(t, from + n) /\ t.final = s.final
<1>1. N \in Nat /\ a.chunks \in Seq(Chunk)
  BY DEF Answers
<1>2. PICK g : Between(g, s, a.chunks, N) /\ Taken(s, a.chunks) = g[N]
  BY <1>1, TakenIs
<1>3. g[0] = s /\ \A i \in 1 .. N : g[i] = Take(g[i - 1], a.chunks[i])
  BY <1>1, <1>2, BetweenSteps
<1> DEFINE S == {n \in Nat : n <= N => Good(g[n], n)}
<1>4. 0 \in S
  <2>1. PICK p \in Nat : p = from + 0
    OBVIOUS
  <2>2. p = from
    BY <2>1
  <2>3. ShowsTo(g[0], p)
    BY <1>3, <2>2
  <2>4. Good(g[0], 0)
    BY <1>3, <2>1, <2>3
  <2> HIDE DEF Good
  <2> QED BY <2>4
<1>5. ASSUME NEW n \in Nat, n \in S PROVE n + 1 \in S
  <2> SUFFICES ASSUME n + 1 <= N PROVE Good(g[n + 1], n + 1)
    OBVIOUS
  <2>1. Good(g[n], n)
    BY <1>1, <1>5
  <2>2. g[n + 1] = Take(g[n], a.chunks[n + 1])
    BY <1>1, <1>3
  <2>3. /\ a.chunks[n + 1] \in Chunk /\ from + n + 1 <= Len(made)
        /\ a.chunks[n + 1].seq = from + n + 1 /\ a.chunks[n + 1].turn = made[from + n + 1]
    <3>1. n + 1 \in 1 .. Len(a.chunks)
      BY <1>1
    <3>2. from + (n + 1) = from + n + 1
      OBVIOUS
    <3>3. a.chunks[n + 1] \in Chunk
      BY <1>1, <3>1
    <3>4. /\ from + (n + 1) <= Len(made) /\ a.chunks[n + 1].seq = from + (n + 1)
          /\ a.chunks[n + 1].turn = made[from + (n + 1)]
      BY <3>1 DEF FollowsChunks
    <3> QED BY <3>2, <3>3, <3>4
  <2>4. PICK p \in Nat : p = from + n
    OBVIOUS
  <2>5. p + 1 = from + (n + 1) /\ p + 1 = from + n + 1
    BY <2>4
  <2>6. PICK t : t = g[n]
    OBVIOUS
  <2>7. PICK c \in Chunk : c = a.chunks[n + 1]
    BY <2>3
  <2>8. Take(t, c) \in Streams /\ ShowsTo(Take(t, c), p + 1) /\ Take(t, c).final = t.final
    <3>1. t \in Streams /\ ShowsTo(t, p)
      BY <2>1, <2>4, <2>6
    <3>2. p + 1 <= Len(made) /\ c.seq = p + 1 /\ c.turn = made[p + 1]
      BY <2>3, <2>5, <2>7
    <3> QED BY <3>1, <3>2, TakeKeeps
  <2> QED BY <2>1, <2>2, <2>5, <2>6, <2>7, <2>8
<1>6. Nat \subseteq S
  <2> HIDE DEF S
  <2> QED BY <1>4, <1>5, Inductive
<1>7. Good(g[N], N)
  BY <1>1, <1>6
<1> QED BY <1>2, <1>7

\* A response applied (StreamReducer.applyDeltas, and the pump's cursor).
LEMMA ApplyKeeps ==
    ASSUME StreamKinds, TurnInv, NEW s \in Streams, NEW a \in Answers, NEW from \in Nat,
           s.cursor = from, from <= Len(made), FollowsChunks(a, from), ShowsTo(s, from),
           NEW p, p = Larger(from, a.cursor)
    PROVE  /\ p \in Nat /\ p <= Len(made) /\ Apply(s, a, p) \in Streams
           /\ ShowsTo(Apply(s, a, p), p) /\ Apply(s, a, p).cursor = p
           /\ Apply(s, a, p).final = s.final
<1>1. p \in Nat /\ from <= p /\ p <= Len(made)
  BY DEF FollowsChunks, Larger, Answers
<1>2. CASE a.dropped
  <2>1. PICK c : c = Cleared(s)
    OBVIOUS
  <2>2. c \in Streams /\ c.shown = {} /\ c.of = None /\ c.cursor = from /\ c.final = s.final
    BY <2>1, ClearedIs
  <2>3. PICK d : d = [c EXCEPT !.suppressed = TRUE]
    OBVIOUS
  <2>4. d \in Streams /\ d.shown = {} /\ d.of = None /\ d.cursor = from /\ d.final = s.final
    BY <2>2, <2>3 DEF Streams
  <2>5. Apply(s, a, p) = [d EXCEPT !.cursor = p]
    <3>1. Apply(s, a, p) = Bump(d, p)
      BY <1>2, <2>1, <2>3 DEF Apply
    <3> QED BY <1>1, <2>4, <3>1, BumpIs
  <2>6. PICK t : t = [d EXCEPT !.cursor = p]
    OBVIOUS
  <2>7. t \in Streams /\ t.shown = {} /\ t.of = None /\ t.cursor = p /\ t.final = s.final
    BY <1>1, <2>4, <2>6 DEF Streams
  <2>8. t.of <= turn
    BY <2>7 DEF None, StreamKinds
  <2>9. ShowsTo(t, p)
    BY <1>1, <2>7, <2>8, NothingShown
  <2> QED BY <1>1, <2>5, <2>6, <2>7, <2>9
<1>3. CASE ~a.dropped
  <2>1. Len(a.chunks) \in Nat /\ p = from + Len(a.chunks)
    BY <1>3 DEF FollowsChunks, Answers
  <2>2. PICK d : d = Taken(s, a.chunks)
    OBVIOUS
  <2>3. d \in Streams /\ ShowsTo(d, p) /\ d.final = s.final
    BY <2>1, <2>2, TakenKeeps
  <2>4. Apply(s, a, p) = [d EXCEPT !.cursor = p]
    <3>1. Apply(s, a, p) = Bump(d, p)
      BY <1>3, <2>2 DEF Apply
    <3>2. d.cursor <= p
      BY <2>3 DEF ShowsTo
    <3> QED BY <1>1, <2>3, <3>1, <3>2, BumpIs
  <2>5. PICK t : t = [d EXCEPT !.cursor = p]
    OBVIOUS
  <2>6. t \in Streams /\ t.cursor = p /\ t.shown = d.shown /\ t.of = d.of /\ t.final = d.final
    BY <1>1, <2>3, <2>5 DEF Streams
  <2>7. t.suppressed = d.suppressed
    BY <2>3, <2>5 DEF Streams
  <2>8. ShowsTo(t, p)
    BY <1>1, <2>3, <2>6, <2>7 DEF ShowsTo
  <2> QED BY <1>1, <2>3, <2>4, <2>5, <2>6, <2>8
<1> QED BY <1>2, <1>3

\* Durable events (StreamReducer.reconcileDurable).
LEMMA ReconcileKeeps ==
    ASSUME StreamKinds, NEW s \in Streams, NEW p \in Nat, ShowsTo(s, p), NEW events \in Seq(Entries)
    PROVE  LET t == ReconcileDurable(s, events)
           IN  /\ t \in Streams /\ ShowsTo(t, p) /\ t.cursor = s.cursor /\ s.final \subseteq t.final
               /\ \A i \in 1 .. Len(events) :
                     events[i].kind = "assistant" => events[i].turn \in t.final
<1> DEFINE said   == {e.turn : e \in {e \in ToSet(events) : e.kind = "assistant"}}
           closed == {e.turn : e \in {e \in ToSet(events) : e.kind = "close"}}
           t == ReconcileDurable(s, events)
<1>1. ToSet(events) \subseteq Entries /\ \A i \in 1 .. Len(events) : events[i] \in ToSet(events)
  BY DEF ToSet
<1>2. said \subseteq Nat /\ closed \subseteq Nat
  BY <1>1 DEF Entries
<1>3. \A i \in 1 .. Len(events) : events[i].kind = "assistant" => events[i].turn \in said
  BY <1>1
<1>4. PICK d : d = [s EXCEPT !.final = s.final \cup said \cup closed]
  OBVIOUS
<1>5. t = LET tidy == IF said # {} \/ s.of \in closed THEN Cleared(d) ELSE d
          IN  IF said # {} THEN [tidy EXCEPT !.suppressed = FALSE] ELSE tidy
  BY <1>4 DEF ReconcileDurable
<1> HIDE DEF said, closed, t
<1>6. /\ d \in Streams /\ d.shown = s.shown /\ d.of = s.of /\ d.cursor = s.cursor
      /\ d.final = s.final \cup said \cup closed
  BY <1>2, <1>4 DEF Streams
<1>7. d.suppressed = s.suppressed
  BY <1>4 DEF Streams
<1>8. s.cursor <= p /\ s.of <= turn /\ 0 <= turn
  BY DEF ShowsTo, StreamKinds
<1>9. PICK c : c = Cleared(d)
  OBVIOUS
<1>10. /\ c \in Streams /\ c.shown = {} /\ c.of = None /\ c.cursor = s.cursor /\ c.final = d.final
  BY <1>6, <1>9, ClearedIs
<1>11. c.of <= turn /\ c.cursor <= p
  BY <1>8, <1>10 DEF None
<1>12. CASE said # {}
  <2>1. t = [c EXCEPT !.suppressed = FALSE]
    BY <1>5, <1>9, <1>12
  <2>2. t \in Streams /\ t.shown = {} /\ t.of = c.of /\ t.cursor = c.cursor /\ t.final = c.final
    BY <1>10, <2>1 DEF Streams
  <2>3. ShowsTo(t, p)
    BY <1>11, <2>2, NothingShown
  <2> QED BY <1>3, <1>6, <1>10, <2>2, <2>3 DEF t
<1>13. CASE said = {} /\ s.of \in closed
  <2>1. t = c
    BY <1>5, <1>9, <1>13
  <2>2. ShowsTo(c, p)
    BY <1>10, <1>11, NothingShown
  <2> QED BY <1>3, <1>6, <1>10, <2>1, <2>2 DEF t
<1>14. CASE said = {} /\ s.of \notin closed
  <2>1. t = d
    BY <1>5, <1>14
  <2>2. ShowsTo(d, p)
    BY <1>6, <1>7, <1>14 DEF ShowsTo
  <2> QED BY <1>3, <1>6, <2>1, <2>2 DEF t
<1> QED BY <1>12, <1>13, <1>14

\* A failure, an interruption or the end (StreamReducer.clearFailure).
LEMMA ClearFailureKeeps ==
    ASSUME StreamKinds, NEW s \in Streams, NEW p \in Nat, s.cursor <= p
    PROVE  /\ ClearFailure(s) \in Streams /\ ShowsTo(ClearFailure(s), p)
           /\ ClearFailure(s).cursor = s.cursor /\ ClearFailure(s).final = s.final
<1>1. PICK c : c = Cleared(s)
  OBVIOUS
<1>2. c \in Streams /\ c.shown = {} /\ c.of = None /\ c.cursor = s.cursor /\ c.final = s.final
  BY <1>1, ClearedIs
<1>3. PICK t : t = [c EXCEPT !.suppressed = FALSE]
  OBVIOUS
<1>4. t = ClearFailure(s)
  BY <1>1, <1>3 DEF ClearFailure
<1>5. t \in Streams /\ t.shown = {} /\ t.of = None /\ t.cursor = s.cursor /\ t.final = s.final
  BY <1>2, <1>3 DEF Streams
<1>6. t.of <= turn
  BY <1>5 DEF None, StreamKinds
<1>7. ShowsTo(t, p)
  BY <1>5, <1>6, NothingShown
<1> QED BY <1>4, <1>5, <1>7

----------------------------------------------------------------------------
(***************************************************************************)
(* The steps of the turn and its ring: the ledger and the ring only grow.  *)
(***************************************************************************)
Grows(old, new) ==
    Len(old) <= Len(new) /\ \A i \in 1 .. Len(old) : new[i] = old[i]

LEMMA AppendGrows ==
    ASSUME NEW S, NEW q \in Seq(S), NEW e \in S
    PROVE  /\ Append(q, e) \in Seq(S) /\ Grows(q, Append(q, e))
           /\ Len(Append(q, e)) = Len(q) + 1 /\ Append(q, e)[Len(q) + 1] = e
BY DEF Grows

LEMMA SameGrows == ASSUME NEW S, NEW q \in Seq(S) PROVE Grows(q, q)
BY DEF Grows

LEMMA LogEntryGrows ==
    ASSUME StreamKinds, NEW k \in EventKinds, LogEntry(k)
    PROVE  log' \in Seq(Entries) /\ Grows(log, log')
<1>1. Entry(k, turn) \in Entries
  BY DEF Entry, Entries, StreamKinds
<1>2. log \in Seq(Entries) /\ log' = Append(log, Entry(k, turn))
  BY DEF StreamKinds, LogEntry
<1> QED BY <1>1, <1>2, AppendGrows

\* A sequence that grew keeps each of its first elements.
LEMMA GrowsKeeps ==
    ASSUME NEW old, NEW new, Grows(old, new), NEW n \in Nat, Len(old) \in Nat, n <= Len(old)
    PROVE  \A i \in 1 .. n : new[i] = old[i]
<1>1. \A i \in 1 .. n : i \in 1 .. Len(old)
  OBVIOUS
<1>2. \A i \in 1 .. Len(old) : new[i] = old[i]
  BY DEF Grows
<1> QED BY <1>1, <1>2

\* What the client knows stays true when the server goes on.
LEMMA ServerMoves ==
    ASSUME ChatInv, UNCHANGED client, turn' \in Nat, turn <= turn', Grows(log, log'),
           Grows(made, made'), log' \in Seq(Entries), made' \in Seq(Nat)
    PROVE  PollInv' /\ StreamInv'
<1>1. poll' = poll /\ since' = since /\ stream' = stream
  BY DEF client
<1>2. /\ Len(log) \in Nat /\ Len(log') \in Nat /\ Len(made) \in Nat /\ Len(made') \in Nat
      /\ since.events \in Nat /\ since.deltas \in Nat /\ turn \in Nat
      /\ since.events <= Len(log) /\ since.deltas <= Len(made)
  BY DEF ChatInv, StreamKinds, PollInv
<1>3. ASSUME poll.pc \in {"deltas", "sent"} PROVE FollowsEvents(poll.events, since.events)'
  <2>1. FollowsEvents(poll.events, since.events) /\ Len(poll.events) \in Nat
    BY <1>3 DEF ChatInv, StreamKinds, PollInv, Polls
  <2>2. PICK q, n : q = poll.events /\ n = since.events
    OBVIOUS
  <2>3. /\ Len(q) \in Nat /\ n \in Nat /\ n + Len(q) <= Len(log)
        /\ \A i \in 1 .. Len(q) : q[i] = log[n + i]
    BY <1>2, <2>1, <2>2 DEF FollowsEvents
  <2>4. n + Len(q) <= Len(log')
    BY <1>2, <2>3 DEF Grows
  <2>5. \A i \in 1 .. Len(q) : n + i \in 1 .. Len(log)
    BY <1>2, <2>3
  <2>6. \A i \in 1 .. Len(q) : q[i] = log'[n + i]
    BY <2>3, <2>5 DEF Grows
  <2>7. poll'.events = q /\ since'.events = n
    BY <1>1, <2>2
  <2> QED BY <2>4, <2>6, <2>7 DEF FollowsEvents
<1>4. ASSUME poll.pc = "sent" PROVE FollowsChunks(poll.answer, since.deltas)'
  <2>1. FollowsChunks(poll.answer, since.deltas) /\ Len(poll.answer.chunks) \in Nat
        /\ poll.answer.cursor \in Nat
    BY <1>4 DEF ChatInv, StreamKinds, PollInv, Polls, Answers
  <2>2. PICK a, n : a = poll.answer /\ n = since.deltas
    OBVIOUS
  <2>3. /\ Len(a.chunks) \in Nat /\ a.cursor \in Nat /\ n \in Nat /\ FollowsChunks(a, n)
    BY <1>2, <2>1, <2>2
  <2>4. a.cursor <= Len(made') /\ (a.dropped => a.chunks = <<>>)
    BY <1>2, <2>3 DEF FollowsChunks, Grows
  <2>5. ~a.dropped => Larger(n, a.cursor) = n + Len(a.chunks)
    BY <2>3 DEF FollowsChunks
  <2>6. ASSUME NEW i \in 1 .. Len(a.chunks)
        PROVE  /\ n + i <= Len(made') /\ a.chunks[i].seq = n + i
               /\ a.chunks[i].turn = made'[n + i]
    <3>1. n + i <= Len(made) /\ a.chunks[i].seq = n + i /\ a.chunks[i].turn = made[n + i]
      BY <2>3 DEF FollowsChunks
    <3>2. n + i \in 1 .. Len(made)
      BY <1>2, <2>3, <3>1
    <3>3. n + i <= Len(made')
      BY <1>2, <2>3, <3>1 DEF Grows
    <3> QED BY <3>1, <3>2, <3>3 DEF Grows
  <2>7. poll'.answer = a /\ since'.deltas = n
    BY <1>1, <2>2
  <2> QED BY <2>4, <2>5, <2>6, <2>7 DEF FollowsChunks
<1>5. PollInv'
  BY <1>1, <1>2, <1>3, <1>4 DEF PollInv, Grows
<1>6. ShowsTo(stream, since.deltas)'
  <2>1. ShowsTo(stream, since.deltas) /\ stream.of \in Nat /\ stream.cursor \in Nat
    BY DEF ChatInv, StreamInv, StreamKinds, Streams
  <2>2. \A i \in 1 .. since.deltas : made'[i] = made[i]
    BY <1>2, GrowsKeeps
  <2>3. \A i \in stream.shown : i \in 1 .. since.deltas /\ made'[i] = stream.of
    BY <2>1, <2>2 DEF ShowsTo
  <2>4. \A i \in stream.shown : \A j \in i .. since.deltas : j \in 1 .. since.deltas
    BY <1>2, <2>3
  <2>5. \A i \in stream.shown : \A j \in i .. since.deltas :
            j \in stream.shown \/ made'[j] > stream.of
    BY <2>1, <2>2, <2>4 DEF ShowsTo
  <2>6. stream.of <= turn'
    BY <1>2, <2>1 DEF ShowsTo
  <2> QED BY <1>1, <2>1, <2>3, <2>5, <2>6 DEF ShowsTo
<1>7. \A i \in 1 .. since.events : log'[i] = log[i]
  BY <1>2, GrowsKeeps
<1> QED BY <1>1, <1>5, <1>6, <1>7 DEF ChatInv, StreamInv

\* A step that only makes the server go on keeps the invariant.
LEMMA ServerKeeps ==
    ASSUME ChatInv, UNCHANGED <<turn, made, client>>, log' \in Seq(Entries), Grows(log, log'),
           worker' \in Workers, worker' \in {"running", "answered"} => worker \in {"running", "answered"},
           ring' \in BOOLEAN, active' \in {None, active}
    PROVE  ChatInv'
<1>1. /\ turn \in Nat /\ turn <= MaxTurns /\ made \in Seq(Nat) /\ Len(made) <= MaxChunks
      /\ active \in {None, turn} /\ TurnInv /\ worker \in Workers
      /\ poll \in Polls /\ since \in [events : Nat, deltas : Nat] /\ stream \in Streams
  BY DEF ChatInv, StreamKinds
<1>2. /\ turn' = turn /\ made' = made /\ poll' = poll /\ since' = since /\ stream' = stream
      /\ UNCHANGED client
  BY DEF client
<1>3. StreamKinds'
  <2>1. active' \in {None, turn'}
    BY <1>1, <1>2
  <2> QED BY <1>1, <1>2, <2>1 DEF StreamKinds
<1>4. TurnInv'
  BY <1>1, <1>2 DEF TurnInv
<1>5. PollInv' /\ StreamInv'
  <2>1. Grows(made, made') /\ made' \in Seq(Nat)
    BY <1>1, <1>2, SameGrows
  <2>2. turn' \in Nat /\ turn <= turn'
    BY <1>1, <1>2
  <2> QED BY <1>2, <2>1, <2>2, ServerMoves
<1> QED BY <1>3, <1>4, <1>5 DEF ChatInv

LEMMA StartTurnKeeps == ASSUME StreamConstantsOK, ChatInv, StartTurn PROVE ChatInv'
<1>1. /\ turn \in Nat /\ turn < MaxTurns /\ turn' = turn + 1 /\ worker' = "running"
      /\ active' = None /\ log' = Append(log, Entry("user", turn + 1))
      /\ made' = made /\ ring' = ring /\ UNCHANGED client
      /\ made \in Seq(Nat) /\ Len(made) <= MaxChunks /\ log \in Seq(Entries) /\ ring \in BOOLEAN
      /\ poll \in Polls /\ since \in [events : Nat, deltas : Nat] /\ stream \in Streams
  BY DEF StartTurn, ChatInv, StreamKinds
<1>2. MaxTurns \in Nat
  BY DEF StreamConstantsOK
<1>3. log' \in Seq(Entries) /\ Grows(log, log')
  <2>1. Entry("user", turn + 1) \in Entries
    BY <1>1 DEF Entry, Entries, EventKinds
  <2> QED BY <1>1, <2>1, AppendGrows
<1>4. StreamKinds'
  <2>1. poll' = poll /\ since' = since /\ stream' = stream
    BY <1>1 DEF client
  <2>2. turn' \in Nat /\ turn' <= MaxTurns /\ worker' \in Workers /\ active' \in {None, turn'}
    BY <1>1, <1>2 DEF Workers
  <2> QED BY <1>1, <1>3, <2>1, <2>2 DEF StreamKinds
<1>5. TurnInv'
  <2>1. \A i \in 1 .. Len(made) : made[i] \in Nat /\ made[i] <= turn'
    BY <1>1 DEF ChatInv, TurnInv
  <2>2. turn' > 0
    BY <1>1
  <2> QED BY <1>1, <2>1, <2>2 DEF ChatInv, TurnInv
<1>6. PollInv' /\ StreamInv'
  <2>1. Grows(made, made') /\ made' \in Seq(Nat)
    BY <1>1, SameGrows
  <2>2. turn' \in Nat /\ turn <= turn'
    BY <1>1
  <2> QED BY <1>1, <1>3, <2>1, <2>2, ServerMoves
<1> QED BY <1>4, <1>5, <1>6 DEF ChatInv

LEMMA AppendDeltaKeeps == ASSUME StreamConstantsOK, ChatInv, AppendDelta PROVE ChatInv'
<1>1. /\ turn \in Nat /\ turn > 0 /\ turn <= MaxTurns /\ turn' = turn /\ worker = "running"
      /\ worker' = worker /\ active' = turn /\ log' = log /\ made' = Append(made, turn)
      /\ ring' = ring /\ UNCHANGED client /\ Len(made) < MaxChunks
      /\ made \in Seq(Nat) /\ log \in Seq(Entries) /\ ring \in BOOLEAN
      /\ poll \in Polls /\ since \in [events : Nat, deltas : Nat] /\ stream \in Streams
  BY DEF AppendDelta, ChatInv, StreamKinds, TurnInv
<1>2. /\ made' \in Seq(Nat) /\ Grows(made, made') /\ Len(made') = Len(made) + 1
      /\ made'[Len(made) + 1] = turn
  BY <1>1, AppendGrows
<1>3. StreamKinds'
  <2>1. poll' = poll /\ since' = since /\ stream' = stream
    BY <1>1 DEF client
  <2>2. Len(made') <= MaxChunks
    BY <1>1, <1>2 DEF StreamConstantsOK
  <2> QED BY <1>1, <1>2, <2>1, <2>2 DEF StreamKinds, Workers
<1>4. TurnInv'
  <2>1. \A i \in 1 .. Len(made) : made'[i] = made[i] /\ made[i] \in Nat
    BY <1>1, <1>2 DEF Grows
  <2>2. \A i \in 1 .. Len(made') : i \in 1 .. Len(made) \/ i = Len(made) + 1
    BY <1>1, <1>2
  <2>3. \A i \in 1 .. Len(made') : made'[i] > 0 /\ made'[i] <= turn'
    BY <1>1, <1>2, <2>1, <2>2 DEF ChatInv, TurnInv
  <2>4. ASSUME NEW i \in 1 .. Len(made'), NEW j \in 1 .. Len(made'), i <= j
        PROVE  made'[i] <= made'[j]
    <3>1. CASE j \in 1 .. Len(made)
      <4>1. i \in 1 .. Len(made)
        BY <1>1, <2>4, <3>1
      <4> QED BY <2>1, <2>4, <3>1, <4>1 DEF ChatInv, TurnInv
    <3>2. CASE j = Len(made) + 1
      BY <1>1, <1>2, <2>3, <3>2
    <3> QED BY <2>2, <3>1, <3>2
  <2> QED BY <1>1, <2>3, <2>4 DEF TurnInv
<1>5. PollInv' /\ StreamInv'
  <2>1. Grows(log, log') /\ log' \in Seq(Entries)
    BY <1>1, SameGrows
  <2>2. turn' \in Nat /\ turn <= turn'
    BY <1>1
  <2> QED BY <1>1, <1>2, <2>1, <2>2, ServerMoves
<1> QED BY <1>3, <1>4, <1>5 DEF ChatInv

LEMMA CloseTurnKeeps == ASSUME ChatInv, CloseTurn PROVE ChatInv'
<1>1. log' \in Seq(Entries) /\ Grows(log, log')
  BY LogEntryGrows DEF CloseTurn, ChatInv, EventKinds
<1>2. worker' \in {"answered", "silent"} /\ worker = "running" /\ ring \in BOOLEAN
  BY DEF CloseTurn, ChatInv, StreamKinds
<1> QED BY <1>1, <1>2, ServerKeeps DEF CloseTurn, Workers

LEMMA RecordAssistantKeeps == ASSUME ChatInv, RecordAssistant PROVE ChatInv'
<1>1. log' \in Seq(Entries) /\ Grows(log, log')
  BY LogEntryGrows DEF RecordAssistant, ChatInv, EventKinds
<1>2. ring \in BOOLEAN
  BY DEF ChatInv, StreamKinds
<1> QED BY <1>1, <1>2, ServerKeeps DEF RecordAssistant, Workers

LEMMA FinishTurnKeeps == ASSUME ChatInv, FinishTurn PROVE ChatInv'
<1>1. log' \in Seq(Entries) /\ Grows(log, log') /\ ring \in BOOLEAN
  BY SameGrows DEF FinishTurn, ChatInv, StreamKinds
<1> QED BY <1>1, ServerKeeps DEF FinishTurn, Workers

LEMMA EndRunKeeps == ASSUME ChatInv, EndRun PROVE ChatInv'
<1>1. log' \in Seq(Entries) /\ Grows(log, log')
  BY LogEntryGrows DEF EndRun, ChatInv, EventKinds
<1>2. ring \in BOOLEAN
  BY DEF ChatInv, StreamKinds
<1> QED BY <1>1, <1>2, ServerKeeps DEF EndRun, Workers

LEMMA DropRingKeeps == ASSUME ChatInv, DropRing PROVE ChatInv'
<1>1. log' \in Seq(Entries) /\ Grows(log, log') /\ worker \in Workers
  BY SameGrows DEF DropRing, ChatInv, StreamKinds
<1> QED BY <1>1, ServerKeeps DEF DropRing

LEMMA DaemonDiesKeeps == ASSUME ChatInv, DaemonDies PROVE ChatInv'
<1>1. log' \in Seq(Entries) /\ Grows(log, log')
  BY SameGrows DEF DaemonDies, ChatInv, StreamKinds
<1> QED BY <1>1, ServerKeeps DEF DaemonDies, Workers

LEMMA SweepKeeps == ASSUME ChatInv, Sweep PROVE ChatInv'
<1>1. log' \in Seq(Entries) /\ Grows(log, log')
  BY LogEntryGrows DEF Sweep, ChatInv, EventKinds
<1>2. worker \in Workers /\ ring \in BOOLEAN
  BY DEF ChatInv, StreamKinds
<1> QED BY <1>1, <1>2, ServerKeeps DEF Sweep

----------------------------------------------------------------------------
(***************************************************************************)
(* The reads of session/events.                                            *)
(***************************************************************************)
\* An answer that nobody has been given yet.
LEMMA IdlePollIs == IdlePoll \in Polls /\ IdlePoll.pc = "idle"
<1>1. <<>> \in Seq(Entries) /\ <<>> \in Seq(Chunk)
  OBVIOUS
<1> QED BY <1>1 DEF IdlePoll, Polls, Answer, Answers

\* A step of the request, which leaves server and reducer alone.
LEMMA PollKeeps ==
    ASSUME ChatInv, UNCHANGED <<server, since, stream>>, poll' \in Polls,
           poll'.pc \in {"deltas", "sent"} => FollowsEvents(poll'.events, since.events),
           poll'.pc = "sent" => FollowsChunks(poll'.answer, since.deltas)
    PROVE  ChatInv'
<1>1. /\ turn' = turn /\ worker' = worker /\ made' = made /\ active' = active /\ ring' = ring
      /\ log' = log /\ since' = since /\ stream' = stream
  BY DEF server
<1>2. StreamKinds' /\ TurnInv' /\ StreamInv'
  BY <1>1 DEF ChatInv, StreamKinds, TurnInv, StreamInv, ShowsTo
<1>3. PollInv'
  BY <1>1 DEF ChatInv, PollInv, FollowsEvents, FollowsChunks
<1> QED BY <1>2, <1>3 DEF ChatInv

\* The rest of a sequence beyond some of its elements.
LEMMA SuffixIs ==
    ASSUME NEW S, NEW q \in Seq(S), NEW from \in Nat, from <= Len(q)
    PROVE  /\ SubSeq(q, from + 1, Len(q)) \in Seq(S)
           /\ Len(SubSeq(q, from + 1, Len(q))) = Len(q) - from
           /\ \A i \in 1 .. Len(SubSeq(q, from + 1, Len(q))) : SubSeq(q, from + 1, Len(q))[i] = q[from + i]
<1> DEFINE m == from + 1
           n == Len(q)
<1>1. n \in Nat /\ m \in Int /\ \A i \in m .. n : q[i] \in S
  OBVIOUS
<1> HIDE DEF m, n
<1>2. /\ SubSeq(q, m, n) \in Seq(S)
      /\ Len(SubSeq(q, m, n)) = IF m <= n THEN n - m + 1 ELSE 0
      /\ \A i \in 1 .. n - m + 1 : SubSeq(q, m, n)[i] = q[m + i - 1]
  BY <1>1, SubSeqProperties
<1>3. Len(SubSeq(q, m, n)) = n - from
  BY <1>1, <1>2 DEF m, n
<1>4. \A i \in 1 .. n - from : SubSeq(q, m, n)[i] = q[from + i]
  <2>1. n - m + 1 = n - from /\ \A i \in Nat : m + i - 1 = from + i
    BY <1>1 DEF m
  <2> QED BY <1>2, <2>1
<1> QED BY <1>2, <1>3, <1>4 DEF m, n

LEMMA ReadEventsKeeps == ASSUME ChatInv, ReadEvents PROVE ChatInv'
<1> DEFINE after == SubSeq(log, since.events + 1, Len(log))
<1>1. PICK n \in 0 .. Most : n <= Len(after)
                /\ poll' = [poll EXCEPT !.pc = "deltas", !.events = SubSeq(after, 1, n)]
  BY DEF ReadEvents
<1>2. log \in Seq(Entries) /\ since.events \in Nat /\ since.events <= Len(log) /\ poll \in Polls
  BY DEF ChatInv, StreamKinds, PollInv
<1>3. /\ after \in Seq(Entries) /\ Len(after) = Len(log) - since.events
      /\ \A i \in 1 .. Len(after) : after[i] = log[since.events + i]
  BY <1>2, SuffixIs
<1> HIDE DEF after
<1>4. PICK some : some = SubSeq(after, 1, n)
  OBVIOUS
<1>5. n \in Nat
  BY <1>1
<1>6. some \in Seq(Entries) /\ Len(some) = n /\ \A i \in 1 .. n : some[i] = after[i]
  BY <1>1, <1>3, <1>4, <1>5
<1>7. poll' \in Polls /\ poll'.pc = "deltas" /\ poll'.events = some
  BY <1>1, <1>2, <1>4, <1>6 DEF Polls
<1>8. FollowsEvents(some, since.events)
  BY <1>1, <1>2, <1>3, <1>5, <1>6 DEF FollowsEvents
<1> QED BY <1>7, <1>8, PollKeeps DEF ReadEvents

\* What DeltaRing.read returns follows the cursor it was given.
LEMMA ReadFollows ==
    ASSUME ChatInv, NEW a \in Read(since.deltas)
    PROVE  a \in Answers /\ FollowsChunks(a, since.deltas)
<1> DEFINE from == since.deltas
<1>1. from \in Nat /\ from <= Len(made) /\ Len(made) \in Nat /\ made \in Seq(Nat)
  BY DEF ChatInv, StreamKinds, PollInv
<1> HIDE DEF from
<1>2. ASSUME NEW d \in BOOLEAN, a = Answer(<<>>, Len(made), d), d \/ from = Len(made)
      PROVE  a \in Answers /\ FollowsChunks(a, from)
  <2>1. a.chunks = <<>> /\ a.cursor = Len(made)
    BY <1>2 DEF Answer
  <2>2. a.dropped = d
    BY <1>2 DEF Answer
  <2>3. a \in Answers
    <3>1. <<>> \in Seq(Chunk)
      OBVIOUS
    <3> QED BY <1>1, <1>2, <3>1 DEF Answer, Answers
  <2>4. Len(a.chunks) = 0
    BY <2>1
  <2> QED BY <1>1, <1>2, <2>1, <2>2, <2>3, <2>4 DEF FollowsChunks, Larger
<1>3. ASSUME NEW to \in from + 1 .. Len(made), a = Answer(Chunks(from, to), to, FALSE)
      PROVE  a \in Answers /\ FollowsChunks(a, from)
  <2>1. to \in Nat /\ from < to /\ to <= Len(made) /\ to - from \in Nat
    BY <1>1
  <2>2. PICK q : q = Chunks(from, to)
    OBVIOUS
  <2>3. q = [i \in 1 .. to - from |-> [seq |-> from + i, turn |-> made[from + i]]]
    BY <2>2 DEF Chunks
  <2>4. \A i \in 1 .. to - from : from + i \in 1 .. Len(made) /\ from + i \in Nat
    BY <1>1, <2>1
  <2>5. \A i \in 1 .. to - from : [seq |-> from + i, turn |-> made[from + i]] \in Chunk
    BY <1>1, <2>4 DEF Chunk
  <2>6. q \in Seq(Chunk) /\ Len(q) = to - from
    BY <2>1, <2>3, <2>5
  <2>7. \A i \in 1 .. Len(q) : q[i].seq = from + i /\ q[i].turn = made[from + i]
    BY <2>3, <2>6
  <2>8. a.chunks = q /\ a.cursor = to
    BY <1>3, <2>2 DEF Answer
  <2>9. a.dropped = FALSE
    BY <1>3 DEF Answer
  <2>10. a \in Answers
    BY <1>3, <2>1, <2>2, <2>6 DEF Answer, Answers
  <2>11. Larger(from, to) = from + Len(q)
    BY <1>1, <2>1, <2>6 DEF Larger
  <2> QED BY <2>1, <2>4, <2>6, <2>7, <2>8, <2>9, <2>10, <2>11 DEF FollowsChunks
<1>4. \/ a = Answer(<<>>, Len(made), TRUE)
      \/ a = Answer(<<>>, Len(made), FALSE) /\ from = Len(made)
      \/ \E to \in from + 1 .. Len(made) : a = Answer(Chunks(from, to), to, FALSE)
  BY DEF Read, Latest, from
<1> QED BY <1>2, <1>3, <1>4 DEF from

LEMMA ReadDeltasKeeps == ASSUME ChatInv, ReadDeltas PROVE ChatInv'
<1>1. PICK a \in IF ring THEN Read(since.deltas) ELSE {Answer(<<>>, 0, since.deltas > 0)} :
            \/ poll' = [poll EXCEPT !.pc = "sent", !.answer = a, !.more = ~RunEnded]
            \/ poll' = IdlePoll
  BY DEF ReadDeltas
<1>2. a \in Answers /\ FollowsChunks(a, since.deltas)
  <2>1. CASE ring
    BY <1>1, <2>1, ReadFollows
  <2>2. CASE ~ring
    <3>1. PICK d \in BOOLEAN : d = (since.deltas > 0)
      <4>1. (since.deltas > 0) \in BOOLEAN
        BY DEF ChatInv, StreamKinds
      <4> QED BY <4>1, Zenon
    <3>2. a = Answer(<<>>, 0, d)
      BY <1>1, <2>2, <3>1
    <3>3. a.chunks = <<>> /\ a.cursor = 0 /\ Len(a.chunks) = 0
      BY <3>2 DEF Answer
    <3>4. a.dropped = d
      BY <3>2 DEF Answer
    <3>5. a \in Answers
      <4>1. <<>> \in Seq(Chunk)
        OBVIOUS
      <4> QED BY <3>2, <4>1 DEF Answer, Answers
    <3>6. since.deltas \in Nat /\ Len(made) \in Nat
      BY DEF ChatInv, StreamKinds
    <3> QED BY <3>1, <3>3, <3>4, <3>5, <3>6 DEF FollowsChunks, Larger
  <2> QED BY <2>1, <2>2
<1>3. CASE poll' = IdlePoll
  BY <1>3, IdlePollIs, PollKeeps DEF ReadDeltas
<1>4. CASE poll' = [poll EXCEPT !.pc = "sent", !.answer = a, !.more = ~RunEnded]
  <2>1. PICK b \in BOOLEAN : b = ~RunEnded
    OBVIOUS
  <2>2. poll' = [poll EXCEPT !.pc = "sent", !.answer = a, !.more = b] /\ poll \in Polls
    BY <1>4, <2>1 DEF ChatInv, StreamKinds
  <2>3. poll' \in Polls /\ poll'.pc = "sent" /\ poll'.answer = a /\ poll'.events = poll.events
    BY <1>2, <2>2 DEF Polls
  <2>4. FollowsEvents(poll.events, since.events)
    BY DEF ReadDeltas, ChatInv, PollInv
  <2> QED BY <1>2, <2>3, <2>4, PollKeeps DEF ReadDeltas
<1> QED BY <1>1, <1>3, <1>4

----------------------------------------------------------------------------
(***************************************************************************)
(* The pump of the extension.                                              *)
(***************************************************************************)
\* A step of the client, which leaves the server alone and drops the request.
LEMMA ClientKeeps ==
    ASSUME ChatInv, UNCHANGED server, poll' \in Polls,
           poll'.pc \in {"deltas", "sent"} => poll' = poll /\ since' = since,
           since' \in [events : Nat, deltas : Nat], stream' \in Streams,
           since'.events <= Len(log), since'.deltas <= Len(made),
           stream'.cursor = since'.deltas, ShowsTo(stream', since'.deltas),
           \A i \in 1 .. since'.events : log[i].kind = "assistant" => log[i].turn \in stream'.final
    PROVE  ChatInv'
<1>1. /\ turn' = turn /\ worker' = worker /\ made' = made /\ active' = active /\ ring' = ring
      /\ log' = log
  BY DEF server
<1>2. StreamKinds' /\ TurnInv'
  BY <1>1 DEF ChatInv, StreamKinds, TurnInv
<1>3. PollInv'
  BY <1>1 DEF ChatInv, PollInv, FollowsEvents, FollowsChunks
<1>4. StreamInv'
  BY <1>1 DEF ChatInv, StreamInv, ShowsTo
<1> QED BY <1>2, <1>3, <1>4 DEF ChatInv

LEMMA DeliverKeeps == ASSUME ChatInv, Deliver PROVE ChatInv'
<1> DEFINE cursor == Larger(since.deltas, poll.answer.cursor)
           streamed == Apply(stream, poll.answer, cursor)
           settled == IF poll.events = <<>> THEN streamed
                      ELSE ReconcileDurable(streamed, poll.events)
<1>1. /\ since' = [events |-> since.events + Len(poll.events), deltas |-> cursor]
      /\ stream' = IF poll.more THEN settled ELSE ClearFailure(settled)
      /\ poll' = IF ~poll.more /\ poll.events = <<>>
                 THEN [IdlePoll EXCEPT !.pc = "stopped"] ELSE IdlePoll
      /\ UNCHANGED server /\ poll.pc = "sent"
  BY DEF Deliver
<1>2. /\ StreamKinds /\ TurnInv /\ poll \in Polls /\ stream \in Streams /\ poll.answer \in Answers
      /\ since.deltas \in Nat /\ since.events \in Nat /\ poll.events \in Seq(Entries)
      /\ log \in Seq(Entries) /\ made \in Seq(Nat)
  BY DEF ChatInv, StreamKinds, Polls
<1>3. /\ FollowsEvents(poll.events, since.events) /\ FollowsChunks(poll.answer, since.deltas)
      /\ since.deltas <= Len(made) /\ since.events <= Len(log)
      /\ stream.cursor = since.deltas /\ ShowsTo(stream, since.deltas)
  BY <1>1 DEF ChatInv, PollInv, StreamInv
<1>4. /\ cursor \in Nat /\ cursor <= Len(made) /\ streamed \in Streams /\ ShowsTo(streamed, cursor)
      /\ streamed.cursor = cursor /\ streamed.final = stream.final
  BY <1>2, <1>3, ApplyKeeps
<1> HIDE DEF cursor, streamed
<1>5. /\ settled \in Streams /\ ShowsTo(settled, cursor) /\ settled.cursor = cursor
      /\ stream.final \subseteq settled.final
      /\ \A i \in 1 .. Len(poll.events) :
            poll.events[i].kind = "assistant" => poll.events[i].turn \in settled.final
  <2>1. CASE poll.events = <<>>
    <3>1. Len(poll.events) = 0 /\ settled = streamed
      BY <2>1
    <3> QED BY <1>4, <3>1
  <2>2. CASE poll.events # <<>>
    <3>1. settled = ReconcileDurable(streamed, poll.events)
      BY <2>2
    <3> HIDE DEF settled
    <3> QED BY <1>2, <1>4, <3>1, ReconcileKeeps
  <2> QED BY <2>1, <2>2
<1> HIDE DEF settled
<1>6. /\ stream' \in Streams /\ ShowsTo(stream', cursor) /\ stream'.cursor = cursor
      /\ stream'.final = settled.final
  <2>1. settled.cursor <= cursor
    BY <1>4, <1>5
  <2> QED BY <1>1, <1>2, <1>4, <1>5, <2>1, ClearFailureKeeps
<1>7. poll' \in Polls /\ poll'.pc \in {"idle", "stopped"}
  BY <1>1, IdlePollIs DEF Polls
<1>8. /\ Len(poll.events) \in Nat /\ since.events + Len(poll.events) <= Len(log)
      /\ since' \in [events : Nat, deltas : Nat] /\ since'.deltas = cursor
      /\ since'.events = since.events + Len(poll.events)
  BY <1>1, <1>2, <1>3, <1>4 DEF FollowsEvents
<1>9. ASSUME NEW i \in 1 .. since'.events, log[i].kind = "assistant"
      PROVE  log[i].turn \in stream'.final
  <2>1. CASE i <= since.events
    <3>1. i \in 1 .. since.events
      BY <1>2, <1>8, <1>9, <2>1
    <3>2. log[i].turn \in stream.final
      BY <1>9, <3>1 DEF ChatInv, StreamInv
    <3> QED BY <1>5, <1>6, <3>2
  <2>2. CASE i > since.events
    <3>1. PICK k \in 1 .. Len(poll.events) : i = since.events + k
      <4>1. i - since.events \in 1 .. Len(poll.events) /\ i = since.events + (i - since.events)
        BY <1>2, <1>8, <2>2
      <4> QED BY <4>1
    <3>2. poll.events[k] = log[i]
      BY <1>3, <3>1 DEF FollowsEvents
    <3> QED BY <1>5, <1>6, <1>9, <3>2
  <2> QED BY <1>2, <2>1, <2>2
<1> QED BY <1>1, <1>4, <1>6, <1>7, <1>8, <1>9, ClientKeeps

LEMMA UnreachableKeeps == ASSUME ChatInv, Unreachable PROVE ChatInv'
<1>1. poll' = IdlePoll /\ stream' = ClearFailure(stream) /\ since' = since /\ UNCHANGED server
  BY DEF Unreachable
<1>2. /\ StreamKinds /\ stream \in Streams /\ since \in [events : Nat, deltas : Nat]
      /\ since.events <= Len(log) /\ since.deltas <= Len(made) /\ stream.cursor = since.deltas
      /\ \A i \in 1 .. since.events : log[i].kind = "assistant" => log[i].turn \in stream.final
  BY DEF ChatInv, StreamKinds, PollInv, StreamInv
<1>3. /\ stream' \in Streams /\ ShowsTo(stream', since.deltas) /\ stream'.cursor = stream.cursor
      /\ stream'.final = stream.final
  BY <1>1, <1>2, ClearFailureKeeps
<1>4. ShowsTo(stream', since'.deltas) /\ since'.deltas = since.deltas /\ since'.events = since.events
  BY <1>1, <1>3
<1>5. /\ since' \in [events : Nat, deltas : Nat]
      /\ since'.events <= Len(log) /\ since'.deltas <= Len(made) /\ stream'.cursor = since'.deltas
  BY <1>1, <1>2, <1>3, <1>4
<1>6. \A i \in 1 .. since'.events : log[i].kind = "assistant" => log[i].turn \in stream'.final
  BY <1>2, <1>3, <1>4
<1>7. poll' \in Polls /\ poll'.pc = "idle"
  BY <1>1, IdlePollIs
<1> QED BY <1>1, <1>3, <1>4, <1>5, <1>6, <1>7, ClientKeeps

LEMMA InterruptKeeps == ASSUME ChatInv, Interrupt PROVE ChatInv'
<1>1. poll' = poll /\ stream' = ClearFailure(stream) /\ since' = since /\ UNCHANGED server
  BY DEF Interrupt
<1>2. /\ StreamKinds /\ stream \in Streams /\ since \in [events : Nat, deltas : Nat] /\ poll \in Polls
      /\ since.events <= Len(log) /\ since.deltas <= Len(made) /\ stream.cursor = since.deltas
      /\ \A i \in 1 .. since.events : log[i].kind = "assistant" => log[i].turn \in stream.final
  BY DEF ChatInv, StreamKinds, PollInv, StreamInv
<1>3. /\ stream' \in Streams /\ ShowsTo(stream', since.deltas) /\ stream'.cursor = stream.cursor
      /\ stream'.final = stream.final
  BY <1>1, <1>2, ClearFailureKeeps
<1>4. ShowsTo(stream', since'.deltas) /\ since'.deltas = since.deltas /\ since'.events = since.events
  BY <1>1, <1>3
<1>5. /\ poll' \in Polls
      /\ since' \in [events : Nat, deltas : Nat]
      /\ since'.events <= Len(log) /\ since'.deltas <= Len(made) /\ stream'.cursor = since'.deltas
  BY <1>1, <1>2, <1>3, <1>4
<1>6. \A i \in 1 .. since'.events : log[i].kind = "assistant" => log[i].turn \in stream'.final
  BY <1>2, <1>3, <1>4
<1> QED BY <1>1, <1>3, <1>4, <1>5, <1>6, ClientKeeps

----------------------------------------------------------------------------
LEMMA StreamInitInv == ASSUME StreamConstantsOK, StreamInit PROVE ChatInv
<1>1. <<>> \in Seq(Entries) /\ <<>> \in Seq(Nat) /\ Len(made) = 0 /\ Len(log) = 0
  BY DEF StreamInit
<1>2. StreamKinds
  <2>1. stream \in Streams
    BY DEF StreamInit, Streams, None
  <2>2. since \in [events : Nat, deltas : Nat] /\ turn \in Nat /\ turn <= MaxTurns
        /\ worker \in Workers /\ ring \in BOOLEAN /\ active \in {None, turn} /\ 0 <= MaxChunks
    BY DEF StreamInit, Workers, StreamConstantsOK
  <2> QED BY <1>1, <2>1, <2>2, IdlePollIs DEF StreamInit, StreamKinds
<1>3. TurnInv
  BY <1>1 DEF StreamInit, TurnInv
<1>4. PollInv
  BY <1>1, IdlePollIs DEF StreamInit, PollInv
<1>5. StreamInv
  BY DEF StreamInit, StreamInv, ShowsTo, None
<1> QED BY <1>2, <1>3, <1>4, <1>5 DEF ChatInv

LEMMA StepKeeps == ASSUME StreamConstantsOK, ChatInv, [StreamNext]_streamVars PROVE ChatInv'
<1>1. CASE UNCHANGED streamVars
  BY <1>1 DEF streamVars, server, client, ChatInv, StreamKinds, TurnInv, PollInv, StreamInv, ShowsTo,
              FollowsEvents, FollowsChunks
<1> QED BY <1>1, StartTurnKeeps, AppendDeltaKeeps, CloseTurnKeeps, RecordAssistantKeeps,
           FinishTurnKeeps, EndRunKeeps, DropRingKeeps, DaemonDiesKeeps, SweepKeeps,
           ReadEventsKeeps, ReadDeltasKeeps, DeliverKeeps, UnreachableKeeps, InterruptKeeps
        DEF StreamNext

\* The invariant of the ring, the reads and the reducer, for rings, responses and
\* conversations of any size (session_drive.DeltaRing, streamReducer.ts).
THEOREM StreamInvHolds == ASSUME StreamConstantsOK PROVE StreamSpec => []ChatInv
<1>1. StreamInit => ChatInv
  BY StreamInitInv
<1>2. ChatInv /\ [StreamNext]_streamVars => ChatInv'
  BY StepKeeps
<1> QED BY <1>1, <1>2, PTL DEF StreamSpec

\* Cursors never pass what there is to read, and what is shown was generated
\* (DeltaRing.read, StreamReducer.applyDeltas).
THEOREM StreamTypeCorrect == ASSUME StreamConstantsOK PROVE StreamSpec => []StreamTypeOK
<1>1. ASSUME ChatInv PROVE StreamTypeOK
  <2>1. turn \in Nat /\ turn <= MaxTurns /\ stream \in Streams /\ Len(made) \in Nat
        /\ since.deltas \in Nat
    BY <1>1 DEF ChatInv, StreamKinds
  <2>2. stream.of \in 0 .. turn /\ turn \in 0 .. MaxTurns
    BY <1>1, <2>1 DEF ChatInv, StreamInv, ShowsTo, Streams, StreamConstantsOK
  <2>3. stream.shown \subseteq 1 .. Len(made)
    <3>1. \A i \in stream.shown : i \in 1 .. since.deltas
      BY <1>1 DEF ChatInv, StreamInv, ShowsTo
    <3> QED BY <1>1, <2>1, <3>1 DEF ChatInv, PollInv
  <2> QED BY <1>1, <2>2, <2>3 DEF ChatInv, StreamKinds, PollInv, StreamInv, StreamTypeOK, Latest
<1> QED BY <1>1, StreamInvHolds, PTL

\* What a chat shows of an unfinished answer is one run of chunks of one turn, and
\* never stands beside the durable answer of that turn, however much the ring
\* evicted, whatever was lost and however events and chunks were cut into responses.
THEOREM BubblesAreTrue == ASSUME StreamConstantsOK PROVE StreamSpec => []BubbleIsTrue
<1>1. ASSUME ChatInv PROVE BubbleIsTrue
  <2> DEFINE bubble == IF stream.suppressed THEN {} ELSE stream.shown
  <2>1. /\ Len(made) \in Nat /\ since.deltas \in Nat /\ since.deltas <= Len(made)
        /\ ShowsTo(stream, since.deltas) /\ made \in Seq(Nat) /\ stream \in Streams
    BY <1>1 DEF ChatInv, StreamKinds, PollInv, StreamInv
  <2>2. bubble \subseteq stream.shown
    OBVIOUS
  <2>3. \A i \in bubble : made[i] = stream.of
    BY <2>1, <2>2 DEF ShowsTo
  <2>4. ASSUME NEW i \in bubble, NEW k \in bubble, NEW j \in 1 .. Len(made), i < j, j < k
        PROVE  j \in bubble
    <3>1. i \in stream.shown /\ k \in stream.shown /\ i \in 1 .. since.deltas
          /\ k \in 1 .. since.deltas /\ made[k] = stream.of
      BY <2>1, <2>2 DEF ShowsTo
    <3>2. j \in i .. since.deltas
      BY <2>1, <2>4, <3>1
    <3>3. j \in stream.shown \/ made[j] > stream.of
      BY <2>1, <3>1, <3>2 DEF ShowsTo
    <3>4. made[j] <= made[k] /\ made[j] \in Nat /\ made[k] \in Nat
      BY <1>1, <2>1, <2>4, <3>1, SMTT(20) DEF ChatInv, TurnInv
    <3> QED BY <2>1, <3>1, <3>3, <3>4 DEF Streams
  <2>5. bubble # {} => stream.of \notin Answered
    <3>1. bubble # {} => stream.of \notin stream.final
      BY <2>1, <2>2 DEF ShowsTo
    <3>2. Answered \subseteq stream.final
      BY <1>1 DEF ChatInv, StreamInv, Answered
    <3> QED BY <3>1, <3>2
  <2> QED BY <2>3, <2>4, <2>5 DEF BubbleIsTrue, Latest
<1> QED BY <1>1, StreamInvHolds, PTL
----------------------------------------------------------------------------
(***************************************************************************)
(* The cache of images and context snapshots.  While a thread holds the    *)
(* lock, what it will write or restore is what it found, and the editor    *)
(* writes the sidecar of an image only where there was none.               *)
(***************************************************************************)
JobOps == {"free", "put", "read", "write", "undo", "note", "unnote", "sweep", "unlink"}
Sidecars == Meta \cup {NoMeta}
Leaves == [object : CacheObject, there : BOOLEAN, meta : Sidecars]
Jobs == [op : JobOps, by : CacheSession \cup {NoCacheSession}, todo : Seq(CacheObject), read : Sidecars,
         leaves : Seq(Leaves), undo : Seq(Leaves), proven : BOOLEAN, touched : SUBSET CacheObject]
CacheRequests == [pc : {"idle", "checked", "stored"}, images : SUBSET CacheImage, files : SUBSET CacheContext]
Stagings == [pc : {"idle", "put", "read", "write"}, object : CacheObject \cup {NoHost.object}, read : Sidecars]

\* The kind of value of every variable.
CacheKinds ==
    /\ there \subseteq CacheObject /\ sidecar \in [CacheObject -> Sidecars]
    /\ cacheClock \in Time /\ rows \subseteq CacheSession
    /\ daemonUp \in {"down", "boots", "serves"}
    /\ cacheJob \in Jobs /\ request \in [CacheSession -> CacheRequests]
    /\ leaseRefuses \in BOOLEAN
    /\ staging \in Stagings /\ (staging.pc # "idle" => staging.object \in CacheObject)
    /\ cacheFaults \in 0 .. MaxCacheFaults
    /\ noted \in [CacheSession -> SUBSET CacheImage]

Batches == cacheJob.op \in {"put", "read", "write", "undo"}
Notes == cacheJob.op \in {"note", "unnote"}
Undoes == cacheJob.op \in {"undo", "unnote"}
LeafNo == 1 .. Len(cacheJob.leaves)

\* What is to be undone is the beginning of what was found, each object once.
LeavesInv ==
    Batches \/ Notes =>
        /\ cacheJob.by \in CacheSession
        /\ 1 <= Len(cacheJob.undo) /\ Len(cacheJob.undo) <= Len(cacheJob.leaves)
        /\ \A i \in 1 .. Len(cacheJob.undo) : cacheJob.undo[i] = cacheJob.leaves[i]
        /\ \A i, j \in LeafNo : cacheJob.leaves[i].object = cacheJob.leaves[j].object => i = j
        /\ ~Undoes => cacheJob.undo = cacheJob.leaves
        /\ ~Undoes => cacheJob.todo # <<>>

\* A batch is about context snapshots.
BatchInv ==
    Batches => /\ \A i \in LeafNo : cacheJob.leaves[i].object \in CacheContext
               /\ \A i \in 1 .. Len(cacheJob.todo) : cacheJob.todo[i] \in CacheContext

\* Notes are made on staged images, which stay staged; what was found names every
\* conversation that has noted the image.
NotesInv ==
    Notes => \A i \in LeafNo :
        LET leaf == cacheJob.leaves[i]
        IN  /\ leaf.object \in CacheImage /\ leaf.there /\ leaf.object \in there
            /\ leaf.meta \in Meta /\ leaf.meta.origin = "host" /\ sidecar[leaf.object] \in Meta
            /\ \A s \in rows : leaf.object \in noted[s] => s \in leaf.meta.sessions

\* A thread that notes has noted all it found but what is left.
NotedSoFar ==
    cacheJob.op = "note" =>
        LET found == Len(cacheJob.leaves)
            left == Len(cacheJob.todo)
        IN  /\ left <= found
            /\ \A i \in 1 .. left : cacheJob.todo[i] = cacheJob.leaves[found - left + i].object
            /\ \A i \in 1 .. found - left : cacheJob.by \in sidecar[cacheJob.leaves[i].object].sessions
            /\ \A o \in request[cacheJob.by].images : \E i \in LeafNo : cacheJob.leaves[i].object = o

\* What is no longer to be undone is as it was found.
UndoneInv ==
    Undoes /\ cacheJob.proven =>
        \A i \in LeafNo : i > Len(cacheJob.undo) =>
            LET leaf == cacheJob.leaves[i]
            IN  \/ leaf.object \in cacheJob.touched
                \/ (leaf.object \in there <=> leaf.there) /\ sidecar[leaf.object] = leaf.meta

\* An object that is about to lose its sidecar is nobody's.
UnlinkInv ==
    cacheJob.op = "unlink" => cacheJob.todo # <<>> /\ \A s \in rows : cacheJob.todo[1] \notin noted[s]

\* Only the editor makes the sidecar of an image.
HostInv ==
    /\ \A o \in CacheImage : sidecar[o] # NoMeta => sidecar[o].origin = "host"
    /\ staging.pc = "write" /\ staging.object \in CacheImage =>
          staging.read = NoMeta /\ sidecar[staging.object] = NoMeta

\* An image a conversation has noted is there, and its sidecar says who did.
NotedInv ==
    \A s \in rows : \A o \in noted[s] : o \in there /\ sidecar[o] \in Meta /\ s \in sidecar[o].sessions

CacheAgrees ==
    LeavesInv /\ BatchInv /\ NotesInv /\ NotedSoFar /\ UndoneInv /\ UnlinkInv /\ HostInv /\ NotedInv
CacheInv == CacheKinds /\ CacheAgrees

----------------------------------------------------------------------------
\* An order of a finite set lists each of its elements once.
LEMMA OrderIs ==
    ASSUME NEW S, IsFiniteSet(S), NEW order \in SetToSeqs(S)
    PROVE  /\ order \in Seq(S) /\ Len(order) = Cardinality(S) /\ Cardinality(S) \in Nat
           /\ DOMAIN order = 1 .. Len(order)
           /\ \A i, j \in 1 .. Len(order) : order[i] = order[j] => i = j
           /\ \A o \in S : \E i \in 1 .. Len(order) : order[i] = o
<1> DEFINE n == Cardinality(S)
<1>1. n \in Nat
  BY FS_CardinalityType
<1>2. order \in [1 .. n -> S] /\ \A i, j \in 1 .. n : i # j => order[i] # order[j]
  BY DEF SetToSeqs
<1>3. order \in Injection(1 .. n, S)
  BY <1>2 DEF Injection, IsInjective
<1>4. IsFiniteSet(1 .. n) /\ Cardinality(1 .. n) = n
  BY <1>1, FS_Interval
<1>5. order \in Surjection(1 .. n, S)
  BY <1>3, <1>4, FS_Injection
<1>6. order \in Seq(S) /\ Len(order) = n
  BY <1>1, <1>2
<1> QED BY <1>1, <1>2, <1>5, <1>6 DEF Surjection

LEMMA SweepOrderIs == ASSUME NEW S, IsFiniteSet(S) PROVE SetToSeq(S) \in Seq(S)
<1> DEFINE n == Cardinality(S)
<1>1. n \in Nat /\ ExistsBijection(1 .. n, S)
  BY FS_CardinalityType
<1>2. \E f \in [1 .. n -> S] : IsInjective(f)
  BY <1>1 DEF ExistsBijection, Bijection, Injection
<1>3. SetToSeq(S) \in [1 .. n -> S]
  BY <1>2 DEF SetToSeq
<1> QED BY <1>1, <1>3

LEMMA NoMetaIs == ASSUME CacheConstantsOK PROVE NoMeta \notin Meta /\ Never \notin Time /\ Never \in Nat
  BY DEF CacheConstantsOK, NoMeta, Meta, Origin, Never, Time

\* A step that leaves what is stored and what the lock's holder does.
LEMMA CacheStays ==
    ASSUME CacheAgrees, UNCHANGED <<there, sidecar, cacheJob, noted>>, rows' \subseteq rows,
           staging'.pc = "write" => staging' = staging,
           cacheJob.op = "note" => UNCHANGED request
    PROVE  CacheAgrees'
<1> USE DEF CacheAgrees, Batches, Notes, Undoes, LeafNo
<1>1. LeavesInv' /\ BatchInv'
  BY DEF LeavesInv, BatchInv
<1>2. NotesInv'
  BY DEF NotesInv
<1>3. NotedSoFar'
  BY DEF NotedSoFar
<1>4. UndoneInv' /\ UnlinkInv'
  BY DEF UndoneInv, UnlinkInv
<1>5. HostInv' /\ NotedInv'
  BY DEF HostInv, NotedInv
<1> QED BY <1>1, <1>2, <1>3, <1>4, <1>5

\* Nobody holds the lock, or the cleanup looks for the next object.
LEMMA FreeAgrees ==
    ASSUME HostInv', NotedInv', cacheJob'.op \in {"free", "sweep"}
    PROVE  CacheAgrees'
  BY DEF CacheAgrees, LeavesInv, BatchInv, NotesInv, NotedSoFar, UndoneInv, UnlinkInv, Batches, Notes, Undoes

LEMMA FreeIs == Free \in Jobs /\ Free.op = "free"
  BY DEF Free, Jobs, JobOps, Sidecars

LEMMA NoHostIs == NoHost \in Stagings /\ NoHost.pc = "idle" /\ NoHost.read = NoMeta
<1> DEFINE o == CHOOSE o \in CacheObject : TRUE
<1>1. NoHost = [pc |-> "idle", object |-> o, read |-> NoMeta]
  BY DEF NoHost
<1> HIDE DEF o
<1>2. NoHost.object = o
  BY <1>1
<1> QED BY <1>1, <1>2 DEF Stagings, Sidecars

LEMMA CacheInitInv == ASSUME CacheConstantsOK, CacheInit PROVE CacheInv
<1> USE DEF CacheInit
<1>2. request \in [CacheSession -> CacheRequests] /\ sidecar \in [CacheObject -> Sidecars]
  BY DEF CacheRequests, Idle, Sidecars
<1>1. MaxCacheTime \in Nat /\ MaxCacheFaults \in Nat
  BY DEF CacheConstantsOK
<1>6. cacheClock \in Time /\ cacheFaults \in 0 .. MaxCacheFaults
  BY <1>1 DEF Time
<1>7. noted \in [CacheSession -> SUBSET CacheImage]
  OBVIOUS
<1>3. CacheKinds
  BY <1>2, <1>6, <1>7, FreeIs, NoHostIs DEF CacheKinds
<1>4. HostInv /\ NotedInv
  BY NoHostIs DEF HostInv, NotedInv, CacheObject
<1>5. CacheAgrees
  BY <1>4, FreeIs DEF CacheAgrees, LeavesInv, BatchInv, NotesInv, NotedSoFar, UndoneInv, UnlinkInv, Batches,
                      Notes, Undoes
<1> QED BY <1>3, <1>5 DEF CacheInv

\* Steps beside the lock.
LEMMA BesideKeeps ==
    ASSUME CacheConstantsOK, CacheKinds, CacheAgrees,
           \/ Tick
           \/ \E s \in CacheSession : Forget(s) \/ Materialize(s)
           \/ \E o \in CacheObject : HostLook(o)
    PROVE  CacheKinds' /\ CacheAgrees'
<1>1. CASE Tick
  BY <1>1, CacheStays DEF Tick, CacheKinds, CacheConstantsOK, Time, objects
<1>2. ASSUME NEW s \in CacheSession, Forget(s)
      PROVE  CacheKinds' /\ CacheAgrees'
  BY <1>2, CacheStays DEF Forget, CacheKinds, objects
<1>3. ASSUME NEW s \in CacheSession, Materialize(s)
      PROVE  CacheKinds' /\ CacheAgrees'
  <2>1. UNCHANGED <<there, sidecar, cacheJob, noted, rows, staging>> /\ cacheJob.op = "free"
    BY <1>3, FreeIs DEF Materialize, objects
  <2>2. request' \in [CacheSession -> CacheRequests]
    BY <1>3 DEF Materialize, CacheKinds, CacheRequests
  <2>3. CacheKinds'
    BY <1>3, <2>1, <2>2 DEF CacheKinds, Materialize
  <2> QED BY <2>1, <2>3, CacheStays
<1>4. ASSUME NEW o \in CacheObject, HostLook(o)
      PROVE  CacheKinds' /\ CacheAgrees'
  <2> DEFINE to == IF o \in there THEN "read" ELSE "put"
  <2>1. staging' = [NoHost EXCEPT !.pc = to, !.object = o] /\ to \in {"read", "put"}
    BY <1>4 DEF HostLook
  <2> HIDE DEF to
  <2>2. NoHost \in Stagings
    BY NoHostIs
  <2>3. staging' \in Stagings /\ staging'.object \in CacheObject /\ staging'.pc # "write"
    BY <2>1, <2>2 DEF Stagings, Sidecars
  <2> QED BY <1>4, <2>3, CacheStays DEF HostLook, CacheKinds, objects
<1> QED BY <1>1, <1>2, <1>3, <1>4

----------------------------------------------------------------------------
\* The holder of the lock goes from one step to the next.
LEMMA OpChanges ==
    ASSUME cacheJob \in Jobs, NEW p \in JobOps, cacheJob' = [cacheJob EXCEPT !.op = p]
    PROVE  /\ cacheJob' \in Jobs /\ cacheJob'.op = p /\ cacheJob'.by = cacheJob.by
           /\ cacheJob'.todo = cacheJob.todo /\ cacheJob'.leaves = cacheJob.leaves
           /\ cacheJob'.undo = cacheJob.undo /\ cacheJob'.proven = cacheJob.proven
           /\ cacheJob'.touched = cacheJob.touched
  BY DEF Jobs

LEMMA NextTaken ==
    ASSUME cacheJob \in Jobs, cacheJob.todo # <<>>, NEW p \in JobOps,
           \/ cacheJob' = [cacheJob EXCEPT !.op = p, !.todo = Tail(@)]
           \/ p = cacheJob.op /\ cacheJob' = [cacheJob EXCEPT !.todo = Tail(@)]
    PROVE  /\ cacheJob' \in Jobs /\ cacheJob'.op = p /\ cacheJob'.by = cacheJob.by
           /\ cacheJob'.leaves = cacheJob.leaves /\ cacheJob'.undo = cacheJob.undo
           /\ Len(cacheJob'.todo) = Len(cacheJob.todo) - 1 /\ Len(cacheJob'.todo) \in Nat
           /\ \A i \in 1 .. Len(cacheJob'.todo) : cacheJob'.todo[i] = cacheJob.todo[i + 1]
<1>1. cacheJob.todo \in Seq(CacheObject)
  BY DEF Jobs
<1>2. /\ Tail(cacheJob.todo) \in Seq(CacheObject)
      /\ Len(Tail(cacheJob.todo)) = Len(cacheJob.todo) - 1
      /\ \A i \in 1 .. Len(Tail(cacheJob.todo)) : Tail(cacheJob.todo)[i] = cacheJob.todo[i + 1]
  BY <1>1, HeadTailProperties
<1> DEFINE rest == Tail(cacheJob.todo)
<1>3. /\ cacheJob' \in Jobs /\ cacheJob'.op = p /\ cacheJob'.by = cacheJob.by
      /\ cacheJob'.leaves = cacheJob.leaves /\ cacheJob'.undo = cacheJob.undo
      /\ cacheJob'.todo = rest
  BY <1>2 DEF Jobs
<1> QED BY <1>1, <1>2, <1>3

LEMMA NextIs ==
    ASSUME cacheJob \in Jobs, cacheJob.todo # <<>>
    PROVE  /\ Len(cacheJob.todo) \in Nat /\ 1 \in 1 .. Len(cacheJob.todo)
           /\ Head(cacheJob.todo) = cacheJob.todo[1] /\ Head(cacheJob.todo) \in CacheObject
  BY DEF Jobs

LEMMA SidecarSet ==
    ASSUME sidecar \in [CacheObject -> Sidecars], NEW o \in CacheObject, NEW m \in Sidecars,
           sidecar' = [sidecar EXCEPT ![o] = m]
    PROVE  /\ sidecar' \in [CacheObject -> Sidecars] /\ sidecar'[o] = m
           /\ \A q \in CacheObject : q # o => sidecar'[q] = sidecar[q]
  OBVIOUS

\* What does not touch the images.
LEMMA ImagesStay ==
    ASSUME CacheKinds, HostInv, NotedInv, UNCHANGED <<rows, noted, staging>>,
           \A o \in CacheImage : (o \in there => o \in there') /\ sidecar'[o] = sidecar[o]
    PROVE  HostInv' /\ NotedInv'
<1>1. HostInv'
  BY DEF HostInv
<1>2. NotedInv'
  BY DEF NotedInv, CacheKinds
<1> QED BY <1>1, <1>2

LEMMA BatchGoesOn ==
    ASSUME CacheKinds, CacheAgrees, cacheJob.op \in {"put", "read", "write"},
           cacheJob'.op \in {"put", "read", "write", "undo"}, cacheJob'.by = cacheJob.by,
           cacheJob'.leaves = cacheJob.leaves, cacheJob'.undo = cacheJob.undo,
           cacheJob'.op # "undo" => cacheJob'.todo # <<>>,
           \A i \in 1 .. Len(cacheJob'.todo) : cacheJob'.todo[i] \in CacheContext,
           HostInv', NotedInv'
    PROVE  CacheAgrees'
<1> USE DEF CacheAgrees, Batches, Notes, Undoes, LeafNo
<1>1. LeavesInv' /\ BatchInv'
  BY DEF LeavesInv, BatchInv
<1>2. NotesInv' /\ NotedSoFar' /\ UnlinkInv'
  BY DEF NotesInv, NotedSoFar, UnlinkInv
<1>3. cacheJob'.undo = cacheJob'.leaves /\ Len(cacheJob.leaves) \in Nat
  BY DEF LeavesInv, CacheKinds, Jobs
<1>4. UndoneInv'
  BY <1>3 DEF UndoneInv
<1> QED BY <1>1, <1>2, <1>4

LEMMA BatchIs ==
    ASSUME CacheConstantsOK, CacheKinds, CacheAgrees, cacheJob.op \in {"put", "read", "write"}
    PROVE  /\ cacheJob.todo # <<>> /\ Head(cacheJob.todo) \in CacheObject
           /\ \A o \in CacheImage : o # Head(cacheJob.todo)
           /\ \A i \in 1 .. Len(cacheJob.todo) : cacheJob.todo[i] \in CacheContext
           /\ Len(cacheJob.todo) \in Nat /\ Len(cacheJob.todo) >= 1
<1>1. cacheJob.todo # <<>> /\ \A i \in 1 .. Len(cacheJob.todo) : cacheJob.todo[i] \in CacheContext
  BY DEF CacheAgrees, LeavesInv, BatchInv, Batches, Undoes
<1> QED BY <1>1, NextIs DEF CacheKinds, CacheConstantsOK

LEMMA PutKeeps ==
    ASSUME CacheConstantsOK, CacheKinds, CacheAgrees, Put
    PROVE  CacheKinds' /\ CacheAgrees'
<1> DEFINE o == Head(cacheJob.todo)
<1>1. /\ cacheJob.op = "put" /\ UNCHANGED <<sidecar, rows, noted, staging, cacheClock, daemonUp, request, leaseRefuses>>
      /\ there' = there \/ there' = there \cup {o}
  BY DEF Put
<1>2. PICK p \in {"read", "undo"} : cacheJob' = [cacheJob EXCEPT !.op = p]
  BY DEF Put
<1>3. cacheFaults' \in 0 .. MaxCacheFaults
  BY DEF Put, Works, Fails, CacheKinds, CacheConstantsOK
<1>4. o \in CacheObject /\ \A i \in 1 .. Len(cacheJob.todo) : cacheJob.todo[i] \in CacheContext
  BY <1>1, BatchIs
<1>5. /\ cacheJob' \in Jobs /\ cacheJob'.op = p /\ cacheJob'.by = cacheJob.by
      /\ cacheJob'.todo = cacheJob.todo /\ cacheJob'.leaves = cacheJob.leaves
      /\ cacheJob'.undo = cacheJob.undo
  BY <1>2, OpChanges DEF CacheKinds, JobOps
<1> HIDE DEF o
<1>6. CacheKinds'
  BY <1>1, <1>3, <1>4, <1>5 DEF CacheKinds
<1>7. HostInv' /\ NotedInv'
  BY <1>1, ImagesStay DEF CacheAgrees
<1>8. cacheJob.todo # <<>>
  BY <1>1, BatchIs
<1> QED BY <1>1, <1>4, <1>5, <1>6, <1>7, <1>8, BatchGoesOn

LEMMA ReadSidecarKeeps ==
    ASSUME CacheConstantsOK, CacheKinds, CacheAgrees, ReadSidecar
    PROVE  CacheKinds' /\ CacheAgrees'
<1> DEFINE m == sidecar[Head(cacheJob.todo)]
<1>1. /\ cacheJob.op = "read" /\ cacheJob' = [cacheJob EXCEPT !.op = "write", !.read = m]
      /\ UNCHANGED <<there, sidecar, rows, noted, staging, cacheClock, daemonUp, request, leaseRefuses, cacheFaults>>
  BY DEF ReadSidecar, objects
<1>2. m \in Sidecars /\ cacheJob.todo # <<>> /\ \A i \in 1 .. Len(cacheJob.todo) : cacheJob.todo[i] \in CacheContext
  BY <1>1, BatchIs DEF CacheKinds
<1> HIDE DEF m
<1>3. /\ cacheJob' \in Jobs /\ cacheJob'.op = "write" /\ cacheJob'.by = cacheJob.by
      /\ cacheJob'.todo = cacheJob.todo /\ cacheJob'.leaves = cacheJob.leaves
      /\ cacheJob'.undo = cacheJob.undo
  BY <1>1, <1>2 DEF CacheKinds, Jobs, JobOps
<1>4. CacheKinds'
  BY <1>1, <1>3 DEF CacheKinds
<1>5. HostInv' /\ NotedInv'
  BY <1>1, ImagesStay DEF CacheAgrees
<1> QED BY <1>1, <1>2, <1>3, <1>4, <1>5, BatchGoesOn

\* What is known of an object, with a date and an origin, is a sidecar.
LEMMA SidecarMade ==
    ASSUME CacheConstantsOK, CacheKinds, NEW m \in Sidecars, NEW origin \in Origin,
           NEW r, r = [m EXCEPT !.created = IF @ = Never THEN cacheClock ELSE @, !.origin = origin]
    PROVE  r \in Meta /\ r.origin = origin
<1> DEFINE Known == [created : Time \cup {Never}, origin : Origin \cup {"none"}, sessions : SUBSET CacheSession,
                     gone : Time \cup {Never}]
           date == IF m.created = Never THEN cacheClock ELSE m.created
<1>1. m \in Known
  BY DEF Sidecars, Meta, NoMeta
<1>2. date \in Time
  BY <1>1 DEF CacheKinds
<1>3. r = [m EXCEPT !.created = date, !.origin = origin]
  OBVIOUS
<1> HIDE DEF date
<1> QED BY <1>1, <1>2, <1>3 DEF Meta

LEMMA MergedIs ==
    ASSUME CacheConstantsOK, CacheKinds, NEW m \in Sidecars
    PROVE  Merged(m, "file") \in Meta
<1> DEFINE origin == IF m.origin = "none" THEN "file" ELSE m.origin
<1>1. origin \in Origin
  BY DEF Sidecars, Meta, NoMeta, Origin
<1>2. Merged(m, "file") = [m EXCEPT !.created = IF @ = Never THEN cacheClock ELSE @, !.origin = origin]
  BY DEF Merged
<1> HIDE DEF origin
<1> QED BY <1>1, <1>2, SidecarMade

LEMMA WriteSidecarKeeps ==
    ASSUME CacheConstantsOK, CacheKinds, CacheAgrees, WriteSidecar
    PROVE  CacheKinds' /\ CacheAgrees'
<1> DEFINE o == Head(cacheJob.todo)
           m == Merged(cacheJob.read, "file")
<1>1. /\ cacheJob.op = "write"
      /\ UNCHANGED <<there, rows, noted, staging, cacheClock, daemonUp, leaseRefuses>>
      /\ UNCHANGED sidecar \/ sidecar' = [sidecar EXCEPT ![o] = m]
  BY DEF WriteSidecar
<1>2. cacheFaults' \in 0 .. MaxCacheFaults
  BY DEF WriteSidecar, Works, Fails, CacheKinds, CacheConstantsOK
<1>3. /\ o \in CacheObject /\ m \in Sidecars /\ cacheJob.todo # <<>> /\ \A q \in CacheImage : q # o
      /\ \A i \in 1 .. Len(cacheJob.todo) : cacheJob.todo[i] \in CacheContext
  BY <1>1, BatchIs, MergedIs DEF CacheKinds, Jobs, Sidecars
<1>4. cacheJob.by \in CacheSession
  BY <1>1 DEF CacheAgrees, LeavesInv, Batches
<1>5. \/ cacheJob' = Free /\ request' = [request EXCEPT ![cacheJob.by].pc = "stored"]
      \/ UNCHANGED request /\ cacheJob' = [cacheJob EXCEPT !.op = "undo"]
      \/ /\ UNCHANGED request /\ cacheJob' = [cacheJob EXCEPT !.op = "put", !.todo = Tail(@)]
         /\ Len(cacheJob.todo) # 1
  BY DEF WriteSidecar
<1> HIDE DEF o, m
<1>6. sidecar' \in [CacheObject -> Sidecars] /\ \A q \in CacheImage : sidecar'[q] = sidecar[q]
  BY <1>1, <1>3, SidecarSet DEF CacheKinds, CacheObject
<1>7. HostInv' /\ NotedInv'
  BY <1>1, <1>6, ImagesStay DEF CacheAgrees
<1>8. request' \in [CacheSession -> CacheRequests]
  BY <1>4, <1>5 DEF CacheKinds, CacheRequests
<1>9. ASSUME cacheJob' \in Jobs
      PROVE  CacheKinds'
  BY <1>1, <1>2, <1>6, <1>8, <1>9 DEF CacheKinds
<1>10. CASE cacheJob' = Free
  BY <1>7, <1>9, <1>10, FreeIs, FreeAgrees
<1>11. CASE cacheJob' = [cacheJob EXCEPT !.op = "undo"]
  <2>1. /\ cacheJob' \in Jobs /\ cacheJob'.op = "undo" /\ cacheJob'.by = cacheJob.by
        /\ cacheJob'.todo = cacheJob.todo /\ cacheJob'.leaves = cacheJob.leaves
        /\ cacheJob'.undo = cacheJob.undo
    BY <1>11, OpChanges DEF CacheKinds, JobOps
  <2> QED BY <1>1, <1>3, <1>7, <1>9, <2>1, BatchGoesOn
<1>12. CASE cacheJob' = [cacheJob EXCEPT !.op = "put", !.todo = Tail(@)] /\ Len(cacheJob.todo) # 1
  <2>1. /\ cacheJob' \in Jobs /\ cacheJob'.op = "put" /\ cacheJob'.by = cacheJob.by
        /\ cacheJob'.leaves = cacheJob.leaves /\ cacheJob'.undo = cacheJob.undo
        /\ Len(cacheJob'.todo) = Len(cacheJob.todo) - 1 /\ Len(cacheJob'.todo) \in Nat
        /\ \A i \in 1 .. Len(cacheJob'.todo) : cacheJob'.todo[i] = cacheJob.todo[i + 1]
    BY <1>3, <1>12, NextTaken DEF CacheKinds, JobOps
  <2>2. Len(cacheJob.todo) \in Nat /\ Len(cacheJob.todo) >= 1
    BY <1>1, BatchIs
  <2>3. ASSUME NEW i \in 1 .. Len(cacheJob'.todo)
        PROVE  cacheJob'.todo[i] \in CacheContext
    <3>1. i + 1 \in 1 .. Len(cacheJob.todo)
      BY <2>1
    <3> QED BY <1>3, <2>1, <3>1
  <2>5. Len(cacheJob.todo) # 1
    BY <1>12
  <2>6. Len(cacheJob'.todo) # 0
    BY <2>1, <2>2, <2>5
  <2>4. cacheJob'.todo # <<>>
    BY <2>6
  <2> QED BY <1>1, <1>7, <1>9, <2>1, <2>3, <2>4, BatchGoesOn
<1> QED BY <1>5, <1>10, <1>11, <1>12

----------------------------------------------------------------------------
\* The lock is taken: what is found is what will be restored.
LEMMA BeginIs ==
    ASSUME CacheConstantsOK, CacheKinds, NEW s \in CacheSession, NEW S \in SUBSET CacheObject, S # {},
           NEW order \in SetToSeqs(S), NEW op \in {"put", "note"}, Begin(op, s, order)
    PROVE  /\ cacheJob' \in Jobs /\ cacheJob'.op = op /\ cacheJob'.by = s /\ cacheJob'.todo = order
           /\ order \in Seq(S) /\ order # <<>> /\ Len(order) \in Nat /\ Len(order) >= 1
           /\ cacheJob'.undo = cacheJob'.leaves /\ Len(cacheJob'.leaves) = Len(order)
           /\ \A i \in 1 .. Len(order) :
                 /\ order[i] \in S /\ cacheJob'.leaves[i].object = order[i]
                 /\ cacheJob'.leaves[i].there = (order[i] \in there)
                 /\ cacheJob'.leaves[i].meta = sidecar[order[i]]
           /\ \A i, j \in 1 .. Len(order) : order[i] = order[j] => i = j
           /\ \A o \in S : \E i \in 1 .. Len(order) : order[i] = o
<1>1. IsFiniteSet(S)
  BY FS_Subset DEF CacheConstantsOK
<1>2. /\ order \in Seq(S) /\ Len(order) = Cardinality(S) /\ Cardinality(S) \in Nat
      /\ DOMAIN order = 1 .. Len(order)
      /\ \A i, j \in 1 .. Len(order) : order[i] = order[j] => i = j
      /\ \A o \in S : \E i \in 1 .. Len(order) : order[i] = o
  BY <1>1, OrderIs
<1>3. order \in Seq(CacheObject) /\ Len(order) \in Nat
  BY <1>2
<1>4. Len(order) >= 1 /\ order # <<>>
  <2>1. PICK i \in 1 .. Len(order) : TRUE
    BY <1>2
  <2> QED BY <1>3, <2>1
<1> DEFINE found == [i \in DOMAIN order |-> Leaf(order[i])]
<1>5. ASSUME NEW o \in CacheObject
      PROVE  Leaf(o) \in Leaves
  BY DEF Leaf, Leaves, CacheKinds
<1>6. \A i \in 1 .. Len(order) : order[i] \in S /\ Leaf(order[i]) \in Leaves
  BY <1>2, <1>5
<1>7. found \in [1 .. Len(order) -> Leaves]
  BY <1>2, <1>6
<1>8. found \in Seq(Leaves) /\ Len(found) = Len(order)
  BY <1>3, <1>7
<1>9. \A i \in 1 .. Len(order) : found[i] = Leaf(order[i])
  BY <1>2
<1>10. cacheJob' = [Free EXCEPT !.op = op, !.by = s, !.todo = order, !.leaves = found, !.undo = found]
  BY DEF Begin
<1> HIDE DEF found
<1>11. /\ cacheJob' \in Jobs /\ cacheJob'.op = op /\ cacheJob'.by = s /\ cacheJob'.todo = order
       /\ cacheJob'.leaves = found /\ cacheJob'.undo = found
  <2>1. Free \in Jobs
    BY FreeIs
  <2> QED BY <1>3, <1>8, <1>10, <2>1 DEF Jobs, JobOps
<1>12. \A i \in 1 .. Len(order) :
          /\ found[i].object = order[i] /\ found[i].there = (order[i] \in there)
          /\ found[i].meta = sidecar[order[i]]
  <2>1. ASSUME NEW o
        PROVE  Leaf(o).object = o /\ Leaf(o).there = (o \in there) /\ Leaf(o).meta = sidecar[o]
    BY DEF Leaf
  <2> QED BY <1>9, <2>1
<1> QED BY <1>2, <1>3, <1>4, <1>6, <1>8, <1>11, <1>12

\* What every new job agrees with, once its leaves are found.
LEMMA BegunAgrees ==
    ASSUME NEW s \in CacheSession, NEW op \in {"put", "note"}, NEW order,
           cacheJob' \in Jobs, cacheJob'.op = op, cacheJob'.by = s, cacheJob'.todo = order,
           order # <<>>, Len(order) \in Nat, Len(order) >= 1,
           cacheJob'.undo = cacheJob'.leaves, Len(cacheJob'.leaves) = Len(order),
           \A i \in 1 .. Len(order) : cacheJob'.leaves[i].object = order[i],
           \A i, j \in 1 .. Len(order) : order[i] = order[j] => i = j
    PROVE  LeavesInv' /\ UndoneInv' /\ UnlinkInv'
<1>1. Len(cacheJob'.undo) = Len(order)
  OBVIOUS
<1>2. \A i, j \in 1 .. Len(cacheJob'.leaves) : cacheJob'.leaves[i].object = cacheJob'.leaves[j].object => i = j
  OBVIOUS
<1>3. ~Undoes'
  BY DEF Undoes
<1>4. LeavesInv'
  BY <1>1, <1>2, <1>3 DEF LeavesInv, LeafNo
<1>5. UndoneInv' /\ UnlinkInv'
  BY <1>3 DEF UndoneInv, UnlinkInv
<1> QED BY <1>4, <1>5

LEMMA BeginBatchKeeps ==
    ASSUME CacheConstantsOK, CacheKinds, CacheAgrees, NEW s \in CacheSession, BeginBatch(s)
    PROVE  CacheKinds' /\ CacheAgrees'
<1>1. /\ UNCHANGED <<there, sidecar, rows, noted, staging, cacheClock, daemonUp, leaseRefuses, cacheFaults>>
      /\ cacheJob.op = "free"
  BY FreeIs DEF BeginBatch, objects
<1>2. CASE UNCHANGED cacheJob /\ request' = [request EXCEPT ![s].pc = "stored"]
  <2>1. request' \in [CacheSession -> CacheRequests]
    BY <1>2 DEF CacheKinds, CacheRequests
  <2> QED BY <1>1, <1>2, <2>1, CacheStays DEF CacheKinds
<1>3. CASE /\ request[s].files # {} /\ UNCHANGED request
           /\ \E order \in SetToSeqs(request[s].files) : Begin("put", s, order)
  <2> DEFINE S == request[s].files
  <2>1. S \in SUBSET CacheContext /\ S \in SUBSET CacheObject /\ S # {}
    BY <1>3 DEF CacheKinds, CacheRequests, CacheObject
  <2>2. PICK order \in SetToSeqs(S) : Begin("put", s, order)
    BY <1>3
  <2> HIDE DEF S
  <2>3. /\ cacheJob' \in Jobs /\ cacheJob'.op = "put" /\ cacheJob'.by = s /\ cacheJob'.todo = order
        /\ order # <<>> /\ Len(order) \in Nat /\ Len(order) >= 1
        /\ cacheJob'.undo = cacheJob'.leaves /\ Len(cacheJob'.leaves) = Len(order)
        /\ \A i \in 1 .. Len(order) : order[i] \in S /\ cacheJob'.leaves[i].object = order[i]
        /\ \A i, j \in 1 .. Len(order) : order[i] = order[j] => i = j
    BY <2>1, <2>2, BeginIs
  <2>4. CacheKinds'
    BY <1>1, <1>3, <2>3 DEF CacheKinds
  <2>5. LeavesInv' /\ UndoneInv' /\ UnlinkInv'
    BY <2>3, BegunAgrees
  <2>6. \A i \in 1 .. Len(order) : order[i] \in CacheContext
    BY <2>1, <2>3
  <2>7. BatchInv'
    BY <2>3, <2>6 DEF BatchInv, LeafNo
  <2>8. NotesInv' /\ NotedSoFar'
    BY <2>3 DEF NotesInv, NotedSoFar, Notes
  <2>9. HostInv' /\ NotedInv'
    BY <1>1, ImagesStay DEF CacheAgrees
  <2> QED BY <2>4, <2>5, <2>7, <2>8, <2>9 DEF CacheAgrees
<1> QED BY <1>2, <1>3 DEF BeginBatch

LEMMA BeginNoteKeeps ==
    ASSUME CacheConstantsOK, CacheKinds, CacheAgrees, NEW s \in CacheSession, BeginNote(s)
    PROVE  CacheKinds' /\ CacheAgrees'
<1>1. /\ UNCHANGED <<there, sidecar, rows, noted, staging, cacheClock, daemonUp, leaseRefuses, cacheFaults>>
      /\ cacheJob.op = "free"
  BY FreeIs DEF BeginNote, objects
<1>2. CASE UNCHANGED cacheJob /\ request' = [request EXCEPT ![s] = Idle]
  <2>1. request' \in [CacheSession -> CacheRequests]
    BY <1>2 DEF CacheKinds, CacheRequests, Idle
  <2> QED BY <1>1, <1>2, <2>1, CacheStays DEF CacheKinds
<1>3. CASE /\ request[s].images # {} /\ UNCHANGED request
           /\ \A o \in request[s].images : Staged(o)
           /\ \E order \in SetToSeqs(request[s].images) : Begin("note", s, order)
  <2> DEFINE S == request[s].images
  <2>1. S \in SUBSET CacheImage /\ S \in SUBSET CacheObject /\ S # {} /\ \A o \in S : Staged(o)
    BY <1>3 DEF CacheKinds, CacheRequests, CacheObject
  <2>2. PICK order \in SetToSeqs(S) : Begin("note", s, order)
    BY <1>3
  <2>11. request'[s].images = S
    BY <1>3
  <2> HIDE DEF S
  <2>3. /\ cacheJob' \in Jobs /\ cacheJob'.op = "note" /\ cacheJob'.by = s /\ cacheJob'.todo = order
        /\ order # <<>> /\ Len(order) \in Nat /\ Len(order) >= 1
        /\ cacheJob'.undo = cacheJob'.leaves /\ Len(cacheJob'.leaves) = Len(order)
        /\ \A i \in 1 .. Len(order) :
              /\ order[i] \in S /\ cacheJob'.leaves[i].object = order[i]
              /\ cacheJob'.leaves[i].there = (order[i] \in there)
              /\ cacheJob'.leaves[i].meta = sidecar[order[i]]
        /\ \A i, j \in 1 .. Len(order) : order[i] = order[j] => i = j
        /\ \A o \in S : \E i \in 1 .. Len(order) : order[i] = o
    BY <2>1, <2>2, BeginIs
  <2>4. CacheKinds'
    BY <1>1, <1>3, <2>3 DEF CacheKinds
  <2>5. LeavesInv' /\ UndoneInv' /\ UnlinkInv'
    BY <2>3, BegunAgrees
  <2>6. BatchInv'
    BY <2>3 DEF BatchInv, Batches
  <2>7. HostInv' /\ NotedInv'
    BY <1>1, ImagesStay DEF CacheAgrees
  <2>8. ASSUME NEW i \in 1 .. Len(order)
        PROVE  LET leaf == cacheJob'.leaves[i]
               IN  /\ leaf.object \in CacheImage /\ leaf.there /\ leaf.object \in there'
                   /\ leaf.meta \in Meta /\ leaf.meta.origin = "host" /\ sidecar'[leaf.object] \in Meta
                   /\ \A c \in rows' : leaf.object \in noted'[c] => c \in leaf.meta.sessions
    <3> DEFINE o == order[i]
    <3>1. /\ o \in S /\ cacheJob'.leaves[i].object = o /\ cacheJob'.leaves[i].there = (o \in there)
          /\ cacheJob'.leaves[i].meta = sidecar[o]
      BY <2>3
    <3> HIDE DEF o
    <3>2. o \in CacheImage /\ o \in CacheObject /\ o \in there /\ sidecar[o] # NoMeta
      BY <2>1, <3>1 DEF Staged
    <3>3. sidecar[o] \in Meta /\ sidecar[o].origin = "host"
      BY <3>2 DEF CacheAgrees, HostInv, CacheKinds, Sidecars
    <3>4. \A c \in rows : o \in noted[c] => c \in sidecar[o].sessions
      BY DEF CacheAgrees, NotedInv
    <3> QED BY <1>1, <3>1, <3>2, <3>3, <3>4
  <2>9. NotesInv'
    BY <2>3, <2>8 DEF NotesInv, LeafNo
  <2>10. NotedSoFar'
    <3>1. Len(order) - Len(order) = 0 /\ \A i \in 1 .. Len(order) : 0 + i = i
      BY <2>3
    <3> QED BY <2>3, <2>11, <3>1 DEF NotedSoFar, LeafNo
  <2> QED BY <2>4, <2>5, <2>6, <2>7, <2>9, <2>10 DEF CacheAgrees
<1> QED BY <1>2, <1>3 DEF BeginNote

----------------------------------------------------------------------------
\* Undoing: the last leaf that is left is restored, or it is not and that is known.
LastUndo == cacheJob.leaves[Len(cacheJob.undo)]

LEMMA LastUndoIs ==
    ASSUME CacheKinds, LeavesInv, Undoes
    PROVE  /\ Len(cacheJob.undo) \in Nat /\ Len(cacheJob.leaves) \in Nat /\ Len(cacheJob.undo) >= 1
           /\ Len(cacheJob.undo) \in LeafNo /\ Last(cacheJob.undo) = LastUndo
           /\ LastUndo \in Leaves /\ cacheJob.by \in CacheSession
<1>1. cacheJob.undo \in Seq(Leaves) /\ cacheJob.leaves \in Seq(Leaves)
  BY DEF CacheKinds, Jobs
<1>2. /\ cacheJob.by \in CacheSession
      /\ 1 <= Len(cacheJob.undo) /\ Len(cacheJob.undo) <= Len(cacheJob.leaves)
      /\ \A i \in 1 .. Len(cacheJob.undo) : cacheJob.undo[i] = cacheJob.leaves[i]
  BY DEF LeavesInv, Undoes, Batches, Notes
<1>3. Len(cacheJob.undo) \in 1 .. Len(cacheJob.undo) /\ Len(cacheJob.undo) \in LeafNo
  BY <1>1, <1>2 DEF LeafNo
<1>4. cacheJob.undo[Len(cacheJob.undo)] = LastUndo
  BY <1>2, <1>3 DEF LastUndo
<1>5. Last(cacheJob.undo) = LastUndo
  BY <1>4 DEF Last
<1>6. LastUndo \in Leaves
  BY <1>1, <1>3 DEF LastUndo, LeafNo
<1> QED BY <1>1, <1>2, <1>3, <1>5, <1>6

\* What one undone leaf leaves behind.
Restored(p) ==
    /\ LeafUndone(p)
    /\ there' \subseteq CacheObject /\ sidecar' \in [CacheObject -> Sidecars]
    /\ \A q \in CacheObject :
          q # LastUndo.object => (q \in there' <=> q \in there) /\ sidecar'[q] = sidecar[q]
    /\ p => /\ cacheJob.proven
            /\ LastUndo.object \in there' <=> LastUndo.there
            /\ sidecar'[LastUndo.object] = LastUndo.meta

LEMMA UndoneSoFar ==
    ASSUME CacheKinds, LeavesInv, UndoneInv, Undoes, NEW p \in BOOLEAN, Restored(p), p,
           NEW i \in LeafNo, i >= Len(cacheJob.undo)
    PROVE  LET leaf == cacheJob.leaves[i]
           IN  \/ leaf.object \in cacheJob.touched
               \/ (leaf.object \in there' <=> leaf.there) /\ sidecar'[leaf.object] = leaf.meta
<1>1. /\ Len(cacheJob.undo) \in Nat /\ Len(cacheJob.leaves) \in Nat
      /\ Len(cacheJob.undo) \in LeafNo
  BY LastUndoIs
<1>2. /\ LastUndo.object \in there' <=> LastUndo.there
      /\ sidecar'[LastUndo.object] = LastUndo.meta /\ cacheJob.proven
      /\ \A q \in CacheObject :
            q # LastUndo.object => (q \in there' <=> q \in there) /\ sidecar'[q] = sidecar[q]
  BY DEF Restored
<1>3. CASE i = Len(cacheJob.undo)
  BY <1>2, <1>3 DEF LastUndo
<1>4. CASE i > Len(cacheJob.undo)
  <2>1. cacheJob.leaves[i].object # LastUndo.object
    BY <1>1, <1>4 DEF LeavesInv, Undoes, Batches, Notes, LastUndo
  <2>4. cacheJob.leaves \in Seq(Leaves)
    BY DEF CacheKinds, Jobs
  <2>5. cacheJob.leaves[i] \in Leaves
    BY <2>4 DEF LeafNo
  <2>2. cacheJob.leaves[i].object \in CacheObject
    BY <2>5 DEF Leaves
  <2>3. \/ cacheJob.leaves[i].object \in cacheJob.touched
        \/ /\ cacheJob.leaves[i].object \in there <=> cacheJob.leaves[i].there
           /\ sidecar[cacheJob.leaves[i].object] = cacheJob.leaves[i].meta
    BY <1>2, <1>4 DEF UndoneInv
  <2> QED BY <1>2, <2>1, <2>2, <2>3
<1>5. i \in Nat
  BY DEF LeafNo
<1> QED BY <1>1, <1>3, <1>4, <1>5

LEMMA FrontIs ==
    ASSUME CacheKinds, LeavesInv, Undoes, Len(cacheJob.undo) # 1
    PROVE  /\ Front(cacheJob.undo) \in Seq(Leaves) /\ Len(Front(cacheJob.undo)) = Len(cacheJob.undo) - 1
           /\ Len(cacheJob.undo) - 1 >= 1
           /\ \A i \in 1 .. Len(cacheJob.undo) - 1 : Front(cacheJob.undo)[i] = cacheJob.undo[i]
<1> DEFINE n == Len(cacheJob.undo)
<1>7. cacheJob.undo \in Seq(Leaves)
  BY DEF CacheKinds, Jobs
<1>1. n \in Nat /\ n >= 1 /\ cacheJob.undo \in Seq(Leaves)
  BY <1>7, LastUndoIs
<1>8. n # 1
  OBVIOUS
<1>9. ASSUME NEW k \in Nat, k >= 1, k # 1
      PROVE  k - 1 >= 1 /\ k - 1 \in Int /\ 1 \in Int
  BY <1>9
<1> HIDE DEF n
<1>2. n - 1 >= 1 /\ n - 1 \in Int /\ 1 \in Int
  BY <1>1, <1>8, <1>9
<1> USE DEF n
<1>3. \A i \in 1 .. n - 1 : cacheJob.undo[i] \in Leaves
  BY <1>1
<1> DEFINE f == SubSeq(cacheJob.undo, 1, n - 1)
<1>4. /\ f \in Seq(Leaves) /\ Len(f) = IF 1 <= n - 1 THEN (n - 1) - 1 + 1 ELSE 0
      /\ \A i \in 1 .. (n - 1) - 1 + 1 : f[i] = cacheJob.undo[1 + i - 1]
  BY <1>2, <1>3, SubSeqProperties
<1>5. Front(cacheJob.undo) = f
  BY DEF Front
<1> HIDE DEF f
<1>6. (n - 1) - 1 + 1 = n - 1 /\ \A i \in 1 .. n - 1 : 1 + i - 1 = i
  BY <1>1
<1> QED BY <1>1, <1>2, <1>4, <1>5, <1>6

LEMMA RestoredKeeps ==
    ASSUME CacheKinds, CacheAgrees, Undoes, NEW p \in BOOLEAN, Restored(p),
           UNCHANGED <<cacheClock, rows, daemonUp, staging, noted>>, cacheFaults' \in 0 .. MaxCacheFaults,
           HostInv', NotedInv',
           cacheJob.op = "unnote" =>
               \A i \in LeafNo : cacheJob.leaves[i].object \in there' /\ sidecar'[cacheJob.leaves[i].object] \in Meta
    PROVE  CacheKinds' /\ CacheAgrees'
<1>1. LeavesInv /\ UndoneInv
  BY DEF CacheAgrees
<1>2. there' \subseteq CacheObject /\ sidecar' \in [CacheObject -> Sidecars]
  BY DEF Restored
<1>3. CASE Len(cacheJob.undo) = 1
  <2>1. /\ cacheJob' = Free /\ request' = [request EXCEPT ![cacheJob.by] = Idle]
        /\ leaseRefuses' = (leaseRefuses \/ ~p)
    BY <1>3 DEF Restored, LeafUndone, RefuseRequest
  <2>2. request' \in [CacheSession -> CacheRequests] /\ leaseRefuses' \in BOOLEAN
    BY <2>1 DEF CacheKinds, CacheRequests, Idle
  <2>3. CacheKinds'
    BY <1>2, <2>1, <2>2, FreeIs DEF CacheKinds
  <2> QED BY <2>1, <2>3, FreeIs, FreeAgrees
<1>4. CASE Len(cacheJob.undo) # 1
  <2> DEFINE f == Front(cacheJob.undo)
  <2>1. /\ cacheJob' = [cacheJob EXCEPT !.undo = f, !.proven = p]
        /\ UNCHANGED <<request, leaseRefuses>>
    BY <1>4 DEF Restored, LeafUndone
  <2>2. /\ f \in Seq(Leaves) /\ Len(f) = Len(cacheJob.undo) - 1 /\ Len(cacheJob.undo) - 1 >= 1
        /\ \A i \in 1 .. Len(cacheJob.undo) - 1 : f[i] = cacheJob.undo[i]
    BY <1>1, <1>4, FrontIs
  <2> HIDE DEF f
  <2>3. /\ cacheJob' \in Jobs /\ cacheJob'.op = cacheJob.op /\ cacheJob'.by = cacheJob.by
        /\ cacheJob'.todo = cacheJob.todo /\ cacheJob'.leaves = cacheJob.leaves
        /\ cacheJob'.undo = f /\ cacheJob'.proven = p /\ cacheJob'.touched = cacheJob.touched
    BY <2>1, <2>2 DEF CacheKinds, Jobs
  <2>4. CacheKinds'
    BY <1>2, <2>1, <2>3 DEF CacheKinds
  <2>5. /\ Len(cacheJob.undo) \in Nat /\ Len(cacheJob.leaves) \in Nat /\ Len(cacheJob.undo) \in LeafNo
    BY <1>1, LastUndoIs
  <2>6. LeavesInv'
    <3>1. Len(f) >= 1 /\ Len(f) <= Len(cacheJob.leaves)
      BY <2>2, <2>5 DEF LeafNo
    <3>2. \A i \in 1 .. Len(f) : f[i] = cacheJob.leaves[i]
      BY <1>1, <2>2, <2>5 DEF LeavesInv, Undoes, Batches, Notes
    <3> QED BY <1>1, <2>3, <3>1, <3>2 DEF LeavesInv, Undoes, Batches, Notes, LeafNo
  <2>7. BatchInv'
    BY <2>3 DEF CacheAgrees, BatchInv, Batches, LeafNo
  <2>8. NotesInv'
    BY <2>3 DEF CacheAgrees, NotesInv, Notes, LeafNo, Undoes
  <2>9. NotedSoFar' /\ UnlinkInv'
    BY <2>3 DEF NotedSoFar, UnlinkInv, Undoes
  <2>10. UndoneInv'
    <3>1. SUFFICES ASSUME p, NEW i \in LeafNo, i > Len(f)
                   PROVE  LET leaf == cacheJob.leaves[i]
                          IN  \/ leaf.object \in cacheJob.touched
                              \/ (leaf.object \in there' <=> leaf.there) /\ sidecar'[leaf.object] = leaf.meta
      BY <2>3 DEF UndoneInv, LeafNo
    <3>2. i >= Len(cacheJob.undo)
      BY <2>2, <2>5, <3>1 DEF LeafNo
    <3> QED BY <1>1, <3>1, <3>2, UndoneSoFar
  <2> QED BY <2>4, <2>6, <2>7, <2>8, <2>9, <2>10 DEF CacheAgrees
<1> QED BY <1>3, <1>4

----------------------------------------------------------------------------
LEMMA FaultsAre ==
    ASSUME CacheConstantsOK, CacheKinds, Works \/ Fails
    PROVE  cacheFaults' \in 0 .. MaxCacheFaults
<1>1. MaxCacheFaults \in Nat /\ cacheFaults \in 0 .. MaxCacheFaults
  BY DEF CacheConstantsOK, CacheKinds
<1> QED BY <1>1 DEF Works, Fails

\* A refusal whose undo is proven is undone.
LEMMA RestoredRefuses ==
    ASSUME CacheKinds, LeavesInv, UndoneInv, Undoes, NEW p \in BOOLEAN, Restored(p)
    PROVE  RefusedIsUndone
<1>1. SUFFICES ASSUME cacheJob'.op = "free", ~leaseRefuses', NEW leaf \in ToSet(cacheJob.leaves)
               PROVE  \/ leaf.object \in cacheJob.touched
                      \/ /\ leaf.object \in there' <=> leaf.there
                         /\ sidecar'[leaf.object] = leaf.meta
  BY DEF RefusedIsUndone
<1>2. Len(cacheJob.undo) = 1
  <2>1. SUFFICES ASSUME Len(cacheJob.undo) # 1
                 PROVE  FALSE
    OBVIOUS
  <2> DEFINE f == Front(cacheJob.undo)
  <2>2. cacheJob' = [cacheJob EXCEPT !.undo = f, !.proven = p]
    BY <2>1 DEF Restored, LeafUndone
  <2> HIDE DEF f
  <2>3. cacheJob'.op = cacheJob.op
    BY <2>2 DEF CacheKinds, Jobs
  <2> QED BY <1>1, <2>3 DEF Undoes
<1>3. leaseRefuses' = (leaseRefuses \/ ~p)
  BY <1>2 DEF Restored, LeafUndone, RefuseRequest
<1>4. p
  BY <1>1, <1>3
<1>5. cacheJob.leaves \in Seq(Leaves) /\ DOMAIN cacheJob.leaves = LeafNo
  BY DEF CacheKinds, Jobs, LeafNo
<1>6. PICK i \in LeafNo : leaf = cacheJob.leaves[i]
  BY <1>5 DEF ToSet
<1>7. i >= Len(cacheJob.undo)
  BY <1>2 DEF LeafNo
<1> QED BY <1>4, <1>6, <1>7, UndoneSoFar

LEMMA RestoresSidecar ==
    ASSUME CacheKinds, LeavesInv, Undoes, RestoreSidecar(LastUndo)
    PROVE  /\ sidecar' \in [CacheObject -> Sidecars] /\ sidecar'[LastUndo.object] = LastUndo.meta
           /\ \A q \in CacheObject : q # LastUndo.object => sidecar'[q] = sidecar[q]
<1>1. LastUndo.object \in CacheObject /\ LastUndo.meta \in Sidecars
  BY LastUndoIs DEF Leaves
<1>2. sidecar' = [sidecar EXCEPT ![LastUndo.object] = LastUndo.meta]
  BY DEF RestoreSidecar
<1> QED BY <1>1, <1>2, SidecarSet DEF CacheKinds

LEMMA RestoresFile ==
    ASSUME CacheKinds, LeavesInv, Undoes, RestoreFile(LastUndo)
    PROVE  /\ there' \subseteq CacheObject /\ (LastUndo.object \in there' <=> LastUndo.there)
           /\ \A q \in CacheObject : q # LastUndo.object => (q \in there' <=> q \in there)
<1>1. LastUndo.object \in CacheObject /\ LastUndo.there \in BOOLEAN
  BY LastUndoIs DEF Leaves
<1> QED BY <1>1 DEF RestoreFile, CacheKinds

LEMMA UndoLeafKeeps ==
    ASSUME CacheConstantsOK, CacheKinds, CacheAgrees, UndoLeaf
    PROVE  CacheKinds' /\ CacheAgrees' /\ RefusedIsUndone
<1>1. /\ cacheJob.op = "undo" /\ UNCHANGED <<cacheClock, rows, daemonUp, staging, noted>>
      /\ Undoes /\ Batches
  BY DEF UndoLeaf, Undoes, Batches
<1>2. LeavesInv /\ UndoneInv /\ HostInv /\ NotedInv
  BY DEF CacheAgrees
<1>3. Last(cacheJob.undo) = LastUndo /\ LastUndo \in Leaves /\ LastUndo.object \in CacheContext
  <2>1. Last(cacheJob.undo) = LastUndo /\ LastUndo \in Leaves /\ Len(cacheJob.undo) \in LeafNo
    BY <1>1, <1>2, LastUndoIs
  <2> QED BY <1>1, <2>1 DEF CacheAgrees, BatchInv, LastUndo
<1>4. cacheFaults' \in 0 .. MaxCacheFaults
  BY FaultsAre DEF UndoLeaf
<1>5. \E p \in BOOLEAN : Restored(p)
  <2>1. CASE RestoreFile(LastUndo) /\ RestoreSidecar(LastUndo) /\ LeafUndone(cacheJob.proven)
    <3>1. cacheJob.proven \in BOOLEAN
      BY DEF CacheKinds, Jobs
    <3>2. Restored(cacheJob.proven)
      BY <1>1, <1>2, <2>1, RestoresFile, RestoresSidecar DEF Restored
    <3> QED BY <3>1, <3>2
  <2>2. CASE RestoreFile(LastUndo) /\ UNCHANGED sidecar /\ LeafUndone(FALSE)
    <3>1. Restored(FALSE)
      BY <1>1, <1>2, <2>2, RestoresFile DEF Restored, CacheKinds
    <3> QED BY <3>1
  <2>3. CASE UNCHANGED <<there>> /\ RestoreSidecar(LastUndo) /\ LeafUndone(FALSE)
    <3>1. Restored(FALSE)
      BY <1>1, <1>2, <2>3, RestoresSidecar DEF Restored, CacheKinds
    <3> QED BY <3>1
  <2> QED BY <1>3, <2>1, <2>2, <2>3 DEF UndoLeaf
<1>6. PICK p \in BOOLEAN : Restored(p)
  BY <1>5
<1>7. \A o \in CacheImage : o # LastUndo.object /\ o \in CacheObject
  BY <1>3 DEF CacheConstantsOK, CacheObject
<1>8. HostInv' /\ NotedInv'
  BY <1>1, <1>2, <1>6, <1>7, ImagesStay DEF Restored
<1>9. CacheKinds' /\ CacheAgrees'
  BY <1>1, <1>4, <1>6, <1>8, RestoredKeeps
<1>10. RefusedIsUndone
  BY <1>1, <1>2, <1>6, RestoredRefuses
<1> QED BY <1>9, <1>10

LEMMA UnnoteImageKeeps ==
    ASSUME CacheConstantsOK, CacheKinds, CacheAgrees, UnnoteImage
    PROVE  CacheKinds' /\ CacheAgrees' /\ RefusedIsUndone
<1>1. /\ cacheJob.op = "unnote" /\ UNCHANGED <<there, cacheClock, rows, daemonUp, staging, noted>>
      /\ Undoes /\ Notes
  BY DEF UnnoteImage, Undoes, Notes
<1>2. LeavesInv /\ UndoneInv /\ HostInv /\ NotedInv /\ NotesInv
  BY DEF CacheAgrees
<1>3. Last(cacheJob.undo) = LastUndo /\ LastUndo \in Leaves /\ Len(cacheJob.undo) \in LeafNo
  BY <1>1, <1>2, LastUndoIs
<1>11. /\ LastUndo.object \in CacheImage /\ LastUndo.there /\ LastUndo.object \in there
       /\ LastUndo.meta \in Meta /\ LastUndo.meta.origin = "host" /\ sidecar[LastUndo.object] \in Meta
       /\ \A s \in rows : LastUndo.object \in noted[s] => s \in LastUndo.meta.sessions
  BY <1>1, <1>2, <1>3 DEF NotesInv, LastUndo
<1>4. cacheFaults' \in 0 .. MaxCacheFaults
  BY FaultsAre DEF UnnoteImage
<1>12. UNCHANGED sidecar \/ RestoreSidecar(LastUndo)
  BY <1>3 DEF UnnoteImage
<1>13. /\ sidecar' \in [CacheObject -> Sidecars]
       /\ \A q \in CacheObject : q # LastUndo.object => sidecar'[q] = sidecar[q]
       /\ UNCHANGED sidecar \/ sidecar'[LastUndo.object] = LastUndo.meta
  BY <1>1, <1>2, <1>12, RestoresSidecar DEF CacheKinds
<1>5. \E p \in BOOLEAN : Restored(p)
  <2>1. CASE RestoreSidecar(LastUndo) /\ LeafUndone(cacheJob.proven)
    <3>1. cacheJob.proven \in BOOLEAN
      BY DEF CacheKinds, Jobs
    <3>2. sidecar'[LastUndo.object] = LastUndo.meta
      BY <1>1, <1>2, <2>1, RestoresSidecar
    <3>3. Restored(cacheJob.proven)
      BY <1>1, <1>11, <1>13, <2>1, <3>2 DEF Restored, CacheKinds
    <3> QED BY <3>1, <3>3
  <2>2. CASE UNCHANGED sidecar /\ LeafUndone(FALSE)
    <3>1. Restored(FALSE)
      BY <1>1, <1>13, <2>2 DEF Restored, CacheKinds
    <3> QED BY <3>1
  <2> QED BY <1>3, <2>1, <2>2 DEF UnnoteImage
<1>6. PICK p \in BOOLEAN : Restored(p)
  BY <1>5
<1>7. sidecar'[LastUndo.object] \in Meta
  BY <1>11, <1>13
<1>14. NoMeta \notin Meta
  BY NoMetaIs
<1>15. HostInv'
  <2>1. ASSUME NEW o \in CacheImage, sidecar'[o] # NoMeta
        PROVE  sidecar'[o].origin = "host"
    BY <1>2, <1>11, <1>13, <2>1 DEF HostInv, CacheObject
  <2>2. ASSUME staging.pc = "write", staging.object \in CacheImage
        PROVE  staging.read = NoMeta /\ sidecar'[staging.object] = NoMeta
    BY <1>2, <1>11, <1>13, <1>14, <2>2 DEF HostInv, CacheObject
  <2> QED BY <1>1, <2>1, <2>2 DEF HostInv
<1>16. NotedInv'
  <2>1. ASSUME NEW s \in rows, NEW o \in noted[s]
        PROVE  o \in there /\ sidecar'[o] \in Meta /\ s \in sidecar'[o].sessions
    <3>1. o \in CacheObject /\ o \in there /\ sidecar[o] \in Meta /\ s \in sidecar[o].sessions
      BY <1>2, <2>1 DEF NotedInv, CacheKinds, CacheObject
    <3>2. CASE o = LastUndo.object
      BY <1>11, <1>13, <3>1, <3>2
    <3>3. CASE o # LastUndo.object
      BY <1>13, <3>1, <3>3
    <3> QED BY <3>2, <3>3
  <2> QED BY <1>1, <2>1 DEF NotedInv
<1>17. ASSUME NEW i \in LeafNo
       PROVE  cacheJob.leaves[i].object \in there' /\ sidecar'[cacheJob.leaves[i].object] \in Meta
  <2>1. /\ cacheJob.leaves[i].object \in CacheImage /\ cacheJob.leaves[i].object \in there
        /\ sidecar[cacheJob.leaves[i].object] \in Meta
    BY <1>1, <1>2 DEF NotesInv
  <2> QED BY <1>1, <1>7, <1>13, <2>1 DEF CacheObject
<1>9. CacheKinds' /\ CacheAgrees'
  BY <1>1, <1>4, <1>6, <1>15, <1>16, <1>17, RestoredKeeps
<1>10. RefusedIsUndone
  BY <1>1, <1>2, <1>6, RestoredRefuses
<1> QED BY <1>9, <1>10

----------------------------------------------------------------------------
\* What a thread that notes is about to write.
NoteNo == Len(cacheJob.leaves) - Len(cacheJob.todo) + 1

LEMMA NoteIs ==
    ASSUME CacheKinds, CacheAgrees, cacheJob.op = "note"
    PROVE  /\ Len(cacheJob.leaves) \in Nat /\ Len(cacheJob.todo) \in Nat /\ Len(cacheJob.todo) >= 1
           /\ NoteNo \in LeafNo /\ Head(cacheJob.todo) = cacheJob.leaves[NoteNo].object
           /\ LeafOf(Head(cacheJob.todo)) = cacheJob.leaves[NoteNo]
<1> DEFINE n == Len(cacheJob.leaves)
           l == Len(cacheJob.todo)
<1>1. cacheJob.leaves \in Seq(Leaves) /\ cacheJob.todo \in Seq(CacheObject)
  BY DEF CacheKinds, Jobs
<1>2. cacheJob.todo # <<>> /\ l <= n /\ \A i \in 1 .. l : cacheJob.todo[i] = cacheJob.leaves[n - l + i].object
  BY DEF CacheAgrees, LeavesInv, NotedSoFar, Batches, Notes, Undoes
<1>3. n \in Nat /\ l \in Nat /\ l >= 1 /\ 1 \in 1 .. l /\ Head(cacheJob.todo) = cacheJob.todo[1]
  BY <1>1, <1>2
<1>11. ASSUME NEW a \in Nat, NEW b \in Nat, b >= 1, b <= a
       PROVE  a - b + 1 \in 1 .. a
  BY <1>11
<1>12. NoteNo = n - l + 1
  BY DEF NoteNo
<1>14. Head(cacheJob.todo) = cacheJob.leaves[NoteNo].object
  BY <1>2, <1>3, <1>12
<1> HIDE DEF n, l
<1>13. n - l + 1 \in 1 .. n
  BY <1>2, <1>3, <1>11
<1> USE DEF n, l
<1>4. NoteNo \in LeafNo /\ Head(cacheJob.todo) = cacheJob.leaves[NoteNo].object
  BY <1>12, <1>13, <1>14 DEF LeafNo
<1>5. \A i, j \in LeafNo : cacheJob.leaves[i].object = cacheJob.leaves[j].object => i = j
  BY DEF CacheAgrees, LeavesInv, Notes
<1> DEFINE o == Head(cacheJob.todo)
           found == {cacheJob.leaves[i] : i \in DOMAIN cacheJob.leaves}
<1>6. DOMAIN cacheJob.leaves = LeafNo
  BY <1>1 DEF LeafNo
<1>7. LeafOf(o) = CHOOSE leaf \in found : leaf.object = o
  BY DEF LeafOf
<1>8. cacheJob.leaves[NoteNo] \in found /\ cacheJob.leaves[NoteNo].object = o
  BY <1>4, <1>6
<1>9. ASSUME NEW leaf \in found, leaf.object = o
      PROVE  leaf = cacheJob.leaves[NoteNo]
  <2>1. PICK i \in LeafNo : leaf = cacheJob.leaves[i]
    BY <1>6
  <2> QED BY <1>4, <1>5, <1>9, <2>1
<1> HIDE DEF found, o
<1>10. LeafOf(o) = cacheJob.leaves[NoteNo]
  BY <1>7, <1>8, <1>9
<1> USE DEF o
<1> QED BY <1>3, <1>4, <1>10

\* The image is noted: its sidecar names the conversation and all it named, and the
\* editor's part does not care for it.
LEMMA NotedHead ==
    ASSUME CacheConstantsOK, CacheKinds, CacheAgrees, cacheJob.op = "note", UNCHANGED staging,
           sidecar' = [sidecar EXCEPT ![Head(cacheJob.todo)] = WithSession(LeafOf(Head(cacheJob.todo)), cacheJob.by)]
    PROVE  LET o == Head(cacheJob.todo) IN
           /\ o \in CacheImage /\ o \in CacheObject /\ o \in there
           /\ sidecar' \in [CacheObject -> Sidecars]
           /\ sidecar'[o] \in Meta /\ sidecar'[o].origin = "host" /\ cacheJob.by \in sidecar'[o].sessions
           /\ \A s \in rows : o \in noted[s] => s \in sidecar'[o].sessions
           /\ \A q \in CacheObject : q # o => sidecar'[q] = sidecar[q]
           /\ HostInv'
<1>1. PICK k \in LeafNo : /\ Head(cacheJob.todo) = cacheJob.leaves[k].object
                         /\ LeafOf(Head(cacheJob.todo)) = cacheJob.leaves[k]
  BY NoteIs
<1>2. PICK o : o = Head(cacheJob.todo)
  OBVIOUS
<1>3. PICK leaf : leaf = cacheJob.leaves[k]
  OBVIOUS
<1>4. /\ o \in CacheImage /\ o \in there /\ leaf.meta \in Meta /\ leaf.meta.origin = "host"
      /\ sidecar[o] \in Meta /\ \A s \in rows : o \in noted[s] => s \in leaf.meta.sessions
  BY <1>1, <1>2, <1>3 DEF CacheAgrees, NotesInv, Notes
<1>5. cacheJob.by \in CacheSession
  BY DEF CacheAgrees, LeavesInv, Notes
<1>6. PICK m : m = [leaf.meta EXCEPT !.sessions = @ \cup {cacheJob.by}]
  OBVIOUS
<1>7. m \in Meta /\ m.origin = "host" /\ m.sessions = leaf.meta.sessions \cup {cacheJob.by}
  BY <1>4, <1>5, <1>6 DEF Meta
<1>8. sidecar' = [sidecar EXCEPT ![o] = m]
  BY <1>1, <1>2, <1>3, <1>6 DEF WithSession
<1>9. m \in Sidecars /\ o \in CacheObject
  BY <1>4, <1>7 DEF Sidecars, CacheObject
<1>10. /\ sidecar' \in [CacheObject -> Sidecars] /\ sidecar'[o] = m
       /\ \A q \in CacheObject : q # o => sidecar'[q] = sidecar[q]
  BY <1>8, <1>9, SidecarSet DEF CacheKinds
<1>11. NoMeta \notin Meta /\ HostInv
  BY NoMetaIs DEF CacheAgrees
<1>12. ASSUME NEW q \in CacheImage, sidecar'[q] # NoMeta
       PROVE  sidecar'[q].origin = "host"
  BY <1>7, <1>10, <1>11, <1>12 DEF HostInv, CacheObject
<1>13. ASSUME staging.pc = "write", staging.object \in CacheImage
       PROVE  staging.read = NoMeta /\ sidecar'[staging.object] = NoMeta
  BY <1>4, <1>10, <1>11, <1>13 DEF HostInv, CacheObject
<1>14. HostInv'
  BY <1>12, <1>13 DEF HostInv
<1>15. /\ sidecar'[o] \in Meta /\ sidecar'[o].origin = "host" /\ cacheJob.by \in sidecar'[o].sessions
       /\ \A s \in rows : o \in noted[s] => s \in sidecar'[o].sessions
  BY <1>4, <1>7, <1>10
<1> QED BY <1>2, <1>4, <1>9, <1>10, <1>14, <1>15

LEMMA NoteEndsKeeps ==
    ASSUME CacheConstantsOK, CacheKinds, CacheAgrees, cacheJob.op = "note", Len(cacheJob.todo) = 1,
           sidecar' = [sidecar EXCEPT ![Head(cacheJob.todo)] = WithSession(LeafOf(Head(cacheJob.todo)), cacheJob.by)],
           cacheJob' = Free,
           noted' = [noted EXCEPT ![cacheJob.by] = @ \cup request[cacheJob.by].images],
           request' = [request EXCEPT ![cacheJob.by] = Idle],
           UNCHANGED <<there, cacheClock, rows, daemonUp, leaseRefuses, staging>>,
           cacheFaults' \in 0 .. MaxCacheFaults
    PROVE  CacheKinds' /\ CacheAgrees'
<1> DEFINE o == Head(cacheJob.todo)
           c == cacheJob.by
<1>1. /\ NoteNo \in LeafNo /\ o = cacheJob.leaves[NoteNo].object
      /\ LeafOf(o) = cacheJob.leaves[NoteNo] /\ Len(cacheJob.leaves) \in Nat
  BY NoteIs
<1>13. c \in CacheSession
  BY DEF CacheAgrees, LeavesInv, Notes
<1>14. request[c].images \in SUBSET CacheImage
  BY <1>13 DEF CacheKinds, CacheRequests
<1> HIDE DEF o
<1>3. /\ o \in CacheImage /\ o \in CacheObject /\ o \in there
      /\ sidecar' \in [CacheObject -> Sidecars]
      /\ sidecar'[o] \in Meta /\ sidecar'[o].origin = "host" /\ c \in sidecar'[o].sessions
      /\ \A s \in rows : o \in noted[s] => s \in sidecar'[o].sessions
      /\ \A q \in CacheObject : q # o => sidecar'[q] = sidecar[q]
  BY NotedHead DEF o
<1>4. HostInv'
  BY NotedHead
<1>5. noted' \in [CacheSession -> SUBSET CacheImage] /\ request' \in [CacheSession -> CacheRequests]
  BY <1>13, <1>14 DEF CacheKinds, CacheRequests, Idle
<1>6. CacheKinds'
  BY <1>3, <1>5, FreeIs DEF CacheKinds
<1>7. /\ \A q \in request[c].images : \E i \in LeafNo : cacheJob.leaves[i].object = q
      /\ \A i \in 1 .. Len(cacheJob.leaves) - 1 : c \in sidecar[cacheJob.leaves[i].object].sessions
  BY DEF CacheAgrees, NotedSoFar
<1>8. ASSUME NEW q \in request[c].images
      PROVE  q \in there /\ sidecar'[q] \in Meta /\ c \in sidecar'[q].sessions
  <2>1. PICK i \in LeafNo : cacheJob.leaves[i].object = q
    BY <1>7
  <2>2. q \in CacheImage /\ q \in there /\ sidecar[q] \in Meta /\ q \in CacheObject
    BY <2>1 DEF CacheAgrees, NotesInv, Notes, CacheObject
  <2>3. CASE q = o
    BY <1>3, <2>3
  <2>4. CASE q # o
    <3>1. NoteNo = Len(cacheJob.leaves)
      BY <1>1 DEF NoteNo
    <3>2. i # Len(cacheJob.leaves)
      BY <1>1, <2>1, <2>4, <3>1
    <3>3. i \in 1 .. Len(cacheJob.leaves) - 1
      BY <1>1, <3>2 DEF LeafNo
    <3>4. c \in sidecar[q].sessions
      BY <1>7, <2>1, <3>3
    <3> QED BY <1>3, <2>2, <2>4, <3>4
  <2> QED BY <2>3, <2>4
<1>9. ASSUME NEW s \in rows, NEW q \in noted[s]
      PROVE  q \in there /\ sidecar'[q] \in Meta /\ s \in sidecar'[q].sessions
  <2>1. q \in CacheObject /\ q \in there /\ sidecar[q] \in Meta /\ s \in sidecar[q].sessions
    BY <1>9 DEF CacheAgrees, NotedInv, CacheKinds, CacheObject
  <2>2. CASE q = o
    BY <1>3, <2>1, <2>2
  <2>3. CASE q # o
    BY <1>3, <2>1, <2>3
  <2> QED BY <2>2, <2>3
<1>10. NotedInv'
  <2>1. SUFFICES ASSUME NEW s \in rows, NEW q \in noted'[s]
                 PROVE  q \in there /\ sidecar'[q] \in Meta /\ s \in sidecar'[q].sessions
    BY DEF NotedInv
  <2>2. q \in noted[s] \/ (s = c /\ q \in request[c].images)
    BY <1>13, <2>1 DEF CacheKinds
  <2> QED BY <1>8, <1>9, <2>1, <2>2
<1> QED BY <1>4, <1>6, <1>10, FreeIs, FreeAgrees

LEMMA NoteGoesOn ==
    ASSUME CacheConstantsOK, CacheKinds, CacheAgrees, cacheJob.op = "note", Len(cacheJob.todo) # 1,
           sidecar' = [sidecar EXCEPT ![Head(cacheJob.todo)] = WithSession(LeafOf(Head(cacheJob.todo)), cacheJob.by)],
           cacheJob' = [cacheJob EXCEPT !.todo = Tail(@)],
           UNCHANGED <<there, cacheClock, rows, daemonUp, leaseRefuses, staging, noted, request>>,
           cacheFaults' \in 0 .. MaxCacheFaults
    PROVE  CacheKinds' /\ CacheAgrees'
<1> DEFINE o == Head(cacheJob.todo)
           c == cacheJob.by
<1>16. PICK n \in Nat : n = Len(cacheJob.leaves)
  BY NoteIs
<1>17. PICK l \in Nat : l = Len(cacheJob.todo)
  BY NoteIs
<1>1. /\ NoteNo \in LeafNo /\ o = cacheJob.leaves[NoteNo].object
      /\ LeafOf(o) = cacheJob.leaves[NoteNo] /\ l >= 1
  BY <1>17, NoteIs
<1>13. c \in CacheSession /\ cacheJob.todo # <<>>
  BY DEF CacheAgrees, LeavesInv, Batches, Notes, Undoes
<1>14. l # 1 /\ NoteNo = n - l + 1
  BY <1>16, <1>17 DEF NoteNo
<1>18. LeafNo = 1 .. n
  BY <1>16 DEF LeafNo
<1>15. /\ cacheJob' \in Jobs /\ cacheJob'.op = "note" /\ cacheJob'.by = c
       /\ cacheJob'.leaves = cacheJob.leaves /\ cacheJob'.undo = cacheJob.undo
       /\ Len(cacheJob'.todo) = l - 1 /\ Len(cacheJob'.todo) \in Nat
       /\ \A i \in 1 .. Len(cacheJob'.todo) : cacheJob'.todo[i] = cacheJob.todo[i + 1]
  BY <1>13, <1>17, NextTaken DEF CacheKinds, JobOps
<1> HIDE DEF o
<1>3. /\ o \in CacheImage /\ o \in CacheObject /\ o \in there
      /\ sidecar' \in [CacheObject -> Sidecars]
      /\ sidecar'[o] \in Meta /\ sidecar'[o].origin = "host" /\ c \in sidecar'[o].sessions
      /\ \A s \in rows : o \in noted[s] => s \in sidecar'[o].sessions
      /\ \A q \in CacheObject : q # o => sidecar'[q] = sidecar[q]
  BY NotedHead DEF o
<1>4. HostInv'
  BY NotedHead
<1>6. CacheKinds'
  BY <1>3, <1>15 DEF CacheKinds
<1>7. ASSUME NEW s \in rows, NEW q \in noted[s]
      PROVE  q \in there /\ sidecar'[q] \in Meta /\ s \in sidecar'[q].sessions
  <2>1. q \in CacheObject /\ q \in there /\ sidecar[q] \in Meta /\ s \in sidecar[q].sessions
    BY <1>7 DEF CacheAgrees, NotedInv, CacheKinds, CacheObject
  <2>2. CASE q = o
    BY <1>3, <2>1, <2>2
  <2>3. CASE q # o
    BY <1>3, <2>1, <2>3
  <2> QED BY <2>2, <2>3
<1>8. NotedInv'
  BY <1>7 DEF NotedInv
<1>9. LeavesInv'
  <2>1. Len(cacheJob'.todo) # 0
    BY <1>1, <1>14, <1>15
  <2>2. cacheJob'.todo # <<>>
    BY <2>1
  <2> QED BY <1>15, <2>2 DEF CacheAgrees, LeavesInv, Batches, Notes, Undoes, LeafNo
<1>10. NotesInv'
  <2>1. ASSUME NEW i \in LeafNo
        PROVE  sidecar'[cacheJob.leaves[i].object] \in Meta
    <3>1. cacheJob.leaves[i].object \in CacheObject /\ sidecar[cacheJob.leaves[i].object] \in Meta
      BY DEF CacheAgrees, NotesInv, Notes, CacheObject
    <3> QED BY <1>3, <3>1
  <2> QED BY <1>15, <2>1 DEF CacheAgrees, NotesInv, Notes, LeafNo
<1>11. NotedSoFar'
  <2>1. /\ l <= n /\ \A i \in 1 .. l : cacheJob.todo[i] = cacheJob.leaves[n - l + i].object
        /\ \A i \in 1 .. n - l : c \in sidecar[cacheJob.leaves[i].object].sessions
        /\ \A q \in request[c].images : \E i \in LeafNo : cacheJob.leaves[i].object = q
    BY <1>16, <1>17 DEF CacheAgrees, NotedSoFar
  <2>2. ASSUME NEW i \in 1 .. l - 1
        PROVE  cacheJob'.todo[i] = cacheJob.leaves[n - (l - 1) + i].object
    <3>1. i + 1 \in 1 .. l /\ n - l + (i + 1) = n - (l - 1) + i
      BY <1>1
    <3>2. cacheJob'.todo[i] = cacheJob.todo[i + 1]
      BY <1>15
    <3> QED BY <2>1, <3>1, <3>2
  <2>3. ASSUME NEW i \in 1 .. n - (l - 1)
        PROVE  c \in sidecar'[cacheJob.leaves[i].object].sessions
    <3>1. i \in 1 .. n - l \/ i = NoteNo
      BY <1>1, <1>14, <2>1
    <3>2. CASE cacheJob.leaves[i].object = o
      BY <1>3, <3>2
    <3>3. CASE cacheJob.leaves[i].object # o
      <4>1. i \in 1 .. n - l
        BY <1>1, <3>1, <3>3
      <4>2. i \in LeafNo
        BY <1>18, <2>1, <4>1
      <4>3. cacheJob.leaves[i].object \in CacheObject
        BY <4>2 DEF CacheAgrees, NotesInv, Notes, CacheObject
      <4> QED BY <1>3, <2>1, <3>3, <4>1, <4>3
    <3> QED BY <3>2, <3>3
  <2>4. l - 1 <= n
    BY <1>1, <2>1
  <2>5. SUFFICES ASSUME cacheJob'.op = "note"
                 PROVE  /\ Len(cacheJob'.todo) <= Len(cacheJob'.leaves)
                        /\ \A i \in 1 .. Len(cacheJob'.todo) :
                              cacheJob'.todo[i] = cacheJob'.leaves[Len(cacheJob'.leaves) - Len(cacheJob'.todo) + i].object
                        /\ \A i \in 1 .. Len(cacheJob'.leaves) - Len(cacheJob'.todo) :
                              cacheJob'.by \in sidecar'[cacheJob'.leaves[i].object].sessions
                        /\ \A q \in request'[cacheJob'.by].images : \E i \in LeafNo' : cacheJob'.leaves[i].object = q
    BY DEF NotedSoFar
  <2>6. Len(cacheJob'.todo) = l - 1 /\ Len(cacheJob'.leaves) = n /\ LeafNo' = LeafNo
    BY <1>15, <1>16 DEF LeafNo
  <2>7. \A i \in 1 .. Len(cacheJob'.todo) :
            cacheJob'.todo[i] = cacheJob'.leaves[Len(cacheJob'.leaves) - Len(cacheJob'.todo) + i].object
    BY <1>15, <2>2, <2>6
  <2>8. \A i \in 1 .. Len(cacheJob'.leaves) - Len(cacheJob'.todo) :
            cacheJob'.by \in sidecar'[cacheJob'.leaves[i].object].sessions
    BY <1>15, <2>3, <2>6
  <2>9. \A q \in request'[cacheJob'.by].images : \E i \in LeafNo' : cacheJob'.leaves[i].object = q
    BY <1>15, <2>1, <2>6
  <2> QED BY <2>4, <2>6, <2>7, <2>8, <2>9
<1>12. BatchInv' /\ UndoneInv' /\ UnlinkInv'
  BY <1>15 DEF BatchInv, UndoneInv, UnlinkInv, Batches, Undoes
<1> QED BY <1>4, <1>6, <1>8, <1>9, <1>10, <1>11, <1>12 DEF CacheAgrees

LEMMA NoteImageKeeps ==
    ASSUME CacheConstantsOK, CacheKinds, CacheAgrees, NoteImage
    PROVE  CacheKinds' /\ CacheAgrees'
<1>1. /\ cacheJob.op = "note"
      /\ UNCHANGED <<there, cacheClock, rows, daemonUp, leaseRefuses, staging>>
  BY DEF NoteImage
<1>2. cacheFaults' \in 0 .. MaxCacheFaults
  BY FaultsAre DEF NoteImage
<1>3. CASE cacheJob' = [cacheJob EXCEPT !.op = "unnote"] /\ UNCHANGED <<sidecar, noted, request>>
  <2>1. /\ cacheJob' \in Jobs /\ cacheJob'.op = "unnote" /\ cacheJob'.by = cacheJob.by
        /\ cacheJob'.todo = cacheJob.todo /\ cacheJob'.leaves = cacheJob.leaves
        /\ cacheJob'.undo = cacheJob.undo
    BY <1>3, OpChanges DEF CacheKinds, JobOps
  <2>2. CacheKinds'
    BY <1>1, <1>2, <1>3, <2>1 DEF CacheKinds
  <2>3. LeavesInv' /\ NotesInv'
    BY <1>1, <1>3, <2>1 DEF CacheAgrees, LeavesInv, NotesInv, Batches, Notes, Undoes, LeafNo
  <2>4. cacheJob'.undo = cacheJob'.leaves /\ Len(cacheJob.leaves) \in Nat
    BY <1>1, <2>1 DEF CacheAgrees, LeavesInv, Notes, Undoes, CacheKinds, Jobs
  <2>5. UndoneInv'
    BY <2>1, <2>4 DEF UndoneInv, LeafNo
  <2>6. BatchInv' /\ NotedSoFar' /\ UnlinkInv'
    BY <2>1 DEF BatchInv, NotedSoFar, UnlinkInv, Batches
  <2>7. HostInv' /\ NotedInv'
    BY <1>1, <1>3, ImagesStay DEF CacheAgrees
  <2> QED BY <2>2, <2>3, <2>5, <2>6, <2>7 DEF CacheAgrees
<1> DEFINE o == Head(cacheJob.todo)
           c == cacheJob.by
<1>4. CASE /\ sidecar' = [sidecar EXCEPT ![o] = WithSession(LeafOf(o), c)]
           /\ Len(cacheJob.todo) = 1 /\ cacheJob' = Free
           /\ noted' = [noted EXCEPT ![c] = @ \cup request[c].images]
           /\ request' = [request EXCEPT ![c] = Idle]
  BY <1>1, <1>2, <1>4, NoteEndsKeeps
<1>5. CASE /\ sidecar' = [sidecar EXCEPT ![o] = WithSession(LeafOf(o), c)]
           /\ Len(cacheJob.todo) # 1 /\ cacheJob' = [cacheJob EXCEPT !.todo = Tail(@)]
           /\ UNCHANGED <<noted, request>>
  BY <1>1, <1>2, <1>5, NoteGoesOn
<1> QED BY <1>3, <1>4, <1>5 DEF NoteImage

----------------------------------------------------------------------------
(* The daemon's boot, with the cleanup, and its end *)
LEMMA BootKeeps ==
    ASSUME CacheConstantsOK, CacheKinds, CacheAgrees, Boot
    PROVE  CacheKinds' /\ CacheAgrees'
<1>1. /\ UNCHANGED <<there, sidecar, cacheClock, rows, request, staging, cacheFaults, noted>>
      /\ leaseRefuses' = FALSE /\ daemonUp' \in {"serves", "boots"}
  BY DEF Boot, objects
<1>2. CASE UNCHANGED cacheJob
  BY <1>1, <1>2, CacheStays DEF CacheKinds
<1>3. CASE cacheJob' = [Free EXCEPT !.op = "sweep", !.todo = SetToSeq(there)]
  <2> DEFINE order == SetToSeq(there)
  <2>1. IsFiniteSet(there) /\ there \subseteq CacheObject
    BY FS_Subset DEF CacheConstantsOK, CacheKinds
  <2>2. order \in Seq(there)
    BY <2>1, SweepOrderIs
  <2> HIDE DEF order
  <2>3. order \in Seq(CacheObject)
    BY <2>1, <2>2
  <2>4. cacheJob' = [Free EXCEPT !.op = "sweep", !.todo = order]
    BY <1>3 DEF order
  <2>5. cacheJob' \in Jobs /\ cacheJob'.op = "sweep"
    BY <2>3, <2>4, FreeIs DEF Jobs, JobOps
  <2>6. HostInv' /\ NotedInv'
    BY <1>1, ImagesStay DEF CacheAgrees
  <2>7. CacheKinds'
    BY <1>1, <2>5 DEF CacheKinds
  <2> QED BY <2>5, <2>6, <2>7, FreeAgrees
<1> QED BY <1>2, <1>3 DEF Boot

\* Nobody's image expires that a conversation which may go on has noted.
LEMMA NotedIsNotDue ==
    ASSUME CacheConstantsOK, CacheKinds, CacheAgrees, NEW s \in rows, NEW o \in noted[s]
    PROVE  ~Due(o) /\ sidecar[o] # NoMeta
<1>1. o \in CacheImage /\ o \notin CacheContext
  BY DEF CacheKinds, CacheConstantsOK
<1>2. sidecar[o] \in Meta /\ s \in sidecar[o].sessions
  BY DEF CacheAgrees, NotedInv
<1>3. StillResumable(o)
  BY <1>2 DEF StillResumable
<1>4. Deadline(o) = Never
  BY <1>1, <1>2, <1>3 DEF Deadline
<1> QED BY <1>2, <1>4, NoMetaIs DEF Due

LEMMA SweepObjectKeeps ==
    ASSUME CacheConstantsOK, CacheKinds, CacheAgrees, SweepObject
    PROVE  CacheKinds' /\ CacheAgrees'
<1> DEFINE o == Head(cacheJob.todo)
<1>1. /\ cacheJob.op = "sweep" /\ cacheJob.todo # <<>>
      /\ UNCHANGED <<cacheClock, rows, daemonUp, request, leaseRefuses, staging, noted>>
  BY DEF SweepObject
<1>2. cacheFaults' \in 0 .. MaxCacheFaults
  BY FaultsAre DEF SweepObject, Expire
<1>3. o \in CacheObject /\ o = cacheJob.todo[1]
  BY <1>1, NextIs DEF CacheKinds
<1>4. HostInv /\ NotedInv
  BY DEF CacheAgrees
<1>5. CASE (Due(o) \/ sidecar[o] = NoMeta) /\ Expire(o)
  <2>1. there' = there \ {o} /\ UNCHANGED sidecar /\ cacheJob' = [cacheJob EXCEPT !.op = "unlink"]
    BY <1>5 DEF Expire
  <2>2. cacheJob' \in Jobs /\ cacheJob'.op = "unlink" /\ cacheJob'.todo = cacheJob.todo
    BY <2>1, OpChanges DEF CacheKinds, JobOps
  <2>3. \A s \in rows : o \notin noted[s]
    BY <1>5, NotedIsNotDue
  <2>4. UnlinkInv'
    BY <1>1, <1>3, <2>2, <2>3 DEF UnlinkInv
  <2>5. HostInv'
    BY <1>1, <1>4, <2>1 DEF HostInv
  <2>6. NotedInv'
    BY <1>1, <1>4, <2>1, <2>3 DEF NotedInv
  <2>7. CacheKinds'
    BY <1>1, <1>2, <2>1, <2>2 DEF CacheKinds
  <2> QED BY <2>2, <2>4, <2>5, <2>6, <2>7
       DEF CacheAgrees, LeavesInv, BatchInv, NotesInv, NotedSoFar, UndoneInv, Batches, Notes, Undoes
<1>6. ASSUME Skip, UNCHANGED there,
             UNCHANGED sidecar \/ (Unmarked(o) /\ sidecar' = [sidecar EXCEPT ![o].gone = cacheClock])
      PROVE  CacheKinds' /\ CacheAgrees'
  <2>1. cacheJob' \in Jobs /\ cacheJob'.op = "sweep"
    BY <1>1, <1>6, NextTaken DEF Skip, CacheKinds, JobOps
  <2>2. CASE UNCHANGED sidecar
    <3>1. HostInv' /\ NotedInv'
      BY <1>1, <1>4, <1>6, <2>2, ImagesStay
    <3>2. CacheKinds'
      BY <1>1, <1>2, <1>6, <2>1, <2>2 DEF CacheKinds
    <3> QED BY <2>1, <3>1, <3>2, FreeAgrees
  <2>3. CASE Unmarked(o) /\ sidecar' = [sidecar EXCEPT ![o].gone = cacheClock]
    <3> DEFINE m == [sidecar[o] EXCEPT !.gone = cacheClock]
    <3>1. sidecar[o] \in Sidecars /\ sidecar[o].sessions # {}
      BY <1>3, <2>3 DEF Unmarked, CacheKinds
    <3>2. sidecar[o] \in Meta /\ sidecar[o] # NoMeta
      BY <3>1, NoMetaIs DEF Sidecars, NoMeta
    <3>3. m \in Meta /\ m.origin = sidecar[o].origin /\ m.sessions = sidecar[o].sessions
      BY <3>2 DEF Meta, CacheKinds
    <3>4. sidecar' = [sidecar EXCEPT ![o] = m]
      BY <2>3
    <3> HIDE DEF m, o
    <3>5. /\ sidecar' \in [CacheObject -> Sidecars] /\ sidecar'[o] = m
          /\ \A q \in CacheObject : q # o => sidecar'[q] = sidecar[q]
      BY <1>3, <3>3, <3>4, SidecarSet DEF CacheKinds, Sidecars
    <3>6. HostInv'
      BY <1>1, <1>3, <1>4, <3>2, <3>3, <3>5 DEF HostInv, CacheObject
    <3>7. NotedInv'
      <4>1. SUFFICES ASSUME NEW s \in rows, NEW q \in noted[s]
                     PROVE  q \in there /\ sidecar'[q] \in Meta /\ s \in sidecar'[q].sessions
        BY <1>1, <1>6 DEF NotedInv
      <4>2. q \in CacheObject /\ q \in there /\ sidecar[q] \in Meta /\ s \in sidecar[q].sessions
        BY <1>4, <4>1 DEF NotedInv, CacheKinds, CacheObject
      <4>3. CASE q = o
        BY <3>3, <3>5, <4>2, <4>3
      <4>4. CASE q # o
        BY <3>5, <4>2, <4>4
      <4> QED BY <4>3, <4>4
    <3>8. CacheKinds'
      BY <1>1, <1>2, <1>6, <2>1, <3>5 DEF CacheKinds
    <3> QED BY <2>1, <3>6, <3>7, <3>8, FreeAgrees
  <2> QED BY <1>6, <2>2, <2>3
<1> QED BY <1>5, <1>6 DEF SweepObject, objects

LEMMA UnlinkKeeps ==
    ASSUME CacheConstantsOK, CacheKinds, CacheAgrees, Unlink
    PROVE  CacheKinds' /\ CacheAgrees'
<1> DEFINE o == Head(cacheJob.todo)
<1>1. /\ cacheJob.op = "unlink" /\ cacheJob' = [cacheJob EXCEPT !.op = "sweep", !.todo = Tail(@)]
      /\ UNCHANGED <<there, cacheClock, rows, daemonUp, request, leaseRefuses, staging, noted>>
      /\ UNCHANGED sidecar \/ sidecar' = [sidecar EXCEPT ![o] = NoMeta]
  BY DEF Unlink
<1>2. cacheFaults' \in 0 .. MaxCacheFaults
  BY FaultsAre DEF Unlink
<1>3. cacheJob.todo # <<>> /\ \A s \in rows : cacheJob.todo[1] \notin noted[s]
  BY <1>1 DEF CacheAgrees, UnlinkInv
<1>4. o \in CacheObject /\ o = cacheJob.todo[1]
  BY <1>3, NextIs DEF CacheKinds
<1>5. cacheJob' \in Jobs /\ cacheJob'.op = "sweep"
  BY <1>1, <1>3, NextTaken DEF CacheKinds, JobOps
<1>6. HostInv /\ NotedInv
  BY DEF CacheAgrees
<1> HIDE DEF o
<1>7. /\ sidecar' \in [CacheObject -> Sidecars]
      /\ \A q \in CacheObject : q # o => sidecar'[q] = sidecar[q]
      /\ sidecar'[o] = sidecar[o] \/ sidecar'[o] = NoMeta
  <2>1. NoMeta \in Sidecars
    BY DEF Sidecars
  <2> QED BY <1>1, <1>4, <2>1, SidecarSet DEF CacheKinds
<1>8. HostInv'
  BY <1>1, <1>4, <1>6, <1>7 DEF HostInv, CacheObject
<1>9. NotedInv'
  <2>1. SUFFICES ASSUME NEW s \in rows, NEW q \in noted[s]
                 PROVE  q \in there /\ sidecar'[q] \in Meta /\ s \in sidecar'[q].sessions
    BY <1>1 DEF NotedInv
  <2>2. q \in CacheObject /\ q \in there /\ sidecar[q] \in Meta /\ s \in sidecar[q].sessions
    BY <1>6, <2>1 DEF NotedInv, CacheKinds, CacheObject
  <2>3. q # o
    BY <1>3, <1>4, <2>1
  <2> QED BY <1>7, <2>2, <2>3
<1>10. CacheKinds'
  BY <1>1, <1>2, <1>5, <1>7 DEF CacheKinds
<1> QED BY <1>5, <1>8, <1>9, <1>10, FreeAgrees

LEMMA EndKeeps ==
    ASSUME CacheConstantsOK, CacheKinds, CacheAgrees, Swept \/ Crash
    PROVE  CacheKinds' /\ CacheAgrees'
<1>1. /\ UNCHANGED <<there, sidecar, cacheClock, rows, leaseRefuses, staging, noted>>
      /\ cacheJob' = Free /\ daemonUp' \in {"serves", "down"}
  BY DEF Swept, Crash, objects
<1>2. cacheFaults' \in 0 .. MaxCacheFaults
  BY FaultsAre DEF Swept, Crash, Works
<1>3. request' \in [CacheSession -> CacheRequests]
  BY DEF Swept, Crash, CacheKinds, CacheRequests, Idle
<1>4. HostInv' /\ NotedInv'
  BY <1>1, ImagesStay DEF CacheAgrees
<1>5. CacheKinds'
  BY <1>1, <1>2, <1>3, FreeIs DEF CacheKinds
<1> QED BY <1>1, <1>4, <1>5, FreeIs, FreeAgrees
----------------------------------------------------------------------------
(* The editor *)

\* What the editor writes, the holder of the lock knows to be touched.
LEMMA TouchKeeps ==
    ASSUME CacheConstantsOK, CacheKinds, CacheAgrees, Touches, staging.object \in CacheObject,
           UNCHANGED <<rows, noted, request>>, HostInv',
           \A q \in CacheObject : q # staging.object => (q \in there' <=> q \in there) /\ sidecar'[q] = sidecar[q],
           staging.object \in there => staging.object \in there',
           staging.object \in CacheImage /\ sidecar[staging.object] \in Meta =>
               sidecar'[staging.object] = sidecar[staging.object]
    PROVE  cacheJob' \in Jobs /\ CacheAgrees'
<1> DEFINE x == staging.object
<1>1. x \in CacheObject
  OBVIOUS
<1>2. ASSUME NEW q \in CacheImage, sidecar[q] \in Meta
      PROVE  sidecar'[q] = sidecar[q] /\ (q \in there => q \in there')
  BY <1>2 DEF CacheObject
<1>3. NotedInv'
  <2>1. SUFFICES ASSUME NEW s \in rows, NEW q \in noted[s]
                 PROVE  q \in there' /\ sidecar'[q] \in Meta /\ s \in sidecar'[q].sessions
    BY DEF NotedInv
  <2>2. q \in CacheImage /\ q \in there /\ sidecar[q] \in Meta /\ s \in sidecar[q].sessions
    BY <2>1 DEF CacheAgrees, NotedInv, CacheKinds
  <2> QED BY <1>2, <2>2
<1>4. CASE cacheJob' = cacheJob /\ cacheJob = Free
  BY <1>3, <1>4, FreeIs, FreeAgrees
<1>5. CASE cacheJob' = [cacheJob EXCEPT !.touched = @ \cup {x}]
  <2>1. /\ cacheJob' \in Jobs /\ cacheJob'.op = cacheJob.op /\ cacheJob'.by = cacheJob.by
        /\ cacheJob'.todo = cacheJob.todo /\ cacheJob'.leaves = cacheJob.leaves
        /\ cacheJob'.undo = cacheJob.undo /\ cacheJob'.proven = cacheJob.proven
        /\ cacheJob'.touched = cacheJob.touched \cup {x}
    BY <1>1, <1>5 DEF CacheKinds, Jobs
  <2> HIDE DEF x
  <2>2. LeavesInv' /\ BatchInv' /\ UnlinkInv'
    BY <2>1 DEF CacheAgrees, LeavesInv, BatchInv, UnlinkInv, Batches, Notes, Undoes, LeafNo
  <2>3. ASSUME Notes, NEW i \in LeafNo
        PROVE  /\ sidecar'[cacheJob.leaves[i].object] = sidecar[cacheJob.leaves[i].object]
               /\ sidecar[cacheJob.leaves[i].object] \in Meta
               /\ cacheJob.leaves[i].object \in there'
    <3>1. /\ cacheJob.leaves[i].object \in CacheImage /\ cacheJob.leaves[i].object \in there
          /\ sidecar[cacheJob.leaves[i].object] \in Meta
      BY <2>3 DEF CacheAgrees, NotesInv
    <3> QED BY <1>2, <3>1
  <2>4. NotesInv'
    BY <2>1, <2>3 DEF CacheAgrees, NotesInv, Notes, LeafNo
  <2>5. NotedSoFar'
    <3>1. SUFFICES ASSUME cacheJob.op = "note"
                   PROVE  NotedSoFar'
      BY <2>1 DEF NotedSoFar
    <3>2. Notes
      BY <3>1 DEF Notes
    <3>3. PICK n \in Nat, l \in Nat : n = Len(cacheJob.leaves) /\ l = Len(cacheJob.todo)
      BY DEF CacheKinds, Jobs
    <3>6. 1 .. n - l \subseteq 1 .. n
      OBVIOUS
    <3>4. 1 .. Len(cacheJob.leaves) - Len(cacheJob.todo) \subseteq LeafNo
      BY <3>3, <3>6 DEF LeafNo
    <3>5. \A i \in 1 .. Len(cacheJob.leaves) - Len(cacheJob.todo) :
              cacheJob.by \in sidecar'[cacheJob.leaves[i].object].sessions
      BY <2>3, <3>1, <3>2, <3>4 DEF CacheAgrees, NotedSoFar
    <3> QED BY <2>1, <3>1, <3>5 DEF CacheAgrees, NotedSoFar, LeafNo
  <2>6. UndoneInv'
    <3>1. SUFFICES ASSUME Undoes, cacheJob.proven, NEW i \in LeafNo, i > Len(cacheJob.undo)
                   PROVE  LET leaf == cacheJob.leaves[i]
                          IN  \/ leaf.object \in cacheJob.touched \cup {x}
                              \/ (leaf.object \in there' <=> leaf.there) /\ sidecar'[leaf.object] = leaf.meta
      BY <2>1 DEF UndoneInv, Undoes, LeafNo
    <3>2. cacheJob.leaves \in Seq(Leaves)
      BY DEF CacheKinds, Jobs
    <3>3. cacheJob.leaves[i] \in Leaves
      BY <3>2 DEF LeafNo
    <3>4. cacheJob.leaves[i].object \in CacheObject
      BY <3>3 DEF Leaves
    <3>5. \/ cacheJob.leaves[i].object \in cacheJob.touched
          \/ /\ cacheJob.leaves[i].object \in there <=> cacheJob.leaves[i].there
             /\ sidecar[cacheJob.leaves[i].object] = cacheJob.leaves[i].meta
      BY <3>1 DEF CacheAgrees, UndoneInv
    <3> QED BY <3>4, <3>5 DEF x
  <2> QED BY <1>3, <2>1, <2>2, <2>4, <2>5, <2>6 DEF CacheAgrees
<1> QED BY <1>4, <1>5 DEF Touches

LEMMA HostPutKeeps ==
    ASSUME CacheConstantsOK, CacheKinds, CacheAgrees, HostPut
    PROVE  CacheKinds' /\ CacheAgrees'
<1>1. /\ staging.pc = "put" /\ there' = there \cup {staging.object} /\ staging' = [staging EXCEPT !.pc = "read"]
      /\ Touches
      /\ UNCHANGED <<sidecar, cacheClock, rows, daemonUp, request, leaseRefuses, cacheFaults, noted>>
  BY DEF HostPut
<1>2. staging.object \in CacheObject
  BY <1>1 DEF CacheKinds
<1>3. staging' \in Stagings /\ staging'.pc = "read" /\ staging'.object = staging.object
  BY <1>1 DEF CacheKinds, Stagings
<1>4. HostInv'
  BY <1>1, <1>3 DEF CacheAgrees, HostInv
<1>5. cacheJob' \in Jobs /\ CacheAgrees'
  BY <1>1, <1>2, <1>4, TouchKeeps
<1>6. CacheKinds'
  BY <1>1, <1>2, <1>3, <1>5 DEF CacheKinds
<1> QED BY <1>5, <1>6

LEMMA HostReadKeeps ==
    ASSUME CacheConstantsOK, CacheKinds, CacheAgrees, HostRead
    PROVE  CacheKinds' /\ CacheAgrees'
<1> DEFINE known == sidecar[staging.object]
<1>1. /\ staging.pc = "read"
      /\ UNCHANGED <<there, sidecar, cacheClock, rows, daemonUp, cacheJob, request, leaseRefuses, cacheFaults, noted>>
      /\ \/ staging' = NoHost
         \/ known.origin # "host" /\ staging' = [staging EXCEPT !.pc = "write", !.read = known]
  BY DEF HostRead, objects
<1>2. staging.object \in CacheObject /\ known \in Sidecars
  BY <1>1 DEF CacheKinds
<1>3. CASE staging' = NoHost
  BY <1>1, <1>3, NoHostIs, CacheStays DEF CacheKinds
<1>4. CASE known.origin # "host" /\ staging' = [staging EXCEPT !.pc = "write", !.read = known]
  <2> HIDE DEF known
  <2>1. /\ staging' \in Stagings /\ staging'.pc = "write" /\ staging'.object = staging.object
        /\ staging'.read = known
    BY <1>2, <1>4 DEF CacheKinds, Stagings
  <2>2. CacheKinds'
    BY <1>1, <1>2, <2>1 DEF CacheKinds
  <2>3. HostInv'
    BY <1>1, <1>4, <2>1 DEF CacheAgrees, HostInv, known
  <2>4. (LeavesInv /\ BatchInv /\ NotesInv /\ NotedSoFar /\ UndoneInv /\ UnlinkInv /\ NotedInv)'
    BY <1>1 DEF CacheAgrees, LeavesInv, BatchInv, NotesInv, NotedSoFar, UndoneInv, UnlinkInv, NotedInv,
                Batches, Notes, Undoes, LeafNo
  <2> QED BY <2>2, <2>3, <2>4 DEF CacheAgrees
<1> QED BY <1>1, <1>3, <1>4

LEMMA HostWriteKeeps ==
    ASSUME CacheConstantsOK, CacheKinds, CacheAgrees, HostWrite
    PROVE  CacheKinds' /\ CacheAgrees'
<1> DEFINE x == staging.object
           old == staging.read
           m == [old EXCEPT !.origin = "host", !.created = IF @ = Never THEN cacheClock ELSE @]
<1>1. /\ staging.pc = "write" /\ sidecar' = [sidecar EXCEPT ![x] = m] /\ staging' = NoHost /\ Touches
      /\ UNCHANGED <<there, cacheClock, rows, daemonUp, request, leaseRefuses, cacheFaults, noted>>
  BY DEF HostWrite
<1>2. x \in CacheObject /\ old \in Sidecars
  BY <1>1 DEF CacheKinds, Stagings
<1>3. m \in Meta /\ m.origin = "host"
  <2> DEFINE Known == [created : Time \cup {Never}, origin : Origin \cup {"none"}, sessions : SUBSET CacheSession,
                       gone : Time \cup {Never}]
             date == IF old.created = Never THEN cacheClock ELSE old.created
  <2>1. old \in Known
    BY <1>2 DEF Sidecars, Meta, NoMeta
  <2>2. date \in Time
    BY <2>1 DEF CacheKinds
  <2>3. m = [old EXCEPT !.origin = "host", !.created = date]
    OBVIOUS
  <2> HIDE DEF date, m, old
  <2> QED BY <2>1, <2>2, <2>3 DEF Meta, Origin
<1> HIDE DEF m
<1>4. /\ sidecar' \in [CacheObject -> Sidecars] /\ sidecar'[x] = m
      /\ \A q \in CacheObject : q # x => sidecar'[q] = sidecar[q]
  BY <1>1, <1>2, <1>3, SidecarSet DEF CacheKinds, Sidecars
<1>5. x \in CacheImage => sidecar[x] = NoMeta
  BY <1>1 DEF CacheAgrees, HostInv
<1>6. HostInv'
  BY <1>1, <1>3, <1>4, NoHostIs DEF CacheAgrees, HostInv, CacheObject
<1>7. cacheJob' \in Jobs /\ CacheAgrees'
  BY <1>1, <1>2, <1>4, <1>5, <1>6, NoMetaIs, TouchKeeps
<1>8. CacheKinds'
  BY <1>1, <1>4, <1>7, NoHostIs DEF CacheKinds
<1> QED BY <1>7, <1>8

----------------------------------------------------------------------------
\* A job that is undoing and then is not has been refused.
LEMMA OnlyUndoRefuses ==
    ASSUME CacheKinds, cacheJob'.op # "free" \/ ~Undoes \/ daemonUp' = "down"
    PROVE  RefusedIsUndone
  BY DEF RefusedIsUndone, Undoes

LEMMA TouchesGoOn ==
    ASSUME CacheKinds, Undoes, Touches
    PROVE  cacheJob'.op = cacheJob.op
<1> DEFINE x == staging.object
<1>1. cacheJob # Free
  BY FreeIs DEF Undoes
<1>2. cacheJob' = [cacheJob EXCEPT !.touched = @ \cup {x}]
  BY <1>1 DEF Touches
<1> QED BY <1>2 DEF CacheKinds, Jobs

LEMMA CacheStepKeeps ==
    ASSUME CacheConstantsOK, CacheInv, CacheNext
    PROVE  CacheInv' /\ RefusedIsUndone
<1>1. CacheKinds /\ CacheAgrees
  BY DEF CacheInv
<1>2. ASSUME \/ Tick
             \/ \E s \in CacheSession : Forget(s) \/ Materialize(s)
             \/ \E o \in CacheObject : HostLook(o)
      PROVE  CacheInv' /\ RefusedIsUndone
  <2>1. UNCHANGED cacheJob
    BY <1>2 DEF Tick, Forget, Materialize, HostLook
  <2>2. RefusedIsUndone
    BY <1>1, <2>1, OnlyUndoRefuses DEF Undoes
  <2>3. CacheKinds' /\ CacheAgrees'
    BY <1>1, <1>2, BesideKeeps
  <2> QED BY <2>2, <2>3 DEF CacheInv
<1>3. ASSUME NEW s \in CacheSession, BeginBatch(s)
      PROVE  CacheInv' /\ RefusedIsUndone
  BY <1>1, <1>3, BeginBatchKeeps, OnlyUndoRefuses, FreeIs DEF CacheInv, BeginBatch, Undoes
<1>4. ASSUME NEW s \in CacheSession, BeginNote(s)
      PROVE  CacheInv' /\ RefusedIsUndone
  BY <1>1, <1>4, BeginNoteKeeps, OnlyUndoRefuses, FreeIs DEF CacheInv, BeginNote, Undoes
<1>5. CASE Put
  BY <1>1, <1>5, PutKeeps, OnlyUndoRefuses DEF CacheInv, Put, Undoes
<1>6. CASE ReadSidecar
  BY <1>1, <1>6, ReadSidecarKeeps, OnlyUndoRefuses DEF CacheInv, ReadSidecar, Undoes
<1>7. CASE WriteSidecar
  BY <1>1, <1>7, WriteSidecarKeeps, OnlyUndoRefuses DEF CacheInv, WriteSidecar, Undoes
<1>8. CASE UndoLeaf
  BY <1>1, <1>8, UndoLeafKeeps DEF CacheInv
<1>9. CASE NoteImage
  BY <1>1, <1>9, NoteImageKeeps, OnlyUndoRefuses DEF CacheInv, NoteImage, Undoes
<1>10. CASE UnnoteImage
  BY <1>1, <1>10, UnnoteImageKeeps DEF CacheInv
<1>11. CASE Boot
  <2>1. cacheJob'.op # "free" \/ UNCHANGED cacheJob
    <3> DEFINE order == SetToSeq(there)
    <3>1. UNCHANGED cacheJob \/ cacheJob' = [Free EXCEPT !.op = "sweep", !.todo = order]
      BY <1>11 DEF Boot
    <3> HIDE DEF order
    <3>2. Free \in Jobs
      BY FreeIs
    <3> QED BY <3>1, <3>2 DEF Jobs
  <2>2. RefusedIsUndone
    BY <1>1, <2>1, OnlyUndoRefuses DEF Undoes
  <2> QED BY <1>1, <1>11, <2>2, BootKeeps DEF CacheInv
<1>12. CASE SweepObject
  BY <1>1, <1>12, SweepObjectKeeps, OnlyUndoRefuses DEF CacheInv, SweepObject, Undoes
<1>13. CASE Unlink
  BY <1>1, <1>13, UnlinkKeeps, OnlyUndoRefuses DEF CacheInv, Unlink, Undoes
<1>14. CASE Swept
  BY <1>1, <1>14, EndKeeps, OnlyUndoRefuses DEF CacheInv, Swept, Undoes
<1>15. CASE Crash
  BY <1>1, <1>15, EndKeeps, OnlyUndoRefuses DEF CacheInv, Crash
<1>16. CASE HostPut
  BY <1>1, <1>16, HostPutKeeps, TouchesGoOn, OnlyUndoRefuses DEF CacheInv, HostPut, Undoes
<1>17. CASE HostRead
  BY <1>1, <1>17, HostReadKeeps, OnlyUndoRefuses DEF CacheInv, HostRead, Undoes
<1>18. CASE HostWrite
  BY <1>1, <1>18, HostWriteKeeps, TouchesGoOn, OnlyUndoRefuses DEF CacheInv, HostWrite, Undoes
<1> QED BY <1>2, <1>3, <1>4, <1>5, <1>6, <1>7, <1>8, <1>9, <1>10, <1>11, <1>12, <1>13, <1>14, <1>15, <1>16, <1>17, <1>18
        DEF CacheNext

LEMMA CacheStutterKeeps == ASSUME CacheConstantsOK, CacheInv, UNCHANGED cacheVars PROVE CacheInv' /\ RefusedIsUndone
<1>1. CacheKinds /\ CacheAgrees
  BY DEF CacheInv
<1>2. UNCHANGED <<there, sidecar, cacheJob, noted>> /\ rows' \subseteq rows /\ staging' = staging /\ UNCHANGED request
  BY DEF cacheVars
<1>3. CacheAgrees'
  BY <1>1, <1>2, CacheStays
<1>4. CacheKinds'
  BY <1>1 DEF CacheKinds, cacheVars
<1>5. RefusedIsUndone
  BY <1>1, <1>2, OnlyUndoRefuses DEF Undoes
<1> QED BY <1>3, <1>4, <1>5 DEF CacheInv

\* What is recorded as noted is there.
LEMMA ImagesOutliveThere == ASSUME CacheConstantsOK, CacheInv PROVE ImagesOutlive
<1>1. NotedInv /\ NoMeta \notin Meta
  BY NoMetaIs DEF CacheInv, CacheAgrees
<1> QED BY <1>1 DEF ImagesOutlive, Staged, NotedInv

\* While a thread holds the lock of the cache, what it has yet to write or to restore is
\* what it found, and what the cleanup removes is nobody's (artifact_cache.py).
THEOREM CacheInvHolds == ASSUME CacheConstantsOK PROVE CacheSpec => []CacheInv
<1>1. CacheInit => CacheInv
  BY CacheInitInv
<1>2. CacheInv /\ [CacheNext]_cacheVars => CacheInv'
  BY CacheStepKeeps, CacheStutterKeeps
<1> QED BY <1>1, <1>2, PTL DEF CacheSpec

\* Every variable of the cache keeps its type.
THEOREM CacheTypeCorrect == ASSUME CacheConstantsOK PROVE CacheSpec => []CacheTypeOK
<1>1. CacheInv => CacheTypeOK
  <2>1. ASSUME CacheInv
        PROVE  /\ cacheJob.op \in JobOps /\ cacheJob.touched \subseteq CacheObject
               /\ \A s \in CacheSession : request[s].pc \in {"idle", "checked", "stored"}
               /\ staging.pc \in {"idle", "put", "read", "write"}
    BY <2>1 DEF CacheInv, CacheKinds, Jobs, CacheRequests, Stagings
  <2> QED BY <2>1 DEF CacheInv, CacheKinds, CacheTypeOK, JobOps, Sidecars
<1> QED BY <1>1, CacheInvHolds, PTL

\* An image of an accepted prompt outlives the cleanup as long as its conversation can be
\* resumed, and a refused batch or note leaves every object as it found it, but for what
\* the editor wrote, unless the lease refuses (store_many, add_image_reference, cleanup).
THEOREM PromisesAreKept == ASSUME CacheConstantsOK PROVE CacheSpec => CacheKeepsPromises
<1>1. CacheInv /\ CacheInv' /\ [CacheNext]_cacheVars => [KeepsPromises]_cacheVars
  <2>1. ASSUME CacheInv, CacheInv', CacheNext
        PROVE  KeepsPromises
    <3>1. RefusedIsUndone
      BY <2>1, CacheStepKeeps
    <3>2. ImagesOutlive'
      BY <2>1, ImagesOutliveThere, PTL
    <3> QED BY <3>1, <3>2 DEF KeepsPromises
  <2> QED BY <2>1
<1> QED BY <1>1, CacheInvHolds, PTL DEF CacheSpec, CacheKeepsPromises

----------------------------------------------------------------------------
(***************************************************************************)
(* The follow-ups of a panel.  Once one of the queue is under way the      *)
(* others wait, and once the queue is paused none is sent again: those     *)
(* that may still be sent, Unsent, are neither in the log nor under way,   *)
(* and come after every follow-up that is.                                 *)
(***************************************************************************)
TurnStates == {"idle", "running", "ended"}
PanelStates == [items : Seq(PromptNo), paused : BOOLEAN, dispatching : PromptNo \cup {NoPrompt},
                queued : PromptNo \cup {NoPrompt}, pending : BOOLEAN,
                banner : {"none", "unreachable", "other"}, state : TurnStates, pump : BOOLEAN]
TurnRequests == [item : PromptNo, queued : BOOLEAN, at : {"sent", "accepted", "denied"}, awaited : BOOLEAN]
DurableEvents == [kind : {"user", "timeout", "completed", "failed", "end"}, item : PromptNo \cup {NoPrompt}]

PanelKinds ==
    /\ panelLog \in Seq(DurableEvents) /\ panelTurn \in TurnStates
    /\ panelRequests \in SUBSET TurnRequests
    /\ panelBatch \in [upto : Nat, state : TurnStates] /\ panelCursor \in Nat
    /\ panelEnding \in {"no", "close", "kill", "closed", "killed"} /\ panelTyped \in 0 .. MaxPrompts

\* A queue is in the order of typing; its head alone may be under way, and none when it is paused.
Queued(p) ==
    /\ p \in PanelStates
    /\ Len(p.items) <= FollowUpLimit
    /\ \A i, j \in DOMAIN p.items : i < j => p.items[i] < p.items[j]
    /\ p.dispatching # NoPrompt => p.items # <<>> /\ Head(p.items) = p.dispatching
    /\ p.paused => p.items # <<>> /\ p.dispatching = NoPrompt

\* What may still be sent.
Unsent(p) == {p.items[i] : i \in {i \in DOMAIN p.items : ~p.paused /\ (p.dispatching # NoPrompt => i # 1)}}
Queue(p) == {p.items[i] : i \in DOMAIN p.items}

UnsentInv ==
    \A item \in Unsent(panel) :
        /\ item \notin Prompts(panelLog)
        /\ \A q \in panelRequests : q.item # item /\ (q.queued => q.item < item)

RequestsInv ==
    \A r \in panelRequests :
        /\ r.item <= panelTyped
        /\ r.at = "sent" => r.item \notin Prompts(panelLog)
        /\ \A q \in panelRequests : r.at = "sent" /\ q.item = r.item => q = r

LogInv ==
    /\ \A i \in DOMAIN panelLog : panelLog[i].item <= panelTyped
    /\ \A i, j \in DOMAIN panelLog : i < j /\ panelLog[i].kind = "user" /\ panelLog[j].kind = "user"
          => panelLog[i].item # panelLog[j].item \/ panelLog[i].item = NoPrompt

PumpInv ==
    /\ panelCursor <= Len(panelLog)
    /\ panelBatch = NoBatch \/ panelBatch.upto \in panelCursor + 1 .. Len(panelLog) + 1

PanelInv ==
    /\ PanelKinds
    /\ Queued(panel)
    /\ \A item \in Queue(panel) : item <= panelTyped
    /\ UnsentInv /\ RequestsInv /\ LogInv /\ PumpInv

\* What most callbacks do with the queue: none of it becomes sendable, and it keeps its items.
Holds(p, q) == Queued(q) /\ q.items = p.items /\ Unsent(q) \subseteq Unsent(p) /\ q.state = p.state

\* The same with regard to the queue.
Alike(p, q) ==
    q.items = p.items /\ q.paused = p.paused /\ q.dispatching = p.dispatching

LEMMA PromptIs == ASSUME PanelConstantsOK PROVE PromptNo \subseteq Nat /\ NoPrompt \notin PromptNo /\ NoPrompt \in Nat
BY DEF PanelConstantsOK, PromptNo, NoPrompt

LEMMA AlikeHolds ==
    ASSUME NEW p, NEW q \in PanelStates, Queued(p), Alike(p, q)
    PROVE  Queued(q) /\ Unsent(q) = Unsent(p) /\ Queue(q) = Queue(p)
BY DEF Queued, Unsent, Alike, Queue

LEMMA PauseHolds == ASSUME NEW p, Queued(p) PROVE Holds(p, Pause(p))
<1>1. CASE p.items = <<>>
  BY <1>1 DEF Pause, Holds
<1>2. CASE p.items # <<>>
  <2> DEFINE q == [p EXCEPT !.paused = TRUE, !.dispatching = NoPrompt]
  <2>1. Pause(p) = q
    BY <1>2 DEF Pause
  <2>2. q \in PanelStates /\ q.items = p.items /\ q.paused = TRUE /\ q.dispatching = NoPrompt
        /\ q.state = p.state
    BY DEF Queued, PanelStates
  <2>3. Queued(q)
    BY <1>2, <2>2 DEF Queued
  <2>4. Unsent(q) = {}
    BY <2>2 DEF Unsent
  <2> QED BY <2>1, <2>2, <2>3, <2>4 DEF Holds
<1> QED BY <1>1, <1>2

LEMMA HoldsOn == ASSUME NEW p, NEW q, NEW r, Holds(p, q), Holds(q, r) PROVE Holds(p, r)
BY DEF Holds

LEMMA RejectHolds == ASSUME NEW p, Queued(p), NEW item PROVE Holds(p, Reject(p, item))
<1> DEFINE q == [p EXCEPT !.queued = NoPrompt, !.dispatching = IF @ = item THEN NoPrompt ELSE @]
           d == IF p.dispatching = item THEN NoPrompt ELSE p.dispatching
<1>1. /\ q \in PanelStates /\ q.items = p.items /\ q.paused = p.paused /\ q.dispatching = d
      /\ q.state = p.state
  BY DEF Queued, PanelStates
<1>2. Queued(q)
  BY <1>1 DEF Queued
<1>3. CASE p.items = <<>>
  <2>1. DOMAIN p.items = {}
    BY <1>3
  <2>2. Unsent(q) = {}
    BY <2>1, <1>1 DEF Unsent
  <2>3. Reject(p, item) = q
    BY <1>3, <1>1 DEF Reject, Pause
  <2> QED BY <1>1, <1>2, <2>2, <2>3 DEF Holds
<1>4. CASE p.items # <<>>
  <2>1. Holds(q, Pause(q))
    BY <1>2, PauseHolds
  <2>2. Pause(q) = [q EXCEPT !.paused = TRUE, !.dispatching = NoPrompt]
    BY <1>1, <1>4 DEF Pause
  <2>3. Pause(q).paused = TRUE
    BY <1>1, <2>2 DEF PanelStates
  <2>4. Unsent(Pause(q)) = {}
    BY <2>3 DEF Unsent
  <2>5. Reject(p, item) = Pause(q)
    BY DEF Reject
  <2> QED BY <2>1, <2>4, <2>5, <1>1 DEF Holds
<1> QED BY <1>3, <1>4

\* Some of the queue may leave it.
Follows(p, q) == Queued(q) /\ Queue(q) \subseteq Queue(p) /\ Unsent(q) \subseteq Unsent(p) /\ q.state = p.state

LEMMA HoldsFollows == ASSUME NEW p, NEW q, Holds(p, q) PROVE Follows(p, q)
BY DEF Holds, Follows, Queue

LEMMA FollowsOn == ASSUME NEW p, NEW q, NEW r, Follows(p, q), Follows(q, r) PROVE Follows(p, r)
BY DEF Follows

LEMMA AcknowledgeFollows ==
    ASSUME PanelConstantsOK, NEW p, Queued(p)
    PROVE  Follows(p, Acknowledge(p))
<1> DEFINE head == p.queued # NoPrompt /\ p.dispatching = p.queued /\ Head(p.items) = p.queued
           its == IF head THEN Tail(p.items) ELSE p.items
           d == IF head THEN NoPrompt ELSE p.dispatching
           q == [p EXCEPT !.items = its, !.dispatching = d, !.queued = NoPrompt, !.pending = FALSE]
<1>1. Acknowledge(p) = q
  BY DEF Acknowledge
<1>2. /\ p.items \in Seq(PromptNo) /\ p.dispatching \in PromptNo \cup {NoPrompt}
      /\ p \in PanelStates
  BY DEF Queued, PanelStates
<1>3. head => p.items # <<>> /\ p.dispatching # NoPrompt /\ ~p.paused
  BY DEF Queued
<1>4. head => /\ Tail(p.items) \in Seq(PromptNo) /\ Len(Tail(p.items)) = Len(p.items) - 1
              /\ \A i \in 1 .. Len(p.items) - 1 : Tail(p.items)[i] = p.items[i + 1]
  BY <1>2, <1>3
<1>5. q \in PanelStates /\ q.items = its /\ q.dispatching = d /\ q.paused = p.paused /\ q.state = p.state
  <2>1. its \in Seq(PromptNo) /\ d \in PromptNo \cup {NoPrompt} /\ NoPrompt \in PromptNo \cup {NoPrompt}
    BY <1>2, <1>4
  <2> HIDE DEF its, d
  <2> QED BY <1>2, <2>1 DEF PanelStates
<1>6. CASE ~head
  <2>1. Alike(p, q)
    BY <1>5, <1>6 DEF Alike
  <2> HIDE DEF q
  <2>2. Queued(q) /\ Unsent(q) = Unsent(p) /\ Queue(q) = Queue(p)
    BY <1>5, <2>1, AlikeHolds
  <2> QED BY <1>1, <1>5, <2>2 DEF Follows
<1>7. CASE head
  <2>1. q.items = Tail(p.items) /\ q.dispatching = NoPrompt /\ ~q.paused
    BY <1>3, <1>5, <1>7
  <2>2. Len(p.items) \in Nat \ {0} /\ DOMAIN p.items = 1 .. Len(p.items)
    BY <1>2, <1>3, <1>7
  <2>3. DOMAIN q.items = 1 .. Len(p.items) - 1 /\ Len(q.items) = Len(p.items) - 1
    BY <1>2, <1>4, <1>7, <2>1, <2>2
  <2>4. \A i \in DOMAIN q.items : i + 1 \in DOMAIN p.items /\ i + 1 # 1 /\ q.items[i] = p.items[i + 1]
    BY <1>4, <1>7, <2>1, <2>2, <2>3
  <2> HIDE DEF q, its, d
  <2>5. Len(q.items) <= FollowUpLimit
    BY <2>2, <2>3 DEF Queued, PanelConstantsOK
  <2>6. ASSUME NEW i \in DOMAIN q.items, NEW j \in DOMAIN q.items, i < j
        PROVE  q.items[i] < q.items[j]
    <3>1. i + 1 < j + 1 /\ i + 1 \in DOMAIN p.items /\ j + 1 \in DOMAIN p.items
      BY <2>2, <2>3, <2>4, <2>6
    <3>2. p.items[i + 1] < p.items[j + 1]
      BY <3>1 DEF Queued
    <3> QED BY <2>4, <3>2
  <2>7. Queued(q)
    BY <1>5, <2>1, <2>5, <2>6 DEF Queued
  <2>8. Unsent(q) \subseteq Unsent(p) /\ Queue(q) \subseteq Queue(p)
    BY <1>3, <1>7, <2>1, <2>4 DEF Unsent, Queue
  <2> QED BY <1>1, <1>5, <2>7, <2>8 DEF Follows
<1> QED BY <1>6, <1>7

\* The next of the queue is one that may still be sent, and the first of them.
LEMMA DrainedIs ==
    ASSUME PanelConstantsOK, NEW p, Queued(p), CanDrain(p)
    PROVE  /\ Queued(Drained(p)) /\ Drained(p).items = p.items
           /\ Head(p.items) \in Unsent(p) /\ Head(p.items) \in PromptNo
           /\ \A item \in Unsent(Drained(p)) : item \in Unsent(p) /\ Head(p.items) < item
<1> DEFINE q == Drained(p)
<1>1. /\ p.items \in Seq(PromptNo) /\ p.items # <<>> /\ ~p.paused /\ p.dispatching = NoPrompt
      /\ p \in PanelStates
  BY DEF Queued, PanelStates, CanDrain
<1>2. Len(p.items) \in Nat \ {0} /\ DOMAIN p.items = 1 .. Len(p.items) /\ 1 \in DOMAIN p.items
      /\ Head(p.items) = p.items[1] /\ Head(p.items) \in PromptNo
  BY <1>1
<1>3. /\ q \in PanelStates /\ q.items = p.items /\ q.dispatching = Head(p.items)
      /\ q.paused = p.paused
  BY <1>1, <1>2 DEF PanelStates, Drained, Submitted
<1> HIDE DEF q
<1>4. Queued(q)
  BY <1>1, <1>3 DEF Queued
<1>5. Head(p.items) \in Unsent(p)
  BY <1>1, <1>2 DEF Unsent
<1>6. ASSUME NEW item \in Unsent(q)
      PROVE  item \in Unsent(p) /\ Head(p.items) < item
  <2>0. q.dispatching # NoPrompt
    BY <1>2, <1>3, PromptIs
  <2>1. PICK i \in DOMAIN p.items : i # 1 /\ item = p.items[i]
    BY <1>3, <2>0 DEF Unsent
  <2>2. item \in Unsent(p)
    BY <1>1, <2>1 DEF Unsent
  <2>3. p.items[1] < p.items[i]
    BY <1>2, <2>1 DEF Queued
  <2> QED BY <1>2, <2>1, <2>2, <2>3
<1> QED BY <1>2, <1>3, <1>4, <1>5, <1>6 DEF q

LEMMA SettledReplyHolds ==
    ASSUME NEW p, Queued(p), NEW r
    PROVE  Holds(p, SettledReply(p, r))
<1> DEFINE q == [p EXCEPT !.pending = FALSE]
<1>1. Holds(p, p)
  BY DEF Holds
<1>2. q \in PanelStates /\ Alike(p, q) /\ q.state = p.state
  BY DEF Queued, PanelStates, Alike
<1>3. Holds(p, q) /\ Queued(q)
  <2> HIDE DEF q
  <2> QED BY <1>2, AlikeHolds DEF Holds, Alike
<1>4. Holds(q, Reject(q, r.item))
  BY <1>3, RejectHolds
<1>5. SettledReply(p, r) \in {p, q, Reject(q, r.item)}
  BY DEF SettledReply
<1> HIDE DEF q
<1> QED BY <1>1, <1>3, <1>4, <1>5, HoldsOn

\* Only the queue and what is sendable matter: the rest of the panel is beside it.
Beside(p, q) == q \in PanelStates /\ Alike(p, q)

LEMMA BesideFollows ==
    ASSUME NEW p, NEW q, Queued(p), Beside(p, q)
    PROVE  Queued(q) /\ q.items = p.items /\ Unsent(q) = Unsent(p) /\ Queue(q) = Queue(p)
BY AlikeHolds DEF Beside, Alike

\* What a batch of events does to the panel before the drain.
LEMMA FoldedIs ==
    ASSUME PanelConstantsOK, NEW p, Queued(p), NEW events \in Seq(DurableEvents), events # <<>>
    PROVE  LET q == Folded(p, events)
           IN  /\ Queued(q) /\ Queue(q) \subseteq Queue(p) /\ Unsent(q) \subseteq Unsent(p)
               /\ Queue(q) # Queue(p) => Has(events, "user")
               /\ Normal(events, q) /\ q.state = "idle" => events[Len(events)].kind = "completed"
<1> DEFINE heard == IF p.banner = "unreachable" THEN [p EXCEPT !.banner = "none"] ELSE p
           acked == IF Has(events, "user") THEN Acknowledge(heard) ELSE heard
           told == {i \in DOMAIN events : events[i].kind # "timeout"}
           next == IF events[Max(told)].kind = "user" THEN "running" ELSE "idle"
           s == IF Has(events, "end") THEN [acked EXCEPT !.state = "ended"]
                ELSE IF told = {} THEN acked ELSE [acked EXCEPT !.state = next]
           q == Folded(p, events)
<1>1. Queued(heard) /\ heard.items = p.items /\ Unsent(heard) = Unsent(p) /\ Queue(heard) = Queue(p)
  <2>1. Beside(p, heard)
    BY DEF Queued, PanelStates, Beside, Alike
  <2> HIDE DEF heard
  <2> QED BY <2>1, BesideFollows
<1> HIDE DEF heard
<1>2. /\ Queued(acked) /\ Queue(acked) \subseteq Queue(p) /\ Unsent(acked) \subseteq Unsent(p)
      /\ Queue(acked) # Queue(p) => Has(events, "user")
  BY <1>1, AcknowledgeFollows DEF Follows
<1> HIDE DEF acked
<1>3. next \in TurnStates
  BY DEF TurnStates
<1>4. /\ Queued(s) /\ Queue(s) = Queue(acked) /\ Unsent(s) = Unsent(acked)
      /\ Has(events, "end") => s.state = "ended"
      /\ ~Has(events, "end") /\ told # {} => s.state = next
  <2> HIDE DEF next, told
  <2>1. acked \in PanelStates
    BY <1>2 DEF Queued
  <2>2. /\ s \in PanelStates /\ Alike(acked, s)
        /\ Has(events, "end") => s.state = "ended"
        /\ ~Has(events, "end") /\ told # {} => s.state = next
    BY <1>3, <2>1 DEF PanelStates, TurnStates, Alike
  <2> HIDE DEF s
  <2> QED BY <1>2, <2>2, AlikeHolds
<1>5. q = s \/ q = Pause(s)
  BY DEF Folded, heard, acked
<1> HIDE DEF s, q
<1>6. Holds(s, s) /\ Holds(s, Pause(s))
  BY <1>4, PauseHolds DEF Holds
<1>7. Holds(s, q)
  BY <1>5, <1>6
<1>8. /\ Queued(q) /\ Queue(q) \subseteq Queue(p) /\ Unsent(q) \subseteq Unsent(p)
      /\ Queue(q) # Queue(p) => Has(events, "user")
  BY <1>2, <1>4, <1>7 DEF Holds, Queue
<1>9. ASSUME Normal(events, q), q.state = "idle"
      PROVE  events[Len(events)].kind = "completed"
  <2> DEFINE last == Len(events)
  <2>1. last \in DOMAIN events /\ DOMAIN events = 1 .. last /\ last \in Nat
    OBVIOUS
  <2>2. s.state = "idle" /\ ~Has(events, "end")
    BY <1>4, <1>7, <1>9 DEF Holds
  <2>3. ~Has(events, "timeout") /\ ~Has(events, "failed")
    BY <1>9 DEF Normal
  <2>4. told = DOMAIN events
    BY <2>3 DEF Has
  <2>5. Max(told) = last
    <3>1. \A y \in told : last >= y
      BY <2>1, <2>4
    <3>2. \A x \in told : (\A y \in told : x >= y) => x = last
      BY <2>1, <2>4
    <3> QED BY <2>1, <2>4, <3>1, <3>2 DEF Max
  <2>6. events[last].kind # "user"
    BY <1>4, <2>1, <2>2, <2>4, <2>5
  <2>7. events[last].kind \notin {"end", "timeout", "failed"}
    BY <2>1, <2>2, <2>3 DEF Has
  <2>8. events[last] \in DurableEvents
    BY <2>1
  <2> QED BY <2>6, <2>7, <2>8 DEF DurableEvents
<1> QED BY <1>8, <1>9 DEF q

LEMMA TurnStateFollows ==
    ASSUME NEW p, Queued(p), NEW told \in TurnStates, NEW last \in BOOLEAN,
           NEW shown \in {"none", "unreachable", "other"}
    PROVE  LET q == TurnState(p, told, last, shown)
           IN  Queued(q) /\ Queue(q) = Queue(p) /\ Unsent(q) \subseteq Unsent(p)
<1> DEFINE q == [p EXCEPT !.state = told, !.banner = IF @ = "unreachable" THEN "none" ELSE @]
           r == IF last THEN [q EXCEPT !.pending = FALSE, !.pump = FALSE, !.banner = shown] ELSE q
<1>1. q \in PanelStates /\ Alike(p, q)
  BY DEF Queued, PanelStates, Alike
<1>2. r \in PanelStates /\ Alike(p, r)
  <2> HIDE DEF q
  <2> QED BY <1>1 DEF PanelStates, Alike
<1>3. TurnState(p, told, last, shown) \in {q, Pause(r)}
  BY DEF TurnState
<1> HIDE DEF q, r
<1>4. Queued(q) /\ Queue(q) = Queue(p) /\ Unsent(q) = Unsent(p)
  BY <1>1, AlikeHolds
<1>5. Queued(r) /\ Queue(r) = Queue(p) /\ Unsent(r) = Unsent(p)
  BY <1>2, AlikeHolds
<1>6. Holds(r, Pause(r))
  BY <1>5, PauseHolds
<1> QED BY <1>3, <1>4, <1>5, <1>6, ZenonT(40) DEF Holds, Queue

\* The second and the third part of KeepsFollowUps.
SendsInOrder ==
    \A r \in panelRequests' \ panelRequests : r.queued /\ r.at = "sent" /\ r.awaited
        => panelLog[panelCursor'].kind = "completed" /\ \A q \in panelRequests : q.queued => q.item < r.item

LeavesFor ==
    \A item \in Queue(panel) \ Queue(panel') :
        panelEnding = "closed" \/ \E i \in panelCursor + 1 .. panelCursor' : panelLog[i].kind = "user"

LEMMA KeptIs == ASSUME LogInv', SendsInOrder, LeavesFor PROVE KeepsFollowUps
BY DEF LogInv, SendsInOrder, LeavesFor, KeepsFollowUps, Queue, Range

LEMMA LogAppended ==
    ASSUME PanelKinds, LogInv, NEW e \in DurableEvents, panelLog' = Append(panelLog, e),
           panelTyped' = panelTyped, e.item <= panelTyped,
           e.kind = "user" => e.item \notin Prompts(panelLog) \/ e.item = NoPrompt
    PROVE  /\ panelLog' \in Seq(DurableEvents) /\ LogInv' /\ Len(panelLog') = Len(panelLog) + 1
           /\ Prompts(panelLog') = IF e.kind = "user" THEN Prompts(panelLog) \cup {e.item} ELSE Prompts(panelLog)
<1> DEFINE n == Len(panelLog)
<1>1. n \in Nat /\ DOMAIN panelLog = 1 .. n
  BY DEF PanelKinds
<1>2. /\ panelLog' \in Seq(DurableEvents) /\ Len(panelLog') = n + 1 /\ DOMAIN panelLog' = 1 .. n + 1
      /\ panelLog'[n + 1] = e
      /\ \A i \in 1 .. n : panelLog'[i] = panelLog[i]
  BY DEF PanelKinds
<1> HIDE DEF n
<1>3. Prompts(panelLog') = IF e.kind = "user" THEN Prompts(panelLog) \cup {e.item} ELSE Prompts(panelLog)
  <2>1. ASSUME NEW x \in Prompts(panelLog')
        PROVE  x \in Prompts(panelLog) \/ (e.kind = "user" /\ x = e.item)
    <3>1. PICK i \in 1 .. n + 1 : panelLog'[i].kind = "user" /\ x = panelLog'[i].item
      BY <1>2, <2>1 DEF Prompts
    <3>2. i = n + 1 \/ i \in 1 .. n
      BY <1>1
    <3> QED BY <1>1, <1>2, <3>1, <3>2 DEF Prompts
  <2>2. Prompts(panelLog) \subseteq Prompts(panelLog')
    <3>1. \A i \in 1 .. n : i \in 1 .. n + 1
      BY <1>1
    <3> QED BY <1>1, <1>2, <3>1 DEF Prompts
  <2>3. e.kind = "user" => e.item \in Prompts(panelLog')
    <3>1. n + 1 \in 1 .. n + 1
      BY <1>1
    <3> QED BY <1>2, <3>1 DEF Prompts
  <2> QED BY <2>1, <2>2, <2>3
<1>4. ASSUME NEW i \in DOMAIN panelLog'
      PROVE  panelLog'[i].item <= panelTyped'
  <2>1. i = n + 1 \/ i \in DOMAIN panelLog
    BY <1>1, <1>2
  <2> QED BY <1>1, <1>2, <2>1 DEF LogInv
<1>5. ASSUME NEW i \in DOMAIN panelLog', NEW j \in DOMAIN panelLog', i < j,
             panelLog'[i].kind = "user", panelLog'[j].kind = "user"
      PROVE  panelLog'[i].item # panelLog'[j].item \/ panelLog'[i].item = NoPrompt
  <2>1. i \in 1 .. n /\ panelLog'[i] = panelLog[i]
    BY <1>1, <1>2, <1>5
  <2>2. CASE j \in 1 .. n
    BY <1>1, <1>2, <1>5, <2>1, <2>2 DEF LogInv
  <2>3. CASE j = n + 1
    <3>1. panelLog[i].item \in Prompts(panelLog)
      BY <1>1, <1>5, <2>1 DEF Prompts
    <3> QED BY <1>2, <1>5, <2>1, <2>3, <3>1
  <2> QED BY <1>1, <1>2, <2>2, <2>3
<1> QED BY <1>2, <1>3, <1>4, <1>5 DEF LogInv, n

LEMMA QueueShrinks ==
    ASSUME PanelConstantsOK, PanelInv, PanelKinds', RequestsInv', LogInv', PumpInv',
           Queued(panel'), Queue(panel') \subseteq Queue(panel), Unsent(panel') \subseteq Unsent(panel),
           panelTyped' = panelTyped,
           Prompts(panelLog') \subseteq Prompts(panelLog) \cup {NoPrompt} \cup {r.item : r \in panelRequests},
           \A r \in panelRequests' : \E q \in panelRequests : q.item = r.item /\ q.queued = r.queued
    PROVE  PanelInv'
<1>1. Unsent(panel) \subseteq PromptNo
  BY DEF PanelInv, Queued, PanelStates, Unsent
<1>2. UnsentInv'
  BY <1>1, PromptIs DEF PanelInv, UnsentInv
<1>3. \A item \in Queue(panel') : item <= panelTyped'
  BY DEF PanelInv
<1> QED BY <1>2, <1>3 DEF PanelInv

\* Only the panel changes.
LEMMA PanelAlone ==
    ASSUME PanelConstantsOK, PanelInv, Queued(panel'), Queue(panel') \subseteq Queue(panel),
           Unsent(panel') \subseteq Unsent(panel), panelEnding' \in {"no", "close", "kill", "closed", "killed"},
           UNCHANGED <<panelDaemon, panelRequests, panelBatch, panelCursor, panelTyped>>
    PROVE  PanelInv' /\ SendsInOrder
<1>1. PanelKinds' /\ RequestsInv' /\ LogInv' /\ PumpInv'
  BY DEF PanelInv, PanelKinds, RequestsInv, LogInv, PumpInv, panelDaemon
<1>2. PanelInv'
  BY <1>1, QueueShrinks DEF panelDaemon
<1> QED BY <1>2 DEF SendsInOrder

LEMMA StaysFor == ASSUME Queue(panel) \subseteq Queue(panel') PROVE LeavesFor
BY DEF LeavesFor

PanelStep == PanelInv' /\ SendsInOrder /\ LeavesFor

LEMMA PanelRequestIs ==
    ASSUME PanelInv, NEW r \in panelRequests
    PROVE  r \in TurnRequests
BY DEF PanelInv, PanelKinds

LEMMA TypePromptKeeps == ASSUME PanelConstantsOK, PanelInv, TypePrompt PROVE PanelStep
<1> DEFINE item == panelTyped + 1
<1>0. /\ Queued(panel) /\ panel \in PanelStates /\ panel.items \in Seq(PromptNo) /\ panelTyped \in Nat
      /\ panelTyped' = item /\ item \in PromptNo /\ item # NoPrompt /\ panelTyped' \in 0 .. MaxPrompts
      /\ panelTyped < item
  <2>1. /\ Queued(panel) /\ panel \in PanelStates /\ panel.items \in Seq(PromptNo)
    BY DEF PanelInv, Queued, PanelStates
  <2>2. panelTyped \in 0 .. MaxPrompts /\ panelTyped < MaxPrompts /\ panelTyped' = item /\ MaxPrompts \in Nat
    BY DEF PanelInv, PanelKinds, TypePrompt, PanelConstantsOK
  <2>3. panelTyped \in Nat /\ item \in 1 .. MaxPrompts /\ item \in 0 .. MaxPrompts /\ panelTyped < item /\ item # 0
    BY <2>2
  <2> QED BY <2>1, <2>2, <2>3 DEF PromptNo, NoPrompt
<1>u. UNCHANGED <<panelLog, panelTurn, panelBatch, panelCursor, panelEnding, panelTroubles>>
  BY DEF TypePrompt, panelDaemon
<1>1. /\ \A i \in DOMAIN panelLog : panelLog[i].item \in Nat /\ panelLog[i].item < item
      /\ item \notin Prompts(panelLog)
  <2>1. ASSUME NEW i \in DOMAIN panelLog
        PROVE  panelLog[i].item \in Nat /\ panelLog[i].item < item
    <3>1. panelLog[i] \in DurableEvents
      BY DEF PanelInv, PanelKinds
    <3>2. panelLog[i].item \in Nat
      BY <3>1, PromptIs DEF DurableEvents
    <3> QED BY <1>0, <3>2 DEF PanelInv, LogInv
  <2> QED BY <1>0, <2>1 DEF Prompts
<1>2. \A r \in panelRequests : r.item \in Nat /\ r.item < item /\ r.item <= panelTyped'
  <2>1. \A r \in panelRequests : r.item \in Nat
    BY PanelRequestIs, PromptIs DEF TurnRequests
  <2> QED BY <1>0, <2>1 DEF PanelInv, RequestsInv
<1>3. \A x \in Queue(panel) : x \in Nat /\ x < item /\ x <= panelTyped'
  <2> HIDE DEF item
  <2>1. Queue(panel) \subseteq PromptNo
    BY <1>0 DEF Queue
  <2>2. \A x \in Queue(panel) : x <= panelTyped
    BY DEF PanelInv
  <2>3. panelTyped < item /\ panelTyped \in Nat /\ item \in Nat /\ panelTyped' = item
    BY <1>0, PromptIs
  <2>4. \A x \in Queue(panel) : x \in Nat
    BY <2>1, PromptIs
  <2> QED BY <2>2, <2>3, <2>4
<1>4. LogInv' /\ PumpInv'
  BY <1>0, <1>1, <1>u DEF PanelInv, LogInv, PumpInv
<1>5. CASE UNCHANGED panelRequests /\ Beside(panel, panel')
  <2>1. Queued(panel') /\ Unsent(panel') = Unsent(panel) /\ Queue(panel') = Queue(panel)
    BY <1>0, <1>5, BesideFollows
  <2>2. PanelKinds' /\ RequestsInv' /\ UnsentInv'
    BY <1>0, <1>2, <1>5, <1>u, <2>1 DEF PanelInv, PanelKinds, RequestsInv, UnsentInv
  <2> QED BY <1>3, <1>4, <1>5, <2>1, <2>2, StaysFor DEF PanelInv, PanelStep, SendsInOrder
<1>6. CASE UNCHANGED panelRequests /\ Len(panel.items) < FollowUpLimit /\ panel' = [panel EXCEPT !.items = Append(@, item)]
  <2> DEFINE n == Len(panel.items)
  <2>1. /\ panel' \in PanelStates /\ panel'.items = Append(panel.items, item) /\ panel'.paused = panel.paused
        /\ panel'.dispatching = panel.dispatching
    <3> DEFINE its == Append(panel.items, item)
    <3>1. its \in Seq(PromptNo) /\ panel' = [panel EXCEPT !.items = its]
      BY <1>0, <1>6
    <3> HIDE DEF its
    <3>2. panel' \in PanelStates /\ panel'.items = its /\ panel'.paused = panel.paused
          /\ panel'.dispatching = panel.dispatching
      BY <1>0, <3>1 DEF PanelStates
    <3> QED BY <3>2 DEF its
  <2>2. /\ n \in Nat /\ DOMAIN panel.items = 1 .. n /\ Len(panel'.items) = n + 1
        /\ DOMAIN panel'.items = 1 .. n + 1 /\ panel'.items[n + 1] = item
        /\ \A i \in 1 .. n : panel'.items[i] = panel.items[i]
    BY <1>0, <2>1
  <2> HIDE DEF n
  <2>3. ASSUME NEW i \in DOMAIN panel'.items, NEW j \in DOMAIN panel'.items, i < j
        PROVE  panel'.items[i] < panel'.items[j]
    <3>1. i \in 1 .. n
      BY <2>2, <2>3
    <3>2. CASE j \in 1 .. n
      BY <1>0, <2>2, <2>3, <3>1, <3>2 DEF Queued
    <3>3. CASE j = n + 1
      BY <1>3, <2>2, <3>1, <3>3 DEF Queue
    <3> QED BY <2>2, <3>2, <3>3
  <2>4. Len(panel'.items) <= FollowUpLimit
    <3>1. n < FollowUpLimit /\ FollowUpLimit \in Nat
      BY <1>6 DEF n, PanelConstantsOK
    <3> QED BY <2>2, <3>1
  <2>5. panel.items # <<>> => panel'.items # <<>> /\ Head(panel'.items) = Head(panel.items)
    BY <1>0, <2>1
  <2>6. Queued(panel')
    BY <1>0, <2>1, <2>3, <2>4, <2>5 DEF Queued
  <2>7. Queue(panel') = Queue(panel) \cup {item}
    <3>1. \A i \in 1 .. n + 1 : i = n + 1 \/ i \in 1 .. n
      BY <2>2
    <3>2. n + 1 \in 1 .. n + 1 /\ 1 .. n \subseteq 1 .. n + 1
      BY <2>2
    <3> QED BY <2>2, <3>1, <3>2 DEF Queue
  <2>8. Unsent(panel') \subseteq Unsent(panel) \cup {item}
    <3>1. \A i \in 1 .. n + 1 : i = n + 1 \/ i \in 1 .. n
      BY <2>2
    <3> QED BY <2>1, <2>2, <3>1 DEF Unsent
  <2>9. PanelKinds' /\ RequestsInv'
    BY <1>0, <1>2, <1>6, <1>u DEF PanelInv, PanelKinds, RequestsInv
  <2>10. UnsentInv'
    BY <1>0, <1>1, <1>2, <1>6, <1>u, <2>8 DEF PanelInv, UnsentInv
  <2>11. \A x \in Queue(panel') : x <= panelTyped'
    BY <1>0, <1>3, <2>7
  <2>12. PanelInv'
    BY <1>4, <2>6, <2>9, <2>10, <2>11 DEF PanelInv
  <2> QED BY <1>6, <2>7, <2>12, StaysFor DEF PanelStep, SendsInOrder
<1>7. CASE /\ panel' = Submitted(panel)
           /\ panelRequests' = panelRequests \cup {TurnRequest(item, FALSE)}
  <2> DEFINE new == TurnRequest(item, FALSE)
  <2>1. Beside(panel, panel')
    BY <1>0, <1>7 DEF PanelStates, Beside, Alike, Submitted
  <2>2. Queued(panel') /\ Unsent(panel') = Unsent(panel) /\ Queue(panel') = Queue(panel)
    BY <1>0, <2>1, BesideFollows
  <2>3. new \in TurnRequests /\ new.item = item /\ new.queued = FALSE
    BY <1>0 DEF TurnRequest, TurnRequests
  <2> HIDE DEF new
  <2>4. PanelKinds'
    BY <1>0, <1>7, <1>u, <2>3 DEF PanelInv, PanelKinds, new
  <2>5. panelRequests' = panelRequests \cup {new}
    BY <1>7 DEF new
  <2>6. RequestsInv'
    <3>1. \A r \in panelRequests : r.item # item
      BY <1>0, <1>2
    <3> QED BY <1>0, <1>1, <1>2, <1>u, <2>3, <2>5, <3>1 DEF PanelInv, RequestsInv
  <2>7. UnsentInv'
    <3>1. item \notin Unsent(panel)
      <4>1. Unsent(panel) \subseteq Queue(panel)
        BY DEF Unsent, Queue
      <4> QED BY <1>0, <1>3, <4>1
    <3> QED BY <1>u, <2>2, <2>3, <2>5, <3>1 DEF PanelInv, UnsentInv
  <2>8. PanelInv'
    BY <1>3, <1>4, <2>2, <2>4, <2>6, <2>7 DEF PanelInv
  <2> QED BY <2>2, <2>3, <2>5, <2>8, StaysFor DEF PanelStep, SendsInOrder
<1>8. \/ UNCHANGED panelRequests /\ Beside(panel, panel')
      \/ UNCHANGED panelRequests /\ Len(panel.items) < FollowUpLimit /\ panel' = [panel EXCEPT !.items = Append(@, item)]
      \/ panel' = Submitted(panel) /\ panelRequests' = panelRequests \cup {TurnRequest(item, FALSE)}
  <2>1. Beside(panel, [panel EXCEPT !.banner = "other"])
    BY <1>0 DEF PanelStates, Beside, Alike
  <2> QED BY <2>1 DEF TypePrompt
<1> QED BY <1>5, <1>6, <1>7, <1>8

LEMMA InterruptPanelKeeps == ASSUME PanelConstantsOK, PanelInv, InterruptPanel PROVE PanelStep
<1>1. Queued(panel) /\ panel.banner \in {"none", "unreachable", "other"}
  BY DEF PanelInv, Queued, PanelStates
<1>2. PICK p \in {panel, Pause(panel)}, shown \in {panel.banner, "other", "unreachable"} :
         panel' = [p EXCEPT !.banner = shown]
  BY DEF InterruptPanel
<1>3. Holds(panel, p)
  BY <1>1, <1>2, PauseHolds DEF Holds
<1>4. Beside(p, panel')
  BY <1>1, <1>2, <1>3 DEF Holds, Queued, PanelStates, Beside, Alike
<1>5. Queued(panel') /\ panel'.items = panel.items /\ Unsent(panel') \subseteq Unsent(panel)
  BY <1>3, <1>4, BesideFollows DEF Holds
<1>6. Queue(panel') = Queue(panel)
  BY <1>5 DEF Queue
<1>7. panelEnding' \in {"no", "close", "kill", "closed", "killed"}
  BY DEF InterruptPanel, PanelInv, PanelKinds
<1>8. PanelInv' /\ SendsInOrder
  BY <1>5, <1>6, <1>7, PanelAlone DEF InterruptPanel
<1> QED BY <1>6, <1>8, StaysFor DEF PanelStep

LEMMA AskToEndKeeps == ASSUME PanelConstantsOK, PanelInv, AskToEnd PROVE PanelStep
<1>1. Queued(panel)
  BY DEF PanelInv
<1>2. Holds(panel, panel')
  BY <1>1, PauseHolds DEF AskToEnd, Holds
<1>3. Queue(panel') = Queue(panel)
  BY <1>2 DEF Queue, Holds
<1>4. PanelInv' /\ SendsInOrder
  BY <1>2, <1>3, PanelAlone DEF AskToEnd, Holds
<1> QED BY <1>3, <1>4, StaysFor DEF PanelStep

LEMMA EndAnsweredKeeps == ASSUME PanelConstantsOK, PanelInv, EndAnswered PROVE PanelStep
<1> DEFINE over == [panel EXCEPT !.state = "ended", !.pending = FALSE]
<1>1. Queued(panel) /\ panel \in PanelStates
  BY DEF PanelInv, Queued
<1>2. Beside(panel, over)
  BY <1>1 DEF PanelStates, TurnStates, Beside, Alike
<1> HIDE DEF over
<1>3. \/ panelEnding = "closed" /\ panel' = ClearedPanel(over)
      \/ panel' = over
      \/ \E shown \in {"other", "unreachable"} : panel' = [panel EXCEPT !.banner = shown]
  BY DEF EndAnswered, over
<1>4. CASE panelEnding = "closed" /\ panel' = ClearedPanel(over)
  <2>1. /\ panel' \in PanelStates /\ panel'.items = <<>> /\ ~panel'.paused /\ panel'.dispatching = NoPrompt
    <3>1. over \in PanelStates /\ <<>> \in Seq(PromptNo)
      BY <1>2 DEF Beside
    <3> QED BY <1>4, <3>1 DEF PanelStates, ClearedPanel
  <2>2. DOMAIN panel'.items = {} /\ Len(panel'.items) = 0
    BY <2>1
  <2>3. Queued(panel')
    BY <2>1, <2>2 DEF Queued, PanelConstantsOK
  <2>4. Queue(panel') = {} /\ Unsent(panel') = {}
    BY <2>2 DEF Queue, Unsent
  <2>5. PanelInv' /\ SendsInOrder
    BY <2>3, <2>4, PanelAlone DEF EndAnswered
  <2> QED BY <1>4, <2>5 DEF PanelStep, LeavesFor
<1>5. CASE panel' = over \/ \E shown \in {"other", "unreachable"} : panel' = [panel EXCEPT !.banner = shown]
  <2>1. \A shown \in {"other", "unreachable"} : Beside(panel, [panel EXCEPT !.banner = shown])
    BY <1>1 DEF PanelStates, Beside, Alike
  <2>2. Beside(panel, panel')
    BY <1>2, <1>5, <2>1
  <2>3. Queued(panel') /\ Unsent(panel') = Unsent(panel) /\ Queue(panel') = Queue(panel)
    BY <1>1, <2>2, BesideFollows
  <2>4. PanelInv' /\ SendsInOrder
    BY <2>3, PanelAlone DEF EndAnswered
  <2> QED BY <2>3, <2>4, StaysFor DEF PanelStep
<1> QED BY <1>3, <1>4, <1>5

\* What the daemon does, and the poll.
LEMMA PanelUntouched ==
    ASSUME PanelConstantsOK, PanelInv, PanelKinds', RequestsInv', LogInv', PumpInv',
           UNCHANGED <<panel, panelCursor, panelTyped>>,
           Prompts(panelLog') \subseteq Prompts(panelLog) \cup {NoPrompt} \cup {r.item : r \in panelRequests},
           \A r \in panelRequests' : \E q \in panelRequests : q.item = r.item /\ q.queued = r.queued,
           \A r \in panelRequests' \ panelRequests : r.at = "sent" => ~r.awaited
    PROVE  PanelStep
<1>1. Queued(panel') /\ Queue(panel') = Queue(panel) /\ Unsent(panel') = Unsent(panel)
  BY DEF PanelInv
<1>2. PanelInv'
  BY <1>1, QueueShrinks
<1>3. SendsInOrder
  BY DEF SendsInOrder
<1> QED BY <1>1, <1>2, <1>3, StaysFor DEF PanelStep

\* A request that is answered is sent no more.
LEMMA AnsweredIs ==
    ASSUME PanelInv, NEW r \in panelRequests, NEW at \in {"accepted", "denied"},
           panelRequests' = Replied(r, at)
    PROVE  /\ panelRequests' \in SUBSET TurnRequests
           /\ \A x \in panelRequests' : x.at = "sent" => x \in panelRequests \ {r}
           /\ \A x \in panelRequests' : \E q \in panelRequests : q.item = x.item /\ q.queued = x.queued
           /\ \A x \in panelRequests' \ {[r EXCEPT !.at = at]} : x \in panelRequests \ {r}
<1> DEFINE new == [r EXCEPT !.at = at]
<1>1. new \in TurnRequests /\ new.item = r.item /\ new.queued = r.queued /\ new.at = at
  BY PanelRequestIs DEF TurnRequests
<1> HIDE DEF new
<1>2. panelRequests' \subseteq (panelRequests \ {r}) \cup {new}
  BY DEF Replied, new
<1>3. panelRequests \subseteq TurnRequests
  BY DEF PanelInv, PanelKinds
<1> QED BY <1>1, <1>2, <1>3 DEF new

LEMMA AnsweredKeeps ==
    ASSUME PanelConstantsOK, PanelInv, NEW r \in panelRequests, r.at = "sent", NEW at \in {"accepted", "denied"},
           panelRequests' = Replied(r, at), UNCHANGED panelTyped,
           Prompts(panelLog') \subseteq Prompts(panelLog) \cup {r.item}
    PROVE  RequestsInv'
<1> DEFINE new == [r EXCEPT !.at = at]
<1>1. new.item = r.item
  BY PanelRequestIs DEF TurnRequests
<1> HIDE DEF new
<1>2. /\ \A x \in panelRequests' : x.at = "sent" => x \in panelRequests \ {r}
      /\ \A x \in panelRequests' \ {new} : x \in panelRequests \ {r}
      /\ \A x \in panelRequests' : \E q \in panelRequests : q.item = x.item /\ q.queued = x.queued
  BY AnsweredIs DEF new
<1>3. \A x \in panelRequests \ {r} : x.item # r.item
  BY DEF PanelInv, RequestsInv
<1>4. ASSUME NEW x \in panelRequests', x.at = "sent"
      PROVE  /\ x.item \notin Prompts(panelLog')
             /\ \A q \in panelRequests' : q.item = x.item => q = x
  <2>1. x \in panelRequests \ {r} /\ x.item # r.item
    BY <1>2, <1>3, <1>4
  <2>2. x.item \notin Prompts(panelLog')
    BY <1>4, <2>1 DEF PanelInv, RequestsInv
  <2>3. ASSUME NEW q \in panelRequests', q.item = x.item PROVE q = x
    <3>1. q # new
      BY <1>1, <2>1, <2>3
    <3>2. q \in panelRequests
      BY <1>2, <3>1
    <3> QED BY <1>4, <2>1, <2>3, <3>2 DEF PanelInv, RequestsInv
  <2> QED BY <2>2, <2>3
<1>5. \A x \in panelRequests' : x.item <= panelTyped'
  BY <1>2 DEF PanelInv, RequestsInv
<1> QED BY <1>4, <1>5 DEF RequestsInv

LEMMA AcceptTurnKeeps == ASSUME PanelConstantsOK, PanelInv, AcceptTurn PROVE PanelStep
<1>1. PICK r \in panelRequests : /\ r.at = "sent" /\ panelRequests' = Replied(r, "accepted")
                                 /\ panelLog' = Append(panelLog, DurableEvent("user", r.item))
  BY DEF AcceptTurn
<1>2. UNCHANGED <<panelBatch, panelCursor, panel, panelEnding, panelTyped>> /\ panelTurn' = "running"
  BY DEF AcceptTurn
<1> DEFINE e == DurableEvent("user", r.item)
<1>3. e \in DurableEvents /\ e.kind = "user" /\ e.item = r.item
  BY PanelRequestIs DEF TurnRequests, DurableEvent, DurableEvents
<1> HIDE DEF e
<1>4. r.item <= panelTyped /\ r.item \notin Prompts(panelLog)
  BY <1>1 DEF PanelInv, RequestsInv
<1>5. /\ panelLog' \in Seq(DurableEvents) /\ LogInv' /\ Len(panelLog') = Len(panelLog) + 1
      /\ Prompts(panelLog') = Prompts(panelLog) \cup {r.item}
  BY <1>1, <1>2, <1>3, <1>4, LogAppended DEF PanelInv, e
<1>6. /\ panelRequests' \in SUBSET TurnRequests
      /\ \A x \in panelRequests' : x.at = "sent" => x \in panelRequests \ {r}
      /\ \A x \in panelRequests' : \E q \in panelRequests : q.item = x.item /\ q.queued = x.queued
  BY <1>1, AnsweredIs
<1>7. RequestsInv'
  BY <1>1, <1>2, <1>5, AnsweredKeeps
<1>8. PanelKinds'
  BY <1>2, <1>5, <1>6 DEF PanelInv, PanelKinds, TurnStates
<1>9. PumpInv'
  BY <1>2, <1>5 DEF PanelInv, PanelKinds, PumpInv
<1> QED BY <1>2, <1>5, <1>6, <1>7, <1>8, <1>9, PanelUntouched

LEMMA DenyTurnKeeps == ASSUME PanelConstantsOK, PanelInv, DenyTurn PROVE PanelStep
<1>1. PICK r \in panelRequests : r.at = "sent" /\ panelRequests' = Replied(r, "denied")
  BY DEF DenyTurn
<1>2. UNCHANGED <<panelLog, panelTurn, panelBatch, panelCursor, panel, panelEnding, panelTyped>>
  BY DEF DenyTurn, panelDaemon
<1>3. /\ panelRequests' \in SUBSET TurnRequests
      /\ \A x \in panelRequests' : x.at = "sent" => x \in panelRequests \ {r}
      /\ \A x \in panelRequests' : \E q \in panelRequests : q.item = x.item /\ q.queued = x.queued
  BY <1>1, AnsweredIs
<1>4. RequestsInv'
  BY <1>1, <1>2, AnsweredKeeps
<1>5. PanelKinds' /\ LogInv' /\ PumpInv'
  BY <1>2, <1>3 DEF PanelInv, PanelKinds, LogInv, PumpInv
<1> QED BY <1>2, <1>3, <1>4, <1>5, PanelUntouched

\* An event that is no prompt of this panel.
LEMMA EventKeeps ==
    ASSUME PanelConstantsOK, PanelInv, NEW kind \in {"user", "timeout", "completed", "failed", "end"},
           panelLog' = Append(panelLog, DurableEvent(kind, NoPrompt)), panelTurn' \in TurnStates,
           panelEnding' \in {"no", "close", "kill", "closed", "killed"},
           UNCHANGED <<panelRequests, panelBatch, panelCursor, panel, panelTyped>>
    PROVE  PanelStep
<1> DEFINE e == DurableEvent(kind, NoPrompt)
<1>1. e \in DurableEvents /\ e.kind = kind /\ e.item = NoPrompt
  BY DEF DurableEvent, DurableEvents
<1>2. NoPrompt <= panelTyped
  BY DEF PanelInv, PanelKinds, PanelConstantsOK, NoPrompt
<1> HIDE DEF e
<1>3. /\ panelLog' \in Seq(DurableEvents) /\ LogInv' /\ Len(panelLog') = Len(panelLog) + 1
      /\ Prompts(panelLog') \subseteq Prompts(panelLog) \cup {NoPrompt}
  BY <1>1, <1>2, LogAppended DEF PanelInv, e
<1>4. NoPrompt \notin PromptNo
  BY PromptIs
<1>5. RequestsInv'
  <2>1. \A r \in panelRequests : r.item # NoPrompt
    BY <1>4, PanelRequestIs DEF TurnRequests
  <2> QED BY <1>3, <2>1 DEF PanelInv, RequestsInv
<1>6. PanelKinds'
  BY <1>3 DEF PanelInv, PanelKinds
<1>7. PumpInv'
  BY <1>3 DEF PanelInv, PanelKinds, PumpInv
<1> QED BY <1>3, <1>5, <1>6, <1>7, PanelUntouched

LEMMA OtherTurnKeeps == ASSUME PanelConstantsOK, PanelInv, OtherTurn PROVE PanelStep
<1>1. panelTurn' \in TurnStates /\ panelEnding' \in {"no", "close", "kill", "closed", "killed"}
  BY DEF OtherTurn, TurnStates, PanelInv, PanelKinds
<1> QED BY <1>1, EventKeeps DEF OtherTurn

LEMMA ApprovalTimesOutKeeps == ASSUME PanelConstantsOK, PanelInv, ApprovalTimesOut PROVE PanelStep
<1>1. panelTurn' \in TurnStates /\ panelEnding' \in {"no", "close", "kill", "closed", "killed"}
  BY DEF ApprovalTimesOut, TurnStates, PanelInv, PanelKinds
<1> QED BY <1>1, EventKeeps DEF ApprovalTimesOut

LEMMA EndConversationKeeps == ASSUME PanelConstantsOK, PanelInv, EndConversation PROVE PanelStep
<1>1. panelTurn' \in TurnStates /\ panelEnding' \in {"no", "close", "kill", "closed", "killed"}
  BY DEF EndConversation, TurnStates
<1> QED BY <1>1, EventKeeps DEF EndConversation

LEMMA FinishDaemonTurnKeeps == ASSUME PanelConstantsOK, PanelInv, FinishDaemonTurn PROVE PanelStep
<1>1. /\ panelEnding' \in {"no", "close", "kill", "closed", "killed"}
      /\ UNCHANGED <<panelRequests, panelBatch, panelCursor, panel, panelEnding, panelTyped>>
  BY DEF FinishDaemonTurn, PanelInv, PanelKinds
<1>2. CASE /\ panelTurn' = "idle"
           /\ \E kind \in {"completed", "failed"} : panelLog' = Append(panelLog, DurableEvent(kind, NoPrompt))
  BY <1>1, <1>2, EventKeeps DEF TurnStates
<1>3. CASE /\ panelTurn' = "ended"
           /\ panelLog' = panelLog \o <<DurableEvent("failed", NoPrompt), DurableEvent("end", NoPrompt)>>
  <2> DEFINE a == DurableEvent("failed", NoPrompt)
             b == DurableEvent("end", NoPrompt)
             n == Len(panelLog)
  <2>1. a \in DurableEvents /\ b \in DurableEvents /\ a.kind # "user" /\ b.kind # "user"
        /\ a.item = NoPrompt /\ b.item = NoPrompt
    BY DEF DurableEvent, DurableEvents
  <2> HIDE DEF a, b
  <2>2. panelLog' = panelLog \o <<a, b>>
    BY <1>3 DEF a, b
  <2>3. panelLog \in Seq(DurableEvents) /\ n \in Nat /\ DOMAIN panelLog = 1 .. n
    BY DEF PanelInv, PanelKinds
  <2>4. /\ panelLog' \in Seq(DurableEvents) /\ Len(panelLog') = n + 2 /\ DOMAIN panelLog' = 1 .. n + 2
        /\ \A i \in 1 .. n : panelLog'[i] = panelLog[i]
        /\ panelLog'[n + 1] = a /\ panelLog'[n + 2] = b
    BY <2>1, <2>2, <2>3
  <2> HIDE DEF n
  <2>5. \A i \in DOMAIN panelLog' : i \in 1 .. n \/ panelLog'[i] = a \/ panelLog'[i] = b
    <3>1. \A i \in 1 .. n + 2 : i \in 1 .. n \/ i = n + 1 \/ i = n + 2
      BY <2>3
    <3> QED BY <2>4, <3>1
  <2>6. LogInv'
    <3>1. NoPrompt <= panelTyped
      BY DEF PanelInv, PanelKinds, PanelConstantsOK, NoPrompt
    <3>2. \A i \in DOMAIN panelLog' : panelLog'[i].item <= panelTyped'
      BY <1>1, <2>1, <2>3, <2>4, <2>5, <3>1 DEF PanelInv, LogInv
    <3>3. ASSUME NEW i \in DOMAIN panelLog', NEW j \in DOMAIN panelLog', i < j,
                 panelLog'[i].kind = "user", panelLog'[j].kind = "user"
          PROVE  panelLog'[i].item # panelLog'[j].item \/ panelLog'[i].item = NoPrompt
      <4>1. i \in 1 .. n /\ j \in 1 .. n
        BY <2>1, <2>5, <3>3
      <4> QED BY <2>3, <2>4, <3>3, <4>1 DEF PanelInv, LogInv
    <3> QED BY <3>2, <3>3 DEF LogInv
  <2>7. Prompts(panelLog') \subseteq Prompts(panelLog)
    BY <2>1, <2>3, <2>4, <2>5 DEF Prompts
  <2>8. PanelKinds'
    BY <1>1, <1>3, <2>4 DEF PanelInv, PanelKinds, TurnStates
  <2>9. PumpInv'
    BY <1>1, <2>3, <2>4 DEF PanelInv, PanelKinds, PumpInv, n
  <2>10. RequestsInv'
    BY <1>1, <2>7 DEF PanelInv, RequestsInv
  <2> QED BY <1>1, <2>6, <2>7, <2>8, <2>9, <2>10, PanelUntouched
<1> QED BY <1>2, <1>3 DEF FinishDaemonTurn

LEMMA PanelPollKeeps == ASSUME PanelConstantsOK, PanelInv, Poll PROVE PanelStep
<1>1. PICK upto \in panelCursor .. Len(panelLog) : panelBatch' = [upto |-> upto + 1, state |-> panelTurn]
  BY DEF Poll
<1>2. UNCHANGED <<panelLog, panelTurn, panelRequests, panelCursor, panel, panelEnding, panelTyped>>
  BY DEF Poll, panelDaemon
<1>3. panelCursor \in Nat /\ Len(panelLog) \in Nat
  BY DEF PanelInv, PanelKinds
<1>4. panelBatch' \in [upto : Nat, state : TurnStates]
  BY <1>1, <1>3 DEF PanelInv, PanelKinds
<1>5. PumpInv'
  BY <1>1, <1>2, <1>3 DEF PanelInv, PumpInv
<1>6. PanelKinds' /\ LogInv' /\ RequestsInv'
  BY <1>2, <1>4 DEF PanelInv, PanelKinds, LogInv, RequestsInv
<1> QED BY <1>2, <1>5, <1>6, PanelUntouched

\* The tail of submitPrompt, whatever the reply was.
LEMMA SettleKeeps ==
    ASSUME PanelConstantsOK, PanelInv, NEW r \in panelRequests, NEW new \in SUBSET TurnRequests,
           new \subseteq {[r EXCEPT !.awaited = FALSE]}, new # {} => r.at = "sent",
           panelRequests' = (panelRequests \ {r}) \cup new,
           NEW shown \in {panel.banner, "other", "unreachable"},
           panel' = SettledReply([panel EXCEPT !.banner = shown], r),
           UNCHANGED <<panelDaemon, panelBatch, panelCursor, panelEnding, panelTyped>>
    PROVE  PanelStep
<1> DEFINE p == [panel EXCEPT !.banner = shown]
           late == [r EXCEPT !.awaited = FALSE]
<1>1. Queued(panel) /\ panel \in PanelStates
  BY DEF PanelInv, Queued
<1>2. Beside(panel, p)
  BY <1>1 DEF PanelStates, Beside, Alike
<1>3. late.item = r.item /\ late.queued = r.queued /\ late.awaited = FALSE /\ late.at = r.at
  BY PanelRequestIs DEF TurnRequests
<1> HIDE DEF p, late
<1>4. panel' = SettledReply(p, r) /\ new \subseteq {late}
  BY DEF p, late
<1>5. Queued(p) /\ p.items = panel.items /\ Unsent(p) = Unsent(panel)
  BY <1>1, <1>2, BesideFollows
<1>6. Holds(p, panel')
  BY <1>4, <1>5, SettledReplyHolds
<1>7. Queued(panel') /\ Queue(panel') = Queue(panel) /\ Unsent(panel') \subseteq Unsent(panel)
  BY <1>5, <1>6 DEF Holds, Queue
<1>8. \A x \in panelRequests' : \E q \in panelRequests : q.item = x.item /\ q.queued = x.queued
  BY <1>3, <1>4
<1>9. PanelKinds' /\ LogInv' /\ PumpInv'
  BY DEF PanelInv, PanelKinds, LogInv, PumpInv, panelDaemon
<1>10. RequestsInv'
  <2>1. \A x \in panelRequests' : x.item <= panelTyped'
    BY <1>3, <1>4 DEF PanelInv, RequestsInv
  <2>2. ASSUME NEW x \in panelRequests', x.at = "sent"
        PROVE  /\ x.item \notin Prompts(panelLog')
               /\ \A q \in panelRequests' : q.item = x.item => q = x
    <3>1. CASE x = late /\ late \in new
      <4>1. r.at = "sent"
        BY <3>1
      <4>2. \A q \in panelRequests \ {r} : q.item # r.item
        BY <4>1 DEF PanelInv, RequestsInv
      <4>3. x.item \notin Prompts(panelLog')
        BY <1>3, <3>1, <4>1 DEF PanelInv, RequestsInv, panelDaemon
      <4> QED BY <1>3, <1>4, <3>1, <4>2, <4>3
    <3>2. CASE x \in panelRequests \ {r}
      <4>1. \A q \in panelRequests : q.item = x.item => q = x
        BY <2>2, <3>2 DEF PanelInv, RequestsInv
      <4>2. r.item # x.item
        BY <3>2, <4>1
      <4>3. x.item \notin Prompts(panelLog')
        BY <2>2, <3>2 DEF PanelInv, RequestsInv, panelDaemon
      <4> QED BY <1>3, <1>4, <4>1, <4>2, <4>3
    <3> QED BY <1>4, <3>1, <3>2
  <2> QED BY <2>1, <2>2 DEF RequestsInv
<1>11. PanelInv'
  BY <1>7, <1>8, <1>9, <1>10, QueueShrinks DEF panelDaemon
<1>12. SendsInOrder
  BY <1>3, <1>4 DEF SendsInOrder
<1> QED BY <1>7, <1>11, <1>12, StaysFor DEF PanelStep

LEMMA ReplyKeeps == ASSUME PanelConstantsOK, PanelInv, Reply PROVE PanelStep
<1>1. PICK r \in panelRequests :
         /\ panelRequests' = panelRequests \ {r}
         /\ panel' = SettledReply(IF r.at = "denied" THEN [panel EXCEPT !.banner = "other"] ELSE panel, r)
  BY DEF Reply
<1>2. panel = [panel EXCEPT !.banner = panel.banner]
  BY DEF PanelInv, Queued, PanelStates
<1>3. \E shown \in {panel.banner, "other", "unreachable"} :
         panel' = SettledReply([panel EXCEPT !.banner = shown], r)
  BY <1>1, <1>2
<1> DEFINE new == {}
<1>4. new \in SUBSET TurnRequests /\ new \subseteq {[r EXCEPT !.awaited = FALSE]} /\ (new # {} => r.at = "sent")
      /\ panelRequests' = (panelRequests \ {r}) \cup new
  BY <1>1
<1> HIDE DEF new
<1>5. UNCHANGED <<panelDaemon, panelBatch, panelCursor, panelEnding, panelTyped>>
  BY DEF Reply
<1> QED BY <1>3, <1>4, <1>5, SettleKeeps

LEMMA GiveUpKeeps == ASSUME PanelConstantsOK, PanelInv, GiveUp PROVE PanelStep
<1>1. PICK r \in panelRequests :
         /\ panelRequests' = (panelRequests \ {r}) \cup (IF r.at = "sent" THEN {[r EXCEPT !.awaited = FALSE]} ELSE {})
         /\ panel' = SettledReply([panel EXCEPT !.banner = "unreachable"], r)
  BY DEF GiveUp
<1> DEFINE new == IF r.at = "sent" THEN {[r EXCEPT !.awaited = FALSE]} ELSE {}
<1>2. new \in SUBSET TurnRequests /\ new \subseteq {[r EXCEPT !.awaited = FALSE]} /\ (new # {} => r.at = "sent")
  BY PanelRequestIs DEF TurnRequests
<1> HIDE DEF new
<1>3. panelRequests' = (panelRequests \ {r}) \cup new
  BY <1>1 DEF new
<1> QED BY <1>1, <1>2, <1>3, SettleKeeps DEF GiveUp

\* A poll that fails, and one that is denied.
LEMMA PollFails ==
    ASSUME PanelConstantsOK, PanelInv, panelBatch' = NoBatch, panel' \in PanelStates,
           Alike(Pause(panel), panel'), UNCHANGED <<panelDaemon, panelRequests, panelCursor, panelEnding, panelTyped>>
    PROVE  PanelStep
<1>1. Queued(panel)
  BY DEF PanelInv
<1>2. Holds(panel, Pause(panel))
  BY <1>1, PauseHolds
<1>3. Queued(panel') /\ Queue(panel') = Queue(panel) /\ Unsent(panel') \subseteq Unsent(panel)
  BY <1>2, AlikeHolds DEF Holds, Queue, Alike
<1>4. panelBatch' \in [upto : Nat, state : TurnStates]
  BY DEF NoBatch, TurnStates
<1>5. PanelKinds' /\ RequestsInv' /\ LogInv' /\ PumpInv'
  BY <1>4 DEF PanelInv, PanelKinds, RequestsInv, LogInv, PumpInv, panelDaemon
<1>6. PanelInv'
  BY <1>3, <1>5, QueueShrinks DEF panelDaemon
<1>7. SendsInOrder
  BY DEF SendsInOrder
<1> QED BY <1>3, <1>6, <1>7, StaysFor DEF PanelStep

LEMMA PollUnreachableKeeps == ASSUME PanelConstantsOK, PanelInv, PollUnreachable PROVE PanelStep
<1>1. Pause(panel) \in PanelStates
  BY PauseHolds DEF PanelInv, Holds, Queued
<1>2. panel' \in PanelStates /\ Alike(Pause(panel), panel')
  BY <1>1 DEF PollUnreachable, PanelStates, Alike
<1> QED BY <1>2, PollFails DEF PollUnreachable

LEMMA PollDeniedKeeps == ASSUME PanelConstantsOK, PanelInv, PollDenied PROVE PanelStep
<1>1. Pause(panel) \in PanelStates
  BY PauseHolds DEF PanelInv, Holds, Queued
<1>2. panel' \in PanelStates /\ Alike(Pause(panel), panel')
  BY <1>1 DEF PollDenied, PanelStates, TurnStates, Alike
<1> QED BY <1>2, PollFails DEF PollDenied

\* A batch of the poll: the events the panel has not folded yet.
LEMMA DeliveredIs ==
    ASSUME PanelInv, panelBatch # NoBatch
    PROVE  LET events == SubSeq(panelLog, panelCursor + 1, panelBatch.upto - 1)
           IN  /\ panelBatch.upto - 1 \in Nat /\ panelCursor <= panelBatch.upto - 1
               /\ panelBatch.upto - 1 <= Len(panelLog) /\ panelBatch.state \in TurnStates
               /\ events \in Seq(DurableEvents) /\ Len(events) = panelBatch.upto - 1 - panelCursor
               /\ \A i \in 1 .. Len(events) : events[i] = panelLog[panelCursor + i]
<1> DEFINE m == panelCursor
           n == panelBatch.upto - 1
<1>1. panelLog \in Seq(DurableEvents) /\ m \in Nat /\ panelBatch \in [upto : Nat, state : TurnStates]
  BY DEF PanelInv, PanelKinds
<1>2. n \in Nat /\ m <= n /\ n <= Len(panelLog)
  BY <1>1 DEF PanelInv, PumpInv
<1> HIDE DEF m, n
<1>3. SubSeq(panelLog, m + 1, n) \in Seq(DurableEvents)
  BY <1>1, <1>2, SubSeqProperties
<1>4. Len(SubSeq(panelLog, m + 1, n)) = n - m
  BY <1>1, <1>2
<1>5. \A i \in 1 .. n - m : SubSeq(panelLog, m + 1, n)[i] = panelLog[m + i]
  BY <1>1, <1>2
<1> QED BY <1>1, <1>2, <1>3, <1>4, <1>5 DEF m, n

LEMMA DeliverBatchKeeps == ASSUME PanelConstantsOK, PanelInv, DeliverBatch PROVE PanelStep
<1> DEFINE events == SubSeq(panelLog, panelCursor + 1, panelBatch.upto - 1)
           p == IF events = <<>> THEN panel ELSE Folded(panel, events)
           drains == Normal(events, p) /\ CanDrain(p)
           rejected == Reject([p EXCEPT !.banner = "other"], Head(p.items))
           q == IF ~drains THEN p ELSE IF panelEnding = "no" THEN Drained(p) ELSE rejected
           sent == TurnRequest(Head(p.items), TRUE)
<1>1. /\ panelBatch.upto - 1 \in Nat /\ panelCursor <= panelBatch.upto - 1
      /\ panelBatch.upto - 1 <= Len(panelLog) /\ panelBatch.state \in TurnStates
      /\ events \in Seq(DurableEvents) /\ Len(events) = panelBatch.upto - 1 - panelCursor
      /\ \A i \in 1 .. Len(events) : events[i] = panelLog[panelCursor + i]
  BY DeliveredIs DEF DeliverBatch
<1>2. /\ panelCursor' = panelBatch.upto - 1 /\ panelBatch' = NoBatch
      /\ UNCHANGED <<panelLog, panelTurn, panelEnding, panelTyped>>
  BY DEF DeliverBatch, panelDaemon
<1>3. PICK shown \in {q.banner, "other"} : panel' = TurnState(q, panelBatch.state, events = <<>>, shown)
  BY DEF DeliverBatch
<1>4. panelRequests' = IF drains /\ panelEnding = "no" THEN panelRequests \cup {sent} ELSE panelRequests
  BY DEF DeliverBatch
<1>5. Queued(panel)
  BY DEF PanelInv
<1>6. panelCursor \in Nat /\ panelLog \in Seq(DurableEvents) /\ panelEnding \in {"no", "close", "kill", "closed", "killed"}
      /\ panelTyped \in 0 .. MaxPrompts /\ panelTurn \in TurnStates
  BY DEF PanelInv, PanelKinds
<1> HIDE DEF events
<1>7. /\ Queued(p) /\ Queue(p) \subseteq Queue(panel) /\ Unsent(p) \subseteq Unsent(panel)
      /\ Queue(p) # Queue(panel) => Has(events, "user")
  BY <1>1, <1>5, FoldedIs
<1>8. drains => events # <<>> /\ events[Len(events)].kind = "completed"
  <2>1. Normal(events, p) => events # <<>>
    BY DEF Normal, Has
  <2> QED BY <1>1, <1>5, <2>1, FoldedIs DEF CanDrain
<1>9. Queue(panel) # Queue(p) => \E i \in panelCursor + 1 .. panelCursor' : panelLog[i].kind = "user"
  <2> SUFFICES ASSUME Has(events, "user")
               PROVE  \E i \in panelCursor + 1 .. panelCursor' : panelLog[i].kind = "user"
    BY <1>7
  <2>1. PICK i \in DOMAIN events : events[i].kind = "user"
    BY DEF Has
  <2>2. i \in 1 .. Len(events)
    BY <1>1, <2>1
  <2>3. panelCursor + i \in panelCursor + 1 .. panelCursor'
    BY <1>1, <1>2, <1>6, <2>2
  <2> QED BY <1>1, <2>1, <2>2, <2>3
<1> HIDE DEF p
<1>10. /\ Queued(q) /\ Queue(q) = Queue(p) /\ Unsent(q) \subseteq Unsent(p)
       /\ drains => Head(p.items) \in Unsent(p) /\ Head(p.items) \in PromptNo
       /\ drains /\ panelEnding = "no" => \A item \in Unsent(q) : Head(p.items) < item
  <2>1. CASE ~drains
    BY <1>7, <2>1
  <2>2. CASE drains
    <3>1. /\ Queued(Drained(p)) /\ Drained(p).items = p.items
          /\ Head(p.items) \in Unsent(p) /\ Head(p.items) \in PromptNo
          /\ \A item \in Unsent(Drained(p)) : item \in Unsent(p) /\ Head(p.items) < item
      BY <1>7, <2>2, DrainedIs
    <3>2. CASE panelEnding = "no"
      BY <2>2, <3>1, <3>2 DEF Queue
    <3>3. CASE panelEnding # "no"
      <4> DEFINE o == [p EXCEPT !.banner = "other"]
      <4>1. Beside(p, o)
        BY <1>7 DEF Queued, PanelStates, Beside, Alike
      <4> HIDE DEF o
      <4>2. Queued(o) /\ o.items = p.items /\ Unsent(o) = Unsent(p)
        BY <1>7, <4>1, BesideFollows
      <4>3. Holds(o, Reject(o, Head(p.items)))
        BY <4>2, RejectHolds
      <4>4. q = Reject(o, Head(p.items))
        BY <2>2, <3>3 DEF o
      <4> HIDE DEF q
      <4> QED BY <3>1, <3>3, <4>2, <4>3, <4>4 DEF Holds, Queue
    <3> QED BY <3>2, <3>3
  <2> QED BY <2>1, <2>2
<1>11. shown \in {"none", "unreachable", "other"}
  <2>1. q \in PanelStates
    BY <1>10 DEF Queued
  <2> HIDE DEF q
  <2> QED BY <1>3, <2>1 DEF PanelStates
<1> HIDE DEF q, drains
<1>12. Queued(panel') /\ Queue(panel') = Queue(p) /\ Unsent(panel') \subseteq Unsent(q)
  <2> DEFINE last == events = <<>>
  <2>1. last \in BOOLEAN
    OBVIOUS
  <2>2. panel' = TurnState(q, panelBatch.state, last, shown)
    BY <1>3
  <2> HIDE DEF last
  <2> QED BY <1>1, <1>10, <1>11, <2>1, <2>2, TurnStateFollows
<1>13. panelBatch' \in [upto : Nat, state : TurnStates]
  BY <1>2 DEF NoBatch, TurnStates
<1>14. LogInv' /\ PumpInv'
  BY <1>1, <1>2 DEF PanelInv, LogInv, PumpInv
<1>15. LeavesFor
  BY <1>9, <1>12 DEF LeavesFor
<1>16. CASE ~(drains /\ panelEnding = "no")
  <2>1. panelRequests' = panelRequests
    BY <1>4, <1>16
  <2>2. PanelKinds' /\ RequestsInv'
    BY <1>1, <1>2, <1>6, <1>13, <2>1 DEF PanelInv, PanelKinds, RequestsInv
  <2>3. PanelInv'
    BY <1>2, <1>7, <1>10, <1>12, <1>14, <2>1, <2>2, QueueShrinks
  <2> QED BY <1>15, <2>1, <2>3 DEF PanelStep, SendsInOrder
<1>17. CASE drains /\ panelEnding = "no"
  <2> DEFINE item == Head(p.items)
  <2>1. item \in PromptNo /\ item \in Unsent(panel)
    BY <1>7, <1>10, <1>17
  <2>2. sent \in TurnRequests /\ sent.item = item /\ sent.queued = TRUE
    BY <2>1 DEF TurnRequest, TurnRequests
  <2> HIDE DEF item, sent
  <2>3. panelRequests' = panelRequests \cup {sent}
    BY <1>4, <1>17
  <2>4. PanelKinds'
    BY <1>1, <1>2, <1>6, <1>13, <2>2, <2>3 DEF PanelInv, PanelKinds
  <2>5. item \notin Prompts(panelLog) /\ \A r \in panelRequests : r.item # item /\ (r.queued => r.item < item)
    BY <2>1 DEF PanelInv, UnsentInv
  <2>6. item <= panelTyped
    BY <2>1 DEF PanelInv, Unsent, Queue
  <2>7. RequestsInv'
    BY <1>2, <2>2, <2>3, <2>5, <2>6 DEF PanelInv, RequestsInv
  <2>8. \A x \in Unsent(panel') : x \in Unsent(panel) /\ item < x
    BY <1>7, <1>10, <1>12, <1>17 DEF item
  <2>9. \A x \in Unsent(panel') : x # item
    BY <2>1, <2>8, PromptIs
  <2>10. UnsentInv'
    BY <1>2, <2>2, <2>3, <2>8, <2>9 DEF PanelInv, UnsentInv
  <2>11. \A x \in Queue(panel') : x <= panelTyped'
    BY <1>2, <1>7, <1>12 DEF PanelInv
  <2>12. PanelInv'
    BY <1>12, <1>14, <2>4, <2>7, <2>10, <2>11 DEF PanelInv
  <2>13. panelLog[panelCursor'].kind = "completed"
    <3>1. Len(events) \in 1 .. Len(events) /\ panelCursor + Len(events) = panelCursor'
      BY <1>1, <1>2, <1>6, <1>8, <1>17
    <3> QED BY <1>1, <1>8, <1>17, <3>1
  <2>14. SendsInOrder
    BY <2>2, <2>3, <2>5, <2>13 DEF SendsInOrder
  <2> QED BY <1>15, <2>12, <2>14 DEF PanelStep
<1> QED BY <1>16, <1>17

LEMMA PanelInitInv == ASSUME PanelConstantsOK, PanelInit PROVE PanelInv
<1>1. panel \in PanelStates /\ panel.items = <<>> /\ ~panel.paused /\ panel.dispatching = NoPrompt
  <2>1. <<>> \in Seq(PromptNo)
    OBVIOUS
  <2> QED BY <2>1 DEF PanelInit, PanelStates, TurnStates
<1>2. DOMAIN panel.items = {} /\ Len(panel.items) = 0
  BY <1>1
<1>3. Queued(panel) /\ Queue(panel) = {} /\ Unsent(panel) = {}
  BY <1>1, <1>2 DEF Queued, Queue, Unsent, PanelConstantsOK
<1>4. PanelKinds
  BY DEF PanelInit, PanelKinds, TurnStates, NoBatch, PanelConstantsOK
<1>5. DOMAIN panelLog = {} /\ Len(panelLog) = 0
  BY DEF PanelInit
<1>6. UnsentInv /\ RequestsInv /\ LogInv /\ PumpInv
  <2>1. UnsentInv /\ RequestsInv
    BY <1>3 DEF PanelInit, UnsentInv, RequestsInv
  <2>2. LogInv
    BY <1>5 DEF LogInv
  <2>3. PumpInv
    BY <1>5 DEF PanelInit, PumpInv
  <2> QED BY <2>1, <2>2, <2>3
<1> QED BY <1>3, <1>4, <1>6 DEF PanelInv

LEMMA PanelStepKeeps ==
    ASSUME PanelConstantsOK, PanelInv, [PanelNext]_panelVars
    PROVE  PanelInv' /\ [KeepsFollowUps]_panelVars
<1>1. CASE UNCHANGED panelVars
  <2>1. /\ UNCHANGED <<panelLog, panelTurn, panelRequests, panelBatch, panelCursor, panel>>
        /\ UNCHANGED <<panelEnding, panelTyped>>
    BY <1>1 DEF panelVars, panelDaemon
  <2>2. PanelKinds' /\ UnsentInv' /\ RequestsInv' /\ LogInv' /\ PumpInv'
    BY <2>1 DEF PanelInv, PanelKinds, UnsentInv, RequestsInv, LogInv, PumpInv
  <2>3. Queued(panel') /\ \A item \in Queue(panel') : item <= panelTyped'
    BY <2>1 DEF PanelInv
  <2> QED BY <1>1, <2>2, <2>3 DEF PanelInv
<1>2. ASSUME PanelNext PROVE PanelStep
  BY <1>2, TypePromptKeeps, InterruptPanelKeeps, AskToEndKeeps, EndAnsweredKeeps, AcceptTurnKeeps,
     DenyTurnKeeps, OtherTurnKeeps, ApprovalTimesOutKeeps, FinishDaemonTurnKeeps, EndConversationKeeps,
     ReplyKeeps, GiveUpKeeps, PanelPollKeeps, DeliverBatchKeeps, PollUnreachableKeeps, PollDeniedKeeps
  DEF PanelNext
<1>3. CASE PanelNext
  BY <1>2, <1>3, KeptIs DEF PanelStep, PanelInv
<1> QED BY <1>1, <1>3

\* The queue, what is under way and the log agree, for any number of prompts, turns and troubles.
THEOREM PanelInvHolds == ASSUME PanelConstantsOK PROVE PanelSpec => []PanelInv
<1>1. PanelInit => PanelInv
  BY PanelInitInv
<1>2. PanelInv /\ [PanelNext]_panelVars => PanelInv'
  BY PanelStepKeeps
<1> QED BY <1>1, <1>2, PTL DEF PanelSpec

\* Type correctness of the panel.
THEOREM PanelTypeCorrect == ASSUME PanelConstantsOK PROVE PanelSpec => []PanelTypeOK
<1>1. PanelInv => PanelTypeOK
  <2> SUFFICES ASSUME PanelInv PROVE PanelTypeOK
    OBVIOUS
  <2>1. panel \in PanelStates /\ Queued(panel)
    BY DEF PanelInv, Queued
  <2>2. Range(panel.items) \subseteq PromptNo
    BY <2>1 DEF PanelStates, Range
  <2> QED BY <2>1, <2>2 DEF PanelInv, PanelKinds, PumpInv, Queued, PanelStates, TurnStates, PanelTypeOK
<1> QED BY <1>1, PanelInvHolds, PTL

\* A prompt reaches the daemon at most once, a follow-up is sent in its order and after a
\* completed turn only, and it leaves the queue only for a durable prompt or a closed
\* conversation, whatever is denied, lost, interrupted or asked by another client.
THEOREM FollowUpsKept == ASSUME PanelConstantsOK PROVE PanelSpec => FollowUpsAreKept
<1>1. PanelInv /\ [PanelNext]_panelVars => [KeepsFollowUps]_panelVars
  BY PanelStepKeeps
<1> QED BY <1>1, PanelInvHolds, PTL DEF PanelSpec, FollowUpsAreKept

=============================================================================
