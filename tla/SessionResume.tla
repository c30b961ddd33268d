--------------------------- MODULE SessionResume ---------------------------
(***************************************************************************)
(* How a driven conversation goes on after the run that carried it ended   *)
(* (supervisor.py, _resume_driven_conversation): each time it gets a new   *)
(* run, a leg.  Requests run on threads of their own and each leg has its  *)
(* worker; whoever ends a leg finalizes it in several steps.  The turns of *)
(* one leg, and their approvals, are in DrivenSession.                     *)
(***************************************************************************)
EXTENDS Naturals

CONSTANTS
    Handler,    \* bound: requests, each on a thread of its own
    NoThread,
    Claim,      \* ids of writer claims
    NoClaim,
    Other,      \* the claim of another conversation
    MaxLegs,    \* bound: legs of the conversation
    MaxCrashes  \* bound: deaths of the daemon

ConstantsOK ==
    /\ NoThread \notin Handler /\ {NoClaim, Other} \cap Claim = {} /\ NoClaim # Other /\ Claim # {}
    /\ MaxLegs \in Nat \ {0, 1} /\ MaxCrashes \in Nat /\ Handler \cap (1 .. MaxLegs) = {}

VARIABLES
    writes,     \* permission_mode is one of _SOURCE_WRITER_MODES
    legs,       \* runs of the conversation
    t8,         \* whether each is finalized
    owned,      \* whether each is in the ownership registry
    live,       \* _driven
    state,      \* DrivenSession.state of each
    token,      \* the writer claim bound to each
    adapter,    \* "none", "alive", "dead", or "stray": it outlived its daemon
    envelope,   \* state of the C1 row
    lock,       \* the conversation's resume lock
    holder, refused,    \* the lease: who holds it, recovery is required
    crashes,
    loc         \* locals of each thread

lease == <<holder, refused>>
records == <<legs, t8, owned, envelope>>
vars == <<writes, records, live, state, token, adapter, lock, lease, crashes, loc>>

Leg == 1 .. MaxLegs
Thread == Handler \cup Leg
IdleThread == [pc |-> "idle", leg |-> 0, claim |-> NoClaim, proven |-> TRUE, fatal |-> FALSE,
               was |-> FALSE, resumes |-> FALSE]

Over(t) == IF t \in Handler THEN [IdleThread EXCEPT !.pc = "over"] ELSE IdleThread

At(t, pc) == loc[t].pc = pc
Go(t, pc) == loc' = [loc EXCEPT ![t].pc = pc]
MyLeg(t) == loc[t].leg
\* Requests that have not begun are alike.
Arrives(h) == At(h, "idle") /\ h = CHOOSE g \in Handler : At(g, "idle")
Fresh == Claim \ ({holder} \cup {token[l] : l \in Leg} \cup {loc[t].claim : t \in Thread})

(***************************************************************************)
(* _release_claim: a foreign holder, a missing proof or a failed write     *)
(* leaves the lease refused.                                               *)
(***************************************************************************)
\* Mutant: a claim that cannot be proven idle is kept and nothing is said.
KeepSilently(c, proven) ==
    LET result(h, r, ok) == [holder |-> h, refused |-> r, ok |-> ok]
    IN  IF c = NoClaim \/ holder # c THEN {result(holder, refused, TRUE)}
        ELSE {result(holder, refused, FALSE)}
             \cup {result(NoClaim, FALSE, TRUE) : x \in {y \in {1} : proven /\ ~refused}}

Releases(c, proven) ==
    LET result(h, r, ok) == [holder |-> h, refused |-> r, ok |-> ok]
    IN  IF c = NoClaim \/ holder = NoClaim THEN {result(holder, refused, TRUE)}
        ELSE {result(holder, TRUE, FALSE)}
             \cup {result(NoClaim, FALSE, TRUE) : x \in {y \in {1} : holder = c /\ proven /\ ~refused}}

GivesBack(r) == holder' = r.holder /\ refused' = r.refused

\* _kill_adapter_proven; what is not proven dead counts as alive.
Kill(l, proven) ==
    /\ adapter' = IF proven THEN [adapter EXCEPT ![l] = "dead"] ELSE adapter
    /\ refused' = (refused \/ ~proven) /\ UNCHANGED holder

OtherConversation ==
    /\ ~refused
    /\ \/ holder = NoClaim /\ holder' = Other /\ UNCHANGED refused
       \/ holder = Other /\ holder' = NoClaim /\ UNCHANGED refused
       \/ holder = Other /\ refused' = TRUE /\ UNCHANGED holder
    /\ UNCHANGED <<writes, records, live, state, token, adapter, lock, crashes, loc>>

(***************************************************************************)
(* A turn request for a run that is not live.                              *)
(***************************************************************************)
Request(h, l) ==
    /\ Arrives(h) /\ l <= legs /\ l \notin live
    /\ loc' = [loc EXCEPT ![h] = [IdleThread EXCEPT !.pc = "lock", !.leg = l, !.resumes = TRUE]]
    /\ UNCHANGED <<writes, records, live, state, token, adapter, lock, lease, crashes>>

\* Mutant: two requests resume side by side.
TakesNothing(h) == UNCHANGED lock
Takes(h) == lock = NoThread /\ lock' = h

TakeLock(h) ==
    /\ At(h, "lock") /\ Takes(h)
    /\ Go(h, "check")
    /\ UNCHANGED <<writes, records, live, state, token, adapter, lease, crashes>>

Leave(h) ==
    /\ loc' = [loc EXCEPT ![h] = Over(h)]
    /\ lock' = IF lock = h THEN NoThread ELSE lock

\* Mutant: a finalized leg whose finalizer has not come to its end is resumed.
Finalized(l) == l = legs /\ t8[l]
Resumable(l) == l = legs /\ t8[l] /\ live = {}

\* The leg is not the latest, not ended or still live; or the engine is gated.
Refuse(h) ==
    /\ At(h, "check")
    /\ Leave(h)
    /\ UNCHANGED <<writes, records, live, state, token, adapter, lease, crashes>>

Check(h) ==
    /\ At(h, "check") /\ Resumable(MyLeg(h)) /\ legs < MaxLegs
    /\ loc' = [loc EXCEPT ![h].pc = IF writes THEN "acquire" ELSE "prepare", ![h].leg = legs + 1]
    /\ UNCHANGED <<writes, records, live, state, token, adapter, lock, lease, crashes>>

\* It is granted, refused, or its marker cannot be written.
Acquire(h) ==
    /\ At(h, "acquire")
    /\ \/ /\ Fresh # {} /\ holder = NoClaim /\ ~refused
          /\ holder' = CHOOSE c \in Fresh : TRUE
          /\ loc' = [loc EXCEPT ![h].claim = holder', ![h].pc = "prepare"]
          /\ UNCHANGED <<lock, refused>>
       \/ refused' \in {refused, TRUE} /\ UNCHANGED holder /\ Leave(h)
    /\ UNCHANGED <<writes, records, live, state, token, adapter, crashes>>

\* The artifacts, the prompt and its history; a vendor's program is opened
\* before any record, a local model after the records.
Prepare(h) ==
    /\ At(h, "prepare")
    /\ adapter' \in {adapter, [adapter EXCEPT ![MyLeg(h)] = "alive"]}
    /\ Go(h, "insert")
    /\ UNCHANGED <<writes, records, live, state, token, lock, lease, crashes>>

\* Denied before anything was opened.
Denied(h) ==
    /\ At(h, "prepare")
    /\ Go(h, "giveback")
    /\ refused' \in {refused, TRUE}
    /\ UNCHANGED <<writes, records, live, state, token, adapter, lock, holder, crashes>>

\* The handshake, the vendor's session, an attachment or the row of the run.
Unprepared(h) ==
    /\ At(h, "insert")
    /\ \E proven \in BOOLEAN :
          /\ IF adapter[MyLeg(h)] = "alive" THEN Kill(MyLeg(h), proven) ELSE proven /\ UNCHANGED <<adapter, lease>>
          /\ loc' = [loc EXCEPT ![h].pc = "giveback", ![h].proven = proven]
    /\ UNCHANGED <<writes, records, live, state, token, lock, crashes>>

GiveBack(h) ==
    /\ At(h, "giveback")
    /\ \E r \in Releases(loc[h].claim, loc[h].proven) : GivesBack(r)
    /\ Leave(h)
    /\ UNCHANGED <<writes, records, live, state, token, adapter, crashes>>

Insert(h) ==
    /\ At(h, "insert")
    /\ legs' = legs + 1
    /\ Go(h, "register")
    /\ UNCHANGED <<writes, t8, owned, envelope, live, state, token, adapter, lock, lease, crashes>>

\* promote, _record_ownership, the session and its bindings.
Register(h) ==
    /\ At(h, "register")
    /\ writes => holder = loc[h].claim /\ ~refused
    /\ owned' = [owned EXCEPT ![MyLeg(h)] = TRUE]
    /\ live' = live \cup {MyLeg(h)}
    /\ state' = [state EXCEPT ![MyLeg(h)] = "open"]
    /\ token' = [token EXCEPT ![MyLeg(h)] = loc[h].claim]
    /\ Go(h, "open")
    /\ UNCHANGED <<writes, legs, t8, envelope, adapter, lock, lease, crashes>>

\* An adapter that is not open yet; session_reopen.
Open(h) ==
    /\ At(h, "open")
    /\ adapter' = [adapter EXCEPT ![MyLeg(h)] = "alive"]
    /\ envelope' = "open"
    /\ Go(h, "launch")
    /\ UNCHANGED <<writes, legs, t8, owned, live, state, token, lock, lease, crashes>>

\* reserve_turn, verify, commit_turn and the start of the worker.
Launch(h) ==
    /\ At(h, "launch") /\ state[MyLeg(h)] = "open"
    /\ writes => holder = loc[h].claim /\ ~refused
    /\ state' = [state EXCEPT ![MyLeg(h)] = "running"]
    /\ loc' = [loc EXCEPT ![h].pc = "launched",
                 ![MyLeg(h)] = [IdleThread EXCEPT !.pc = "turn", !.leg = MyLeg(h)]]
    /\ UNCHANGED <<writes, records, live, token, adapter, lock, lease, crashes>>

Launched(h) ==
    /\ At(h, "launched")
    /\ IF state[MyLeg(h)] = "terminal"
       THEN Go(h, "undo") /\ UNCHANGED lock
       ELSE Leave(h)
    /\ UNCHANGED <<writes, records, live, state, token, adapter, lease, crashes>>

\* Any of these steps may fail; a lost claim refuses every later writer.
StartFails(h) ==
    /\ loc[h].pc \in {"register", "open", "launch"}
    /\ Go(h, "undo")
    /\ refused' \in {refused, TRUE}
    /\ UNCHANGED <<writes, records, live, state, token, adapter, lock, holder, crashes>>

Undo(h) ==
    /\ At(h, "undo")
    /\ \E proven \in BOOLEAN :
          /\ IF adapter[MyLeg(h)] = "none"
             THEN proven /\ UNCHANGED <<adapter, lease>>
             ELSE Kill(MyLeg(h), proven)
          /\ loc' = [loc EXCEPT ![h].pc = "t8", ![h].proven = proven, ![h].was = MyLeg(h) \in live]
    /\ UNCHANGED <<writes, records, live, state, token, lock, crashes>>

\* Whoever was not registered has nobody else to give its claim back.
Undone(h) ==
    /\ At(h, "undone")
    /\ IF loc[h].was
       THEN UNCHANGED lease
       ELSE \E r \in Releases(loc[h].claim, loc[h].proven) : GivesBack(r)
    /\ Leave(h)
    /\ UNCHANGED <<writes, records, live, state, token, adapter, crashes>>

(***************************************************************************)
(* session/close and session/kill of a live leg.                           *)
(***************************************************************************)
EndLeg(h, l) ==
    /\ Arrives(h) /\ l \in live
    /\ state' = [state EXCEPT ![l] = "terminal"]
    /\ loc' = [loc EXCEPT ![h] = [IdleThread EXCEPT !.pc = "kill", !.leg = l]]
    /\ UNCHANGED <<writes, records, live, token, adapter, lock, lease, crashes>>

\* The adapter is closed or killed, and the worker has come to its end in time
\* or not.
EndAdapter(h) ==
    /\ At(h, "kill")
    /\ \E proven \in BOOLEAN :
          /\ proven => At(MyLeg(h), "idle")
          /\ Kill(MyLeg(h), proven)
          /\ loc' = [loc EXCEPT ![h].pc = "t8", ![h].proven = proven]
    /\ UNCHANGED <<writes, records, live, state, token, lock, crashes>>

(***************************************************************************)
(* run_driven_turn, on the worker of leg l.                                *)
(***************************************************************************)
TurnEnds(l) ==
    /\ At(l, "turn")
    /\ \/ Go(l, "cleanup") /\ UNCHANGED <<adapter, lease>>
       \/ \E proven \in BOOLEAN :
             /\ Kill(l, proven)
             /\ loc' = [loc EXCEPT ![l].pc = "cleanup", ![l].fatal = TRUE, ![l].proven = proven]
    /\ UNCHANGED <<writes, records, live, state, token, lock, crashes>>

\* _writer_turn_finally gives the claim of the turn back.
Cleanup(l) ==
    /\ At(l, "cleanup")
    /\ \E reconciled \in BOOLEAN :
       \E r \in Releases(token[l], loc[l].proven /\ reconciled) :
          /\ GivesBack(r)
          /\ token' = IF r.ok THEN [token EXCEPT ![l] = NoClaim] ELSE token
          /\ LET good == ~loc[l].fatal /\ r.ok /\ reconciled /\ ~refused
             IN  /\ state' = IF good /\ state[l] = "running"
                             THEN [state EXCEPT ![l] = "idle"] ELSE [state EXCEPT ![l] = "terminal"]
                 /\ loc' = [loc EXCEPT ![l] = IF good THEN IdleThread
                       ELSE [loc[l] EXCEPT !.pc = IF loc[l].fatal THEN "t8" ELSE "kill"]]
    /\ UNCHANGED <<writes, records, live, adapter, lock, crashes>>

(***************************************************************************)
(* _finalize_driven.  The first T8 wins; one that cannot be written, and a *)
(* row of the conversation that cannot be closed, are only logged.         *)
(***************************************************************************)
Finalize(t) ==
    /\ At(t, "t8")
    /\ refused' = (refused \/ ~loc[t].proven)
    /\ state' = IF MyLeg(t) \in live THEN [state EXCEPT ![MyLeg(t)] = "terminal"] ELSE state
    /\ t8' \in {t8, [t8 EXCEPT ![MyLeg(t)] = TRUE]}
    /\ Go(t, "deregister")
    /\ UNCHANGED <<writes, legs, owned, envelope, live, token, adapter, lock, holder, crashes>>

Ended(t, l) == [l EXCEPT ![t] = IF l[t].resumes THEN [@ EXCEPT !.pc = "undone"] ELSE Over(t)]
Disown(t) == owned' = [owned EXCEPT ![MyLeg(t)] = FALSE] /\ loc' = Ended(t, loc)

\* The row of the conversation, the registry; then the claim and the owner.
Deregister(t) ==
    /\ At(t, "deregister")
    /\ envelope' \in {envelope, "ended"}
    /\ live' = live \ {MyLeg(t)}
    /\ IF MyLeg(t) \in live /\ token[MyLeg(t)] # NoClaim
       THEN Go(t, "release") /\ UNCHANGED owned
       ELSE Disown(t)
    /\ UNCHANGED <<writes, legs, t8, state, token, adapter, lock, lease, crashes>>

ReleaseToken(t) ==
    /\ At(t, "release")
    /\ \E reconciled \in BOOLEAN :
       \E r \in Releases(token[MyLeg(t)], loc[t].proven /\ reconciled) :
          /\ GivesBack(r)
          /\ token' = IF r.ok THEN [token EXCEPT ![MyLeg(t)] = NoClaim] ELSE token
    /\ Disown(t)
    /\ UNCHANGED <<writes, legs, t8, envelope, live, state, adapter, lock, crashes>>

(***************************************************************************)
(* The daemon dies; the next one sweeps what the registry says it owned.   *)
(***************************************************************************)
CrashAndBoot ==
    /\ crashes < MaxCrashes /\ crashes' = crashes + 1
    /\ live' = {} /\ lock' = NoThread
    /\ loc' = [t \in Thread |-> IF At(t, "idle") THEN IdleThread ELSE Over(t)]
    /\ token' = [l \in Leg |-> NoClaim]
    /\ adapter' = [l \in Leg |-> IF adapter[l] = "alive" THEN "stray" ELSE adapter[l]]
    /\ t8' = [l \in Leg |-> t8[l] \/ owned[l]]
    /\ owned' = [l \in Leg |-> FALSE]
    /\ holder' = NoClaim
    /\ refused' \in {refused, refused \/ holder # NoClaim}
    /\ UNCHANGED <<writes, legs, envelope, state>>

HandlerStep(h) ==
    \/ \E l \in Leg : Request(h, l) \/ EndLeg(h, l)
    \/ TakeLock(h) \/ Refuse(h) \/ Check(h) \/ Acquire(h) \/ Prepare(h) \/ Denied(h) \/ Unprepared(h)
    \/ GiveBack(h) \/ Insert(h) \/ Register(h) \/ Open(h) \/ Launch(h)
    \/ Launched(h) \/ StartFails(h) \/ Undo(h) \/ Undone(h)

Finalization(t) ==
    EndAdapter(t) \/ Finalize(t) \/ Deregister(t) \/ ReleaseToken(t)

----------------------------------------------------------------------------
\* The first leg runs its first turn, under a claim if it may write.
Init ==
    /\ writes \in BOOLEAN
    /\ legs = 1 /\ t8 = [l \in Leg |-> FALSE] /\ owned = [l \in Leg |-> l = 1]
    /\ live = {1} /\ state = [l \in Leg |-> IF l = 1 THEN "running" ELSE "none"]
    /\ adapter = [l \in Leg |-> IF l = 1 THEN "alive" ELSE "none"]
    /\ token = [l \in Leg |-> IF l = 1 /\ writes THEN CHOOSE c \in Claim : TRUE ELSE NoClaim]
    /\ envelope = "open" /\ lock = NoThread /\ holder = token[1] /\ refused = FALSE /\ crashes = 0
    /\ loc = [t \in Thread |-> IF t = 1 THEN [IdleThread EXCEPT !.pc = "turn", !.leg = 1] ELSE IdleThread]

Next ==
    \/ \E h \in Handler : HandlerStep(h)
    \/ \E l \in Leg : TurnEnds(l) \/ Cleanup(l)
    \/ \E t \in Thread : Finalization(t)
    \/ OtherConversation \/ CrashAndBoot

Spec == Init /\ [][Next]_vars

----------------------------------------------------------------------------
\* Every variable has the values the code can give it.
TypeOK ==
    /\ legs \in Leg /\ live \subseteq Leg /\ {refused, writes} \subseteq BOOLEAN
    /\ \A l \in Leg : /\ state[l] \in {"none", "open", "running", "idle", "terminal"}
                      /\ adapter[l] \in {"none", "alive", "dead", "stray"}
                      /\ token[l] \in Claim \cup {NoClaim}
    /\ envelope \in {"open", "ended"} /\ lock \in Handler \cup {NoThread}
    /\ holder \in Claim \cup {NoClaim, Other} /\ \A t \in Thread : MyLeg(t) \in 0 .. MaxLegs

\* However requests to go on, to close and to kill meet a fatal turn or a crash:
\* a conversation never forks, only its latest leg is not finalized and at most
\* one is live; an older leg's program runs beside the latest only if its end was
\* not proven, and then no writer works; a claim that still holds the workspace
\* has a live leg or a thread to give it back, or the lease says so.
NeverForks ==
    /\ \A l \in 1 .. legs - 1 : t8[l]
    /\ \A l, m \in live : l = m
    /\ \A l \in 1 .. legs - 1 : adapter[l] = "alive" => refused
    /\ holder \in Claim /\ ~refused =>
          \/ \E l \in live : token[l] = holder
          \/ \E t \in Thread : loc[t].claim = holder
          \/ \E t \in Thread : At(t, "release") /\ token[MyLeg(t)] = holder

=============================================================================
