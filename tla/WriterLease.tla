---------------------------- MODULE WriterLease ----------------------------
(***************************************************************************)
(* The single workspace-writer lease of the supervisor daemon:             *)
(* kaizen_components/orchestration/writer_lease.py with the ways the       *)
(* supervisor calls it.                                                    *)
(*                                                                         *)
(* The lease lives twice.  In memory (holder, reason, cleanup, journal) it *)
(* is authoritative while the daemon runs.  On disk (marker, one entry of  *)
(* owned_runs.json) it is the evidence the next daemon boots from.  Every  *)
(* operation holds the authority and lease locks from its first read to    *)
(* its last write, so each one is a single action; a registry write inside *)
(* it may succeed, raise without landing, or raise after landing.          *)
(*                                                                         *)
(* Threads call with claim ids they captured earlier, so every operation   *)
(* takes any claim ever minted.  Vendor children may outlive the daemon.   *)
(***************************************************************************)
EXTENDS Naturals, FiniteSets

CONSTANTS
    Child,       \* vendor and tool processes, by pid
    Spawner,     \* threads that run the wrapped vendor spawner
    Run,         \* agent runs a claim can be bound to
    NoRun,       \* a claim not bound to a run yet
    Path,        \* workspace files
    Data,        \* file contents
    Absent,      \* the content of a file that does not exist
    Torn,        \* a staged file whose bytes are not the journalled ones
    Journals,    \* apply journals the callers of set_apply_recovery submit
    MaxClaims,   \* bound on acquires
    MaxBoots,    \* bound on daemon starts
    MaxEdits     \* bound on file changes made outside the lease

ASSUME NoRunFresh   == NoRun \notin Run
ASSUME AbsentFresh  == Absent \notin Data
ASSUME TornFresh    == Torn \notin Data \cup {Absent}
ASSUME BoundsNat    == MaxClaims \in Nat /\ MaxBoots \in Nat /\ MaxEdits \in Nat

VARIABLES
    up,        \* the daemon has booted and serves requests
    boots,     \* daemon incarnations so far: the pid and nonce of the current one
    minted,    \* claims minted so far; claim ids are 1..minted
    holder,    \* _holder: the live claim
    reason,    \* _recovery_required and _recovery_reason in one
    cleanup,   \* _cleanup_paths
    journal,   \* _apply_recovery
    marker,    \* the durable writer marker
    spawn,     \* progress of each thread inside the wrapped spawner
    act,       \* the claim a child process works for, 0 when it does not
    file,      \* workspace files
    temp,      \* staged temporaries next to them
    edits      \* file changes made outside the lease so far

leaseVars == <<holder, reason, cleanup, journal>>
procVars  == <<spawn, act>>
diskVars  == <<file, temp, edits>>
vars == <<up, boots, minted, leaseVars, marker, procVars, diskVars>>

Content  == Data \cup {Absent}
Claims   == 1 .. MaxClaims

\* Each target has at most two temporaries: its new bytes and its backup.
Temp == Path \X {"new", "backup"}

\* One reason is a refusal that a restart may not undo ("other"); the two that
\* reconciliation accepts beside an apply journal keep their own name.
Reason == {"none", "uncleared", "cleanup", "other"}

NoHolder == [claim |-> 0, run |-> NoRun, pending |-> FALSE, kids |-> {}]

NoJournal == [phase  |-> "none", touch |-> {},
              base   |-> [p \in Path |-> Absent],
              final  |-> [p \in Path |-> Absent],
              staged |-> [t \in Temp |-> Absent]]

NoMarker == [holder |-> NoHolder, boot |-> 0, reason |-> "none",
             cleanup |-> {}, journal |-> NoJournal]

Journal == [phase : {"none", "staging", "mutating"}, touch : SUBSET Path,
            base : [Path -> Content], final : [Path -> Content],
            staged : [Temp -> Content]]

WriterClaim == [claim : 0 .. MaxClaims, run : Run \cup {NoRun},
                pending : BOOLEAN, kids : SUBSET Child]

ASSUME JournalsTyped == Journals \subseteq Journal

Marker == [holder : WriterClaim, boot : 0 .. MaxBoots, reason : Reason,
           cleanup : SUBSET Temp, journal : Journal]

IdleSpawn == [at |-> "idle", claim |-> 0, child |-> {}]

(***************************************************************************)
(* The marker written for a claim, and what is on disk after a registry    *)
(* write that was "ok", raised and was "lost", or raised but "landed".     *)
(***************************************************************************)
MarkerOf(h, r, c, j) ==
    [holder |-> h, boot |-> boots, reason |-> r, cleanup |-> c, journal |-> j]

WriteOutcome == {"ok", "lost", "landed"}

OnDisk(w, m) == IF w = "lost" THEN marker ELSE m

\* _durable_recovery_refusal: refuse in memory, then try to persist it for h.
DurableRefusal(h, r, w) ==
    /\ reason' = IF w = "ok" THEN r ELSE "other"
    /\ marker' = OnDisk(w, MarkerOf(h, r, cleanup, journal))

\* require_recovery: without a holder nothing is persisted.
RequireRecovery(r, paths, w) ==
    /\ cleanup' = cleanup \cup paths
    /\ reason' = IF holder.claim # 0 /\ w # "ok" THEN "other" ELSE r
    /\ marker' = IF holder.claim = 0 THEN marker
                 ELSE OnDisk(w, MarkerOf(holder, r, cleanup \cup paths, journal))

Poison == reason' = "other" /\ UNCHANGED marker

(***************************************************************************)
(* What the files say about a journal.                                     *)
(***************************************************************************)
AllBase(j)     == \A p \in j.touch : file[p] = j.base[p]
AllFinal(j)    == \A p \in j.touch : file[p] = j.final[p]
Staged(j)      == {t \in Temp : j.staged[t] # Absent}
StagedAbsent(j) == \A t \in Staged(j) : temp[t] = Absent
StagedExact(j) == \A t \in Staged(j) : temp[t] \in {Absent, j.staged[t]}

\* _apply_transition_allowed
TransitionAllowed(prev, next) ==
    \/ prev.phase = "none" /\ next.phase \in {"none", "staging"}
    \/ next.phase = "none"
    \/ /\ prev.phase # "none"
       /\ [next EXCEPT !.phase = prev.phase] = prev
       /\ \/ prev.phase = next.phase
          \/ prev.phase = "staging" /\ next.phase = "mutating"

\* Mutant: the staged files are not looked at.
ClearProvenTargetsOnly(prev) ==
    IF prev.phase = "staging" THEN AllBase(prev) ELSE AllFinal(prev)

\* _apply_clear_is_proven
ClearProven(prev) ==
    /\ IF prev.phase = "staging" THEN AllBase(prev) ELSE AllFinal(prev)
    /\ StagedAbsent(prev)

----------------------------------------------------------------------------
(***************************************************************************)
(* Operations of a running daemon.                                         *)
(***************************************************************************)
Held(c) == c # 0 /\ holder.claim = c
Known   == 1 .. minted

Acquire(r, w) ==
    /\ up /\ minted < MaxClaims
    /\ reason = "none" /\ holder.claim = 0
    /\ minted' = minted + 1
    /\ LET h == [claim |-> minted', run |-> r, pending |-> FALSE, kids |-> {}]
       IN  /\ marker' = OnDisk(w, MarkerOf(h, "none", {}, NoJournal))
           /\ holder' = IF w = "ok" THEN h ELSE NoHolder
    /\ reason' = IF w = "ok" THEN "none" ELSE "other"
    /\ cleanup' = {} /\ journal' = NoJournal
    /\ UNCHANGED <<up, boots, procVars, diskVars>>

\* Mutant: a registry write that raises does not close the lease.
RewriteForgiving(h, w) ==
    /\ marker' = OnDisk(w, MarkerOf(h, reason, cleanup, journal))
    /\ IF w = "ok" THEN holder' = h /\ UNCHANGED reason
                   ELSE UNCHANGED <<reason, holder>>

\* promote and begin_spawn rewrite the holder: durable first, then in memory.
Rewrite(h, w) ==
    /\ marker' = OnDisk(w, MarkerOf(h, reason, cleanup, journal))
    /\ IF w = "ok" THEN holder' = h /\ UNCHANGED reason
                   ELSE reason' = "other" /\ UNCHANGED holder

Promote(c, r, w) ==
    /\ up
    /\ IF Held(c) THEN Rewrite([holder EXCEPT !.run = r], w)
                  ELSE Poison /\ UNCHANGED holder
    /\ UNCHANGED <<up, boots, minted, cleanup, journal, procVars, diskVars>>

\* verify: a mismatch refuses every later writer.
Verify(c, r) ==
    /\ up /\ reason = "none"
    /\ ~(Held(c) /\ holder.run = r)
    /\ Poison
    /\ UNCHANGED <<up, boots, minted, holder, cleanup, journal, procVars, diskVars>>

\* Any of the supervisor's uncertain boundaries reports here: adapter
\* termination unproven, approval reconciliation failed, staged cleanup
\* unproven.  The last one is not reported while a journal is in flight.
ReportUncertain(r, paths, w) ==
    /\ up
    /\ \/ r = "other" /\ paths = {}
       \/ r = "cleanup" /\ journal.phase = "none"
    /\ RequireRecovery(r, paths, w)
    /\ UNCHANGED <<up, boots, minted, holder, journal, procVars, diskVars>>

\* Mutant: a journal write that raises is reported but not refused.
JournalWriteForgiving(j, w, w2) ==
    /\ marker' = OnDisk(w, MarkerOf(holder, "none", cleanup, j))
    /\ journal' = (IF w = "ok" THEN j ELSE journal)
    /\ w2 \in WriteOutcome /\ UNCHANGED reason

\* The first write persists the journal, a second one the refusal when the
\* first raised.
JournalWrite(j, w, w2) ==
    LET first   == OnDisk(w, MarkerOf(holder, "none", cleanup, j))
        refused == MarkerOf(holder, "other", cleanup, journal)
    IN  IF w = "ok"
        THEN journal' = j /\ marker' = first /\ UNCHANGED reason
        ELSE /\ reason' = "other" /\ UNCHANGED journal
             /\ marker' = IF w2 = "lost" THEN first ELSE refused

\* set_apply_recovery
SetApply(c, j, w, w2) ==
    /\ up /\ Held(c) /\ reason = "none"
    /\ LET allowed == /\ TransitionAllowed(journal, j)
                      /\ journal.phase # "none" /\ j.phase = "none"
                            => ClearProven(journal)
       IN  IF allowed
           THEN JournalWrite(j, w, w2)
           ELSE DurableRefusal(holder, "other", w2) /\ UNCHANGED journal
    /\ UNCHANGED <<up, boots, minted, holder, cleanup, procVars>>

SetApplyRecovery(c, j, w, w2) == SetApply(c, j, w, w2) /\ UNCHANGED diskVars

\* No process works for claim c and no thread is between begin_spawn and
\* track for it: what a caller proves before it passes termination_proven.
Quiet(c) == /\ \A ch \in Child : act[ch] # c
            /\ \A s \in Spawner : spawn[s].claim # c

Release(c, proven, w) ==
    /\ up /\ Held(c)
    /\ proven => Quiet(c)
    /\ \/ /\ journal.phase # "none"
          /\ DurableRefusal(holder, IF reason = "none" THEN "uncleared" ELSE reason, w)
          /\ UNCHANGED holder
       \/ /\ journal.phase = "none" /\ reason = "none" /\ ~proven
          /\ DurableRefusal(holder, "other", w)
          /\ UNCHANGED holder
       \/ /\ journal.phase = "none" /\ reason = "none" /\ proven
          /\ marker' = IF marker.holder.claim = c THEN OnDisk(w, NoMarker) ELSE marker
          /\ IF w = "ok" /\ marker.holder.claim = c
             THEN holder' = NoHolder /\ UNCHANGED reason
             ELSE reason' = "other" /\ UNCHANGED holder
    /\ UNCHANGED <<up, boots, minted, cleanup, journal, procVars, diskVars>>

\* The supervisor's _release_claim with a claim another one has replaced: the
\* lease refuses it and the wrapper then requires recovery of the new holder.
StaleReleaseClaim(c, w) ==
    /\ up /\ c \in Known
    /\ reason = "none" /\ holder.claim \notin {0, c}
    /\ RequireRecovery("other", {}, w)
    /\ UNCHANGED <<up, boots, minted, holder, journal, procVars, diskVars>>

(***************************************************************************)
(* The wrapped spawner: begin_spawn, the vendor spawn outside any lock,    *)
(* then track_spawned_child.                                               *)
(***************************************************************************)
BeginSpawn(s, c, w) ==
    /\ up /\ spawn[s].at = "idle"
    /\ IF Held(c) THEN Rewrite([holder EXCEPT !.pending = TRUE], w)
                  ELSE Poison /\ UNCHANGED holder
    /\ spawn' = IF Held(c) /\ w = "ok"
                THEN [spawn EXCEPT ![s] = [at |-> "begun", claim |-> c, child |-> {}]]
                ELSE spawn
    /\ UNCHANGED <<up, boots, minted, cleanup, journal, act, diskVars>>

VendorSpawn(s, ch) ==
    /\ spawn[s].at = "begun" /\ act[ch] = 0 /\ ch \notin holder.kids
    /\ \A t \in Spawner : ch \notin spawn[t].child
    /\ spawn' = [spawn EXCEPT ![s].at = "made", ![s].child = {ch}]
    /\ act' = [act EXCEPT ![ch] = spawn[s].claim]
    /\ UNCHANGED <<up, boots, minted, leaseVars, marker, diskVars>>

\* children.spawn_owned raised: the child may exist all the same.
SpawnRaised(s, ch, exists, w) ==
    /\ spawn[s].at = "begun" /\ act[ch] = 0
    /\ spawn' = [spawn EXCEPT ![s] = IdleSpawn]
    /\ act' = IF exists THEN [act EXCEPT ![ch] = spawn[s].claim] ELSE act
    /\ RequireRecovery("other", {}, w)
    /\ UNCHANGED <<up, boots, minted, holder, journal, diskVars>>

\* Mutants: the pids are stored as a nested list; the pid is not stored.
TrackedNested(h, kids)  == [h EXCEPT !.pending = FALSE, !.kids = @ \cup {kids}]
TrackedForgets(h, kids) == [h EXCEPT !.pending = FALSE]

Tracked(h, kids) == [h EXCEPT !.pending = FALSE, !.kids = @ \cup kids]

TrackChild(s, w) ==
    /\ spawn[s].at = "made"
    /\ Held(spawn[s].claim) /\ holder.pending
    /\ Rewrite(Tracked(holder, spawn[s].child), w)
    /\ spawn' = [spawn EXCEPT ![s] = IF w = "ok" THEN IdleSpawn ELSE [@ EXCEPT !.at = "failed"]]
    /\ UNCHANGED <<up, boots, minted, cleanup, journal, act, diskVars>>

\* Mutant: a child that cannot be matched is dropped.
TrackMismatchIgnored(s) ==
    /\ spawn[s].at = "made"
    /\ ~(Held(spawn[s].claim) /\ holder.pending)
    /\ spawn' = [spawn EXCEPT ![s] = IdleSpawn]
    /\ UNCHANGED <<up, boots, minted, leaseVars, marker, act, diskVars>>

TrackMismatch(s) ==
    /\ spawn[s].at = "made"
    /\ ~(Held(spawn[s].claim) /\ holder.pending)
    /\ Poison
    /\ spawn' = [spawn EXCEPT ![s].at = "failed"]
    /\ UNCHANGED <<up, boots, minted, holder, cleanup, journal, act, diskVars>>

\* The spawner's except branch: kill_tree is best effort, then require_recovery.
TrackFailed(s, killed, w) ==
    /\ spawn[s].at = "failed"
    /\ act' = IF killed THEN [ch \in Child |-> IF ch \in spawn[s].child THEN 0 ELSE act[ch]]
                        ELSE act
    /\ spawn' = [spawn EXCEPT ![s] = IdleSpawn]
    /\ RequireRecovery("other", {}, w)
    /\ UNCHANGED <<up, boots, minted, holder, journal, diskVars>>

\* _track_current_adapter_child: an idle persistent child is attached to the
\* claim before its next turn, under the same two operations.
AttachChild(s, ch) ==
    /\ spawn[s].at = "begun" /\ act[ch] = 0
    /\ \A t \in Spawner : ch \notin spawn[t].child
    /\ spawn' = [spawn EXCEPT ![s].at = "made", ![s].child = {ch}]
    /\ UNCHANGED <<up, boots, minted, leaseVars, marker, act, diskVars>>

\* A tracked child works during a turn whose claim was verified.
ChildWorks(ch) ==
    /\ up /\ reason = "none"
    /\ holder.claim # 0 /\ ch \in holder.kids /\ act[ch] = 0
    /\ act' = [act EXCEPT ![ch] = holder.claim]
    /\ UNCHANGED <<up, boots, minted, leaseVars, marker, spawn, diskVars>>

ChildStops(ch) ==
    /\ act[ch] # 0
    /\ act' = [act EXCEPT ![ch] = 0]
    /\ UNCHANGED <<up, boots, minted, leaseVars, marker, spawn, diskVars>>

----------------------------------------------------------------------------
(***************************************************************************)
(* Crash and boot.  Memory is lost; files, the marker and any child that   *)
(* the operating system did not reap stay.                                 *)
(***************************************************************************)
Crash ==
    /\ up
    /\ up' = FALSE
    /\ holder' = NoHolder /\ reason' = "none" /\ cleanup' = {} /\ journal' = NoJournal
    /\ spawn' = [s \in Spawner |-> IdleSpawn]
    /\ \E reaped \in SUBSET Child :
          act' = [ch \in Child |-> IF ch \in reaped THEN 0 ELSE act[ch]]
    /\ UNCHANGED <<boots, minted, marker, diskVars>>

NewDaemon ==
    /\ ~up /\ boots < MaxBoots
    /\ up' = TRUE /\ boots' = boots + 1
    /\ holder' = NoHolder
    /\ UNCHANGED <<minted, procVars, edits, file>>

\* Mutants: a pending spawn, or a recorded pid, does not block a boot.
OwnersGoneDespiteSpawn(ownerSeen, seen) == ~ownerSeen /\ marker.holder.kids \cap seen = {}
OwnersGoneDespitePids(ownerSeen, seen)  == ~ownerSeen /\ ~marker.holder.pending /\ seen = seen

\* Every check that precedes looking at the journal passes.  seen is the set of
\* recorded pids that answer as alive: all that work, and any reused pid.
OwnersGone(ownerSeen, seen) ==
    ~ownerSeen /\ ~marker.holder.pending /\ marker.holder.kids \cap seen = {}

Refused(r) == reason' = r /\ UNCHANGED <<marker, temp>>
Adopted    == cleanup' = marker.cleanup /\ journal' = marker.journal
Forgotten  == cleanup' = {} /\ journal' = NoJournal

\* No marker: nothing to reconcile.  approvals: the approval orphans committed.
BootFree(approvals) ==
    /\ NewDaemon
    /\ marker = NoMarker
    /\ Forgotten /\ Refused(IF approvals THEN "none" ELSE "other")

\* The registry is unreadable, or a recorded process may still be alive.
BootBlocked(readable, ownerSeen, seen) ==
    /\ NewDaemon
    /\ \/ ~readable
       \/ marker # NoMarker /\ ~OwnersGone(ownerSeen, seen)
    /\ Forgotten /\ Refused("other")

\* Mutants: the recovery reason, or the files, are not looked at.
JournalUsableAnyReason ==
    /\ marker.cleanup \subseteq Staged(marker.journal)
    /\ AllBase(marker.journal) \/ AllFinal(marker.journal)
    /\ StagedExact(marker.journal)

JournalUsableMixed ==
    /\ marker.cleanup \subseteq Staged(marker.journal)
    /\ marker.reason # "other"
    /\ StagedExact(marker.journal)

ClearableAnyReason ==
    marker.journal.phase = "none" => marker.cleanup = {}

\* Evidence this boot may not clear: it is loaded and the refusal is kept.
JournalUsable ==
    /\ marker.cleanup \subseteq Staged(marker.journal)
    /\ marker.reason # "other"
    /\ AllBase(marker.journal) \/ AllFinal(marker.journal)
    /\ StagedExact(marker.journal)

Clearable == IF marker.journal.phase = "none"
             THEN marker.reason = "none" /\ marker.cleanup = {}
             ELSE JournalUsable

BootRefuses(approvals, seen) ==
    /\ NewDaemon
    /\ marker # NoMarker /\ OwnersGone(FALSE, seen)
    /\ ~approvals \/ ~Clearable
    /\ Adopted
    /\ LET unrelated == \/ marker.journal.phase = "none"
                        \/ ~(marker.cleanup \subseteq Staged(marker.journal))
       IN  Refused(IF approvals /\ unrelated /\ marker.reason # "none"
                   THEN marker.reason ELSE "other")

\* Staged files go one by one, then the marker.  The daemon may die, or a step
\* may raise, after any of them.
BootClears(seen, gone, w) ==
    /\ NewDaemon
    /\ marker # NoMarker /\ OwnersGone(FALSE, seen) /\ Clearable
    /\ gone \subseteq Staged(marker.journal)
    /\ temp' = [t \in Temp |-> IF t \in gone THEN Absent ELSE temp[t]]
    /\ IF \A t \in Staged(marker.journal) \ gone : temp[t] = Absent
       THEN /\ marker' = OnDisk(w, NoMarker)
            /\ IF w = "ok" THEN reason' = "none" /\ Forgotten
                           ELSE reason' = "other" /\ Adopted
       ELSE reason' = "other" /\ Adopted /\ UNCHANGED marker

----------------------------------------------------------------------------
(***************************************************************************)
(* Files change outside the lease: the apply executor (modelled step by    *)
(* step in ProposalApply), vendor tools, the user's editor.                *)
(***************************************************************************)
FileChanges ==
    /\ edits < MaxEdits /\ edits' = edits + 1
    /\ \/ /\ \E p \in Path, d \in Content : d # file[p] /\ file' = [file EXCEPT ![p] = d]
          /\ UNCHANGED temp
       \/ /\ \E t \in Temp, d \in Content \cup {Torn} :
                d # temp[t] /\ temp' = [temp EXCEPT ![t] = d]
          /\ UNCHANGED file
    /\ UNCHANGED <<up, boots, minted, leaseVars, marker, procVars>>

Init ==
    /\ up = FALSE /\ boots = 0 /\ minted = 0
    /\ holder = NoHolder /\ reason = "none" /\ cleanup = {} /\ journal = NoJournal
    /\ marker = NoMarker
    /\ spawn = [s \in Spawner |-> IdleSpawn]
    /\ act = [ch \in Child |-> 0]
    /\ file \in [Path -> Content]
    /\ temp = [t \in Temp |-> Absent]
    /\ edits = 0

Claim == \E w \in WriteOutcome :
    \/ \E r \in Run \cup {NoRun} : Acquire(r, w)
    \/ \E c \in Known, r \in Run : Promote(c, r, w)
    \/ \E c \in Known, proven \in BOOLEAN : Release(c, proven, w)
    \/ \E c \in Known : StaleReleaseClaim(c, w)

Refuse ==
    \/ \E c \in Known, r \in Run : Verify(c, r)
    \/ \E w \in WriteOutcome, r \in Reason, paths \in SUBSET Temp : ReportUncertain(r, paths, w)

Spawning == \E s \in Spawner :
    \/ \E c \in Known, w \in WriteOutcome : BeginSpawn(s, c, w)
    \/ \E ch \in Child : VendorSpawn(s, ch) \/ AttachChild(s, ch)
    \/ \E ch \in Child, exists \in BOOLEAN, w \in WriteOutcome : SpawnRaised(s, ch, exists, w)
    \/ \E w \in WriteOutcome : TrackChild(s, w)
    \/ TrackMismatch(s)
    \/ \E killed \in BOOLEAN, w \in WriteOutcome : TrackFailed(s, killed, w)

Children == \E ch \in Child : ChildWorks(ch) \/ ChildStops(ch)

\* seen ranges over what pid_alive may answer: never that a working child is dead.
Working == {ch \in Child : act[ch] # 0}
Answers == {seen \in SUBSET Child : Working \subseteq seen}

Boot ==
    \/ \E approvals \in BOOLEAN : BootFree(approvals)
    \/ \E readable, ownerSeen \in BOOLEAN, seen \in Answers : BootBlocked(readable, ownerSeen, seen)
    \/ \E approvals \in BOOLEAN, seen \in Answers : BootRefuses(approvals, seen)
    \/ \E seen \in Answers, gone \in SUBSET Temp, w \in WriteOutcome : BootClears(seen, gone, w)

Journalling == \E c \in Known, j \in Journals \cup {NoJournal}, w, w2 \in WriteOutcome :
                  SetApplyRecovery(c, j, w, w2)

Next == Claim \/ Refuse \/ Journalling \/ Spawning \/ Children \/ Crash \/ Boot \/ FileChanges

Spec == Init /\ [][Next]_vars

----------------------------------------------------------------------------
(***************************************************************************)
(* Properties.                                                             *)
(***************************************************************************)

\* Every variable keeps its type: the lease's memory, the durable marker, the
\* spawner threads, the children and the files.
TypeOK ==
    /\ up \in BOOLEAN /\ boots \in 0 .. MaxBoots /\ minted \in 0 .. MaxClaims
    /\ holder \in WriterClaim /\ reason \in Reason
    /\ cleanup \in SUBSET Temp /\ journal \in Journal
    /\ marker \in Marker
    /\ spawn \in [Spawner -> [at : {"idle", "begun", "made", "failed"},
                              claim : 0 .. MaxClaims, child : SUBSET Child]]
    /\ act \in [Child -> 0 .. MaxClaims]
    /\ file \in [Path -> Content] /\ temp \in [Temp -> Content \cup {Torn}]
    /\ edits \in 0 .. MaxEdits

\* A marker no boot may clear whatever the processes answer.
Sticky(m) == \/ m.reason = "other"
             \/ m.reason # "none" /\ m.journal.phase = "none"

\* While the lease would grant a claim, nobody works in the workspace and the
\* registry holds no evidence of an earlier writer, however many crashes, lost
\* registry writes and half-finished spawns came before (acquire, release,
\* begin_spawn/track_spawned_child and reconcile_after_orphan_sweep together).
GrantIsSafe ==
    up /\ reason = "none" /\ holder.claim = 0 => marker = NoMarker /\ Working = {}

\* All processes that work in the workspace work for one claim, and when the
\* daemon has a holder it is that one: one writer, across restarts.
NoTwoWriters ==
    /\ \A ch, k \in Working : act[ch] = act[k]
    /\ \A ch \in Working : holder.claim # 0 => act[ch] = holder.claim

\* Whatever is working can be found from disk alone: the marker carries its
\* claim and either names its pid, says a spawn is pending, or refuses for good.
WorkIsRecorded ==
    \A ch \in Working :
        /\ marker.holder.claim = act[ch]
        /\ marker.holder.pending \/ ch \in marker.holder.kids \/ Sticky(marker)

\* Even when two spawns overlap, the daemon knows every process that works for
\* its live claim: it is tracked, a spawner thread still carries it, or the
\* lease refuses (begin_spawn, track_spawned_child and the spawner's except
\* branches).
LiveChildIsKnown ==
    \A ch \in Working :
        act[ch] = holder.claim =>
            \/ ch \in holder.kids \/ reason # "none"
            \/ \E s \in Spawner : ch \in spawn[s].child

\* The marker is the in-memory claim as long as nothing has been refused.
MemoryIsDurable ==
    holder.claim # 0 /\ reason = "none" => marker = MarkerOf(holder, "none", cleanup, journal)

\* A durable refusal that reconciliation has no proof for outlives every
\* operation, crash and restart.
RefusalIsSticky == [][Sticky(marker) => Sticky(marker')]_vars

\* A durable apply journal disappears only over files that are wholly at their
\* base or wholly final with every staged file gone, unless a standing refusal
\* takes its place.
JournalErasedWhole ==
    [][marker.journal.phase # "none" /\ marker'.journal.phase = "none"
          => \/ Sticky(marker')
             \/ /\ AllBase(marker.journal) \/ AllFinal(marker.journal)
                /\ \A t \in Staged(marker.journal) : temp'[t] = Absent]_vars

\* The registry is emptied only when the claim it names has no working process.
ClearedOnlyWhenQuiet ==
    [][marker # NoMarker /\ marker' = NoMarker
          => \A ch \in Child : act[ch] # marker.holder.claim]_vars

----------------------------------------------------------------------------
(***************************************************************************)
(* Inductive strengthenings (proved in WriterLeaseProofs).                 *)
(***************************************************************************)
StickyMemory == reason = "other" \/ (reason # "none" /\ journal.phase = "none")

\* Between the daemon's memory and the disk.
DownIsEmpty ==
    ~up => /\ holder = NoHolder /\ reason = "none" /\ cleanup = {} /\ journal = NoJournal
           /\ \A s \in Spawner : spawn[s] = IdleSpawn

FreeMeansClear == up /\ reason = "none" /\ holder.claim = 0 => marker = NoMarker

RefusalIsKnown == holder.claim # 0 /\ Sticky(marker) => StickyMemory

DurableInv == DownIsEmpty /\ MemoryIsDurable /\ FreeMeansClear /\ RefusalIsKnown

\* Between the processes and the two copies of the claim.
SpawnHasClaim ==
    \A s \in Spawner :
        /\ spawn[s].at = "idle" => spawn[s] = IdleSpawn
        /\ spawn[s].at # "idle" => Held(spawn[s].claim) /\ holder.pending
        /\ spawn[s].at = "begun" => /\ spawn[s].child = {}
                                    /\ marker.holder.claim = holder.claim
                                    /\ marker.holder.pending

WorkIsKnown ==
    \A ch \in Working :
        holder.claim # 0 =>
            /\ act[ch] = holder.claim
            /\ \/ ch \in holder.kids \/ StickyMemory
               \/ \E s \in Spawner : ch \in spawn[s].child

ChildInv == SpawnHasClaim /\ WorkIsRecorded /\ WorkIsKnown

\* The registry is empty or names a claim.
MarkerIsOwned == marker = NoMarker \/ marker.holder.claim # 0

\* With any number of threads in the spawner: who carries a child, and no claim that was
\* not minted.
KnownInv ==
    /\ \A s \in Spawner : /\ spawn[s].at = "idle" => spawn[s] = IdleSpawn
                          /\ spawn[s].at = "begun" => spawn[s].child = {}
                          /\ spawn[s].claim <= minted
    /\ holder.claim <= minted /\ \A ch \in Child : act[ch] <= minted
    /\ LiveChildIsKnown
============================================================================
