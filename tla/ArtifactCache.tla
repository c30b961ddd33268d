--------------------------- MODULE ArtifactCache ---------------------------
(***************************************************************************)
(* The cache of images and context snapshots that prompts refer to         *)
(* (orchestration/artifact_cache.py, session_artifacts.py, the request     *)
(* path of supervisor.py, and the editor's artifactStore.ts).              *)
(*                                                                         *)
(* An object is a file named by its digest, with a sidecar of metadata     *)
(* beside it.  The daemon works on them under one lock; the editor is      *)
(* another process and works on the same files without it.  A turn checks  *)
(* what it refers to, stores the files it brings as context in one batch   *)
(* that is undone when a write fails, and notes its conversation on the    *)
(* images.  At boot the daemon removes what nobody can need any more.      *)
(***************************************************************************)
EXTENDS Naturals, FiniteSets, Sequences, SequencesExt, FiniteSetsExt

CONSTANTS
    CacheImage, CacheContext,       \* digests of images and of context snapshots
    CacheSession, NoCacheSession,   \* conversations
    OrphanRetention, LongRetention, \* retention without and after a reference
    MaxCacheTime,                   \* bound of the clock
    MaxCacheFaults                  \* bound of writes that fail and of crashes

CacheObject == CacheImage \cup CacheContext

CacheConstantsOK ==
    /\ IsFiniteSet(CacheObject) /\ CacheImage \cap CacheContext = {}
    /\ IsFiniteSet(CacheSession) /\ NoCacheSession \notin CacheSession
    /\ {OrphanRetention, LongRetention, MaxCacheTime, MaxCacheFaults} \subseteq Nat

VARIABLES
    there,          \* the objects whose file exists
    sidecar,        \* the metadata of each object
    cacheClock,
    rows,           \* the conversations that have a record, for as long as they may go on
    daemonUp,       \* whether the daemon serves, boots, or is down
    cacheJob,       \* what the thread that holds the lock is doing
    request,        \* where the request of each conversation is
    leaseRefuses,   \* whether the writer lease refuses because of an undo that failed
    staging,        \* where the editor's staging is
    cacheFaults,
    noted           \* history: the images of each conversation's accepted prompts

cacheVars == <<there, sidecar, cacheClock, rows, daemonUp, cacheJob, request, leaseRefuses,
               staging, cacheFaults, noted>>
objects == <<there, sidecar>>

Never  == MaxCacheTime + 1
Time   == 0 .. MaxCacheTime
Origin == {"file", "host"}
NoMeta == [created |-> Never, origin |-> "none", sessions |-> {}, gone |-> Never]
Meta   == [created : Time, origin : Origin, sessions : SUBSET CacheSession, gone : Time \cup {Never}]

\* The thread that holds the lock: what it does, for whom, what is left, the sidecar it
\* has read, the leaves as it found them, those still to restore, and what the editor
\* wrote meanwhile.
Free   == [op |-> "free", by |-> NoCacheSession, todo |-> << >>, read |-> NoMeta, leaves |-> << >>,
           undo |-> << >>, proven |-> TRUE, touched |-> {}]
Idle   == [pc |-> "idle", images |-> {}, files |-> {}]
NoHost == [pc |-> "idle", object |-> CHOOSE o \in CacheObject : TRUE, read |-> NoMeta]

\* What an undo restores: an object's file and sidecar as they were.
Leaf(o) == [object |-> o, there |-> o \in there, meta |-> sidecar[o]]

CacheTypeOK ==
    /\ there \subseteq CacheObject /\ sidecar \in [CacheObject -> Meta \cup {NoMeta}]
    /\ cacheClock \in Time /\ rows \subseteq CacheSession
    /\ daemonUp \in {"down", "boots", "serves"}
    /\ cacheJob.op \in {"free", "put", "read", "write", "undo", "note", "unnote", "sweep", "unlink"}
    /\ cacheJob.touched \subseteq CacheObject
    /\ \A s \in CacheSession : request[s].pc \in {"idle", "checked", "stored"}
    /\ leaseRefuses \in BOOLEAN
    /\ staging.pc \in {"idle", "put", "read", "write"}
    /\ cacheFaults \in 0 .. MaxCacheFaults
    /\ noted \in [CacheSession -> SUBSET CacheImage]

CacheInit ==
    /\ there = {} /\ sidecar = [o \in CacheObject |-> NoMeta]
    /\ cacheClock = 0 /\ rows = CacheSession /\ daemonUp = "down"
    /\ cacheJob = Free /\ request = [s \in CacheSession |-> Idle] /\ leaseRefuses = FALSE
    /\ staging = NoHost /\ cacheFaults = 0
    /\ noted = [s \in CacheSession |-> {}]

\* Retention is counted in days: no job and no staging lasts that long.
Tick ==
    /\ cacheJob = Free /\ staging = NoHost
    /\ cacheClock < MaxCacheTime /\ cacheClock' = cacheClock + 1
    /\ UNCHANGED <<objects, rows, daemonUp, cacheJob, request, leaseRefuses, staging, cacheFaults, noted>>

\* A conversation's record is removed.
Forget(s) ==
    /\ s \in rows /\ request[s] = Idle /\ rows' = rows \ {s}
    /\ UNCHANGED <<objects, cacheClock, daemonUp, cacheJob, request, leaseRefuses, staging, cacheFaults, noted>>

Fails == cacheFaults < MaxCacheFaults /\ cacheFaults' = cacheFaults + 1
Works == UNCHANGED cacheFaults

-----------------------------------------------------------------------------
(* The request of a turn *)

\* The images must be there with a sidecar (and a selection be known as one, which
\* changes nothing here).
Staged(o) == o \in there /\ sidecar[o] # NoMeta

Materialize(s) ==
    /\ daemonUp = "serves" /\ cacheJob = Free /\ s \in rows /\ request[s] = Idle /\ ~leaseRefuses
    /\ \E images \in SUBSET CacheImage, files \in SUBSET CacheContext :
        /\ images \cup files # {}
        /\ \A o \in images : Staged(o)
        /\ request' = [request EXCEPT ![s] = [pc |-> "checked", images |-> images, files |-> files]]
    /\ UNCHANGED <<objects, cacheClock, rows, daemonUp, cacheJob, leaseRefuses, staging, cacheFaults, noted>>

Begin(op, s, order) ==
    cacheJob' = [Free EXCEPT !.op = op, !.by = s, !.todo = order,
                        !.leaves = [i \in DOMAIN order |-> Leaf(order[i])],
                        !.undo   = [i \in DOMAIN order |-> Leaf(order[i])]]

\* store_many takes the lock and remembers both leaves of every entry.
BeginBatch(s) ==
    /\ daemonUp = "serves" /\ cacheJob = Free /\ request[s].pc = "checked"
    /\ IF request[s].files = {}
       THEN request' = [request EXCEPT ![s].pc = "stored"] /\ UNCHANGED cacheJob
       ELSE /\ \E order \in SetToSeqs(request[s].files) : Begin("put", s, order)
            /\ UNCHANGED request
    /\ UNCHANGED <<objects, cacheClock, rows, daemonUp, leaseRefuses, staging, cacheFaults, noted>>

\* store: the object first, unless it is there; then the sidecar is read, merged with
\* the origin, and written.
Put ==
    /\ cacheJob.op = "put"
    /\ LET o == Head(cacheJob.todo) IN
       \/ /\ Works
          /\ cacheJob' = [cacheJob EXCEPT !.op = "read"]
          /\ there' = there \cup {o}
       \/ /\ Fails
          /\ o \notin there
          /\ cacheJob' = [cacheJob EXCEPT !.op = "undo"]
          /\ UNCHANGED there
    /\ UNCHANGED <<sidecar, cacheClock, rows, daemonUp, request, leaseRefuses, staging, noted>>

ReadSidecar ==
    /\ cacheJob.op = "read"
    /\ cacheJob' = [cacheJob EXCEPT !.op = "write", !.read = sidecar[Head(cacheJob.todo)]]
    /\ UNCHANGED <<objects, cacheClock, rows, daemonUp, request, leaseRefuses, staging, cacheFaults, noted>>

Merged(old, origin) ==
    [old EXCEPT !.created = IF @ = Never THEN cacheClock ELSE @,
                !.origin  = IF @ = "none" THEN origin ELSE @]

WriteSidecar ==
    /\ cacheJob.op = "write"
    /\ LET o == Head(cacheJob.todo) IN
       \/ /\ Works
          /\ sidecar' = [sidecar EXCEPT ![o] = Merged(cacheJob.read, "file")]
          /\ IF Len(cacheJob.todo) = 1
             THEN cacheJob' = Free /\ request' = [request EXCEPT ![cacheJob.by].pc = "stored"]
             ELSE cacheJob' = [cacheJob EXCEPT !.op = "put", !.todo = Tail(@)] /\ UNCHANGED request
       \/ /\ Fails
          /\ cacheJob' = [cacheJob EXCEPT !.op = "undo"]
          /\ UNCHANGED <<sidecar, request>>
    /\ UNCHANGED <<there, cacheClock, rows, daemonUp, leaseRefuses, staging, noted>>

\* The leaves are restored in the opposite order; a leaf that cannot be restored does
\* not stop the others, and makes the lease refuse until the daemon is started anew.
RefuseRequest(s, proven) ==
    /\ cacheJob' = Free
    /\ request' = [request EXCEPT ![s] = Idle]
    /\ leaseRefuses' = (leaseRefuses \/ ~proven)
RestoreFile(leaf) ==
    there' = IF leaf.there THEN there \cup {leaf.object} ELSE there \ {leaf.object}
RestoreSidecar(leaf) == sidecar' = [sidecar EXCEPT ![leaf.object] = leaf.meta]
LeafUndone(proven) ==
    IF Len(cacheJob.undo) = 1 THEN RefuseRequest(cacheJob.by, proven)
    ELSE cacheJob' = [cacheJob EXCEPT !.undo = Front(@), !.proven = proven] /\ UNCHANGED <<request, leaseRefuses>>
UndoLeaf ==
    /\ cacheJob.op = "undo"
    /\ LET leaf == Last(cacheJob.undo) IN
       \/ Works /\ RestoreFile(leaf) /\ RestoreSidecar(leaf) /\ LeafUndone(cacheJob.proven)
       \/ Fails /\ RestoreFile(leaf) /\ UNCHANGED sidecar /\ LeafUndone(FALSE)
       \/ Fails /\ UNCHANGED <<there>> /\ RestoreSidecar(leaf) /\ LeafUndone(FALSE)
    /\ UNCHANGED <<cacheClock, rows, daemonUp, staging, noted>>

\* The bytes are read once more for the adapter and the turn is committed; then
\* add_image_reference reads every sidecar before it writes the first, and the prompt
\* is recorded after the last.
BeginNote(s) ==
    /\ daemonUp = "serves" /\ cacheJob = Free /\ request[s].pc = "stored"
    /\ IF request[s].images = {} \/ \E o \in request[s].images : ~Staged(o)
       THEN request' = [request EXCEPT ![s] = Idle] /\ UNCHANGED cacheJob
       ELSE /\ \E order \in SetToSeqs(request[s].images) : Begin("note", s, order)
            /\ UNCHANGED request
    /\ UNCHANGED <<objects, cacheClock, rows, daemonUp, leaseRefuses, staging, cacheFaults, noted>>

WithSession(leaf, s) == [leaf.meta EXCEPT !.sessions = @ \cup {s}]
LeafOf(o) == CHOOSE leaf \in {cacheJob.leaves[i] : i \in DOMAIN cacheJob.leaves} : leaf.object = o

NoteImage ==
    /\ cacheJob.op = "note"
    /\ LET o == Head(cacheJob.todo) s == cacheJob.by IN
       \/ /\ Works
          /\ sidecar' = [sidecar EXCEPT ![o] = WithSession(LeafOf(o), s)]
          /\ IF Len(cacheJob.todo) = 1
             THEN /\ cacheJob' = Free
                  /\ noted' = [noted EXCEPT ![s] = @ \cup request[s].images]
                  /\ request' = [request EXCEPT ![s] = Idle]
             ELSE cacheJob' = [cacheJob EXCEPT !.todo = Tail(@)] /\ UNCHANGED <<noted, request>>
       \/ /\ Fails
          /\ cacheJob' = [cacheJob EXCEPT !.op = "unnote"]
          /\ UNCHANGED <<sidecar, noted, request>>
    /\ UNCHANGED <<there, cacheClock, rows, daemonUp, leaseRefuses, staging>>

UnnoteImage ==
    /\ cacheJob.op = "unnote"
    /\ \/ Works /\ RestoreSidecar(Last(cacheJob.undo)) /\ LeafUndone(cacheJob.proven)
       \/ Fails /\ UNCHANGED sidecar /\ LeafUndone(FALSE)
    /\ UNCHANGED <<there, cacheClock, rows, daemonUp, staging, noted>>

-----------------------------------------------------------------------------
(* The daemon's boot, with the cleanup, and its end *)

\* The cleanup runs at most once a day; here it may run at any boot, and when its own
\* state cannot be read it does not.
Boot ==
    /\ daemonUp = "down"
    /\ leaseRefuses' = FALSE
    /\ \/ daemonUp' = "serves" /\ UNCHANGED cacheJob
       \/ /\ daemonUp' = "boots"
          /\ cacheJob' = [Free EXCEPT !.op = "sweep", !.todo = SetToSeq(there)]
    /\ UNCHANGED <<objects, cacheClock, rows, request, staging, cacheFaults, noted>>

\* Mutant: an image may go as soon as one of its conversations cannot be resumed.
ResumableByEach(o) == sidecar[o].sessions \subseteq rows
StillResumable(o) == sidecar[o].sessions \cap rows # {}

\* When an object may go; Never when it may not.  Without a sidecar the age of the
\* file counts, which can be any.
Deadline(o) ==
    IF o \in CacheContext THEN sidecar[o].created + LongRetention
    ELSE IF sidecar[o].sessions = {} THEN sidecar[o].created + OrphanRetention
    ELSE IF StillResumable(o) \/ sidecar[o].gone = Never THEN Never
    ELSE sidecar[o].gone + LongRetention
Due(o) == Deadline(o) # Never /\ Deadline(o) <= cacheClock

\* An image nobody can resume is marked the first time; an object past its time loses
\* its file, and then its sidecar.  An object whose step fails is skipped.
Skip == cacheJob' = [cacheJob EXCEPT !.todo = Tail(@)]
Expire(o) == Works /\ there' = there \ {o} /\ cacheJob' = [cacheJob EXCEPT !.op = "unlink"] /\ UNCHANGED sidecar
Unmarked(o) == o \in CacheImage /\ sidecar[o].sessions # {} /\ ~StillResumable(o) /\ sidecar[o].gone = Never
SweepObject ==
    /\ cacheJob.op = "sweep" /\ cacheJob.todo # << >>
    /\ LET o == Head(cacheJob.todo) IN
       \/ (Due(o) \/ sidecar[o] = NoMeta) /\ Expire(o)
       \/ /\ ~Due(o) /\ Works /\ Skip /\ UNCHANGED there
          /\ sidecar' = IF Unmarked(o) THEN [sidecar EXCEPT ![o].gone = cacheClock] ELSE sidecar
       \/ Fails /\ Skip /\ UNCHANGED objects
    /\ UNCHANGED <<cacheClock, rows, daemonUp, request, leaseRefuses, staging, noted>>

Unlink ==
    /\ cacheJob.op = "unlink"
    /\ cacheJob' = [cacheJob EXCEPT !.op = "sweep", !.todo = Tail(@)]
    /\ \/ Works /\ sidecar' = [sidecar EXCEPT ![Head(cacheJob.todo)] = NoMeta]
       \/ Fails /\ UNCHANGED sidecar
    /\ UNCHANGED <<there, cacheClock, rows, daemonUp, request, leaseRefuses, staging, noted>>

Swept ==
    /\ cacheJob.op = "sweep" /\ cacheJob.todo = << >>
    /\ cacheJob' = Free /\ daemonUp' = "serves"
    /\ UNCHANGED <<objects, cacheClock, rows, request, leaseRefuses, staging, cacheFaults, noted>>

\* The daemon ends at any moment; what it was doing stays half done.
Crash ==
    /\ daemonUp # "down"
    /\ IF cacheJob = Free /\ \A s \in CacheSession : request[s] = Idle THEN Works ELSE Fails
    /\ daemonUp' = "down" /\ cacheJob' = Free /\ request' = [s \in CacheSession |-> Idle]
    /\ UNCHANGED <<objects, cacheClock, rows, leaseRefuses, staging, noted>>

-----------------------------------------------------------------------------
(* The editor stages an image or a selection *)

HostLook(o) ==
    /\ staging.pc = "idle"
    /\ staging' = [NoHost EXCEPT !.pc = IF o \in there THEN "read" ELSE "put", !.object = o]
    /\ UNCHANGED <<objects, cacheClock, rows, daemonUp, cacheJob, request, leaseRefuses, cacheFaults, noted>>

Touches == cacheJob' = IF cacheJob = Free THEN cacheJob ELSE [cacheJob EXCEPT !.touched = @ \cup {staging.object}]

\* It writes the object and verifies it.
HostPut ==
    /\ staging.pc = "put"
    /\ there' = there \cup {staging.object}
    /\ staging' = [staging EXCEPT !.pc = "read"]
    /\ Touches
    /\ UNCHANGED <<sidecar, cacheClock, rows, daemonUp, request, leaseRefuses, cacheFaults, noted>>

\* A sidecar that has the origin already is left alone.
HostRead ==
    /\ staging.pc = "read"
    /\ LET known == sidecar[staging.object] IN
       staging' = IF known.origin = "host" THEN NoHost ELSE [staging EXCEPT !.pc = "write", !.read = known]
    /\ UNCHANGED <<objects, cacheClock, rows, daemonUp, cacheJob, request, leaseRefuses, cacheFaults, noted>>

\* Otherwise what was read is written back with the origin, and looked at once more.
HostWrite ==
    /\ staging.pc = "write"
    /\ sidecar' = [sidecar EXCEPT ![staging.object] =
                   [staging.read EXCEPT !.origin = "host", !.created = IF @ = Never THEN cacheClock ELSE @]]
    /\ staging' = NoHost
    /\ Touches
    /\ UNCHANGED <<there, cacheClock, rows, daemonUp, request, leaseRefuses, cacheFaults, noted>>

-----------------------------------------------------------------------------
CacheNext ==
    \/ Tick
    \/ \E s \in CacheSession : Forget(s) \/ Materialize(s) \/ BeginBatch(s) \/ BeginNote(s)
    \/ Put \/ ReadSidecar \/ WriteSidecar \/ UndoLeaf \/ NoteImage \/ UnnoteImage
    \/ Boot \/ SweepObject \/ Unlink \/ Swept \/ Crash
    \/ \E o \in CacheObject : HostLook(o)
    \/ HostPut \/ HostRead \/ HostWrite

CacheSpec == CacheInit /\ [][CacheNext]_cacheVars

-----------------------------------------------------------------------------
(* Properties *)

\* An image of an accepted prompt is there, with its sidecar, as long as its
\* conversation can be resumed.
ImagesOutlive ==
    \A s \in rows : \A o \in noted[s] : Staged(o)

\* A batch or a note that is refused leaves each object and sidecar as it found them,
\* but for what the editor wrote meanwhile, unless the lease refuses from then on.
RefusedIsUndone ==
    cacheJob.op \in {"undo", "unnote"} /\ cacheJob'.op = "free" /\ daemonUp' = "serves" /\ ~leaseRefuses' =>
        \A leaf \in ToSet(cacheJob.leaves) :
            \/ leaf.object \in cacheJob.touched
            \/ /\ leaf.object \in there' <=> leaf.there
               /\ sidecar'[leaf.object] = leaf.meta

KeepsPromises == ImagesOutlive' /\ RefusedIsUndone
CacheKeepsPromises == [][KeepsPromises]_cacheVars
=============================================================================
