-------------------------- MODULE WorkspaceProofs ---------------------------
(***************************************************************************)
(* Proofs about the workspace: the writer lease, for every set of          *)
(* children, threads, paths, contents and journals and every bound; and an *)
(* approved proposal applied under it.                                     *)
(*                                                                         *)
(* ApplyInv, the inductive invariant of the second part, says what         *)
(* registry and memory hold at each point of the executor (JournalInv),    *)
(* how far each change has come (FilesInv), that both contents of a file   *)
(* stay on disk (KeptInv) and where the history may differ from the files  *)
(* (TreeInv).                                                              *)
(***************************************************************************)
EXTENDS WriterLease, ProposalApply, TLAPS

\* A marker built from typed parts is a typed marker (_marker).
LEMMA MarkerOfType ==
    ASSUME boots \in 0 .. MaxBoots,
           NEW h \in WriterClaim, NEW r \in Reason,
           NEW c \in SUBSET Temp, NEW j \in Journal
    PROVE  MarkerOf(h, r, c, j) \in Marker
BY DEF MarkerOf, Marker

\* The empty holder, journal and marker are typed and name no claim.
LEMMA EmptyTypes ==
    /\ NoHolder \in WriterClaim /\ NoJournal \in Journal /\ NoMarker \in Marker
    /\ NoHolder.claim = 0 /\ NoJournal.phase = "none"
<1>1. NoHolder \in WriterClaim /\ NoHolder.claim = 0
  BY BoundsNat DEF NoHolder, WriterClaim
<1>2. NoJournal \in Journal /\ NoJournal.phase = "none"
  BY DEF NoJournal, Journal, Content
<1>3. NoMarker \in Marker
  BY <1>1, <1>2, BoundsNat DEF NoMarker, Marker, Reason
<1> QED BY <1>1, <1>2, <1>3

\* Whatever a registry write leaves on disk is a typed marker.
LEMMA OnDiskType ==
    ASSUME marker \in Marker, NEW w, NEW m \in Marker
    PROVE  OnDisk(w, m) \in Marker
BY DEF OnDisk

\* The types of what the two ways of refusing leave behind.
LEMMA RequireRecoveryType ==
    ASSUME TypeOK, NEW r \in Reason, NEW paths \in SUBSET Temp, NEW w,
           RequireRecovery(r, paths, w)
    PROVE  cleanup' \in SUBSET Temp /\ reason' \in Reason /\ marker' \in Marker
<1>1. MarkerOf(holder, r, cleanup \cup paths, journal) \in Marker
  BY MarkerOfType DEF TypeOK
<1>2. marker' \in Marker
  BY <1>1, OnDiskType DEF RequireRecovery, TypeOK
<1> QED BY <1>2 DEF RequireRecovery, TypeOK, Reason

\* What _durable_recovery_refusal leaves in memory and on disk is typed.
LEMMA DurableRefusalType ==
    ASSUME TypeOK, NEW r \in Reason, NEW w, DurableRefusal(holder, r, w)
    PROVE  reason' \in Reason /\ marker' \in Marker
<1>1. MarkerOf(holder, r, cleanup, journal) \in Marker
  BY MarkerOfType DEF TypeOK
<1> QED BY <1>1, OnDiskType DEF DurableRefusal, TypeOK, Reason

\* What promote, begin_spawn and track_spawned_child leave is typed.
LEMMA RewriteType ==
    ASSUME TypeOK, NEW h \in WriterClaim, NEW w, Rewrite(h, w)
    PROVE  holder' \in WriterClaim /\ reason' \in Reason /\ marker' \in Marker
<1>1. MarkerOf(h, reason, cleanup, journal) \in Marker
  BY MarkerOfType DEF TypeOK
<1> QED BY <1>1, OnDiskType DEF Rewrite, TypeOK, Reason

\* A thread's progress through the spawner stays typed.
LEMMA SpawnType ==
    ASSUME TypeOK, NEW s \in Spawner, NEW at \in {"idle", "begun", "made", "failed"},
           NEW c \in 0 .. MaxClaims, NEW kids \in SUBSET Child
    PROVE  [spawn EXCEPT ![s] = [at |-> at, claim |-> c, child |-> kids]]
              \in [Spawner -> [at : {"idle", "begun", "made", "failed"},
                               claim : 0 .. MaxClaims, child : SUBSET Child]]
BY DEF TypeOK

\* A thread outside the spawner is typed.
LEMMA IdleSpawnType ==
    IdleSpawn \in [at : {"idle", "begun", "made", "failed"},
                   claim : 0 .. MaxClaims, child : SUBSET Child]
BY BoundsNat DEF IdleSpawn

\* The first boot starts from typed values.
LEMMA InitType == Init => TypeOK
<1> SUFFICES ASSUME Init PROVE TypeOK
  OBVIOUS
<1>0. up \in BOOLEAN
  BY Zenon DEF Init
<1>1. boots \in 0 .. MaxBoots /\ minted \in 0 .. MaxClaims /\ edits \in 0 .. MaxEdits
  <2>1. boots = 0 /\ minted = 0 /\ edits = 0
    BY Zenon DEF Init
  <2> QED BY <2>1, BoundsNat
<1>2. /\ holder \in WriterClaim /\ reason \in Reason /\ cleanup \in SUBSET Temp
      /\ journal \in Journal /\ marker \in Marker
  BY EmptyTypes DEF Init, Reason
<1>3. spawn \in [Spawner -> [at : {"idle", "begun", "made", "failed"},
                             claim : 0 .. MaxClaims, child : SUBSET Child]]
  BY IdleSpawnType DEF Init
<1>4. act \in [Child -> 0 .. MaxClaims] /\ file \in [Path -> Content]
      /\ temp \in [Temp -> Content \cup {Torn}]
  BY BoundsNat DEF Init, Content
<1> QED BY <1>0, <1>1, <1>2, <1>3, <1>4 DEF TypeOK

\* acquire, promote and release keep the types.
LEMMA ClaimType == TypeOK /\ Claim => TypeOK'
<1> SUFFICES ASSUME TypeOK, NEW w \in WriteOutcome,
                    \/ \E r \in Run \cup {NoRun} : Acquire(r, w)
                    \/ \E c \in Known, r \in Run : Promote(c, r, w)
                    \/ \E c \in Known, proven \in BOOLEAN : Release(c, proven, w)
                    \/ \E c \in Known : StaleReleaseClaim(c, w)
             PROVE  TypeOK'
  BY DEF Claim
<1>1. ASSUME NEW r \in Run \cup {NoRun}, Acquire(r, w) PROVE TypeOK'
  <2> DEFINE h == [claim |-> minted + 1, run |-> r, pending |-> FALSE, kids |-> {}]
  <2>1. minted + 1 \in 0 .. MaxClaims
    BY <1>1, BoundsNat DEF Acquire, TypeOK
  <2>2. h \in WriterClaim
    BY <2>1 DEF WriterClaim
  <2>3. MarkerOf(h, "none", {}, NoJournal) \in Marker
    BY <2>2, MarkerOfType, EmptyTypes DEF TypeOK, Reason
  <2>4. minted' = minted + 1 /\ marker' = OnDisk(w, MarkerOf(h, "none", {}, NoJournal))
        /\ holder' \in {h, NoHolder}
    BY <1>1 DEF Acquire
  <2>5. marker' \in Marker /\ holder' \in WriterClaim
    BY <2>2, <2>3, <2>4, OnDiskType, EmptyTypes DEF TypeOK
  <2> HIDE DEF h
  <2> QED BY <1>1, <2>1, <2>4, <2>5, EmptyTypes DEF Acquire, TypeOK, Reason, procVars, diskVars
<1>2. ASSUME NEW c \in Known, NEW r \in Run, Promote(c, r, w) PROVE TypeOK'
  <2>1. [holder EXCEPT !.run = r] \in WriterClaim
    BY DEF TypeOK, WriterClaim
  <2>2. holder' \in WriterClaim /\ reason' \in Reason /\ marker' \in Marker
    BY <1>2, <2>1, RewriteType DEF Promote, Poison, TypeOK, Reason
  <2> QED BY <1>2, <2>2 DEF Promote, TypeOK, procVars, diskVars
<1>3. ASSUME NEW c \in Known, NEW proven \in BOOLEAN, Release(c, proven, w) PROVE TypeOK'
  <2>1. holder' \in WriterClaim /\ reason' \in Reason /\ marker' \in Marker
    BY <1>3, DurableRefusalType, OnDiskType, EmptyTypes DEF Release, TypeOK, Reason
  <2> QED BY <1>3, <2>1 DEF Release, TypeOK, procVars, diskVars
<1>4. ASSUME NEW c \in Known, StaleReleaseClaim(c, w) PROVE TypeOK'
  <2>1. cleanup' \in SUBSET Temp /\ reason' \in Reason /\ marker' \in Marker
    BY <1>4, RequireRecoveryType DEF StaleReleaseClaim, Reason
  <2> QED BY <1>4, <2>1 DEF StaleReleaseClaim, TypeOK, procVars, diskVars
<1> QED BY <1>1, <1>2, <1>3, <1>4

\* verify and every report of uncertainty keep the types.
LEMMA RefuseType == TypeOK /\ Refuse => TypeOK'
<1>1. ASSUME TypeOK, NEW c \in Known, NEW r \in Run, Verify(c, r) PROVE TypeOK'
  BY <1>1 DEF Verify, Poison, TypeOK, Reason, procVars, diskVars
<1>2. ASSUME TypeOK, NEW w \in WriteOutcome, NEW r \in Reason, NEW paths \in SUBSET Temp,
             ReportUncertain(r, paths, w)
      PROVE  TypeOK'
  <2>1. cleanup' \in SUBSET Temp /\ reason' \in Reason /\ marker' \in Marker
    BY <1>2, RequireRecoveryType DEF ReportUncertain
  <2> QED BY <1>2, <2>1 DEF ReportUncertain, TypeOK, procVars, diskVars
<1> QED BY <1>1, <1>2 DEF Refuse

\* set_apply_recovery keeps the types, for any journal.
LEMMA SetApplyType ==
    ASSUME TypeOK, NEW c, NEW j \in Journal, NEW w, NEW w2, SetApply(c, j, w, w2)
    PROVE  journal' \in Journal /\ reason' \in Reason /\ marker' \in Marker
<1>1. MarkerOf(holder, "none", cleanup, j) \in Marker
      /\ MarkerOf(holder, "other", cleanup, journal) \in Marker
  BY MarkerOfType DEF TypeOK, Reason
<1>2. OnDisk(w, MarkerOf(holder, "none", cleanup, j)) \in Marker
  BY <1>1, OnDiskType DEF TypeOK
<1>3. DurableRefusal(holder, "other", w2) => reason' \in Reason /\ marker' \in Marker
  BY DurableRefusalType DEF Reason
<1> QED BY <1>1, <1>2, <1>3 DEF JournalWrite, SetApply, TypeOK, Reason

\* The journalling callers keep the types.
LEMMA JournallingType == TypeOK /\ Journalling => TypeOK'
<1> SUFFICES ASSUME TypeOK, NEW c \in Known, NEW j \in Journals \cup {NoJournal},
                    NEW w \in WriteOutcome, NEW w2 \in WriteOutcome,
                    SetApplyRecovery(c, j, w, w2)
             PROVE  TypeOK'
  BY DEF Journalling
<1>1. j \in Journal
  BY JournalsTyped, EmptyTypes
<1>2. journal' \in Journal /\ reason' \in Reason /\ marker' \in Marker
  BY <1>1, SetApplyType DEF SetApplyRecovery
<1> QED BY <1>2 DEF SetApplyRecovery, SetApply, TypeOK, procVars, diskVars

\* Every step of the wrapped spawner keeps the types.
LEMMA SpawningType == TypeOK /\ Spawning => TypeOK'
<1> SUFFICES ASSUME TypeOK, NEW s \in Spawner,
                    \/ \E c \in Known, w \in WriteOutcome : BeginSpawn(s, c, w)
                    \/ \E ch \in Child : VendorSpawn(s, ch) \/ AttachChild(s, ch)
                    \/ \E ch \in Child, exists \in BOOLEAN, w \in WriteOutcome :
                          SpawnRaised(s, ch, exists, w)
                    \/ \E w \in WriteOutcome : TrackChild(s, w)
                    \/ TrackMismatch(s)
                    \/ \E killed \in BOOLEAN, w \in WriteOutcome : TrackFailed(s, killed, w)
             PROVE  TypeOK'
  BY DEF Spawning
<1> DEFINE SpawnSet == [Spawner -> [at : {"idle", "begun", "made", "failed"},
                                    claim : 0 .. MaxClaims, child : SUBSET Child]]
<1>0. spawn \in SpawnSet
  BY DEF TypeOK
<1>1. ASSUME NEW c \in Known, NEW w \in WriteOutcome, BeginSpawn(s, c, w) PROVE TypeOK'
  <2>1. [holder EXCEPT !.pending = TRUE] \in WriterClaim
    BY DEF TypeOK, WriterClaim
  <2>2. holder' \in WriterClaim /\ reason' \in Reason /\ marker' \in Marker
    BY <1>1, <2>1, RewriteType DEF BeginSpawn, Poison, TypeOK, Reason
  <2>3. c \in 0 .. MaxClaims
    BY BoundsNat DEF Known, TypeOK
  <2>4. spawn' \in SpawnSet
    BY <1>0, <1>1, <2>3 DEF BeginSpawn
  <2> QED BY <1>1, <2>2, <2>4 DEF BeginSpawn, TypeOK, diskVars
<1>2. ASSUME NEW ch \in Child, VendorSpawn(s, ch) PROVE TypeOK'
  <2>1. spawn' \in SpawnSet /\ act' \in [Child -> 0 .. MaxClaims]
    BY <1>0, <1>2 DEF VendorSpawn, TypeOK
  <2> QED BY <1>2, <2>1 DEF VendorSpawn, TypeOK, leaseVars, diskVars
<1>3. ASSUME NEW ch \in Child, AttachChild(s, ch) PROVE TypeOK'
  <2>1. spawn' \in SpawnSet
    BY <1>0, <1>3 DEF AttachChild
  <2> QED BY <1>3, <2>1 DEF AttachChild, TypeOK, leaseVars, diskVars
<1>4. ASSUME NEW ch \in Child, NEW exists \in BOOLEAN, NEW w \in WriteOutcome,
             SpawnRaised(s, ch, exists, w)
      PROVE  TypeOK'
  <2>1. cleanup' \in SUBSET Temp /\ reason' \in Reason /\ marker' \in Marker
    BY <1>4, RequireRecoveryType DEF SpawnRaised, Reason
  <2>2. spawn' \in SpawnSet /\ act' \in [Child -> 0 .. MaxClaims]
    BY <1>0, <1>4, IdleSpawnType DEF SpawnRaised, TypeOK
  <2> QED BY <1>4, <2>1, <2>2 DEF SpawnRaised, TypeOK, diskVars
<1>5. ASSUME NEW w \in WriteOutcome, TrackChild(s, w) PROVE TypeOK'
  <2>1. Tracked(holder, spawn[s].child) \in WriterClaim
    BY <1>0 DEF Tracked, TypeOK, WriterClaim
  <2>2. holder' \in WriterClaim /\ reason' \in Reason /\ marker' \in Marker
    BY <1>5, <2>1, RewriteType DEF TrackChild
  <2>3. spawn' \in SpawnSet
    BY <1>0, <1>5, IdleSpawnType DEF TrackChild
  <2> QED BY <1>5, <2>2, <2>3 DEF TrackChild, TypeOK, diskVars
<1>6. ASSUME TrackMismatch(s) PROVE TypeOK'
  <2>1. spawn' \in SpawnSet
    BY <1>0, <1>6 DEF TrackMismatch
  <2> QED BY <1>6, <2>1 DEF TrackMismatch, Poison, TypeOK, Reason, diskVars
<1>7. ASSUME NEW killed \in BOOLEAN, NEW w \in WriteOutcome, TrackFailed(s, killed, w)
      PROVE  TypeOK'
  <2>1. cleanup' \in SUBSET Temp /\ reason' \in Reason /\ marker' \in Marker
    BY <1>7, RequireRecoveryType DEF TrackFailed, Reason
  <2>2. spawn' \in SpawnSet /\ act' \in [Child -> 0 .. MaxClaims]
    BY <1>0, <1>7, IdleSpawnType, BoundsNat DEF TrackFailed, TypeOK
  <2> QED BY <1>7, <2>1, <2>2 DEF TrackFailed, TypeOK, diskVars
<1> QED BY <1>1, <1>2, <1>3, <1>4, <1>5, <1>6, <1>7

\* Children starting and stopping work keep the types.
LEMMA ChildrenType == TypeOK /\ Children => TypeOK'
<1>1. ASSUME TypeOK, NEW ch \in Child, ChildWorks(ch) PROVE TypeOK'
  <2>1. act' \in [Child -> 0 .. MaxClaims]
    BY <1>1 DEF ChildWorks, TypeOK, WriterClaim
  <2> QED BY <1>1, <2>1 DEF ChildWorks, TypeOK, leaseVars, diskVars
<1>2. ASSUME TypeOK, NEW ch \in Child, ChildStops(ch) PROVE TypeOK'
  <2>1. act' \in [Child -> 0 .. MaxClaims]
    BY <1>2, BoundsNat DEF ChildStops, TypeOK
  <2> QED BY <1>2, <2>1 DEF ChildStops, TypeOK, leaseVars, diskVars
<1> QED BY <1>1, <1>2 DEF Children

\* A crash leaves typed values.
LEMMA CrashType == TypeOK /\ Crash => TypeOK'
<1> SUFFICES ASSUME TypeOK, Crash PROVE TypeOK'
  OBVIOUS
<1>1. /\ holder' \in WriterClaim /\ reason' \in Reason /\ cleanup' \in SUBSET Temp
      /\ journal' \in Journal
  BY EmptyTypes DEF Crash, Reason
<1>2. spawn' \in [Spawner -> [at : {"idle", "begun", "made", "failed"},
                              claim : 0 .. MaxClaims, child : SUBSET Child]]
  BY IdleSpawnType DEF Crash
<1>3. act' \in [Child -> 0 .. MaxClaims]
  BY BoundsNat DEF Crash, TypeOK
<1> QED BY <1>1, <1>2, <1>3 DEF Crash, TypeOK, diskVars

\* Every outcome of reconcile_after_orphan_sweep is typed.
LEMMA BootType == TypeOK /\ Boot => TypeOK'
<1> SUFFICES ASSUME TypeOK, Boot PROVE TypeOK'
  OBVIOUS
<1>1. NewDaemon
  BY DEF Boot, BootFree, BootBlocked, BootRefuses, BootClears
<1>2. /\ reason' \in Reason /\ marker' \in Marker
      /\ cleanup' \in SUBSET Temp /\ journal' \in Journal
  <2>1. marker.reason \in Reason /\ marker.cleanup \in SUBSET Temp
        /\ marker.journal \in Journal /\ marker \in Marker
    BY DEF TypeOK, Marker
  <2>2. ASSUME NEW approvals \in BOOLEAN, BootFree(approvals) 
        PROVE  reason' \in Reason /\ marker' \in Marker /\ cleanup' \in SUBSET Temp
               /\ journal' \in Journal
    BY <2>1, <2>2, EmptyTypes DEF BootFree, Forgotten, Refused, Reason
  <2>3. ASSUME NEW readable, NEW ownerSeen, NEW seen, BootBlocked(readable, ownerSeen, seen)
        PROVE  reason' \in Reason /\ marker' \in Marker /\ cleanup' \in SUBSET Temp
               /\ journal' \in Journal
    BY <2>1, <2>3, EmptyTypes DEF BootBlocked, Forgotten, Refused, Reason
  <2>4. ASSUME NEW approvals, NEW seen, BootRefuses(approvals, seen)
        PROVE  reason' \in Reason /\ marker' \in Marker /\ cleanup' \in SUBSET Temp
               /\ journal' \in Journal
    BY <2>1, <2>4 DEF BootRefuses, Adopted, Refused, Reason
  <2>5. ASSUME NEW seen, NEW gone, NEW w, BootClears(seen, gone, w)
        PROVE  reason' \in Reason /\ marker' \in Marker /\ cleanup' \in SUBSET Temp
               /\ journal' \in Journal
    <3>1. OnDisk(w, NoMarker) \in Marker
      BY <2>1, OnDiskType, EmptyTypes
    <3> QED BY <2>1, <2>5, <3>1, EmptyTypes DEF BootClears, Adopted, Forgotten, Reason
  <2> QED BY <2>2, <2>3, <2>4, <2>5, Zenon DEF Boot
<1>3. temp' \in [Temp -> Content \cup {Torn}]
  BY DEF Boot, BootFree, BootBlocked, BootRefuses, BootClears, Refused, TypeOK, Content
<1>4. boots' \in 0 .. MaxBoots
  BY <1>1, BoundsNat DEF NewDaemon, TypeOK
<1> QED BY <1>1, <1>2, <1>3, <1>4, EmptyTypes DEF NewDaemon, TypeOK, procVars

\* File changes outside the lease keep the types.
LEMMA FileChangesType == TypeOK /\ FileChanges => TypeOK'
<1> SUFFICES ASSUME TypeOK, FileChanges PROVE TypeOK'
  OBVIOUS
<1>1. file' \in [Path -> Content] /\ temp' \in [Temp -> Content \cup {Torn}]
  BY DEF FileChanges, TypeOK
<1>2. edits' \in 0 .. MaxEdits
  BY BoundsNat DEF FileChanges, TypeOK
<1> QED BY <1>1, <1>2 DEF FileChanges, TypeOK, leaseVars, procVars

\* Every reachable state is well typed, for every value of the constants.
THEOREM TypeCorrect == Spec => []TypeOK
<1>1. TypeOK /\ [Next]_vars => TypeOK'
  <2>1. TypeOK /\ UNCHANGED vars => TypeOK'
    BY DEF vars, leaseVars, procVars, diskVars, TypeOK
  <2> QED BY <2>1, ClaimType, RefuseType, JournallingType, SpawningType, ChildrenType,
             CrashType, BootType, FileChangesType DEF Next
<1> QED BY InitType, <1>1, PTL DEF Spec

----------------------------------------------------------------------------
(***************************************************************************)
(* Memory and disk.                                                        *)
(***************************************************************************)
\* Memory and disk agree before the first boot.
LEMMA InitDurable == Init => DurableInv
BY EmptyTypes DEF Init, DurableInv, DownIsEmpty, MemoryIsDurable, FreeMeansClear,
                  RefusalIsKnown

\* A daemon that holds a claim is up, so a refusal on disk is known to it.
LEMMA HolderIsUp == ASSUME DurableInv, holder.claim # 0 PROVE up
BY EmptyTypes DEF DurableInv, DownIsEmpty

\* Nothing sticky is on disk where a claim may be granted or released.
LEMMA NothingSticky == ~Sticky(NoMarker)
BY EmptyTypes DEF Sticky, NoMarker

\* require_recovery keeps the memory and the disk in step.
LEMMA RequireRecoveryDurable ==
    ASSUME TypeOK, DurableInv, NEW r \in Reason \ {"none"}, NEW paths, NEW w,
           r = "other" \/ journal.phase = "none",
           RequireRecovery(r, paths, w), UNCHANGED <<holder, journal>>
    PROVE  /\ reason' # "none"
           /\ RefusalIsKnown'
           /\ Sticky(marker) => Sticky(marker')
           /\ StickyMemory'
<1>1. reason' # "none" /\ StickyMemory'
  BY DEF RequireRecovery, StickyMemory, Reason
<1>2. Sticky(marker) => Sticky(marker')
  BY DEF RequireRecovery, OnDisk, MarkerOf, Sticky, Reason
<1> QED BY <1>1, <1>2 DEF RefusalIsKnown

\* A durable refusal written for the holder keeps the one on disk.
LEMMA DurableRefusalDurable ==
    ASSUME TypeOK, DurableInv, NEW r \in Reason \ {"none"}, NEW w,
           DurableRefusal(holder, r, w), UNCHANGED <<holder, cleanup, journal>>,
           holder.claim # 0,
           \/ r = "other" \/ r = reason
           \/ reason = "none"
    PROVE  /\ reason' # "none"
           /\ RefusalIsKnown'
           /\ Sticky(marker) => Sticky(marker')
BY DEF DurableRefusal, RefusalIsKnown, DurableInv, StickyMemory, Sticky, OnDisk, MarkerOf, Reason

\* A rewritten holder keeps memory and disk in step.
LEMMA RewriteDurable ==
    ASSUME TypeOK, DurableInv, NEW h \in WriterClaim, NEW w, Rewrite(h, w),
           h.claim = holder.claim, holder.claim # 0,
           UNCHANGED <<boots, cleanup, journal>>
    PROVE  /\ MemoryIsDurable'
           /\ RefusalIsKnown'
           /\ Sticky(marker) => Sticky(marker')
           /\ holder'.claim = holder.claim
BY DEF Rewrite, RefusalIsKnown, MemoryIsDurable, DurableInv, StickyMemory, Sticky, OnDisk,
       MarkerOf, Reason

\* What every operation of a running daemon preserves, and the two-state fact
\* that a sticky refusal stays.
LEMMA ClaimDurable ==
    TypeOK /\ DurableInv /\ Claim => DurableInv' /\ (Sticky(marker) => Sticky(marker'))
<1> DEFINE Goal == DurableInv' /\ (Sticky(marker) => Sticky(marker'))
<1> SUFFICES ASSUME TypeOK, DurableInv, NEW w \in WriteOutcome,
                    \/ \E r \in Run \cup {NoRun} : Acquire(r, w)
                    \/ \E c \in Known, r \in Run : Promote(c, r, w)
                    \/ \E c \in Known, proven \in BOOLEAN : Release(c, proven, w)
                    \/ \E c \in Known : StaleReleaseClaim(c, w)
             PROVE  Goal
  BY DEF Claim
<1>1. ASSUME NEW r, Acquire(r, w) PROVE Goal
  <2> DEFINE h == [claim |-> minted + 1, run |-> r, pending |-> FALSE, kids |-> {}]
  <2>1. /\ marker' = OnDisk(w, MarkerOf(h, "none", {}, NoJournal))
        /\ holder' = IF w = "ok" THEN h ELSE NoHolder
        /\ reason' = IF w = "ok" THEN "none" ELSE "other"
        /\ cleanup' = {} /\ journal' = NoJournal /\ up /\ up' = up /\ boots' = boots
        /\ reason = "none" /\ holder.claim = 0
    BY <1>1 DEF Acquire
  <2>2. marker = NoMarker
    BY <2>1 DEF DurableInv, FreeMeansClear
  <2>3. ~Sticky(marker) /\ ~Sticky(MarkerOf(h, "none", {}, NoJournal))
    BY <2>2, NothingSticky DEF Sticky, MarkerOf
  <2>4. h.claim # 0
    BY DEF TypeOK
  <2> HIDE DEF h
  <2>5. MemoryIsDurable'
    BY <2>1, EmptyTypes DEF MemoryIsDurable, OnDisk, MarkerOf
  <2>6. RefusalIsKnown'
    BY <2>1, <2>3, EmptyTypes DEF RefusalIsKnown, StickyMemory, OnDisk
  <2>7. FreeMeansClear'
    BY <2>1, <2>4 DEF FreeMeansClear
  <2> QED BY <2>1, <2>3, <2>5, <2>6, <2>7 DEF DurableInv, DownIsEmpty
<1>2. ASSUME NEW c \in Known, NEW r \in Run, Promote(c, r, w) PROVE Goal
  <2>1. CASE Held(c)
    <3>1. [holder EXCEPT !.run = r] \in WriterClaim
          /\ [holder EXCEPT !.run = r].claim = holder.claim
      BY DEF TypeOK, WriterClaim
    <3> QED BY <1>2, <2>1, <3>1, RewriteDurable
            DEF Promote, Held, DurableInv, DownIsEmpty, FreeMeansClear
  <2>2. CASE ~Held(c)
    BY <1>2, <2>2 DEF Promote, Poison, DurableInv, DownIsEmpty, FreeMeansClear, MemoryIsDurable,
                      RefusalIsKnown, StickyMemory
  <2> QED BY <2>1, <2>2
<1>3. ASSUME NEW c \in Known, NEW proven \in BOOLEAN, Release(c, proven, w) PROVE Goal
  <2>0. holder.claim # 0 /\ up /\ up' /\ boots' = boots /\ UNCHANGED <<cleanup, journal>>
    BY <1>3 DEF Release, Held
  <2>1. CASE journal.phase # "none"
    <3>1. DurableRefusal(holder, IF reason = "none" THEN "uncleared" ELSE reason, w)
          /\ UNCHANGED holder
      BY <1>3, <2>1 DEF Release
    <3>2. (IF reason = "none" THEN "uncleared" ELSE reason) \in Reason \ {"none"}
      BY DEF TypeOK, Reason
    <3>3. reason' # "none" /\ RefusalIsKnown' /\ (Sticky(marker) => Sticky(marker'))
      BY <2>0, <3>1, <3>2, DurableRefusalDurable
    <3> QED BY <2>0, <3>1, <3>3 DEF DurableInv, DownIsEmpty, FreeMeansClear, MemoryIsDurable
  <2>2. CASE journal.phase = "none" /\ ~proven
    <3>1. DurableRefusal(holder, "other", w) /\ UNCHANGED holder
      BY <1>3, <2>2 DEF Release
    <3>3. reason' # "none" /\ RefusalIsKnown' /\ (Sticky(marker) => Sticky(marker'))
      BY <2>0, <3>1, DurableRefusalDurable DEF Reason
    <3> QED BY <2>0, <3>1, <3>3 DEF DurableInv, DownIsEmpty, FreeMeansClear, MemoryIsDurable
  <2>3. CASE journal.phase = "none" /\ proven
    <3>1. reason = "none" /\ ~Sticky(marker)
      BY <1>3, <2>0, <2>3 DEF Release, DurableInv, RefusalIsKnown, StickyMemory
    <3>2. marker = MarkerOf(holder, "none", cleanup, journal)
      BY <2>0, <3>1 DEF DurableInv, MemoryIsDurable
    <3>3. marker.holder.claim = c
      BY <1>3, <3>2 DEF MarkerOf, Release, Held
    <3>4. marker' = OnDisk(w, NoMarker)
          /\ IF w = "ok" THEN holder' = NoHolder /\ UNCHANGED reason
                         ELSE reason' = "other" /\ UNCHANGED holder
      BY <1>3, <2>3, <3>3 DEF Release
    <3> QED BY <2>0, <3>1, <3>4, NothingSticky, EmptyTypes
            DEF DurableInv, DownIsEmpty, FreeMeansClear, MemoryIsDurable, RefusalIsKnown,
                StickyMemory, OnDisk
  <2> QED BY <2>1, <2>2, <2>3
<1>4. ASSUME NEW c \in Known, StaleReleaseClaim(c, w) PROVE Goal
  <2>1. reason' # "none" /\ RefusalIsKnown' /\ (Sticky(marker) => Sticky(marker'))
    BY <1>4, RequireRecoveryDurable DEF StaleReleaseClaim, Reason
  <2> QED BY <1>4, <2>1
          DEF StaleReleaseClaim, DurableInv, DownIsEmpty, FreeMeansClear, MemoryIsDurable
<1> QED BY <1>1, <1>2, <1>3, <1>4

\* verify and reports of uncertainty keep memory and disk in step.
LEMMA RefuseDurable ==
    TypeOK /\ DurableInv /\ Refuse => DurableInv' /\ (Sticky(marker) => Sticky(marker'))
<1> DEFINE Goal == DurableInv' /\ (Sticky(marker) => Sticky(marker'))
<1>1. ASSUME TypeOK, DurableInv, NEW c \in Known, NEW r \in Run, Verify(c, r) PROVE Goal
  BY <1>1 DEF Verify, Poison, DurableInv, DownIsEmpty, FreeMeansClear, MemoryIsDurable,
              RefusalIsKnown, StickyMemory
<1>2. ASSUME TypeOK, DurableInv, NEW w \in WriteOutcome, NEW r \in Reason,
             NEW paths \in SUBSET Temp, ReportUncertain(r, paths, w)
      PROVE  Goal
  <2>1. reason' # "none" /\ RefusalIsKnown' /\ (Sticky(marker) => Sticky(marker'))
    BY <1>2, RequireRecoveryDurable DEF ReportUncertain, Reason
  <2> QED BY <1>2, <2>1
          DEF ReportUncertain, DurableInv, DownIsEmpty, FreeMeansClear, MemoryIsDurable
<1> QED BY <1>1, <1>2 DEF Refuse

\* set_apply_recovery with any journal, whatever the files say.
LEMMA SetApplyDurable ==
    ASSUME TypeOK, DurableInv, NEW c, NEW j \in Journal, NEW w, NEW w2,
           SetApply(c, j, w, w2)
    PROVE  DurableInv' /\ (Sticky(marker) => Sticky(marker'))
<1>1. /\ up /\ up' = up /\ boots' = boots /\ holder.claim # 0 /\ reason = "none"
      /\ holder' = holder /\ cleanup' = cleanup /\ ~Sticky(marker)
  BY DEF SetApply, Held, DurableInv, RefusalIsKnown, StickyMemory
<1>2. \/ /\ reason' = "none" /\ journal' = j
         /\ marker' = MarkerOf(holder, "none", cleanup, j)
      \/ reason' = "other"
  BY <1>1 DEF JournalWrite, SetApply, DurableRefusal, OnDisk
<1>3. CASE reason' = "other"
  BY <1>1, <1>3 DEF DurableInv, DownIsEmpty, FreeMeansClear, MemoryIsDurable, RefusalIsKnown,
                    StickyMemory
<1>4. CASE /\ reason' = "none" /\ journal' = j
           /\ marker' = MarkerOf(holder, "none", cleanup, j)
  BY <1>1, <1>4 DEF DurableInv, DownIsEmpty, FreeMeansClear, MemoryIsDurable, RefusalIsKnown,
                    StickyMemory, MarkerOf, Sticky
<1> QED BY <1>1, <1>2, <1>3, <1>4

\* The journalling callers keep memory and disk in step.
LEMMA JournallingDurable ==
    TypeOK /\ DurableInv /\ Journalling => DurableInv' /\ (Sticky(marker) => Sticky(marker'))
BY SetApplyDurable, JournalsTyped, EmptyTypes DEF Journalling, SetApplyRecovery

\* Every step of the wrapped spawner keeps memory and disk in step.
LEMMA SpawningDurable ==
    TypeOK /\ DurableInv /\ Spawning => DurableInv' /\ (Sticky(marker) => Sticky(marker'))
<1> DEFINE Goal == DurableInv' /\ (Sticky(marker) => Sticky(marker'))
<1> SUFFICES ASSUME TypeOK, DurableInv, NEW s \in Spawner,
                    \/ \E c \in Known, w \in WriteOutcome : BeginSpawn(s, c, w)
                    \/ \E ch \in Child : VendorSpawn(s, ch) \/ AttachChild(s, ch)
                    \/ \E ch \in Child, exists \in BOOLEAN, w \in WriteOutcome :
                          SpawnRaised(s, ch, exists, w)
                    \/ \E w \in WriteOutcome : TrackChild(s, w)
                    \/ TrackMismatch(s)
                    \/ \E killed \in BOOLEAN, w \in WriteOutcome : TrackFailed(s, killed, w)
             PROVE  Goal
  BY DEF Spawning
<1>0. spawn[s].at # "idle" => up
  BY DEF DurableInv, DownIsEmpty, IdleSpawn
<1>1. ASSUME NEW c \in Known, NEW w \in WriteOutcome, BeginSpawn(s, c, w) PROVE Goal
  <2>1. CASE Held(c)
    <3>1. [holder EXCEPT !.pending = TRUE] \in WriterClaim
          /\ [holder EXCEPT !.pending = TRUE].claim = holder.claim
      BY DEF TypeOK, WriterClaim
    <3>2. MemoryIsDurable' /\ RefusalIsKnown' /\ (Sticky(marker) => Sticky(marker'))
          /\ holder'.claim = holder.claim
      BY <1>1, <2>1, <3>1, RewriteDurable DEF BeginSpawn, Held
    <3> QED BY <1>1, <2>1, <3>2
            DEF BeginSpawn, Held, DurableInv, DownIsEmpty, FreeMeansClear
  <2>2. CASE ~Held(c)
    BY <1>1, <2>2 DEF BeginSpawn, Poison, DurableInv, DownIsEmpty, FreeMeansClear,
                      MemoryIsDurable, RefusalIsKnown, StickyMemory
  <2> QED BY <2>1, <2>2
<1>2. ASSUME NEW ch \in Child, VendorSpawn(s, ch) \/ AttachChild(s, ch) PROVE Goal
  <2>1. up /\ up' = up /\ boots' = boots /\ UNCHANGED <<leaseVars, marker>>
    BY <1>0, <1>2 DEF VendorSpawn, AttachChild
  <2> QED BY <2>1 DEF leaseVars, DurableInv, DownIsEmpty, FreeMeansClear, MemoryIsDurable,
                      RefusalIsKnown, StickyMemory, MarkerOf
<1>3. ASSUME NEW ch \in Child, NEW exists \in BOOLEAN, NEW w \in WriteOutcome,
             SpawnRaised(s, ch, exists, w)
      PROVE  Goal
  <2>1. reason' # "none" /\ RefusalIsKnown' /\ (Sticky(marker) => Sticky(marker'))
    BY <1>3, RequireRecoveryDurable DEF SpawnRaised, Reason
  <2> QED BY <1>0, <1>3, <2>1
          DEF SpawnRaised, DurableInv, DownIsEmpty, FreeMeansClear, MemoryIsDurable
<1>4. ASSUME NEW w \in WriteOutcome, TrackChild(s, w) PROVE Goal
  <2> DEFINE h == Tracked(holder, spawn[s].child)
  <2>1. h \in WriterClaim /\ h.claim = holder.claim /\ holder.claim # 0
    BY <1>4 DEF Tracked, TypeOK, WriterClaim, TrackChild, Held
  <2>2. Rewrite(h, w) /\ UNCHANGED <<up, boots, cleanup, journal>>
    BY <1>4 DEF TrackChild
  <2> HIDE DEF h
  <2>3. MemoryIsDurable' /\ RefusalIsKnown' /\ (Sticky(marker) => Sticky(marker'))
        /\ holder'.claim = holder.claim
    BY <2>1, <2>2, RewriteDurable
  <2>4. up
    BY <2>1, HolderIsUp
  <2> QED BY <2>1, <2>2, <2>3, <2>4 DEF DurableInv, DownIsEmpty, FreeMeansClear
<1>5. ASSUME TrackMismatch(s) PROVE Goal
  BY <1>0, <1>5 DEF TrackMismatch, Poison, DurableInv, DownIsEmpty, FreeMeansClear,
                    MemoryIsDurable, RefusalIsKnown, StickyMemory
<1>6. ASSUME NEW killed \in BOOLEAN, NEW w \in WriteOutcome, TrackFailed(s, killed, w)
      PROVE  Goal
  <2>1. reason' # "none" /\ RefusalIsKnown' /\ (Sticky(marker) => Sticky(marker'))
    BY <1>6, RequireRecoveryDurable DEF TrackFailed, Reason
  <2> QED BY <1>0, <1>6, <2>1
          DEF TrackFailed, DurableInv, DownIsEmpty, FreeMeansClear, MemoryIsDurable
<1> QED BY <1>1, <1>2, <1>3, <1>4, <1>5, <1>6

\* Steps that leave lease, marker and threads alone change nothing here.
LEMMA SameLeaseDurable ==
    ASSUME DurableInv, UNCHANGED <<up, boots, leaseVars, marker, spawn>>
    PROVE  DurableInv' /\ (Sticky(marker) => Sticky(marker'))
BY DEF leaseVars, DurableInv, DownIsEmpty, FreeMeansClear, MemoryIsDurable, RefusalIsKnown,
       StickyMemory, MarkerOf

\* A crash keeps the disk and empties the memory.
LEMMA CrashDurable ==
    TypeOK /\ DurableInv /\ Crash => DurableInv' /\ (Sticky(marker) => Sticky(marker'))
BY EmptyTypes DEF Crash, DurableInv, DownIsEmpty, FreeMeansClear, MemoryIsDurable, RefusalIsKnown

\* A boot grants only over an empty registry and keeps a refusal it cannot clear.
LEMMA BootDurable ==
    TypeOK /\ DurableInv /\ Boot => DurableInv' /\ (Sticky(marker) => Sticky(marker'))
<1> SUFFICES ASSUME TypeOK, DurableInv, Boot
             PROVE  DurableInv' /\ (Sticky(marker) => Sticky(marker'))
  OBVIOUS
<1>1. NewDaemon
  BY DEF Boot, BootFree, BootBlocked, BootRefuses, BootClears
<1>2. up' /\ holder' = NoHolder
  BY <1>1 DEF NewDaemon
<1>3. (reason' = "none" => marker' = NoMarker) /\ (Sticky(marker) => marker' = marker)
  <2>1. ASSUME NEW approvals, BootFree(approvals)
        PROVE  (reason' = "none" => marker' = NoMarker) /\ marker' = marker
    BY <2>1 DEF BootFree, Refused
  <2>2. ASSUME NEW readable, NEW ownerSeen, NEW seen, BootBlocked(readable, ownerSeen, seen)
        PROVE  reason' # "none" /\ marker' = marker
    BY <2>2 DEF BootBlocked, Refused
  <2>3. ASSUME NEW approvals, NEW seen, BootRefuses(approvals, seen)
        PROVE  reason' # "none" /\ marker' = marker
    BY <2>3 DEF BootRefuses, Refused
  <2>4. ASSUME NEW seen, NEW gone, NEW w, BootClears(seen, gone, w)
        PROVE  (reason' = "none" => marker' = NoMarker) /\ ~Sticky(marker)
    BY <2>4 DEF BootClears, Clearable, JournalUsable, Sticky, OnDisk
  <2> QED BY <2>1, <2>2, <2>3, <2>4 DEF Boot
<1> QED BY <1>2, <1>3, EmptyTypes
        DEF DurableInv, DownIsEmpty, FreeMeansClear, MemoryIsDurable, RefusalIsKnown

\* Every step keeps memory and disk in step and every sticky refusal.
LEMMA NextDurable ==
    TypeOK /\ DurableInv /\ [Next]_vars => DurableInv' /\ (Sticky(marker) => Sticky(marker'))
<1> SUFFICES ASSUME TypeOK, DurableInv, [Next]_vars
             PROVE  DurableInv' /\ (Sticky(marker) => Sticky(marker'))
  OBVIOUS
<1>1. CASE Children
  BY <1>1, SameLeaseDurable DEF Children, ChildWorks, ChildStops
<1>2. CASE FileChanges
  BY <1>2, SameLeaseDurable DEF FileChanges, procVars
<1>3. CASE UNCHANGED vars
  BY <1>3, SameLeaseDurable DEF vars, procVars
<1> QED BY <1>1, <1>2, <1>3, ClaimDurable, RefuseDurable, JournallingDurable, SpawningDurable,
           CrashDurable, BootDurable DEF Next

\* Memory and disk are in step in every reachable state.
THEOREM DurableInvHolds == Spec => []DurableInv
<1>1. TypeOK /\ DurableInv /\ [Next]_vars => DurableInv'
  BY NextDurable
<1> QED BY InitDurable, <1>1, TypeCorrect, PTL DEF Spec

\* For every instance: as long as nothing has been refused, the marker on disk
\* is the claim in memory.
THEOREM MarkerFollowsMemory == Spec => []MemoryIsDurable
<1>1. DurableInv => MemoryIsDurable
  BY DEF DurableInv
<1> QED BY <1>1, DurableInvHolds, PTL

\* For every instance: no operation, crash or boot loses a refusal that
\* reconciliation has no proof for.
THEOREM RefusalsOutliveRestarts == Spec => RefusalIsSticky
<1>1. TypeOK /\ DurableInv /\ [Next]_vars => [Sticky(marker) => Sticky(marker')]_vars
  BY NextDurable
<1> QED BY <1>1, DurableInvHolds, TypeCorrect, PTL DEF Spec, RefusalIsSticky

----------------------------------------------------------------------------
(***************************************************************************)
(* Processes and evidence, with one thread at a time in the wrapped        *)
(* spawner: WriterClaim has a single spawn_pending flag, and the first of  *)
(* two overlapping spawns to be tracked clears it for both.                *)
(***************************************************************************)
OneSpawner == \A s, t \in Spawner : s = t

\* What the disk says about every working process.
Recorded(m) ==
    \A ch \in Working :
        /\ m.holder.claim = act[ch]
        /\ m.holder.pending \/ ch \in m.holder.kids \/ Sticky(m)

\* No process works before the first boot.
LEMMA InitChild == Init => ChildInv
BY DEF Init, ChildInv, SpawnHasClaim, WorkIsRecorded, WorkIsKnown, IdleSpawn, Working

\* Where a claim may be granted, no process works.
LEMMA NobodyWorks ==
    ASSUME TypeOK, DurableInv, ChildInv, up, reason = "none", holder.claim = 0
    PROVE  Working = {}
<1>1. marker.holder.claim = 0
  BY EmptyTypes DEF DurableInv, FreeMeansClear, NoMarker
<1> QED BY <1>1 DEF ChildInv, WorkIsRecorded, Working

\* A child a thread carries makes the spawn pending in memory.
LEMMA CarriedIsPending ==
    ASSUME ChildInv, NEW s \in Spawner, NEW ch \in spawn[s].child
    PROVE  holder.pending /\ spawn[s].at \notin {"idle", "begun"}
BY DEF ChildInv, SpawnHasClaim, IdleSpawn

\* Any marker written for the holder with at least its evidence names every
\* working process and every spawn that has begun.
LEMMA WriteRecords ==
    ASSUME ChildInv, holder.claim # 0,
           NEW h, NEW r, NEW c, NEW j, NEW w,
           h.claim = holder.claim, holder.pending => h.pending,
           holder.kids \subseteq h.kids,
           StickyMemory => r = "other" \/ (r # "none" /\ j.phase = "none"),
           marker' = OnDisk(w, MarkerOf(h, r, c, j))
    PROVE  /\ Recorded(marker')
           /\ \A s \in Spawner :
                 spawn[s].at = "begun" => /\ marker'.holder.claim = holder.claim
                                         /\ marker'.holder.pending
<1> DEFINE m == MarkerOf(h, r, c, j)
<1>1. /\ m.holder = h /\ m.reason = r /\ m.journal = j
      /\ StickyMemory => Sticky(m)
  BY DEF MarkerOf, Sticky
<1>2. Recorded(m)
  BY <1>1, CarriedIsPending DEF ChildInv, WorkIsKnown, Recorded
<1>3. \A s \in Spawner : spawn[s].at = "begun" => m.holder.claim = holder.claim /\ m.holder.pending
  BY <1>1 DEF ChildInv, SpawnHasClaim
<1>4. Recorded(marker)
  BY DEF ChildInv, WorkIsRecorded, Recorded
<1>5. marker' \in {marker, m}
  BY DEF OnDisk
<1> HIDE DEF m
<1> QED BY <1>2, <1>3, <1>4, <1>5 DEF ChildInv, SpawnHasClaim

\* An operation that writes such a marker and keeps the processes and the
\* evidence in memory preserves the invariant.
LEMMA HolderWrite ==
    ASSUME ChildInv, holder.claim # 0,
           NEW h, NEW r, NEW c, NEW j, NEW w,
           h.claim = holder.claim, holder.pending => h.pending,
           holder.kids \subseteq h.kids,
           StickyMemory => r = "other" \/ (r # "none" /\ j.phase = "none"),
           marker' = OnDisk(w, MarkerOf(h, r, c, j)),
           UNCHANGED procVars,
           holder'.claim = holder.claim, holder.pending => holder'.pending,
           holder.kids \subseteq holder'.kids,
           StickyMemory => StickyMemory'
    PROVE  ChildInv'
<1>1. /\ Recorded(marker')
      /\ \A s \in Spawner :
            spawn[s].at = "begun" => /\ marker'.holder.claim = holder.claim
                                    /\ marker'.holder.pending
  BY WriteRecords
<1>2. spawn' = spawn /\ act' = act /\ Working' = Working
  BY DEF procVars, Working
<1>3. WorkIsRecorded'
  BY <1>1, <1>2 DEF Recorded, WorkIsRecorded
<1>4. SpawnHasClaim'
  BY <1>1, <1>2 DEF ChildInv, SpawnHasClaim, Held
<1>5. WorkIsKnown'
  BY <1>2 DEF ChildInv, WorkIsKnown
<1> QED BY <1>3, <1>4, <1>5 DEF ChildInv

\* An operation that only refuses in memory keeps the evidence.
LEMMA MemoryOnly ==
    ASSUME ChildInv, UNCHANGED <<marker, procVars, holder>>, StickyMemory => StickyMemory'
    PROVE  ChildInv'
<1>1. spawn' = spawn /\ act' = act /\ marker' = marker /\ holder' = holder /\ Working' = Working
  BY DEF procVars, Working
<1> QED BY <1>1 DEF ChildInv, WorkIsRecorded, SpawnHasClaim, WorkIsKnown, Held

\* require_recovery keeps the evidence of every working process.
LEMMA RequireRecoveryChild ==
    ASSUME ChildInv, NEW r, NEW paths, NEW w,
           r = "other" \/ (r # "none" /\ journal.phase = "none"),
           RequireRecovery(r, paths, w), UNCHANGED <<holder, journal, procVars>>
    PROVE  ChildInv'
<1>1. StickyMemory'
  BY DEF RequireRecovery, StickyMemory
<1>2. CASE holder.claim = 0
  BY <1>1, <1>2, MemoryOnly DEF RequireRecovery
<1>3. CASE holder.claim # 0
  <2>1. marker' = OnDisk(w, MarkerOf(holder, r, cleanup \cup paths, journal))
    BY <1>3 DEF RequireRecovery
  <2> QED BY <1>1, <1>3, <2>1, HolderWrite
<1> QED BY <1>2, <1>3

\* A durable refusal keeps the evidence of every working process.
LEMMA DurableRefusalChild ==
    ASSUME ChildInv, holder.claim # 0, NEW r, NEW w,
           StickyMemory => r = "other" \/ (r # "none" /\ journal.phase = "none"),
           DurableRefusal(holder, r, w), UNCHANGED <<holder, journal, procVars>>
    PROVE  ChildInv'
<1>1. StickyMemory => StickyMemory'
  BY DEF DurableRefusal, StickyMemory
<1>2. marker' = OnDisk(w, MarkerOf(holder, r, cleanup, journal))
  BY DEF DurableRefusal
<1> QED BY <1>1, <1>2, HolderWrite

\* acquire, promote and release keep the evidence.
LEMMA ClaimChild == TypeOK /\ DurableInv /\ ChildInv /\ Claim => ChildInv'
<1> SUFFICES ASSUME TypeOK, DurableInv, ChildInv, NEW w \in WriteOutcome,
                    \/ \E r \in Run \cup {NoRun} : Acquire(r, w)
                    \/ \E c \in Known, r \in Run : Promote(c, r, w)
                    \/ \E c \in Known, proven \in BOOLEAN : Release(c, proven, w)
                    \/ \E c \in Known : StaleReleaseClaim(c, w)
             PROVE  ChildInv'
  BY DEF Claim
<1>1. ASSUME NEW r, Acquire(r, w) PROVE ChildInv'
  <2>1. Working = {} /\ UNCHANGED <<spawn, act>>
    BY <1>1, NobodyWorks DEF Acquire, procVars
  <2>2. \A s \in Spawner : spawn[s] = IdleSpawn
    BY <1>1 DEF Acquire, ChildInv, SpawnHasClaim, Held
  <2> QED BY <2>1, <2>2
          DEF ChildInv, SpawnHasClaim, WorkIsRecorded, WorkIsKnown, Working, IdleSpawn
<1>2. ASSUME NEW c \in Known, NEW r \in Run, Promote(c, r, w) PROVE ChildInv'
  <2>1. CASE Held(c)
    <3> DEFINE h == [holder EXCEPT !.run = r]
    <3>1. h.claim = holder.claim /\ h.pending = holder.pending /\ h.kids = holder.kids
      BY DEF TypeOK, WriterClaim
    <3>2. Rewrite(h, w) /\ UNCHANGED <<cleanup, journal, procVars>> /\ holder.claim # 0
      BY <1>2, <2>1 DEF Promote, Held
    <3>3. marker' = OnDisk(w, MarkerOf(h, reason, cleanup, journal)) /\ holder' \in {h, holder}
          /\ (StickyMemory => StickyMemory')
          /\ (StickyMemory => reason = "other" \/ (reason # "none" /\ journal.phase = "none"))
      BY <3>2 DEF Rewrite, StickyMemory
    <3> HIDE DEF h
    <3>4. /\ holder'.claim = holder.claim /\ (holder.pending => holder'.pending)
          /\ holder.kids \subseteq holder'.kids
      BY <3>1, <3>3
    <3> QED BY <3>1, <3>2, <3>3, <3>4, HolderWrite
  <2>2. CASE ~Held(c)
    BY <1>2, <2>2, MemoryOnly DEF Promote, Poison, StickyMemory
  <2> QED BY <2>1, <2>2
<1>3. ASSUME NEW c \in Known, NEW proven \in BOOLEAN, Release(c, proven, w) PROVE ChildInv'
  <2>1. holder.claim # 0 /\ UNCHANGED <<journal, procVars>>
    BY <1>3 DEF Release, Held
  <2>2. CASE journal.phase # "none" \/ ~proven
    <3>1. PICK r : /\ DurableRefusal(holder, r, w)
                   /\ StickyMemory => r = "other" \/ (r # "none" /\ journal.phase = "none")
      BY <1>3, <2>2 DEF Release, StickyMemory
    <3>2. UNCHANGED holder
      BY <1>3, <2>2 DEF Release
    <3> QED BY <2>1, <3>1, <3>2, DurableRefusalChild
  <2>3. CASE journal.phase = "none" /\ proven
    <3>1. Working = {} /\ (\A s \in Spawner : spawn[s] = IdleSpawn)
      BY <1>3, <2>1, <2>3 DEF Release, Quiet, Held, ChildInv, WorkIsKnown, SpawnHasClaim, Working
    <3>2. spawn' = spawn /\ act' = act /\ Working' = {}
      BY <2>1, <3>1 DEF procVars, Working
    <3> QED BY <3>1, <3>2
            DEF ChildInv, SpawnHasClaim, WorkIsRecorded, WorkIsKnown, IdleSpawn
  <2> QED BY <2>2, <2>3
<1>4. ASSUME NEW c \in Known, StaleReleaseClaim(c, w) PROVE ChildInv'
  BY <1>4, RequireRecoveryChild DEF StaleReleaseClaim
<1> QED BY <1>1, <1>2, <1>3, <1>4

\* verify and reports of uncertainty keep the evidence.
LEMMA RefuseChild == TypeOK /\ ChildInv /\ Refuse => ChildInv'
<1>1. ASSUME ChildInv, NEW c \in Known, NEW r \in Run, Verify(c, r) PROVE ChildInv'
  BY <1>1, MemoryOnly DEF Verify, Poison, StickyMemory
<1>2. ASSUME ChildInv, NEW w \in WriteOutcome, NEW r \in Reason, NEW paths \in SUBSET Temp,
             ReportUncertain(r, paths, w)
      PROVE  ChildInv'
  BY <1>2, RequireRecoveryChild DEF ReportUncertain
<1> QED BY <1>1, <1>2 DEF Refuse

\* set_apply_recovery keeps the evidence, whatever it writes.
LEMMA SetApplyChild ==
    ASSUME TypeOK, ChildInv, NEW c, NEW j, NEW w, NEW w2,
           SetApply(c, j, w, w2)
    PROVE  ChildInv'
<1>1. holder.claim # 0 /\ ~StickyMemory /\ reason = "none"
      /\ UNCHANGED <<holder, cleanup, procVars>>
  BY DEF SetApply, Held, StickyMemory
<1>2. PICK k, r, v : marker' = OnDisk(v, MarkerOf(holder, r, cleanup, k))
  BY <1>1 DEF JournalWrite, SetApply, DurableRefusal, OnDisk
<1> QED BY <1>1, <1>2, HolderWrite

\* The journalling callers keep the evidence.
LEMMA JournallingChild == TypeOK /\ ChildInv /\ Journalling => ChildInv'
BY SetApplyChild DEF Journalling, SetApplyRecovery

\* begin_spawn, the vendor spawn and track_spawned_child keep the evidence.
LEMMA SpawningChild ==
    ASSUME OneSpawner PROVE TypeOK /\ DurableInv /\ ChildInv /\ Spawning => ChildInv'
<1> SUFFICES ASSUME TypeOK, DurableInv, ChildInv, NEW s \in Spawner,
                    \/ \E c \in Known, w \in WriteOutcome : BeginSpawn(s, c, w)
                    \/ \E ch \in Child : VendorSpawn(s, ch) \/ AttachChild(s, ch)
                    \/ \E ch \in Child, exists \in BOOLEAN, w \in WriteOutcome :
                          SpawnRaised(s, ch, exists, w)
                    \/ \E w \in WriteOutcome : TrackChild(s, w)
                    \/ TrackMismatch(s)
                    \/ \E killed \in BOOLEAN, w \in WriteOutcome : TrackFailed(s, killed, w)
             PROVE  ChildInv'
  BY DEF Spawning
<1>0. /\ \A t \in Spawner : t = s
      /\ spawn \in [Spawner -> [at : {"idle", "begun", "made", "failed"},
                                claim : 0 .. MaxClaims, child : SUBSET Child]]
      /\ act \in [Child -> 0 .. MaxClaims]
  BY DEF OneSpawner, TypeOK
<1>a. spawn[s].at # "idle" => /\ holder.claim # 0 /\ spawn[s].claim = holder.claim
                              /\ holder.pending
  BY DEF ChildInv, SpawnHasClaim, Held
<1>b. spawn[s].at = "begun" => /\ spawn[s].child = {}
                               /\ marker.holder.claim = holder.claim /\ marker.holder.pending
  BY DEF ChildInv, SpawnHasClaim
<1>1. ASSUME NEW c \in Known, NEW w \in WriteOutcome, BeginSpawn(s, c, w) PROVE ChildInv'
  <2>1. CASE Held(c)
    <3> DEFINE h == [holder EXCEPT !.pending = TRUE]
    <3>1. h.claim = holder.claim /\ h.pending /\ h.kids = holder.kids
      BY DEF TypeOK, WriterClaim
    <3>2. Rewrite(h, w) /\ UNCHANGED <<cleanup, journal, act>> /\ holder.claim # 0 /\ c = holder.claim
      BY <1>1, <2>1 DEF BeginSpawn, Held
    <3>3. marker' = OnDisk(w, MarkerOf(h, reason, cleanup, journal))
          /\ (StickyMemory => StickyMemory')
          /\ (StickyMemory => reason = "other" \/ (reason # "none" /\ journal.phase = "none"))
      BY <3>2 DEF Rewrite, StickyMemory
    <3>4. w = "ok" => holder' = h /\ marker'.holder = h
      BY <3>2 DEF Rewrite, OnDisk, MarkerOf
    <3>5. w # "ok" => holder' = holder /\ spawn' = spawn
      BY <1>1, <3>2 DEF BeginSpawn, Rewrite
    <3> HIDE DEF h
    <3>6. CASE w # "ok"
      <4>1. UNCHANGED procVars
        BY <3>2, <3>5, <3>6 DEF procVars
      <4> QED BY <3>1, <3>2, <3>3, <3>5, <3>6, <4>1, HolderWrite
    <3>7. CASE w = "ok"
      <4>1. spawn' = [spawn EXCEPT ![s] = [at |-> "begun", claim |-> c, child |-> {}]]
        BY <1>1, <2>1, <3>7 DEF BeginSpawn
      <4>2. /\ spawn'[s].at = "begun" /\ spawn'[s].claim = c /\ spawn'[s].child = {}
            /\ \A ch \in spawn[s].child : ch \in {}
        BY <1>0, <1>1, <4>1 DEF BeginSpawn, ChildInv, SpawnHasClaim, IdleSpawn
      <4>3. SpawnHasClaim'
        BY <1>0, <3>1, <3>2, <3>4, <3>7, <4>2 DEF SpawnHasClaim, Held
      <4>4. Recorded(marker')
        BY <3>1, <3>2, <3>3, WriteRecords
      <4>5. Working' = Working
        BY <3>2 DEF Working
      <4>6. WorkIsRecorded'
        BY <3>2, <4>4, <4>5 DEF WorkIsRecorded, Recorded
      <4>7. \A ch \in Working : act[ch] = holder.claim /\ (ch \in holder.kids \/ StickyMemory)
        BY <1>0, <3>2, <4>2 DEF ChildInv, WorkIsKnown
      <4>8. WorkIsKnown'
        BY <3>1, <3>2, <3>3, <3>4, <3>7, <4>5, <4>7 DEF WorkIsKnown
      <4> QED BY <4>3, <4>6, <4>8 DEF ChildInv
    <3> QED BY <3>6, <3>7
  <2>2. CASE ~Held(c)
    BY <1>1, <2>2, MemoryOnly DEF BeginSpawn, Poison, StickyMemory, procVars
  <2> QED BY <2>1, <2>2
<1>2. ASSUME NEW ch \in Child, VendorSpawn(s, ch) PROVE ChildInv'
  <2>1. /\ spawn[s].at = "begun" /\ spawn'[s].at = "made" /\ spawn'[s].child = {ch}
        /\ spawn'[s].claim = holder.claim
    BY <1>0, <1>2, <1>a DEF VendorSpawn
  <2>2. act'[ch] = holder.claim /\ (\A k \in Child \ {ch} : act'[k] = act[k])
    BY <1>0, <1>2, <1>a DEF VendorSpawn
  <2>3. UNCHANGED <<holder, reason, journal, marker>>
    BY <1>2 DEF VendorSpawn, leaseVars
  <2>4. SpawnHasClaim'
    BY <1>0, <1>a, <2>1, <2>3 DEF SpawnHasClaim, Held
  <2>5. WorkIsRecorded'
    BY <1>b, <2>1, <2>2, <2>3 DEF ChildInv, WorkIsRecorded, Working
  <2>6. WorkIsKnown'
    BY <1>0, <1>b, <2>1, <2>2, <2>3 DEF ChildInv, WorkIsKnown, Working, StickyMemory
  <2> QED BY <2>4, <2>5, <2>6 DEF ChildInv
<1>3. ASSUME NEW ch \in Child, AttachChild(s, ch) PROVE ChildInv'
  <2>1. /\ spawn[s].at = "begun" /\ spawn'[s].at = "made" /\ spawn'[s].child = {ch}
        /\ spawn'[s].claim = holder.claim
    BY <1>0, <1>3, <1>a DEF AttachChild
  <2>2. UNCHANGED <<holder, reason, journal, marker, act>> /\ Working' = Working
    BY <1>3 DEF AttachChild, leaseVars, Working
  <2>3. SpawnHasClaim'
    BY <1>0, <1>a, <2>1, <2>2 DEF SpawnHasClaim, Held
  <2>4. WorkIsRecorded' /\ WorkIsKnown'
    BY <1>0, <1>b, <2>1, <2>2 DEF ChildInv, WorkIsRecorded, WorkIsKnown, StickyMemory
  <2> QED BY <2>3, <2>4 DEF ChildInv
<1>4. ASSUME NEW ch \in Child, NEW exists \in BOOLEAN, NEW w \in WriteOutcome,
             SpawnRaised(s, ch, exists, w)
      PROVE  ChildInv'
  <2>1. /\ spawn[s].at = "begun" /\ spawn'[s] = IdleSpawn
        /\ RequireRecovery("other", {}, w) /\ UNCHANGED <<holder, journal>>
    BY <1>0, <1>4 DEF SpawnRaised
  <2>2. /\ \A k \in Child \ {ch} : act'[k] = act[k]
        /\ act'[ch] \in {0, holder.claim}
    BY <1>0, <1>4, <1>a DEF SpawnRaised
  <2>3. marker' = OnDisk(w, MarkerOf(holder, "other", cleanup \cup {}, journal)) /\ StickyMemory'
    BY <1>a, <2>1 DEF RequireRecovery, StickyMemory
  <2>4. Recorded(marker') /\ marker'.holder.claim = holder.claim /\ marker'.holder.pending
    BY <1>a, <2>1, <2>3, WriteRecords
  <2>5. SpawnHasClaim'
    BY <1>0, <2>1 DEF SpawnHasClaim, IdleSpawn
  <2>6. WorkIsRecorded'
    BY <2>2, <2>4 DEF Recorded, WorkIsRecorded, Working
  <2>7. WorkIsKnown'
    BY <1>a, <2>1, <2>2, <2>3 DEF ChildInv, WorkIsKnown, Working
  <2> QED BY <2>5, <2>6, <2>7 DEF ChildInv
<1>5. ASSUME NEW w \in WriteOutcome, TrackChild(s, w) PROVE ChildInv'
  <2> DEFINE h == Tracked(holder, spawn[s].child)
  <2>1. h.claim = holder.claim /\ ~h.pending /\ h.kids = holder.kids \cup spawn[s].child
    BY DEF Tracked, TypeOK, WriterClaim
  <2>2. /\ Rewrite(h, w) /\ UNCHANGED <<cleanup, journal, act>> /\ holder.claim # 0
        /\ Working' = Working /\ spawn[s].at = "made" /\ spawn[s].claim = holder.claim
    BY <1>5, <1>a DEF TrackChild, Held, Working
  <2>3. marker' = OnDisk(w, MarkerOf(h, reason, cleanup, journal))
    BY <2>2 DEF Rewrite
  <2>4. IF w = "ok" THEN holder' = h /\ reason' = reason
                    ELSE reason' = "other" /\ holder' = holder
    BY <2>2 DEF Rewrite
  <2>5. IF w = "ok" THEN spawn'[s] = IdleSpawn
                    ELSE /\ spawn'[s].at = "failed" /\ spawn'[s].claim = spawn[s].claim
                         /\ spawn'[s].child = spawn[s].child
    BY <1>0, <1>5 DEF TrackChild
  <2>6. Recorded(MarkerOf(h, reason, cleanup, journal))
    <3> DEFINE m == MarkerOf(h, reason, cleanup, journal)
    <3>1. m.holder = h /\ (StickyMemory => Sticky(m))
      BY DEF MarkerOf, Sticky, StickyMemory
    <3>2. \A ch \in Working : act[ch] = holder.claim /\ (ch \in h.kids \/ StickyMemory)
      BY <1>0, <2>1, <2>2 DEF ChildInv, WorkIsKnown
    <3> HIDE DEF m, h
    <3>3. Recorded(m)
      BY <2>1, <3>1, <3>2 DEF Recorded
    <3> QED BY <3>3 DEF m
  <2>7. Recorded(marker')
    BY <2>3, <2>6 DEF OnDisk, ChildInv, WorkIsRecorded, Recorded
  <2> HIDE DEF h
  <2>8. WorkIsRecorded'
    BY <2>2, <2>7 DEF Recorded, WorkIsRecorded
  <2>9. SpawnHasClaim'
    BY <1>0, <1>a, <2>2, <2>4, <2>5 DEF SpawnHasClaim, Held, IdleSpawn
  <2>10. WorkIsKnown'
    BY <1>0, <2>1, <2>2, <2>4, <2>5 DEF ChildInv, WorkIsKnown, StickyMemory
  <2> QED BY <2>8, <2>9, <2>10 DEF ChildInv
<1>6. ASSUME TrackMismatch(s) PROVE ChildInv'
  BY <1>6 DEF TrackMismatch, ChildInv, SpawnHasClaim
<1>7. ASSUME NEW killed \in BOOLEAN, NEW w \in WriteOutcome, TrackFailed(s, killed, w)
      PROVE  ChildInv'
  <2>1. /\ spawn[s].at = "failed" /\ spawn'[s] = IdleSpawn
        /\ RequireRecovery("other", {}, w) /\ UNCHANGED <<holder, journal>>
    BY <1>0, <1>7 DEF TrackFailed
  <2>2. \A k \in Child : act'[k] \in {0, act[k]}
    BY <1>0, <1>7 DEF TrackFailed
  <2>3. marker' = OnDisk(w, MarkerOf(holder, "other", cleanup \cup {}, journal)) /\ StickyMemory'
    BY <1>a, <2>1 DEF RequireRecovery, StickyMemory
  <2>4. Recorded(marker')
    BY <1>a, <2>1, <2>3, WriteRecords
  <2>5. SpawnHasClaim'
    BY <1>0, <2>1 DEF SpawnHasClaim, IdleSpawn
  <2>6. WorkIsRecorded'
    BY <2>2, <2>4 DEF Recorded, WorkIsRecorded, Working
  <2>7. WorkIsKnown'
    BY <1>a, <2>1, <2>2, <2>3 DEF ChildInv, WorkIsKnown, Working
  <2> QED BY <2>5, <2>6, <2>7 DEF ChildInv
<1> QED BY <1>1, <1>2, <1>3, <1>4, <1>5, <1>6, <1>7

\* A child that starts a turn is named on disk already.
LEMMA ChildrenChild == TypeOK /\ DurableInv /\ ChildInv /\ Children => ChildInv'
<1>1. ASSUME TypeOK, DurableInv, ChildInv, NEW ch \in Child, ChildWorks(ch) PROVE ChildInv'
  <2>1. /\ holder.claim # 0 /\ ch \in holder.kids
        /\ UNCHANGED <<holder, reason, journal, marker, spawn>>
    BY <1>1 DEF ChildWorks, leaseVars
  <2>2. act'[ch] = holder.claim /\ (\A k \in Child \ {ch} : act'[k] = act[k])
    BY <1>1 DEF ChildWorks, TypeOK
  <2>3. marker.holder = holder
    BY <1>1 DEF ChildWorks, DurableInv, MemoryIsDurable, MarkerOf
  <2>4. WorkIsRecorded' /\ WorkIsKnown'
    BY <1>1, <2>1, <2>2, <2>3 DEF ChildInv, WorkIsRecorded, WorkIsKnown, Working, StickyMemory
  <2> QED BY <1>1, <2>1, <2>4 DEF ChildInv, SpawnHasClaim, Held
<1>2. ASSUME TypeOK, ChildInv, NEW ch \in Child, ChildStops(ch) PROVE ChildInv'
  <2>1. UNCHANGED <<holder, reason, journal, marker, spawn>>
    BY <1>2 DEF ChildStops, leaseVars
  <2>2. \A k \in Child : act'[k] \in {0, act[k]}
    BY <1>2 DEF ChildStops, TypeOK
  <2>3. WorkIsRecorded' /\ WorkIsKnown'
    BY <1>2, <2>1, <2>2 DEF ChildInv, WorkIsRecorded, WorkIsKnown, Working, StickyMemory
  <2> QED BY <1>2, <2>1, <2>3 DEF ChildInv, SpawnHasClaim, Held
<1> QED BY <1>1, <1>2 DEF Children

\* A crash keeps the evidence on disk.
LEMMA CrashChild == ChildInv /\ Crash => ChildInv'
<1> SUFFICES ASSUME ChildInv, Crash PROVE ChildInv'
  OBVIOUS
<1>1. \A k \in Child : act'[k] \in {0, act[k]}
  BY DEF Crash
<1>2. holder'.claim = 0 /\ marker' = marker /\ (\A s \in Spawner : spawn'[s] = IdleSpawn)
  BY EmptyTypes DEF Crash
<1> QED BY <1>1, <1>2
        DEF ChildInv, SpawnHasClaim, WorkIsRecorded, WorkIsKnown, Working, IdleSpawn

\* A boot clears the marker only when nothing works.
LEMMA BootChild == TypeOK /\ DurableInv /\ ChildInv /\ Boot => ChildInv'
<1> SUFFICES ASSUME TypeOK, DurableInv, ChildInv, Boot PROVE ChildInv'
  OBVIOUS
<1>1. NewDaemon
  BY DEF Boot, BootFree, BootBlocked, BootRefuses, BootClears
<1>2. /\ holder'.claim = 0 /\ spawn' = spawn /\ act' = act /\ Working' = Working
      /\ \A s \in Spawner : spawn'[s] = IdleSpawn
  BY <1>1, EmptyTypes DEF NewDaemon, procVars, DurableInv, DownIsEmpty, Working
<1>3. marker' = marker \/ Working = {}
  <2>1. ASSUME NEW approvals, BootFree(approvals) PROVE marker' = marker
    BY <2>1 DEF BootFree, Refused
  <2>2. ASSUME NEW readable, NEW ownerSeen, NEW seen, BootBlocked(readable, ownerSeen, seen)
        PROVE  marker' = marker
    BY <2>2 DEF BootBlocked, Refused
  <2>3. ASSUME NEW approvals, NEW seen, BootRefuses(approvals, seen) PROVE marker' = marker
    BY <2>3 DEF BootRefuses, Refused
  <2>4. ASSUME NEW seen \in Answers, NEW gone, NEW w, BootClears(seen, gone, w)
        PROVE  Working = {}
    BY <2>4 DEF BootClears, OwnersGone, Answers, Clearable, JournalUsable, Sticky,
                ChildInv, WorkIsRecorded
  <2> QED BY <2>1, <2>2, <2>3, <2>4 DEF Boot
<1>4. WorkIsRecorded'
  BY <1>2, <1>3 DEF ChildInv, WorkIsRecorded
<1> QED BY <1>2, <1>4 DEF ChildInv, SpawnHasClaim, WorkIsKnown, IdleSpawn

\* Every step keeps the evidence of every working process.
LEMMA NextChild ==
    ASSUME OneSpawner PROVE TypeOK /\ DurableInv /\ ChildInv /\ [Next]_vars => ChildInv'
<1>1. ChildInv /\ FileChanges => ChildInv'
  BY MemoryOnly DEF FileChanges, leaseVars, StickyMemory
<1>2. ChildInv /\ UNCHANGED vars => ChildInv'
  BY MemoryOnly DEF vars, leaseVars, StickyMemory
<1> QED BY <1>1, <1>2, ClaimChild, RefuseChild, JournallingChild, SpawningChild, ChildrenChild,
           CrashChild, BootChild DEF Next

\* The evidence is complete in every reachable state.
THEOREM ChildInvHolds == ASSUME OneSpawner PROVE Spec => []ChildInv
<1>1. TypeOK /\ DurableInv /\ ChildInv /\ [Next]_vars => ChildInv'
  BY NextChild
<1> QED BY InitChild, <1>1, TypeCorrect, DurableInvHolds, PTL DEF Spec

\* For every instance with one thread in the spawner: the lease never grants a
\* claim while a process works or evidence of an earlier writer is on disk.
THEOREM GrantsAreSafe == ASSUME OneSpawner PROVE Spec => []GrantIsSafe
<1>1. TypeOK /\ DurableInv /\ ChildInv => GrantIsSafe
  BY NobodyWorks DEF GrantIsSafe, DurableInv, FreeMeansClear
<1> QED BY <1>1, TypeCorrect, DurableInvHolds, ChildInvHolds, PTL

\* For every instance with one thread in the spawner: never two writers, in one
\* daemon's life or across restarts.
THEOREM OneWriter == ASSUME OneSpawner PROVE Spec => []NoTwoWriters
<1>1. ChildInv => NoTwoWriters
  BY DEF ChildInv, WorkIsRecorded, WorkIsKnown, NoTwoWriters
<1> QED BY <1>1, ChildInvHolds, PTL

\* For every instance with one thread in the spawner: every process that works
\* can be found from the disk alone.
THEOREM WorkStaysRecorded == ASSUME OneSpawner PROVE Spec => []WorkIsRecorded
<1>1. ChildInv => WorkIsRecorded
  BY DEF ChildInv
<1> QED BY <1>1, ChildInvHolds, PTL

(***************************************************************************)
(* What a registry write may leave behind.                                 *)
(***************************************************************************)
\* A write names a claim, and drops a journal only under a standing refusal.
WritesWell ==
    /\ marker' = marker \/ marker'.holder.claim # 0
    /\ marker.journal.phase # "none" /\ marker'.journal.phase = "none" => Sticky(marker')

\* Requiring recovery drops no journal without refusing (require_recovery).
LEMMA RequireRecoveryWrites ==
    ASSUME NEW r, r # "none", NEW paths, NEW w, RequireRecovery(r, paths, w)
    PROVE  WritesWell
BY DEF RequireRecovery, OnDisk, MarkerOf, WritesWell, Sticky

\* A refusal made durable keeps every journal (mark_*).
LEMMA DurableRefusalWrites ==
    ASSUME NEW r, r # "none", NEW w, holder.claim # 0, DurableRefusal(holder, r, w)
    PROVE  WritesWell
BY DEF DurableRefusal, OnDisk, MarkerOf, WritesWell, Sticky

\* A plain rewrite keeps what the new holder keeps (_persist).
LEMMA RewriteWrites ==
    ASSUME MemoryIsDurable, holder.claim # 0, NEW h, h.claim = holder.claim, NEW w, Rewrite(h, w)
    PROVE  WritesWell
BY DEF Rewrite, OnDisk, MarkerOf, MemoryIsDurable, WritesWell, Sticky

\* The operations on the claim; a release empties the registry only of a quiet claim.
LEMMA ClaimWrites ==
    ASSUME TypeOK, DurableInv, Claim
    PROVE  \/ WritesWell
           \/ /\ marker' = NoMarker /\ marker.journal.phase = "none"
              /\ \A ch \in Child : act[ch] # marker.holder.claim
<1>1. ASSUME NEW r, NEW w, Acquire(r, w) PROVE WritesWell
  <2>1. marker = NoMarker /\ minted \in Nat
    BY <1>1, BoundsNat DEF Acquire, DurableInv, FreeMeansClear, TypeOK
  <2>2. minted' # 0
    BY <1>1, <2>1 DEF Acquire
  <2> QED BY <1>1, <2>1, <2>2 DEF Acquire, OnDisk, MarkerOf, NoMarker, NoJournal, WritesWell
<1>2. ASSUME NEW c, NEW r, NEW w, Promote(c, r, w) PROVE WritesWell
  <2>1. CASE Held(c)
    <3>1. [holder EXCEPT !.run = r].claim = holder.claim
      BY DEF TypeOK, WriterClaim
    <3> QED BY <1>2, <2>1, <3>1, RewriteWrites DEF Promote, Held, DurableInv
  <2>2. CASE ~Held(c)
    BY <1>2, <2>2 DEF Promote, Poison, WritesWell
  <2> QED BY <2>1, <2>2
<1>3. ASSUME NEW c \in Known, NEW proven \in BOOLEAN, NEW w, Release(c, proven, w)
      PROVE  \/ WritesWell
             \/ /\ marker' = NoMarker /\ marker.journal.phase = "none"
                /\ \A ch \in Child : act[ch] # marker.holder.claim
  <2>1. holder.claim = c /\ c # 0
    BY <1>3 DEF Release, Held
  <2>2. CASE journal.phase # "none" /\ DurableRefusal(holder, IF reason = "none" THEN "uncleared" ELSE reason, w)
    <3>1. (IF reason = "none" THEN "uncleared" ELSE reason) # "none"
      OBVIOUS
    <3> QED BY <2>1, <2>2, <3>1, DurableRefusalWrites
  <2>3. CASE DurableRefusal(holder, "other", w)
    BY <2>1, <2>3, DurableRefusalWrites
  <2>4. CASE /\ journal.phase = "none" /\ reason = "none" /\ proven
             /\ marker' = IF marker.holder.claim = c THEN OnDisk(w, NoMarker) ELSE marker
    <3>1. Quiet(c)
      BY <1>3, <2>4 DEF Release
    <3>2. marker.journal = journal
      BY <2>1, <2>4 DEF DurableInv, MemoryIsDurable, MarkerOf
    <3> QED BY <2>4, <3>1, <3>2 DEF OnDisk, Quiet, WritesWell
  <2> QED BY <1>3, <2>2, <2>3, <2>4 DEF Release
<1>4. ASSUME NEW c, NEW w, StaleReleaseClaim(c, w) PROVE WritesWell
  BY <1>4, RequireRecoveryWrites DEF StaleReleaseClaim
<1> QED BY <1>1, <1>2, <1>3, <1>4 DEF Claim

\* Refusing a start drops no journal.
LEMMA RefuseWrites ==
    ASSUME Refuse
    PROVE  WritesWell
BY RequireRecoveryWrites DEF Refuse, Verify, Poison, ReportUncertain, WritesWell

\* A journal is cleared only when its files prove it.
LEMMA JournallingWrites ==
    ASSUME TypeOK, DurableInv, Journalling
    PROVE  /\ marker' = marker \/ marker'.holder.claim # 0
           /\ marker.journal.phase # "none" /\ marker'.journal.phase = "none" =>
                 Sticky(marker') \/ (ClearProven(marker.journal) /\ temp' = temp)
<1>1. PICK c \in Known, j \in Journals \cup {NoJournal}, w \in WriteOutcome, w2 \in WriteOutcome :
         SetApplyRecovery(c, j, w, w2)
  BY DEF Journalling
<1>2. /\ holder.claim # 0 /\ reason = "none" /\ temp' = temp
      /\ marker.journal = journal
  BY <1>1 DEF SetApplyRecovery, SetApply, Held, diskVars, DurableInv, MemoryIsDurable, MarkerOf
<1>3. CASE DurableRefusal(holder, "other", w2)
  BY <1>2, <1>3, DurableRefusalWrites DEF WritesWell
<1>4. CASE /\ JournalWrite(j, w, w2)
           /\ journal.phase # "none" /\ j.phase = "none" => ClearProven(journal)
  BY <1>2, <1>4 DEF JournalWrite, OnDisk, MarkerOf, Sticky
<1> QED BY <1>1, <1>3, <1>4 DEF SetApplyRecovery, SetApply


\* A step of a spawner keeps the journal and the claim.
LEMMA SpawningWrites ==
    ASSUME TypeOK, DurableInv, Spawning
    PROVE  WritesWell
<1>1. ASSUME NEW s, NEW c, NEW w, BeginSpawn(s, c, w) PROVE WritesWell
  <2>1. CASE Held(c)
    <3>1. [holder EXCEPT !.pending = TRUE].claim = holder.claim
      BY DEF TypeOK, WriterClaim
    <3> QED BY <1>1, <2>1, <3>1, RewriteWrites DEF BeginSpawn, Held, DurableInv
  <2>2. CASE ~Held(c)
    BY <1>1, <2>2 DEF BeginSpawn, Poison, WritesWell
  <2> QED BY <2>1, <2>2
<1>2. ASSUME NEW s, NEW ch, VendorSpawn(s, ch) \/ AttachChild(s, ch) PROVE WritesWell
  BY <1>2 DEF VendorSpawn, AttachChild, WritesWell
<1>3. ASSUME NEW s, NEW ch, NEW exists, NEW w, SpawnRaised(s, ch, exists, w) PROVE WritesWell
  BY <1>3, RequireRecoveryWrites DEF SpawnRaised
<1>4. ASSUME NEW s, NEW w, TrackChild(s, w) PROVE WritesWell
  <2>1. Tracked(holder, spawn[s].child).claim = holder.claim
    BY DEF TypeOK, WriterClaim, Tracked
  <2> QED BY <1>4, <2>1, RewriteWrites DEF TrackChild, Held, DurableInv
<1>5. ASSUME NEW s, TrackMismatch(s) PROVE WritesWell
  BY <1>5 DEF TrackMismatch, Poison, WritesWell
<1>6. ASSUME NEW s, NEW killed, NEW w, TrackFailed(s, killed, w) PROVE WritesWell
  BY <1>6, RequireRecoveryWrites DEF TrackFailed
<1> QED BY <1>1, <1>2, <1>3, <1>4, <1>5, <1>6 DEF Spawning

\* A boot that empties the registry has found no process of the claim and files that
\* are wholly base or wholly final, and has removed every staged file.
LEMMA BootWrites ==
    ASSUME Boot
    PROVE  \/ marker' = marker
           \/ /\ marker # NoMarker /\ marker' = NoMarker /\ ~marker.holder.pending /\ ~Sticky(marker)
              /\ \A ch \in marker.holder.kids : ch \notin Working
              /\ marker.journal.phase # "none" =>
                    /\ AllBase(marker.journal) \/ AllFinal(marker.journal)
                    /\ \A t \in Staged(marker.journal) : temp'[t] = Absent
<1>1. ASSUME NEW approvals, BootFree(approvals) PROVE marker' = marker
  BY <1>1 DEF BootFree, Refused
<1>2. ASSUME NEW readable, NEW ownerSeen, NEW seen, BootBlocked(readable, ownerSeen, seen)
      PROVE  marker' = marker
  BY <1>2 DEF BootBlocked, Refused
<1>3. ASSUME NEW approvals, NEW seen, BootRefuses(approvals, seen) PROVE marker' = marker
  BY <1>3 DEF BootRefuses, Refused
<1>4. ASSUME NEW seen \in Answers, NEW gone, NEW w, BootClears(seen, gone, w), marker' # marker
      PROVE  /\ marker # NoMarker /\ marker' = NoMarker /\ ~marker.holder.pending /\ ~Sticky(marker)
             /\ \A ch \in marker.holder.kids : ch \notin Working
             /\ marker.journal.phase # "none" =>
                   /\ AllBase(marker.journal) \/ AllFinal(marker.journal)
                   /\ \A t \in Staged(marker.journal) : temp'[t] = Absent
  <2>1. /\ marker # NoMarker /\ ~marker.holder.pending /\ marker.holder.kids \cap seen = {}
        /\ Working \subseteq seen /\ Clearable
    BY <1>4 DEF BootClears, OwnersGone, Answers
  <2>2. ~Sticky(marker)
    BY <2>1 DEF Clearable, JournalUsable, Sticky
  <2>3. marker.journal.phase # "none" => AllBase(marker.journal) \/ AllFinal(marker.journal)
    BY <2>1 DEF Clearable, JournalUsable
  <2>4. /\ marker' = NoMarker
        /\ temp' = [t \in Temp |-> IF t \in gone THEN Absent ELSE temp[t]]
        /\ \A t \in Staged(marker.journal) \ gone : temp[t] = Absent
    BY <1>4 DEF BootClears, OnDisk
  <2>5. \A t \in Staged(marker.journal) : temp'[t] = Absent
    BY <2>4 DEF Staged
  <2> QED BY <2>1, <2>2, <2>3, <2>4, <2>5
<1> QED BY <1>1, <1>2, <1>3, <1>4 DEF Boot

\* What any step leaves in the registry.
LEMMA StepWrites ==
    ASSUME TypeOK, DurableInv, [Next]_vars
    PROVE  /\ \/ marker' = marker
              \/ marker'.holder.claim # 0
              \/ /\ marker' = NoMarker /\ marker # NoMarker
                 /\ \/ \A ch \in Child : act[ch] # marker.holder.claim
                    \/ /\ ~marker.holder.pending /\ ~Sticky(marker)
                       /\ \A ch \in marker.holder.kids : ch \notin Working
           /\ marker.journal.phase # "none" /\ marker'.journal.phase = "none" =>
                 \/ Sticky(marker')
                 \/ /\ AllBase(marker.journal) \/ AllFinal(marker.journal)
                    /\ \A t \in Staged(marker.journal) : temp'[t] = Absent
<1>1. CASE Claim
  BY <1>1, ClaimWrites DEF WritesWell
<1>2. CASE Refuse
  BY <1>2, RefuseWrites DEF WritesWell
<1>3. CASE Journalling
  BY <1>3, JournallingWrites DEF ClearProven, StagedAbsent
<1>4. CASE Spawning
  BY <1>4, SpawningWrites DEF WritesWell
<1>5. CASE Children \/ Crash \/ FileChanges \/ UNCHANGED vars
  BY <1>5 DEF Children, ChildWorks, ChildStops, Crash, FileChanges, vars
<1>6. CASE Boot
  BY <1>6, BootWrites
<1> QED BY <1>1, <1>2, <1>3, <1>4, <1>5, <1>6 DEF Next

\* A durable apply journal disappears only over files that are wholly at their base or
\* wholly final with every staged file gone, unless a standing refusal takes its place.
THEOREM JournalsErasedWhole == Spec => JournalErasedWhole
<1>1. TypeOK /\ DurableInv /\ [Next]_vars =>
        [marker.journal.phase # "none" /\ marker'.journal.phase = "none"
            => \/ Sticky(marker')
               \/ /\ AllBase(marker.journal) \/ AllFinal(marker.journal)
                  /\ \A t \in Staged(marker.journal) : temp'[t] = Absent]_vars
  BY StepWrites
<1> QED BY <1>1, TypeCorrect, DurableInvHolds, PTL DEF Spec, JournalErasedWhole

\* A marker always names a claim.
LEMMA MarkerStaysOwned == Spec => []MarkerIsOwned
<1>1. Init => MarkerIsOwned
  BY DEF Init, MarkerIsOwned
<1>2. TypeOK /\ DurableInv /\ MarkerIsOwned /\ [Next]_vars => MarkerIsOwned'
  BY StepWrites DEF MarkerIsOwned
<1> QED BY <1>1, <1>2, TypeCorrect, DurableInvHolds, PTL DEF Spec

\* For every instance with one thread in the spawner: the registry is emptied only when
\* no process works for the claim it names.
THEOREM EmptiedWhenQuiet == ASSUME OneSpawner PROVE Spec => ClearedOnlyWhenQuiet
<1>1. TypeOK /\ DurableInv /\ ChildInv /\ MarkerIsOwned /\ [Next]_vars =>
        [marker # NoMarker /\ marker' = NoMarker
            => \A ch \in Child : act[ch] # marker.holder.claim]_vars
  <2> SUFFICES ASSUME TypeOK, DurableInv, ChildInv, MarkerIsOwned, [Next]_vars,
                      marker # NoMarker, marker' = NoMarker,
                      NEW ch \in Child, act[ch] = marker.holder.claim
               PROVE  FALSE
    OBVIOUS
  <2>1. marker.holder.claim # 0 /\ ch \in Working /\ marker'.holder.claim = 0
    BY EmptyTypes DEF MarkerIsOwned, Working, NoMarker
  <2>2. marker.holder.pending \/ ch \in marker.holder.kids \/ Sticky(marker)
    BY <2>1 DEF ChildInv, WorkIsRecorded
  <2> QED BY <2>1, <2>2, StepWrites
<1> QED BY <1>1, MarkerStaysOwned, TypeCorrect, DurableInvHolds, ChildInvHolds, PTL
        DEF Spec, ClearedOnlyWhenQuiet


(***************************************************************************)
(* What the daemon knows of its children, with any number of spawners.     *)
(***************************************************************************)
\* It holds at the start.
LEMMA InitKnown == Init => KnownInv
<1> SUFFICES ASSUME Init PROVE KnownInv
  OBVIOUS
<1>1. /\ holder.claim = 0 /\ minted = 0 /\ \A ch \in Child : act[ch] = 0
      /\ \A s \in Spawner : spawn[s] = IdleSpawn
  BY EmptyTypes DEF Init
<1>2. IdleSpawn.claim = 0 /\ IdleSpawn.at = "idle"
  BY DEF IdleSpawn
<1> QED BY <1>1, <1>2 DEF KnownInv, LiveChildIsKnown, Working

\* A step of the claim alone, which keeps the children it tracks or refuses.
LEMMA HolderKnown ==
    ASSUME TypeOK, KnownInv, UNCHANGED <<minted, procVars>>,
           \/ reason' # "none" /\ holder'.claim \in {0, holder.claim}
           \/ holder'.claim = 0
           \/ /\ holder'.claim = holder.claim /\ holder.kids \subseteq holder'.kids
              /\ reason' = reason
    PROVE  KnownInv'
<1>1. 0 <= minted
  BY BoundsNat DEF TypeOK
<1>2. Working' = Working
  BY DEF Working, procVars
<1> QED BY <1>1, <1>2 DEF KnownInv, LiveChildIsKnown, Working, procVars

\* A step that refuses, whatever it makes of threads and children.
LEMMA RefusedKnown ==
    ASSUME TypeOK, KnownInv, reason' # "none", holder'.claim = holder.claim, minted' = minted,
           \A s \in Spawner : /\ spawn'[s].at = "idle" => spawn'[s] = IdleSpawn
                              /\ spawn'[s].at = "begun" => spawn'[s].child = {}
                              /\ spawn'[s].claim <= minted,
           \A ch \in Child : act'[ch] <= minted
    PROVE  KnownInv'
BY DEF KnownInv, LiveChildIsKnown

\* After require_recovery the lease refuses.
LEMMA RequireRecoveryRefuses ==
    ASSUME NEW r, r # "none", NEW paths, NEW w, RequireRecovery(r, paths, w)
    PROVE  reason' # "none"
BY DEF RequireRecovery

\* After a durable refusal the lease refuses.
LEMMA DurableRefusalRefuses ==
    ASSUME NEW r, r # "none", NEW h, NEW w, DurableRefusal(h, r, w)
    PROVE  reason' # "none"
BY DEF DurableRefusal

\* Reserving, releasing and handing over keep it.
LEMMA ClaimKnown == ASSUME TypeOK, KnownInv, Claim PROVE KnownInv'
<1>1. ASSUME NEW r \in Run \cup {NoRun}, NEW w, Acquire(r, w) PROVE KnownInv'
  <2>1. minted' = minted + 1 /\ minted \in Nat /\ holder'.claim \in {0, minted'} /\ act' = act /\ spawn' = spawn
    BY <1>1, BoundsNat, EmptyTypes DEF Acquire, TypeOK, procVars
  <2>2. Working' = Working
    BY <2>1 DEF Working
  <2>3. /\ \A ch \in Child : act[ch] \in Nat /\ act[ch] <= minted
        /\ \A s \in Spawner : spawn[s].claim \in Nat /\ spawn[s].claim <= minted
    BY BoundsNat DEF TypeOK, KnownInv
  <2>4. /\ \A ch \in Child : act[ch] <= minted' /\ act[ch] # minted'
        /\ \A s \in Spawner : spawn[s].claim <= minted'
        /\ holder'.claim <= minted'
    BY <2>1, <2>3
  <2>5. LiveChildIsKnown'
    BY <2>1, <2>2, <2>4 DEF LiveChildIsKnown, Working
  <2> QED BY <2>1, <2>4, <2>5 DEF KnownInv
<1>2. ASSUME NEW c, NEW r, NEW w, Promote(c, r, w) PROVE KnownInv'
  <2>1. [holder EXCEPT !.run = r].claim = holder.claim /\ [holder EXCEPT !.run = r].kids = holder.kids
    BY DEF TypeOK, WriterClaim
  <2>2. \/ holder' = holder /\ reason' = "other"
        \/ holder' = [holder EXCEPT !.run = r] /\ reason' = reason
    BY <1>2 DEF Promote, Rewrite, Poison
  <2>3. UNCHANGED <<minted, procVars>>
    BY <1>2 DEF Promote
  <2> QED BY <2>1, <2>2, <2>3, HolderKnown
<1>3. ASSUME NEW c, NEW proven, NEW w, Release(c, proven, w) PROVE KnownInv'
  <2>1. UNCHANGED <<minted, procVars>>
    BY <1>3 DEF Release
  <2>2. \/ holder' = holder /\ reason' # "none"
        \/ holder' = NoHolder
    BY <1>3, DurableRefusalRefuses DEF Release
  <2> QED BY <2>1, <2>2, HolderKnown, EmptyTypes
<1>4. ASSUME NEW c, NEW w, StaleReleaseClaim(c, w) PROVE KnownInv'
  BY <1>4, HolderKnown, RequireRecoveryRefuses DEF StaleReleaseClaim
<1> QED BY <1>1, <1>2, <1>3, <1>4 DEF Claim

\* Refusing a start keeps it.
LEMMA RefuseKnown == ASSUME TypeOK, KnownInv, Refuse PROVE KnownInv'
<1>1. reason' # "none" /\ holder' = holder /\ UNCHANGED <<minted, procVars>>
  BY RequireRecoveryRefuses DEF Refuse, Verify, Poison, ReportUncertain
<1> QED BY <1>1, HolderKnown

\* The journal's operations keep it.
LEMMA JournallingKnown == ASSUME TypeOK, KnownInv, Journalling PROVE KnownInv'
<1>1. /\ holder' = holder /\ UNCHANGED <<minted, procVars>>
      /\ reason' # "none" \/ reason' = reason
  BY DurableRefusalRefuses DEF Journalling, SetApplyRecovery, SetApply, JournalWrite
<1> QED BY <1>1, HolderKnown

\* What children do, and learning that they are gone, keeps it.
LEMMA ChildrenKnown == ASSUME TypeOK, KnownInv, Children PROVE KnownInv'
<1>1. UNCHANGED <<minted, holder, reason, spawn>> /\ act \in [Child -> 0 .. MaxClaims]
  BY DEF Children, ChildWorks, ChildStops, leaseVars, TypeOK
<1>2. ASSUME NEW ch \in Child, ChildWorks(ch) PROVE KnownInv'
  <2>1. act' = [act EXCEPT ![ch] = holder.claim] /\ ch \in holder.kids
    BY <1>2 DEF ChildWorks
  <2> QED BY <1>1, <2>1 DEF KnownInv, LiveChildIsKnown, Working
<1>3. ASSUME NEW ch \in Child, ChildStops(ch) PROVE KnownInv'
  <2>1. act' = [act EXCEPT ![ch] = 0] /\ 0 <= minted
    BY <1>3, BoundsNat DEF ChildStops, TypeOK
  <2> QED BY <1>1, <2>1 DEF KnownInv, LiveChildIsKnown, Working
<1> QED BY <1>2, <1>3 DEF Children

\* A crash of the daemon keeps it.
LEMMA CrashKnown == ASSUME TypeOK, KnownInv, Crash PROVE KnownInv'
<1>1. /\ holder'.claim = 0 /\ minted' = minted /\ 0 <= minted
      /\ \A s \in Spawner : spawn'[s] = IdleSpawn
      /\ \A ch \in Child : act'[ch] \in {0, act[ch]}
  BY EmptyTypes, BoundsNat DEF Crash, TypeOK
<1>2. IdleSpawn.claim = 0 /\ IdleSpawn.at = "idle"
  BY DEF IdleSpawn
<1> QED BY <1>1, <1>2 DEF KnownInv, LiveChildIsKnown, Working

\* A boot refuses, or has found nobody working for the claim.
LEMMA BootKnown == ASSUME TypeOK, KnownInv, Boot PROVE KnownInv'
<1>1. NewDaemon
  BY DEF Boot, BootFree, BootBlocked, BootRefuses, BootClears
<1> QED BY <1>1, EmptyTypes, HolderKnown DEF NewDaemon


\* Spawning and tracking a child keep it.
LEMMA SpawningKnown == ASSUME TypeOK, KnownInv, Spawning PROVE KnownInv'
<1> SUFFICES ASSUME NEW s \in Spawner,
                    \/ \E c \in Known, w \in WriteOutcome : BeginSpawn(s, c, w)
                    \/ \E ch \in Child : VendorSpawn(s, ch) \/ AttachChild(s, ch)
                    \/ \E ch \in Child, exists \in BOOLEAN, w \in WriteOutcome :
                          SpawnRaised(s, ch, exists, w)
                    \/ \E w \in WriteOutcome : TrackChild(s, w)
                    \/ TrackMismatch(s)
                    \/ \E killed \in BOOLEAN, w \in WriteOutcome : TrackFailed(s, killed, w)
             PROVE  KnownInv'
  BY DEF Spawning
<1>0. /\ spawn \in [Spawner -> [at : {"idle", "begun", "made", "failed"},
                                claim : 0 .. MaxClaims, child : SUBSET Child]]
      /\ act \in [Child -> 0 .. MaxClaims] /\ 0 <= minted /\ holder \in WriterClaim
      /\ IdleSpawn.claim = 0 /\ IdleSpawn.at = "idle" /\ IdleSpawn.child = {}
  BY BoundsNat DEF TypeOK, IdleSpawn
<1>a. /\ \A t \in Spawner : /\ spawn[t].at = "idle" => spawn[t] = IdleSpawn
                            /\ spawn[t].at = "begun" => spawn[t].child = {}
                            /\ spawn[t].claim <= minted
      /\ holder.claim <= minted /\ \A ch \in Child : act[ch] <= minted
      /\ \A ch \in Working :
            act[ch] = holder.claim =>
               \/ ch \in holder.kids \/ reason # "none"
               \/ \E t \in Spawner : ch \in spawn[t].child
  BY DEF KnownInv, LiveChildIsKnown
<1>1. ASSUME NEW c \in Known, NEW w, BeginSpawn(s, c, w) PROVE KnownInv'
  <2> DEFINE h == [holder EXCEPT !.pending = TRUE]
  <2>1. h.claim = holder.claim /\ h.kids = holder.kids
    BY <1>0 DEF WriterClaim
  <2>2. /\ UNCHANGED <<minted, act>>
        /\ \/ holder' = holder /\ reason' = "other" /\ spawn' = spawn
           \/ /\ holder' = h /\ reason' = reason /\ c = holder.claim
              /\ spawn' = [spawn EXCEPT ![s] = [at |-> "begun", claim |-> c, child |-> {}]]
    BY <1>1 DEF BeginSpawn, Rewrite, Poison, Held
  <2> HIDE DEF h
  <2>3. CASE reason' = "other" /\ spawn' = spawn /\ holder' = holder
    BY <2>2, <2>3, HolderKnown DEF procVars
  <2>4. CASE /\ holder' = h /\ reason' = reason /\ c = holder.claim
             /\ spawn' = [spawn EXCEPT ![s] = [at |-> "begun", claim |-> c, child |-> {}]]
    <3>1. /\ spawn'[s].at = "begun" /\ spawn'[s].claim = holder.claim /\ spawn'[s].child = {}
          /\ \A t \in Spawner \ {s} : spawn'[t] = spawn[t]
      BY <1>0, <2>4
    <3>2. spawn[s].child = {}
      BY <1>0, <1>1, <1>a DEF BeginSpawn
    <3>3. \A ch : (\E t \in Spawner : ch \in spawn[t].child) => \E t \in Spawner : ch \in spawn'[t].child
      BY <3>1, <3>2
    <3>4. LiveChildIsKnown'
      BY <1>a, <2>1, <2>2, <2>4, <3>3 DEF LiveChildIsKnown, Working
    <3> QED BY <1>a, <2>1, <2>2, <2>4, <3>1, <3>4 DEF KnownInv
  <2> QED BY <2>2, <2>3, <2>4
<1>2. ASSUME NEW ch \in Child, VendorSpawn(s, ch) \/ AttachChild(s, ch) PROVE KnownInv'
  <2>1. /\ spawn[s].at = "begun" /\ UNCHANGED <<minted, holder, reason>>
        /\ spawn' = [spawn EXCEPT ![s].at = "made", ![s].child = {ch}]
        /\ act' \in {act, [act EXCEPT ![ch] = spawn[s].claim]}
    BY <1>2 DEF VendorSpawn, AttachChild, leaseVars
  <2>2. /\ spawn'[s].at = "made" /\ spawn'[s].claim = spawn[s].claim /\ spawn'[s].child = {ch}
        /\ \A t \in Spawner \ {s} : spawn'[t] = spawn[t]
    BY <1>0, <2>1
  <2>3. /\ act'[ch] \in {act[ch], spawn[s].claim}
        /\ \A k \in Child \ {ch} : act'[k] = act[k]
    BY <1>0, <2>1
  <2>4. spawn[s].child = {}
    BY <1>a, <2>1
  <2>5. \A k : (\E t \in Spawner : k \in spawn[t].child) => \E t \in Spawner : k \in spawn'[t].child
    BY <2>2, <2>4
  <2>6. LiveChildIsKnown'
    BY <1>a, <2>1, <2>2, <2>3, <2>5 DEF LiveChildIsKnown, Working
  <2>7. \A t \in Spawner : /\ spawn'[t].at = "idle" => spawn'[t] = IdleSpawn
                           /\ spawn'[t].at = "begun" => spawn'[t].child = {}
                           /\ spawn'[t].claim <= minted
    BY <1>a, <2>2
  <2>8. \A k \in Child : act'[k] <= minted
    BY <1>a, <2>3
  <2>9. minted' = minted /\ holder'.claim <= minted
    BY <1>a, <2>1
  <2> QED BY <2>6, <2>7, <2>8, <2>9 DEF KnownInv
<1>3. ASSUME NEW ch \in Child, NEW exists, NEW w, SpawnRaised(s, ch, exists, w) PROVE KnownInv'
  <2>1. /\ reason' # "none" /\ holder' = holder /\ minted' = minted
        /\ spawn' = [spawn EXCEPT ![s] = IdleSpawn]
        /\ act' \in {act, [act EXCEPT ![ch] = spawn[s].claim]}
    BY <1>3, RequireRecoveryRefuses DEF SpawnRaised
  <2> QED BY <1>0, <1>a, <2>1, RefusedKnown
<1>4. ASSUME NEW w, TrackChild(s, w) PROVE KnownInv'
  <2> DEFINE h == Tracked(holder, spawn[s].child)
  <2>1. h.claim = holder.claim /\ h.kids = holder.kids \cup spawn[s].child
    BY <1>0 DEF Tracked, WriterClaim
  <2>2. /\ UNCHANGED <<minted, act>> /\ spawn[s].at = "made"
        /\ \/ holder' = holder /\ reason' = "other" /\ spawn' = [spawn EXCEPT ![s] = [@ EXCEPT !.at = "failed"]]
           \/ holder' = h /\ reason' = reason /\ spawn' = [spawn EXCEPT ![s] = IdleSpawn]
    BY <1>4 DEF TrackChild, Rewrite
  <2> HIDE DEF h
  <2>3. CASE reason' = "other" /\ spawn' = [spawn EXCEPT ![s] = [@ EXCEPT !.at = "failed"]] /\ holder' = holder
    <3>1. /\ spawn'[s].at = "failed" /\ spawn'[s].claim = spawn[s].claim
          /\ \A t \in Spawner \ {s} : spawn'[t] = spawn[t]
      BY <1>0, <2>3
    <3> QED BY <1>a, <2>2, <2>3, <3>1, RefusedKnown
  <2>4. CASE holder' = h /\ reason' = reason /\ spawn' = [spawn EXCEPT ![s] = IdleSpawn]
    <3>1. spawn'[s] = IdleSpawn /\ \A t \in Spawner \ {s} : spawn'[t] = spawn[t]
      BY <1>0, <2>4
    <3>2. LiveChildIsKnown'
      BY <1>a, <2>1, <2>2, <2>4, <3>1 DEF LiveChildIsKnown, Working
    <3> QED BY <1>0, <1>a, <2>1, <2>2, <2>4, <3>1, <3>2 DEF KnownInv
  <2> QED BY <2>2, <2>3, <2>4
<1>5. ASSUME TrackMismatch(s) PROVE KnownInv'
  <2>1. /\ reason' # "none" /\ holder' = holder /\ minted' = minted /\ act' = act
        /\ spawn' = [spawn EXCEPT ![s].at = "failed"]
    BY <1>5 DEF TrackMismatch, Poison
  <2>2. /\ spawn'[s].at = "failed" /\ spawn'[s].claim = spawn[s].claim
        /\ \A t \in Spawner \ {s} : spawn'[t] = spawn[t]
    BY <1>0, <2>1
  <2> QED BY <1>a, <2>1, <2>2, RefusedKnown
<1>6. ASSUME NEW killed, NEW w, TrackFailed(s, killed, w) PROVE KnownInv'
  <2>1. /\ reason' # "none" /\ holder' = holder /\ minted' = minted
        /\ spawn' = [spawn EXCEPT ![s] = IdleSpawn]
        /\ \A ch \in Child : act'[ch] \in {0, act[ch]}
    BY <1>6, RequireRecoveryRefuses DEF TrackFailed
  <2>2. spawn'[s] = IdleSpawn /\ \A t \in Spawner \ {s} : spawn'[t] = spawn[t]
    BY <1>0, <2>1
  <2> QED BY <1>0, <1>a, <2>1, <2>2, RefusedKnown
<1> QED BY <1>1, <1>2, <1>3, <1>4, <1>5, <1>6

\* Every step keeps it.
LEMMA NextKnown == TypeOK /\ KnownInv /\ [Next]_vars => KnownInv'
<1>1. TypeOK /\ KnownInv /\ FileChanges => KnownInv'
  BY HolderKnown DEF FileChanges, leaseVars
<1>2. TypeOK /\ KnownInv /\ UNCHANGED vars => KnownInv'
  BY HolderKnown DEF vars, leaseVars
<1> QED BY <1>1, <1>2, ClaimKnown, RefuseKnown, JournallingKnown, SpawningKnown, ChildrenKnown,
           CrashKnown, BootKnown DEF Next

\* However many spawns overlap, the daemon knows every process that works for its live
\* claim: it is tracked, a spawner thread still carries it, or the lease refuses.
THEOREM LiveChildrenAreKnown == Spec => []LiveChildIsKnown
<1>1. KnownInv => LiveChildIsKnown
  BY DEF KnownInv
<1> QED BY <1>1, InitKnown, NextKnown, TypeCorrect, PTL DEF Spec

----------------------------------------------------------------------------
(***************************************************************************)
(* Facts of proposals, plans and file operations.                          *)
(***************************************************************************)
\* A proposal that was validated, read change by change.
LEMMA ChangesTyped ==
    ASSUME NEW chs \in Proposals \cup {<<>>}, NEW k \in DOMAIN chs
    PROVE  /\ chs \in Proposals /\ k \in Nat \ {0} /\ k \in 1 .. Len(chs)
           /\ chs[k] \in Change
           /\ chs[k].kind \in Kinds /\ chs[k].path \in Path /\ chs[k].old \in Path
           /\ chs[k].data \in Content
           /\ chs[k].kind = "delete" => chs[k].data = Absent
           /\ chs[k].kind \in {"create", "modify"} => chs[k].data # Absent
           /\ chs[k].kind = "rename" => chs[k].old # chs[k].path
           /\ \A l \in DOMAIN chs : k # l => Names(chs[k]) \cap Names(chs[l]) = {}
<1>1. chs \in Proposals /\ ValidProposal(chs)
  BY ProposalsValid
<1>2. k \in 1 .. Len(chs) /\ chs[k] \in Change
  BY <1>1 DEF ValidProposal
<1> QED BY <1>1, <1>2 DEF ValidProposal, Change

\* The file operations of one change are one or two.
LEMMA OpsFacts ==
    ASSUME NEW ch, ch.kind \in Kinds
    PROVE  /\ Len(Ops(ch)) \in {1, 2} /\ DOMAIN Ops(ch) = 1 .. Len(Ops(ch))
           /\ ch.kind = "create" => Len(Ops(ch)) = 1 /\ Ops(ch)[1] = <<"promote", ch.path>>
           /\ ch.kind = "delete" => Len(Ops(ch)) = 1 /\ Ops(ch)[1] = <<"unlink", ch.path>>
           /\ ch.kind = "modify" => /\ Len(Ops(ch)) = 2 /\ Ops(ch)[1] = <<"unlink", ch.path>>
                                    /\ Ops(ch)[2] = <<"promote", ch.path>>
           /\ ch.kind = "rename" => /\ Len(Ops(ch)) = 2 /\ Ops(ch)[1] = <<"promote", ch.path>>
                                    /\ Ops(ch)[2] = <<"unlink", ch.old>>
<1>1. CASE ch.kind = "create"
  BY <1>1 DEF Ops
<1>2. CASE ch.kind = "delete"
  BY <1>2 DEF Ops
<1>3. CASE ch.kind = "modify"
  BY <1>3 DEF Ops
<1>4. CASE ch.kind = "rename"
  BY <1>4 DEF Ops
<1> QED BY <1>1, <1>2, <1>3, <1>4 DEF Kinds

\* What a plan says of the files of its changes (the capture of prepare).
LEMMA PlanFacts ==
    ASSUME NEW chs \in Proposals, NEW f \in [Path -> Content],
           \A k \in DOMAIN chs : Preparable(chs[k], f)
    PROVE  LET j == JournalOf(chs, f)
           IN  /\ j \in Journal /\ j.phase = "staging"
               /\ \A p \in j.touch : j.base[p] = f[p]
               /\ \A p \in Path : p \in j.touch => \E k \in DOMAIN chs : p \in Names(chs[k])
               /\ \A p \in Path : j.staged[<<p, "new">>] = j.final[p]
               /\ \A k \in DOMAIN chs :
                     LET ch == chs[k]
                     IN  /\ Names(ch) \subseteq j.touch
                         /\ j.final[ch.path] = FinalOf(ch, f)
                         /\ \A p \in Sources(ch) : j.final[p] = Absent
                         /\ \A p \in Removes(ch) : j.staged[<<p, "backup">>] = f[p]
<1> DEFINE all     == {chs[k] : k \in DOMAIN chs}
           fin     == [p \in Path |-> IF \E ch \in all : ch.path = p
                                      THEN FinalOf(CHOOSE ch \in all : ch.path = p, f) ELSE Absent]
           removed == UNION {Removes(ch) : ch \in all}
           touched == {ch.path : ch \in all} \cup UNION {Sources(ch) : ch \in all}
           base    == [p \in Path |-> IF p \in touched THEN f[p] ELSE Absent]
           staged  == [t \in Temp |-> IF t[2] = "new" THEN fin[t[1]]
                                      ELSE IF t[1] \in removed THEN f[t[1]] ELSE Absent]
           j       == JournalOf(chs, f)
<1>0. j = [phase |-> "staging", touch |-> touched, base |-> base, final |-> fin,
           staged |-> staged]
  BY DEF JournalOf
<1>1. \A ch \in all : \E k \in DOMAIN chs : ch = chs[k]
  OBVIOUS
<1>2. \A k \in DOMAIN chs : /\ chs[k] \in all /\ chs[k].path \in Path /\ chs[k].old \in Path
                            /\ chs[k].data \in Content
  BY ChangesTyped
<1>3. touched \subseteq Path
  BY <1>1, <1>2 DEF Sources
<1>4. \A ch \in all : FinalOf(ch, f) \in Content
  BY <1>1, <1>2 DEF FinalOf, Content
<1>5. fin \in [Path -> Content]
  BY <1>4 DEF Content
<1>6. base \in [Path -> Content]
  BY DEF Content
<1>7. staged \in [Temp -> Content]
  <2>1. \A t \in Temp : t[1] \in Path /\ t[2] \in {"new", "backup"}
    BY DEF Temp
  <2> HIDE DEF fin, removed
  <2> QED BY <1>5, <2>1 DEF Content
<1>8. j \in Journal
  <2> HIDE DEF touched, base, fin, staged
  <2> QED BY <1>0, <1>3, <1>5, <1>6, <1>7 DEF Journal
<1>9. \A k \in DOMAIN chs : Names(chs[k]) \subseteq touched
  BY <1>2 DEF Names
<1>10. \A p \in touched : \E k \in DOMAIN chs : p \in Names(chs[k])
  BY <1>1 DEF Names
<1>11. ASSUME NEW k \in DOMAIN chs PROVE fin[chs[k].path] = FinalOf(chs[k], f)
  <2>1. \A ch \in all : ch.path = chs[k].path => ch = chs[k]
    <3> SUFFICES ASSUME NEW l \in DOMAIN chs, chs[l].path = chs[k].path PROVE chs[l] = chs[k]
      BY <1>1
    <3>1. k = l \/ Names(chs[k]) \cap Names(chs[l]) = {}
      BY ChangesTyped
    <3> QED BY <3>1 DEF Names
  <2>2. chs[k] \in all /\ chs[k].path \in Path
    BY <1>2
  <2>3. (CHOOSE ch \in all : ch.path = chs[k].path) = chs[k]
    <3> HIDE DEF all
    <3> QED BY <2>1, <2>2
  <2>4. fin[chs[k].path] = FinalOf(CHOOSE ch \in all : ch.path = chs[k].path, f)
    <3> HIDE DEF all
    <3> QED BY <2>2
  <2> QED BY <2>3, <2>4
<1>12. ASSUME NEW k \in DOMAIN chs, NEW p \in Sources(chs[k]) PROVE fin[p] = Absent
  <2>1. p \in Names(chs[k]) /\ chs[k].kind = "rename" /\ p = chs[k].old /\ p # chs[k].path
    BY ChangesTyped DEF Names, Sources
  <2>2. \A ch \in all : ch.path # p
    <3> SUFFICES ASSUME NEW l \in DOMAIN chs PROVE chs[l].path # p
      BY <1>1
    <3>1. k = l \/ Names(chs[k]) \cap Names(chs[l]) = {}
      BY ChangesTyped
    <3> QED BY <2>1, <3>1 DEF Names
  <2>3. p \in Path
    BY <2>1, <1>2
  <2> HIDE DEF all
  <2> QED BY <2>2, <2>3
<1>13. ASSUME NEW k \in DOMAIN chs, NEW p \in Removes(chs[k]) PROVE staged[<<p, "backup">>] = f[p]
  <2>1. p \in removed /\ p \in Path
    BY <1>2 DEF Removes, Sources
  <2>2. <<p, "backup">> \in Temp
    BY <2>1 DEF Temp
  <2> HIDE DEF removed, fin
  <2> QED BY <2>1, <2>2
<1>14. \A p \in Path : staged[<<p, "new">>] = fin[p]
  <2>1. \A p \in Path : <<p, "new">> \in Temp
    BY DEF Temp
  <2> HIDE DEF fin, removed
  <2> QED BY <2>1
<1>15. \A p \in touched : base[p] = f[p]
  <2> HIDE DEF touched
  <2> QED BY <1>3
<1>16. j.phase = "staging" /\ j.touch = touched /\ j.base = base /\ j.final = fin /\ j.staged = staged
  <2> HIDE DEF touched, base, fin, staged
  <2> QED BY <1>0
<1> HIDE DEF all, fin, removed, touched, base, staged
<1> QED BY <1>8, <1>9, <1>10, <1>11, <1>12, <1>13, <1>14, <1>15, <1>16

(***************************************************************************)
(* Types.                                                                  *)
(***************************************************************************)
\* The executor's record, field by field.
LEMMA ExecFields ==
    ASSUME ApplyTypeOK
    PROVE  /\ exec \in Execs
           /\ exec.changes \in Proposals \cup {<<>>} /\ exec.plan \in Journal
           /\ exec.claim \in 0 .. MaxClaims /\ exec.todo \in SUBSET Temp
           /\ exec.phase \in {"none", "staging", "mutating"}
           /\ exec.status \in {"none", "ok", "denied"}
           /\ exec.at = <<exec.at[1], exec.at[2]>>
           /\ exec.at[1] \in Nat \ {0} /\ exec.at[2] \in {1, 2}
BY DEF ApplyTypeOK, Execs

\* The idle executor is typed.
LEMMA IdleExecType ==
    /\ IdleExec \in Execs /\ IdleExec.pc = "idle" /\ IdleExec.at = <<1, 1>>
    /\ IdleExec.changes = <<>> /\ IdleExec.status = "none"
<1>1. NoJournal \in Journal /\ 0 \in 0 .. MaxClaims
  BY EmptyTypes, BoundsNat
<1>2. <<1, 1>> \in Nat \X {1, 2}
  OBVIOUS
<1> QED BY <1>1, <1>2 DEF IdleExec, Execs

\* While the executor's place stays, it stays in range of the change it is at.
LEMMA SamePlace ==
    ASSUME ApplyTypeOK, exec' \in Execs, tree' \in [Path -> Content],
           exec'.at = exec.at, exec'.changes = exec.changes
    PROVE  ApplyTypeOK'
BY DEF ApplyTypeOK, MoreToDo

\* A disk whose files and temporaries are typed keeps the type of the whole state.
LEMMA DiskType ==
    ASSUME TypeOK, UNCHANGED <<up, boots, minted, leaseVars, marker, procVars>>,
           file' \in [Path -> Content], temp' \in [Temp -> Content \cup {Torn}],
           edits' \in 0 .. MaxEdits
    PROVE  TypeOK'
BY DEF TypeOK, leaseVars, procVars

\* A step of the executor's record alone keeps the lease and the disk typed.
LEMMA SameVars ==
    ASSUME TypeOK, UNCHANGED vars
    PROVE  TypeOK' /\ file' = file
BY DEF vars, TypeOK, leaseVars, procVars, diskVars

\* Each prepared proposal is typed.
LEMMA PrepareType ==
    ASSUME TypeOK, ApplyTypeOK, NEW chs \in Proposals, Prepare(chs), tree' \in [Path -> Content]
    PROVE  TypeOK' /\ ApplyTypeOK'
<1>1. JournalOf(chs, file) \in Journal
  BY PlanFacts DEF Prepare, TypeOK
<1>2. exec' = [IdleExec EXCEPT !.pc = "prepared", !.changes = chs, !.plan = JournalOf(chs, file)]
  BY DEF Prepare
<1>3. exec' \in Execs /\ exec'.at = <<1, 1>> /\ exec'.changes = chs
  BY <1>1, <1>2, IdleExecType DEF Execs
<1>4. 1 \in DOMAIN chs => 1 \in DOMAIN Ops(chs[1])
  BY ChangesTyped, OpsFacts
<1>5. TypeOK'
  BY SameVars DEF Prepare
<1> QED BY <1>3, <1>4, <1>5 DEF ApplyTypeOK, MoreToDo

\* Steps of the executor that only move its own record.
LEMMA LocalType ==
    ASSUME TypeOK, ApplyTypeOK, tree' \in [Path -> Content],
           \/ \E c \in Known : StartApply(c)
           \/ Recheck \/ MutateFails \/ FinalCheck \/ AfterCleanup
           \/ \E unread \in BOOLEAN : HandleRaise(unread)
    PROVE  TypeOK' /\ ApplyTypeOK'
<1> USE ExecFields
<1>0. Staged(exec.plan) \in SUBSET Temp
  BY DEF Staged
<1>1. ASSUME NEW c \in Known, StartApply(c) PROVE TypeOK' /\ ApplyTypeOK'
  <2>1. c \in 0 .. MaxClaims
    BY BoundsNat DEF Known, TypeOK
  <2>2. exec' \in Execs /\ exec'.at = exec.at /\ exec'.changes = exec.changes
    BY <1>1, <2>1 DEF StartApply, Execs
  <2> QED BY <1>1, <2>2, SamePlace, SameVars DEF StartApply
<1>2. CASE Recheck
  <2>1. exec' \in Execs /\ exec'.at = exec.at /\ exec'.changes = exec.changes
    BY <1>0, <1>2 DEF Recheck, Goto, DenyStaged, Execs
  <2> QED BY <1>2, <2>1, SamePlace, SameVars DEF Recheck
<1>3. CASE MutateFails
  <2>1. exec' \in Execs /\ exec'.at = exec.at /\ exec'.changes = exec.changes
    BY <1>3 DEF MutateFails, Goto, Execs
  <2> QED BY <1>3, <2>1, SamePlace, SameVars DEF MutateFails
<1>4. CASE FinalCheck
  <2>1. exec' \in Execs /\ exec'.at = exec.at /\ exec'.changes = exec.changes
    BY <1>0, <1>4 DEF FinalCheck, Deny, Execs
  <2> QED BY <1>4, <2>1, SamePlace, SameVars DEF FinalCheck
<1>5. CASE AfterCleanup
  <2>0. exec.partial \in BOOLEAN
    BY DEF Execs
  <2>1. exec' \in {[exec EXCEPT !.pc = "clear"],
                   [exec EXCEPT !.pc = "done", !.status = "denied", !.partial = exec.partial]}
    BY <1>5 DEF AfterCleanup, Deny, Goto
  <2>2. exec' \in Execs /\ exec'.at = exec.at /\ exec'.changes = exec.changes
    BY <2>0, <2>1 DEF Execs
  <2> QED BY <1>5, <2>2, SamePlace, SameVars DEF AfterCleanup
<1>6. ASSUME NEW unread \in BOOLEAN, HandleRaise(unread) PROVE TypeOK' /\ ApplyTypeOK'
  <2>1. PICK b \in BOOLEAN : exec' = [exec EXCEPT !.pc = "done", !.status = "denied", !.partial = b]
    <3>1. (unread \/ Partial) \in BOOLEAN
      OBVIOUS
    <3> QED BY <1>6, <3>1, Zenon DEF HandleRaise, Deny
  <2>2. exec' \in Execs /\ exec'.at = exec.at /\ exec'.changes = exec.changes
    BY <2>1 DEF Execs
  <2> QED BY <1>6, <2>2, SamePlace, SameVars DEF HandleRaise
<1> QED BY <1>1, <1>2, <1>3, <1>4, <1>5, <1>6

(***************************************************************************)
(* What an operation of the lease does to the copies of the claim and of   *)
(* the journal, as far as the executor depends on it.                      *)
(***************************************************************************)
\* Memory keeps its claim and its journal, and the registry what it had or what
\* memory says.
Keeps ==
    /\ holder'.claim = holder.claim /\ journal' = journal
    /\ \/ marker' = marker
       \/ /\ holder.claim # 0
          /\ marker'.holder.claim = holder.claim /\ marker'.journal = journal

\* A claim is granted over an empty registry.
Grants ==
    /\ holder.claim = 0 /\ marker.holder.claim = 0 /\ marker.journal = NoJournal
    /\ journal' = NoJournal /\ marker'.journal = NoJournal
    /\ holder'.claim # 0 => marker'.holder.claim = holder'.claim
    /\ marker'.holder.claim \in 0 .. MaxClaims

\* A claim without a journal is given back.
GivesBack ==
    /\ holder.claim # 0 /\ journal.phase = "none" /\ marker.journal = journal
    /\ marker.holder.claim = holder.claim
    /\ journal' = journal /\ holder'.claim \in {0, holder.claim}
    /\ marker' \in {marker, NoMarker}

\* Journal j is persisted, or refused; a write that raised may have landed.
Lands(j) ==
    /\ Held(exec.claim) /\ marker.journal = journal /\ marker.holder = holder
    /\ TransitionAllowed(journal, j)
    /\ journal.phase # "none" /\ j.phase = "none" => ClearProven(journal)
    /\ marker'.journal = j /\ marker'.holder = holder

Persists(j) == Lands(j) /\ journal' = j
Declines(j) == journal' = journal /\ (Keeps \/ Lands(j))

\* A rewritten holder leaves memory and registry related as before.
LEMMA RewriteKeeps ==
    ASSUME NEW h, NEW w, Rewrite(h, w), h.claim = holder.claim, holder.claim # 0,
           journal' = journal
    PROVE  Keeps
BY DEF Rewrite, OnDisk, MarkerOf, Keeps

\* So do the ways of refusing.
LEMMA RefusalKeeps ==
    ASSUME NEW r, NEW paths, NEW w, UNCHANGED <<holder, journal>>,
           \/ RequireRecovery(r, paths, w)
           \/ DurableRefusal(holder, r, w) /\ holder.claim # 0
           \/ Poison
    PROVE  Keeps
BY DEF RequireRecovery, DurableRefusal, Poison, OnDisk, MarkerOf, Keeps

\* The operations other threads call while the executor runs.
LEMMA LeaseEffect ==
    ASSUME TypeOK, DurableInv,
           \/ Claim
           \/ \E c \in Known, r \in Run : Verify(c, r)
           \/ \E w \in WriteOutcome, r \in Reason, paths \in {{}, Staged(exec.plan)} :
                 ReportUncertain(r, paths, w)
    PROVE  /\ up /\ UNCHANGED <<up, boots, file, temp, edits>>
           /\ TypeOK' /\ DurableInv'
           /\ Keeps \/ Grants \/ GivesBack
<1> DEFINE Goal == up /\ UNCHANGED <<up, boots, file, temp, edits>> /\ (Keeps \/ Grants \/ GivesBack)
<1>1. CASE \E c \in Known, r \in Run : Verify(c, r)
  <2>1. Goal
    BY <1>1, RefusalKeeps DEF Verify, diskVars
  <2>2. Refuse
    BY <1>1 DEF Refuse
  <2> QED BY <2>1, <2>2, RefuseType, RefuseDurable
<1>2. ASSUME NEW w \in WriteOutcome, NEW r \in Reason, NEW paths \in {{}, Staged(exec.plan)},
             ReportUncertain(r, paths, w)
      PROVE  Goal /\ TypeOK' /\ DurableInv'
  <2>1. Goal
    BY <1>2, RefusalKeeps DEF ReportUncertain, diskVars
  <2>2. Refuse
    BY <1>2 DEF Refuse, Staged
  <2> QED BY <2>1, <2>2, RefuseType, RefuseDurable
<1>3. ASSUME NEW w \in WriteOutcome, NEW r \in Run \cup {NoRun}, Acquire(r, w) PROVE Goal
  <2> DEFINE h == [claim |-> minted + 1, run |-> r, pending |-> FALSE, kids |-> {}]
  <2>1. /\ marker' = OnDisk(w, MarkerOf(h, "none", {}, NoJournal))
        /\ holder' = IF w = "ok" THEN h ELSE NoHolder
        /\ journal' = NoJournal /\ up /\ reason = "none" /\ holder.claim = 0
        /\ minted + 1 \in 0 .. MaxClaims
    BY <1>3, BoundsNat DEF Acquire, TypeOK
  <2>2. marker = NoMarker /\ marker.holder.claim = 0 /\ marker.journal = NoJournal
    BY <2>1, EmptyTypes DEF DurableInv, FreeMeansClear, NoMarker
  <2>3. marker' \in {marker, MarkerOf(h, "none", {}, NoJournal)}
        /\ (w = "ok" => marker' = MarkerOf(h, "none", {}, NoJournal))
    BY <2>1 DEF OnDisk
  <2>4. h.claim \in 0 .. MaxClaims /\ h.claim = minted + 1
    BY <2>1
  <2>5. MarkerOf(h, "none", {}, NoJournal).holder = h
        /\ MarkerOf(h, "none", {}, NoJournal).journal = NoJournal
    BY DEF MarkerOf
  <2> HIDE DEF h
  <2>6. Grants
    BY <2>1, <2>2, <2>3, <2>4, <2>5, EmptyTypes, BoundsNat DEF Grants
  <2> QED BY <1>3, <2>6 DEF Acquire, diskVars
<1>4. ASSUME NEW w \in WriteOutcome, NEW c \in Known, NEW r \in Run, Promote(c, r, w) PROVE Goal
  <2>1. [holder EXCEPT !.run = r].claim = holder.claim
    BY DEF TypeOK, WriterClaim
  <2>2. CASE Held(c)
    BY <1>4, <2>1, <2>2, RewriteKeeps DEF Promote, Held, diskVars
  <2>3. CASE ~Held(c)
    BY <1>4, <2>3, RefusalKeeps DEF Promote, diskVars
  <2> QED BY <2>2, <2>3
<1>5. ASSUME NEW w \in WriteOutcome, NEW c \in Known, NEW proven \in BOOLEAN, Release(c, proven, w)
      PROVE  Goal
  <2>0. holder.claim # 0 /\ holder.claim = c /\ up /\ UNCHANGED <<up, boots, cleanup, journal, diskVars>>
    BY <1>5 DEF Release, Held
  <2>1. CASE journal.phase # "none" \/ ~proven
    BY <1>5, <2>0, <2>1, RefusalKeeps DEF Release, diskVars
  <2>2. CASE journal.phase = "none" /\ proven
    <3>1. reason = "none" /\ marker = MarkerOf(holder, "none", cleanup, journal)
      BY <1>5, <2>0, <2>2 DEF Release, DurableInv, MemoryIsDurable
    <3>2. marker.holder.claim = c /\ marker.journal = journal
      BY <2>0, <3>1 DEF MarkerOf
    <3>3. marker' = OnDisk(w, NoMarker) /\ holder' \in {holder, NoHolder}
      BY <1>5, <2>2, <3>2 DEF Release
    <3>4. marker' \in {marker, NoMarker}
      BY <3>3 DEF OnDisk
    <3>5. GivesBack
      BY <2>0, <2>2, <3>2, <3>3, <3>4, EmptyTypes DEF GivesBack
    <3> QED BY <2>0, <3>5 DEF diskVars
  <2> QED BY <2>1, <2>2
<1>6. ASSUME NEW w \in WriteOutcome, NEW c \in Known, StaleReleaseClaim(c, w) PROVE Goal
  BY <1>6, RefusalKeeps DEF StaleReleaseClaim, diskVars
<1>7. CASE Claim
  <2>1. Goal
    BY <1>3, <1>4, <1>5, <1>6, <1>7 DEF Claim
  <2> QED BY <1>7, <2>1, ClaimType, ClaimDurable
<1> QED BY <1>1, <1>2, <1>7

\* What set_apply_recovery with the executor's claim does.
LEMMA SetApplyEffect ==
    ASSUME TypeOK, DurableInv, NEW j \in Journal, NEW w \in WriteOutcome, NEW w2 \in WriteOutcome,
           SetApply(exec.claim, j, w, w2)
    PROVE  IF reason' = "none" THEN Persists(j) ELSE Declines(j)
<1>1. /\ Held(exec.claim) /\ reason = "none" /\ holder.claim # 0 /\ UNCHANGED holder
      /\ marker = MarkerOf(holder, "none", cleanup, journal)
  BY DEF SetApply, Held, DurableInv, MemoryIsDurable
<1>2. marker.journal = journal /\ marker.holder = holder
  BY <1>1 DEF MarkerOf
<1> DEFINE allowed == /\ TransitionAllowed(journal, j)
                      /\ journal.phase # "none" /\ j.phase = "none" => ClearProven(journal)
<1>3. CASE ~allowed
  <2>1. DurableRefusal(holder, "other", w2) /\ journal' = journal
    BY <1>3 DEF SetApply
  <2>2. reason' # "none"
    BY <2>1 DEF DurableRefusal
  <2> QED BY <1>1, <2>1, <2>2, RefusalKeeps DEF Declines
<1>4. CASE allowed
  <2>1. JournalWrite(j, w, w2)
    BY <1>4 DEF SetApply
  <2>2. CASE w = "ok"
    BY <1>1, <1>2, <1>4, <2>1, <2>2 DEF JournalWrite, OnDisk, MarkerOf, Persists, Lands
  <2>3. CASE w # "ok"
    <3>1. reason' # "none" /\ journal' = journal
      BY <2>1, <2>3 DEF JournalWrite
    <3>2. \/ marker' = marker \/ marker' = MarkerOf(holder, "none", cleanup, j)
          \/ marker' = MarkerOf(holder, "other", cleanup, journal)
      BY <2>1, <2>3 DEF JournalWrite, OnDisk
    <3> QED BY <1>1, <1>2, <1>4, <3>1, <3>2 DEF MarkerOf, Declines, Lands, Keeps
  <2> QED BY <2>2, <2>3
<1> QED BY <1>3, <1>4

\* What of lease and disk a journalling step of the executor leaves alone.
PersistFrame == UNCHANGED <<up, boots, minted, holder, cleanup, procVars, file, temp, edits>>

\* One journalling step, whatever the executor does after it.
LEMMA PersistEffect ==
    ASSUME TypeOK, DurableInv, NEW j \in Journal, UNCHANGED diskVars,
           \/ \E w, w2 \in WriteOutcome : SetApply(exec.claim, j, w, w2)
           \/ UNCHANGED <<up, boots, minted, leaseVars, marker, procVars>>
    PROVE  PersistFrame /\ TypeOK' /\ DurableInv'
<1>1. ASSUME NEW w \in WriteOutcome, NEW w2 \in WriteOutcome, SetApply(exec.claim, j, w, w2)
      PROVE  PersistFrame /\ TypeOK' /\ DurableInv'
  <2>1. journal' \in Journal /\ reason' \in Reason /\ marker' \in Marker
    BY <1>1, SetApplyType
  <2>2. DurableInv'
    BY <1>1, SetApplyDurable
  <2> QED BY <1>1, <2>1, <2>2 DEF SetApply, TypeOK, procVars, diskVars, PersistFrame
<1>2. CASE UNCHANGED <<up, boots, minted, leaseVars, marker, procVars>>
  <2>1. DurableInv'
    BY <1>2, SameLeaseDurable DEF procVars
  <2> QED BY <1>2, <2>1 DEF TypeOK, procVars, diskVars, leaseVars, PersistFrame
<1> QED BY <1>1, <1>2

\* The staging journal is persisted, or the proposal is denied with nothing written.
LEMMA PersistStagingEffect ==
    ASSUME TypeOK, DurableInv, ApplyTypeOK, PersistStaging
    PROVE  /\ PersistFrame /\ TypeOK' /\ DurableInv' /\ exec.pc = "journal"
           /\ \/ /\ Persists(exec.plan)
                 /\ exec' = [exec EXCEPT !.pc = "stage", !.phase = "staging", !.todo = Staged(exec.plan)]
              \/ /\ Declines(exec.plan)
                 /\ exec' = [exec EXCEPT !.pc = "done", !.status = "denied", !.partial = FALSE]
<1>1. exec.plan \in Journal
  BY ExecFields
<1>2. PersistFrame /\ TypeOK' /\ DurableInv'
  BY <1>1, PersistEffect DEF PersistStaging, PersistStep
<1>3. UNCHANGED <<up, boots, minted, leaseVars, marker, procVars>> => Declines(exec.plan)
  BY DEF leaseVars, Declines, Keeps
<1> QED BY <1>1, <1>2, <1>3, SetApplyEffect DEF PersistStaging, PersistStep, Deny

\* The mutating journal is persisted, or the staged files are cleaned up.
LEMMA PersistMutatingEffect ==
    ASSUME TypeOK, DurableInv, ApplyTypeOK, PersistMutating
    PROVE  /\ PersistFrame /\ TypeOK' /\ DurableInv' /\ exec.pc = "commit"
           /\ \/ /\ Persists(Mutating(exec.plan))
                 /\ exec' = [exec EXCEPT !.pc = "mutate", !.phase = "mutating"]
              \/ /\ Declines(Mutating(exec.plan)) /\ DenyStaged
<1>1. Mutating(exec.plan) \in Journal
  BY ExecFields DEF Journal, Mutating
<1>2. PersistFrame /\ TypeOK' /\ DurableInv'
  BY <1>1, PersistEffect DEF PersistMutating, PersistStep, Mutating
<1>3. UNCHANGED <<up, boots, minted, leaseVars, marker, procVars>> => Declines(Mutating(exec.plan))
  BY DEF leaseVars, Declines, Keeps
<1> QED BY <1>1, <1>2, <1>3, SetApplyEffect DEF PersistMutating, PersistStep, Mutating

\* The journal is cleared, or the apply ends denied beside it.
LEMMA PersistClearEffect ==
    ASSUME TypeOK, DurableInv, ApplyTypeOK, PersistClear
    PROVE  /\ PersistFrame /\ TypeOK' /\ DurableInv' /\ exec.pc = "clear"
           /\ \/ Persists(NoJournal) /\ exec' = [exec EXCEPT !.pc = "done"]
              \/ /\ Declines(NoJournal)
                 /\ exec' = [exec EXCEPT !.pc = "done", !.status = "denied", !.partial = exec.partial]
<1>1. NoJournal \in Journal
  BY EmptyTypes
<1>2. PersistFrame /\ TypeOK' /\ DurableInv'
  BY <1>1, PersistEffect DEF PersistClear, PersistStep
<1>3. UNCHANGED <<up, boots, minted, leaseVars, marker, procVars>> => Declines(NoJournal)
  BY DEF leaseVars, Declines, Keeps
<1> QED BY <1>1, <1>2, <1>3, SetApplyEffect DEF PersistClear, PersistStep, Deny, Goto

(***************************************************************************)
(* What each step does, and that it keeps the types.                       *)
(***************************************************************************)
\* The change and the file operation the executor is at.
LEMMA OpTyped ==
    ASSUME ApplyTypeOK, MoreToDo
    PROVE  LET ch == exec.changes[exec.at[1]]
           IN  /\ exec.changes \in Proposals /\ exec.at[1] \in DOMAIN exec.changes
               /\ ch \in Change /\ ch.kind \in Kinds
               /\ Op = Ops(ch)[exec.at[2]] /\ Op[2] \in Path /\ exec.at[2] \in 1 .. Len(Ops(ch))
               /\ exec.at[2] = 2 => ch.kind \in {"modify", "rename"}
<1> DEFINE ch == exec.changes[exec.at[1]]
<1>1. exec.at[1] \in DOMAIN exec.changes /\ exec.changes \in Proposals \cup {<<>>}
  BY ExecFields DEF MoreToDo
<1>2. exec.changes \in Proposals /\ ch \in Change /\ ch.kind \in Kinds /\ ch.path \in Path /\ ch.old \in Path
  BY <1>1, ChangesTyped
<1>3. exec.at[2] \in DOMAIN Ops(ch) /\ Op = Ops(ch)[exec.at[2]]
  BY DEF ApplyTypeOK, Op
<1> HIDE DEF ch
<1>4. exec.at[2] \in 1 .. Len(Ops(ch))
  BY <1>2, <1>3, OpsFacts
<1>5. Op[2] \in Path /\ (exec.at[2] = 2 => ch.kind \in {"modify", "rename"})
  BY <1>2, <1>3, <1>4, OpsFacts DEF Kinds
<1> QED BY <1>1, <1>2, <1>3, <1>4, <1>5 DEF ch

\* The place after this one is again in range.
LEMMA NextAtTyped ==
    ASSUME ApplyTypeOK, MoreToDo, exec' \in Execs, exec'.changes = exec.changes,
           exec'.at = NextAt, tree' \in [Path -> Content]
    PROVE  ApplyTypeOK'
<1> DEFINE ch == exec.changes[exec.at[1]]
<1>1. ch.kind \in Kinds /\ exec.at[1] \in Nat \ {0} /\ exec.at[2] \in {1, 2}
      /\ exec.at[2] \in 1 .. Len(Ops(ch)) /\ exec.changes \in Proposals
  BY OpTyped, ExecFields
<1>2. Len(Ops(ch)) \in {1, 2} /\ DOMAIN Ops(ch) = 1 .. Len(Ops(ch))
  BY <1>1, OpsFacts
<1>3. \/ /\ exec.at[2] < Len(Ops(ch)) /\ exec'.at = <<exec.at[1], exec.at[2] + 1>>
      \/ exec'.at = <<exec.at[1] + 1, 1>>
  BY DEF NextAt
<1> HIDE DEF ch
<1>4. exec'.at[1] # 0
  BY <1>1, <1>3
<1>5. CASE exec.at[2] < Len(Ops(ch)) /\ exec'.at = <<exec.at[1], exec.at[2] + 1>>
  <2>1. exec'.at[1] = exec.at[1] /\ exec'.at[2] \in DOMAIN Ops(ch)
    BY <1>1, <1>2, <1>5
  <2> QED BY <1>4, <2>1 DEF ApplyTypeOK, MoreToDo, ch
<1>6. CASE exec'.at = <<exec.at[1] + 1, 1>>
  <2>1. ASSUME exec'.at[1] \in DOMAIN exec.changes PROVE 1 \in DOMAIN Ops(exec.changes[exec'.at[1]])
    BY <1>1, <2>1, ChangesTyped, OpsFacts
  <2> QED BY <1>4, <1>6, <2>1 DEF ApplyTypeOK, MoreToDo
<1> QED BY <1>3, <1>5, <1>6

\* What a file operation leaves alone, and what it does to the two places it may touch.
LEMMA MutateEffect ==
    ASSUME TypeOK, ApplyTypeOK, NEW raised \in BOOLEAN, NEW kept \in BOOLEAN, Mutate(raised, kept)
    PROVE  /\ exec.pc = "mutate" /\ MoreToDo
           /\ UNCHANGED <<up, boots, minted, leaseVars, marker, procVars, edits>>
           /\ exec' \in Execs /\ exec'.changes = exec.changes /\ exec'.plan = exec.plan
           /\ exec'.phase = exec.phase /\ exec'.claim = exec.claim /\ exec'.status = exec.status
           /\ \/ ~raised /\ exec'.pc = "mutate" /\ exec'.at = NextAt
              \/ raised /\ exec'.pc = "raised" /\ exec'.at = exec.at
           /\ \/ /\ Op[1] = "unlink" /\ file[Op[2]] = exec.plan.base[Op[2]]
                 /\ file' = [file EXCEPT ![Op[2]] = Absent] /\ temp' = temp
              \/ /\ Op[1] # "unlink" /\ file[Op[2]] = Absent
                 /\ temp[<<Op[2], "new">>] = exec.plan.staged[<<Op[2], "new">>]
                 /\ file' = [file EXCEPT ![Op[2]] = exec.plan.staged[<<Op[2], "new">>]]
                 /\ temp' \in {temp, [temp EXCEPT ![<<Op[2], "new">>] = Absent]}
<1>1. NextAt \in Nat \X {1, 2}
  <2>1. exec.at[2] \in {1, 2} /\ exec.at[1] \in Nat
    BY ExecFields
  <2>2. Len(Ops(exec.changes[exec.at[1]])) \in {1, 2}
    BY OpTyped, OpsFacts DEF Mutate
  <2> DEFINE n == Len(Ops(exec.changes[exec.at[1]]))
  <2>3. NextAt = IF exec.at[2] < n THEN <<exec.at[1], exec.at[2] + 1>> ELSE <<exec.at[1] + 1, 1>>
    BY DEF NextAt
  <2>6. n \in {1, 2}
    BY <2>2
  <2> HIDE DEF n
  <2>4. CASE exec.at[2] < n
    <3>1. exec.at[2] + 1 \in {1, 2}
      BY <2>1, <2>4, <2>6
    <3> QED BY <2>1, <2>3, <2>4, <3>1
  <2>5. CASE ~(exec.at[2] < n)
    BY <2>1, <2>3, <2>5
  <2> QED BY <2>4, <2>5
<1>2. /\ exec.pc = "mutate" /\ MoreToDo
      /\ UNCHANGED <<up, boots, minted, leaseVars, marker, procVars, edits>>
      /\ IF Op[1] = "unlink" THEN Unlink(Op[2], raised) ELSE PromoteStaged(Op[2], kept, raised)
  BY DEF Mutate
<1>3. exec' = [exec EXCEPT !.at = IF raised THEN exec.at ELSE NextAt,
                           !.pc = IF raised THEN "raised" ELSE exec.pc]
  BY <1>2 DEF Unlink, PromoteStaged
<1>4. CASE raised
  <2>1. exec' = [exec EXCEPT !.at = exec.at, !.pc = "raised"]
    BY <1>3, <1>4
  <2>2. /\ exec' \in Execs /\ exec'.changes = exec.changes /\ exec'.plan = exec.plan
        /\ exec'.phase = exec.phase /\ exec'.claim = exec.claim /\ exec'.status = exec.status
        /\ exec'.pc = "raised" /\ exec'.at = exec.at
    BY <2>1, ExecFields DEF Execs
  <2> QED BY <1>2, <1>4, <2>2 DEF Unlink, PromoteStaged, MayUnlink
<1>5. CASE ~raised
  <2>1. exec' = [exec EXCEPT !.at = NextAt, !.pc = exec.pc]
    BY <1>3, <1>5
  <2>2. /\ exec' \in Execs /\ exec'.changes = exec.changes /\ exec'.plan = exec.plan
        /\ exec'.phase = exec.phase /\ exec'.claim = exec.claim /\ exec'.status = exec.status
        /\ exec'.pc = "mutate" /\ exec'.at = NextAt
    BY <1>1, <1>2, <2>1, ExecFields DEF Execs
  <2> QED BY <1>2, <1>5, <2>2 DEF Unlink, PromoteStaged, MayUnlink
<1> QED BY <1>4, <1>5

\* File operations keep the types.
LEMMA MutateType ==
    ASSUME TypeOK, ApplyTypeOK, tree' \in [Path -> Content],
           NEW raised \in BOOLEAN, NEW kept \in BOOLEAN, Mutate(raised, kept)
    PROVE  TypeOK' /\ ApplyTypeOK'
<1>1. Op[2] \in Path /\ exec.plan \in Journal
  BY OpTyped, ExecFields, MutateEffect
<1>2. exec.plan.staged[<<Op[2], "new">>] \in Content /\ Absent \in Content
  BY <1>1 DEF Journal, Temp, Content
<1>3. file' \in [Path -> Content] /\ temp' \in [Temp -> Content \cup {Torn}]
  BY <1>1, <1>2, MutateEffect DEF TypeOK
<1>4. TypeOK'
  BY <1>3, DiskType, MutateEffect DEF TypeOK
<1>5. ApplyTypeOK'
  BY SamePlace, NextAtTyped, MutateEffect
<1> QED BY <1>4, <1>5

\* Writing and removing staged files.
LEMMA StagingType ==
    ASSUME TypeOK, ApplyTypeOK, tree' \in [Path -> Content],
           \/ \E t \in Temp, left \in Content \cup {Torn} : WriteStaged(t, left)
           \/ \E t \in Temp, gone, raised \in BOOLEAN : Cleanup(t, gone, raised)
    PROVE  TypeOK' /\ ApplyTypeOK'
<1>0. exec.todo \in SUBSET Temp /\ Staged(exec.plan) \in SUBSET Temp /\ exec \in Execs
  BY ExecFields DEF Staged
<1>1. ASSUME NEW t \in Temp, NEW left \in Content \cup {Torn}, WriteStaged(t, left)
      PROVE  TypeOK' /\ ApplyTypeOK'
  <2>1. temp' \in [Temp -> Content \cup {Torn}] /\ file' \in [Path -> Content]
        /\ edits' \in 0 .. MaxEdits
    BY <1>1 DEF WriteStaged, TypeOK
  <2>2. TypeOK'
    BY <1>1, <2>1, DiskType DEF WriteStaged
  <2>3. exec' \in Execs /\ exec'.at = exec.at /\ exec'.changes = exec.changes
    BY <1>0, <1>1 DEF WriteStaged, DenyStaged, Execs
  <2> QED BY <2>2, <2>3, SamePlace
<1>2. ASSUME NEW t \in Temp, NEW gone \in BOOLEAN, NEW raised \in BOOLEAN, Cleanup(t, gone, raised)
      PROVE  TypeOK' /\ ApplyTypeOK'
  <2>1. temp' \in [Temp -> Content \cup {Torn}] /\ file' \in [Path -> Content]
        /\ edits' \in 0 .. MaxEdits
    BY <1>2 DEF Cleanup, TypeOK, Content
  <2>2. TypeOK'
    BY <1>2, <2>1, DiskType DEF Cleanup
  <2>3. PICK b \in BOOLEAN : exec' = [exec EXCEPT !.todo = exec.todo \ {t}, !.dirty = b]
    <3>1. exec' = [exec EXCEPT !.todo = @ \ {t},
                               !.dirty = @ \/ ~(temp[t] = Absent \/ (gone /\ ~raised))]
      BY <1>2 DEF Cleanup
    <3>2. (exec.dirty \/ ~(temp[t] = Absent \/ (gone /\ ~raised))) \in BOOLEAN
      OBVIOUS
    <3> QED BY <3>1, <3>2, Zenon
  <2>4. exec' \in Execs /\ exec'.at = exec.at /\ exec'.changes = exec.changes
    BY <1>0, <2>3 DEF Execs
  <2> QED BY <2>2, <2>4, SamePlace
<1> QED BY <1>1, <1>2

\* A persisted or refused journal.
LEMMA PersistType ==
    ASSUME TypeOK, DurableInv, ApplyTypeOK, tree' \in [Path -> Content],
           PersistStaging \/ PersistMutating \/ PersistClear
    PROVE  TypeOK' /\ DurableInv' /\ ApplyTypeOK'
<1>1. exec \in Execs /\ exec.todo \in SUBSET Temp /\ Staged(exec.plan) \in SUBSET Temp
  BY ExecFields DEF Staged
<1>2. exec.partial \in BOOLEAN
  BY <1>1 DEF Execs
<1>3. exec' \in Execs /\ exec'.at = exec.at /\ exec'.changes = exec.changes
  BY <1>1, <1>2, PersistStagingEffect, PersistMutatingEffect, PersistClearEffect
     DEF DenyStaged, Execs
<1> QED BY <1>3, SamePlace, PersistStagingEffect, PersistMutatingEffect, PersistClearEffect

\* What a boot does as far as the executor depends on it.
LEMMA BootEffect ==
    ASSUME TypeOK, DurableInv, Boot
    PROVE  /\ ~up /\ up' /\ holder'.claim = 0 /\ UNCHANGED <<file, edits>>
           /\ TypeOK' /\ DurableInv'
           /\ journal' \in {marker.journal, NoJournal}
           /\ \/ marker' = marker /\ temp' = temp
              \/ /\ marker.journal.phase # "none" => AllBase(marker.journal) \/ AllFinal(marker.journal)
                 /\ marker' \in {marker, NoMarker}
<1>1. NewDaemon
  BY DEF Boot, BootFree, BootBlocked, BootRefuses, BootClears
<1>2. ~up /\ up' /\ holder'.claim = 0 /\ UNCHANGED <<file, edits>>
  BY <1>1, EmptyTypes DEF NewDaemon
<1>3. ASSUME NEW approvals, BootFree(approvals)
      PROVE  journal' = NoJournal /\ marker' = marker /\ temp' = temp
  BY <1>3 DEF BootFree, Forgotten, Refused
<1>4. ASSUME NEW readable, NEW ownerSeen, NEW seen, BootBlocked(readable, ownerSeen, seen)
      PROVE  journal' = NoJournal /\ marker' = marker /\ temp' = temp
  BY <1>4 DEF BootBlocked, Forgotten, Refused
<1>5. ASSUME NEW approvals, NEW seen, BootRefuses(approvals, seen)
      PROVE  journal' = marker.journal /\ marker' = marker /\ temp' = temp
  BY <1>5 DEF BootRefuses, Adopted, Refused
<1>6. ASSUME NEW seen, NEW gone, NEW w, BootClears(seen, gone, w)
      PROVE  /\ journal' \in {marker.journal, NoJournal}
             /\ marker.journal.phase # "none" => AllBase(marker.journal) \/ AllFinal(marker.journal)
             /\ marker' \in {marker, NoMarker}
  BY <1>6 DEF BootClears, Adopted, Forgotten, Clearable, JournalUsable, OnDisk
<1>7. /\ journal' \in {marker.journal, NoJournal}
      /\ \/ marker' = marker /\ temp' = temp
         \/ /\ marker.journal.phase # "none" => AllBase(marker.journal) \/ AllFinal(marker.journal)
            /\ marker' \in {marker, NoMarker}
  BY <1>3, <1>4, <1>5, <1>6 DEF Boot
<1> QED BY <1>2, <1>7, BootType, BootDurable

\* Edits by anything but the executor.
LEMMA EditsEffect ==
    ASSUME TypeOK, DurableInv, Edits
    PROVE  /\ UNCHANGED <<up, boots, minted, leaseVars, marker, procVars>>
           /\ TypeOK' /\ DurableInv' /\ edits < MaxEdits /\ edits' = edits + 1
           /\ \/ /\ temp' = temp
                 /\ \E p \in Path, d \in Content : d # file[p] /\ file' = [file EXCEPT ![p] = d]
              \/ file' = file
<1>1. /\ UNCHANGED <<up, boots, minted, leaseVars, marker, procVars>>
      /\ edits < MaxEdits /\ edits' = edits + 1
  BY DEF Edits
<1>2. \/ /\ temp' = temp
         /\ \E p \in Path, d \in Content : d # file[p] /\ file' = [file EXCEPT ![p] = d]
      \/ file' = file /\ \E t \in Temp, d \in {Absent, Torn} : temp' = [temp EXCEPT ![t] = d]
  BY DEF Edits, EditFile, EditTemp
<1>3. edits' \in 0 .. MaxEdits
  BY <1>1, BoundsNat DEF TypeOK
<1>4. file' \in [Path -> Content] /\ temp' \in [Temp -> Content \cup {Torn}]
  BY <1>2 DEF TypeOK, Content
<1>5. TypeOK'
  BY <1>1, <1>3, <1>4, DiskType
<1>6. DurableInv'
  BY <1>1, SameLeaseDurable DEF procVars
<1> QED BY <1>1, <1>2, <1>5, <1>6

\* The history stays typed.
LEMMA TreeType ==
    ASSUME ApplyTypeOK, TreeFollows, file' \in [Path -> Content]
    PROVE  tree' \in [Path -> Content]
BY DEF TreeFollows, ApplyTypeOK

\* Steps of the executor's record alone.
Local == \/ \E chs \in Proposals : Prepare(chs)
         \/ \E c \in Known : StartApply(c)
         \/ Recheck \/ MutateFails \/ FinalCheck \/ AfterCleanup
         \/ \E unread \in BOOLEAN : HandleRaise(unread)

\* Steps of other threads.
Others == \/ Claim
          \/ \E c \in Known, r \in Run : Verify(c, r)
          \/ \E w \in WriteOutcome, r \in Reason, paths \in {{}, Staged(exec.plan)} :
                ReportUncertain(r, paths, w)

\* The steps there are.
LEMMA ApplyCases ==
    ASSUME ApplyNext
    PROVE  \/ Local
           \/ PersistStaging \/ PersistMutating \/ PersistClear
           \/ \E t \in Temp, left \in Content \cup {Torn} :
                 left \in {Absent, Torn, exec.plan.staged[t]} /\ WriteStaged(t, left)
           \/ \E raised, kept \in BOOLEAN : Mutate(raised, kept)
           \/ \E t \in Temp, gone, raised \in BOOLEAN : Cleanup(t, gone, raised)
           \/ Others /\ UNCHANGED exec
           \/ Boot /\ UNCHANGED exec
           \/ Edits /\ UNCHANGED exec
           \/ Crash /\ exec' = IdleExec
<1>1. CASE Apply
  BY <1>1 DEF Apply, Local
<1>2. CASE (LeaseStep \/ Edits) /\ UNCHANGED exec
  BY <1>2 DEF LeaseStep, Others
<1> QED BY <1>1, <1>2 DEF ApplyNext

\* Every step keeps lease, executor and history typed.
LEMMA StepTypes ==
    ASSUME TypeOK, ApplyTypeOK, DurableInv, [ApplyNext]_applyVars
    PROVE  TypeOK' /\ ApplyTypeOK' /\ DurableInv'
<1>1. CASE UNCHANGED applyVars
  <2>1. TypeOK'
    BY <1>1, SameVars DEF applyVars
  <2>2. DurableInv'
    BY <1>1, SameLeaseDurable DEF applyVars, vars, procVars
  <2>3. UNCHANGED <<exec, tree>>
    BY <1>1 DEF applyVars
  <2> QED BY <2>1, <2>2, <2>3 DEF ApplyTypeOK, MoreToDo
<1>2. CASE ApplyNext
  <2> USE <1>2
  <2>0. TreeFollows
    BY DEF ApplyNext
  <2>1. CASE Local
    <3>1. UNCHANGED vars
      BY <2>1 DEF Local, Prepare, StartApply, Recheck, MutateFails, FinalCheck, AfterCleanup, HandleRaise
    <3>2. DurableInv' /\ file' = file
      BY <3>1, SameLeaseDurable DEF vars, procVars, diskVars
    <3>3. tree' \in [Path -> Content]
      BY <2>0, <3>2, TreeType DEF TypeOK
    <3> QED BY <2>1, <3>2, <3>3, PrepareType, LocalType DEF Local
  <2>2. CASE PersistStaging \/ PersistMutating \/ PersistClear
    <3>1. file' = file
      BY <2>2, PersistStagingEffect, PersistMutatingEffect, PersistClearEffect DEF PersistFrame
    <3> QED BY <2>0, <2>2, <3>1, TreeType, PersistType DEF TypeOK
  <2>3. CASE \/ \E t \in Temp, left \in Content \cup {Torn} : WriteStaged(t, left)
             \/ \E t \in Temp, gone, raised \in BOOLEAN : Cleanup(t, gone, raised)
    <3>1. file' = file /\ UNCHANGED <<up, boots, leaseVars, marker, procVars>>
      BY <2>3 DEF WriteStaged, Cleanup
    <3>2. DurableInv'
      BY <3>1, SameLeaseDurable DEF procVars
    <3> QED BY <2>0, <2>3, <3>1, <3>2, TreeType, StagingType DEF TypeOK
  <2>4. ASSUME NEW raised \in BOOLEAN, NEW kept \in BOOLEAN, Mutate(raised, kept)
        PROVE  TypeOK' /\ ApplyTypeOK' /\ DurableInv'
    <3>1. UNCHANGED <<up, boots, leaseVars, marker, procVars>>
      BY <2>4 DEF Mutate
    <3>2. DurableInv'
      BY <3>1, SameLeaseDurable DEF procVars
    <3>3. file' \in [Path -> Content]
      <4>1. exec.plan \in Journal /\ Op[2] \in Path
        BY <2>4, MutateEffect, OpTyped, ExecFields
      <4>2. exec.plan.staged[<<Op[2], "new">>] \in Content /\ Absent \in Content
        BY <4>1 DEF Journal, Temp, Content
      <4> QED BY <2>4, <4>1, <4>2, MutateEffect DEF TypeOK
    <3> QED BY <2>0, <2>4, <3>2, <3>3, TreeType, MutateType
  <2>5. CASE (Others \/ Boot \/ Edits) /\ UNCHANGED exec
    <3>1. TypeOK' /\ DurableInv'
      BY <2>5, LeaseEffect, BootEffect, EditsEffect DEF Others
    <3>2. file' \in [Path -> Content]
      BY <3>1 DEF TypeOK
    <3> QED BY <2>0, <2>5, <3>1, <3>2, TreeType, SamePlace DEF ApplyTypeOK
  <2>6. CASE Crash /\ exec' = IdleExec
    <3>1. TypeOK' /\ DurableInv'
      BY <2>6, CrashType, CrashDurable
    <3>2. file' \in [Path -> Content]
      BY <3>1 DEF TypeOK
    <3>3. exec' \in Execs /\ exec'.at[1] # 0 /\ ~MoreToDo'
      BY <2>6, IdleExecType DEF MoreToDo
    <3> QED BY <2>0, <3>1, <3>2, <3>3, TreeType DEF ApplyTypeOK
  <2> QED BY <2>1, <2>2, <2>3, <2>4, <2>5, <2>6, ApplyCases
<1> QED BY <1>1, <1>2

\* The initial state is typed.
LEMMA InitApplyTypes == ApplyInit => TypeOK /\ ApplyTypeOK /\ DurableInv
<1> SUFFICES ASSUME ApplyInit PROVE TypeOK /\ ApplyTypeOK /\ DurableInv
  OBVIOUS
<1>1. TypeOK /\ DurableInv
  BY InitType, InitDurable DEF ApplyInit
<1>2. tree \in [Path -> Content]
  BY <1>1 DEF ApplyInit, TypeOK
<1>3. exec \in Execs /\ exec.at[1] # 0 /\ ~MoreToDo
  BY IdleExecType DEF ApplyInit, MoreToDo
<1> QED BY <1>1, <1>2, <1>3 DEF ApplyTypeOK

(***************************************************************************)
(* Where plans and journals come from.                                     *)
(***************************************************************************)
\* The plan the executor has prepared.
LEMMA ThePlan ==
    ASSUME PlanInv, TypeOK, exec.pc # "idle"
    PROVE  /\ exec.plan \in Plans /\ exec.plan.phase = "staging" /\ exec.plan \in Journal
           /\ Mutating(exec.plan) \in Journal /\ Mutating(exec.plan).phase = "mutating"
           /\ [exec.plan EXCEPT !.phase = "staging"] = exec.plan
           /\ [Mutating(exec.plan) EXCEPT !.phase = "staging"] = exec.plan
           /\ Mutating(exec.plan).touch = exec.plan.touch /\ Mutating(exec.plan).base = exec.plan.base
           /\ Mutating(exec.plan).final = exec.plan.final
           /\ Mutating(exec.plan).staged = exec.plan.staged
<1>1. PICK f \in [Path -> Content] :
         /\ \A k \in DOMAIN exec.changes : Preparable(exec.changes[k], f)
         /\ exec.changes \in Proposals /\ exec.plan = JournalOf(exec.changes, f)
  BY DEF PlanInv
<1>2. exec.plan \in Journal /\ exec.plan.phase = "staging"
  BY <1>1, PlanFacts
<1>3. exec.plan \in Plans
  <2>1. f \in {g \in [Path -> Content] : \A k \in DOMAIN exec.changes : Preparable(exec.changes[k], g)}
    BY <1>1
  <2>2. exec.plan \in {JournalOf(exec.changes, h) : h \in
           {g \in [Path -> Content] : \A k \in DOMAIN exec.changes : Preparable(exec.changes[k], g)}}
    BY <1>1, <2>1, Zenon
  <2> QED BY <1>1, <2>2, Zenon DEF Plans
<1> QED BY <1>2, <1>3 DEF Journal, Mutating

\* A journal in the mutating phase, and the empty one.
LEMMA MutatingFacts ==
    ASSUME NEW j \in Journal
    PROVE  /\ j.phase = "mutating" => Mutating(j) = j
           /\ Mutating(j).phase = "mutating" /\ Mutating(j).touch = j.touch
           /\ Mutating(j).base = j.base /\ Mutating(j).final = j.final /\ Mutating(j).staged = j.staged
BY DEF Mutating, Journal

\* Nothing is journalled in an empty registry.
LEMMA EmptyJournals ==
    /\ NoMarker.journal = NoJournal /\ NoMarker.holder.claim = 0
    /\ NoJournal.phase = "none" /\ NoJournal.touch = {}
BY EmptyTypes DEF NoMarker, NoJournal

\* Where the journals of memory and registry come from.
LEMMA JournalSources ==
    ASSUME TypeOK, DurableInv, ApplyTypeOK, PlanInv, [ApplyNext]_applyVars
    PROVE  \A j \in {marker'.journal, journal'} :
              \/ j \in {marker.journal, journal, NoJournal}
              \/ exec.pc # "idle" /\ j \in {exec.plan, Mutating(exec.plan)}
<1>1. CASE Local \/ UNCHANGED applyVars
  BY <1>1 DEF Local, applyVars, Prepare, StartApply, Recheck, MutateFails, FinalCheck, AfterCleanup,
              HandleRaise, vars, leaseVars
<1>2. CASE PersistStaging \/ PersistMutating \/ PersistClear
  BY <1>2, PersistStagingEffect, PersistMutatingEffect, PersistClearEffect
     DEF Persists, Declines, Keeps, Lands
<1>3. CASE \/ \E t \in Temp, left \in Content \cup {Torn} : WriteStaged(t, left)
           \/ \E raised, kept \in BOOLEAN : Mutate(raised, kept)
           \/ \E t \in Temp, gone, raised \in BOOLEAN : Cleanup(t, gone, raised)
           \/ Edits
  BY <1>3 DEF WriteStaged, Mutate, Cleanup, Edits, leaseVars
<1>4. CASE Others
  BY <1>4, LeaseEffect, EmptyJournals DEF Others, Keeps, Grants, GivesBack
<1>5. CASE Boot
  BY <1>5, BootEffect, EmptyJournals
<1>6. CASE Crash
  BY <1>6 DEF Crash
<1> QED BY <1>1, <1>2, <1>3, <1>4, <1>5, <1>6, ApplyCases

\* What of the executor's record a step may change.
LEMMA ExecFrame ==
    ASSUME TypeOK, DurableInv, ApplyTypeOK, PlanInv, ApplyNext
    PROVE  \/ \E chs \in Proposals : Prepare(chs)
           \/ exec'.pc = "idle"
           \/ exec.pc # "idle" /\ up' /\ exec'.changes = exec.changes /\ exec'.plan = exec.plan
<1>0. exec.pc # "idle" => up
  BY DEF PlanInv
<1>1. ASSUME Local, ~ \E chs \in Proposals : Prepare(chs)
      PROVE  exec.pc # "idle" /\ up' /\ exec'.changes = exec.changes /\ exec'.plan = exec.plan
  <2>1. exec.pc # "idle" /\ up' = up
    BY <1>1 DEF Local, StartApply, Recheck, MutateFails, FinalCheck, AfterCleanup, HandleRaise, vars
  <2>2. ASSUME \E c \in Known : StartApply(c) PROVE exec'.changes = exec.changes /\ exec'.plan = exec.plan
    BY <2>2, ExecFields DEF StartApply, Execs
  <2>3. ASSUME Recheck \/ MutateFails PROVE exec'.changes = exec.changes /\ exec'.plan = exec.plan
    BY <2>3, ExecFields DEF Recheck, MutateFails, Goto, DenyStaged, Execs
  <2>4. ASSUME FinalCheck \/ AfterCleanup PROVE exec'.changes = exec.changes /\ exec'.plan = exec.plan
    BY <2>4, ExecFields DEF FinalCheck, AfterCleanup, Goto, Deny, Execs
  <2>5. ASSUME NEW unread \in BOOLEAN, HandleRaise(unread)
        PROVE  exec'.changes = exec.changes /\ exec'.plan = exec.plan
    BY <2>5, ExecFields DEF HandleRaise, Deny, Execs
  <2> QED BY <1>0, <1>1, <2>1, <2>2, <2>3, <2>4, <2>5 DEF Local
<1>2. ASSUME PersistStaging \/ PersistMutating \/ PersistClear
      PROVE  exec.pc # "idle" /\ up' /\ exec'.changes = exec.changes /\ exec'.plan = exec.plan
  BY <1>0, <1>2, ExecFields, PersistStagingEffect, PersistMutatingEffect, PersistClearEffect
     DEF DenyStaged, PersistFrame, Execs
<1>3. ASSUME \/ \E t \in Temp, left \in Content \cup {Torn} : WriteStaged(t, left)
             \/ \E t \in Temp, gone, raised \in BOOLEAN : Cleanup(t, gone, raised)
      PROVE  exec.pc # "idle" /\ up' /\ exec'.changes = exec.changes /\ exec'.plan = exec.plan
  BY <1>0, <1>3, ExecFields DEF WriteStaged, Cleanup, DenyStaged, Execs
<1>4. ASSUME NEW raised \in BOOLEAN, NEW kept \in BOOLEAN, Mutate(raised, kept)
      PROVE  exec.pc # "idle" /\ up' /\ exec'.changes = exec.changes /\ exec'.plan = exec.plan
  BY <1>0, <1>4, MutateEffect
<1>5. ASSUME (Others \/ Edits \/ Boot) /\ UNCHANGED exec
      PROVE  \/ exec'.pc = "idle"
             \/ exec.pc # "idle" /\ up' /\ exec'.changes = exec.changes /\ exec'.plan = exec.plan
  BY <1>0, <1>5, LeaseEffect, EditsEffect, BootEffect DEF Others
<1>6. Crash /\ exec' = IdleExec => exec'.pc = "idle"
  BY IdleExecType
<1> QED BY <1>1, <1>2, <1>3, <1>4, <1>5, <1>6, ApplyCases

(***************************************************************************)
(* Plan, registry and memory agree.                                        *)
(***************************************************************************)
\* The plan of the executor and the journals stay plans of proposals.
LEMMA PlanNext ==
    ASSUME TypeOK, DurableInv, ApplyTypeOK, PlanInv, [ApplyNext]_applyVars
    PROVE  PlanInv'
<1> DEFINE Planned == exec.pc # "idle" =>
          /\ up
          /\ \E f \in [Path -> Content] :
                /\ \A k \in DOMAIN exec.changes : Preparable(exec.changes[k], f)
                /\ exec.changes \in Proposals /\ exec.plan = JournalOf(exec.changes, f)
           Known1(j) == j.phase # "none" => [j EXCEPT !.phase = "staging"] \in Plans
<1>1. Planned'
  <2>0. Planned
    BY DEF PlanInv
  <2>1. CASE UNCHANGED applyVars
    BY <2>0, <2>1 DEF applyVars, vars
  <2>2. ASSUME NEW chs \in Proposals, Prepare(chs) PROVE Planned'
    <3>1. exec'.changes = chs /\ exec'.plan = JournalOf(chs, file) /\ up'
      BY <2>2, IdleExecType DEF Prepare, Execs, vars
    <3>2. file \in [Path -> Content] /\ \A k \in DOMAIN chs : Preparable(chs[k], file)
      BY <2>2 DEF Prepare, TypeOK
    <3> QED BY <3>1, <3>2
  <2>3. CASE exec.pc # "idle" /\ up' /\ exec'.changes = exec.changes /\ exec'.plan = exec.plan
    BY <2>0, <2>3
  <2>4. CASE ApplyNext
    BY <2>2, <2>3, <2>4, ExecFrame
  <2> QED BY <2>1, <2>4
<1>2. \A j \in {marker'.journal, journal'} : Known1(j)
  <2>1. \A j \in {marker.journal, journal} : Known1(j)
    BY DEF PlanInv
  <2>2. Known1(NoJournal)
    BY EmptyTypes
  <2>3. exec.pc # "idle" => Known1(exec.plan) /\ Known1(Mutating(exec.plan))
    BY ThePlan
  <2> HIDE DEF Known1
  <2> QED BY <2>1, <2>2, <2>3, JournalSources
<1>3. (\A j \in {marker.journal, journal} : Known1(j))'
  BY <1>2
<1> QED BY <1>1, <1>3 DEF PlanInv

\* The claim and the journal of memory and registry, without the executor.
CopiesAgree ==
    holder.claim # 0 =>
        /\ marker.holder.claim \in {0, holder.claim}
        /\ marker.journal.phase = "mutating" => marker.journal = Mutating(journal)

\* Memory and registry go on agreeing.
LEMMA CopiesNext ==
    ASSUME TypeOK, DurableInv, ApplyTypeOK, PlanInv, JournalInv, [ApplyNext]_applyVars
    PROVE  CopiesAgree'
<1>0. CopiesAgree /\ journal \in Journal
  BY DEF JournalInv, CopiesAgree, TypeOK
<1>1. ASSUME UNCHANGED <<leaseVars, marker>> PROVE CopiesAgree'
  BY <1>0, <1>1 DEF CopiesAgree, leaseVars
<1>2. ASSUME Keeps PROVE CopiesAgree'
  BY <1>0, <1>2, MutatingFacts DEF Keeps, CopiesAgree
<1>3. ASSUME Grants PROVE CopiesAgree'
  BY <1>3, EmptyJournals DEF Grants, CopiesAgree
<1>4. ASSUME GivesBack PROVE CopiesAgree'
  BY <1>0, <1>4, EmptyJournals DEF GivesBack, CopiesAgree
<1>5. ASSUME NEW j, Persists(j) \/ Declines(j), holder' = holder, j \in Journal,
             \/ j.phase # "mutating"
             \/ marker.journal = journal => j = Mutating(journal)
      PROVE  CopiesAgree'
  BY <1>0, <1>2, <1>5, MutatingFacts DEF Persists, Declines, Lands, CopiesAgree
<1>6. ASSUME Local \/ UNCHANGED applyVars PROVE CopiesAgree'
  BY <1>1, <1>6 DEF Local, applyVars, Prepare, StartApply, Recheck, MutateFails, FinalCheck,
                    AfterCleanup, HandleRaise, vars
<1>7. ASSUME PersistStaging PROVE CopiesAgree'
  <2>1. exec.plan.phase = "staging" /\ exec.plan \in Journal
    BY <1>7, ThePlan DEF PersistStaging
  <2> QED BY <1>5, <1>7, <2>1, PersistStagingEffect DEF PersistFrame
<1>8. ASSUME PersistMutating PROVE CopiesAgree'
  <2>1. exec.pc = "commit"
    BY <1>8 DEF PersistMutating
  <2>2. journal = exec.plan /\ Mutating(exec.plan) \in Journal
    BY <2>1, ThePlan DEF JournalInv, Persisted
  <2> QED BY <1>5, <1>8, <2>2, PersistMutatingEffect DEF PersistFrame
<1>9. ASSUME PersistClear PROVE CopiesAgree'
  BY <1>5, <1>9, EmptyTypes, PersistClearEffect DEF PersistFrame
<1>10. ASSUME \/ \E t \in Temp, left \in Content \cup {Torn} : WriteStaged(t, left)
              \/ \E raised, kept \in BOOLEAN : Mutate(raised, kept)
              \/ \E t \in Temp, gone, raised \in BOOLEAN : Cleanup(t, gone, raised)
              \/ Edits
      PROVE  CopiesAgree'
  BY <1>1, <1>10 DEF WriteStaged, Mutate, Cleanup, Edits
<1>11. ASSUME Others PROVE CopiesAgree'
  BY <1>2, <1>3, <1>4, <1>11, LeaseEffect DEF Others
<1>12. ASSUME Boot \/ Crash PROVE CopiesAgree'
  BY <1>12, BootEffect, EmptyTypes DEF Crash, CopiesAgree
<1> QED BY <1>6, <1>7, <1>8, <1>9, <1>10, <1>11, <1>12, ApplyCases

\* What JournalInv says of the executor, by the places it may be at.
ExecAgrees ==
    /\ exec.pc \in {"stage", "commit", "mutate", "raised", "cleanup", "clear"} =>
          Held(exec.claim) /\ journal = Persisted
    /\ exec.pc \in {"stage", "commit"} => exec.phase = "staging"
    /\ exec.pc \in {"mutate", "raised"} =>
          /\ exec.phase = "mutating"
          /\ marker.holder.claim = exec.claim /\ marker.journal = Persisted
    /\ exec.pc \in {"cleanup", "clear"} =>
          IF exec.status = "ok" THEN exec.phase = "mutating"
          ELSE exec.status = "denied" /\ exec.phase = "staging"
    /\ exec.pc = "done" /\ exec.status = "ok" =>
          marker.journal.phase = "none" /\ journal.phase = "none"

\* The executor's own steps.
LEMMA LocalAgrees ==
    ASSUME TypeOK, ApplyTypeOK, PlanInv, JournalInv, Local \/ UNCHANGED applyVars
    PROVE  ExecAgrees'
<1>0. ExecAgrees /\ exec \in Execs
  BY ExecFields DEF JournalInv, ExecAgrees
<1>1. CASE UNCHANGED applyVars
  BY <1>0, <1>1 DEF applyVars, vars, leaseVars, ExecAgrees, Held, Persisted
<1>2. ASSUME NEW chs \in Proposals, Prepare(chs) PROVE ExecAgrees'
  <2>1. exec'.pc = "prepared"
    BY <1>2, IdleExecType DEF Prepare, Execs
  <2> QED BY <2>1 DEF ExecAgrees
<1>3. ASSUME NEW c \in Known, StartApply(c) PROVE ExecAgrees'
  <2>1. exec'.pc \in {"journal", "done"} /\ exec'.status # "ok"
    BY <1>0, <1>3 DEF StartApply, Execs
  <2> QED BY <2>1 DEF ExecAgrees
<1>4. ASSUME Recheck PROVE ExecAgrees'
  <2>1. /\ exec.pc = "stage" /\ UNCHANGED <<holder, journal, marker>>
        /\ exec'.claim = exec.claim /\ exec'.phase = exec.phase /\ exec'.plan = exec.plan
        /\ exec'.pc = "commit" \/ (exec'.pc = "cleanup" /\ exec'.status = "denied")
    BY <1>0, <1>4 DEF Recheck, Goto, DenyStaged, vars, leaseVars, Execs
  <2> QED BY <1>0, <2>1 DEF ExecAgrees, Held, Persisted
<1>5. ASSUME MutateFails PROVE ExecAgrees'
  <2>1. /\ exec.pc = "mutate" /\ UNCHANGED <<holder, journal, marker>>
        /\ exec'.claim = exec.claim /\ exec'.phase = exec.phase /\ exec'.plan = exec.plan
        /\ exec'.pc = "raised"
    BY <1>0, <1>5 DEF MutateFails, Goto, vars, leaseVars, Execs
  <2> QED BY <1>0, <2>1 DEF ExecAgrees, Held, Persisted
<1>6. ASSUME FinalCheck PROVE ExecAgrees'
  <2>1. /\ exec.pc = "mutate" /\ UNCHANGED <<holder, journal, marker>>
        /\ exec'.claim = exec.claim /\ exec'.phase = exec.phase /\ exec'.plan = exec.plan
        /\ \/ exec'.pc = "cleanup" /\ exec'.status = "ok"
           \/ exec'.pc = "done" /\ exec'.status = "denied"
    BY <1>0, <1>6 DEF FinalCheck, Deny, vars, leaseVars, Execs
  <2> QED BY <1>0, <2>1 DEF ExecAgrees, Held, Persisted
<1>7. ASSUME AfterCleanup PROVE ExecAgrees'
  <2>1. /\ exec.pc = "cleanup" /\ UNCHANGED <<holder, journal, marker>>
        /\ exec'.claim = exec.claim /\ exec'.phase = exec.phase /\ exec'.plan = exec.plan
        /\ \/ exec'.pc = "clear" /\ exec'.status = exec.status
           \/ exec'.pc = "done" /\ exec'.status = "denied"
    BY <1>0, <1>7 DEF AfterCleanup, Goto, Deny, vars, leaseVars, Execs
  <2> QED BY <1>0, <2>1 DEF ExecAgrees, Held, Persisted
<1>8. ASSUME NEW unread \in BOOLEAN, HandleRaise(unread) PROVE ExecAgrees'
  <2>1. exec'.pc = "done" /\ exec'.status = "denied"
    BY <1>0, <1>8 DEF HandleRaise, Deny, Execs
  <2> QED BY <2>1 DEF ExecAgrees
<1> QED BY <1>1, <1>2, <1>3, <1>4, <1>5, <1>6, <1>7, <1>8 DEF Local

\* Its journalling steps.
LEMMA PersistAgrees ==
    ASSUME TypeOK, DurableInv, ApplyTypeOK, PlanInv, JournalInv,
           PersistStaging \/ PersistMutating \/ PersistClear
    PROVE  ExecAgrees'
<1>0. ExecAgrees /\ exec \in Execs
  BY ExecFields DEF JournalInv, ExecAgrees
<1>1. ASSUME PersistStaging PROVE ExecAgrees'
  <2>1. holder' = holder
    BY <1>1, PersistStagingEffect DEF PersistFrame
  <2>2. CASE /\ Persists(exec.plan)
             /\ exec' = [exec EXCEPT !.pc = "stage", !.phase = "staging", !.todo = Staged(exec.plan)]
    <3>1. exec'.pc = "stage" /\ exec'.phase = "staging" /\ exec'.plan = exec.plan /\ exec'.claim = exec.claim
      BY <1>0, <2>2 DEF Execs
    <3> QED BY <2>1, <2>2, <3>1 DEF ExecAgrees, Held, Persisted, Persists, Lands
  <2>3. CASE exec' = [exec EXCEPT !.pc = "done", !.status = "denied", !.partial = FALSE]
    <3>1. exec'.pc = "done" /\ exec'.status = "denied"
      BY <1>0, <2>3 DEF Execs
    <3> QED BY <3>1 DEF ExecAgrees
  <2> QED BY <1>1, <2>2, <2>3, PersistStagingEffect
<1>2. ASSUME PersistMutating PROVE ExecAgrees'
  <2>1. holder' = holder /\ exec.pc = "commit"
    BY <1>2, PersistMutatingEffect DEF PersistFrame
  <2>2. CASE /\ Persists(Mutating(exec.plan))
             /\ exec' = [exec EXCEPT !.pc = "mutate", !.phase = "mutating"]
    <3>1. exec'.pc = "mutate" /\ exec'.phase = "mutating" /\ exec'.plan = exec.plan /\ exec'.claim = exec.claim
      BY <1>0, <2>2 DEF Execs
    <3> QED BY <2>1, <2>2, <3>1 DEF ExecAgrees, Held, Persisted, Persists, Lands
  <2>3. CASE Declines(Mutating(exec.plan)) /\ DenyStaged
    <3>1. exec'.pc = "cleanup" /\ exec'.status = "denied" /\ exec'.phase = exec.phase
          /\ exec'.plan = exec.plan /\ exec'.claim = exec.claim
      BY <1>0, <2>3 DEF DenyStaged, Execs
    <3> QED BY <1>0, <2>1, <2>3, <3>1 DEF ExecAgrees, Held, Persisted, Declines
  <2> QED BY <1>2, <2>2, <2>3, PersistMutatingEffect
<1>3. ASSUME PersistClear PROVE ExecAgrees'
  <2>2. CASE Persists(NoJournal) /\ exec' = [exec EXCEPT !.pc = "done"]
    <3>1. exec'.pc = "done"
      BY <1>0, <2>2 DEF Execs
    <3> QED BY <2>2, <3>1, EmptyTypes DEF ExecAgrees, Persists, Lands
  <2>3. CASE exec' = [exec EXCEPT !.pc = "done", !.status = "denied", !.partial = exec.partial]
    <3>1. exec'.pc = "done" /\ exec'.status = "denied"
      BY <1>0, <2>3 DEF Execs
    <3> QED BY <3>1 DEF ExecAgrees
  <2> QED BY <1>3, <2>2, <2>3, PersistClearEffect
<1> QED BY <1>1, <1>2, <1>3

\* The steps of others, while the executor keeps its place.
LEMMA OthersAgree ==
    ASSUME TypeOK, DurableInv, ApplyTypeOK, PlanInv, JournalInv, UNCHANGED exec,
           Others \/ Boot \/ Edits
    PROVE  ExecAgrees'
<1>0. ExecAgrees /\ exec \in Execs
  BY ExecFields DEF JournalInv, ExecAgrees
<1>1. ASSUME Keeps PROVE ExecAgrees'
  BY <1>0, <1>1 DEF ExecAgrees, Keeps, Held, Persisted
<1>2. ASSUME Grants PROVE ExecAgrees'
  BY <1>0, <1>2, EmptyJournals DEF ExecAgrees, Grants, Held
<1>3. ASSUME GivesBack PROVE ExecAgrees'
  <2>1. exec.pc \notin {"stage", "commit", "mutate", "raised", "cleanup", "clear"}
    <3> SUFFICES ASSUME exec.pc \in {"stage", "commit", "mutate", "raised", "cleanup", "clear"}
                 PROVE  FALSE
      OBVIOUS
    <3>1. journal = Persisted
      BY <1>0 DEF ExecAgrees
    <3>2. Persisted.phase # "none"
      BY ThePlan DEF Persisted
    <3> QED BY <1>3, <3>1, <3>2 DEF GivesBack
  <2> QED BY <1>0, <1>3, <2>1, EmptyJournals DEF ExecAgrees, GivesBack
<1>4. ASSUME Boot PROVE ExecAgrees'
  <2>1. exec.pc = "idle"
    BY <1>4, BootEffect DEF PlanInv
  <2> QED BY <2>1 DEF ExecAgrees
<1>5. ASSUME Edits PROVE ExecAgrees'
  BY <1>0, <1>5 DEF Edits, leaseVars, ExecAgrees, Held, Persisted
<1> QED BY <1>1, <1>2, <1>3, <1>4, <1>5, LeaseEffect DEF Others

\* Claim, phase and journal of the executor agree with memory and registry.
LEMMA JournalNext ==
    ASSUME TypeOK, DurableInv, ApplyTypeOK, PlanInv, JournalInv, [ApplyNext]_applyVars
    PROVE  JournalInv'
<1>0. ExecAgrees /\ exec \in Execs
  BY ExecFields DEF JournalInv, ExecAgrees
<1>1. ASSUME NEW t \in Temp, NEW left \in Content \cup {Torn}, WriteStaged(t, left)
      PROVE  ExecAgrees'
  <2>1. /\ exec.pc = "stage" /\ UNCHANGED <<holder, journal, marker>>
        /\ exec'.claim = exec.claim /\ exec'.phase = exec.phase /\ exec'.plan = exec.plan
        /\ exec'.pc = "stage" \/ (exec'.pc = "cleanup" /\ exec'.status = "denied")
    BY <1>0, <1>1 DEF WriteStaged, DenyStaged, leaseVars, Execs
  <2> QED BY <1>0, <2>1 DEF ExecAgrees, Held, Persisted
<1>2. ASSUME NEW raised \in BOOLEAN, NEW kept \in BOOLEAN, Mutate(raised, kept) PROVE ExecAgrees'
  <2>1. /\ exec.pc = "mutate" /\ UNCHANGED <<holder, journal, marker>>
        /\ exec'.claim = exec.claim /\ exec'.phase = exec.phase /\ exec'.plan = exec.plan
        /\ exec'.pc \in {"mutate", "raised"}
    BY <1>2, MutateEffect DEF leaseVars
  <2> QED BY <1>0, <2>1 DEF ExecAgrees, Held, Persisted
<1>3. ASSUME NEW t \in Temp, NEW gone \in BOOLEAN, NEW raised \in BOOLEAN, Cleanup(t, gone, raised)
      PROVE  ExecAgrees'
  <2>1. /\ exec.pc = "cleanup" /\ UNCHANGED <<holder, journal, marker>>
        /\ exec'.claim = exec.claim /\ exec'.phase = exec.phase /\ exec'.plan = exec.plan
        /\ exec'.pc = exec.pc /\ exec'.status = exec.status
    BY <1>0, <1>3 DEF Cleanup, leaseVars, Execs
  <2> QED BY <1>0, <2>1 DEF ExecAgrees, Held, Persisted
<1>4. exec' = IdleExec => ExecAgrees'
  BY IdleExecType DEF ExecAgrees
<1>5. ExecAgrees'
  BY <1>1, <1>2, <1>3, <1>4, LocalAgrees, PersistAgrees, OthersAgree, ApplyCases
<1> QED BY <1>5, CopiesNext DEF JournalInv, ExecAgrees, CopiesAgree

(***************************************************************************)
(* The changes of the plan.                                                *)
(***************************************************************************)
\* The changes of the plan, read against the plan instead of the capture.
LEMMA PlanChanges ==
    ASSUME TypeOK, ApplyTypeOK, PlanInv, exec.pc # "idle"
    PROVE  /\ exec.plan \in Journal /\ exec.plan.touch \subseteq Path
           /\ \A p \in exec.plan.touch : \E k \in DOMAIN exec.changes : p \in Names(exec.changes[k])
           /\ \A p \in Path : exec.plan.staged[<<p, "new">>] = exec.plan.final[p]
           /\ \A k \in DOMAIN exec.changes :
                 LET ch == exec.changes[k]
                 IN  /\ ch.kind \in Kinds /\ ch.path \in Path /\ ch.old \in Path
                     /\ k \in Nat \ {0}
                     /\ Names(ch) \subseteq exec.plan.touch
                     /\ \A l \in DOMAIN exec.changes :
                           k # l => Names(exec.changes[k]) \cap Names(exec.changes[l]) = {}
                     /\ ch.kind = "rename" => ch.old # ch.path /\ exec.plan.final[ch.old] = Absent
                     /\ ch.kind \in {"create", "rename"} => exec.plan.base[ch.path] = Absent
                     /\ ch.kind = "delete" => exec.plan.final[ch.path] = Absent
                     /\ ch.kind # "delete" => exec.plan.final[ch.path] # Absent
                     /\ \A p \in Removes(ch) : exec.plan.staged[<<p, "backup">>] = exec.plan.base[p]
<1>1. PICK f \in [Path -> Content] :
         /\ \A k \in DOMAIN exec.changes : Preparable(exec.changes[k], f)
         /\ exec.changes \in Proposals /\ exec.plan = JournalOf(exec.changes, f)
  BY DEF PlanInv
<1>2. /\ exec.plan \in Journal /\ exec.plan.phase = "staging"
      /\ \A p \in exec.plan.touch : exec.plan.base[p] = f[p]
      /\ \A p \in Path : p \in exec.plan.touch => \E k \in DOMAIN exec.changes : p \in Names(exec.changes[k])
      /\ \A p \in Path : exec.plan.staged[<<p, "new">>] = exec.plan.final[p]
  BY <1>1, PlanFacts
<1>3. exec.plan.touch \subseteq Path
  BY <1>2 DEF Journal
<1>4. ASSUME NEW k \in DOMAIN exec.changes
      PROVE  LET ch == exec.changes[k]
             IN  /\ Names(ch) \subseteq exec.plan.touch
                 /\ exec.plan.final[ch.path] = FinalOf(ch, f)
                 /\ \A p \in Sources(ch) : exec.plan.final[p] = Absent
                 /\ \A p \in Removes(ch) : exec.plan.staged[<<p, "backup">>] = f[p]
                 /\ Preparable(ch, f)
  BY <1>1, PlanFacts
<1>5. ASSUME NEW k \in DOMAIN exec.changes
      PROVE  LET ch == exec.changes[k]
             IN  /\ ch.kind \in Kinds /\ ch.path \in Path /\ ch.old \in Path /\ k \in Nat \ {0}
                 /\ ch.kind = "delete" => ch.data = Absent
                 /\ ch.kind \in {"create", "modify"} => ch.data # Absent
                 /\ ch.kind = "rename" => ch.old # ch.path
                 /\ \A l \in DOMAIN exec.changes :
                       k # l => Names(exec.changes[k]) \cap Names(exec.changes[l]) = {}
  BY <1>1, ChangesTyped
<1>6. ASSUME NEW k \in DOMAIN exec.changes
      PROVE  LET ch == exec.changes[k]
             IN  /\ ch.kind = "rename" => exec.plan.final[ch.old] = Absent
                 /\ ch.kind \in {"create", "rename"} => exec.plan.base[ch.path] = Absent
                 /\ ch.kind = "delete" => exec.plan.final[ch.path] = Absent
                 /\ ch.kind # "delete" => exec.plan.final[ch.path] # Absent
                 /\ \A p \in Removes(ch) : exec.plan.staged[<<p, "backup">>] = exec.plan.base[p]
  <2> DEFINE ch == exec.changes[k]
  <2>1. /\ Names(ch) \subseteq exec.plan.touch
        /\ exec.plan.final[ch.path] = FinalOf(ch, f)
        /\ \A p \in Sources(ch) : exec.plan.final[p] = Absent
        /\ \A p \in Removes(ch) : exec.plan.staged[<<p, "backup">>] = f[p]
        /\ Preparable(ch, f)
    BY <1>4
  <2>2. /\ ch.kind \in Kinds
        /\ ch.kind = "delete" => ch.data = Absent
        /\ ch.kind \in {"create", "modify"} => ch.data # Absent
    BY <1>5
  <2> HIDE DEF ch
  <2>3. ch.kind = "rename" => exec.plan.final[ch.old] = Absent
    BY <2>1 DEF Sources
  <2>4. ch.kind \in {"create", "rename"} => exec.plan.base[ch.path] = Absent
    BY <1>2, <2>1 DEF Names, Preparable
  <2>5. ch.kind = "delete" => exec.plan.final[ch.path] = Absent
    BY <2>1 DEF FinalOf
  <2>6. ch.kind # "delete" => exec.plan.final[ch.path] # Absent
    BY <2>1, <2>2 DEF FinalOf, Kinds, Preparable, Sources
  <2>7. \A p \in Removes(ch) : exec.plan.staged[<<p, "backup">>] = exec.plan.base[p]
    BY <1>2, <2>1 DEF Removes, Names, Sources
  <2> QED BY <2>3, <2>4, <2>5, <2>6, <2>7 DEF ch
<1> QED BY <1>2, <1>3, <1>4, <1>5, <1>6

(***************************************************************************)
(* One file operation.                                                     *)
(***************************************************************************)
\* A file operation touches a file of the change it belongs to, and stages nothing.
LEMMA OpEffect ==
    ASSUME TypeOK, ApplyTypeOK, PlanInv, NEW raised \in BOOLEAN, NEW kept \in BOOLEAN,
           Mutate(raised, kept), NEW k, k = exec.at[1]
    PROVE  LET ch == exec.changes[k]
           IN  /\ k \in DOMAIN exec.changes /\ exec'.changes = exec.changes /\ exec'.plan = exec.plan
               /\ \A p \in Path \ Names(ch) : file'[p] = file[p]
               /\ \A t \in Temp \ {<<ch.path, "new">>} : temp'[t] = temp[t]
               /\ IF (exec.at[2] = 1 /\ ch.kind \in {"create", "rename"})
                     \/ (exec.at[2] = 2 /\ ch.kind = "modify")
                  THEN /\ file'[ch.path] = exec.plan.final[ch.path]
                       /\ ch.kind = "rename" => file'[ch.old] = file[ch.old]
                  ELSE /\ temp' = temp
                       /\ exec.at[2] = 1 => file'[ch.path] = Absent
                       /\ exec.at[2] = 2 => /\ ch.kind = "rename" /\ file'[ch.old] = Absent
                                            /\ file'[ch.path] = file[ch.path]
<1> DEFINE ch == exec.changes[k]
<1>1. /\ k \in DOMAIN exec.changes /\ Op = Ops(ch)[exec.at[2]] /\ Op[2] \in Path
      /\ exec.at[2] \in 1 .. Len(Ops(ch)) /\ (exec.at[2] = 2 => ch.kind \in {"modify", "rename"})
      /\ exec.pc # "idle" /\ exec.at[2] \in {1, 2}
      /\ exec'.changes = exec.changes /\ exec'.plan = exec.plan
  BY OpTyped, MutateEffect, ExecFields
<1>2. /\ ch.kind \in Kinds /\ ch.path \in Path /\ ch.old \in Path
      /\ ch.kind = "rename" => ch.old # ch.path
      /\ exec.plan.staged[<<ch.path, "new">>] = exec.plan.final[ch.path]
  BY <1>1, PlanChanges
<1>3. \/ /\ Op[1] = "unlink" /\ file' = [file EXCEPT ![Op[2]] = Absent] /\ temp' = temp
      \/ /\ Op[1] # "unlink" /\ file' = [file EXCEPT ![Op[2]] = exec.plan.staged[<<Op[2], "new">>]]
         /\ temp' \in {temp, [temp EXCEPT ![<<Op[2], "new">>] = Absent]}
  BY MutateEffect
<1>4. /\ (exec.at[2] = 1 /\ ch.kind \in {"create", "rename"}) \/ (exec.at[2] = 2 /\ ch.kind = "modify")
            => Op[1] = "promote" /\ Op[2] = ch.path
      /\ exec.at[2] = 1 /\ ch.kind \in {"delete", "modify"} => Op[1] = "unlink" /\ Op[2] = ch.path
      /\ exec.at[2] = 2 /\ ch.kind = "rename" => Op[1] = "unlink" /\ Op[2] = ch.old
  <2> HIDE DEF ch
  <2> QED BY <1>1, <1>2, OpsFacts
<1>5. file \in [Path -> Content] /\ temp \in [Temp -> Content \cup {Torn}]
  BY DEF TypeOK
<1> HIDE DEF ch
<1>6. CASE (exec.at[2] = 1 /\ ch.kind \in {"create", "rename"}) \/ (exec.at[2] = 2 /\ ch.kind = "modify")
  <2>1. /\ file' = [file EXCEPT ![ch.path] = exec.plan.final[ch.path]]
        /\ temp' \in {temp, [temp EXCEPT ![<<ch.path, "new">>] = Absent]}
    BY <1>2, <1>3, <1>4, <1>6
  <2>2. \A t \in Temp \ {<<ch.path, "new">>} : temp'[t] = temp[t]
    BY <1>5, <2>1
  <2>3. /\ \A p \in Path \ Names(ch) : file'[p] = file[p]
        /\ file'[ch.path] = exec.plan.final[ch.path]
        /\ ch.kind = "rename" => file'[ch.old] = file[ch.old]
    BY <1>2, <1>5, <2>1 DEF Names
  <2> QED BY <1>1, <1>6, <2>2, <2>3 DEF ch
<1>7. CASE exec.at[2] = 1 /\ ch.kind \in {"delete", "modify"}
  <2>1. file' = [file EXCEPT ![ch.path] = Absent] /\ temp' = temp
    BY <1>3, <1>4, <1>7
  <2>2. /\ \A p \in Path \ Names(ch) : file'[p] = file[p]
        /\ file'[ch.path] = Absent
    BY <1>2, <1>5, <2>1 DEF Names
  <2> QED BY <1>1, <1>7, <2>1, <2>2 DEF ch
<1>8. CASE exec.at[2] = 2 /\ ch.kind = "rename"
  <2>1. file' = [file EXCEPT ![ch.old] = Absent] /\ temp' = temp
    BY <1>3, <1>4, <1>8
  <2>2. /\ \A p \in Path \ Names(ch) : file'[p] = file[p]
        /\ file'[ch.old] = Absent /\ file'[ch.path] = file[ch.path]
    BY <1>2, <1>5, <1>8, <2>1 DEF Names, Sources
  <2> QED BY <1>1, <1>8, <2>1, <2>2 DEF ch
<1> QED BY <1>1, <1>2, <1>6, <1>7, <1>8 DEF Kinds

\* One file operation takes its change from fresh to half or landed.
LEMMA ThisChange ==
    ASSUME TypeOK, ApplyTypeOK, PlanInv, NEW raised \in BOOLEAN, NEW kept \in BOOLEAN,
           Mutate(raised, kept), NEW k, k = exec.at[1],
           IF exec.at[2] = 1 THEN Fresh(exec.changes[k]) ELSE Half(exec.changes[k])
    PROVE  IF exec.at[2] < Len(Ops(exec.changes[k]))
           THEN Half(exec.changes[k])' ELSE Landed(exec.changes[k])'
<1> DEFINE ch == exec.changes[k]
<1>1. /\ k \in DOMAIN exec.changes /\ exec'.changes = exec.changes /\ exec'.plan = exec.plan
      /\ \A t \in Temp \ {<<ch.path, "new">>} : temp'[t] = temp[t]
      /\ IF (exec.at[2] = 1 /\ ch.kind \in {"create", "rename"})
            \/ (exec.at[2] = 2 /\ ch.kind = "modify")
         THEN /\ file'[ch.path] = exec.plan.final[ch.path]
              /\ ch.kind = "rename" => file'[ch.old] = file[ch.old]
         ELSE /\ temp' = temp
              /\ exec.at[2] = 1 => file'[ch.path] = Absent
              /\ exec.at[2] = 2 => /\ ch.kind = "rename" /\ file'[ch.old] = Absent
                                   /\ file'[ch.path] = file[ch.path]
  BY OpEffect
<1>2. exec.pc # "idle" /\ exec.at[2] \in {1, 2} /\ exec.at[2] \in 1 .. Len(Ops(ch))
  BY MutateEffect, ExecFields, OpTyped
<1>3. /\ ch.kind \in Kinds /\ ch.path \in Path /\ ch.old \in Path
      /\ ch.kind = "rename" => ch.old # ch.path /\ exec.plan.final[ch.old] = Absent
      /\ ch.kind = "delete" => exec.plan.final[ch.path] = Absent
  BY <1>1, <1>2, PlanChanges
<1>4. IF exec.at[2] = 1 THEN Fresh(ch) ELSE Half(ch)
  OBVIOUS
<1> DEFINE halfway == /\ ch.kind \in {"modify", "rename"}
                      /\ ch.kind = "modify" =>
                            /\ file'[ch.path] = Absent
                            /\ temp'[<<ch.path, "new">>] = exec.plan.staged[<<ch.path, "new">>]
                      /\ ch.kind = "rename" =>
                            /\ file'[ch.path] = exec.plan.final[ch.path]
                            /\ file'[ch.old] = exec.plan.base[ch.old]
           ashore  == \A p \in Names(ch) : file'[p] = exec.plan.final[p]
<1>5. /\ halfway => Half(exec.changes[k])'
      /\ ashore => Landed(exec.changes[k])'
  BY <1>1 DEF Half, Landed
<1> HIDE DEF ch
<1>6. /\ ch.kind \in {"create", "delete"} => Len(Ops(ch)) = 1
      /\ ch.kind \in {"modify", "rename"} => Len(Ops(ch)) = 2
  BY <1>3, OpsFacts
<1>7. exec.at[2] < Len(Ops(ch)) <=> ch.kind \in {"modify", "rename"} /\ exec.at[2] = 1
  <2> DEFINE n == Len(Ops(ch))  i == exec.at[2]
  <2>1. i \in {1, 2} /\ i \in 1 .. n /\ n \in {1, 2}
    BY <1>2, <1>3, <1>6 DEF Kinds
  <2>2. n = 2 <=> ch.kind \in {"modify", "rename"}
    BY <1>3, <1>6 DEF Kinds
  <2> HIDE DEF n, i
  <2>3. i < n <=> n = 2 /\ i = 1
    BY <2>1
  <2> QED BY <2>2, <2>3 DEF n, i
<1>8. IF exec.at[2] < Len(Ops(ch)) THEN halfway ELSE ashore
  <2>1. CASE ch.kind = "create"
    <3>1. ashore
      BY <1>1, <1>2, <1>6, <2>1 DEF Names, Sources
    <3> HIDE DEF ashore, halfway
    <3> QED BY <1>7, <2>1, <3>1
  <2>2. CASE ch.kind = "delete"
    <3>1. ashore
      BY <1>1, <1>2, <1>3, <1>6, <2>2 DEF Names, Sources
    <3> HIDE DEF ashore, halfway
    <3> QED BY <1>7, <2>2, <3>1
  <2>3. CASE ch.kind = "modify" /\ exec.at[2] = 1
    <3>1. halfway
      BY <1>1, <1>4, <2>3 DEF Fresh
    <3> HIDE DEF ashore, halfway
    <3> QED BY <1>7, <2>3, <3>1
  <2>4. CASE ch.kind = "modify" /\ exec.at[2] = 2
    <3>1. ashore
      BY <1>1, <2>4 DEF Names, Sources
    <3> HIDE DEF ashore, halfway
    <3> QED BY <1>7, <2>4, <3>1
  <2>5. CASE ch.kind = "rename" /\ exec.at[2] = 1
    <3>1. file[ch.old] = exec.plan.base[ch.old]
      BY <1>4, <2>5 DEF Fresh, Names, Sources
    <3>2. halfway
      BY <1>1, <2>5, <3>1
    <3> HIDE DEF ashore, halfway
    <3> QED BY <1>7, <2>5, <3>2
  <2>6. CASE ch.kind = "rename" /\ exec.at[2] = 2
    <3>1. file[ch.path] = exec.plan.final[ch.path]
      BY <1>4, <2>6 DEF Half
    <3>2. ashore
      BY <1>1, <1>3, <2>6, <3>1 DEF Names, Sources
    <3> HIDE DEF ashore, halfway
    <3> QED BY <1>7, <2>6, <3>2
  <2> QED BY <1>2, <1>3, <2>1, <2>2, <2>3, <2>4, <2>5, <2>6 DEF Kinds
<1> QED BY <1>5, <1>8 DEF ch

\* The other changes stay where they are.
LEMMA OtherChanges ==
    ASSUME TypeOK, ApplyTypeOK, PlanInv, NEW raised \in BOOLEAN, NEW kept \in BOOLEAN,
           Mutate(raised, kept), NEW l \in DOMAIN exec.changes, l # exec.at[1]
    PROVE  /\ Fresh(exec.changes[l]) => Fresh(exec.changes[l])'
           /\ Landed(exec.changes[l]) => Landed(exec.changes[l])'
<1> DEFINE k  == exec.at[1]
           ch == exec.changes[k]
           c2 == exec.changes[l]
<1>1. /\ k \in DOMAIN exec.changes /\ exec'.changes = exec.changes /\ exec'.plan = exec.plan
      /\ \A p \in Path \ Names(ch) : file'[p] = file[p]
      /\ \A t \in Temp \ {<<ch.path, "new">>} : temp'[t] = temp[t]
  BY OpEffect
<1>2. exec.pc # "idle"
  BY MutateEffect
<1>3. /\ Names(c2) \cap Names(ch) = {} /\ Names(c2) \subseteq Path /\ c2.path \in Path
  BY <1>1, <1>2, PlanChanges DEF Names, Sources
<1>4. \A p \in Names(c2) : file'[p] = file[p]
  BY <1>1, <1>3
<1>5. temp'[<<c2.path, "new">>] = temp[<<c2.path, "new">>]
  <2>1. c2.path # ch.path
    BY <1>3 DEF Names
  <2>2. <<c2.path, "new">> \in Temp /\ <<c2.path, "new">> # <<ch.path, "new">>
    BY <1>3, <2>1 DEF Temp
  <2> QED BY <1>1, <2>2
<1> QED BY <1>1, <1>4, <1>5 DEF Fresh, Landed

\* Backups are not touched.
LEMMA BackupsStay ==
    ASSUME TypeOK, ApplyTypeOK, PlanInv, NEW raised \in BOOLEAN, NEW kept \in BOOLEAN,
           Mutate(raised, kept), BackedUp
    PROVE  BackedUp'
<1>1. /\ exec'.plan = exec.plan
      /\ \A t \in Temp \ {<<exec.changes[exec.at[1]].path, "new">>} : temp'[t] = temp[t]
  BY OpEffect
<1>2. exec.plan.touch \subseteq Path
  BY MutateEffect, PlanChanges
<1>3. \A p \in exec.plan.touch : <<p, "backup">> \in Temp \ {<<exec.changes[exec.at[1]].path, "new">>}
  BY <1>2 DEF Temp
<1> QED BY <1>1, <1>3 DEF BackedUp

\* The place that was reached moves with the executor; where it raised, every change
\* is fresh, half or landed.
LEMMA MutateFiles ==
    ASSUME TypeOK, ApplyTypeOK, PlanInv, NEW raised \in BOOLEAN, NEW kept \in BOOLEAN,
           Mutate(raised, kept), Reached(exec.at)
    PROVE  /\ ~raised => Reached(exec.at)'
           /\ \A l \in DOMAIN exec.changes :
                 Fresh(exec.changes[l])' \/ Half(exec.changes[l])' \/ Landed(exec.changes[l])'
<1>1. exec'.changes = exec.changes /\ (~raised => exec'.at = NextAt) /\ exec.at[1] \in Nat /\ exec.at[2] \in {1, 2}
  BY MutateEffect, ExecFields
<1>2. DOMAIN exec.changes \subseteq Nat
  BY MutateEffect, PlanChanges
<1>3. exec.at[1] \in DOMAIN exec.changes
  BY MutateEffect DEF MoreToDo
<1>4. IF exec.at[2] = 1 THEN Fresh(exec.changes[exec.at[1]]) ELSE Half(exec.changes[exec.at[1]])
  BY <1>1, <1>3 DEF Reached
<1>5. \A k : k = exec.at[1] => IF exec.at[2] < Len(Ops(exec.changes[k]))
                               THEN Half(exec.changes[k])' ELSE Landed(exec.changes[k])'
  BY <1>4, ThisChange
<1>6. \A l \in DOMAIN exec.changes :
         /\ l < exec.at[1] => Landed(exec.changes[l])'
         /\ l > exec.at[1] => Fresh(exec.changes[l])'
  <2> SUFFICES ASSUME NEW l \in DOMAIN exec.changes
               PROVE  /\ l < exec.at[1] => Landed(exec.changes[l])'
                      /\ l > exec.at[1] => Fresh(exec.changes[l])'
    OBVIOUS
  <2>1. /\ l < exec.at[1] => Landed(exec.changes[l])
        /\ l > exec.at[1] => Fresh(exec.changes[l])
    BY DEF Reached
  <2>2. l # exec.at[1] => /\ Fresh(exec.changes[l]) => Fresh(exec.changes[l])'
                          /\ Landed(exec.changes[l]) => Landed(exec.changes[l])'
    BY OtherChanges
  <2>3. (l < exec.at[1] \/ l > exec.at[1]) => l # exec.at[1]
    BY <1>1, <1>2
  <2> QED BY <2>1, <2>2, <2>3
<1>7. \A l \in DOMAIN exec.changes :
         Fresh(exec.changes[l])' \/ Half(exec.changes[l])' \/ Landed(exec.changes[l])'
  <2> SUFFICES ASSUME NEW l \in DOMAIN exec.changes
               PROVE  Fresh(exec.changes[l])' \/ Half(exec.changes[l])' \/ Landed(exec.changes[l])'
    OBVIOUS
  <2>1. l < exec.at[1] \/ l = exec.at[1] \/ l > exec.at[1]
    BY <1>1, <1>2
  <2> QED BY <1>5, <1>6, <2>1
<1>8. ASSUME ~raised, NEW l \in DOMAIN exec'.changes
      PROVE  /\ l < exec'.at[1] => Landed(exec.changes[l])'
             /\ l > exec'.at[1] => Fresh(exec.changes[l])'
             /\ l = exec'.at[1] => IF exec'.at[2] = 1 THEN Fresh(exec.changes[l])' ELSE Half(exec.changes[l])'
  <2>0. l \in DOMAIN exec.changes /\ l \in Nat
    BY <1>1, <1>2, <1>8
  <2>1. CASE exec.at[2] < Len(Ops(exec.changes[exec.at[1]]))
    <3>1. exec'.at = <<exec.at[1], exec.at[2] + 1>>
      BY <1>1, <1>8, <2>1 DEF NextAt
    <3>2. exec'.at[1] = exec.at[1] /\ exec'.at[2] # 1
      BY <1>1, <3>1
    <3>3. l = exec.at[1] => Half(exec.changes[l])'
      BY <1>5, <2>1
    <3> QED BY <1>6, <2>0, <3>2, <3>3
  <2>2. CASE ~(exec.at[2] < Len(Ops(exec.changes[exec.at[1]])))
    <3>1. exec'.at = <<exec.at[1] + 1, 1>>
      BY <1>1, <1>8, <2>2 DEF NextAt
    <3>2. exec'.at[1] = exec.at[1] + 1 /\ exec'.at[2] = 1
      BY <3>1
    <3>3. l = exec.at[1] => Landed(exec.changes[l])'
      BY <1>5, <2>2
    <3>4. /\ l < exec'.at[1] => l < exec.at[1] \/ l = exec.at[1]
          /\ l >= exec'.at[1] => l > exec.at[1]
          /\ l > exec'.at[1] => l > exec.at[1]
          /\ l = exec'.at[1] => l > exec.at[1]
      BY <1>1, <2>0, <3>2
    <3>5. /\ l < exec.at[1] => Landed(exec.changes[l])'
          /\ l > exec.at[1] => Fresh(exec.changes[l])'
      BY <1>6, <2>0
    <3> QED BY <3>2, <3>3, <3>4, <3>5
  <2> QED BY <2>1, <2>2
<1>9. ~raised => Reached(exec.at)'
  BY <1>8 DEF Reached
<1> QED BY <1>7, <1>9

(***************************************************************************)
(* The files while nobody else edits.                                      *)
(***************************************************************************)
\* What is said of plan, files and temporaries stays while they do.
LEMMA SameDisk ==
    ASSUME exec'.plan = exec.plan, file' = file
    PROVE  /\ AllBase(exec.plan)' <=> AllBase(exec.plan)
           /\ AllFinal(exec.plan)' <=> AllFinal(exec.plan)
           /\ temp' = temp => /\ StagedAbsent(exec.plan)' <=> StagedAbsent(exec.plan)
                              /\ BackedUp' <=> BackedUp
BY DEF AllBase, AllFinal, StagedAbsent, Staged, BackedUp

\* So does how far the changes have come.
LEMMA SameChanges ==
    ASSUME exec'.plan = exec.plan, exec'.changes = exec.changes, UNCHANGED <<file, temp>>,
           NEW k \in DOMAIN exec.changes
    PROVE  /\ Fresh(exec.changes[k]) => Fresh(exec.changes[k])'
           /\ Half(exec.changes[k]) => Half(exec.changes[k])'
           /\ Landed(exec.changes[k]) => Landed(exec.changes[k])'
BY DEF Fresh, Half, Landed

\* Over files that are still at their base every change is fresh.
LEMMA BaseIsReached ==
    ASSUME TypeOK, ApplyTypeOK, PlanInv, exec.pc # "idle", AllBase(exec.plan),
           exec.at = <<1, 1>>, \A t \in Staged(exec.plan) : temp[t] = exec.plan.staged[t]
    PROVE  BackedUp /\ Reached(exec.at)
<1>1. exec.plan.touch \subseteq Path
  BY PlanChanges
<1>2. BackedUp
  BY <1>1 DEF BackedUp, Staged, Temp
<1>3. ASSUME NEW k \in DOMAIN exec.changes
      PROVE  Fresh(exec.changes[k]) /\ k \in Nat \ {0}
  <2> DEFINE ch == exec.changes[k]
             t  == <<ch.path, "new">>
  <2>1. /\ Names(ch) \subseteq exec.plan.touch /\ ch.path \in Path /\ k \in Nat \ {0}
        /\ ch.kind # "delete" => exec.plan.final[ch.path] # Absent
        /\ exec.plan.staged[t] = exec.plan.final[ch.path]
    BY <1>3, PlanChanges
  <2>2. \A p \in Names(ch) : file[p] = exec.plan.base[p]
    BY <2>1 DEF AllBase
  <2>3. ch.kind # "delete" => temp[t] = exec.plan.staged[t]
    BY <2>1 DEF Staged, Temp
  <2> QED BY <2>1, <2>2, <2>3 DEF Fresh
<1>4. exec.at[1] = 1 /\ exec.at[2] = 1
  OBVIOUS
<1>5. \A k \in DOMAIN exec.changes : ~(k < exec.at[1])
  BY <1>3, <1>4
<1>6. Reached(exec.at)
  BY <1>3, <1>4, <1>5 DEF Reached
<1> QED BY <1>2, <1>6

\* Wherever the executor is, no change is anything but fresh, half or landed.
LEMMA ReachedAll ==
    ASSUME TypeOK, ApplyTypeOK, PlanInv, exec.pc # "idle", Reached(exec.at),
           NEW k \in DOMAIN exec.changes
    PROVE  Fresh(exec.changes[k]) \/ Half(exec.changes[k]) \/ Landed(exec.changes[k])
<1>1. k \in Nat /\ exec.at[1] \in Nat
  BY PlanChanges, ExecFields
<1>2. k < exec.at[1] \/ k > exec.at[1] \/ k = exec.at[1]
  BY <1>1
<1> QED BY <1>2 DEF Reached

\* The steps of the executor's record.
LEMMA LocalFiles ==
    ASSUME TypeOK, ApplyTypeOK, PlanInv, FilesInv, Local
    PROVE  FilesInv'
<1> SUFFICES ASSUME edits = 0 PROVE FilesInv'
  BY DEF FilesInv, Local, Prepare, StartApply, Recheck, MutateFails, FinalCheck, AfterCleanup,
         HandleRaise, vars, diskVars
<1>1. UNCHANGED <<file, temp>> /\ exec \in Execs
  BY ExecFields DEF Local, Prepare, StartApply, Recheck, MutateFails, FinalCheck, AfterCleanup,
         HandleRaise, vars, diskVars
<1>2. ASSUME NEW chs \in Proposals, Prepare(chs) PROVE FilesInv'
  <2>1. file \in [Path -> Content] /\ \A k \in DOMAIN chs : Preparable(chs[k], file)
    BY <1>2 DEF Prepare, TypeOK
  <2>2. /\ exec' = [IdleExec EXCEPT !.pc = "prepared", !.changes = chs, !.plan = JournalOf(chs, file)]
        /\ \A p \in JournalOf(chs, file).touch : JournalOf(chs, file).base[p] = file[p]
    BY <1>2, <2>1, PlanFacts DEF Prepare
  <2>3. exec'.pc = "prepared" /\ exec'.at = <<1, 1>> /\ exec'.plan = JournalOf(chs, file)
    BY <2>2, IdleExecType DEF Execs
  <2>4. AllBase(exec.plan)'
    BY <1>1, <2>2, <2>3 DEF AllBase
  <2> QED BY <2>3, <2>4 DEF FilesInv
<1>3. ASSUME NEW c \in Known, StartApply(c) PROVE FilesInv'
  <2>1. AllBase(exec.plan) /\ exec.at = <<1, 1>>
    BY <1>3 DEF StartApply, FilesInv
  <2>2. exec'.pc = "journal" /\ exec'.at = exec.at /\ exec'.plan = exec.plan
    BY <1>1, <1>3, <2>1 DEF StartApply, Execs
  <2> QED BY <1>1, <2>1, <2>2, SameDisk DEF FilesInv
<1>4. ASSUME Recheck PROVE FilesInv'
  <2>1. AllBase(exec.plan) /\ exec.at = <<1, 1>>
    BY <1>4 DEF Recheck, FilesInv
  <2>2. /\ exec'.plan = exec.plan
        /\ \/ /\ exec'.pc = "commit" /\ exec'.at = exec.at
              /\ \A t \in Staged(exec.plan) : temp[t] = exec.plan.staged[t]
           \/ exec'.pc = "cleanup" /\ exec'.status = "denied"
    BY <1>1, <1>4 DEF Recheck, Goto, DenyStaged, Execs
  <2>3. Staged(exec.plan)' = Staged(exec.plan)
    BY <2>2 DEF Staged
  <2> QED BY <1>1, <2>1, <2>2, <2>3, SameDisk DEF FilesInv
<1>5. ASSUME MutateFails PROVE FilesInv'
  <2>1. BackedUp /\ Reached(exec.at) /\ exec.pc # "idle"
    BY <1>5 DEF MutateFails, FilesInv
  <2>2. exec'.pc = "raised" /\ exec'.plan = exec.plan /\ exec'.changes = exec.changes
    BY <1>1, <1>5 DEF MutateFails, Goto, Execs
  <2>3. ASSUME NEW k \in DOMAIN exec.changes
        PROVE  Fresh(exec.changes[k])' \/ Half(exec.changes[k])' \/ Landed(exec.changes[k])'
    BY <1>1, <2>1, <2>2, <2>3, ReachedAll, SameChanges
  <2> QED BY <1>1, <2>1, <2>2, <2>3, SameDisk DEF FilesInv
<1>6. ASSUME FinalCheck PROVE FilesInv'
  <2>1. /\ exec'.plan = exec.plan
        /\ \/ exec'.pc = "cleanup" /\ exec'.status = "ok" /\ AllFinal(exec.plan)
           \/ exec'.pc = "done" /\ exec'.status = "denied" /\ exec'.partial = TRUE
    BY <1>1, <1>6 DEF FinalCheck, Deny, Execs
  <2> QED BY <1>1, <2>1, SameDisk DEF FilesInv
<1>7. ASSUME AfterCleanup PROVE FilesInv'
  <2>1. IF exec.status = "ok" THEN AllFinal(exec.plan) ELSE AllBase(exec.plan)
    BY <1>7 DEF AfterCleanup, FilesInv
  <2>2. /\ exec'.plan = exec.plan
        /\ \/ exec'.pc = "clear" /\ exec'.status = exec.status
           \/ exec'.pc = "done" /\ exec'.status = "denied"
    BY <1>1, <1>7 DEF AfterCleanup, Goto, Deny, Execs
  <2> QED BY <1>1, <2>1, <2>2, SameDisk DEF FilesInv
<1>8. ASSUME NEW unread \in BOOLEAN, HandleRaise(unread) PROVE FilesInv'
  <2>1. /\ exec'.plan = exec.plan /\ exec'.pc = "done" /\ exec'.status = "denied"
        /\ exec'.partial = (unread \/ Partial)
    BY <1>1, <1>8 DEF HandleRaise, Deny, Execs
  <2>2. exec'.partial \/ AllBase(exec.plan)
    BY <2>1 DEF Partial
  <2> QED BY <1>1, <2>1, <2>2, SameDisk DEF FilesInv
<1> QED BY <1>2, <1>3, <1>4, <1>5, <1>6, <1>7, <1>8 DEF Local

\* The steps that persist.
LEMMA PersistFiles ==
    ASSUME TypeOK, DurableInv, ApplyTypeOK, PlanInv, JournalInv, FilesInv,
           PersistStaging \/ PersistMutating \/ PersistClear
    PROVE  FilesInv'
<1>0. UNCHANGED <<file, temp, edits>> /\ exec \in Execs
  BY ExecFields DEF PersistStaging, PersistMutating, PersistClear, diskVars
<1> SUFFICES ASSUME edits = 0 PROVE FilesInv'
  BY <1>0 DEF FilesInv
<1>1. ASSUME PersistStaging PROVE FilesInv'
  <2>1. AllBase(exec.plan) /\ exec.at = <<1, 1>>
    BY <1>1 DEF PersistStaging, FilesInv
  <2>2. \/ exec' = [exec EXCEPT !.pc = "stage", !.phase = "staging", !.todo = Staged(exec.plan)]
        \/ exec' = [exec EXCEPT !.pc = "done", !.status = "denied", !.partial = FALSE]
    BY <1>1, PersistStagingEffect
  <2>3. /\ exec'.plan = exec.plan
        /\ \/ exec'.pc = "stage" /\ exec'.at = exec.at
           \/ exec'.pc = "done" /\ exec'.status = "denied"
    BY <1>0, <2>2 DEF Execs
  <2> QED BY <1>0, <2>1, <2>3, SameDisk DEF FilesInv
<1>2. ASSUME PersistMutating PROVE FilesInv'
  <2>1. /\ AllBase(exec.plan) /\ exec.at = <<1, 1>> /\ exec.pc # "idle"
        /\ \A t \in Staged(exec.plan) : temp[t] = exec.plan.staged[t]
    BY <1>2 DEF PersistMutating, FilesInv
  <2>2. BackedUp /\ Reached(exec.at)
    BY <2>1, BaseIsReached
  <2>3. \/ exec' = [exec EXCEPT !.pc = "mutate", !.phase = "mutating"]
        \/ DenyStaged
    BY <1>2, PersistMutatingEffect
  <2>4. /\ exec'.plan = exec.plan /\ exec'.changes = exec.changes
        /\ \/ exec'.pc = "mutate" /\ exec'.at = exec.at
           \/ exec'.pc = "cleanup" /\ exec'.status = "denied"
    BY <1>0, <2>3 DEF DenyStaged, Execs
  <2>5. exec'.at = exec.at => Reached(exec.at)'
    BY <1>0, <2>2, <2>4, SameChanges DEF Reached
  <2> QED BY <1>0, <2>1, <2>2, <2>4, <2>5, SameDisk DEF FilesInv
<1>3. ASSUME PersistClear PROVE FilesInv'
  <2>1. IF exec.status = "ok" THEN AllFinal(exec.plan) ELSE AllBase(exec.plan)
    BY <1>3 DEF PersistClear, FilesInv
  <2>2. \/ Persists(NoJournal) /\ exec' = [exec EXCEPT !.pc = "done"]
        \/ exec' = [exec EXCEPT !.pc = "done", !.status = "denied", !.partial = exec.partial]
    BY <1>3, PersistClearEffect
  <2>3. /\ exec'.plan = exec.plan /\ exec'.pc = "done"
        /\ \/ exec'.status = exec.status /\ Persists(NoJournal)
           \/ exec'.status = "denied"
    BY <1>0, <2>2 DEF Execs
  <2>4. Persists(NoJournal) => StagedAbsent(exec.plan)
    <3>1. journal = Persisted /\ exec.pc # "idle"
      BY <1>3 DEF PersistClear, JournalInv
    <3>2. journal.phase # "none" /\ journal.staged = exec.plan.staged
      BY <3>1, ThePlan DEF Persisted
    <3>3. Persists(NoJournal) => ClearProven(journal)
      BY <3>2, EmptyJournals DEF Persists, Lands
    <3> QED BY <3>2, <3>3 DEF ClearProven, StagedAbsent, Staged
  <2> QED BY <1>0, <2>1, <2>3, <2>4, SameDisk DEF FilesInv
<1> QED BY <1>1, <1>2, <1>3

\* The steps on temporaries.
LEMMA StagingFiles ==
    ASSUME TypeOK, ApplyTypeOK, PlanInv, FilesInv,
           \/ \E t \in Temp, left \in Content \cup {Torn} : WriteStaged(t, left)
           \/ \E t \in Temp, gone, raised \in BOOLEAN : Cleanup(t, gone, raised)
    PROVE  FilesInv'
<1>0. UNCHANGED <<file, edits>> /\ exec \in Execs
  BY ExecFields DEF WriteStaged, Cleanup
<1> SUFFICES ASSUME edits = 0 PROVE FilesInv'
  BY <1>0 DEF FilesInv
<1>1. ASSUME NEW t \in Temp, NEW left \in Content \cup {Torn}, WriteStaged(t, left)
      PROVE  FilesInv'
  <2>1. AllBase(exec.plan) /\ exec.at = <<1, 1>>
    BY <1>1 DEF WriteStaged, FilesInv
  <2>2. /\ exec'.plan = exec.plan /\ exec'.at = exec.at
        /\ \/ exec'.pc = "stage"
           \/ exec'.pc = "cleanup" /\ exec'.status = "denied"
    BY <1>0, <1>1 DEF WriteStaged, DenyStaged, Execs
  <2> QED BY <1>0, <2>1, <2>2, SameDisk DEF FilesInv
<1>2. ASSUME NEW t \in Temp, NEW gone \in BOOLEAN, NEW raised \in BOOLEAN, Cleanup(t, gone, raised)
      PROVE  FilesInv'
  <2>1. IF exec.status = "ok" THEN AllFinal(exec.plan) ELSE AllBase(exec.plan)
    BY <1>2 DEF Cleanup, FilesInv
  <2>2. exec'.plan = exec.plan /\ exec'.status = exec.status /\ exec'.pc = "cleanup"
    BY <1>0, <1>2 DEF Cleanup, Execs
  <2> QED BY <1>0, <2>1, <2>2, SameDisk DEF FilesInv
<1> QED BY <1>1, <1>2

\* While nobody else edits, the files are where the executor believes them to be.
LEMMA FilesNext ==
    ASSUME TypeOK, DurableInv, ApplyTypeOK, PlanInv, JournalInv, FilesInv, [ApplyNext]_applyVars
    PROVE  FilesInv'
<1>1. ASSUME UNCHANGED <<exec, file, temp, edits>> PROVE FilesInv'
  <2> SUFFICES ASSUME edits = 0 PROVE FilesInv'
    BY <1>1 DEF FilesInv
  <2>1. exec' = exec /\ file' = file /\ temp' = temp
    BY <1>1
  <2>2. /\ AllBase(exec.plan)' = AllBase(exec.plan) /\ AllFinal(exec.plan)' = AllFinal(exec.plan)
        /\ StagedAbsent(exec.plan)' = StagedAbsent(exec.plan) /\ BackedUp' = BackedUp
        /\ Staged(exec.plan)' = Staged(exec.plan)
    BY <2>1 DEF AllBase, AllFinal, StagedAbsent, Staged, BackedUp
  <2>3. \A k : /\ Fresh(exec.changes[k])' = Fresh(exec.changes[k])
               /\ Half(exec.changes[k])' = Half(exec.changes[k])
               /\ Landed(exec.changes[k])' = Landed(exec.changes[k])
    BY <2>1 DEF Fresh, Half, Landed
  <2>4. Reached(exec.at)' <=> Reached(exec.at)
    BY <2>1, <2>3 DEF Reached
  <2> QED BY <2>1, <2>2, <2>3, <2>4 DEF FilesInv
<1>2. ASSUME exec'.pc = "idle" PROVE FilesInv'
  BY <1>2 DEF FilesInv
<1>3. ASSUME NEW raised \in BOOLEAN, NEW kept \in BOOLEAN, Mutate(raised, kept) PROVE FilesInv'
  <2>1. /\ exec.pc = "mutate" /\ edits' = edits /\ exec'.changes = exec.changes
        /\ \/ ~raised /\ exec'.pc = "mutate"
           \/ raised /\ exec'.pc = "raised"
    BY <1>3, MutateEffect
  <2>2. edits = 0 => BackedUp /\ Reached(exec.at)
    BY <2>1 DEF FilesInv
  <2>3. edits = 0 => /\ BackedUp'
                     /\ ~raised => Reached(exec.at)'
                     /\ \A l \in DOMAIN exec.changes :
                           Fresh(exec.changes[l])' \/ Half(exec.changes[l])' \/ Landed(exec.changes[l])'
    BY <1>3, <2>2, BackupsStay, MutateFiles
  <2> QED BY <2>1, <2>3 DEF FilesInv
<1>4. CASE UNCHANGED applyVars
  BY <1>1, <1>4 DEF applyVars, vars, diskVars
<1>5. ASSUME Others /\ UNCHANGED exec PROVE FilesInv'
  BY <1>1, <1>5, LeaseEffect DEF Others
<1>6. ASSUME Boot /\ UNCHANGED exec PROVE FilesInv'
  <2>1. exec.pc = "idle"
    BY <1>6, BootEffect DEF PlanInv
  <2> QED BY <1>2, <1>6, <2>1
<1>7. ASSUME Edits PROVE FilesInv'
  <2>1. edits' = edits + 1 /\ edits \in Nat
    BY <1>7, EditsEffect, BoundsNat DEF TypeOK
  <2>2. edits' # 0
    BY <2>1
  <2> QED BY <2>2 DEF FilesInv
<1>8. ASSUME exec' = IdleExec PROVE FilesInv'
  BY <1>2, <1>8, IdleExecType
<1> QED BY <1>3, <1>4, <1>5, <1>6, <1>7, <1>8, LocalFiles, PersistFiles, StagingFiles, ApplyCases

(***************************************************************************)
(* What can be repaired.                                                   *)
(***************************************************************************)
\* With its backups on disk and every change fresh, half or landed, the plan is kept.
LEMMA PlanIsKept ==
    ASSUME TypeOK, ApplyTypeOK, PlanInv, exec.pc # "idle",
           exec'.plan = exec.plan, exec'.changes = exec.changes, BackedUp',
           \A l \in DOMAIN exec.changes :
              Fresh(exec.changes[l])' \/ Half(exec.changes[l])' \/ Landed(exec.changes[l])',
           NEW p \in exec.plan.touch
    PROVE  /\ exec.plan.base[p] # Absent => exec.plan.base[p] \in {file'[p], temp'[<<p, "backup">>]}
           /\ exec.plan.final[p] # Absent => exec.plan.final[p] \in {file'[p], temp'[<<p, "new">>]}
<1> DEFINE j == exec.plan
<1>1. PICK k \in DOMAIN exec.changes : p \in Names(exec.changes[k])
  BY PlanChanges
<1> DEFINE ch == exec.changes[k]
<1>2. /\ ch.kind \in Kinds /\ j.staged[<<ch.path, "new">>] = j.final[ch.path]
      /\ ch.kind = "rename" => ch.old # ch.path /\ j.final[ch.old] = Absent
      /\ ch.kind \in {"create", "rename"} => j.base[ch.path] = Absent
      /\ ch.kind = "delete" => j.final[ch.path] = Absent
      /\ \A q \in Removes(ch) : j.staged[<<q, "backup">>] = j.base[q]
  BY PlanChanges
<1>3. p \in Removes(ch) /\ j.base[p] # Absent => temp'[<<p, "backup">>] = j.base[p]
  BY <1>2 DEF BackedUp
<1>4. Fresh(ch)' \/ Half(ch)' \/ Landed(ch)'
  OBVIOUS
<1>5. /\ p = ch.path \/ (ch.kind = "rename" /\ p = ch.old)
      /\ ch.kind = "rename" /\ p = ch.old => p \in Removes(ch)
      /\ ch.kind \in {"modify", "delete"} /\ p = ch.path => p \in Removes(ch)
  BY <1>1 DEF Names, Sources, Removes
<1>6. CASE Fresh(ch)'
  <2>1. file'[p] = j.base[p] /\ (ch.kind # "delete" => temp'[<<ch.path, "new">>] = j.final[ch.path])
    BY <1>1, <1>2, <1>6 DEF Fresh
  <2> QED BY <1>2, <1>5, <2>1
<1>7. CASE Landed(ch)'
  <2>1. file'[p] = j.final[p]
    BY <1>1, <1>7 DEF Landed
  <2>2. j.base[p] # Absent => p \in Removes(ch)
    BY <1>2, <1>5 DEF Kinds
  <2> QED BY <1>3, <2>1, <2>2
<1>8. CASE Half(ch)' /\ ch.kind = "modify"
  <2>1. temp'[<<ch.path, "new">>] = j.final[ch.path] /\ p = ch.path /\ p \in Removes(ch)
    BY <1>2, <1>5, <1>8 DEF Half
  <2> QED BY <1>3, <2>1
<1>9. CASE Half(ch)' /\ ch.kind = "rename"
  <2>1. file'[ch.path] = j.final[ch.path] /\ file'[ch.old] = j.base[ch.old]
    BY <1>9 DEF Half
  <2> QED BY <1>2, <1>5, <1>9, <2>1
<1> QED BY <1>4, <1>6, <1>7, <1>8, <1>9 DEF Half

\* A journal can be repaired as long as files and temporaries stay, or as long as the
\* files are wholly base or wholly final.
LEMMA RepairStays ==
    ASSUME NEW j, file' = file,
           \/ Repairable(j) /\ temp' = temp
           \/ j.phase = "mutating" => AllBase(j) \/ AllFinal(j)
    PROVE  j.phase = "mutating" =>
              \/ \A p \in j.touch : file'[p] = j.base[p]
              \/ \A p \in j.touch : file'[p] = j.final[p]
              \/ \A p \in j.touch :
                    /\ j.base[p] # Absent => j.base[p] \in {file'[p], temp'[<<p, "backup">>]}
                    /\ j.final[p] # Absent => j.final[p] \in {file'[p], temp'[<<p, "new">>]}
BY DEF Repairable, AllBase, AllFinal, Kept

\* The same of the journal in registry or memory after the step.
RepairableNext(j) ==
    j.phase = "mutating" =>
       \/ \A p \in j.touch : file'[p] = j.base[p]
       \/ \A p \in j.touch : file'[p] = j.final[p]
       \/ \A p \in j.touch :
             /\ j.base[p] # Absent => j.base[p] \in {file'[p], temp'[<<p, "backup">>]}
             /\ j.final[p] # Absent => j.final[p] \in {file'[p], temp'[<<p, "new">>]}

\* What is repairable after the step in both copies.
LEMMA KeptFrom ==
    ASSUME RepairableNext(marker'.journal), holder'.claim # 0 => RepairableNext(journal')
    PROVE  KeptInv'
BY DEF KeptInv, Repairable, AllBase, AllFinal, Kept, RepairableNext

\* Steps that leave files and temporaries alone.
LEMMA KeptSources ==
    ASSUME TypeOK, DurableInv, ApplyTypeOK, PlanInv, JournalInv, FilesInv, KeptInv, edits = 0,
           \/ Local \/ UNCHANGED applyVars
           \/ PersistStaging \/ PersistMutating \/ PersistClear
           \/ Others
    PROVE  KeptInv'
<1>0. /\ Repairable(marker.journal) /\ (holder.claim # 0 => Repairable(journal))
      /\ Repairable(NoJournal)
  BY EmptyJournals DEF KeptInv, Repairable
<1>1. UNCHANGED <<file, temp>>
  BY LeaseEffect DEF Local, Others, applyVars, Prepare, StartApply, Recheck, MutateFails, FinalCheck,
     AfterCleanup, HandleRaise, PersistStaging, PersistMutating, PersistClear, vars, diskVars
<1> SUFFICES /\ Repairable(marker'.journal)
             /\ holder'.claim # 0 => Repairable(journal')
  BY <1>1, KeptFrom, RepairStays DEF RepairableNext
<1>2. ASSUME Keeps PROVE Repairable(marker'.journal) /\ (holder'.claim # 0 => Repairable(journal'))
  BY <1>0, <1>2 DEF Keeps
<1>3. ASSUME NEW j, Persists(j) \/ Declines(j), holder' = holder, Repairable(j)
      PROVE  Repairable(marker'.journal) /\ (holder'.claim # 0 => Repairable(journal'))
  BY <1>0, <1>2, <1>3 DEF Persists, Declines, Lands
<1>4. CASE Local \/ UNCHANGED applyVars
  BY <1>0, <1>4 DEF Local, applyVars, Prepare, StartApply, Recheck, MutateFails, FinalCheck,
     AfterCleanup, HandleRaise, vars, leaseVars
<1>5. CASE PersistStaging
  <2>1. Repairable(exec.plan) /\ holder' = holder
    BY <1>5, ThePlan, PersistStagingEffect DEF Repairable, PersistFrame
  <2> QED BY <1>3, <1>5, <2>1, PersistStagingEffect
<1>6. CASE PersistMutating
  <2>1. exec.pc = "commit" /\ AllBase(exec.plan)
    BY <1>6 DEF PersistMutating, FilesInv
  <2>2. AllBase(Mutating(exec.plan))
    BY <2>1, ThePlan DEF AllBase
  <2>3. Repairable(Mutating(exec.plan)) /\ holder' = holder
    BY <1>6, <2>2, PersistMutatingEffect DEF Repairable, PersistFrame
  <2> QED BY <1>3, <1>6, <2>3, PersistMutatingEffect
<1>7. CASE PersistClear
  BY <1>0, <1>3, <1>7, PersistClearEffect DEF PersistFrame
<1>8. CASE Others
  <2>1. Keeps \/ Grants \/ GivesBack
    BY <1>8, LeaseEffect DEF Others
  <2>2. ASSUME Grants PROVE Repairable(marker'.journal) /\ (holder'.claim # 0 => Repairable(journal'))
    BY <1>0, <2>2 DEF Grants
  <2>3. ASSUME GivesBack PROVE Repairable(marker'.journal) /\ (holder'.claim # 0 => Repairable(journal'))
    BY <1>0, <2>3, EmptyJournals DEF GivesBack
  <2> QED BY <1>2, <2>1, <2>2, <2>3
<1> QED BY <1>4, <1>5, <1>6, <1>7, <1>8

\* While the executor stages or cleans up, a mutating journal anywhere is its own plan,
\* over files that are wholly base or wholly final.
LEMMA StagingSafe ==
    ASSUME TypeOK, ApplyTypeOK, PlanInv, JournalInv, FilesInv, edits = 0,
           exec.pc \in {"stage", "cleanup"}
    PROVE  /\ holder.claim # 0
           /\ \A j \in {marker.journal, journal} :
                 j.phase = "mutating" => AllBase(j) \/ AllFinal(j)
<1>1. Held(exec.claim) /\ journal = Persisted /\ holder.claim # 0
  BY DEF JournalInv, Held
<1>2. exec.plan \in Journal /\ exec.plan.phase = "staging"
  BY ThePlan
<1>3. journal \in {exec.plan, Mutating(exec.plan)}
  BY <1>1 DEF Persisted
<1>4. \A j \in {marker.journal, journal} : j.phase = "mutating" => j = Mutating(exec.plan)
  <2>1. marker.journal.phase = "mutating" => marker.journal = Mutating(journal)
    BY <1>1 DEF JournalInv
  <2>2. Mutating(Mutating(exec.plan)) = Mutating(exec.plan)
    BY ThePlan, MutatingFacts
  <2> QED BY <1>2, <1>3, <2>1, <2>2
<1>5. AllBase(exec.plan) \/ AllFinal(exec.plan)
  BY DEF FilesInv
<1>6. AllBase(Mutating(exec.plan)) \/ AllFinal(Mutating(exec.plan))
  BY <1>5, ThePlan DEF AllBase, AllFinal
<1> QED BY <1>1, <1>4, <1>6

\* Staging and cleanup keep what can be repaired.
LEMMA StagingKept ==
    ASSUME TypeOK, ApplyTypeOK, PlanInv, JournalInv, FilesInv, KeptInv, edits = 0,
           \/ \E t \in Temp, left \in Content \cup {Torn} : WriteStaged(t, left)
           \/ \E t \in Temp, gone, raised \in BOOLEAN : Cleanup(t, gone, raised)
    PROVE  KeptInv'
<1>1. /\ exec.pc \in {"stage", "cleanup"} /\ file' = file
      /\ marker' = marker /\ journal' = journal /\ holder' = holder
  BY DEF WriteStaged, Cleanup, leaseVars
<1>2. \A j \in {marker.journal, journal} : j.phase = "mutating" => AllBase(j) \/ AllFinal(j)
  BY <1>1, StagingSafe
<1> QED BY <1>1, <1>2, KeptFrom, RepairStays DEF RepairableNext

\* So does a file operation.
LEMMA MutateKept ==
    ASSUME TypeOK, ApplyTypeOK, PlanInv, JournalInv, FilesInv, edits = 0,
           NEW raised \in BOOLEAN, NEW kept \in BOOLEAN, Mutate(raised, kept)
    PROVE  KeptInv'
<1>1. /\ exec.pc = "mutate" /\ exec'.plan = exec.plan /\ exec'.changes = exec.changes
      /\ marker' = marker /\ journal' = journal
  BY MutateEffect DEF leaseVars
<1>2. BackedUp /\ Reached(exec.at) /\ journal = Mutating(exec.plan) /\ marker.journal = Mutating(exec.plan)
  BY <1>1 DEF FilesInv, JournalInv, Persisted
<1>3. \A p \in exec.plan.touch :
        /\ exec.plan.base[p] # Absent => exec.plan.base[p] \in {file'[p], temp'[<<p, "backup">>]}
        /\ exec.plan.final[p] # Absent => exec.plan.final[p] \in {file'[p], temp'[<<p, "new">>]}
  <2>1. /\ BackedUp' /\ exec.pc # "idle"
        /\ \A l \in DOMAIN exec.changes :
              Fresh(exec.changes[l])' \/ Half(exec.changes[l])' \/ Landed(exec.changes[l])'
    BY <1>1, <1>2, BackupsStay, MutateFiles
  <2> QED BY <1>1, <2>1, PlanIsKept
<1>4. RepairableNext(Mutating(exec.plan))
  BY <1>1, <1>3, ThePlan DEF RepairableNext
<1> QED BY <1>1, <1>2, <1>4, KeptFrom

\* While nobody else edits, a mutating journal can always be repaired.
LEMMA KeptNext ==
    ASSUME TypeOK, DurableInv, ApplyTypeOK, PlanInv, JournalInv, FilesInv, KeptInv,
           [ApplyNext]_applyVars
    PROVE  KeptInv'
<1>1. CASE Edits
  <2>1. edits' = edits + 1 /\ edits \in Nat
    BY <1>1, EditsEffect, BoundsNat DEF TypeOK
  <2>2. edits' # 0
    BY <2>1
  <2> QED BY <2>2 DEF KeptInv
<1>2. CASE ~Edits
  <2>1. edits' = edits
    BY <1>2, ApplyCases, LeaseEffect, BootEffect, MutateEffect
       DEF Local, Others, applyVars, Prepare, StartApply, Recheck, MutateFails, FinalCheck, AfterCleanup,
           HandleRaise, PersistStaging, PersistMutating, PersistClear, WriteStaged, Cleanup, Crash,
           vars, diskVars
  <2> SUFFICES ASSUME edits = 0 PROVE KeptInv'
    BY <2>1 DEF KeptInv
  <2>2. CASE Boot
    <3>1. /\ file' = file /\ holder'.claim = 0 /\ Repairable(marker.journal)
          /\ marker'.journal \in {marker.journal, NoJournal} /\ NoJournal.phase = "none"
          /\ \/ temp' = temp
             \/ marker.journal.phase # "none" => AllBase(marker.journal) \/ AllFinal(marker.journal)
      BY <2>2, BootEffect, EmptyJournals DEF KeptInv
    <3>2. RepairableNext(marker.journal)
      BY <3>1, RepairStays DEF RepairableNext
    <3> QED BY <3>1, <3>2, KeptFrom DEF RepairableNext
  <2>3. CASE Crash
    <3>1. /\ marker' = marker /\ file' = file /\ temp' = temp /\ holder'.claim = 0
          /\ Repairable(marker.journal)
      BY <2>3, EmptyTypes DEF Crash, diskVars, KeptInv
    <3> QED BY <3>1, KeptFrom, RepairStays DEF RepairableNext
  <2> QED BY <1>2, <2>2, <2>3, KeptSources, StagingKept, MutateKept, ApplyCases
<1> QED BY <1>1, <1>2

(***************************************************************************)
(* The history.                                                            *)
(***************************************************************************)
\* A step that leaves the files alone keeps the history where it was.
LEMMA TreeStays ==
    ASSUME TreeInv, TreeFollows, file' = file, edits' = edits,
           marker'.journal.phase = "mutating" =>
              /\ marker'.journal = marker.journal \/ tree = file
              /\ holder'.claim # 0 /\ journal'.phase # "mutating" => tree = file
    PROVE  TreeInv'
<1>1. CASE marker'.journal.phase # "mutating"
  <2>1. tree' = file'
    BY <1>1 DEF TreeFollows
  <2> QED BY <1>1, <2>1 DEF TreeInv
<1>2. CASE marker'.journal.phase = "mutating"
  <2>1. tree' = tree
    BY <1>2 DEF TreeFollows
  <2> QED BY <1>2, <2>1 DEF TreeInv
<1> QED BY <1>1, <1>2

\* A file operation leaves the history at the base of what it touches.
LEMMA TreeOfMutate ==
    ASSUME TypeOK, ApplyTypeOK, PlanInv, JournalInv, TreeInv, TreeFollows,
           NEW raised \in BOOLEAN, NEW kept \in BOOLEAN, Mutate(raised, kept)
    PROVE  TreeInv'
<1>1. /\ exec.pc = "mutate" /\ edits' = edits /\ marker' = marker /\ journal' = journal
      /\ holder' = holder
  BY MutateEffect DEF leaseVars
<1>2. /\ journal = Mutating(exec.plan) /\ marker.journal = Mutating(exec.plan)
      /\ Mutating(exec.plan).phase = "mutating"
      /\ Mutating(exec.plan).touch = exec.plan.touch /\ Mutating(exec.plan).base = exec.plan.base
  BY <1>1, ThePlan DEF JournalInv, Persisted
<1>3. tree' = tree
  BY <1>1, <1>2 DEF TreeFollows
<1>4. /\ exec.at[1] \in DOMAIN exec.changes
      /\ Op[2] \in Names(exec.changes[exec.at[1]])
      /\ Op[2] \in Path
  <2>1. MoreToDo
    BY MutateEffect
  <2> DEFINE ch == exec.changes[exec.at[1]]
  <2>2. /\ ch.kind \in Kinds /\ Op = Ops(ch)[exec.at[2]] /\ exec.at[2] \in 1 .. Len(Ops(ch))
        /\ Op[2] \in Path /\ exec.at[2] \in {1, 2} /\ (exec.at[2] = 2 => ch.kind \in {"modify", "rename"})
    BY <2>1, OpTyped, ExecFields
  <2>3. Op[2] = ch.path \/ (ch.kind = "rename" /\ Op[2] = ch.old)
    <3> HIDE DEF ch
    <3> QED BY <2>2, OpsFacts DEF Kinds
  <2> QED BY <2>1, <2>2, <2>3 DEF MoreToDo, Names, Sources
<1>5. Op[2] \in exec.plan.touch
  BY <1>1, <1>4, PlanChanges
<1>6. /\ file[Op[2]] \in {exec.plan.base[Op[2]], Absent}
      /\ \A p \in Path : p # Op[2] => file'[p] = file[p]
  BY <1>4, MutateEffect DEF TypeOK
<1>7. \A p \in Path : \/ tree[p] = file'[p]
                      \/ /\ p \in exec.plan.touch
                         /\ tree[p] \in {exec.plan.base[p], Absent}
  BY <1>2, <1>5, <1>6 DEF TreeInv
<1> QED BY <1>1, <1>2, <1>3, <1>7 DEF TreeInv

\* An edit moves history and files together.
LEMMA TreeOfEdits ==
    ASSUME TypeOK, DurableInv, TreeInv, TreeFollows, Edits
    PROVE  TreeInv'
<1>1. /\ marker' = marker /\ journal' = journal /\ holder' = holder
      /\ edits' = edits + 1 /\ edits \in Nat
  BY EditsEffect, BoundsNat DEF leaseVars, TypeOK
<1>2. edits' # edits
  BY <1>1
<1>3. CASE marker.journal.phase # "mutating"
  <2>1. tree' = file'
    BY <1>1, <1>3 DEF TreeFollows
  <2> QED BY <1>1, <1>3, <2>1 DEF TreeInv
<1>4. CASE marker.journal.phase = "mutating"
  <2>1. tree' = [p \in Path |-> IF file'[p] # file[p] THEN file'[p] ELSE tree[p]]
    BY <1>1, <1>2, <1>4 DEF TreeFollows
  <2>2. file' \in [Path -> Content]
    BY EditsEffect DEF TypeOK
  <2>3. tree = file => tree' = file'
    BY <2>1, <2>2
  <2>4. \A p \in Path : \/ tree'[p] = file'[p]
                        \/ tree'[p] = tree[p] /\ file'[p] = file[p]
    BY <2>1
  <2> QED BY <1>1, <1>4, <2>3, <2>4 DEF TreeInv
<1> QED BY <1>3, <1>4

\* The history differs from the files only where a mutating journal explains it.
LEMMA TreeNext ==
    ASSUME TypeOK, DurableInv, ApplyTypeOK, PlanInv, JournalInv, TreeInv, [ApplyNext]_applyVars
    PROVE  TreeInv'
<1>0. \/ UNCHANGED applyVars /\ tree' = tree
      \/ TreeFollows
  BY DEF ApplyNext, applyVars
<1>1. CASE UNCHANGED applyVars
  BY <1>1 DEF applyVars, vars, leaseVars, diskVars, TreeInv
<1> SUFFICES ASSUME ApplyNext, TreeFollows PROVE TreeInv'
  BY <1>0, <1>1 DEF ApplyNext
<1>2. /\ holder.claim # 0 /\ marker.journal.phase = "mutating" => marker.journal = Mutating(journal)
      /\ journal \in Journal
  BY DEF JournalInv, TypeOK
<1>3. ASSUME Keeps, file' = file, edits' = edits PROVE TreeInv'
  <2>1. marker'.journal.phase = "mutating" => marker'.journal = marker.journal \/ tree = file
    BY <1>2, <1>3, MutatingFacts DEF Keeps, TreeInv
  <2>2. marker'.journal.phase = "mutating" /\ holder'.claim # 0 /\ journal'.phase # "mutating" => tree = file
    BY <1>3 DEF Keeps, TreeInv
  <2> QED BY <1>3, <2>1, <2>2, TreeStays
<1>4. ASSUME NEW j, Persists(j) \/ Declines(j), holder' = holder, file' = file, edits' = edits,
             exec.pc \in {"journal", "commit", "clear"},
             j.phase = "mutating" => exec.pc = "commit"
      PROVE  TreeInv'
  <2>1. ASSUME Lands(j) PROVE TreeInv'
    <3>1. marker.journal = journal /\ marker'.journal = j /\ holder.claim # 0
      BY <2>1 DEF Lands, Held
    <3>2. j.phase = "mutating" => journal.phase # "mutating"
      <4>1. exec.pc = "commit" => journal = exec.plan /\ exec.plan.phase = "staging"
        BY ThePlan DEF JournalInv, Persisted
      <4> QED BY <1>4, <4>1
    <3>3. j.phase = "mutating" => tree = file
      BY <3>1, <3>2 DEF TreeInv
    <3> QED BY <1>4, <3>1, <3>3, TreeStays
  <2> QED BY <1>3, <1>4, <2>1 DEF Persists, Declines
<1>5. CASE Local
  <2>1. UNCHANGED vars
    BY <1>5 DEF Local, Prepare, StartApply, Recheck, MutateFails, FinalCheck, AfterCleanup, HandleRaise
  <2> QED BY <1>3, <2>1 DEF vars, leaseVars, diskVars, Keeps
<1>6. CASE PersistStaging
  BY <1>4, <1>6, ThePlan, PersistStagingEffect DEF PersistFrame, PersistStaging, diskVars
<1>7. CASE PersistMutating
  BY <1>4, <1>7, ThePlan, PersistMutatingEffect DEF PersistFrame, PersistMutating, diskVars
<1>8. CASE PersistClear
  BY <1>4, <1>8, EmptyJournals, PersistClearEffect DEF PersistFrame, PersistClear, diskVars
<1>9. CASE \/ \E t \in Temp, left \in Content \cup {Torn} : WriteStaged(t, left)
           \/ \E t \in Temp, gone, raised \in BOOLEAN : Cleanup(t, gone, raised)
  BY <1>3, <1>9 DEF WriteStaged, Cleanup, leaseVars, Keeps
<1>10. CASE Others
  <2>1. (Keeps \/ Grants \/ GivesBack) /\ file' = file /\ edits' = edits
    BY <1>10, LeaseEffect DEF Others
  <2>2. Grants \/ GivesBack => marker'.journal.phase # "mutating"
    BY EmptyJournals DEF Grants, GivesBack
  <2> QED BY <1>3, <2>1, <2>2, TreeStays
<1>11. CASE Boot
  <2>1. /\ file' = file /\ edits' = edits /\ holder'.claim = 0
        /\ marker'.journal \in {marker.journal, NoJournal} /\ NoJournal.phase = "none"
    BY <1>11, BootEffect, EmptyJournals
  <2> QED BY <2>1, TreeStays
<1>12. CASE Crash
  BY <1>12, TreeStays, EmptyTypes DEF Crash, diskVars
<1> QED BY <1>5, <1>6, <1>7, <1>8, <1>9, <1>10, <1>11, <1>12, TreeOfMutate, TreeOfEdits, ApplyCases

(***************************************************************************)
(* The theorems about the apply.                                           *)
(***************************************************************************)
\* A registry write for a live claim names that claim.
LEMMA OwnedNext ==
    ASSUME TypeOK, DurableInv, ApplyTypeOK, PlanInv, OwnedInv, [ApplyNext]_applyVars
    PROVE  OwnedInv'
<1>1. ASSUME marker' = marker PROVE OwnedInv'
  BY <1>1 DEF OwnedInv
<1>2. ASSUME Keeps PROVE OwnedInv'
  BY <1>1, <1>2 DEF Keeps, OwnedInv
<1>3. ASSUME NEW j, Persists(j) \/ Declines(j) PROVE OwnedInv'
  BY <1>2, <1>3 DEF Persists, Declines, Lands, Held, OwnedInv
<1>4. CASE Local \/ UNCHANGED applyVars
  BY <1>1, <1>4 DEF Local, applyVars, Prepare, StartApply, Recheck, MutateFails, FinalCheck, AfterCleanup,
     HandleRaise, vars
<1>5. CASE PersistStaging \/ PersistMutating \/ PersistClear
  BY <1>3, <1>5, PersistStagingEffect, PersistMutatingEffect, PersistClearEffect
<1>6. CASE \/ \E t \in Temp, left \in Content \cup {Torn} : WriteStaged(t, left)
           \/ \E raised, kept \in BOOLEAN : Mutate(raised, kept)
           \/ \E t \in Temp, gone, raised \in BOOLEAN : Cleanup(t, gone, raised)
           \/ Edits \/ Crash
  BY <1>1, <1>6 DEF WriteStaged, Mutate, Cleanup, Edits, Crash
<1>7. CASE Others
  BY <1>1, <1>2, <1>7, LeaseEffect, EmptyJournals DEF Others, Grants, GivesBack, OwnedInv
<1>8. CASE Boot
  BY <1>1, <1>8, BootEffect, EmptyJournals DEF OwnedInv
<1> QED BY <1>4, <1>5, <1>6, <1>7, <1>8, ApplyCases

\* The invariant holds initially.
LEMMA InitApplyInv == ApplyInit => ApplyInv
<1> SUFFICES ASSUME ApplyInit PROVE ApplyInv
  OBVIOUS
<1>1. TypeOK /\ ApplyTypeOK /\ DurableInv
  BY InitApplyTypes
<1>2. /\ exec.pc = "idle" /\ holder.claim = 0 /\ tree = file
      /\ marker.journal.phase = "none" /\ journal.phase = "none"
  BY IdleExecType, EmptyTypes, EmptyJournals DEF ApplyInit, Init
<1>3. PlanInv /\ JournalInv /\ OwnedInv
  BY <1>2 DEF PlanInv, JournalInv, OwnedInv
<1>4. FilesInv /\ KeptInv /\ TreeInv
  BY <1>2 DEF FilesInv, KeptInv, Repairable, TreeInv
<1> QED BY <1>1, <1>3, <1>4 DEF ApplyInv

\* Every step keeps it.
LEMMA ApplyInvNext == ApplyInv /\ [ApplyNext]_applyVars => ApplyInv'
<1> SUFFICES ASSUME ApplyInv, [ApplyNext]_applyVars PROVE ApplyInv'
  OBVIOUS
<1>1. TypeOK' /\ ApplyTypeOK' /\ DurableInv'
  BY StepTypes DEF ApplyInv
<1>2. PlanInv' /\ JournalInv' /\ OwnedInv'
  BY PlanNext, JournalNext, OwnedNext DEF ApplyInv
<1>3. FilesInv' /\ KeptInv' /\ TreeInv'
  BY FilesNext, KeptNext, TreeNext DEF ApplyInv
<1> QED BY <1>1, <1>2, <1>3 DEF ApplyInv

\* The inductive invariant holds in every state of the apply under the lease.
THEOREM ApplyInvHolds == ApplySpec => []ApplyInv
BY InitApplyInv, ApplyInvNext, PTL DEF ApplySpec

\* The executor's record and the history keep their types, and the executor never
\* runs past the operations of the change it is at (proposal_executor.py, _apply).
THEOREM ApplyTypeCorrect == ApplySpec => []ApplyTypeOK
<1>1. ApplyInv => ApplyTypeOK
  BY DEF ApplyInv
<1> QED BY <1>1, ApplyInvHolds, PTL

\* Whatever stops an apply half way, what was there and what was approved are both
\* still on disk as long as nobody else edits.
THEOREM EveryByteKept == ApplySpec => []NothingIsLost
<1>1. ApplyInv => NothingIsLost
  BY DEF ApplyInv, KeptInv, Repairable, Kept, NothingIsLost
<1> QED BY <1>1, ApplyInvHolds, PTL

\* What the executor reports of an apply is true of the files and of the registry.
THEOREM OutcomesAreTrue == ApplySpec => []OutcomeIsTrue
<1>1. ApplyInv => OutcomeIsTrue
  BY DEF ApplyInv, FilesInv, JournalInv, OutcomeIsTrue
<1> QED BY <1>1, ApplyInvHolds, PTL

\* The executor changes a target only under the mutating journal of its own proposal
\* and claim.
THEOREM MutatesJournalled == ApplySpec => MutatesUnderJournal
<1>1. ApplyInv => (exec.pc = "mutate" => /\ marker.holder.claim = exec.claim
                                         /\ marker.journal = [exec.plan EXCEPT !.phase = "mutating"])
  BY DEF ApplyInv, JournalInv, Persisted, Mutating
<1>2. ApplyInv /\ [ApplyNext]_applyVars =>
        [file' # file /\ exec.pc = "mutate" /\ edits' = edits
            => /\ marker.holder.claim = exec.claim
               /\ marker.journal = [exec.plan EXCEPT !.phase = "mutating"]]_applyVars
  BY <1>1
<1> QED BY <1>2, ApplyInvHolds, PTL DEF ApplySpec, MutatesUnderJournal

(***************************************************************************)
(* The atomic workspace: each step is one of its steps or a stutter.       *)
(***************************************************************************)
Still  == tree' = tree /\ edits' = edits /\ marker'.holder.claim = marker.holder.claim
Mapped == [Abstract!Next]_(Abstract!vars)

\* A step that changes nothing of the workspace stutters.
LEMMA StillMaps == Still => Mapped
BY DEF Still, Mapped, Abstract!vars

\* The history stays where the files do, unless a mutating journal goes.
LEMMA TreeSame ==
    ASSUME TreeInv, TreeFollows, file' = file, edits' = edits,
           marker'.journal.phase = "mutating" \/ marker.journal.phase # "mutating"
    PROVE  tree' = tree
BY DEF TreeInv, TreeFollows

\* A grant, also one whose registry write landed although it raised.
LEMMA GrantMaps ==
    ASSUME tree' = tree, edits' = edits, marker.holder.claim = 0, TypeOK'
    PROVE  Mapped
<1>1. marker'.holder.claim \in 0 .. MaxClaims
  BY DEF TypeOK, Marker, WriterClaim
<1>2. CASE marker'.holder.claim = 0
  BY <1>2, StillMaps DEF Still
<1>3. CASE marker'.holder.claim # 0
  <2>1. marker'.holder.claim \in 1 .. MaxClaims
    BY <1>1, <1>3, BoundsNat
  <2>2. Abstract!Grant(marker'.holder.claim)
    BY DEF Abstract!Grant
  <2> QED BY <2>1, <2>2 DEF Mapped, Abstract!Next
<1> QED BY <1>2, <1>3

\* A mutating journal that goes over files that are wholly base or wholly final lands.
LEMMA PlanLands ==
    ASSUME TypeOK, ApplyTypeOK, TreeInv, TreeFollows, file' = file, marker.journal.phase = "mutating",
           marker'.journal.phase # "mutating",
           NEW to, to \in {marker.journal.base, marker.journal.final},
           \A p \in marker.journal.touch : file[p] = to[p],
           NEW j, j = [marker.journal EXCEPT !.phase = "staging"]
    PROVE  /\ \A p \in j.touch : tree[p] \in {j.base[p], to[p], Absent}
           /\ tree' = [p \in Path |-> IF p \in j.touch THEN to[p] ELSE tree[p]]
           /\ j.base = marker.journal.base /\ j.final = marker.journal.final
<1>1. marker.journal \in Journal
  BY DEF TypeOK, Marker
<1>2. /\ j.touch = marker.journal.touch /\ j.base = marker.journal.base
      /\ j.final = marker.journal.final /\ j.touch \subseteq Path
  BY <1>1 DEF Journal
<1>3. \A p \in j.touch : tree[p] \in {j.base[p], to[p], Absent}
  BY <1>2 DEF TreeInv
<1>4. tree' = file /\ file \in [Path -> Content]
  BY DEF TreeFollows, TypeOK
<1>5. \A p \in Path : file[p] = IF p \in j.touch THEN to[p] ELSE tree[p]
  BY <1>2 DEF TreeInv
<1>6. file = [p \in Path |-> IF p \in j.touch THEN to[p] ELSE tree[p]]
  BY <1>4, <1>5
<1> QED BY <1>2, <1>3, <1>4, <1>6

\* Steps that keep what memory and registry say.
LEMMA KeepsMaps ==
    ASSUME ApplyInv, TreeFollows, Keeps, file' = file, edits' = edits, TypeOK'
    PROVE  Mapped
<1>1. TreeInv /\ OwnedInv /\ TypeOK
  BY DEF ApplyInv
<1>2. CASE marker' = marker
  BY <1>1, <1>2, TreeSame, StillMaps DEF Still
<1>3. CASE marker' # marker
  <2>1. /\ holder.claim # 0 /\ marker'.holder.claim = holder.claim /\ marker'.journal = journal
        /\ marker.holder.claim \in {0, holder.claim}
    BY <1>3 DEF Keeps, ApplyInv, JournalInv
  <2>2. tree' = tree
    <3>1. CASE journal.phase = "mutating"
      BY <2>1, <3>1, <1>1, TreeSame
    <3>2. CASE journal.phase # "mutating"
      BY <1>1, <2>1, <3>2 DEF TreeInv, TreeFollows
    <3> QED BY <3>1, <3>2
  <2> QED BY <2>1, <2>2, GrantMaps, StillMaps DEF Still
<1> QED BY <1>2, <1>3

\* Steps that persist the executor's plan, or clear it.
LEMMA LandsMaps ==
    ASSUME ApplyInv, TreeFollows, NEW j, Lands(j), file' = file, edits' = edits, j \in Journal
    PROVE  Mapped
<1>1. TreeInv /\ TypeOK /\ ApplyTypeOK /\ PlanInv
  BY DEF ApplyInv
<1>2. /\ marker'.holder.claim = marker.holder.claim /\ marker.holder.claim # 0
      /\ marker.journal = journal /\ marker'.journal = j /\ TransitionAllowed(journal, j)
      /\ journal \in Journal
  BY <1>1 DEF Lands, Held, TypeOK
<1>3. CASE j.phase = "mutating" \/ journal.phase # "mutating"
  BY <1>1, <1>2, <1>3, TreeSame, StillMaps DEF Still
<1>4. CASE j.phase # "mutating" /\ journal.phase = "mutating"
  <2>1. j.phase = "none"
    BY <1>2, <1>4 DEF TransitionAllowed
  <2>2. \A p \in marker.journal.touch : file[p] = marker.journal.final[p]
    BY <1>2, <1>4, <2>1 DEF Lands, ClearProven, AllFinal
  <2> DEFINE pl == [marker.journal EXCEPT !.phase = "staging"]
  <2>3. pl \in Plans
    BY <1>1, <1>2, <1>4 DEF PlanInv
  <2>4. /\ \A p \in pl.touch : tree[p] \in {pl.base[p], marker.journal.final[p], Absent}
        /\ tree' = [p \in Path |-> IF p \in pl.touch THEN marker.journal.final[p] ELSE tree[p]]
        /\ pl.final = marker.journal.final
    BY <1>1, <1>2, <1>4, <2>2, PlanLands
  <2>5. Abstract!Commit(pl)
    BY <1>2, <2>4 DEF Abstract!Commit, Abstract!Lands
  <2> QED BY <2>3, <2>5 DEF Mapped, Abstract!Next
<1> QED BY <1>3, <1>4

\* Persisting commits or stutters.
LEMMA PersistMaps ==
    ASSUME ApplyInv, TreeFollows, TypeOK', PersistStaging \/ PersistMutating \/ PersistClear
    PROVE  Mapped
<1>1. TypeOK /\ DurableInv /\ ApplyTypeOK /\ PlanInv /\ file' = file /\ edits' = edits
  BY DEF ApplyInv, PersistStaging, PersistMutating, PersistClear, diskVars
<1>2. ASSUME NEW j, Persists(j) \/ Declines(j), j \in Journal PROVE Mapped
  BY <1>1, <1>2, KeepsMaps, LandsMaps DEF Persists, Declines
<1>3. exec.plan \in Journal /\ Mutating(exec.plan) \in Journal /\ NoJournal \in Journal
  BY <1>1, ExecFields, EmptyTypes DEF Mutating, Journal
<1> QED BY <1>1, <1>2, <1>3, PersistStagingEffect, PersistMutatingEffect, PersistClearEffect

\* Other threads grant, end or stutter.
LEMMA OthersMap ==
    ASSUME ApplyInv, TreeFollows, TypeOK', Others
    PROVE  Mapped
<1>1. TypeOK /\ DurableInv /\ TreeInv
  BY DEF ApplyInv
<1>2. (Keeps \/ Grants \/ GivesBack) /\ file' = file /\ edits' = edits
  BY <1>1, LeaseEffect DEF Others
<1>3. CASE Keeps
  BY <1>2, <1>3, KeepsMaps
<1>4. CASE Grants
  <2>1. marker.holder.claim = 0 /\ marker.journal.phase # "mutating"
    BY <1>4, EmptyJournals DEF Grants
  <2> QED BY <1>1, <1>2, <2>1, TreeSame, GrantMaps
<1>5. CASE GivesBack
  <2>1. marker.holder.claim # 0 /\ marker.journal.phase # "mutating" /\ marker' \in {marker, NoMarker}
    BY <1>5 DEF GivesBack
  <2>2. tree' = tree
    BY <1>1, <1>2, <2>1, TreeSame
  <2>3. CASE marker' = marker
    BY <1>2, <2>2, <2>3, StillMaps DEF Still
  <2>4. CASE marker' = NoMarker
    <3>1. Abstract!End
      BY <1>2, <2>1, <2>2, <2>4, EmptyJournals DEF Abstract!End
    <3> QED BY <3>1 DEF Mapped, Abstract!Next
  <2> QED BY <2>1, <2>3, <2>4
<1> QED BY <1>2, <1>3, <1>4, <1>5

\* A boot ends the claim it finds, with whatever had landed or been undone.
LEMMA BootMaps ==
    ASSUME ApplyInv, TreeFollows, Boot
    PROVE  Mapped
<1>1. TypeOK /\ ApplyTypeOK /\ DurableInv /\ TreeInv /\ OwnedInv /\ PlanInv
  BY DEF ApplyInv
<1>2. /\ file' = file /\ edits' = edits
      /\ \/ marker' = marker
         \/ /\ marker.journal.phase # "none" => AllBase(marker.journal) \/ AllFinal(marker.journal)
            /\ marker' = NoMarker
  BY <1>1, BootEffect
<1>3. CASE marker' = marker
  BY <1>1, <1>2, <1>3, TreeSame, StillMaps DEF Still
<1>4. CASE marker' = NoMarker /\ marker.journal.phase # "mutating"
  <2>1. tree' = tree /\ marker'.holder.claim = 0
    BY <1>1, <1>2, <1>4, TreeSame, EmptyJournals
  <2>2. CASE marker.holder.claim = 0
    BY <1>2, <2>1, <2>2, StillMaps DEF Still
  <2>3. CASE marker.holder.claim # 0
    <3>1. Abstract!End
      BY <1>2, <2>1, <2>3 DEF Abstract!End
    <3> QED BY <3>1 DEF Mapped, Abstract!Next
  <2> QED BY <2>2, <2>3
<1>5. CASE marker' = NoMarker /\ marker.journal.phase = "mutating" /\ marker' # marker
  <2>1. marker'.holder.claim = 0 /\ marker'.journal.phase # "mutating" /\ marker.holder.claim # 0
    BY <1>1, <1>5, EmptyJournals DEF OwnedInv
  <2> DEFINE pl == [marker.journal EXCEPT !.phase = "staging"]
  <2>2. pl \in Plans
    BY <1>1, <1>5 DEF PlanInv
  <2>3. AllBase(marker.journal) \/ AllFinal(marker.journal)
    BY <1>2, <1>5
  <2>4. ASSUME AllBase(marker.journal) PROVE Abstract!Lands(pl, pl.base)
    <3>1. /\ \A p \in pl.touch : tree[p] \in {pl.base[p], marker.journal.base[p], Absent}
          /\ tree' = [p \in Path |-> IF p \in pl.touch THEN marker.journal.base[p] ELSE tree[p]]
          /\ pl.base = marker.journal.base
      BY <1>1, <1>2, <1>5, <2>1, <2>4, PlanLands DEF AllBase
    <3> HIDE DEF pl
    <3> QED BY <3>1 DEF Abstract!Lands
  <2>5. ASSUME AllFinal(marker.journal) PROVE Abstract!Lands(pl, pl.final)
    <3>1. /\ \A p \in pl.touch : tree[p] \in {pl.base[p], marker.journal.final[p], Absent}
          /\ tree' = [p \in Path |-> IF p \in pl.touch THEN marker.journal.final[p] ELSE tree[p]]
          /\ pl.final = marker.journal.final
      BY <1>1, <1>2, <1>5, <2>1, <2>5, PlanLands DEF AllFinal
    <3> HIDE DEF pl
    <3> QED BY <3>1 DEF Abstract!Lands
  <2>6. Abstract!Lands(pl, pl.final) \/ Abstract!Lands(pl, pl.base)
    BY <2>3, <2>4, <2>5
  <2>7. Abstract!End
    BY <1>2, <2>1, <2>2, <2>6 DEF Abstract!End
  <2> QED BY <2>7 DEF Mapped, Abstract!Next
<1> QED BY <1>2, <1>3, <1>4, <1>5

\* Edits are edits.
LEMMA EditsMap ==
    ASSUME ApplyInv, TreeFollows, Edits
    PROVE  Mapped
<1>1. TypeOK /\ ApplyTypeOK /\ DurableInv /\ TreeInv
  BY DEF ApplyInv
<1>2. /\ marker' = marker /\ edits < MaxEdits /\ edits' = edits + 1 /\ edits \in Nat
      /\ file \in [Path -> Content] /\ tree \in [Path -> Content] /\ file' \in [Path -> Content]
  BY <1>1, EditsEffect, BoundsNat DEF TypeOK, ApplyTypeOK
<1>3. edits' # edits
  BY <1>2
<1>4. tree' = [p \in Path |-> IF file'[p] # file[p] THEN file'[p] ELSE tree[p]]
  <2>1. CASE marker.journal.phase = "mutating"
    BY <1>2, <1>3, <2>1 DEF TreeFollows
  <2>2. CASE marker.journal.phase # "mutating"
    <3>1. tree' = file' /\ tree = file
      BY <1>1, <1>2, <2>2 DEF TreeFollows, TreeInv
    <3> QED BY <1>2, <3>1
  <2> QED BY <2>1, <2>2
<1>5. CASE file' = file
  <2>1. tree' = tree
    BY <1>2, <1>4, <1>5
  <2>2. Abstract!EditElsewhere
    BY <1>2, <2>1 DEF Abstract!EditElsewhere
  <2> QED BY <2>2 DEF Mapped, Abstract!Next
<1>6. ASSUME NEW p \in Path, NEW d \in Content, d # file[p], file' = [file EXCEPT ![p] = d]
      PROVE  Mapped
  <2>1. tree' = [tree EXCEPT ![p] = d]
    BY <1>2, <1>4, <1>6
  <2>2. Abstract!Edit(p, d)
    BY <1>2, <2>1 DEF Abstract!Edit
  <2> QED BY <2>2 DEF Mapped, Abstract!Next
<1> QED BY <1>1, <1>5, <1>6, EditsEffect

\* Every step of the code is a step of the atomic workspace, or none.
LEMMA StepMaps == ApplyInv /\ ApplyInv' /\ [ApplyNext]_applyVars => Mapped
<1> SUFFICES ASSUME ApplyInv, ApplyInv', [ApplyNext]_applyVars PROVE Mapped
  OBVIOUS
<1>1. CASE UNCHANGED applyVars
  BY <1>1, StillMaps DEF Still, applyVars, vars, diskVars
<1> SUFFICES ASSUME ApplyNext PROVE Mapped
  BY <1>1
<1>2. TreeFollows /\ TypeOK' /\ TypeOK /\ ApplyTypeOK /\ TreeInv /\ JournalInv /\ PlanInv
  BY DEF ApplyNext, ApplyInv
<1>3. ASSUME marker' = marker, file' = file, edits' = edits PROVE Mapped
  BY <1>2, <1>3, TreeSame, StillMaps DEF Still
<1>4. CASE Local
  <2>1. UNCHANGED vars
    BY <1>4 DEF Local, Prepare, StartApply, Recheck, MutateFails, FinalCheck, AfterCleanup, HandleRaise
  <2> QED BY <1>3, <2>1 DEF vars, diskVars
<1>5. CASE \/ \E t \in Temp, left \in Content \cup {Torn} : WriteStaged(t, left)
           \/ \E t \in Temp, gone, raised \in BOOLEAN : Cleanup(t, gone, raised)
  BY <1>3, <1>5 DEF WriteStaged, Cleanup
<1>6. CASE Crash
  BY <1>3, <1>6 DEF Crash, diskVars
<1>7. ASSUME NEW raised \in BOOLEAN, NEW kept \in BOOLEAN, Mutate(raised, kept) PROVE Mapped
  <2>1. exec.pc = "mutate" /\ edits' = edits /\ marker' = marker
    BY <1>2, <1>7, MutateEffect
  <2>2. marker.journal = Mutating(exec.plan) /\ Mutating(exec.plan).phase = "mutating"
    BY <1>2, <2>1, ThePlan DEF JournalInv, Persisted
  <2>3. tree' = tree
    BY <1>2, <2>1, <2>2 DEF TreeFollows
  <2> QED BY <2>1, <2>3, StillMaps DEF Still
<1> QED BY <1>2, <1>4, <1>5, <1>6, <1>7, PersistMaps, OthersMap, BootMaps, EditsMap, ApplyCases

\* Lease, executor, crashes and boots together implement the atomic workspace: a
\* proposal lands whole or not at all, and never over an edit it did not see.
THEOREM LandsWhole == ApplySpec => AppliesAtomically
<1>1. ApplyInit => Abstract!Init
  BY EmptyTypes, EmptyJournals DEF ApplyInit, Init, Abstract!Init
<1>2. ApplyInv /\ ApplyInv' /\ [ApplyNext]_applyVars => [Abstract!Next]_(Abstract!vars)
  BY StepMaps DEF Mapped
<1> QED BY <1>1, <1>2, ApplyInvHolds, PTL DEF ApplySpec, AppliesAtomically, Abstract!Spec
============================================================================
