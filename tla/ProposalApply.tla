--------------------------- MODULE ProposalApply ---------------------------
(***************************************************************************)
(* An approved proposal applied under the writer lease:                    *)
(* kaizen_components/orchestration/proposal_executor.py, journalling       *)
(* through WorkspaceWriterLease.set_apply_recovery.                        *)
(*                                                                         *)
(* The executor is one thread.  Each call that reaches the file system or  *)
(* the registry is a step of its own, so the daemon may crash, other       *)
(* threads may use the lease, and files may be edited between any two.     *)
(***************************************************************************)
EXTENDS WriterLease, Sequences

CONSTANT Proposals   \* approved change lists: sequences of
                     \* [kind, path, old, data]; old is the source of a rename,
                     \* data is Absent where the change carries no content

VARIABLES
    exec,   \* the executor's thread and the proposal it prepared
    tree    \* history: the files as if every proposal applied at once

applyVars == <<vars, exec, tree>>

Kinds == {"create", "modify", "delete", "rename"}

(***************************************************************************)
(* _validated_proposal: a proposal names no file twice.                    *)
(***************************************************************************)
Change == [kind : Kinds, path : Path, old : Path, data : Content]

Sources(ch) == IF ch.kind = "rename" THEN {ch.old} ELSE {}
Names(ch)   == {ch.path} \cup Sources(ch)

ValidProposal(chs) ==
    /\ chs \in Seq(Change)
    /\ \A k \in DOMAIN chs :
          /\ chs[k].kind = "delete" => chs[k].data = Absent
          /\ chs[k].kind \in {"create", "modify"} => chs[k].data # Absent
          /\ chs[k].kind = "rename" => chs[k].old # chs[k].path
    /\ \A k, l \in DOMAIN chs : k # l => Names(chs[k]) \cap Names(chs[l]) = {}

ASSUME ProposalsValid == \A chs \in Proposals : ValidProposal(chs)

IdleExec == [pc |-> "idle", claim |-> 0, changes |-> <<>>, plan |-> NoJournal,
             phase |-> "none", todo |-> {}, at |-> <<1, 1>>, dirty |-> FALSE,
             status |-> "none", partial |-> FALSE]

(***************************************************************************)
(* prepare: the immutable base capture, and with it everything the journal *)
(* will say.                                                               *)
(***************************************************************************)
\* A change can be prepared over files f.
Preparable(ch, f) ==
    /\ ch.kind \in {"create", "rename"} => f[ch.path] = Absent
    /\ ch.kind \in {"modify", "delete"} => f[ch.path] # Absent
    /\ \A p \in Sources(ch) : f[p] # Absent

\* The content a change leaves at its path.
FinalOf(ch, f) == CASE ch.kind = "delete" -> Absent
                    [] ch.kind = "rename" /\ ch.data = Absent -> f[ch.old]
                    [] OTHER -> ch.data

\* Mutant: nothing is kept of a file that is only deleted.
RemovesKept(ch) == Sources(ch) \cup (IF ch.kind = "modify" THEN {ch.path} ELSE {})

\* A change stages its new bytes and a backup of what it removes.
Removes(ch) == Sources(ch) \cup (IF ch.kind \in {"modify", "delete"} THEN {ch.path} ELSE {})

\* _recovery_state over the capture of files f
JournalOf(chs, f) ==
    LET all     == {chs[k] : k \in DOMAIN chs}
        final   == [p \in Path |-> IF \E ch \in all : ch.path = p
                                   THEN FinalOf(CHOOSE ch \in all : ch.path = p, f) ELSE Absent]
        removed == UNION {Removes(ch) : ch \in all}
        touched == {ch.path : ch \in all} \cup UNION {Sources(ch) : ch \in all}
    IN  [phase  |-> "staging", touch |-> touched,
         base   |-> [p \in Path |-> IF p \in touched THEN f[p] ELSE Absent],
         final  |-> final,
         staged |-> [t \in Temp |-> IF t[2] = "new" THEN final[t[1]]
                                    ELSE IF t[1] \in removed THEN f[t[1]] ELSE Absent]]

Prepare(chs) ==
    /\ up /\ exec.pc \in {"idle", "done"}
    /\ \A k \in DOMAIN chs : Preparable(chs[k], file)
    /\ exec' = [IdleExec EXCEPT !.pc = "prepared", !.changes = chs, !.plan = JournalOf(chs, file)]
    /\ UNCHANGED vars

(***************************************************************************)
(* _apply, step by step.  go moves on; deny ends in a refusal.             *)
(***************************************************************************)
Goto(pc)       == exec' = [exec EXCEPT !.pc = pc]
Deny(partial)  == exec' = [exec EXCEPT !.pc = "done", !.status = "denied", !.partial = partial]

\* A denial before any target changed goes through the cleanup of staged files.
DenyStaged == exec' = [exec EXCEPT !.pc = "cleanup", !.status = "denied",
                                   !.todo = Staged(exec.plan)]

\* _persist_recovery through the callback that captured the claim.
PersistStep(j, yes, no) ==
    \/ /\ \E w, w2 \in WriteOutcome : SetApply(exec.claim, j, w, w2)
       /\ IF reason' = "none" THEN yes ELSE no
    \/ ~(Held(exec.claim) /\ reason = "none") /\ no /\ UNCHANGED <<up, boots, minted, leaseVars, marker, procVars>>

\* The claim is captured and every base is compared with the capture.
StartApply(c) ==
    /\ exec.pc = "prepared"
    /\ exec' = [exec EXCEPT !.claim = c, !.pc = IF AllBase(exec.plan) THEN "journal" ELSE "done",
                            !.status = IF AllBase(exec.plan) THEN "none" ELSE "denied"]
    /\ UNCHANGED vars

PersistStaging ==
    /\ exec.pc = "journal"
    /\ PersistStep(exec.plan,
                   exec' = [exec EXCEPT !.pc = "stage", !.phase = "staging", !.todo = Staged(exec.plan)],
                   Deny(FALSE))
    /\ UNCHANGED diskVars

\* _write_staged: an exclusive create, verified; a failed one removes what it
\* wrote when it can.
WriteStaged(t, left) ==
    /\ exec.pc = "stage" /\ t \in exec.todo
    /\ temp' = [temp EXCEPT ![t] = left]
    /\ \/ left = exec.plan.staged[t] /\ exec' = [exec EXCEPT !.todo = @ \ {t}]
       \/ DenyStaged
    /\ UNCHANGED <<up, boots, minted, leaseVars, marker, procVars, file, edits>>

\* The last checkpoint that changes nothing: bases and staged bytes again.
\* A read that raises denies too.
Recheck ==
    /\ exec.pc = "stage" /\ exec.todo = {}
    /\ \/ /\ AllBase(exec.plan) /\ \A t \in Staged(exec.plan) : temp[t] = exec.plan.staged[t]
          /\ Goto("commit")
       \/ DenyStaged
    /\ UNCHANGED vars

\* Mutant: the executor goes on although the journal was refused.
PersistMutatingAnyway ==
    /\ exec.pc = "commit"
    /\ PersistStep([exec.plan EXCEPT !.phase = "mutating"],
                   exec' = [exec EXCEPT !.pc = "mutate", !.phase = "mutating"],
                   exec' = [exec EXCEPT !.pc = "mutate", !.phase = "mutating"])
    /\ UNCHANGED diskVars

PersistMutating ==
    /\ exec.pc = "commit"
    /\ PersistStep([exec.plan EXCEPT !.phase = "mutating"],
                   exec' = [exec EXCEPT !.pc = "mutate", !.phase = "mutating"],
                   DenyStaged)
    /\ UNCHANGED diskVars

\* The file operations of one change, in order.
Ops(ch) == CASE ch.kind = "create" -> << <<"promote", ch.path>> >>
             [] ch.kind = "delete" -> << <<"unlink", ch.path>> >>
             [] ch.kind = "modify" -> << <<"unlink", ch.path>>, <<"promote", ch.path>> >>
             [] ch.kind = "rename" -> << <<"promote", ch.path>>, <<"unlink", ch.old>> >>

\* exec.at is the change and its operation to run next.
MoreToDo == exec.at[1] \in DOMAIN exec.changes
Op       == Ops(exec.changes[exec.at[1]])[exec.at[2]]
\* Mutant: the operations of the next change are not turned to.
NextAtSameChange == <<exec.at[1], exec.at[2] + 1>>

\* The operation after this one, maybe the first of the next change.
NextAt == IF exec.at[2] < Len(Ops(exec.changes[exec.at[1]]))
          THEN <<exec.at[1], exec.at[2] + 1>> ELSE <<exec.at[1] + 1, 1>>

\* unlink_exact removes only the captured base; it may raise with the file gone.
\* Its caller goes on when raised is FALSE.
MayUnlink(p) == file[p] = exec.plan.base[p]

Unlink(p, raised) ==
    /\ MayUnlink(p)
    /\ file' = [file EXCEPT ![p] = Absent] /\ UNCHANGED temp
    /\ exec' = [exec EXCEPT !.at = IF raised THEN @ ELSE NextAt, !.pc = IF raised THEN "raised" ELSE @]

\* replace_from_exact without an expected target: never over an existing file.
\* On POSIX it links before it unlinks, so a raise may leave both names.
PromoteStaged(p, kept, raised) ==
    LET t == <<p, "new">>
    IN  /\ file[p] = Absent /\ temp[t] = exec.plan.staged[t]
        /\ kept => raised
        /\ file' = [file EXCEPT ![p] = temp[t]]
        /\ temp' = IF kept THEN temp ELSE [temp EXCEPT ![t] = Absent]
        /\ exec' = [exec EXCEPT !.at = IF raised THEN @ ELSE NextAt, !.pc = IF raised THEN "raised" ELSE @]

Mutate(raised, kept) ==
    /\ exec.pc = "mutate" /\ MoreToDo
    /\ IF Op[1] = "unlink" THEN Unlink(Op[2], raised) ELSE PromoteStaged(Op[2], kept, raised)
    /\ UNCHANGED <<up, boots, minted, leaseVars, marker, procVars, edits>>

\* Any operation may raise with nothing changed, and must when its proof fails.
MutateFails ==
    /\ exec.pc = "mutate" /\ MoreToDo
    /\ Goto("raised")
    /\ UNCHANGED vars

\* Mutant: only the files still to be changed are looked at.
PartialBehind == \E p \in exec.plan.touch : file[p] \notin {exec.plan.base[p], exec.plan.final[p]}

\* Any finished operation changed the identity of a file, so it is a mismatch.
Partial == exec.at # <<1, 1>> \/ ~AllBase(exec.plan)

\* The exception handler of the mutating phase: staged files stay for recovery.
\* A base that cannot be read is a mismatch.
HandleRaise(unread) ==
    /\ exec.pc = "raised"
    /\ Deny(unread \/ Partial)
    /\ UNCHANGED vars

\* A target that cannot be read is a mismatch as well.
FinalCheck ==
    /\ exec.pc = "mutate" /\ ~MoreToDo
    /\ \/ /\ AllFinal(exec.plan)
          /\ exec' = [exec EXCEPT !.pc = "cleanup", !.status = "ok", !.todo = Staged(exec.plan)]
       \/ Deny(TRUE)
    /\ UNCHANGED vars

\* _cleanup_staged: only the exact staged bytes are removed.
Cleanup(t, gone, raised) ==
    /\ exec.pc = "cleanup" /\ t \in exec.todo
    /\ gone => temp[t] \in {Absent, exec.plan.staged[t]}
    /\ temp' = IF gone THEN [temp EXCEPT ![t] = Absent] ELSE temp
    /\ LET proven == temp[t] = Absent \/ (gone /\ ~raised)
       IN  exec' = [exec EXCEPT !.todo = @ \ {t}, !.dirty = @ \/ ~proven]
    /\ UNCHANGED <<up, boots, minted, leaseVars, marker, procVars, file, edits>>

AfterCleanup ==
    /\ exec.pc = "cleanup" /\ exec.todo = {}
    /\ IF ~exec.dirty /\ (exec.status = "ok" \/ (exec.phase = "staging" /\ AllBase(exec.plan)))
       THEN Goto("clear") ELSE Deny(exec.partial)
    /\ UNCHANGED vars

PersistClear ==
    /\ exec.pc = "clear"
    /\ PersistStep(NoJournal, Goto("done"), Deny(exec.partial))
    /\ UNCHANGED diskVars

Apply ==
    \/ \E chs \in Proposals : Prepare(chs)
    \/ \E c \in Known : StartApply(c)
    \/ PersistStaging
    \/ \E t \in Temp, left \in Content \cup {Torn} :
          left \in {Absent, Torn, exec.plan.staged[t]} /\ WriteStaged(t, left)
    \/ Recheck \/ PersistMutating
    \/ \E raised, kept \in BOOLEAN : Mutate(raised, kept)
    \/ MutateFails \/ FinalCheck
    \/ \E unread \in BOOLEAN : HandleRaise(unread)
    \/ \E t \in Temp, gone, raised \in BOOLEAN : Cleanup(t, gone, raised)
    \/ AfterCleanup \/ PersistClear

(***************************************************************************)
(* The lease around it: other threads, crashes, boots, and edits made by   *)
(* anything but the executor.                                              *)
(***************************************************************************)
EditFile(p, d) ==
    /\ d # file[p] /\ file' = [file EXCEPT ![p] = d] /\ UNCHANGED temp

EditTemp(t, d) ==
    /\ temp[t] # Absent /\ temp' = [temp EXCEPT ![t] = d] /\ UNCHANGED file

Edits ==
    /\ edits < MaxEdits /\ edits' = edits + 1
    /\ \/ \E p \in Path, d \in Content : EditFile(p, d)
       \/ \E t \in Temp, d \in {Absent, Torn} : EditTemp(t, d)
    /\ UNCHANGED <<up, boots, minted, leaseVars, marker, procVars>>

LeaseStep ==
    \/ Claim
    \/ \E c \in Known, r \in Run : Verify(c, r)
    \/ \E w \in WriteOutcome, r \in Reason, paths \in {{}, Staged(exec.plan)} :
          ReportUncertain(r, paths, w)
    \/ Boot

\* Until a mutating journal is gone from the registry the tree stays as it was,
\* except for edits.
TreeFollows ==
    tree' = IF marker'.journal.phase # "mutating" THEN file'
            ELSE IF edits' # edits
                 THEN [p \in Path |-> IF file'[p] # file[p] THEN file'[p] ELSE tree[p]]
                 ELSE tree

ApplyInit == Init /\ exec = IdleExec /\ tree = file

ApplyNext ==
    /\ \/ Apply
       \/ (LeaseStep \/ Edits) /\ UNCHANGED exec
       \/ Crash /\ exec' = IdleExec
    /\ TreeFollows

ApplySpec == ApplyInit /\ [][ApplyNext]_applyVars

----------------------------------------------------------------------------
(***************************************************************************)
(* Properties.                                                             *)
(***************************************************************************)

\* The executor's record and the history keep their types, and the executor never
\* steps past the file operations of the change it is at.
Execs == [pc : {"idle", "prepared", "journal", "stage", "commit", "mutate", "raised",
                "cleanup", "clear", "done"},
          claim : 0 .. MaxClaims, changes : Proposals \cup {<<>>}, plan : Journal,
          phase : {"none", "staging", "mutating"}, todo : SUBSET Temp, at : Nat \X {1, 2},
          dirty : BOOLEAN, status : {"none", "ok", "denied"}, partial : BOOLEAN]

ApplyTypeOK ==
    /\ exec \in Execs /\ tree \in [Path -> Content]
    /\ exec.at[1] # 0
    /\ MoreToDo => exec.at[2] \in DOMAIN Ops(exec.changes[exec.at[1]])

\* The executor changes a target only while the registry, as the next daemon
\* would read it, holds the mutating journal of that very proposal and claim;
\* whatever other threads did to the lease since it was persisted.
MutatesUnderJournal ==
    [][file' # file /\ exec.pc = "mutate" /\ edits' = edits
          => /\ marker.holder.claim = exec.claim
             /\ marker.journal = [exec.plan EXCEPT !.phase = "mutating"]]_applyVars

\* As long as nobody else edits, whatever stops an apply between its base and
\* its final files leaves on disk every byte that was there before and every
\* byte that was approved: both outcomes stay within reach of a repair.
NothingIsLost ==
    LET j == marker.journal
    IN  j.phase = "mutating" /\ edits = 0 /\ ~AllBase(j) /\ ~AllFinal(j) =>
            \A p \in j.touch :
               /\ j.base[p] # Absent => j.base[p] \in {file[p], temp[<<p, "backup">>]}
               /\ j.final[p] # Absent => j.final[p] \in {file[p], temp[<<p, "new">>]}

\* What the provider is told is true: OK means wholly applied, nothing staged,
\* no journal; partial_apply FALSE means wholly base or wholly final.
OutcomeIsTrue ==
    exec.pc = "done" /\ edits = 0 =>
        /\ exec.status = "ok" => /\ AllFinal(exec.plan) /\ StagedAbsent(exec.plan)
                                /\ marker.journal.phase = "none"
        /\ exec.partial \/ AllBase(exec.plan) \/ AllFinal(exec.plan)

\* The plans of the proposals over every base they can be prepared over.
Plans == UNION {{JournalOf(chs, f) : f \in {g \in [Path -> Content] :
                    \A k \in DOMAIN chs : Preparable(chs[k], g)}} : chs \in Proposals}

\* Lease, executor, crashes and boots together implement the atomic workspace:
\* a proposal lands whole or not at all, and never over an edit it did not see.
Abstract == INSTANCE AtomicWorkspace
               WITH writer <- marker.holder.claim, Claims <- 1 .. MaxClaims

AppliesAtomically == Abstract!Spec

----------------------------------------------------------------------------
(***************************************************************************)
(* Inductive strengthenings (proved in ProposalApplyProofs).               *)
(***************************************************************************)
Mutating(j) == [j EXCEPT !.phase = "mutating"]
Persisted   == IF exec.phase = "mutating" THEN Mutating(exec.plan) ELSE exec.plan

\* What the executor has prepared is the plan of its changes.
PlanInv ==
    /\ exec.pc # "idle" =>
          /\ up
          /\ \E f \in [Path -> Content] :
                /\ \A k \in DOMAIN exec.changes : Preparable(exec.changes[k], f)
                /\ exec.changes \in Proposals /\ exec.plan = JournalOf(exec.changes, f)
    /\ \A j \in {marker.journal, journal} :
          j.phase # "none" => [j EXCEPT !.phase = "staging"] \in Plans

\* Between persisting its plan and being done the executor's claim is the live one
\* and memory holds its plan, in the phase it persisted last; while it mutates, so
\* does the registry.
JournalInv ==
    /\ exec.pc \in {"stage", "commit", "mutate", "raised", "cleanup", "clear"} =>
          Held(exec.claim) /\ journal = Persisted
    /\ exec.pc \in {"stage", "commit"} => exec.phase = "staging"
    /\ exec.pc \in {"mutate", "raised"} =>
          /\ exec.phase = "mutating"
          /\ marker.holder.claim = exec.claim /\ marker.journal = Persisted
    /\ exec.pc \in {"cleanup", "clear"} =>
          IF exec.status = "ok" THEN exec.phase = "mutating"
          ELSE exec.status = "denied" /\ exec.phase = "staging"
    /\ exec.pc = "done" /\ exec.status = "ok" =>
          marker.journal.phase = "none" /\ journal.phase = "none"
    /\ holder.claim # 0 =>
          /\ marker.holder.claim \in {0, holder.claim}
          /\ marker.journal.phase = "mutating" => marker.journal = Mutating(journal)

\* A journal in the registry belongs to a claim.
OwnedInv == marker.journal.phase # "none" => marker.holder.claim # 0

\* How far a change has come.
Fresh(ch)  == /\ \A p \in Names(ch) : file[p] = exec.plan.base[p]
              /\ ch.kind # "delete" =>
                    temp[<<ch.path, "new">>] = exec.plan.staged[<<ch.path, "new">>]
Half(ch)   == /\ ch.kind \in {"modify", "rename"}
              /\ ch.kind = "modify" =>
                    /\ file[ch.path] = Absent
                    /\ temp[<<ch.path, "new">>] = exec.plan.staged[<<ch.path, "new">>]
              /\ ch.kind = "rename" =>
                    file[ch.path] = exec.plan.final[ch.path] /\ file[ch.old] = exec.plan.base[ch.old]
Landed(ch) == \A p \in Names(ch) : file[p] = exec.plan.final[p]

BackedUp == \A p \in exec.plan.touch :
               LET t == <<p, "backup">>
               IN  exec.plan.staged[t] # Absent => temp[t] = exec.plan.staged[t]

Reached(at) ==
    \A k \in DOMAIN exec.changes :
        /\ k < at[1] => Landed(exec.changes[k])
        /\ k > at[1] => Fresh(exec.changes[k])
        /\ k = at[1] => IF at[2] = 1 THEN Fresh(exec.changes[k]) ELSE Half(exec.changes[k])

\* What the files are at each point of the executor while nobody else edits.
FilesInv == edits = 0 =>
    /\ exec.pc \in {"prepared", "journal", "stage", "commit"} =>
          AllBase(exec.plan) /\ exec.at = <<1, 1>>
    /\ exec.pc = "commit" => \A t \in Staged(exec.plan) : temp[t] = exec.plan.staged[t]
    /\ exec.pc = "mutate" => BackedUp /\ Reached(exec.at)
    /\ exec.pc = "raised" =>
          /\ BackedUp
          /\ \A k \in DOMAIN exec.changes :
                LET ch == exec.changes[k] IN Fresh(ch) \/ Half(ch) \/ Landed(ch)
    /\ exec.pc \in {"cleanup", "clear"} =>
          IF exec.status = "ok" THEN AllFinal(exec.plan) ELSE AllBase(exec.plan)
    /\ exec.pc = "done" =>
          /\ exec.status = "ok" => AllFinal(exec.plan) /\ StagedAbsent(exec.plan)
          /\ exec.partial \/ AllBase(exec.plan) \/ AllFinal(exec.plan)

\* Every byte of a journal is on disk.
Kept(j) ==
    \A p \in j.touch :
       /\ j.base[p] # Absent => j.base[p] \in {file[p], temp[<<p, "backup">>]}
       /\ j.final[p] # Absent => j.final[p] \in {file[p], temp[<<p, "new">>]}

\* A mutating journal can be repaired, also one the registry has lost again.
Repairable(j) == j.phase = "mutating" => AllBase(j) \/ AllFinal(j) \/ Kept(j)

KeptInv == edits = 0 => /\ Repairable(marker.journal)
                        /\ holder.claim # 0 => Repairable(journal)

\* The history is the files, except where a mutating journal has removed or replaced
\* one of its base files.
TreeInv ==
    /\ marker.journal.phase # "mutating" => tree = file
    /\ holder.claim # 0 /\ journal.phase # "mutating" => tree = file
    /\ \A p \in Path : \/ tree[p] = file[p]
                       \/ /\ p \in marker.journal.touch
                          /\ tree[p] \in {marker.journal.base[p], Absent}

ApplyInv ==
    /\ TypeOK /\ ApplyTypeOK /\ DurableInv
    /\ PlanInv /\ JournalInv /\ OwnedInv /\ FilesInv /\ KeptInv /\ TreeInv
============================================================================
