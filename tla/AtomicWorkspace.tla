-------------------------- MODULE AtomicWorkspace --------------------------
(***************************************************************************)
(* What the writer lease and the proposal executor promise together: one   *)
(* writer at a time, and files that change either by one edit made outside *)
(* the lease or by all the changes of one approved proposal at once.       *)
(***************************************************************************)
EXTENDS Naturals

CONSTANTS Path, Content, Absent, Claims, Plans, MaxEdits

VARIABLES
    tree,     \* the files, with proposals applied whole or not at all
    writer,   \* the claim that may commit, 0 when there is none
    edits     \* edits made outside the lease so far

vars == <<tree, writer, edits>>

Init == tree \in [Path -> Content] /\ writer = 0 /\ edits = 0

Grant(c) == writer = 0 /\ writer' = c /\ UNCHANGED <<tree, edits>>

Edit(p, d) ==
    /\ edits < MaxEdits /\ edits' = edits + 1
    /\ tree' = [tree EXCEPT ![p] = d]
    /\ UNCHANGED writer

\* An edit of something that is not a workspace file.
EditElsewhere == edits < MaxEdits /\ edits' = edits + 1 /\ UNCHANGED <<tree, writer>>

\* All the files of plan j become what "to" says.  No content but the one the plan
\* was prepared over is overwritten; a file that an edit removed while the proposal
\* was landing is created again.
Lands(j, to) ==
    /\ \A p \in j.touch : tree[p] \in {j.base[p], to[p], Absent}
    /\ tree' = [p \in Path |-> IF p \in j.touch THEN to[p] ELSE tree[p]]

Commit(j) == writer # 0 /\ Lands(j, j.final) /\ UNCHANGED <<writer, edits>>

\* The claim ends, by release or by the boot that finds its writer dead.  What
\* it had finished but not reported lands with it, and so does what it undid.
End ==
    /\ writer # 0 /\ writer' = 0 /\ UNCHANGED edits
    /\ UNCHANGED tree \/ \E j \in Plans : Lands(j, j.final) \/ Lands(j, j.base)

Next ==
    \/ \E c \in Claims : Grant(c)
    \/ \E p \in Path, d \in Content : Edit(p, d)
    \/ EditElsewhere
    \/ \E j \in Plans : Commit(j)
    \/ End

Spec == Init /\ [][Next]_vars
============================================================================
