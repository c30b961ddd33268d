--------------------------- MODULE MCWriterLease ---------------------------
(***************************************************************************)
(* Small instances of WriterLease for TLC.                                 *)
(***************************************************************************)
EXTENDS WriterLease, TLC

CONSTANTS d1, d2, p1

MCData == {d1, d2}
MCPath == {p1}

\* One journal that modifies p1 from d1 to d2, in both phases, and one whose
\* descriptors differ from it.
Modify == [phase  |-> "staging", touch |-> {p1},
           base   |-> [p \in MCPath |-> d1],
           final  |-> [p \in MCPath |-> d2],
           staged |-> [t \in Temp |-> IF t[2] = "new" THEN d2 ELSE d1]]

MCJournals == {Modify, [Modify EXCEPT !.phase = "mutating"],
               [Modify EXCEPT !.staged = [t \in Temp |-> Absent]]}

NoJournals == {}

\* Two overlapping spawns, or journals and changing files, or a claim that is bound to a
\* run: not two of them at once.
NoSpawns == act = [k \in Child |-> 0] /\ holder.kids = {} /\ \A s \in Spawner : spawn[s] = IdleSpawn
NoFiles  == journal = NoJournal /\ marker.journal = NoJournal /\ edits = 0
NotBound == holder.run = NoRun /\ marker.holder.run = NoRun
OneOfThem == (\/ NoSpawns /\ NoFiles
              \/ (NoSpawns \/ NoFiles) /\ NotBound)'

Symmetry == Permutations(Child) \cup Permutations(Spawner)
============================================================================
