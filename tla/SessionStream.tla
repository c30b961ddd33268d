--------------------------- MODULE SessionStream ---------------------------
(***************************************************************************)
(* The ephemeral text of a turn on its way to the chat: the ring of a      *)
(* session (session_drive.DeltaRing), the two reads of session/events, the *)
(* poll of the extension (sessionClient.ts) and its reducer                *)
(* (streamReducer.ts).                                                     *)
(*                                                                         *)
(* Durable events are read from the ledger first and chunks from the ring  *)
(* after them, each without a lock on the other; a response may hold only  *)
(* a prefix of either.  A chunk is the turn it belongs to, its number its  *)
(* position in made.                                                       *)
(***************************************************************************)
EXTENDS Naturals, Sequences, SequencesExt, FiniteSets

CONSTANTS
    Capacity,   \* chunks the ring keeps
    Batch,      \* chunks one response holds
    Most,       \* events one response holds
    MaxTurns,   \* bound: turns of the conversation
    MaxChunks   \* bound: chunks generated

StreamConstantsOK == {Capacity, Batch, Most, MaxTurns, MaxChunks} \subseteq Nat \ {0}

VARIABLES
    turn,      \* number of the latest turn, 0 before the first
    worker,    \* how far the turn has come
    made,      \* chunks appended so far
    active,    \* _active_delta_turn_id, 0 for none
    ring,      \* whether the session and its ring are registered
    log,       \* durable events
    poll,      \* the request in flight
    since,     \* [events, deltas]: cursors of sessionClient
    stream     \* the StreamReducer

server == <<turn, worker, made, active, ring, log>>
client == <<poll, since, stream>>
streamVars == <<server, client>>

None == 0
Entry(kind, t) == [kind |-> kind, turn |-> t]
LogEntry(kind) == log' = Append(log, Entry(kind, turn))
RunEnded == \E i \in DOMAIN log : log[i].kind = "end"

(***************************************************************************)
(* The turn and its sink.                                                  *)
(***************************************************************************)
\* Mutant: the reservation does not detach the last turn's key.
StartTurnAttached ==
    /\ worker = "idle" /\ turn < MaxTurns
    /\ turn' = turn + 1 /\ worker' = "running"
    /\ log' = Append(log, Entry("user", turn + 1))
    /\ UNCHANGED <<active, made, ring, client>>

StartTurn ==
    /\ worker = "idle" /\ turn < MaxTurns
    /\ turn' = turn + 1 /\ worker' = "running" /\ active' = None
    /\ log' = Append(log, Entry("user", turn + 1))
    /\ UNCHANGED <<made, ring, client>>

\* append_delta, from whichever thread the adapter streams on.
AppendDelta ==
    /\ worker = "running" /\ Len(made) < MaxChunks
    /\ active \in {None, turn}
    /\ active' = turn /\ made' = Append(made, turn)
    /\ UNCHANGED <<turn, worker, ring, log, client>>

\* The adapter closes its turn, the answer is recorded, the worker ends.
CloseTurn ==
    /\ worker = "running"
    /\ \E result \in {"answered", "silent"} : worker' = result
    /\ LogEntry("close")
    /\ UNCHANGED <<turn, made, active, ring, client>>

RecordAssistant ==
    /\ worker = "answered"
    /\ worker' = "silent" /\ active' = None
    /\ LogEntry("assistant")
    /\ UNCHANGED <<turn, made, ring, client>>

FinishTurn ==
    /\ worker = "silent"
    /\ worker' = "idle"
    /\ UNCHANGED <<turn, made, active, ring, log, client>>

\* A kill, a close or a fatal result; or the daemon ends and the next one
\* sweeps the run.  The terminal event first, then the ring is gone.
EndRun ==
    /\ ~RunEnded /\ ring
    /\ worker' = "over"
    /\ LogEntry("end")
    /\ UNCHANGED <<turn, made, active, ring, client>>

DropRing ==
    /\ ring /\ RunEnded
    /\ ring' = FALSE
    /\ UNCHANGED <<turn, worker, made, active, log, client>>

DaemonDies ==
    /\ ring /\ ~RunEnded
    /\ ring' = FALSE /\ worker' = "over"
    /\ UNCHANGED <<turn, made, active, log, client>>

Sweep ==
    /\ ~ring /\ ~RunEnded
    /\ LogEntry("end")
    /\ UNCHANGED <<turn, worker, made, active, ring, client>>

(***************************************************************************)
(* DeltaRing.read: one batch after the cursor, the next cursor, and        *)
(* whether something the reader has not seen was evicted.                  *)
(***************************************************************************)
Latest == Len(made)
Evicted == IF Latest > Capacity THEN Latest - Capacity ELSE 0

Chunks(from, to) == [i \in 1 .. to - from |-> [seq |-> from + i, turn |-> made[from + i]]]
Answer(chunks, cursor, dropped) == [chunks |-> chunks, cursor |-> cursor, dropped |-> dropped]

\* Mutant: a slow reader is moved on without being told.
ReadSilent(from) ==
    IF from >= Latest \/ from < Evicted THEN {Answer(<<>>, Latest, from > Latest)}
    ELSE {Answer(Chunks(from, to), to, FALSE) : to \in {to \in from + 1 .. Latest : to - from <= Batch}}

Read(from) ==
    IF from > Latest \/ from < Evicted THEN {Answer(<<>>, Latest, TRUE)}
    ELSE IF from = Latest THEN {Answer(<<>>, Latest, FALSE)}
    ELSE {Answer(Chunks(from, to), to, FALSE) : to \in {to \in from + 1 .. Latest : to - from <= Batch}}

(***************************************************************************)
(* session/events: the ledger, then the ring, then whether the run ended.  *)
(***************************************************************************)
IdlePoll == [pc |-> "idle", events |-> <<>>, more |-> FALSE, answer |-> Answer(<<>>, 0, FALSE)]

ReadEvents ==
    /\ poll.pc = "idle"
    /\ \E n \in 0 .. Most :
          LET after == SubSeq(log, since.events + 1, Len(log))
          IN  /\ n <= Len(after) /\ (n = 0 => after = <<>>)
              /\ poll' = [poll EXCEPT !.pc = "deltas", !.events = SubSeq(after, 1, n)]
    /\ UNCHANGED <<server, since, stream>>

\* Nothing yet: the long poll looks again; a run that ended is not waited for.
ReadDeltas ==
    /\ poll.pc = "deltas"
    /\ \E a \in IF ring THEN Read(since.deltas)
                ELSE {Answer(<<>>, 0, since.deltas > 0)} :
          \/ poll' = [poll EXCEPT !.pc = "sent", !.answer = a, !.more = ~RunEnded]
          \/ poll.events = <<>> /\ a.chunks = <<>> /\ ~a.dropped /\ ~RunEnded
             /\ poll' = IdlePoll
    /\ UNCHANGED <<server, since, stream>>

(***************************************************************************)
(* StreamReducer.                                                          *)
(***************************************************************************)
Cleared(s) == [s EXCEPT !.shown = {}, !.of = None]
Larger(a, b) == IF a > b THEN a ELSE b
Bump(s, cursor) == [s EXCEPT !.cursor = Larger(@, cursor)]

Suppressed(s, seq) == [Cleared(s) EXCEPT !.suppressed = TRUE, !.cursor = Larger(@, seq)]

Take(s, c) ==
    IF c.seq <= s.cursor \/ c.turn \in s.final THEN s
    ELSE IF c.seq # s.cursor + 1 THEN Suppressed(s, c.seq)
    ELSE IF s.suppressed THEN [s EXCEPT !.cursor = c.seq]
    ELSE [s EXCEPT !.cursor = c.seq, !.of = c.turn,
                   !.shown = IF s.of \in {None, c.turn} THEN @ \cup {c.seq} ELSE {c.seq}]

\* The chunks of one response, one after the other; a function, for the proofs.
Taken(s, chunks) ==
    LET after[i \in 0 .. Len(chunks)] == IF i = 0 THEN s ELSE Take(after[i - 1], chunks[i])
    IN  after[Len(chunks)]

Apply(s, a, cursor) ==
    IF a.dropped THEN Bump([Cleared(s) EXCEPT !.suppressed = TRUE], cursor)
    ELSE Bump(Taken(s, a.chunks), cursor)

ReconcileDurable(s, events) ==
    LET said   == {e.turn : e \in {e \in ToSet(events) : e.kind = "assistant"}}
        closed == {e.turn : e \in {e \in ToSet(events) : e.kind = "close"}}
        done   == [s EXCEPT !.final = @ \cup said \cup closed]
        tidy   == IF said # {} \/ s.of \in closed THEN Cleared(done) ELSE done
    IN  IF said # {} THEN [tidy EXCEPT !.suppressed = FALSE] ELSE tidy

ClearFailure(s) == [Cleared(s) EXCEPT !.suppressed = FALSE]

(***************************************************************************)
(* The pump: chunks first, then durable events, then the end of the run.   *)
(***************************************************************************)
Deliver ==
    /\ poll.pc = "sent"
    /\ LET cursor == Larger(since.deltas, poll.answer.cursor)
           streamed == Apply(stream, poll.answer, cursor)
           settled == IF poll.events = <<>> THEN streamed ELSE ReconcileDurable(streamed, poll.events)
       IN  /\ since' = [events |-> since.events + Len(poll.events), deltas |-> cursor]
           /\ stream' = IF poll.more THEN settled ELSE ClearFailure(settled)
           /\ poll' = IF ~poll.more /\ poll.events = <<>>
                      THEN [IdlePoll EXCEPT !.pc = "stopped"] ELSE IdlePoll
    /\ UNCHANGED server

\* The request fails or its response is lost; the pump tries again.
Unreachable ==
    /\ poll.pc \in {"idle", "deltas", "sent"}
    /\ poll' = IdlePoll /\ stream' = ClearFailure(stream)
    /\ UNCHANGED <<server, since>>

\* The user interrupts; the turn may go on for a while.
Interrupt ==
    /\ turn > 0 /\ stream' = ClearFailure(stream)
    /\ UNCHANGED <<server, poll, since>>

----------------------------------------------------------------------------
StreamInit ==
    /\ turn = 0 /\ worker = "idle" /\ made = <<>> /\ active = None /\ ring = TRUE
    /\ log = <<>> /\ poll = IdlePoll
    /\ since = [events |-> 0, deltas |-> 0]
    /\ stream = [shown |-> {}, of |-> None, suppressed |-> FALSE, cursor |-> 0, final |-> {}]

StreamNext ==
    \/ StartTurn \/ AppendDelta \/ CloseTurn \/ RecordAssistant \/ FinishTurn
    \/ EndRun \/ DropRing \/ DaemonDies \/ Sweep
    \/ ReadEvents \/ ReadDeltas \/ Deliver \/ Unreachable \/ Interrupt

StreamSpec == StreamInit /\ [][StreamNext]_streamVars

----------------------------------------------------------------------------
\* Every variable has the values its code can give it.
StreamTypeOK ==
    /\ turn \in 0 .. MaxTurns /\ Len(made) <= MaxChunks /\ active \in {None, turn}
    /\ since.events <= Len(log) /\ since.deltas <= Latest
    /\ stream.cursor = since.deltas
    /\ stream.of \in 0 .. turn /\ stream.shown \subseteq 1 .. Latest

\* Durable answers the chat has been given.
Answered == {log[i].turn : i \in {i \in 1 .. since.events : log[i].kind = "assistant"}}

\* What the bubble shows is one run of chunks of one turn, without a hole and
\* without a chunk of another turn, however much the ring evicted, whatever was
\* lost and in whatever portions events and chunks arrived; and a turn's bubble
\* is never shown beside the durable answer of that turn.
BubbleIsTrue ==
    LET bubble == IF stream.suppressed THEN {} ELSE stream.shown
    IN  /\ \A i \in bubble : made[i] = stream.of
        /\ \A i, k \in bubble : \A j \in 1 .. Latest : i < j /\ j < k => j \in bubble
        /\ bubble # {} => stream.of \notin Answered
============================================================================
