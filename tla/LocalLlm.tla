------------------------------ MODULE LocalLlm ------------------------------
(***************************************************************************)
(* The adapter of local models (adapters/local_llm.py) and the process     *)
(* side of the tool gateway it owns (tool_gateway.py): the loop of a turn  *)
(* on the session's worker thread, and interrupt, steer, close and kill on *)
(* the daemon's request threads.  Every lock is held for one step here.    *)
(*                                                                         *)
(* A turn and a steered text are numbers; what the model says is its kind. *)
(***************************************************************************)
EXTENDS Naturals

CONSTANTS
    Caller,     \* bound: requests, each on a thread of its own
    MaxProcesses, \* bound: processes of kaizen_run_process and of the regex search
    MaxTurns,   \* bound: turns of the session
    MaxModel    \* max_turns: model calls of a turn

LocalConstantsOK == {MaxTurns, MaxModel, MaxProcesses} \subseteq Nat \ {0}

VARIABLES
    killed, closed,     \* _killed, _closed
    interrupt,          \* the interrupt flag
    steers,             \* _steer_queue: the turns its texts were meant for
    active,             \* _active_turn
    marks,              \* terminal markers of each turn
    worker,             \* progress of the turn
    process,            \* each process: "none", "alive", "dead"
    registry,           \* _active_processes
    canceled,           \* processes the gateway was told to cancel
    done,               \* processes whose tool call has completed
    caller,             \* progress of each request
    cancelling          \* the thread that holds _cancel_lock

flags == <<killed, closed, interrupt>>
tools == <<process, registry, canceled, done>>
calls == <<caller, cancelling>>
localVars == <<flags, steers, active, marks, worker, tools, calls>>

NoTurn == 0
NoProcess == 0
Process == 1 .. MaxProcesses
NoOne == "none"
IdleWorker == [pc |-> "idle", turn |-> NoTurn, calls |-> 0, process |-> NoProcess, failed |-> FALSE]
IdleCaller == [pc |-> "idle", op |-> "none", saw |-> NoTurn, snapshot |-> {}, proven |-> TRUE]
Over == [IdleCaller EXCEPT !.pc = "over"]
Alive == {p \in Process : process[p] = "alive"}
Turn == 1 .. MaxTurns

(***************************************************************************)
(* _close_turn: whoever comes first emits the marker.                      *)
(***************************************************************************)
\* Mutant: the marker is not deduplicated.
CloseAlways(t) ==
    /\ marks' = [marks EXCEPT ![t] = @ + 1]
    /\ active' = IF active = t THEN NoTurn ELSE active

CloseTurn(t) ==
    /\ marks' = IF marks[t] = 0 THEN [marks EXCEPT ![t] = 1] ELSE marks
    /\ active' = IF marks[t] = 0 /\ active = t THEN NoTurn ELSE active

(***************************************************************************)
(* start_turn.                                                             *)
(***************************************************************************)
Look ==
    /\ worker.pc = "idle" /\ ~killed /\ ~closed /\ worker.turn < MaxTurns
    /\ worker' = [IdleWorker EXCEPT !.pc = "clear", !.turn = worker.turn + 1]
    /\ UNCHANGED <<flags, steers, active, marks, tools, calls>>

\* No provider: no span was opened.
Unprovided ==
    /\ worker.pc = "clear"
    /\ worker' = [IdleWorker EXCEPT !.turn = worker.turn]
    /\ UNCHANGED <<flags, steers, active, marks, tools, calls>>

ClearFlag ==
    /\ worker.pc = "clear"
    /\ interrupt' = FALSE
    /\ worker' = [worker EXCEPT !.pc = "forget"]
    /\ UNCHANGED <<killed, closed, steers, active, marks, tools, calls>>

ClearSteers ==
    /\ worker.pc = "forget"
    /\ steers' = {}
    /\ worker' = [worker EXCEPT !.pc = "open"]
    /\ UNCHANGED <<flags, active, marks, tools, calls>>

OpenTurn ==
    /\ worker.pc = "open"
    /\ active' = worker.turn
    /\ worker' = [worker EXCEPT !.pc = "top"]
    /\ UNCHANGED <<flags, steers, marks, tools, calls>>

EndTurn ==
    /\ CloseTurn(worker.turn)
    /\ worker' = [IdleWorker EXCEPT !.turn = worker.turn]

\* The interrupt, the steered texts, the ceiling.
Top ==
    /\ worker.pc = "top"
    /\ IF interrupt
       THEN EndTurn /\ UNCHANGED steers
       ELSE /\ steers' = {}
            /\ IF worker.calls >= MaxModel
               THEN EndTurn
               ELSE /\ worker' = [worker EXCEPT !.pc = "chat"]
                    /\ UNCHANGED <<active, marks>>
    /\ UNCHANGED <<flags, tools, calls>>

\* The provider fails or answers finally.
ModelEnds ==
    /\ worker.pc = "chat"
    /\ EndTurn
    /\ UNCHANGED <<flags, steers, tools, calls>>

\* Something unreadable, a read, a denied tool, a process tool.
ModelGoesOn ==
    /\ worker.pc = "chat"
    /\ \E next \in {"top", "spawn"} : worker' = [worker EXCEPT !.pc = next, !.calls = @ + 1]
    /\ UNCHANGED <<flags, steers, active, marks, tools, calls>>

(***************************************************************************)
(* _run_process and _isolated_regex_search, after policy, broker and guard.*)
(***************************************************************************)
Spawn ==
    /\ worker.pc = "spawn"
    /\ \E p \in Process :
          /\ process[p] = "none" /\ \A q \in 1 .. p - 1 : process[q] # "none"
          /\ process' = [process EXCEPT ![p] = "alive"]
          /\ worker' = [worker EXCEPT !.pc = "register", !.process = p]
    /\ UNCHANGED <<flags, steers, active, marks, registry, canceled, done, calls>>

\* Or any other tool result after which the turn must stop.
SpawnFails ==
    /\ worker.pc = "spawn"
    /\ worker' = [worker EXCEPT !.pc = "fatal"]
    /\ UNCHANGED <<flags, steers, active, marks, tools, calls>>

Register ==
    /\ worker.pc = "register"
    /\ registry' = registry \cup {worker.process}
    /\ worker' = [worker EXCEPT !.pc = "wait"]
    /\ UNCHANGED <<flags, steers, active, marks, process, canceled, done, calls>>

ProcessEnds ==
    /\ \E p \in Alive : process' = [process EXCEPT ![p] = "dead"]
    /\ UNCHANGED <<flags, steers, active, marks, worker, registry, canceled, done, calls>>

\* It ended, or its time is up and kill_tree succeeds or raises; a search may
\* be tried again after that.
WaitEnds ==
    /\ worker.pc = "wait"
    /\ \/ worker.process \notin Alive /\ UNCHANGED process
          /\ worker' = [worker EXCEPT !.pc = "complete"]
       \/ /\ worker.process \in Alive
          /\ process' \in {process, [process EXCEPT ![worker.process] = "dead"]}
          /\ \E fatal \in BOOLEAN :
                worker' = [worker EXCEPT !.pc = "complete", !.failed = fatal]
    /\ UNCHANGED <<flags, steers, active, marks, registry, canceled, done, calls>>

\* Mutant: the process is forgotten although it may still run.
ForgetAlways(proven) == registry \ {worker.process}

Remaining(proven) == IF proven THEN registry \ {worker.process} ELSE registry

\* _complete_process: a process whose end is not proven stays registered.  Its
\* pipes may not drain, or its handle not close, although it is dead.
Complete ==
    /\ worker.pc = "complete"
    /\ \E proven \in BOOLEAN :
          /\ proven => worker.process \notin Alive
          /\ done' = done \cup {worker.process}
          /\ registry' = Remaining(proven)
          /\ worker' = [worker EXCEPT !.pc = "return", !.failed = @ \/ ~proven]
    /\ UNCHANGED <<flags, steers, active, marks, process, canceled, calls>>

ToolReturns ==
    /\ worker.pc = "return"
    /\ LET fatal == worker.failed \/ worker.process \in canceled
       IN  worker' = [worker EXCEPT !.pc = IF fatal THEN "fatal" ELSE "top",
                                    !.process = NoProcess, !.failed = FALSE]
    /\ UNCHANGED <<flags, steers, active, marks, tools, calls>>

Fatal ==
    /\ worker.pc = "fatal"
    /\ EndTurn
    /\ UNCHANGED <<flags, steers, tools, calls>>

WorkerStep ==
    \/ Look \/ Unprovided \/ ClearFlag \/ ClearSteers \/ OpenTurn \/ Top \/ ModelEnds \/ ModelGoesOn
    \/ Spawn \/ SpawnFails \/ Register \/ WaitEnds \/ Complete \/ ToolReturns \/ Fatal

(***************************************************************************)
(* steer and interrupt.                                                    *)
(***************************************************************************)
Goes(c, to) == [caller EXCEPT ![c].pc = to]

\* Which of the callers that have not called yet is the next makes no difference.
Call(c) ==
    /\ caller[c].pc = "idle" /\ c = CHOOSE x \in Caller : caller[x].pc = "idle"
    /\ \/ /\ active # NoTurn
          /\ caller' = [caller EXCEPT ![c] = [IdleCaller EXCEPT !.op = "steer", !.pc = "append", !.saw = active]]
          /\ UNCHANGED flags
       \/ /\ caller' = [caller EXCEPT ![c] = [IdleCaller EXCEPT !.op = "interrupt", !.pc = "flag"]]
          /\ UNCHANGED flags
       \/ /\ active = NoTurn /\ ~closed /\ closed' = TRUE
          /\ caller' = [caller EXCEPT ![c] = [IdleCaller EXCEPT !.op = "close", !.pc = "cancel"]]
          /\ UNCHANGED <<killed, interrupt>>
       \/ /\ killed' = TRUE
          /\ caller' = [caller EXCEPT ![c] = [IdleCaller EXCEPT !.op = "kill", !.pc = "flag"]]
          /\ UNCHANGED <<closed, interrupt>>
    /\ UNCHANGED <<steers, active, marks, worker, tools, cancelling>>

AppendSteer(c) ==
    /\ caller[c].pc = "append"
    /\ steers' = steers \cup {caller[c].saw}
    /\ caller' = [caller EXCEPT ![c] = Over]
    /\ UNCHANGED <<flags, active, marks, worker, tools, cancelling>>

SetFlag(c) ==
    /\ caller[c].pc = "flag"
    /\ interrupt' = TRUE
    /\ caller' = Goes(c, "cancel")
    /\ UNCHANGED <<killed, closed, steers, active, marks, worker, tools, cancelling>>

(***************************************************************************)
(* cancel_active_processes.                                                *)
(***************************************************************************)
Snapshot(c) ==
    /\ caller[c].pc = "cancel" /\ cancelling = NoOne
    /\ cancelling' = c
    /\ caller' = [caller EXCEPT ![c].pc = "end", ![c].snapshot = registry]
    /\ UNCHANGED <<flags, steers, active, marks, worker, tools>>

\* Each process is told and killed; the kill of one that lives may raise.
EndOne(c) ==
    /\ caller[c].pc = "end"
    /\ \E p \in caller[c].snapshot \ canceled :
          /\ canceled' = canceled \cup {p}
          /\ \/ process' = [process EXCEPT ![p] = "dead"] /\ UNCHANGED caller
             \/ /\ p \in Alive /\ UNCHANGED process
                /\ caller' = [caller EXCEPT ![c].proven = FALSE]
    /\ UNCHANGED <<flags, steers, active, marks, worker, registry, done, cancelling>>

\* One that an earlier call told is killed again.
EndAgain(c) ==
    /\ caller[c].pc = "end" /\ caller[c].snapshot \subseteq canceled
    /\ \E survivors \in SUBSET (caller[c].snapshot \cap Alive) :
          /\ process' = [p \in Process |->
                            IF p \in caller[c].snapshot \ survivors THEN "dead" ELSE process[p]]
          /\ caller' = [caller EXCEPT ![c].pc = "join", ![c].proven = @ /\ survivors = {}]
    /\ UNCHANGED <<flags, steers, active, marks, worker, registry, canceled, done, cancelling>>

\* Mutant: a stopped process counts although its tool call still runs.
StoppedAlone(c) == caller[c].snapshot \ Alive

Settled(c) == (caller[c].snapshot \ Alive) \cap done

\* Every one stopped and joined before the deadline, or not.
Join(c) ==
    /\ caller[c].pc = "join"
    /\ registry' = registry \ Settled(c)
    /\ caller' = [caller EXCEPT ![c].pc = "answer",
                    ![c].proven = @ /\ caller[c].snapshot \subseteq Settled(c) /\ registry' = {}]
    /\ cancelling' = NoOne
    /\ UNCHANGED <<flags, steers, active, marks, worker, process, canceled, done>>

\* kill also closes the turn it finds.
Answer(c) ==
    /\ caller[c].pc = "answer"
    /\ IF caller[c].op = "kill" /\ active # NoTurn
       THEN CloseTurn(active)
       ELSE UNCHANGED <<active, marks>>
    /\ caller' = [caller EXCEPT ![c] = Over]
    /\ UNCHANGED <<flags, steers, worker, tools, cancelling>>

CallerStep(c) ==
    Call(c) \/ AppendSteer(c) \/ SetFlag(c) \/ Snapshot(c) \/ EndOne(c) \/ EndAgain(c) \/ Join(c) \/ Answer(c)

----------------------------------------------------------------------------
LocalInit ==
    /\ killed = FALSE /\ closed = FALSE /\ interrupt = FALSE /\ steers = {}
    /\ active = NoTurn /\ marks = [t \in Turn |-> 0] /\ worker = IdleWorker
    /\ process = [p \in Process |-> "none"] /\ registry = {} /\ canceled = {} /\ done = {}
    /\ caller = [c \in Caller |-> IdleCaller] /\ cancelling = NoOne

LocalNext == WorkerStep \/ ProcessEnds \/ \E c \in Caller : CallerStep(c)

LocalSpec == LocalInit /\ [][LocalNext]_localVars

----------------------------------------------------------------------------
\* Every variable has the values the code can give it.
LocalTypeOK ==
    /\ {killed, closed, interrupt} \subseteq BOOLEAN
    /\ active \in Turn \cup {NoTurn} /\ registry \cup canceled \cup done \subseteq Process
    /\ \A p \in Process : process[p] \in {"none", "alive", "dead"}
    /\ \A c \in Caller : caller[c].snapshot \subseteq Process

\* A governed process that may still run is registered, so that every later
\* interrupt, close and kill looks for it; a request that answers "termination
\* proven" left none of those it found; a turn has one terminal marker,
\* whichever of the loop and a kill comes first, and its tool call never goes on
\* after it was told to stop.
StopIsProven ==
    /\ \A p \in Alive : p \in registry \/ (worker.process = p /\ worker.pc = "register")
    /\ \A c \in Caller : caller[c].pc = "answer" /\ caller[c].proven
          => /\ caller[c].snapshot \cap Alive = {}
             /\ ~(worker.process \in caller[c].snapshot /\ worker.pc = "wait")
    /\ \A t \in Turn : marks[t] <= 1
    /\ active # NoTurn => active = worker.turn /\ marks[active] = 0

=============================================================================
