---------------------------- MODULE DaemonProofs ----------------------------
(***************************************************************************)
(* Proofs about four parts of a daemon.                                    *)
(*                                                                         *)
(* The adapter of local models (LocalLlm), for any requests, processes and *)
(* turns: what a stop proves, by the inductive invariant LocalInv, whose   *)
(* parts say which turn is open, which processes the gateway knows, and    *)
(* what a request has seen of them.                                        *)
(*                                                                         *)
(* The life of daemon processes (DaemonLifecycle), however many are        *)
(* started, die or stop, with whatever process ids, by DaemonInv: one      *)
(* daemon owns the workspace, and a sweep finalizes only runs of processes *)
(* that are gone.                                                          *)
(*                                                                         *)
(* The adapter of Codex (CodexAdapter), for any turns and requests and     *)
(* whatever the app-server says and when, by CodexInv: what is known of a  *)
(* turn's end is true, and such a turn is closed; a process that may run   *)
(* is attached and its thread leased.                                      *)
(*                                                                         *)
(* The adapter of Claude (ClaudeAgent), for any turns and requesters and   *)
(* whatever the worker's process writes and when, by ClaudeInv: the host   *)
(* and the worker speak of the same turn, because what is under way about  *)
(* a turn is in one place at a time.                                       *)
(***************************************************************************)
EXTENDS LocalLlm, DaemonLifecycle, CodexAdapter, ClaudeAgent, TLAPS

----------------------------------------------------------------------------
(***************************************************************************)
(* The adapter of local models.                                            *)
(***************************************************************************)
WorkerPc == {"idle", "clear", "forget", "open", "top", "chat", "spawn", "register", "wait",
             "complete", "return", "fatal"}
CallerPc == {"idle", "append", "flag", "cancel", "end", "join", "answer", "over"}

WorkerLocals == [pc : WorkerPc, turn : 0 .. MaxTurns, calls : Nat,
                 process : Process \cup {NoProcess}, failed : BOOLEAN]
CallerLocals == [pc : CallerPc, op : {"none", "steer", "interrupt", "close", "kill"},
                 saw : Turn \cup {NoTurn}, snapshot : SUBSET Process, proven : BOOLEAN]

\* The types of everything the steps read.
LocalKinds ==
    /\ killed \in BOOLEAN /\ closed \in BOOLEAN /\ interrupt \in BOOLEAN
    /\ active \in Turn \cup {NoTurn} /\ marks \in [Turn -> {0, 1}]
    /\ worker \in WorkerLocals /\ caller \in [Caller -> CallerLocals]
    /\ process \in [Process -> {"none", "alive", "dead"}]
    /\ registry \in SUBSET Process /\ canceled \in SUBSET Process /\ done \in SUBSET Process

\* The worker has a turn of its own that it has not opened yet.
Opening == worker.pc \in {"clear", "forget", "open"}

\* The active turn is the worker's and unmarked; a turn to come has no marker.
TurnInv ==
    /\ worker.pc # "idle" => worker.turn \in Turn
    /\ worker.pc = "idle" \/ Opening => active = NoTurn
    /\ active # NoTurn => active = worker.turn /\ marks[active] = 0
    /\ \A t \in Turn : worker.turn < t \/ (worker.turn = t /\ Opening) => marks[t] = 0

\* Whatever the gateway knows was started, what may run is known, and a tool
\* call that goes on has not completed.
ProcessInv ==
    /\ \A p \in registry \cup canceled \cup done : process[p] # "none"
    /\ worker.pc \in {"register", "wait", "complete", "return"} =>
          worker.process \in Process /\ process[worker.process] # "none"
    /\ worker.pc \in {"register", "wait", "complete"} => worker.process \notin done
    /\ \A p \in Alive : p \in registry \/ (worker.process = p /\ worker.pc = "register")

\* A request looks for processes that were started; those it proves ended are
\* dead, and their tool calls have completed.
Proves(k) == k.pc = "answer" /\ k.proven => \A p \in k.snapshot : process[p] = "dead" /\ p \in done
CallerInv ==
    \A c \in Caller : /\ \A p \in caller[c].snapshot : process[p] # "none"
                      /\ Proves(caller[c])

LocalInv == LocalKinds /\ TurnInv /\ ProcessInv /\ CallerInv

----------------------------------------------------------------------------
\* The constants are numbers.
LEMMA Numbers ==
    ASSUME LocalConstantsOK
    PROVE  MaxTurns \in Nat /\ MaxModel \in Nat /\ MaxProcesses \in Nat
BY DEF LocalConstantsOK

LEMMA IdleIs ==
    ASSUME LocalConstantsOK
    PROVE  IdleWorker \in WorkerLocals /\ IdleCaller \in CallerLocals /\ Over \in CallerLocals
<1>1. IdleWorker \in WorkerLocals
  BY Numbers DEF IdleWorker, WorkerLocals, WorkerPc, NoTurn, NoProcess
<1>2. IdleCaller \in CallerLocals
  BY DEF IdleCaller, CallerLocals, CallerPc
<1>3. Over \in CallerLocals
  BY <1>2 DEF Over, CallerLocals, CallerPc
<1> QED BY <1>1, <1>2, <1>3

(***************************************************************************)
(* Types.                                                                  *)
(***************************************************************************)
\* A turn that ends or is closed leaves a marker and types.
LEMMA CloseKeepsKinds ==
    ASSUME LocalKinds, NEW t \in Turn, CloseTurn(t)
    PROVE  marks' \in [Turn -> {0, 1}] /\ active' \in Turn \cup {NoTurn}
BY DEF LocalKinds, CloseTurn

\* The types hold after every step of the worker ...
LEMMA WorkerKeepsKinds ==
    ASSUME LocalConstantsOK, LocalKinds, TurnInv, ProcessInv, WorkerStep
    PROVE  LocalKinds'
<1> USE DEF flags, tools, calls
<1>0. worker \in WorkerLocals /\ MaxTurns \in Nat
  BY Numbers DEF LocalKinds
<1>1. ASSUME EndTurn, worker.turn \in Turn, UNCHANGED <<flags, tools, calls>> PROVE LocalKinds'
  <2>1. worker' \in WorkerLocals
    BY <1>0, <1>1, IdleIs DEF EndTurn, IdleWorker, WorkerLocals
  <2> QED BY <1>1, <2>1, CloseKeepsKinds DEF LocalKinds, EndTurn
<1>2. CASE Look
  <2>1. worker' \in WorkerLocals
    <3>1. worker.turn + 1 \in 0 .. MaxTurns
      BY <1>0, <1>2 DEF Look, WorkerLocals
    <3>2. worker' = [pc |-> "clear", turn |-> worker.turn + 1, calls |-> 0, process |-> NoProcess, failed |-> FALSE]
      BY <1>2 DEF Look, IdleWorker
    <3> QED BY <3>1, <3>2 DEF WorkerLocals, WorkerPc, NoProcess
  <2> QED BY <1>2, <2>1 DEF Look, LocalKinds
<1>3. CASE Unprovided
  <2>1. worker' \in WorkerLocals
    BY <1>0, <1>3, IdleIs DEF Unprovided, IdleWorker, WorkerLocals
  <2> QED BY <1>3, <2>1 DEF Unprovided, LocalKinds
<1>4. CASE ClearFlag
  BY <1>0, <1>4 DEF ClearFlag, LocalKinds, WorkerLocals, WorkerPc
<1>5. CASE ClearSteers
  BY <1>0, <1>5 DEF ClearSteers, LocalKinds, WorkerLocals, WorkerPc
<1>6. CASE OpenTurn
  <2>1. worker.turn \in Turn
    BY <1>6 DEF OpenTurn, TurnInv
  <2> QED BY <1>0, <1>6, <2>1 DEF OpenTurn, LocalKinds, WorkerLocals, WorkerPc
<1>7. CASE Top
  <2>1. worker.turn \in Turn
    BY <1>7 DEF Top, TurnInv
  <2>2. ASSUME worker' = [worker EXCEPT !.pc = "chat"], UNCHANGED <<active, marks>> PROVE LocalKinds'
    BY <1>0, <1>7, <2>2 DEF Top, LocalKinds, WorkerLocals, WorkerPc
  <2> QED BY <1>1, <1>7, <2>1, <2>2 DEF Top
<1>8. CASE ModelEnds \/ Fatal
  BY <1>1, <1>8 DEF ModelEnds, Fatal, TurnInv
<1>9. CASE ModelGoesOn
  <2>1. PICK next \in {"top", "spawn"} : worker' = [worker EXCEPT !.pc = next, !.calls = @ + 1]
    BY <1>9 DEF ModelGoesOn
  <2>2. worker.calls + 1 \in Nat
    BY <1>0 DEF WorkerLocals
  <2>3. worker' \in WorkerLocals
    BY <1>0, <2>1, <2>2 DEF WorkerLocals, WorkerPc
  <2> QED BY <1>9, <2>3 DEF ModelGoesOn, LocalKinds
<1>10. CASE Spawn
  BY <1>0, <1>10 DEF Spawn, LocalKinds, WorkerLocals, WorkerPc
<1>11. CASE SpawnFails
  BY <1>0, <1>11 DEF SpawnFails, LocalKinds, WorkerLocals, WorkerPc
<1>12. CASE Register
  <2>1. worker.process \in Process
    BY <1>12 DEF Register, ProcessInv
  <2> QED BY <1>0, <1>12, <2>1 DEF Register, LocalKinds, WorkerLocals, WorkerPc
<1>13. CASE WaitEnds
  BY <1>0, <1>13 DEF WaitEnds, LocalKinds, WorkerLocals, WorkerPc
<1>14. CASE Complete
  <2>1. PICK proven \in BOOLEAN :
           /\ done' = done \cup {worker.process} /\ registry' = Remaining(proven)
           /\ worker' = [worker EXCEPT !.pc = "return", !.failed = @ \/ ~proven]
    BY <1>14 DEF Complete
  <2>2. PICK f \in BOOLEAN : worker' = [worker EXCEPT !.pc = "return", !.failed = f]
    <3>1. (worker.failed \/ ~proven) \in BOOLEAN
      BY Zenon
    <3> QED BY <2>1, <3>1, Zenon
  <2>3. worker' \in WorkerLocals
    BY <1>0, <2>2 DEF WorkerLocals, WorkerPc
  <2>4. worker.process \in Process
    BY <1>14 DEF Complete, ProcessInv
  <2> QED BY <1>14, <2>1, <2>3, <2>4 DEF Complete, Remaining, LocalKinds
<1>15. CASE ToolReturns
  BY <1>0, <1>15 DEF ToolReturns, LocalKinds, WorkerLocals, WorkerPc
<1> QED BY <1>2, <1>3, <1>4, <1>5, <1>6, <1>7, <1>8, <1>9, <1>10, <1>11, <1>12, <1>13, <1>14,
           <1>15 DEF WorkerStep

\* ... of the processes themselves, and of a request.
LEMMA LocalOthersKeepKinds ==
    ASSUME LocalConstantsOK, LocalKinds, ProcessEnds \/ (\E c \in Caller : CallerStep(c)) \/ UNCHANGED localVars
    PROVE  LocalKinds'
<1> USE DEF flags, tools, calls
<1>1. CASE ProcessEnds
  BY <1>1 DEF ProcessEnds, LocalKinds
<1>2. CASE UNCHANGED localVars
  BY <1>2 DEF localVars, LocalKinds
<1>3. ASSUME NEW c \in Caller, CallerStep(c) PROVE LocalKinds'
  <2>0. caller[c] \in CallerLocals /\ active \in Turn \cup {NoTurn}
    BY DEF LocalKinds
  <2>1. CASE Call(c)
    <3>1. /\ [IdleCaller EXCEPT !.op = "steer", !.pc = "append", !.saw = active] \in CallerLocals
          /\ [IdleCaller EXCEPT !.op = "interrupt", !.pc = "flag"] \in CallerLocals
          /\ [IdleCaller EXCEPT !.op = "close", !.pc = "cancel"] \in CallerLocals
          /\ [IdleCaller EXCEPT !.op = "kill", !.pc = "flag"] \in CallerLocals
      BY <2>0, IdleIs DEF CallerLocals, CallerPc
    <3>2. \E k \in CallerLocals : caller' = [caller EXCEPT ![c] = k]
      BY <2>1, <3>1 DEF Call
    <3> QED BY <2>1, <3>1, <3>2 DEF Call, LocalKinds
  <2>2. CASE AppendSteer(c)
    BY <2>2, IdleIs DEF AppendSteer, LocalKinds
  <2>3. CASE SetFlag(c)
    <3>1. [caller[c] EXCEPT !.pc = "cancel"] \in CallerLocals
      BY <2>0 DEF CallerLocals, CallerPc
    <3> QED BY <2>3, <3>1 DEF SetFlag, Goes, LocalKinds
  <2>4. CASE Snapshot(c)
    <3>1. [caller[c] EXCEPT !.pc = "end", !.snapshot = registry] \in CallerLocals
      BY <2>0 DEF CallerLocals, CallerPc, LocalKinds
    <3>2. caller' = [caller EXCEPT ![c] = [caller[c] EXCEPT !.pc = "end", !.snapshot = registry]]
      BY <2>4 DEF Snapshot, LocalKinds
    <3> QED BY <2>4, <3>1, <3>2 DEF Snapshot, LocalKinds
  <2>5. CASE EndOne(c)
    <3>1. [caller[c] EXCEPT !.proven = FALSE] \in CallerLocals
      BY <2>0 DEF CallerLocals
    <3>2. PICK p \in caller[c].snapshot \ canceled :
             /\ canceled' = canceled \cup {p}
             /\ process' \in {process, [process EXCEPT ![p] = "dead"]}
             /\ caller' \in {caller, [caller EXCEPT ![c] = [caller[c] EXCEPT !.proven = FALSE]]}
      BY <2>5 DEF EndOne, LocalKinds
    <3>3. p \in Process
      BY <2>0 DEF CallerLocals
    <3> QED BY <2>5, <3>1, <3>2, <3>3 DEF EndOne, LocalKinds
  <2>6. CASE EndAgain(c)
    <3>1. PICK survivors \in SUBSET (caller[c].snapshot \cap Alive) :
             /\ process' = [p \in Process |->
                               IF p \in caller[c].snapshot \ survivors THEN "dead" ELSE process[p]]
             /\ caller' = [caller EXCEPT ![c].pc = "join", ![c].proven = @ /\ survivors = {}]
      BY <2>6 DEF EndAgain
    <3>2. PICK b \in BOOLEAN : caller' = [caller EXCEPT ![c].pc = "join", ![c].proven = b]
      <4>1. (caller[c].proven /\ survivors = {}) \in BOOLEAN
        BY Zenon
      <4> QED BY <3>1, <4>1, Zenon
    <3>3. caller' \in [Caller -> CallerLocals]
      BY <3>2, <2>0 DEF LocalKinds, CallerLocals, CallerPc
    <3>4. process' \in [Process -> {"none", "alive", "dead"}]
      BY <3>1 DEF LocalKinds
    <3> QED BY <2>6, <3>3, <3>4 DEF EndAgain, LocalKinds
  <2>7. CASE Join(c)
    <3>1. PICK b \in BOOLEAN : caller' = [caller EXCEPT ![c].pc = "answer", ![c].proven = b]
      <4>1. (caller[c].proven /\ caller[c].snapshot \subseteq Settled(c) /\ registry' = {}) \in BOOLEAN
        BY Zenon
      <4> QED BY <2>7, <4>1, Zenon DEF Join
    <3>2. caller' \in [Caller -> CallerLocals]
      BY <3>1, <2>0 DEF LocalKinds, CallerLocals, CallerPc
    <3> QED BY <2>7, <3>2 DEF Join, LocalKinds
  <2>8. CASE Answer(c)
    <3>1. caller' \in [Caller -> CallerLocals]
      BY <2>8, IdleIs DEF Answer, LocalKinds
    <3>2. marks' \in [Turn -> {0, 1}] /\ active' \in Turn \cup {NoTurn}
      BY <2>0, <2>8, CloseKeepsKinds DEF Answer, LocalKinds
    <3> QED BY <2>8, <3>1, <3>2 DEF Answer, LocalKinds
  <2> QED BY <1>3, <2>1, <2>2, <2>3, <2>4, <2>5, <2>6, <2>7, <2>8 DEF CallerStep
<1> QED BY <1>1, <1>2, <1>3

(***************************************************************************)
(* The turn.                                                               *)
(***************************************************************************)
\* A turn that is closed was unmarked and active, or nothing changes.
LEMMA CloseKeepsTurn ==
    ASSUME LocalKinds, TurnInv, NEW t \in Turn, CloseTurn(t), t = worker.turn, worker.pc # "idle", ~Opening
    PROVE  /\ active' = NoTurn
           /\ \A u \in Turn : u # t => marks'[u] = marks[u]
BY DEF CloseTurn, TurnInv, LocalKinds, NoTurn

LEMMA WorkerKeepsTurn ==
    ASSUME LocalConstantsOK, LocalKinds, TurnInv, WorkerStep
    PROVE  TurnInv'
<1> USE DEF flags, tools, calls
<1>0. /\ worker \in WorkerLocals /\ MaxTurns \in Nat /\ worker.turn \in 0 .. MaxTurns
      /\ marks \in [Turn -> {0, 1}] /\ active \in Turn \cup {NoTurn}
  BY Numbers DEF LocalKinds, WorkerLocals
<1>1. ASSUME EndTurn, worker.pc # "idle", ~Opening PROVE TurnInv'
  <2>1. worker.turn \in Turn
    BY <1>1 DEF TurnInv
  <2>2. worker'.pc = "idle" /\ worker'.turn = worker.turn
    BY <1>1 DEF EndTurn, IdleWorker
  <2>3. active' = NoTurn /\ \A u \in Turn : u # worker.turn => marks'[u] = marks[u]
    BY <1>1, <2>1, CloseKeepsTurn DEF EndTurn
  <2> QED BY <1>0, <2>1, <2>2, <2>3 DEF TurnInv, Opening, Turn
\* Steps between the first look and the last marker move neither turn nor marks.
<1>2. ASSUME UNCHANGED <<active, marks>>, worker'.turn = worker.turn, worker'.pc # "idle",
             worker.pc # "idle", Opening' <=> Opening
      PROVE  TurnInv'
  BY <1>0, <1>2 DEF TurnInv
<1>3. CASE Look
  <2>1. worker'.pc = "clear" /\ worker'.turn = worker.turn + 1 /\ worker.turn + 1 \in Turn
    BY <1>0, <1>3 DEF Look, IdleWorker, Turn
  <2> QED BY <1>0, <1>3, <2>1 DEF Look, TurnInv, Opening, Turn
<1>4. CASE Unprovided
  <2>1. worker'.pc = "idle" /\ worker'.turn = worker.turn
    BY <1>4 DEF Unprovided, IdleWorker
  <2> QED BY <1>0, <1>4, <2>1 DEF Unprovided, TurnInv, Opening
<1>5. CASE ClearFlag
  BY <1>0, <1>2, <1>5 DEF ClearFlag, Opening, WorkerLocals
<1>6. CASE ClearSteers
  BY <1>0, <1>2, <1>6 DEF ClearSteers, Opening, WorkerLocals
<1>7. CASE OpenTurn
  <2>1. worker'.pc = "top" /\ worker'.turn = worker.turn /\ worker.turn \in Turn
    BY <1>0, <1>7 DEF OpenTurn, TurnInv, WorkerLocals
  <2> QED BY <1>0, <1>7, <2>1 DEF OpenTurn, TurnInv, Opening
<1>8. CASE Top
  <2>1. CASE worker' = [worker EXCEPT !.pc = "chat"] /\ UNCHANGED <<active, marks>>
    BY <1>0, <1>2, <1>8, <2>1 DEF Top, Opening, WorkerLocals
  <2> QED BY <1>1, <1>8, <2>1 DEF Top, Opening
<1>9. CASE ModelEnds \/ Fatal
  BY <1>1, <1>9 DEF ModelEnds, Fatal, Opening
<1>10. CASE ModelGoesOn
  BY <1>0, <1>2, <1>10 DEF ModelGoesOn, Opening, WorkerLocals
<1>11. CASE Spawn
  BY <1>0, <1>2, <1>11 DEF Spawn, Opening, WorkerLocals
<1>12. CASE SpawnFails
  BY <1>0, <1>2, <1>12 DEF SpawnFails, Opening, WorkerLocals
<1>13. CASE Register
  BY <1>0, <1>2, <1>13 DEF Register, Opening, WorkerLocals
<1>14. CASE WaitEnds
  BY <1>0, <1>2, <1>14 DEF WaitEnds, Opening, WorkerLocals
<1>15. CASE Complete
  BY <1>0, <1>2, <1>15 DEF Complete, Opening, WorkerLocals
<1>16. CASE ToolReturns
  BY <1>0, <1>2, <1>16 DEF ToolReturns, Opening, WorkerLocals
<1> QED BY <1>3, <1>4, <1>5, <1>6, <1>7, <1>8, <1>9, <1>10, <1>11, <1>12, <1>13, <1>14, <1>15,
           <1>16 DEF WorkerStep

\* Of the requests only a kill closes a turn.
LEMMA OthersKeepTurn ==
    ASSUME LocalKinds, TurnInv, ProcessEnds \/ (\E c \in Caller : CallerStep(c)) \/ UNCHANGED localVars
    PROVE  TurnInv'
<1>1. ASSUME UNCHANGED <<active, marks, worker>> PROVE TurnInv'
  BY <1>1 DEF TurnInv, Opening
<1>2. ASSUME NEW c \in Caller, CallerStep(c) PROVE TurnInv'
  <2>1. CASE UNCHANGED <<active, marks, worker>>
    BY <1>1, <2>1
  <2>2. CASE Answer(c) /\ active # NoTurn /\ CloseTurn(active)
    <3>1. active \in Turn /\ active = worker.turn /\ worker.pc # "idle" /\ ~Opening
      BY <2>2 DEF LocalKinds, TurnInv
    <3>2. UNCHANGED worker /\ active' = NoTurn /\ \A u \in Turn : u # worker.turn => marks'[u] = marks[u]
      BY <2>2, <3>1, CloseKeepsTurn DEF Answer
    <3>3. worker.turn \in 0 .. MaxTurns
      BY DEF LocalKinds, WorkerLocals
    <3> QED BY <3>1, <3>2, <3>3 DEF TurnInv, Opening, Turn
  <2>3. \/ UNCHANGED <<active, marks, worker>>
        \/ Answer(c) /\ active # NoTurn /\ CloseTurn(active)
    BY <1>2 DEF CallerStep, Call, AppendSteer, SetFlag, Snapshot, EndOne, EndAgain, Join, Answer
  <2> QED BY <2>1, <2>2, <2>3
<1> QED BY <1>1, <1>2 DEF ProcessEnds, localVars

(***************************************************************************)
(* The processes of the gateway.                                           *)
(***************************************************************************)
\* What was started stays started, what is dead stays dead, what completed
\* stays completed.
Progresses ==
    /\ \A p \in Process : /\ process[p] # "none" => process'[p] # "none"
                          /\ process[p] = "dead" => process'[p] = "dead"
    /\ done \subseteq done'

\* Processes end and nothing else happens to them.
Ends ==
    /\ \A p \in Process : process'[p] = process[p] \/ (process[p] # "none" /\ process'[p] = "dead")
    /\ UNCHANGED <<registry, done>>

LEMMA EndsKeepsProcesses ==
    ASSUME LocalKinds, ProcessInv, Ends, UNCHANGED worker,
           \A p \in canceled' : p \in canceled \/ process[p] # "none", canceled' \subseteq Process
    PROVE  ProcessInv' /\ Progresses
BY DEF LocalKinds, Ends, ProcessInv, Progresses, Alive

\* The worker's steps away from its process leave the gateway alone.
LEMMA LoopKeepsProcesses ==
    ASSUME LocalKinds, ProcessInv, UNCHANGED tools,
           worker.pc # "register",
           \/ worker'.pc \notin {"register", "wait", "complete", "return"}
           \/ worker'.pc = "return" /\ worker.pc = "complete" /\ worker'.process = worker.process
    PROVE  ProcessInv' /\ Progresses
BY DEF LocalKinds, ProcessInv, Progresses, Alive, tools

LEMMA WorkerKeepsProcesses ==
    ASSUME LocalConstantsOK, LocalKinds, ProcessInv, WorkerStep
    PROVE  ProcessInv' /\ Progresses
<1> USE DEF flags, tools, calls
<1>0. worker \in WorkerLocals /\ process \in [Process -> {"none", "alive", "dead"}]
  BY DEF LocalKinds
<1>1. CASE Look \/ Unprovided \/ ModelEnds \/ Fatal
  BY <1>1, LoopKeepsProcesses DEF Look, Unprovided, ModelEnds, Fatal, EndTurn, IdleWorker
<1>2. CASE ClearFlag \/ ClearSteers \/ OpenTurn \/ SpawnFails
  BY <1>0, <1>2, LoopKeepsProcesses DEF ClearFlag, ClearSteers, OpenTurn, SpawnFails, WorkerLocals
<1>3. CASE Top
  BY <1>0, <1>3, LoopKeepsProcesses DEF Top, EndTurn, IdleWorker, WorkerLocals
<1>4. CASE ModelGoesOn
  BY <1>0, <1>4, LoopKeepsProcesses DEF ModelGoesOn, WorkerLocals
<1>5. CASE ToolReturns
  BY <1>0, <1>5, LoopKeepsProcesses DEF ToolReturns, WorkerLocals
<1>6. CASE Spawn
  <2>1. PICK p \in Process :
           /\ process[p] = "none" /\ process' = [process EXCEPT ![p] = "alive"]
           /\ worker' = [worker EXCEPT !.pc = "register", !.process = p]
    BY <1>6 DEF Spawn
  <2>2. worker'.pc = "register" /\ worker'.process = p /\ worker.pc = "spawn"
    BY <1>0, <1>6, <2>1 DEF Spawn, WorkerLocals
  <2> QED BY <1>0, <1>6, <2>1, <2>2 DEF Spawn, ProcessInv, Progresses, Alive, LocalKinds
<1>7. CASE Register
  <2>1. worker'.pc = "wait" /\ worker'.process = worker.process /\ worker.pc = "register"
    BY <1>0, <1>7 DEF Register, WorkerLocals
  <2> QED BY <1>0, <1>7, <2>1 DEF Register, ProcessInv, Progresses, Alive, LocalKinds
<1>8. CASE WaitEnds
  <2>1. /\ worker'.pc = "complete" /\ worker'.process = worker.process /\ worker.pc = "wait"
        /\ process' \in {process, [process EXCEPT ![worker.process] = "dead"]}
    BY <1>0, <1>8 DEF WaitEnds, WorkerLocals
  <2> QED BY <1>0, <1>8, <2>1 DEF WaitEnds, ProcessInv, Progresses, Alive, LocalKinds
<1>9. CASE Complete
  <2>1. PICK proven \in BOOLEAN :
           /\ proven => worker.process \notin Alive
           /\ done' = done \cup {worker.process} /\ registry' = Remaining(proven)
    BY <1>9 DEF Complete
  <2>2. worker'.pc = "return" /\ worker'.process = worker.process /\ worker.pc = "complete"
    BY <1>0, <1>9 DEF Complete, WorkerLocals
  <2> QED BY <1>0, <1>9, <2>1, <2>2 DEF Complete, Remaining, ProcessInv, Progresses, Alive, LocalKinds
<1> QED BY <1>1, <1>2, <1>3, <1>4, <1>5, <1>6, <1>7, <1>8, <1>9 DEF WorkerStep

LEMMA OthersKeepProcesses ==
    ASSUME LocalKinds, ProcessInv, CallerInv,
           ProcessEnds \/ (\E c \in Caller : CallerStep(c)) \/ UNCHANGED localVars
    PROVE  ProcessInv' /\ Progresses
<1> USE DEF flags, tools, calls
<1>0. process \in [Process -> {"none", "alive", "dead"}] /\ canceled \subseteq Process
  BY DEF LocalKinds
<1>1. ASSUME UNCHANGED <<worker, tools>> PROVE ProcessInv' /\ Progresses
  BY <1>1 DEF ProcessInv, Progresses, Alive
<1>2. CASE ProcessEnds
  BY <1>0, <1>2, EndsKeepsProcesses DEF ProcessEnds, Ends, Alive
<1>3. ASSUME NEW c \in Caller, CallerStep(c) PROVE ProcessInv' /\ Progresses
  <2>0. caller[c].snapshot \subseteq Process /\ \A p \in caller[c].snapshot : process[p] # "none"
    BY DEF LocalKinds, CallerLocals, CallerInv
  <2>1. CASE EndOne(c)
    <3>1. PICK p \in caller[c].snapshot \ canceled :
             /\ canceled' = canceled \cup {p}
             /\ process' \in {process, [process EXCEPT ![p] = "dead"]}
      BY <2>1 DEF EndOne
    <3>2. Ends
      BY <1>0, <2>0, <2>1, <3>1 DEF EndOne, Ends
    <3> QED BY <1>0, <2>0, <2>1, <3>1, <3>2, EndsKeepsProcesses DEF EndOne
  <2>2. CASE EndAgain(c)
    <3>1. PICK survivors : process' = [p \in Process |->
                               IF p \in caller[c].snapshot \ survivors THEN "dead" ELSE process[p]]
      BY <2>2 DEF EndAgain
    <3>2. Ends
      BY <1>0, <2>0, <2>2, <3>1 DEF EndAgain, Ends
    <3> QED BY <1>0, <2>2, <3>2, EndsKeepsProcesses DEF EndAgain
  <2>3. CASE Join(c)
    BY <1>0, <2>3 DEF Join, Settled, ProcessInv, Progresses, Alive
  <2>4. CASE Call(c) \/ AppendSteer(c) \/ SetFlag(c) \/ Snapshot(c) \/ Answer(c)
    BY <1>1, <2>4 DEF Call, AppendSteer, SetFlag, Snapshot, Answer
  <2> QED BY <1>3, <2>1, <2>2, <2>3, <2>4 DEF CallerStep
<1> QED BY <1>1, <1>2, <1>3 DEF localVars

(***************************************************************************)
(* The requests.                                                           *)
(***************************************************************************)
\* What a request knows of processes stays true while it does not move.
LEMMA KnownStaysKnown ==
    ASSUME LocalKinds, CallerInv, Progresses, NEW c \in Caller, caller'[c] = caller[c]
    PROVE  (\A p \in caller'[c].snapshot : process'[p] # "none") /\ Proves(caller[c])'
BY DEF LocalKinds, CallerLocals, CallerInv, Proves, Progresses

LEMMA RequestsKept ==
    ASSUME LocalKinds, ProcessInv, CallerInv, Progresses, [LocalNext]_localVars
    PROVE  CallerInv'
<1> USE DEF flags, tools, calls
<1>1. ASSUME NEW d \in Caller, caller'[d] = caller[d]
      PROVE  (\A p \in caller'[d].snapshot : process'[p] # "none") /\ Proves(caller[d])'
  BY <1>1, KnownStaysKnown
<1>2. ASSUME UNCHANGED caller PROVE CallerInv'
  BY <1>1, <1>2 DEF CallerInv
<1>3. CASE WorkerStep
  BY <1>2, <1>3 DEF WorkerStep, Look, Unprovided, ClearFlag, ClearSteers, OpenTurn, Top, ModelEnds,
     ModelGoesOn, Spawn, SpawnFails, Register, WaitEnds, Complete, ToolReturns, Fatal
<1>4. CASE ProcessEnds \/ UNCHANGED localVars
  BY <1>2, <1>4 DEF ProcessEnds, localVars
<1>5. ASSUME NEW c \in Caller, CallerStep(c) PROVE CallerInv'
  <2>0. /\ caller \in [Caller -> CallerLocals] /\ caller[c] \in CallerLocals
        /\ caller[c].snapshot \subseteq Process /\ \A p \in caller[c].snapshot : process'[p] # "none"
    BY DEF LocalKinds, CallerLocals, CallerInv, Progresses
  \* The others stand still, so it is enough that this one knows the truth.
  <2>1. ASSUME NEW k, caller' = [caller EXCEPT ![c] = k], \A p \in k.snapshot : process'[p] # "none",
               Proves(k)'
        PROVE  CallerInv'
    <3>1. caller'[c] = k /\ \A d \in Caller : d # c => caller'[d] = caller[d]
      BY <2>0, <2>1
    <3>2. Proves(caller[c])'
      BY <2>1, <3>1 DEF Proves
    <3> QED BY <1>1, <2>1, <3>1, <3>2 DEF CallerInv
  <2>2. ASSUME NEW k, caller' = [caller EXCEPT ![c] = k], k.pc # "answer", k.snapshot \subseteq caller[c].snapshot
        PROVE  CallerInv'
    BY <2>0, <2>1, <2>2 DEF Proves
  <2>3. CASE Call(c)
    <3>1. PICK k \in {[IdleCaller EXCEPT !.op = "steer", !.pc = "append", !.saw = active],
                      [IdleCaller EXCEPT !.op = "interrupt", !.pc = "flag"],
                      [IdleCaller EXCEPT !.op = "close", !.pc = "cancel"],
                      [IdleCaller EXCEPT !.op = "kill", !.pc = "flag"]} :
             caller' = [caller EXCEPT ![c] = k]
      BY <2>3 DEF Call
    <3>2. k.pc # "answer" /\ k.snapshot = {}
      BY <3>1 DEF IdleCaller
    <3> QED BY <2>2, <3>1, <3>2
  <2>4. CASE AppendSteer(c) \/ Answer(c)
    <3>1. Over.pc # "answer" /\ Over.snapshot = {}
      BY DEF Over, IdleCaller
    <3> QED BY <2>2, <2>4, <3>1 DEF AppendSteer, Answer
  <2>5. CASE SetFlag(c)
    <3>1. caller' = [caller EXCEPT ![c] = [caller[c] EXCEPT !.pc = "cancel"]]
      BY <2>0, <2>5 DEF SetFlag, Goes
    <3>2. [caller[c] EXCEPT !.pc = "cancel"].pc = "cancel"
          /\ [caller[c] EXCEPT !.pc = "cancel"].snapshot = caller[c].snapshot
      BY <2>0 DEF CallerLocals
    <3> QED BY <2>2, <3>1, <3>2
  <2>6. CASE Snapshot(c)
    <3>1. PICK k : k = [caller[c] EXCEPT !.pc = "end", !.snapshot = registry]
      OBVIOUS
    <3>2. caller' = [caller EXCEPT ![c] = k] /\ k.pc = "end" /\ k.snapshot = registry
      BY <2>0, <2>6, <3>1 DEF Snapshot, CallerLocals
    <3>3. \A p \in registry : process'[p] # "none"
      BY DEF LocalKinds, ProcessInv, Progresses
    <3> QED BY <2>1, <3>2, <3>3 DEF Proves
  <2>7. CASE EndOne(c)
    <3>1. CASE UNCHANGED caller
      BY <1>2, <3>1
    <3>2. CASE caller' = [caller EXCEPT ![c].proven = FALSE]
      <4>1. PICK k : k = [caller[c] EXCEPT !.proven = FALSE]
        OBVIOUS
      <4>2. caller' = [caller EXCEPT ![c] = k] /\ k.pc = "end" /\ k.snapshot = caller[c].snapshot
        BY <2>0, <2>7, <3>2, <4>1 DEF EndOne, CallerLocals
      <4> QED BY <2>2, <4>2
    <3> QED BY <2>7, <3>1, <3>2 DEF EndOne
  <2>8. CASE EndAgain(c)
    <3>1. PICK b : caller' = [caller EXCEPT ![c].pc = "join", ![c].proven = b]
      BY <2>8 DEF EndAgain
    <3>2. PICK k : k = [caller[c] EXCEPT !.pc = "join", !.proven = b]
      OBVIOUS
    <3>3. caller' = [caller EXCEPT ![c] = k] /\ k.pc = "join" /\ k.snapshot = caller[c].snapshot
      BY <2>0, <3>1, <3>2 DEF CallerLocals
    <3> QED BY <2>2, <3>3
  <2>9. CASE Join(c)
    <3>1. PICK b \in BOOLEAN : /\ caller' = [caller EXCEPT ![c].pc = "answer", ![c].proven = b]
                               /\ b => caller[c].snapshot \subseteq Settled(c)
      <4>1. (caller[c].proven /\ caller[c].snapshot \subseteq Settled(c) /\ registry' = {}) \in BOOLEAN
        BY Zenon
      <4> QED BY <2>9, <4>1, Zenon DEF Join
    <3>2. PICK k : k = [caller[c] EXCEPT !.pc = "answer", !.proven = b]
      OBVIOUS
    <3>3. caller' = [caller EXCEPT ![c] = k] /\ k.snapshot = caller[c].snapshot
      BY <2>0, <3>1, <3>2 DEF CallerLocals
    <3>4. k.proven => caller[c].snapshot \subseteq Settled(c)
      <4>1. k.proven = b
        BY <2>0, <3>2, Zenon DEF CallerLocals
      <4> QED BY <3>1, <4>1, Zenon
    <3>5. ASSUME NEW p \in caller[c].snapshot, p \in Settled(c) PROVE process'[p] = "dead" /\ p \in done'
      <4>1. process' = process /\ done' = done /\ p \in Process
        BY <2>0, <2>9 DEF Join
      <4> QED BY <2>0, <3>5, <4>1 DEF Settled, Alive, LocalKinds
    <3>6. k.proven => \A p \in k.snapshot : process'[p] = "dead" /\ p \in done'
      <4> HIDE DEF Settled
      <4> QED BY <3>3, <3>4, <3>5
    <3> QED BY <2>0, <2>1, <3>3, <3>6 DEF Proves
  <2> QED BY <1>5, <2>3, <2>4, <2>5, <2>6, <2>7, <2>8, <2>9 DEF CallerStep
<1> QED BY <1>3, <1>4, <1>5 DEF LocalNext

----------------------------------------------------------------------------
\* At the start nothing runs, is registered or is asked for.
LEMMA LocalInitInv == ASSUME LocalConstantsOK, LocalInit PROVE LocalInv
<1>1. IdleWorker \in WorkerLocals /\ IdleCaller \in CallerLocals
  BY IdleIs
<1>2. LocalKinds
  BY <1>1 DEF LocalInit, LocalKinds, NoTurn
<1>3. TurnInv /\ ProcessInv
  BY DEF LocalInit, TurnInv, ProcessInv, Opening, IdleWorker, Alive, NoTurn
<1>4. CallerInv
  BY DEF LocalInit, CallerInv, Proves, IdleCaller
<1> QED BY <1>2, <1>3, <1>4 DEF LocalInv

\* Turn, kill, interrupt and gateway of the local adapter stay related as LocalInv says
\* wherever each caller stands (local_llm.py, the gateway's cancel_all).
THEOREM LocalInvHolds ==
    ASSUME LocalConstantsOK
    PROVE  LocalSpec => []LocalInv
<1>1. LocalInit => LocalInv
  BY LocalInitInv
<1>2. LocalInv /\ [LocalNext]_localVars => LocalInv'
  <2> SUFFICES ASSUME LocalInv, [LocalNext]_localVars PROVE LocalInv'
    OBVIOUS
  <2>1. WorkerStep \/ ProcessEnds \/ (\E c \in Caller : CallerStep(c)) \/ UNCHANGED localVars
    BY DEF LocalNext
  <2>2. LocalKinds'
    BY <2>1, WorkerKeepsKinds, LocalOthersKeepKinds DEF LocalInv
  <2>3. TurnInv'
    BY <2>1, WorkerKeepsTurn, OthersKeepTurn DEF LocalInv
  <2>4. ProcessInv' /\ Progresses
    BY <2>1, WorkerKeepsProcesses, OthersKeepProcesses DEF LocalInv
  <2>5. CallerInv'
    BY <2>4, RequestsKept DEF LocalInv
  <2> QED BY <2>2, <2>3, <2>4, <2>5 DEF LocalInv
<1> QED BY <1>1, <1>2, PTL DEF LocalSpec

\* The adapter's flags, its processes and its callers keep their types.
THEOREM LocalTypeCorrect ==
    ASSUME LocalConstantsOK
    PROVE  LocalSpec => []LocalTypeOK
<1>1. LocalInv => LocalTypeOK
  <2> SUFFICES ASSUME LocalKinds PROVE LocalTypeOK
    BY DEF LocalInv
  <2>1. \A c \in Caller : caller[c].snapshot \subseteq Process
    BY DEF LocalKinds, CallerLocals
  <2> QED BY <2>1 DEF LocalKinds, LocalTypeOK
<1> QED BY <1>1, LocalInvHolds, PTL

\* For any requests at any point of a turn: a process that may run is known to the
\* gateway, whoever answers that termination is proven left nothing running, a turn
\* has one terminal marker, and a tool call that was stopped does not go on.
THEOREM StopsAreProven ==
    ASSUME LocalConstantsOK
    PROVE  LocalSpec => []StopIsProven
<1>1. LocalInv => StopIsProven
  <2> SUFFICES ASSUME LocalInv PROVE StopIsProven
    OBVIOUS
  <2>1. \A p \in Alive : p \in registry \/ (worker.process = p /\ worker.pc = "register")
    BY DEF LocalInv, ProcessInv
  <2>2. ASSUME NEW c \in Caller, caller[c].pc = "answer", caller[c].proven
        PROVE  /\ caller[c].snapshot \cap Alive = {}
               /\ ~(worker.process \in caller[c].snapshot /\ worker.pc = "wait")
    BY <2>2 DEF LocalInv, CallerInv, Proves, ProcessInv, Alive
  <2>3. \A t \in Turn : marks[t] <= 1
    BY DEF LocalInv, LocalKinds
  <2>4. active # NoTurn => active = worker.turn /\ marks[active] = 0
    BY DEF LocalInv, TurnInv
  <2> QED BY <2>1, <2>2, <2>3, <2>4 DEF StopIsProven
<1> QED BY <1>1, LocalInvHolds, PTL

----------------------------------------------------------------------------
(***************************************************************************)
(* The life of daemon processes.                                           *)
(***************************************************************************)
Steps == [by : Daemon \cup {NoDaemon}, at : {"absent", "inserted", "owned", "driven", "ended", "done"}]

\* The types of everything the steps read.
DaemonKinds ==
    /\ pc \in [Daemon -> Places] /\ pid \in [Daemon -> Pid] /\ strangers \in SUBSET Pid
    /\ lock \in Daemon \cup {NoDaemon} /\ pidfile \in Daemon \cup {NoDaemon}
    /\ token \in Daemon \cup {NoDaemon} /\ endpoint \in Daemon \cup {NoDaemon} /\ bound \in SUBSET Daemon
    /\ run \in [Row -> {"none", "open", "ended", "swept"}]
    /\ owner \in [Row -> Daemon \cup {NoDaemon}] /\ step \in [Row -> Steps]
    /\ todo \in [Daemon -> SUBSET (Row \X Daemon)] /\ at \in [Daemon -> Row \cup {NoRow}]

\* No two processes that run have one id.
PidInv == \A d1, d2 \in Running : pid[d1] = pid[d2] => d1 = d2

\* From the lock on a daemon is alone, and what it has published stays.
Swept == {"scan", "sweep", "clear", "listen", "serve"}
Locked == {"check", "token", "stop", "quiesce", "release", "unpublish", "unlock"} \cup Swept

ClaimInv ==
    \A d \in Daemon :
       /\ pc[d] \in Locked => lock = d
       /\ pc[d] \in {"token"} \cup Swept => pidfile = d
       /\ pc[d] \in Swept => token = d
       /\ pc[d] = "serve" => endpoint = d

\* The process that started a run is over.
StarterGone(r) == step[r].by \in Daemon /\ pc[step[r].by] = "gone"

\* A run has a starter, which has run; registry and sweeps name nobody else; a
\* sweep is about to finalize, and has finalized, what a process left that is gone.
RunInv ==
    /\ \A r \in Row : /\ step[r].by = NoDaemon \/ pc[step[r].by] # "off"
                      /\ run[r] = "none" => step[r].by = NoDaemon
                      /\ owner[r] # NoDaemon => owner[r] = step[r].by
                      /\ run[r] = "swept" => StarterGone(r)
    /\ \A d \in Daemon : /\ \A entry \in todo[d] : entry[2] = step[entry[1]].by
                         /\ at[d] # NoRow => StarterGone(at[d])

DaemonInv == DaemonKinds /\ PidInv /\ ClaimInv /\ RunInv

----------------------------------------------------------------------------
\* Every place a daemon goes to is one.
LEMMA PlaceNames ==
    /\ "off" \in Places /\ "lock" \in Places /\ "check" \in Places /\ "token" \in Places
    /\ "scan" \in Places /\ "sweep" \in Places /\ "clear" \in Places /\ "listen" \in Places
    /\ "serve" \in Places /\ "stop" \in Places /\ "quiesce" \in Places /\ "release" \in Places
    /\ "unpublish" \in Places /\ "unlock" \in Places /\ "exit" \in Places /\ "gone" \in Places
BY DEF Places

LEMMA FreedIs ==
    ASSUME NEW d, NEW x \in Daemon \cup {NoDaemon}
    PROVE  Freed(x, d) \in Daemon \cup {NoDaemon}
BY DEF Freed

(***************************************************************************)
(* Types.                                                                  *)
(***************************************************************************)
\* What one daemon does ...
DaemonStep(d) ==
    \/ Start(d) \/ Die(d) \/ AcquireLock(d) \/ DenyBoot(d)
    \/ PublishPidfile(d) \/ PublishToken(d) \/ PublishFails(d)
    \/ LoadOwnership(d) \/ SweepOne(d) \/ ForceFinalize(d) \/ ClearSwept(d)
    \/ EndSweep(d) \/ StartLoopback(d)
    \/ Quiesce(d) \/ ShutdownDriven(d) \/ StopLoopback(d) \/ ReleaseInstance(d)

\* ... and what happens to one run.
RunStep(r) ==
    RecordOwnership(r) \/ RegisterDriven(r) \/ EndRun(r) \/ ClearOwnership(r) \/ FinalizeByHand(r)

LEMMA NextIs ==
    [DaemonNext]_daemonVars =>
        \/ StrangerStarts \/ StrangerEnds \/ UNCHANGED daemonVars
        \/ \E d \in Daemon : DaemonStep(d)
        \/ \E d \in Daemon, r \in Row : StartRun(d, r)
        \/ \E r \in Row : RunStep(r)
BY DEF DaemonNext, DaemonStep, RunStep

LEMMA DaemonKeepsKinds ==
    ASSUME DaemonKinds, NEW d \in Daemon, DaemonStep(d)
    PROVE  DaemonKinds'
<1> USE PlaceNames, FreedIs DEF files, runs, Move
<1>0. todo[d] \subseteq Row \X Daemon /\ at[d] \in Row \cup {NoRow}
  BY DEF DaemonKinds
<1>1. CASE Start(d)
  BY <1>1 DEF Start, DaemonKinds
<1>2. CASE Die(d)
  BY <1>2 DEF Die, DaemonKinds
<1>3. CASE AcquireLock(d)
  BY <1>3 DEF AcquireLock, DaemonKinds
<1>4. CASE DenyBoot(d)
  BY <1>4 DEF DenyBoot, DaemonKinds
<1>5. CASE PublishPidfile(d) \/ PublishToken(d)
  BY <1>5 DEF PublishPidfile, PublishToken, DaemonKinds
<1>6. CASE PublishFails(d)
  BY <1>6 DEF PublishFails, DaemonKinds
<1>7. CASE LoadOwnership(d)
  <2>1. {<<r, owner[r]>> : r \in {r \in Row : owner[r] # NoDaemon}} \subseteq Row \X Daemon
    BY DEF DaemonKinds
  <2> QED BY <1>7, <2>1 DEF LoadOwnership, DaemonKinds
<1>8. CASE SweepOne(d)
  <2>1. PICK entry \in todo[d] :
           /\ todo' = [todo EXCEPT ![d] = @ \ {entry}]
           /\ at' \in {[at EXCEPT ![d] = entry[1]], [at EXCEPT ![d] = NoRow]}
           /\ owner' \in {owner, [owner EXCEPT ![entry[1]] = NoDaemon]}
    BY <1>8 DEF SweepOne
  <2>2. entry[1] \in Row
    BY <1>0
  <2> QED BY <1>8, <2>1, <2>2 DEF SweepOne, DaemonKinds
<1>9. CASE ForceFinalize(d) \/ ClearSwept(d)
  BY <1>0, <1>9 DEF ForceFinalize, ClearSwept, DaemonKinds
<1>10. CASE EndSweep(d) \/ StartLoopback(d) \/ Quiesce(d)
  BY <1>10 DEF EndSweep, StartLoopback, Quiesce, DaemonKinds
<1>11. CASE ShutdownDriven(d)
  <2>1. {<<r, d>> : r \in {r \in Row : step[r] = [by |-> d, at |-> "driven"]}} \subseteq Row \X Daemon
    OBVIOUS
  <2> QED BY <1>11, <2>1 DEF ShutdownDriven, DaemonKinds
<1>12. CASE StopLoopback(d)
  BY <1>12 DEF StopLoopback, DaemonKinds
<1>13. CASE ReleaseInstance(d)
  BY <1>13 DEF ReleaseInstance, DaemonKinds
<1> QED BY <1>1, <1>2, <1>3, <1>4, <1>5, <1>6, <1>7, <1>8, <1>9, <1>10, <1>11, <1>12, <1>13 DEF DaemonStep

LEMMA DaemonOthersKeepKinds ==
    ASSUME DaemonKinds,
           \/ StrangerStarts \/ StrangerEnds \/ UNCHANGED daemonVars
           \/ \E d \in Daemon, r \in Row : StartRun(d, r)
           \/ \E r \in Row : RunStep(r)
    PROVE  DaemonKinds'
<1> USE DEF files, runs
<1>1. CASE StrangerStarts \/ StrangerEnds \/ UNCHANGED daemonVars
  BY <1>1 DEF StrangerStarts, StrangerEnds, daemonVars, DaemonKinds
<1>2. ASSUME NEW d \in Daemon, NEW r \in Row, StartRun(d, r) PROVE DaemonKinds'
  <2>1. [by |-> d, at |-> "inserted"] \in Steps
    BY DEF Steps
  <2> QED BY <1>2, <2>1 DEF StartRun, DaemonKinds
<1>3. ASSUME NEW r \in Row, RunStep(r) PROVE DaemonKinds'
  <2>0. step[r] \in Steps
    BY DEF DaemonKinds
  <2>1. \A a \in {"owned", "driven", "ended", "done"} : [step[r] EXCEPT !.at = a] \in Steps
    BY <2>0 DEF Steps
  <2>2. step[r].by \in Daemon \cup {NoDaemon}
    BY <2>0 DEF Steps
  <2>3. \A a : [step EXCEPT ![r].at = a] = [step EXCEPT ![r] = [step[r] EXCEPT !.at = a]]
    BY DEF DaemonKinds
  <2>4. CASE RecordOwnership(r)
    BY <2>1, <2>2, <2>3, <2>4 DEF RecordOwnership, DaemonKinds
  <2>5. CASE RegisterDriven(r)
    BY <2>1, <2>3, <2>5 DEF RegisterDriven, DaemonKinds
  <2>6. CASE EndRun(r)
    BY <2>1, <2>3, <2>6 DEF EndRun, DaemonKinds
  <2>7. CASE ClearOwnership(r)
    BY <2>1, <2>3, <2>7 DEF ClearOwnership, DaemonKinds
  <2>8. CASE FinalizeByHand(r)
    BY <2>8 DEF FinalizeByHand, DaemonKinds
  <2> QED BY <1>3, <2>4, <2>5, <2>6, <2>7, <2>8 DEF RunStep
<1> QED BY <1>1, <1>2, <1>3

(***************************************************************************)
(* The ids of processes.                                                   *)
(***************************************************************************)
\* Only a start gives an id away, and gives one nobody has.
LEMMA PidKept ==
    ASSUME DaemonKinds, PidInv, [DaemonNext]_daemonVars
    PROVE  PidInv'
<1> USE DEF files, runs, Move
<1>1. ASSUME NEW d \in Daemon, Start(d) PROVE PidInv'
  <2>1. PICK p \in Pid : ~PidAlive(p) /\ pid' = [pid EXCEPT ![d] = p]
    BY <1>1 DEF Start
  <2>2. pc' = [pc EXCEPT ![d] = "lock"] /\ Running' = Running \cup {d}
    BY <1>1 DEF Start, Running, DaemonKinds
  <2> QED BY <2>1, <2>2 DEF PidInv, PidAlive, DaemonKinds, Running
<1>2. ASSUME UNCHANGED pid, \A d \in Daemon : pc'[d] = pc[d] \/ pc'[d] = "gone" \/ d \in Running
      PROVE  PidInv'
  BY <1>2 DEF PidInv, Running
<1>3. ASSUME NEW d \in Daemon, DaemonStep(d), ~Start(d) PROVE PidInv'
  <2>1. pc \in [Daemon -> Places]
    BY DEF DaemonKinds
  <2>2. UNCHANGED pid
    BY <1>3 DEF DaemonStep, Die, AcquireLock, DenyBoot, PublishPidfile, PublishToken, PublishFails,
       LoadOwnership, SweepOne, ForceFinalize, ClearSwept, EndSweep, StartLoopback, Quiesce,
       ShutdownDriven, StopLoopback, ReleaseInstance
  <2>3. d \in Running /\ (UNCHANGED pc \/ \E p : pc' = [pc EXCEPT ![d] = p])
    BY <1>3 DEF DaemonStep, Die, AcquireLock, DenyBoot, PublishPidfile, PublishToken, PublishFails,
       LoadOwnership, SweepOne, ForceFinalize, ClearSwept, EndSweep, StartLoopback, Quiesce,
       ShutdownDriven, StopLoopback, ReleaseInstance, Running
  <2>4. \A e \in Daemon : e # d => pc'[e] = pc[e]
    BY <2>1, <2>3
  <2> QED BY <1>2, <2>2, <2>3, <2>4
<1>4. ASSUME UNCHANGED <<pc, pid>> PROVE PidInv'
  BY <1>4 DEF PidInv, Running
<1>5. ASSUME NEW d \in Daemon, NEW r \in Row, StartRun(d, r) PROVE PidInv'
  BY <1>4, <1>5 DEF StartRun
<1>6. ASSUME NEW r \in Row, RunStep(r) PROVE PidInv'
  BY <1>4, <1>6 DEF RunStep, RecordOwnership, RegisterDriven, EndRun, ClearOwnership, FinalizeByHand
<1>7. CASE StrangerStarts \/ StrangerEnds \/ UNCHANGED daemonVars
  BY <1>4, <1>7 DEF StrangerStarts, StrangerEnds, daemonVars
<1> QED BY <1>1, <1>3, <1>5, <1>6, <1>7, NextIs

(***************************************************************************)
(* The claim of the instance.                                              *)
(***************************************************************************)
\* At most one daemon is locked.
LEMMA OneLocked ==
    ASSUME ClaimInv, NEW d \in Daemon, NEW e \in Daemon, pc[d] \in Locked, pc[e] \in Locked
    PROVE  d = e
BY DEF ClaimInv

\* A daemon that is not locked leaves what another one has published, and one that
\* is locked is the only one.
LEMMA ClaimFrame ==
    ASSUME DaemonKinds, ClaimInv, NEW d \in Daemon, \A e \in Daemon : e # d => pc'[e] = pc[e],
           /\ pc'[d] \in Locked => lock' = d
           /\ pc'[d] \in {"token"} \cup Swept => pidfile' = d
           /\ pc'[d] \in Swept => token' = d
           /\ pc'[d] = "serve" => endpoint' = d,
           \/ pc[d] \in Locked
           \/ lock = NoDaemon
           \/ /\ lock' \in {lock, Freed(lock, d)} /\ endpoint' \in {endpoint, Freed(endpoint, d)}
              /\ UNCHANGED <<pidfile, token>>,
           NoDaemon \notin Daemon
    PROVE  ClaimInv'
<1>1. ASSUME NEW e \in Daemon, e # d, pc[e] \in Locked
      PROVE  lock' = lock /\ pidfile' = pidfile /\ token' = token /\ endpoint' \in {endpoint, Freed(endpoint, d)}
  BY <1>1, OneLocked DEF ClaimInv, Freed
<1>2. ASSUME NEW e \in Daemon, e # d, pc[e] = "serve" PROVE endpoint' = e
  BY <1>1, <1>2 DEF ClaimInv, Freed, Locked, Swept
<1>3. \A p \in {"token"} \cup Swept : p \in Locked
  BY DEF Locked, Swept
<1>4. ASSUME NEW e \in Daemon, e # d
      PROVE  /\ pc'[e] \in Locked => lock' = e
             /\ pc'[e] \in {"token"} \cup Swept => pidfile' = e
             /\ pc'[e] \in Swept => token' = e
             /\ pc'[e] = "serve" => endpoint' = e
  <2>1. pc'[e] = pc[e]
    BY <1>4
  <2>2. CASE pc[e] \in Locked
    BY <1>1, <1>2, <1>4, <2>1, <2>2 DEF ClaimInv
  <2>3. CASE pc[e] \notin Locked
    BY <1>3, <2>1, <2>3 DEF Locked, Swept
  <2> QED BY <2>2, <2>3
<1> QED BY <1>4 DEF ClaimInv

LEMMA ClaimKept ==
    ASSUME DaemonConstantsOK, DaemonKinds, ClaimInv, [DaemonNext]_daemonVars
    PROVE  ClaimInv'
<1> USE DEF files, runs, Move
<1>0. pc \in [Daemon -> Places] /\ NoDaemon \notin Daemon
  BY DEF DaemonKinds, DaemonConstantsOK
<1>1. ASSUME UNCHANGED <<pc, files>> PROVE ClaimInv'
  BY <1>1 DEF ClaimInv
<1>2. ASSUME NEW d \in Daemon, DaemonStep(d) PROVE ClaimInv'
  <2>0. ASSUME NEW p, pc' = [pc EXCEPT ![d] = p]
        PROVE  pc'[d] = p /\ \A e \in Daemon : e # d => pc'[e] = pc[e]
    BY <1>0, <2>0
  <2>1. CASE Start(d)
    <3>1. pc'[d] = "lock" /\ (\A e \in Daemon : e # d => pc'[e] = pc[e]) /\ UNCHANGED files
      BY <2>0, <2>1 DEF Start
    <3> QED BY <1>0, <3>1, ClaimFrame DEF Locked, Swept
  <2>2. CASE Die(d)
    <3>1. pc'[d] = "gone" /\ \A e \in Daemon : e # d => pc'[e] = pc[e]
      BY <2>0, <2>2 DEF Die
    <3> QED BY <1>0, <2>2, <3>1, ClaimFrame DEF Die, Locked, Swept
  <2>3. CASE AcquireLock(d)
    <3>1. pc'[d] = "check" /\ \A e \in Daemon : e # d => pc'[e] = pc[e]
      BY <2>0, <2>3 DEF AcquireLock
    <3> QED BY <1>0, <2>3, <3>1, ClaimFrame DEF AcquireLock, Locked, Swept
  <2>4. CASE DenyBoot(d)
    <3>1. pc'[d] = "exit" /\ \A e \in Daemon : e # d => pc'[e] = pc[e]
      BY <2>0, <2>4 DEF DenyBoot
    <3> QED BY <1>0, <2>4, <3>1, ClaimFrame DEF DenyBoot, Locked, Swept
  <2>5. CASE PublishPidfile(d)
    <3>1. pc[d] = "check" /\ pc'[d] = "token" /\ \A e \in Daemon : e # d => pc'[e] = pc[e]
      BY <2>0, <2>5 DEF PublishPidfile
    <3> QED BY <1>0, <2>5, <3>1, ClaimFrame DEF PublishPidfile, ClaimInv, Locked, Swept
  <2>6. CASE PublishToken(d)
    <3>1. pc[d] = "token" /\ pc'[d] = "scan" /\ \A e \in Daemon : e # d => pc'[e] = pc[e]
      BY <2>0, <2>6 DEF PublishToken
    <3> QED BY <1>0, <2>6, <3>1, ClaimFrame DEF PublishToken, ClaimInv, Locked, Swept
  <2>7. CASE PublishFails(d)
    <3>1. pc[d] \in {"check", "token"} /\ pc'[d] = "exit" /\ \A e \in Daemon : e # d => pc'[e] = pc[e]
      BY <2>0, <2>7 DEF PublishFails
    <3> QED BY <1>0, <3>1, ClaimFrame DEF Locked, Swept
  <2>8. CASE SweepOne(d)
    BY <1>1, <2>8 DEF SweepOne
  \* The sweep reads and writes no file of the claim.
  <2>9. ASSUME UNCHANGED files, pc[d] \in Swept, NEW p \in Swept \cup {"stop"}, pc' = [pc EXCEPT ![d] = p], p # "serve"
        PROVE  ClaimInv'
    <3>1. pc'[d] = p /\ \A e \in Daemon : e # d => pc'[e] = pc[e]
      BY <2>0, <2>9
    <3> QED BY <1>0, <2>9, <3>1, ClaimFrame DEF ClaimInv, Locked, Swept
  <2>10. CASE LoadOwnership(d) \/ ForceFinalize(d) \/ ClearSwept(d) \/ EndSweep(d) \/ Quiesce(d)
    BY <2>9, <2>10 DEF LoadOwnership, ForceFinalize, ClearSwept, EndSweep, Quiesce, Swept
  <2>11. CASE StartLoopback(d)
    <3>1. /\ pc[d] = "listen" /\ pc'[d] \in {"serve", "stop"} /\ \A e \in Daemon : e # d => pc'[e] = pc[e]
          /\ pc'[d] = "serve" => endpoint' = d
      BY <2>0, <2>11 DEF StartLoopback
    <3> QED BY <1>0, <2>11, <3>1, ClaimFrame DEF StartLoopback, ClaimInv, Locked, Swept
  <2>12. CASE ShutdownDriven(d) \/ StopLoopback(d)
    <3>1. /\ pc[d] \in {"stop", "quiesce"} /\ pc'[d] \in {"quiesce", "release"} /\ UNCHANGED lock
          /\ \A e \in Daemon : e # d => pc'[e] = pc[e]
      BY <2>0, <2>12 DEF ShutdownDriven, StopLoopback
    <3> QED BY <1>0, <3>1, ClaimFrame DEF ClaimInv, Locked, Swept
  <2>13. CASE ReleaseInstance(d)
    <3>1. /\ pc[d] \in {"release", "unpublish", "unlock"} /\ pc'[d] \in {"unpublish", "unlock", "exit"}
          /\ pc'[d] # "exit" => UNCHANGED lock
          /\ \A e \in Daemon : e # d => pc'[e] = pc[e]
      BY <2>0, <2>13 DEF ReleaseInstance
    <3> QED BY <1>0, <3>1, ClaimFrame DEF ClaimInv, Locked, Swept
  <2> QED BY <1>2, <2>1, <2>2, <2>3, <2>4, <2>5, <2>6, <2>7, <2>8, <2>10, <2>11, <2>12, <2>13 DEF DaemonStep
<1>3. ASSUME NEW d \in Daemon, NEW r \in Row, StartRun(d, r) PROVE ClaimInv'
  BY <1>1, <1>3 DEF StartRun
<1>4. ASSUME NEW r \in Row, RunStep(r) PROVE ClaimInv'
  BY <1>1, <1>4 DEF RunStep, RecordOwnership, RegisterDriven, EndRun, ClearOwnership, FinalizeByHand
<1>5. CASE StrangerStarts \/ StrangerEnds \/ UNCHANGED daemonVars
  BY <1>1, <1>5 DEF StrangerStarts, StrangerEnds, daemonVars
<1> QED BY <1>2, <1>3, <1>4, <1>5, NextIs

(***************************************************************************)
(* Runs and who started them.                                              *)
(***************************************************************************)
\* What is known of a run stays true while nobody starts it anew and its starter
\* only dies.
LEMMA RunFrame ==
    ASSUME DaemonKinds, RunInv, NoDaemon \notin Daemon, UNCHANGED <<run, owner, step, todo, at>>,
           \A d \in Daemon : /\ pc[d] # "off" => pc'[d] # "off"
                             /\ pc[d] = "gone" => pc'[d] = "gone"
    PROVE  RunInv'
<1>1. /\ \A r \in Row : step[r].by \in Daemon \cup {NoDaemon}
      /\ at \in [Daemon -> Row \cup {NoRow}]
  BY DEF DaemonKinds, Steps
<1>2. \A r : StarterGone(r) => StarterGone(r)'
  BY DEF StarterGone
<1>3. \A r \in Row : step'[r].by = NoDaemon \/ pc'[step'[r].by] # "off"
  BY <1>1 DEF RunInv
<1> QED BY <1>1, <1>2, <1>3 DEF RunInv

\* A daemon never goes back to where it has not run, nor comes back.
LEMMA Moves ==
    ASSUME DaemonKinds, NEW d \in Daemon, NEW p, p # "off", pc[d] # "gone", pc' = [pc EXCEPT ![d] = p]
    PROVE  \A e \in Daemon : /\ pc[e] # "off" => pc'[e] # "off"
                             /\ pc[e] = "gone" => pc'[e] = "gone"
BY DEF DaemonKinds

\* A process that is not alive under the id of a run's starter is not the starter.
LEMMA DeadIsGone ==
    ASSUME DaemonKinds, RunInv, NEW d \in Daemon, NEW o \in Daemon, OwnerDead(d, o), pc[o] # "off"
    PROVE  pc[o] = "gone"
BY DEF OwnerDead, PidAlive, Running

LEMMA DaemonKeepsRuns ==
    ASSUME DaemonConstantsOK, DaemonKinds, RunInv, NEW d \in Daemon, DaemonStep(d)
    PROVE  RunInv'
<1> USE DEF files, runs, Move
<1>0. /\ pc \in [Daemon -> Places] /\ NoDaemon \notin Daemon /\ NoRow \notin Row
      /\ \A r \in Row : step[r].by \in Daemon \cup {NoDaemon}
      /\ todo \in [Daemon -> SUBSET (Row \X Daemon)] /\ at \in [Daemon -> Row \cup {NoRow}]
      /\ run \in [Row -> {"none", "open", "ended", "swept"}] /\ owner \in [Row -> Daemon \cup {NoDaemon}]
  BY DEF DaemonKinds, DaemonConstantsOK, Steps
<1>1. ASSUME pc' = pc PROVE \A r : StarterGone(r) /\ UNCHANGED step => StarterGone(r)'
  BY <1>1 DEF StarterGone
<1>2. CASE Start(d) \/ Die(d)
  BY <1>0, <1>2, Moves, RunFrame DEF Start, Die, Running
<1>3. CASE AcquireLock(d) \/ DenyBoot(d) \/ PublishPidfile(d) \/ PublishToken(d) \/ PublishFails(d)
  <2>1. \E p : p # "off" /\ pc[d] # "gone" /\ pc' = [pc EXCEPT ![d] = p]
    BY <1>3 DEF AcquireLock, DenyBoot, PublishPidfile, PublishToken, PublishFails
  <2>2. UNCHANGED <<run, owner, step, todo, at>>
    BY <1>3 DEF AcquireLock, DenyBoot, PublishPidfile, PublishToken, PublishFails
  <2> QED BY <1>0, <2>1, <2>2, Moves, RunFrame
<1>4. CASE EndSweep(d) \/ StartLoopback(d) \/ Quiesce(d) \/ StopLoopback(d) \/ ReleaseInstance(d)
  <2>1. \E p : p # "off" /\ pc[d] # "gone" /\ pc' = [pc EXCEPT ![d] = p]
    BY <1>4 DEF EndSweep, StartLoopback, Quiesce, StopLoopback, ReleaseInstance
  <2>2. UNCHANGED <<run, owner, step, todo, at>>
    BY <1>4 DEF EndSweep, StartLoopback, Quiesce, StopLoopback, ReleaseInstance
  <2> QED BY <1>0, <2>1, <2>2, Moves, RunFrame
\* The steps that fill the list name the starters of their entries.
<1>5. ASSUME NEW entries, \A entry \in entries : entry[2] = step[entry[1]].by,
             todo' = [todo EXCEPT ![d] = entries], UNCHANGED <<run, owner, step, at>>,
             NEW p, p # "off", pc[d] # "gone", pc' = [pc EXCEPT ![d] = p]
      PROVE  RunInv'
  <2>1. \A e \in Daemon : (pc[e] # "off" => pc'[e] # "off") /\ (pc[e] = "gone" => pc'[e] = "gone")
    BY <1>5, Moves
  <2>2. \A r : StarterGone(r) => StarterGone(r)'
    BY <1>5, <2>1 DEF StarterGone
  <2>3. \A r \in Row : step'[r].by = NoDaemon \/ pc'[step'[r].by] # "off"
    BY <1>0, <1>5, <2>1 DEF RunInv
  <2>4. \A e \in Daemon : \A entry \in todo'[e] : entry[2] = step'[entry[1]].by
    BY <1>0, <1>5 DEF RunInv
  <2> QED BY <1>0, <1>5, <2>2, <2>3, <2>4 DEF RunInv
<1>6. CASE LoadOwnership(d)
  <2>1. PICK entries : entries = {<<r, owner[r]>> : r \in {r \in Row : owner[r] # NoDaemon}}
    OBVIOUS
  <2>2. \A entry \in entries : entry[2] = step[entry[1]].by
    BY <2>1 DEF RunInv
  <2>3. /\ todo' = [todo EXCEPT ![d] = entries] /\ UNCHANGED <<run, owner, step, at>>
        /\ pc[d] = "scan" /\ pc' = [pc EXCEPT ![d] = "sweep"]
    BY <1>6, <2>1 DEF LoadOwnership
  <2> QED BY <1>5, <2>2, <2>3
<1>7. CASE ShutdownDriven(d)
  <2>1. PICK entries : entries = {<<r, d>> : r \in {r \in Row : step[r] = [by |-> d, at |-> "driven"]}}
    OBVIOUS
  <2>2. \A entry \in entries : entry[2] = step[entry[1]].by
    BY <2>1
  <2>3. /\ todo' = [todo EXCEPT ![d] = entries] /\ UNCHANGED <<run, owner, step, at>>
        /\ pc[d] = "stop" /\ pc' = [pc EXCEPT ![d] = "quiesce"]
    BY <1>7, <2>1 DEF ShutdownDriven
  <2> QED BY <1>5, <2>2, <2>3
<1>8. CASE SweepOne(d)
  <2>1. PICK entry \in todo[d] :
           /\ todo' = [todo EXCEPT ![d] = @ \ {entry}]
           /\ at' = [at EXCEPT ![d] = IF OwnerDead(d, entry[2]) /\ run[entry[1]] = "open" THEN entry[1] ELSE NoRow]
           /\ owner' \in {owner, [owner EXCEPT ![entry[1]] = NoDaemon]}
    BY <1>8 DEF SweepOne
  <2>2. entry[1] \in Row /\ entry[2] \in Daemon /\ entry[2] = step[entry[1]].by
    BY <1>0 DEF RunInv
  <2>3. at'[d] # NoRow => StarterGone(at'[d])
    BY <1>0, <2>1, <2>2, DeadIsGone DEF RunInv, StarterGone
  <2>4. UNCHANGED <<pc, run, step>>
    BY <1>8 DEF SweepOne
  <2>5. \A e \in Daemon : e # d => at'[e] = at[e]
    BY <1>0, <2>1
  <2>6. \A r : StarterGone(r) => StarterGone(r)'
    BY <2>4 DEF StarterGone
  <2>7. \A e \in Daemon : \A x \in todo'[e] : x \in todo[e]
    BY <1>0, <2>1
  <2>8. \A r \in Row : owner'[r] # NoDaemon => owner'[r] = step[r].by
    BY <1>0, <2>1, <2>2 DEF RunInv
  <2>9. \A e \in Daemon : at'[e] # NoRow => StarterGone(at[e])'
    BY <2>3, <2>5, <2>6 DEF RunInv, StarterGone
  <2> QED BY <2>4, <2>6, <2>7, <2>8, <2>9 DEF RunInv
<1>9. CASE ForceFinalize(d)
  <2>1. /\ at[d] \in Row /\ StarterGone(at[d]) /\ UNCHANGED <<owner, step, todo, at>>
        /\ \E p \in {"clear", "stop"} : pc' = [pc EXCEPT ![d] = p] /\ pc[d] = "sweep"
        /\ \/ UNCHANGED run
           \/ run[at[d]] = "open" /\ run' = [run EXCEPT ![at[d]] = "swept"]
    BY <1>0, <1>9 DEF ForceFinalize, RunInv
  <2>2. \A e \in Daemon : (pc[e] # "off" => pc'[e] # "off") /\ (pc[e] = "gone" => pc'[e] = "gone")
    BY <2>1, Moves
  <2>3. \A r : StarterGone(r) => StarterGone(r)'
    BY <2>1, <2>2 DEF StarterGone
  <2>4. \A r \in Row : step'[r].by = NoDaemon \/ pc'[step'[r].by] # "off"
    BY <1>0, <2>1, <2>2 DEF RunInv
  <2>5. \A r \in Row : run'[r] = run[r] \/ (r = at[d] /\ run[r] = "open" /\ run'[r] = "swept")
    BY <1>0, <2>1
  <2> QED BY <1>0, <2>1, <2>3, <2>4, <2>5 DEF RunInv
<1>10. CASE ClearSwept(d)
  <2>1. /\ pc[d] = "clear" /\ pc' = [pc EXCEPT ![d] = "sweep"] /\ UNCHANGED <<run, step, todo>>
        /\ owner' = [owner EXCEPT ![at[d]] = NoDaemon] /\ at' = [at EXCEPT ![d] = NoRow]
    BY <1>10 DEF ClearSwept
  <2>2. \A e \in Daemon : (pc[e] # "off" => pc'[e] # "off") /\ (pc[e] = "gone" => pc'[e] = "gone")
    BY <2>1, Moves
  <2>3. \A r : StarterGone(r) => StarterGone(r)'
    BY <2>1, <2>2 DEF StarterGone
  <2>4. \A r \in Row : step'[r].by = NoDaemon \/ pc'[step'[r].by] # "off"
    BY <1>0, <2>1, <2>2 DEF RunInv
  <2>5. \A r \in Row : owner'[r] \in {owner[r], NoDaemon}
    BY <1>0, <2>1
  <2>6. \A e \in Daemon : at'[e] \in {at[e], NoRow}
    BY <1>0, <2>1
  <2> QED BY <2>1, <2>3, <2>4, <2>5, <2>6 DEF RunInv
<1> QED BY <1>2, <1>3, <1>4, <1>6, <1>7, <1>8, <1>9, <1>10 DEF DaemonStep

LEMMA OthersKeepRuns ==
    ASSUME DaemonConstantsOK, DaemonKinds, RunInv,
           \/ StrangerStarts \/ StrangerEnds \/ UNCHANGED daemonVars
           \/ \E d \in Daemon, r \in Row : StartRun(d, r)
           \/ \E r \in Row : RunStep(r)
    PROVE  RunInv'
<1> USE DEF files, runs
<1>0. /\ NoDaemon \notin Daemon /\ NoRow \notin Row /\ step \in [Row -> Steps]
      /\ \A r \in Row : step[r].by \in Daemon \cup {NoDaemon}
      /\ todo \in [Daemon -> SUBSET (Row \X Daemon)] /\ at \in [Daemon -> Row \cup {NoRow}]
      /\ run \in [Row -> {"none", "open", "ended", "swept"}] /\ owner \in [Row -> Daemon \cup {NoDaemon}]
  BY DEF DaemonKinds, DaemonConstantsOK, Steps
<1>1. CASE StrangerStarts \/ StrangerEnds \/ UNCHANGED daemonVars
  BY <1>0, <1>1, RunFrame DEF StrangerStarts, StrangerEnds, daemonVars
<1>2. ASSUME NEW d \in Daemon, NEW r \in Row, StartRun(d, r) PROVE RunInv'
  <2>1. /\ run[r] = "none" /\ step[r].by = NoDaemon /\ owner[r] = NoDaemon /\ pc[d] = "serve"
        /\ run' = [run EXCEPT ![r] = "open"] /\ step' = [step EXCEPT ![r] = [by |-> d, at |-> "inserted"]]
        /\ UNCHANGED <<pc, owner, todo, at>>
    BY <1>0, <1>2 DEF StartRun, RunInv
  <2>2. /\ step'[r].by = d /\ run'[r] = "open"
        /\ \A x \in Row : x # r => step'[x] = step[x] /\ run'[x] = run[x]
    BY <1>0, <2>1
  <2>3. ~StarterGone(r)
    BY <1>0, <2>1 DEF StarterGone
  <2>4. \A x \in Row : StarterGone(x) => StarterGone(x)'
    BY <2>1, <2>2, <2>3 DEF StarterGone
  <2>5. ASSUME NEW e \in Daemon, NEW entry \in todo'[e] PROVE entry[2] = step'[entry[1]].by
    <3>1. entry \in todo[e] /\ entry[1] \in Row /\ entry[2] \in Daemon
      BY <1>0, <2>1, <2>5
    <3>2. entry[2] = step[entry[1]].by
      BY <3>1 DEF RunInv
    <3> QED BY <1>0, <2>1, <2>2, <3>1, <3>2
  <2>6. \A e \in Daemon : at'[e] # NoRow => StarterGone(at[e])'
    BY <1>0, <2>1, <2>4 DEF RunInv, StarterGone
  <2>7. ASSUME NEW x \in Row
        PROVE  /\ step'[x].by = NoDaemon \/ pc'[step'[x].by] # "off"
               /\ run'[x] = "none" => step'[x].by = NoDaemon
               /\ owner'[x] # NoDaemon => owner'[x] = step'[x].by
               /\ run'[x] = "swept" => StarterGone(x)'
    <3>1. CASE x = r
      BY <2>1, <2>2, <3>1
    <3>2. CASE x # r
      BY <2>1, <2>2, <2>4, <3>2 DEF RunInv
    <3> QED BY <3>1, <3>2
  <2> QED BY <2>5, <2>6, <2>7 DEF RunInv
\* The handler of a run changes neither its starter nor the daemons.
<1>3. ASSUME UNCHANGED <<pc, todo, at>>, \A x \in Row : step'[x].by = step[x].by,
             \A x \in Row : run'[x] = run[x] \/ (run[x] # "none" /\ run'[x] = "ended"),
             \A x \in Row : owner'[x] \in {owner[x], NoDaemon, step[x].by}
      PROVE  RunInv'
  <2>1. \A x \in Row : StarterGone(x) => StarterGone(x)'
    BY <1>3 DEF StarterGone
  <2>2. ASSUME NEW e \in Daemon, NEW entry \in todo'[e] PROVE entry[2] = step'[entry[1]].by
    <3>1. entry \in todo[e] /\ entry[1] \in Row
      BY <1>0, <1>3, <2>2
    <3> QED BY <1>3, <3>1 DEF RunInv
  <2>3. \A e \in Daemon : at'[e] # NoRow => StarterGone(at[e])'
    BY <1>0, <1>3, <2>1 DEF RunInv, StarterGone
  <2> QED BY <1>3, <2>1, <2>2, <2>3 DEF RunInv
<1>4. ASSUME NEW r \in Row, RunStep(r) PROVE RunInv'
  <2>0. \A a : [step EXCEPT ![r].at = a] = [step EXCEPT ![r] = [step[r] EXCEPT !.at = a]]
    BY <1>0
  <2>1. ASSUME NEW a, step' = [step EXCEPT ![r].at = a] PROVE \A x \in Row : step'[x].by = step[x].by
    <3>1. [step[r] EXCEPT !.at = a].by = step[r].by
      BY <1>0 DEF Steps
    <3> QED BY <1>0, <2>0, <2>1, <3>1
  <2>2. CASE RecordOwnership(r)
    <3>1. \A x \in Row : step'[x].by = step[x].by
      BY <2>1, <2>2 DEF RecordOwnership
    <3> QED BY <1>0, <1>3, <2>2, <3>1 DEF RecordOwnership
  <2>3. CASE RegisterDriven(r)
    <3>1. \A x \in Row : step'[x].by = step[x].by
      BY <2>1, <2>3 DEF RegisterDriven
    <3> QED BY <1>0, <1>3, <2>3, <3>1 DEF RegisterDriven
  <2>4. CASE EndRun(r)
    <3>1. \A x \in Row : step'[x].by = step[x].by
      BY <2>1, <2>4 DEF EndRun
    <3> QED BY <1>0, <1>3, <2>4, <3>1 DEF EndRun
  <2>5. CASE ClearOwnership(r)
    <3>1. \A x \in Row : step'[x].by = step[x].by
      BY <2>1, <2>5 DEF ClearOwnership
    <3> QED BY <1>0, <1>3, <2>5, <3>1 DEF ClearOwnership
  <2>6. CASE FinalizeByHand(r)
    BY <1>0, <1>3, <2>6 DEF FinalizeByHand
  <2> QED BY <1>4, <2>2, <2>3, <2>4, <2>5, <2>6 DEF RunStep
<1> QED BY <1>1, <1>2, <1>4

----------------------------------------------------------------------------
\* At the start there is neither a daemon nor a run.
LEMMA DaemonInitInv == ASSUME DaemonConstantsOK, DaemonInit PROVE DaemonInv
<1>1. (CHOOSE p \in Pid : TRUE) \in Pid
  BY DEF DaemonConstantsOK
<1>2. [by |-> NoDaemon, at |-> "absent"] \in Steps
  BY DEF Steps
<1>3. DaemonKinds
  BY <1>1, <1>2, PlaceNames DEF DaemonInit, DaemonKinds
<1>4. PidInv /\ ClaimInv
  BY DEF DaemonInit, PidInv, Running, ClaimInv, Locked, Swept
<1>5. RunInv
  BY DEF DaemonInit, RunInv
<1> QED BY <1>3, <1>4, <1>5 DEF DaemonInv

\* What boot, clients, sweeps, shutdown and crashes leave in the bootstrap lock, the
\* pid, token and endpoint files and the run rows fits together (DaemonInv), for any number
\* of processes and process ids (daemon.py, supervisor.py).
THEOREM DaemonInvHolds ==
    ASSUME DaemonConstantsOK
    PROVE  DaemonSpec => []DaemonInv
<1>1. DaemonInit => DaemonInv
  BY DaemonInitInv
<1>2. DaemonInv /\ [DaemonNext]_daemonVars => DaemonInv'
  <2> SUFFICES ASSUME DaemonInv, [DaemonNext]_daemonVars PROVE DaemonInv'
    OBVIOUS
  <2>1. \/ \E d \in Daemon : DaemonStep(d)
        \/ StrangerStarts \/ StrangerEnds \/ UNCHANGED daemonVars
        \/ \E d \in Daemon, r \in Row : StartRun(d, r)
        \/ \E r \in Row : RunStep(r)
    BY NextIs
  <2>2. DaemonKinds'
    BY <2>1, DaemonKeepsKinds, DaemonOthersKeepKinds DEF DaemonInv
  <2>3. PidInv' /\ ClaimInv'
    BY PidKept, ClaimKept DEF DaemonInv
  <2>4. RunInv'
    BY <2>1, DaemonKeepsRuns, OthersKeepRuns DEF DaemonInv
  <2> QED BY <2>2, <2>3, <2>4 DEF DaemonInv
<1> QED BY <1>1, <1>2, PTL DEF DaemonSpec

\* The files, rows and the processes' places in boot and shutdown keep their types.
THEOREM DaemonTypeCorrect ==
    ASSUME DaemonConstantsOK
    PROVE  DaemonSpec => []DaemonTypeOK
<1>1. DaemonInv => DaemonTypeOK
  BY DEF DaemonInv, DaemonKinds, PidInv, DaemonTypeOK
<1> QED BY <1>1, DaemonInvHolds, PTL

\* One daemon owns the workspace: who serves is found by every client under its own
\* pid file, token and endpoint, whoever boots, fails, stops or dies beside it and
\* whatever ids the system hands out again; and no sweep ends a run of a process
\* that lives.
THEOREM OneDaemonServes ==
    ASSUME DaemonConstantsOK
    PROVE  DaemonSpec => []OneDaemonOwns
<1>1. DaemonInv => OneDaemonOwns
  <2> SUFFICES ASSUME DaemonInv PROVE OneDaemonOwns
    OBVIOUS
  <2>1. \A d \in Daemon : pc[d] = "serve" => {lock, pidfile, token, endpoint} = {d}
    BY DEF DaemonInv, ClaimInv, Locked, Swept
  <2>2. \A r \in Row : run[r] = "swept" => step[r].by \notin Running
    BY DEF DaemonInv, RunInv, StarterGone, Running
  <2> QED BY <2>1, <2>2 DEF OneDaemonOwns
<1> QED BY <1>1, DaemonInvHolds, PTL
----------------------------------------------------------------------------
(***************************************************************************)
(* The adapter of Codex.                                                   *)
(***************************************************************************)
RunnerPc == {"open", "handshake", "verify", "idle", "look", "ask", "await", "wait", "kill", "over"}
ClientPc == {"idle", "await", "kill", "over"}
KillPlaces == [pc : {"idle", "flags", "reap", "spans"}, proven : BOOLEAN]
Messages == [kind : {"none", "answer", "started", "ended", "notify"}, of : Request \cup {NoCodexTurn},
             status : Status \cup {"none"}, text : BOOLEAN]
RunnerLocals == [pc : RunnerPc, thread : BOOLEAN, turn : 0 .. MaxCodexTurns, kill : KillPlaces]
ClientLocals == [pc : ClientPc, turn : CodexTurn \cup {NoCodexTurn}, heard : BOOLEAN, kill : KillPlaces]

\* The types of everything the steps read.
ChannelKinds ==
    /\ attached \in BOOLEAN /\ channel \in BOOLEAN /\ shut \in BOOLEAN
    /\ opened \in BOOLEAN /\ leased \in BOOLEAN
    /\ server \in {"none", "alive", "dead"} /\ reader \in {"off", "on", "wake", "ended"}
    /\ reply \in [Request -> {"none", "waiting", "ok", "failed", "gone"}]
SpanKinds ==
    /\ activeTurn \in CodexTurn \cup {NoCodexTurn} /\ closedTurns \in SUBSET CodexTurn
    /\ texts \in SUBSET CodexTurn /\ terminal \in [CodexTurn -> Status \cup {"none"}]
VendorKinds ==
    /\ hand \in Messages /\ wire \in Seq(Messages) /\ told \in SUBSET CodexTurn
    /\ turn \in [CodexTurn -> Status \cup {"none", "asked", "running"}]
ThreadKinds ==
    /\ runner \in RunnerLocals /\ client \in [Client -> ClientLocals]
    /\ result \in [CodexTurn -> {"none", "OK", "CANCELED"}]
CodexKinds == ChannelKinds /\ SpanKinds /\ VendorKinds /\ ThreadKinds

\* What the app-server says of a turn's end is how it has it; what is passed on is closed.
Agrees(m) ==
    /\ m.kind \in {"started", "ended", "notify"} => m.of \in CodexTurn
    /\ m.kind \in {"ended", "notify"} => m.status \in Status /\ turn[m.of] = m.status
    /\ m.kind = "notify" => m.of \in closedTurns
SaidInv == Agrees(hand) /\ \A i \in 1 .. Len(wire) : Agrees(wire[i])

\* run_turn asks for turns in their order, and asks for each once.
AskedInv ==
    /\ runner.pc \in {"look", "ask", "await", "wait"} => Now \in CodexTurn
    /\ \A t \in CodexTurn : t > Now \/ (t = Now /\ runner.pc \in {"look", "ask"}) => turn[t] = "none"

\* A turn whose end is known, was waited for or reported is closed, and is not active.
SpanInv ==
    /\ activeTurn \notin closedTurns
    /\ \A t \in CodexTurn :
          /\ terminal[t] # "none" => t \in closedTurns /\ turn[t] = terminal[t]
          /\ result[t] # "none" => t \in closedTurns
          /\ result[t] = "OK" => turn[t] = "completed"
          /\ result[t] = "CANCELED" => turn[t] = "interrupted"
    /\ \A c \in Client : client[c].pc = "await" => client[c].turn \in CodexTurn

\* A process that may run is attached and its thread leased; a kill that has proved
\* the end of the process is right, for a process is started once and before any kill.
Right(k) == k.pc = "spans" /\ k.proven => server # "alive"
ServerInv ==
    /\ server = "alive" => attached
    /\ server = "alive" /\ runner.thread => leased
    /\ runner.pc \in {"open", "handshake"} => ~runner.thread
    /\ runner.kill.pc # "idle" => runner.pc = "kill"
    /\ Right(runner.kill)
    /\ \A c \in Client : Right(client[c].kill) /\ (client[c].kill.pc # "idle" => IsOpen)

CodexInv == CodexKinds /\ SaidInv /\ AskedInv /\ SpanInv /\ ServerInv
----------------------------------------------------------------------------
LEMMA MessageIs ==
    ASSUME NEW kind \in {"none", "answer", "started", "ended", "notify"},
           NEW of \in Request \cup {NoCodexTurn}, NEW status \in Status \cup {"none"}
    PROVE  /\ Message(kind, of, status) \in Messages
           /\ Message(kind, of, status).kind = kind /\ Message(kind, of, status).of = of
           /\ Message(kind, of, status).status = status
BY DEF Message, Messages

LEMMA EndedMessageIs ==
    ASSUME NEW of \in CodexTurn, NEW status \in Status, NEW text \in BOOLEAN, NEW m,
           m = [Message("ended", of, status) EXCEPT !.text = text]
    PROVE  m \in Messages /\ m.kind = "ended" /\ m.of = of /\ m.status = status
BY DEF Message, Messages, Request

LEMMA NoMessageIs == NoMessage \in Messages /\ NoMessage.kind = "none"
BY MessageIs DEF NoMessage

LEMMA IdleKillIs ==
    /\ IdleKill \in KillPlaces /\ IdleKill.pc = "idle"
    /\ [IdleKill EXCEPT !.pc = "flags"] \in KillPlaces
    /\ [IdleKill EXCEPT !.pc = "flags"].pc = "flags"
    /\ KillProgress \subseteq KillPlaces
BY DEF IdleKill, KillPlaces, KillProgress

\* What the app-server writes comes last.
LEMMA SaysIs ==
    ASSUME wire \in Seq(Messages), NEW m \in Messages, Says(m)
    PROVE  /\ wire' \in Seq(Messages)
           /\ \A i \in 1 .. Len(wire') : wire'[i] = m \/ (i \in 1 .. Len(wire) /\ wire'[i] = wire[i])
<1>1. wire' = Append(wire, m)
  BY DEF Says
<1>2. Len(wire') = Len(wire) + 1 /\ wire' \in Seq(Messages)
  BY <1>1
<1>3. ASSUME NEW i \in 1 .. Len(wire'), wire'[i] # m
      PROVE  i \in 1 .. Len(wire) /\ wire'[i] = wire[i]
  BY <1>1, <1>2, <1>3
<1> QED BY <1>2, <1>3

LEMMA TakenIs ==
    ASSUME wire \in Seq(Messages), wire # <<>>
    PROVE  /\ Tail(wire) \in Seq(Messages) /\ Head(wire) = wire[1] /\ 1 \in 1 .. Len(wire)
           /\ \A i \in 1 .. Len(Tail(wire)) : i + 1 \in 1 .. Len(wire) /\ Tail(wire)[i] = wire[i + 1]
OBVIOUS

LEMMA VendorKeepsKinds == ASSUME CodexConstantsOK, CodexKinds, Vendor PROVE CodexKinds'
<1> USE DEF CodexKinds, rpc, reading, spans, program, vendor, threads
<1>1. CASE VendorStarts
  <2>1. PICK t \in CodexTurn : turn' = [turn EXCEPT ![t] = "running"] /\ Says(Message("started", t, "none"))
    BY <1>1 DEF VendorStarts
  <2>2. wire' \in Seq(Messages)
    BY <2>1, SaysIs, MessageIs DEF Request, VendorKinds
  <2> QED BY <1>1, <2>1, <2>2 DEF VendorStarts, ChannelKinds, SpanKinds, VendorKinds, ThreadKinds
<1>2. CASE VendorAnswers
  <2>1. PICK t \in CodexTurn : told' = told \cup {t} /\ Says(Message("answer", t, "none"))
    BY <1>2 DEF VendorAnswers
  <2>2. wire' \in Seq(Messages)
    BY <2>1, SaysIs, MessageIs DEF Request, VendorKinds
  <2> QED BY <1>2, <2>1, <2>2 DEF VendorAnswers, ChannelKinds, SpanKinds, VendorKinds, ThreadKinds
<1>3. CASE VendorEnds
  <2>1. PICK t \in CodexTurn, s \in Status, text \in BOOLEAN :
            turn' = [turn EXCEPT ![t] = s] /\ Says([Message("ended", t, s) EXCEPT !.text = text])
    BY <1>3 DEF VendorEnds
  <2>2. wire' \in Seq(Messages)
    BY <2>1, SaysIs, EndedMessageIs DEF VendorKinds
  <2> QED BY <1>3, <2>1, <2>2 DEF VendorEnds, ChannelKinds, SpanKinds, VendorKinds, ThreadKinds
<1>4. CASE VendorAcks
  <2>1. PICK c \in Client : client' = [client EXCEPT ![c].heard = TRUE] /\ Says(Message("answer", c, "none"))
    BY <1>4 DEF VendorAcks
  <2>2. wire' \in Seq(Messages)
    BY <2>1, SaysIs, MessageIs DEF Request, VendorKinds
  <2>3. client' \in [Client -> ClientLocals]
    BY <2>1 DEF ThreadKinds, ClientLocals
  <2> QED BY <1>4, <2>2, <2>3 DEF VendorAcks, ChannelKinds, SpanKinds, VendorKinds, ThreadKinds
<1>5. CASE VendorDies
  BY <1>5 DEF VendorDies, ChannelKinds, SpanKinds, VendorKinds, ThreadKinds
<1> QED BY <1>1, <1>2, <1>3, <1>4, <1>5 DEF Vendor

\* A turn is closed, and its span is another's or nobody's.
LEMMA CodexCloseIs ==
    ASSUME SpanKinds, NEW t \in CodexTurn, Close(t)
    PROVE  /\ closedTurns' \in SUBSET CodexTurn /\ activeTurn' \in CodexTurn \cup {NoCodexTurn}
           /\ t \in closedTurns' /\ closedTurns \subseteq closedTurns'
           /\ activeTurn \notin closedTurns => activeTurn' \notin closedTurns'
BY DEF SpanKinds, Close, CodexTurn, NoCodexTurn

LEMMA OpensIs ==
    ASSUME SpanKinds, NEW t \in CodexTurn
    PROVE  /\ Opens(t) \in CodexTurn \cup {NoCodexTurn}
           /\ activeTurn \notin closedTurns => Opens(t) \notin closedTurns
BY DEF Opens, SpanKinds

LEMMA ReaderKeepsKinds ==
    ASSUME CodexConstantsOK, CodexKinds, SaidInv, Reader PROVE CodexKinds'
<1> USE DEF CodexKinds, rpc, reading, spans, program, vendor, threads
<1>1. CASE Take
  <2>1. wire' \in Seq(Messages) /\ hand' \in Messages
    BY <1>1, TakenIs DEF Take, VendorKinds
  <2> QED BY <1>1, <2>1 DEF Take, ChannelKinds, SpanKinds, VendorKinds, ThreadKinds
<1>2. CASE EndOfOutput
  BY <1>2 DEF EndOfOutput, ChannelKinds, SpanKinds, VendorKinds, ThreadKinds
<1>3. CASE Wake
  BY <1>3 DEF Wake, ChannelKinds, SpanKinds, VendorKinds, ThreadKinds
<1>4. CASE Deliver
  <2>1. reply' \in [Request -> {"none", "waiting", "ok", "failed", "gone"}]
    BY <1>4 DEF Deliver, ChannelKinds
  <2> QED BY <1>4, <2>1, NoMessageIs DEF Deliver, ChannelKinds, SpanKinds, VendorKinds, ThreadKinds
<1>5. CASE Started
  <2>1. activeTurn' \in CodexTurn \cup {NoCodexTurn}
    BY <1>5, OpensIs DEF Started, SaidInv, Agrees
  <2> QED BY <1>5, <2>1, NoMessageIs DEF Started, ChannelKinds, SpanKinds, VendorKinds, ThreadKinds
<1>6. CASE Ended
  <2>1. hand.of \in CodexTurn
    BY <1>6 DEF Ended, SaidInv, Agrees
  <2>2. hand' \in Messages
    BY <1>6 DEF Ended, VendorKinds, Messages
  <2>3. SpanKinds'
    BY <1>6, <2>1, CodexCloseIs DEF Ended, SpanKinds
  <2> QED BY <1>6, <2>2, <2>3 DEF Ended, ChannelKinds, VendorKinds, ThreadKinds
<1>7. CASE Notify
  <2>1. hand.status \in Status
    BY <1>7 DEF Notify, SaidInv, Agrees
  <2> QED BY <1>7, <2>1, NoMessageIs DEF Notify, ChannelKinds, SpanKinds, VendorKinds, ThreadKinds
<1> QED BY <1>1, <1>2, <1>3, <1>4, <1>5, <1>6, <1>7 DEF Reader

\* The steps of a kill, whoever takes them, change what the threads share to values of theirs.
LEMMA KillKeepsKinds ==
    ASSUME ChannelKinds, SpanKinds, VendorKinds, NEW k, NEW k2, Kill(k, k2)
    PROVE  ChannelKinds' /\ SpanKinds' /\ VendorKinds'
<1> USE DEF rpc, reading, spans, program, vendor
<1>1. CASE KillFlags(k, k2)
  BY <1>1 DEF KillFlags, ChannelKinds, SpanKinds, VendorKinds
<1>2. CASE Reap(k, k2)
  BY <1>2 DEF Reap, ChannelKinds, SpanKinds, VendorKinds
<1>3. CASE Terminalize(k, k2)
  <2>1. leased' \in BOOLEAN
    BY <1>3 DEF Terminalize, ChannelKinds
  <2>2. closedTurns' \in SUBSET CodexTurn /\ activeTurn' \in CodexTurn \cup {NoCodexTurn}
    BY <1>3, CodexCloseIs DEF Terminalize, SpanKinds
  <2> QED BY <1>3, <2>1, <2>2 DEF Terminalize, ChannelKinds, SpanKinds, VendorKinds
<1> QED BY <1>1, <1>2, <1>3 DEF Kill

LEMMA RunnerGoes ==
    ASSUME runner \in RunnerLocals, NEW place \in RunnerPc, GoesTo(place)
    PROVE  runner' \in RunnerLocals /\ runner'.pc = place
           /\ runner'.thread = runner.thread /\ runner'.turn = runner.turn /\ runner'.kill = runner.kill
BY DEF GoesTo, RunnerLocals

LEMMA RunnerKills ==
    ASSUME runner \in RunnerLocals, Kills
    PROVE  runner' \in RunnerLocals /\ runner'.pc = "kill" /\ runner'.kill.pc = "flags"
           /\ runner'.thread = runner.thread /\ runner'.turn = runner.turn
BY IdleKillIs DEF Kills, RunnerLocals, RunnerPc

\* What a kill leaves of the thread that makes it.
LEMMA RunnerKillIs ==
    ASSUME runner \in RunnerLocals, NEW k2 \in KillProgress,
           runner' = [runner EXCEPT !.kill = k2, !.pc = IF k2 = IdleKill THEN "over" ELSE @]
    PROVE  /\ runner' \in RunnerLocals /\ runner'.kill = k2
           /\ runner'.thread = runner.thread /\ runner'.turn = runner.turn
           /\ runner'.pc = IF k2 = IdleKill THEN "over" ELSE runner.pc
BY IdleKillIs DEF RunnerLocals, RunnerPc

LEMMA RunnerStarts ==
    ASSUME runner \in RunnerLocals, CodexConstantsOK
    PROVE  /\ RunTurn => /\ runner' \in RunnerLocals /\ runner'.pc = "look" /\ runner'.turn = runner.turn + 1
                         /\ runner'.turn \in CodexTurn
                         /\ runner'.thread = runner.thread /\ runner'.kill = runner.kill
           /\ StartThread => /\ runner' \in RunnerLocals /\ runner'.pc = "verify"
                             /\ runner'.turn = runner.turn /\ runner'.kill = runner.kill
<1>1. ASSUME RunTurn
      PROVE  /\ runner' \in RunnerLocals /\ runner'.pc = "look" /\ runner'.turn = runner.turn + 1
             /\ runner'.turn \in CodexTurn
             /\ runner'.thread = runner.thread /\ runner'.kill = runner.kill
  <2>1. runner.turn + 1 \in CodexTurn /\ runner.turn + 1 \in 0 .. MaxCodexTurns
    BY <1>1 DEF RunTurn, RunnerLocals, CodexTurn, Now, CodexConstantsOK
  <2>2. runner' = [runner EXCEPT !.turn = runner.turn + 1, !.pc = "look"]
    BY <1>1 DEF RunTurn
  <2> QED BY <2>1, <2>2 DEF RunnerLocals, RunnerPc
<1>2. ASSUME StartThread
      PROVE  /\ runner' \in RunnerLocals /\ runner'.pc = "verify"
             /\ runner'.turn = runner.turn /\ runner'.kill = runner.kill
  BY <1>2 DEF StartThread, RunnerLocals, RunnerPc
<1> QED BY <1>1, <1>2

LEMMA ReturnsIs ==
    ASSUME ThreadKinds, NEW r \in {"OK", "CANCELED"}, NEW place \in RunnerPc, Returns(r, place)
    PROVE  /\ result' \in [CodexTurn -> {"none", "OK", "CANCELED"}]
           /\ \A t \in CodexTurn : result'[t] = IF t = Now THEN r ELSE result[t]
           /\ GoesTo(place)
BY DEF Returns, ThreadKinds

\* The ways a turn of run_turn ends.
LEMMA TurnEndsIs ==
    ASSUME ThreadKinds, TurnEnds
    PROVE  /\ At("wait") /\ terminal[Now] # "none"
           /\ result' \in [CodexTurn -> {"none", "OK", "CANCELED"}]
           /\ (GoesTo("idle") \/ Kills)
           /\ \/ result' = result
              \/ /\ \A t \in CodexTurn : t # Now => result'[t] = result[t]
                 /\ terminal[Now] = "interrupted" => result'[Now] = "CANCELED"
                 /\ terminal[Now] # "interrupted" => terminal[Now] # "failed" /\ result'[Now] = "OK"
<1>1. At("wait") /\ terminal[Now] # "none"
  BY DEF TurnEnds, EndOf
<1>2. "idle" \in RunnerPc
  BY DEF RunnerPc
<1>3. CASE terminal[Now] = "interrupted"
  <2>1. Returns("CANCELED", "idle")
    BY <1>3 DEF TurnEnds, EndOf
  <2>2. result' \in [CodexTurn -> {"none", "OK", "CANCELED"}] /\ GoesTo("idle")
    BY <2>1, <1>2, ReturnsIs
  <2>3. \A t \in CodexTurn : result'[t] = IF t = Now THEN "CANCELED" ELSE result[t]
    BY <2>1, <1>2, ReturnsIs
  <2>4. Now \notin CodexTurn => result' = result
    BY <2>2, <2>3 DEF ThreadKinds
  <2> QED BY <1>1, <1>3, <2>2, <2>3, <2>4
<1>4. CASE terminal[Now] = "failed"
  BY <1>1, <1>4 DEF TurnEnds, EndOf, ThreadKinds
<1>5. CASE terminal[Now] \notin {"interrupted", "failed"}
  <2>1. CASE Now \in texts
    <3>1. Returns("OK", "idle")
      BY <1>5, <2>1 DEF TurnEnds, EndOf
    <3>2. result' \in [CodexTurn -> {"none", "OK", "CANCELED"}] /\ GoesTo("idle")
      BY <3>1, <1>2, ReturnsIs
    <3>3. \A t \in CodexTurn : result'[t] = IF t = Now THEN "OK" ELSE result[t]
      BY <3>1, <1>2, ReturnsIs
    <3>4. Now \notin CodexTurn => result' = result
      BY <3>2, <3>3 DEF ThreadKinds
    <3> QED BY <1>1, <1>5, <3>2, <3>3, <3>4
  <2>2. CASE Now \notin texts
    BY <1>1, <1>5, <2>2 DEF TurnEnds, EndOf, ThreadKinds
  <2> QED BY <2>1, <2>2
<1> QED BY <1>3, <1>4, <1>5

LEMMA RunnerKeepsKinds ==
    ASSUME CodexConstantsOK, CodexKinds, AskedInv, Worker PROVE CodexKinds'
<1> USE DEF CodexKinds, rpc, reading, spans, program, vendor, threads
<1>0. /\ \A x \in {"open", "handshake", "verify", "idle", "look", "ask", "await", "wait", "kill", "over"} :
            x \in RunnerPc
      /\ runner \in RunnerLocals
  BY DEF RunnerPc, ThreadKinds
<1>1. CASE SpawnServer
  BY <1>0, <1>1, RunnerGoes DEF SpawnServer, ChannelKinds, SpanKinds, VendorKinds, ThreadKinds
<1>2. CASE StartThread
  BY <1>0, <1>2, RunnerStarts DEF StartThread, ChannelKinds, SpanKinds, VendorKinds, ThreadKinds
<1>3. CASE Verified
  BY <1>0, <1>3, RunnerGoes DEF Verified, ChannelKinds, SpanKinds, VendorKinds, ThreadKinds
<1>4. CASE OpenFails
  BY <1>0, <1>4, RunnerKills DEF OpenFails, ChannelKinds, SpanKinds, VendorKinds, ThreadKinds
<1>5. CASE RunTurn
  BY <1>0, <1>5, RunnerStarts DEF RunTurn, ChannelKinds, SpanKinds, VendorKinds, ThreadKinds
<1>6. CASE TurnRefused
  <2>1. runner' \in RunnerLocals
    BY <1>0, <1>6, RunnerGoes DEF TurnRefused
  <2> QED BY <1>6, <2>1 DEF TurnRefused, ChannelKinds, SpanKinds, VendorKinds, ThreadKinds
<1>7. CASE Ask
  BY <1>0, <1>7, RunnerGoes DEF Ask, ChannelKinds, SpanKinds, VendorKinds, ThreadKinds
<1>8. CASE Send
  <2>1. runner' \in RunnerLocals
    BY <1>0, <1>8, RunnerGoes DEF Send
  <2>2. reply' \in [Request -> {"none", "waiting", "ok", "failed", "gone"}]
    BY <1>8 DEF Send, ChannelKinds
  <2>3. turn' \in [CodexTurn -> Status \cup {"none", "asked", "running"}]
    BY <1>8 DEF Send, VendorKinds
  <2> QED BY <1>8, <2>1, <2>2, <2>3 DEF Send, ChannelKinds, SpanKinds, VendorKinds, ThreadKinds
<1>9. CASE StartFails
  <2>1. runner' \in RunnerLocals
    BY <1>0, <1>9, RunnerGoes DEF StartFails
  <2>2. reply' \in [Request -> {"none", "waiting", "ok", "failed", "gone"}]
    BY <1>9 DEF StartFails, ChannelKinds
  <2> QED BY <1>9, <2>1, <2>2 DEF StartFails, ChannelKinds, SpanKinds, VendorKinds, ThreadKinds
<1>10. CASE StartAnswered
  <2>1. runner' \in RunnerLocals
    BY <1>0, <1>10, RunnerGoes DEF StartAnswered
  <2>2. reply' \in [Request -> {"none", "waiting", "ok", "failed", "gone"}]
    BY <1>10 DEF StartAnswered, ChannelKinds
  <2>3. Now \in CodexTurn
    BY <1>10 DEF StartAnswered, At, AskedInv
  <2>4. activeTurn' \in CodexTurn \cup {NoCodexTurn}
    BY <1>10, <2>3, OpensIs DEF StartAnswered
  <2> QED BY <1>10, <2>1, <2>2, <2>4 DEF StartAnswered, ChannelKinds, SpanKinds, VendorKinds, ThreadKinds
<1>11. CASE TurnEnds
  <2>1. runner' \in RunnerLocals
    BY <1>0, <1>11, TurnEndsIs, RunnerGoes, RunnerKills
  <2>2. result' \in [CodexTurn -> {"none", "OK", "CANCELED"}]
    BY <1>11, TurnEndsIs
  <2>3. terminal' \in [CodexTurn -> Status \cup {"none"}] /\ texts' \in SUBSET CodexTurn
    BY <1>11 DEF TurnEnds, SpanKinds
  <2> QED BY <1>11, <2>1, <2>2, <2>3 DEF TurnEnds, ChannelKinds, SpanKinds, VendorKinds, ThreadKinds
<1>12. CASE TurnLost
  BY <1>0, <1>12, RunnerKills DEF TurnLost, ChannelKinds, SpanKinds, VendorKinds, ThreadKinds
<1>13. CASE WorkerKills
  <2>1. PICK k2 \in KillProgress :
            /\ Kill(runner.kill, k2)
            /\ runner' = [runner EXCEPT !.kill = k2, !.pc = IF k2 = IdleKill THEN "over" ELSE @]
    BY <1>13 DEF WorkerKills
  <2>2. runner' \in RunnerLocals
    BY <1>0, <2>1, RunnerKillIs
  <2>3. ChannelKinds' /\ SpanKinds' /\ VendorKinds'
    BY <2>1, KillKeepsKinds
  <2> QED BY <1>13, <2>2, <2>3 DEF WorkerKills, ThreadKinds
<1> QED BY <1>1, <1>2, <1>3, <1>4, <1>5, <1>6, <1>7, <1>8, <1>9, <1>10, <1>11, <1>12, <1>13 DEF Worker

\* How a request changes its own progress, and nobody else's.
LEMMA ClientIs ==
    ASSUME client \in [Client -> ClientLocals], NEW c \in Client,
           NEW t \in CodexTurn \cup {NoCodexTurn}, NEW place \in ClientPc,
           client' = [client EXCEPT ![c].pc = place, ![c].turn = t]
    PROVE  /\ client' \in [Client -> ClientLocals]
           /\ client'[c].pc = place /\ client'[c].turn = t /\ client'[c].kill = client[c].kill
           /\ \A b \in Client : b # c => client'[b] = client[b]
BY DEF ClientLocals

LEMMA KillerIs ==
    ASSUME client \in [Client -> ClientLocals], NEW c \in Client,
           NEW k \in KillPlaces, NEW place \in ClientPc,
           client' = [client EXCEPT ![c].kill = k, ![c].pc = place]
    PROVE  /\ client' \in [Client -> ClientLocals]
           /\ client'[c].pc = place /\ client'[c].kill = k
           /\ \A b \in Client : b # c => client'[b] = client[b]
BY DEF ClientLocals

LEMMA StopIs ==
    ASSUME client \in [Client -> ClientLocals], NEW c \in Client, Stop(c)
    PROVE  /\ client' \in [Client -> ClientLocals] /\ client'[c].pc = "kill" /\ client'[c].kill.pc = "flags"
           /\ \A b \in Client : b # c => client'[b] = client[b]
<1>1. "kill" \in ClientPc
  BY DEF ClientPc
<1>2. PICK k \in KillPlaces : k = [IdleKill EXCEPT !.pc = "flags"] /\ k.pc = "flags"
  BY IdleKillIs
<1>3. client' = [client EXCEPT ![c].kill = k, ![c].pc = "kill"]
  BY <1>2 DEF Stop
<1>4. /\ client' \in [Client -> ClientLocals] /\ client'[c].pc = "kill" /\ client'[c].kill = k
      /\ \A b \in Client : b # c => client'[b] = client[b]
  BY <1>1, <1>3, KillerIs
<1> QED BY <1>2, <1>4

LEMMA ClientKillIs ==
    ASSUME client \in [Client -> ClientLocals], NEW c \in Client, NEW k2 \in KillProgress, client[c].pc = "kill",
           client' = [client EXCEPT ![c].kill = k2, ![c].pc = IF k2 = IdleKill THEN "over" ELSE @]
    PROVE  /\ client' \in [Client -> ClientLocals] /\ client'[c].kill = k2 /\ client'[c].pc \in {"kill", "over"}
           /\ \A b \in Client : b # c => client'[b] = client[b]
BY IdleKillIs DEF ClientLocals, ClientPc

LEMMA RequestsKeepKinds ==
    ASSUME CodexConstantsOK, CodexKinds, SpanInv, NEW c \in Client, ClientStep(c) PROVE CodexKinds'
<1> USE DEF CodexKinds, rpc, reading, spans, program, vendor, threads
<1>0. client \in [Client -> ClientLocals] /\ {"idle", "await", "kill", "over"} \subseteq ClientPc
  BY DEF ThreadKinds, ClientPc
<1>1. CASE Interrupt(c)
  <2>1. client' \in [Client -> ClientLocals]
    BY <1>0, <1>1, ClientIs DEF Interrupt, SpanKinds
  <2> QED BY <1>1, <2>1 DEF Interrupt, ChannelKinds, SpanKinds, VendorKinds, ThreadKinds
<1>2. CASE Interrupted(c)
  <2>1. client' \in [Client -> ClientLocals]
    BY <1>0, <1>2, ClientIs DEF Interrupted
  <2>2. client[c].turn \in CodexTurn
    BY <1>2 DEF Interrupted, SpanInv
  <2>3. closedTurns' \in SUBSET CodexTurn /\ activeTurn' \in CodexTurn \cup {NoCodexTurn}
    BY <1>2, <2>2, CodexCloseIs DEF Interrupted
  <2> QED BY <1>2, <2>1, <2>3 DEF Interrupted, ChannelKinds, SpanKinds, VendorKinds, ThreadKinds
<1>3. CASE InterruptFails(c)
  <2>1. client' \in [Client -> ClientLocals]
    BY <1>0, <1>3, ClientIs DEF InterruptFails
  <2> QED BY <1>3, <2>1 DEF InterruptFails, ChannelKinds, SpanKinds, VendorKinds, ThreadKinds
<1>4. CASE Stop(c)
  <2>1. client' \in [Client -> ClientLocals]
    BY <1>0, <1>4, StopIs
  <2> QED BY <1>4, <2>1 DEF Stop, ChannelKinds, SpanKinds, VendorKinds, ThreadKinds
<1>5. CASE ClientKills(c)
  <2>1. PICK k2 \in KillProgress :
            /\ Kill(client[c].kill, k2)
            /\ client' = [client EXCEPT ![c].kill = k2, ![c].pc = IF k2 = IdleKill THEN "over" ELSE @]
    BY <1>5 DEF ClientKills
  <2>2. client' \in [Client -> ClientLocals]
    BY <1>0, <1>5, <2>1, ClientKillIs DEF ClientKills
  <2>3. ChannelKinds' /\ SpanKinds' /\ VendorKinds'
    BY <2>1, KillKeepsKinds
  <2> QED BY <1>5, <2>2, <2>3 DEF ClientKills, ThreadKinds
<1> QED BY <1>1, <1>2, <1>3, <1>4, <1>5 DEF ClientStep

(***************************************************************************)
(* What the app-server says is true, and turns are asked for once.         *)
(***************************************************************************)
\* A turn that has ended stays as it ended, and closed.
EndsStay ==
    /\ \A t \in CodexTurn : turn[t] \in Status => turn'[t] = turn[t]
    /\ closedTurns \subseteq closedTurns'

LEMMA StillAgrees == ASSUME EndsStay, NEW m, Agrees(m) PROVE Agrees(m)'
BY DEF Agrees, EndsStay

LEMMA SaidStays == ASSUME SaidInv, EndsStay, wire' = wire, hand' = hand PROVE SaidInv'
<1>1. \A i \in 1 .. Len(wire) : Agrees(wire[i])
  BY DEF SaidInv
<1>2. \A i \in 1 .. Len(wire') : Agrees(wire[i])'
  BY <1>1 DEF Agrees, EndsStay
<1>3. Agrees(hand)'
  BY DEF Agrees, EndsStay, SaidInv
<1> QED BY <1>2, <1>3 DEF SaidInv

LEMMA SaidGrows ==
    ASSUME VendorKinds, SaidInv, EndsStay, hand' = hand, NEW m \in Messages, Says(m), Agrees(m)'
    PROVE  SaidInv'
<1>1. \A i \in 1 .. Len(wire') : wire'[i] = m \/ (i \in 1 .. Len(wire) /\ wire'[i] = wire[i])
  BY SaysIs DEF VendorKinds
<1>2. \A i \in 1 .. Len(wire') : Agrees(wire[i])'
  <2> SUFFICES ASSUME NEW i \in 1 .. Len(wire') PROVE Agrees(wire[i])'
    OBVIOUS
  <2>1. CASE wire'[i] = m
    BY <2>1 DEF Agrees
  <2>2. CASE i \in 1 .. Len(wire) /\ wire'[i] = wire[i]
    <3>1. Agrees(wire[i])
      BY <2>2 DEF SaidInv
    <3> QED BY <2>2, <3>1 DEF Agrees, EndsStay
  <2> QED BY <1>1, <2>1, <2>2
<1>3. Agrees(hand)'
  BY DEF Agrees, EndsStay, SaidInv
<1> QED BY <1>2, <1>3 DEF SaidInv

LEMMA VendorKeepsSaid == ASSUME CodexKinds, SaidInv, Vendor PROVE SaidInv' /\ EndsStay
<1> USE DEF CodexKinds, reading, vendor, spans
<1>1. CASE VendorStarts
  <2>1. PICK t \in CodexTurn : /\ turn[t] = "asked" /\ turn' = [turn EXCEPT ![t] = "running"]
                               /\ Says(Message("started", t, "none"))
    BY <1>1 DEF VendorStarts
  <2>2. EndsStay
    BY <1>1, <2>1 DEF VendorStarts, EndsStay, VendorKinds, Status
  <2>3. PICK m \in Messages : /\ m = Message("started", t, "none") /\ m.kind = "started" /\ m.of = t
    BY MessageIs DEF Request
  <2>4. Agrees(m)'
    BY <2>3 DEF Agrees
  <2> QED BY <1>1, <2>1, <2>2, <2>3, <2>4, SaidGrows DEF VendorStarts
<1>2. CASE VendorAnswers
  <2>1. PICK t \in CodexTurn : Says(Message("answer", t, "none"))
    BY <1>2 DEF VendorAnswers
  <2>2. EndsStay
    BY <1>2 DEF VendorAnswers, EndsStay
  <2>3. PICK m \in Messages : m = Message("answer", t, "none") /\ m.kind = "answer"
    BY MessageIs DEF Request
  <2>4. Agrees(m)'
    BY <2>3 DEF Agrees
  <2> QED BY <1>2, <2>1, <2>2, <2>3, <2>4, SaidGrows DEF VendorAnswers
<1>3. CASE VendorEnds
  <2>1. PICK t \in CodexTurn, s \in Status, text \in BOOLEAN :
            /\ turn[t] = "running" /\ turn' = [turn EXCEPT ![t] = s]
            /\ Says([Message("ended", t, s) EXCEPT !.text = text])
    BY <1>3 DEF VendorEnds
  <2>2. EndsStay
    BY <1>3, <2>1 DEF VendorEnds, EndsStay, VendorKinds, Status
  <2>3. PICK m : m = [Message("ended", t, s) EXCEPT !.text = text]
    OBVIOUS
  <2>4. m \in Messages /\ m.kind = "ended" /\ m.of = t /\ m.status = s
    BY <2>3 DEF Message, Messages, Request
  <2>5. Agrees(m)'
    BY <2>1, <2>4 DEF Agrees, VendorKinds
  <2> QED BY <1>3, <2>1, <2>2, <2>3, <2>4, <2>5, SaidGrows DEF VendorEnds
<1>4. CASE VendorAcks
  <2>1. PICK c \in Client : Says(Message("answer", c, "none"))
    BY <1>4 DEF VendorAcks
  <2>2. EndsStay
    BY <1>4 DEF VendorAcks, EndsStay
  <2>3. PICK m \in Messages : m = Message("answer", c, "none") /\ m.kind = "answer"
    BY MessageIs DEF Request
  <2>4. Agrees(m)'
    BY <2>3 DEF Agrees
  <2> QED BY <1>4, <2>1, <2>2, <2>3, <2>4, SaidGrows DEF VendorAcks
<1>5. CASE VendorDies
  <2>1. EndsStay
    BY <1>5 DEF VendorDies, EndsStay
  <2> QED BY <1>5, <2>1, SaidStays DEF VendorDies
<1> QED BY <1>1, <1>2, <1>3, <1>4, <1>5 DEF Vendor

LEMMA ReaderKeepsSaid == ASSUME CodexKinds, SaidInv, Reader PROVE SaidInv' /\ EndsStay /\ turn' = turn
<1> USE DEF CodexKinds, reading, vendor, spans
<1>0. turn' = turn
  BY DEF Reader, Take, EndOfOutput, Wake, Deliver, Started, Ended, Notify
<1>1. EndsStay
  BY <1>0 DEF EndsStay, Reader, Take, EndOfOutput, Wake, Deliver, Started, Ended, Notify, Close
<1>2. CASE Take
  <2>1. /\ Tail(wire) \in Seq(Messages) /\ Head(wire) = wire[1] /\ 1 \in 1 .. Len(wire)
        /\ \A i \in 1 .. Len(Tail(wire)) : i + 1 \in 1 .. Len(wire) /\ Tail(wire)[i] = wire[i + 1]
    BY <1>2, TakenIs DEF Take, VendorKinds
  <2>2. \A i \in 1 .. Len(wire) : Agrees(wire[i])
    BY DEF SaidInv
  <2>3. \A i \in 1 .. Len(wire') : Agrees(wire[i])'
    BY <1>0, <1>2, <2>1, <2>2 DEF Take, Agrees
  <2>4. Agrees(hand)'
    BY <1>0, <1>2, <2>1, <2>2 DEF Take, Agrees, SaidInv
  <2> QED BY <1>0, <1>1, <2>3, <2>4 DEF SaidInv
<1>3. CASE EndOfOutput \/ Wake
  BY <1>0, <1>1, <1>3, SaidStays DEF EndOfOutput, Wake
<1>4. CASE Deliver \/ Started \/ Notify
  <2>1. wire' = wire /\ hand' = NoMessage
    BY <1>4 DEF Deliver, Started, Notify
  <2>2. Agrees(hand)'
    BY <2>1, NoMessageIs DEF Agrees
  <2>3. \A i \in 1 .. Len(wire') : Agrees(wire[i])'
    BY <1>1, <2>1 DEF SaidInv, Agrees, EndsStay
  <2> QED BY <1>0, <1>1, <2>2, <2>3 DEF SaidInv
<1>5. CASE Ended
  <2>1. /\ wire' = wire /\ hand' = [hand EXCEPT !.kind = "notify"] /\ hand.kind = "ended"
        /\ hand.of \in closedTurns'
    BY <1>5 DEF Ended, Close
  <2>2. Agrees(hand)'
    BY <1>0, <2>1 DEF Agrees, SaidInv, VendorKinds, Messages
  <2>3. \A i \in 1 .. Len(wire') : Agrees(wire[i])'
    BY <1>1, <2>1 DEF SaidInv, Agrees, EndsStay
  <2> QED BY <1>0, <1>1, <2>2, <2>3 DEF SaidInv
<1> QED BY <1>2, <1>3, <1>4, <1>5 DEF Reader

LEMMA KillSaysNothing ==
    ASSUME NEW k, NEW k2, Kill(k, k2)
    PROVE  turn' = turn /\ wire' = wire /\ hand' = hand /\ closedTurns \subseteq closedTurns'
BY DEF Kill, KillFlags, Reap, Terminalize, Close, vendor, reading, spans

LEMMA ThreadsKeepSaid ==
    ASSUME CodexKinds, SaidInv, AskedInv, Worker \/ \E c \in Client : ClientStep(c)
    PROVE  SaidInv' /\ EndsStay
<1> USE DEF vendor, reading, spans
<1>1. CASE Send
  <2>1. turn' = turn \/ (turn[Now] = "none" /\ turn' = [turn EXCEPT ![Now] = "asked"])
    BY <1>1 DEF Send, At, AskedInv
  <2>2. EndsStay
    BY <1>1, <2>1 DEF Send, EndsStay, CodexKinds, VendorKinds, Status
  <2> QED BY <1>1, <2>2, SaidStays DEF Send
<1>2. CASE (Worker /\ ~Send) \/ \E c \in Client : ClientStep(c)
  <2>1. turn' = turn /\ wire' = wire /\ hand' = hand /\ closedTurns \subseteq closedTurns'
    <3>1. CASE WorkerKills
      BY <3>1, KillSaysNothing DEF WorkerKills
    <3>2. CASE \E c \in Client : ClientKills(c)
      BY <3>2, KillSaysNothing DEF ClientKills
    <3>3. CASE \E c \in Client : ClientStep(c) /\ ~ClientKills(c)
      BY <3>3 DEF ClientStep, Interrupt, Interrupted, InterruptFails, Stop, Close
    <3>4. CASE Worker /\ ~Send /\ ~WorkerKills
      BY <3>4 DEF Worker, SpawnServer, StartThread, Verified, OpenFails, RunTurn, TurnRefused, Ask, StartFails,
                  StartAnswered, TurnEnds, TurnLost
    <3> QED BY <1>2, <3>1, <3>2, <3>3, <3>4 DEF ClientStep
  <2>2. EndsStay
    BY <2>1 DEF EndsStay
  <2> QED BY <2>1, <2>2, SaidStays
<1> QED BY <1>1, <1>2

\* run_turn's turn is asked for by Send alone, and the app-server begins what it was asked.
LEMMA AskedFrame ==
    ASSUME AskedInv, VendorKinds, runner'.turn = runner.turn,
           runner'.pc \in {"look", "ask"} => runner.pc \in {"look", "ask"},
           runner'.pc \in {"await", "wait"} => runner.pc \in {"look", "ask", "await", "wait"},
           \A t \in CodexTurn : turn[t] = "none" => turn'[t] = "none"
    PROVE  AskedInv'
BY DEF AskedInv, Now

LEMMA AskedKept == ASSUME CodexConstantsOK, CodexKinds, AskedInv, CodexNext PROVE AskedInv'
<1> USE DEF CodexKinds, vendor, threads
<1>0. VendorKinds /\ runner \in RunnerLocals
  BY DEF ThreadKinds
<1>1. CASE Vendor
  <2>1. runner' = runner
    BY <1>1 DEF Vendor, VendorStarts, VendorAnswers, VendorEnds, VendorAcks, VendorDies
  <2>2. \A t \in CodexTurn : turn[t] = "none" => turn'[t] = "none"
    BY <1>0, <1>1 DEF Vendor, VendorStarts, VendorAnswers, VendorEnds, VendorAcks, VendorDies, VendorKinds
  <2> QED BY <1>0, <2>1, <2>2, AskedFrame
<1>2. CASE Reader
  <2>1. runner' = runner /\ turn' = turn
    BY <1>2 DEF Reader, Take, EndOfOutput, Wake, Deliver, Started, Ended, Notify
  <2> QED BY <1>0, <2>1, AskedFrame
<1>3. CASE \E c \in Client : ClientStep(c)
  <2>1. PICK c \in Client : ClientStep(c)
    BY <1>3
  <2>2. runner' = runner /\ turn' = turn
    <3>1. CASE ClientKills(c)
      BY <3>1, KillSaysNothing DEF ClientKills
    <3>2. CASE ~ClientKills(c)
      BY <2>1, <3>2 DEF ClientStep, Interrupt, Interrupted, InterruptFails, Stop
    <3> QED BY <3>1, <3>2
  <2> QED BY <1>0, <2>2, AskedFrame
<1>4. CASE Worker
  <2>0. \A x \in {"open", "handshake", "verify", "idle", "look", "ask", "await", "wait", "kill", "over"} :
            x \in RunnerPc
    BY DEF RunnerPc
  <2>1. CASE RunTurn
    <3>1. runner'.pc = "look" /\ runner'.turn = runner.turn + 1 /\ runner'.turn \in CodexTurn
      BY <1>0, <2>1, RunnerStarts
    <3>2. turn' = turn
      BY <2>1 DEF RunTurn
    <3>3. runner.turn \in Nat
      BY <1>0 DEF RunnerLocals, CodexConstantsOK
    <3>4. \A t \in CodexTurn : t \in Int /\ (t >= runner.turn + 1 => t > runner.turn)
      BY <3>3 DEF CodexTurn
    <3> QED BY <3>1, <3>2, <3>3, <3>4 DEF AskedInv, Now
  <2>2. CASE StartThread
    BY <1>0, <2>2, RunnerStarts, AskedFrame DEF StartThread
  <2>3. CASE Send
    <3>1. runner'.pc = "await" /\ runner'.turn = runner.turn
      BY <1>0, <2>0, <2>3, RunnerGoes DEF Send
    <3>2. Now \in CodexTurn
      BY <2>3 DEF Send, At, AskedInv
    <3>3. \A t \in CodexTurn : t # Now => turn'[t] = turn[t]
      BY <2>3 DEF Send, VendorKinds
    <3>4. \A t \in CodexTurn : t > Now => t # Now
      BY <3>2 DEF CodexTurn
    <3> QED BY <3>1, <3>2, <3>3, <3>4 DEF AskedInv, Now
  <2>4. CASE WorkerKills
    <3>1. PICK k2 \in KillProgress :
              /\ Kill(runner.kill, k2)
              /\ runner' = [runner EXCEPT !.kill = k2, !.pc = IF k2 = IdleKill THEN "over" ELSE @]
      BY <2>4 DEF WorkerKills
    <3>2. runner'.turn = runner.turn /\ runner'.pc \in {"over", "kill"}
      BY <1>0, <2>4, <3>1, RunnerKillIs DEF WorkerKills, At
    <3>3. turn' = turn
      BY <3>1, KillSaysNothing
    <3> QED BY <1>0, <3>2, <3>3, AskedFrame
  <2>5. CASE OpenFails \/ TurnLost
    <3>1. runner'.turn = runner.turn /\ runner'.pc = "kill" /\ turn' = turn
      BY <1>0, <2>5, RunnerKills DEF OpenFails, TurnLost
    <3> QED BY <1>0, <3>1, AskedFrame
  <2>6. CASE SpawnServer \/ Verified \/ TurnRefused
    <3>1. runner'.turn = runner.turn /\ runner'.pc \in {"handshake", "idle", "over"} /\ turn' = turn
      BY <1>0, <2>0, <2>6, RunnerGoes DEF SpawnServer, Verified, TurnRefused
    <3> QED BY <1>0, <3>1, AskedFrame
  <2>7. CASE Ask
    <3>1. runner'.turn = runner.turn /\ runner'.pc = "ask" /\ runner.pc = "look" /\ turn' = turn
      BY <1>0, <2>0, <2>7, RunnerGoes DEF Ask, At
    <3> QED BY <1>0, <3>1, AskedFrame
  <2>8. CASE StartFails
    <3>1. runner'.turn = runner.turn /\ runner'.pc \in {"idle", "over"} /\ turn' = turn
      BY <1>0, <2>0, <2>8, RunnerGoes DEF StartFails
    <3> QED BY <1>0, <3>1, AskedFrame
  <2>9. CASE StartAnswered
    <3>1. runner'.turn = runner.turn /\ runner'.pc = "wait" /\ runner.pc = "await" /\ turn' = turn
      BY <1>0, <2>0, <2>9, RunnerGoes DEF StartAnswered, At
    <3> QED BY <1>0, <3>1, AskedFrame
  <2>10. CASE TurnEnds
    <3>1. runner'.turn = runner.turn /\ runner'.pc \in {"idle", "kill"}
      BY <1>0, <2>0, <2>10, TurnEndsIs, RunnerGoes, RunnerKills
    <3>2. turn' = turn
      BY <2>10 DEF TurnEnds
    <3> QED BY <1>0, <3>1, <3>2, AskedFrame
  <2> QED BY <1>4, <2>1, <2>2, <2>3, <2>4, <2>5, <2>6, <2>7, <2>8, <2>9, <2>10 DEF Worker
<1> QED BY <1>1, <1>2, <1>3, <1>4 DEF CodexNext

(***************************************************************************)
(* Spans.                                                                  *)
(***************************************************************************)
\* Closed turns stay closed, ended ones ended, and what is newly known of a turn's end is true.
LEMMA SpanFrame ==
    ASSUME CodexKinds, CodexKinds', SpanInv, EndsStay, activeTurn' \notin closedTurns',
           \A t \in CodexTurn : \/ terminal'[t] \in {terminal[t], "none"}
                                \/ t \in closedTurns' /\ turn'[t] = terminal'[t],
           \A t \in CodexTurn : \/ result'[t] = result[t]
                                \/ /\ t \in closedTurns'
                                   /\ result'[t] = "OK" => turn'[t] = "completed"
                                   /\ result'[t] = "CANCELED" => turn'[t] = "interrupted",
           \A c \in Client : client'[c].pc = "await" => client'[c].turn \in CodexTurn
    PROVE  SpanInv'
<1>1. \A t \in CodexTurn : /\ terminal[t] \in Status \cup {"none"} /\ terminal'[t] \in Status \cup {"none"}
                           /\ result[t] \in {"none", "OK", "CANCELED"}
  BY DEF CodexKinds, SpanKinds, ThreadKinds
<1> QED BY <1>1 DEF SpanInv, EndsStay, Status

\* Where no span, result or message is touched.
LEMMA SpanUntouched ==
    ASSUME CodexKinds, CodexKinds', SpanInv, EndsStay, activeTurn' = activeTurn, closedTurns' = closedTurns,
           terminal' = terminal, result' = result,
           \A c \in Client : client'[c].pc = "await" => client[c].pc = "await" /\ client'[c].turn = client[c].turn
    PROVE  SpanInv'
BY SpanFrame DEF SpanInv

LEMMA VendorKeepsSpans == ASSUME CodexKinds, CodexKinds', SpanInv, EndsStay, Vendor PROVE SpanInv'
<1>1. /\ activeTurn' = activeTurn /\ closedTurns' = closedTurns /\ terminal' = terminal
      /\ result' = result
  BY DEF Vendor, VendorStarts, VendorAnswers, VendorEnds, VendorAcks, VendorDies, spans, threads, reading
<1>2. \A c \in Client : client'[c].pc = client[c].pc /\ client'[c].turn = client[c].turn
  BY DEF Vendor, VendorStarts, VendorAnswers, VendorEnds, VendorAcks, VendorDies, threads, CodexKinds,
         ThreadKinds, ClientLocals
<1> QED BY <1>1, <1>2, SpanUntouched

LEMMA ReaderKeepsSpans ==
    ASSUME CodexKinds, CodexKinds', SaidInv, SpanInv, EndsStay, turn' = turn, Reader PROVE SpanInv'
<1> USE DEF spans, threads, reading
<1>0. result' = result /\ client' = client
  BY DEF Reader, Take, EndOfOutput, Wake, Deliver, Started, Ended, Notify
<1>1. CASE EndOfOutput \/ Wake \/ Deliver \/ Take
  BY <1>0, <1>1, SpanUntouched DEF EndOfOutput, Wake, Deliver, Take
<1>2. \A c \in Client : client'[c].pc = "await" => client'[c].turn \in CodexTurn
  BY <1>0 DEF SpanInv
<1>3. CASE Started
  <2>1. hand.of \in CodexTurn
    BY <1>3 DEF Started, SaidInv, Agrees
  <2>2. activeTurn' \notin closedTurns'
    BY <1>3, <2>1, OpensIs DEF Started, SpanInv, CodexKinds
  <2> QED BY <1>0, <1>2, <1>3, <2>2, SpanFrame DEF Started
<1>4. CASE Ended
  <2>1. hand.of \in CodexTurn
    BY <1>4 DEF Ended, SaidInv, Agrees
  <2>2. activeTurn' \notin closedTurns'
    BY <1>4, <2>1, CodexCloseIs DEF Ended, SpanInv, CodexKinds
  <2> QED BY <1>0, <1>2, <1>4, <2>2, SpanFrame DEF Ended
<1>5. CASE Notify
  <2>1. hand.of \in CodexTurn /\ turn[hand.of] = hand.status /\ hand.of \in closedTurns
    BY <1>5 DEF Notify, SaidInv, Agrees
  <2>2. terminal' = [terminal EXCEPT ![hand.of] = hand.status] /\ closedTurns' = closedTurns
        /\ activeTurn' = activeTurn
    BY <1>5 DEF Notify
  <2>3. \A t \in CodexTurn : \/ terminal'[t] \in {terminal[t], "none"}
                             \/ t \in closedTurns' /\ turn'[t] = terminal'[t]
    BY <2>1, <2>2 DEF CodexKinds, SpanKinds
  <2> QED BY <1>0, <1>2, <2>2, <2>3, SpanFrame DEF SpanInv
<1> QED BY <1>1, <1>3, <1>4, <1>5 DEF Reader

\* A kill closes the span it finds and no other.
LEMMA KillKeepsSpans ==
    ASSUME SpanKinds, activeTurn \notin closedTurns, NEW k, NEW k2, Kill(k, k2)
    PROVE  activeTurn' \notin closedTurns' /\ terminal' = terminal
<1> USE DEF spans
<1>1. CASE KillFlags(k, k2) \/ Reap(k, k2)
  BY <1>1 DEF KillFlags, Reap
<1>2. CASE Terminalize(k, k2)
  BY <1>2, CodexCloseIs DEF Terminalize, SpanKinds
<1> QED BY <1>1, <1>2 DEF Kill

LEMMA RunnerKeepsSpans ==
    ASSUME CodexKinds, CodexKinds', AskedInv, SpanInv, EndsStay, Worker PROVE SpanInv'
<1> USE DEF spans, threads
<1>0. client' = client
  BY DEF Worker, SpawnServer, StartThread, Verified, OpenFails, RunTurn, TurnRefused, Ask, Send, StartFails,
         StartAnswered, TurnEnds, TurnLost, WorkerKills
<1>1. \A c \in Client : client'[c].pc = "await" => client'[c].turn \in CodexTurn
  BY <1>0 DEF SpanInv
<1>2. CASE SpawnServer \/ StartThread \/ Verified \/ OpenFails \/ RunTurn \/ TurnRefused \/ Ask \/ Send
           \/ StartFails \/ TurnLost
  BY <1>0, <1>2, SpanUntouched DEF SpawnServer, StartThread, Verified, OpenFails, RunTurn, TurnRefused, Ask, Send,
                                   StartFails, TurnLost
<1>3. CASE StartAnswered
  <2>1. Now \in CodexTurn
    BY <1>3 DEF StartAnswered, At, AskedInv
  <2>2. activeTurn' \notin closedTurns'
    BY <1>3, <2>1, OpensIs DEF StartAnswered, SpanInv, CodexKinds
  <2> QED BY <1>1, <1>3, <2>2, SpanFrame DEF StartAnswered
<1>4. CASE TurnEnds
  <2>1. /\ At("wait") /\ terminal[Now] # "none"
        /\ \/ result' = result
           \/ /\ \A t \in CodexTurn : t # Now => result'[t] = result[t]
              /\ terminal[Now] = "interrupted" => result'[Now] = "CANCELED"
              /\ terminal[Now] # "interrupted" => terminal[Now] # "failed" /\ result'[Now] = "OK"
    BY <1>4, TurnEndsIs DEF CodexKinds
  <2>2. Now \in CodexTurn
    BY <2>1 DEF At, AskedInv
  <2>3. /\ turn[Now] = terminal[Now] /\ Now \in closedTurns
        /\ terminal[Now] \in {"completed", "interrupted", "failed"}
    BY <2>1, <2>2 DEF SpanInv, CodexKinds, SpanKinds, Status
  <2>4. /\ turn'[Now] = turn[Now] /\ closedTurns' = closedTurns /\ activeTurn' = activeTurn
        /\ terminal' = [terminal EXCEPT ![Now] = "none"]
    BY <1>4, <2>2, <2>3 DEF TurnEnds, EndsStay, Status
  <2>5. \A t \in CodexTurn : \/ terminal'[t] \in {terminal[t], "none"}
                             \/ t \in closedTurns' /\ turn'[t] = terminal'[t]
    BY <2>4 DEF CodexKinds, SpanKinds
  <2>6. \A t \in CodexTurn : \/ result'[t] = result[t]
                             \/ /\ t \in closedTurns'
                                /\ result'[t] = "OK" => turn'[t] = "completed"
                                /\ result'[t] = "CANCELED" => turn'[t] = "interrupted"
    BY <2>1, <2>3, <2>4
  <2> QED BY <1>1, <2>4, <2>5, <2>6, SpanFrame DEF SpanInv
<1>5. CASE WorkerKills
  <2>1. PICK k2 \in KillProgress : Kill(runner.kill, k2)
    BY <1>5 DEF WorkerKills
  <2>2. activeTurn' \notin closedTurns' /\ terminal' = terminal
    BY <2>1, KillKeepsSpans DEF SpanInv, CodexKinds
  <2>3. result' = result
    BY <1>5 DEF WorkerKills
  <2> QED BY <1>1, <2>2, <2>3, SpanFrame
<1> QED BY <1>2, <1>3, <1>4, <1>5 DEF Worker

LEMMA RequestsKeepSpans ==
    ASSUME CodexKinds, CodexKinds', SpanInv, EndsStay, NEW c \in Client, ClientStep(c) PROVE SpanInv'
<1> USE DEF spans, threads
<1>0. client \in [Client -> ClientLocals] /\ {"idle", "await", "kill", "over"} \subseteq ClientPc
  BY DEF ThreadKinds, ClientPc, CodexKinds
<1>1. CASE Interrupt(c)
  <2>1. activeTurn \in CodexTurn
    BY <1>1 DEF Interrupt, CodexKinds, SpanKinds
  <2>2. client'[c].turn = activeTurn /\ \A b \in Client : b # c => client'[b] = client[b]
    BY <1>0, <1>1, <2>1, ClientIs DEF Interrupt
  <2>3. \A b \in Client : client'[b].pc = "await" => client'[b].turn \in CodexTurn
    BY <2>1, <2>2 DEF SpanInv
  <2> QED BY <1>1, <2>3, SpanFrame DEF Interrupt, SpanInv
<1>2. CASE Interrupted(c)
  <2>1. client[c].turn \in CodexTurn
    BY <1>2 DEF Interrupted, SpanInv
  <2>2. activeTurn' \notin closedTurns'
    BY <1>2, <2>1, CodexCloseIs DEF Interrupted, SpanInv, CodexKinds
  <2>3. client'[c].pc = "over" /\ \A b \in Client : b # c => client'[b] = client[b]
    BY <1>0, <1>2 DEF Interrupted, ClientLocals
  <2>4. \A b \in Client : client'[b].pc = "await" => client'[b].turn \in CodexTurn
    BY <2>3 DEF SpanInv
  <2> QED BY <1>2, <2>2, <2>4, SpanFrame DEF Interrupted
<1>3. CASE InterruptFails(c)
  <2>1. client'[c].pc = "over" /\ \A b \in Client : b # c => client'[b] = client[b]
    BY <1>0, <1>3 DEF InterruptFails, ClientLocals
  <2> QED BY <1>3, <2>1, SpanUntouched DEF InterruptFails
<1>4. CASE Stop(c)
  <2>1. client'[c].pc = "kill" /\ \A b \in Client : b # c => client'[b] = client[b]
    BY <1>0, <1>4, StopIs
  <2> QED BY <1>4, <2>1, SpanUntouched DEF Stop
<1>5. CASE ClientKills(c)
  <2>1. PICK k2 \in KillProgress :
            /\ Kill(client[c].kill, k2)
            /\ client' = [client EXCEPT ![c].kill = k2, ![c].pc = IF k2 = IdleKill THEN "over" ELSE @]
    BY <1>5 DEF ClientKills
  <2>2. client'[c].pc \in {"kill", "over"} /\ \A b \in Client : b # c => client'[b] = client[b]
    BY <1>0, <1>5, <2>1, ClientKillIs DEF ClientKills
  <2>3. activeTurn' \notin closedTurns' /\ terminal' = terminal
    BY <2>1, KillKeepsSpans DEF SpanInv, CodexKinds
  <2>4. \A b \in Client : client'[b].pc = "await" => client'[b].turn \in CodexTurn
    BY <2>2 DEF SpanInv
  <2>5. result' = result
    BY <1>5 DEF ClientKills
  <2> QED BY <2>3, <2>4, <2>5, SpanFrame
<1> QED BY <1>1, <1>2, <1>3, <1>4, <1>5 DEF ClientStep

(***************************************************************************)
(* The process and the thread's lease.                                     *)
(***************************************************************************)
\* What a kill says of the process is right, and the lease outlives the process.
LEMMA KillIsRight ==
    ASSUME ChannelKinds, server = "alive" => attached, NEW k \in KillPlaces, Right(k),
           NEW k2 \in KillProgress, Kill(k, k2)
    PROVE  /\ k2.pc = "spans" /\ k2.proven => server' # "alive"
           /\ server' = "alive" => server = "alive" /\ attached'
           /\ server' = "alive" /\ leased => leased'
           /\ k.pc # "idle" /\ (k2 # IdleKill => k2.pc # "idle")
<1> USE DEF rpc, reading, spans, program
<1>1. CASE KillFlags(k, k2)
  BY <1>1 DEF KillFlags, KillPlaces
<1>2. CASE Reap(k, k2)
  <2>1. PICK proven \in BOOLEAN :
            /\ k2 = [k EXCEPT !.pc = "spans", !.proven = proven]
            /\ IF proven THEN /\ attached' = FALSE
                             /\ server' = IF attached THEN "dead" ELSE server
               ELSE attached /\ UNCHANGED <<attached, server>>
    BY <1>2 DEF Reap
  <2>2. k2.pc = "spans" /\ k2.proven = proven
    BY <2>1 DEF KillPlaces
  <2>3. leased' = leased /\ k.pc = "reap"
    BY <1>2 DEF Reap
  <2> QED BY <2>1, <2>2, <2>3
<1>3. CASE Terminalize(k, k2)
  <2>1. k2 = IdleKill /\ k.pc = "spans" /\ server' = server /\ attached' = attached
    BY <1>3 DEF Terminalize
  <2>2. leased' = leased \/ k.proven
    BY <1>3 DEF Terminalize
  <2>3. k.proven => server # "alive"
    BY <2>1 DEF Right
  <2> QED BY <2>1, <2>2, <2>3, IdleKillIs
<1> QED BY <1>1, <1>2, <1>3 DEF Kill

\* Steps that leave kills and the lease alone, and do not start the process.
LEMMA ServerFrame ==
    ASSUME ServerInv, server' = "alive" => server = "alive", attached' = attached, leased' = leased,
           runner'.thread = runner.thread, runner'.kill = runner.kill,
           runner.pc = "kill" => runner'.pc = "kill",
           runner'.pc \in {"open", "handshake"} => runner.pc \in {"open", "handshake"},
           IsOpen => IsOpen',
           \A c \in Client : client'[c].kill = client[c].kill
    PROVE  ServerInv'
BY DEF ServerInv, Right

LEMMA VendorKeepsServer == ASSUME CodexKinds, ServerInv, Vendor PROVE ServerInv'
<1>1. /\ server' = "alive" => server = "alive"
      /\ attached' = attached /\ leased' = leased /\ runner' = runner
  BY DEF Vendor, VendorStarts, VendorAnswers, VendorEnds, VendorAcks, VendorDies, program, threads
<1>2. \A c \in Client : client'[c].kill = client[c].kill
  BY DEF Vendor, VendorStarts, VendorAnswers, VendorEnds, VendorAcks, VendorDies, threads, CodexKinds,
         ThreadKinds, ClientLocals
<1> QED BY <1>1, <1>2, ServerFrame DEF IsOpen

LEMMA ReaderKeepsServer == ASSUME ServerInv, Reader PROVE ServerInv'
<1>1. server' = server /\ attached' = attached /\ leased' = leased /\ runner' = runner /\ client' = client
  BY DEF Reader, Take, EndOfOutput, Wake, Deliver, Started, Ended, Notify, program, threads
<1> QED BY <1>1, ServerFrame DEF IsOpen

LEMMA RequestsKeepServer ==
    ASSUME CodexKinds, ServerInv, NEW c \in Client, ClientStep(c) PROVE ServerInv'
<1> USE DEF program
<1>0. client \in [Client -> ClientLocals] /\ runner' = runner
  BY DEF CodexKinds, ThreadKinds, ClientStep, Interrupt, Interrupted, InterruptFails, Stop, ClientKills
<1>1. CASE Interrupt(c) \/ Interrupted(c) \/ InterruptFails(c)
  <2>1. \A b \in Client : client'[b].kill = client[b].kill
    BY <1>0, <1>1 DEF Interrupt, Interrupted, InterruptFails, ClientLocals
  <2> QED BY <1>0, <1>1, <2>1, ServerFrame DEF Interrupt, Interrupted, InterruptFails, IsOpen
<1>2. CASE Stop(c)
  <2>1. client'[c].kill.pc = "flags" /\ \A b \in Client : b # c => client'[b] = client[b]
    BY <1>0, <1>2, StopIs
  <2> QED BY <1>0, <1>2, <2>1 DEF Stop, ServerInv, Right, IsOpen
<1>3. CASE ClientKills(c)
  <2>1. PICK k2 \in KillProgress :
            /\ Kill(client[c].kill, k2)
            /\ client' = [client EXCEPT ![c].kill = k2, ![c].pc = IF k2 = IdleKill THEN "over" ELSE @]
    BY <1>3 DEF ClientKills
  <2>2. client'[c].kill = k2 /\ \A b \in Client : b # c => client'[b] = client[b]
    BY <1>0, <1>3, <2>1, ClientKillIs DEF ClientKills
  <2>3. PICK k \in KillPlaces : k = client[c].kill
    BY <1>0 DEF ClientLocals
  <2>4. /\ k2.pc = "spans" /\ k2.proven => server' # "alive"
        /\ server' = "alive" => server = "alive" /\ attached'
        /\ server' = "alive" /\ leased => leased'
        /\ k.pc # "idle"
    BY <2>1, <2>3, KillIsRight DEF ServerInv, CodexKinds
  <2>5. IsOpen
    BY <2>3, <2>4 DEF ServerInv
  <2> QED BY <1>0, <2>2, <2>4, <2>5 DEF ServerInv, Right, IsOpen
<1> QED BY <1>1, <1>2, <1>3 DEF ClientStep

LEMMA RunnerKeepsServer ==
    ASSUME CodexConstantsOK, CodexKinds, ServerInv, Worker PROVE ServerInv'
<1> USE DEF program, threads
<1>0. /\ \A x \in {"open", "handshake", "verify", "idle", "look", "ask", "await", "wait", "kill", "over"} :
            x \in RunnerPc
      /\ runner \in RunnerLocals /\ ThreadKinds
      /\ client' = client
  BY DEF RunnerPc, CodexKinds, ThreadKinds, Worker, SpawnServer, StartThread, Verified, OpenFails, RunTurn,
         TurnRefused, Ask, Send, StartFails, StartAnswered, TurnEnds, TurnLost, WorkerKills
<1>1. CASE SpawnServer
  <2>1. /\ runner.pc = "open" /\ runner'.pc = "handshake"
        /\ runner'.thread = runner.thread /\ runner'.kill = runner.kill
    BY <1>0, <1>1, RunnerGoes DEF SpawnServer, At
  <2>2. ~runner.thread /\ runner.kill.pc = "idle" /\ \A c \in Client : client[c].kill.pc = "idle"
    BY <2>1 DEF ServerInv, IsOpen
  <2>3. attached' /\ leased' = leased
    BY <1>1 DEF SpawnServer
  <2> QED BY <1>0, <2>1, <2>2, <2>3 DEF ServerInv, Right, IsOpen
<1>2. CASE StartThread
  <2>1. /\ runner.pc = "handshake" /\ runner'.pc = "verify" /\ runner'.kill = runner.kill
    BY <1>0, <1>2, RunnerStarts DEF StartThread, At
  <2>2. leased' /\ server' = server /\ attached' = attached
    BY <1>2 DEF StartThread
  <2> QED BY <1>0, <2>1, <2>2 DEF ServerInv, Right, IsOpen
<1>3. CASE OpenFails \/ TurnLost \/ (TurnEnds /\ Kills)
  <2>1. runner.pc # "kill"
    BY <1>3, TurnEndsIs, <1>0 DEF OpenFails, TurnLost, At
  <2>2. runner'.pc = "kill" /\ runner'.kill.pc = "flags" /\ runner'.thread = runner.thread
    BY <1>0, <1>3, RunnerKills DEF OpenFails, TurnLost
  <2>3. server' = server /\ attached' = attached /\ leased' = leased
    BY <1>3 DEF OpenFails, TurnLost, TurnEnds
  <2> QED BY <1>0, <2>1, <2>2, <2>3 DEF ServerInv, Right, IsOpen
<1>4. CASE Verified \/ Ask \/ Send \/ StartAnswered \/ TurnRefused \/ StartFails \/ (TurnEnds /\ GoesTo("idle"))
  <2>1. /\ runner.pc \in {"verify", "look", "ask", "await", "wait"}
        /\ runner'.pc \in {"idle", "ask", "await", "wait", "over"}
        /\ runner'.thread = runner.thread /\ runner'.kill = runner.kill
    BY <1>0, <1>4, RunnerGoes, TurnEndsIs DEF Verified, Ask, Send, StartAnswered, TurnRefused, StartFails, At
  <2>2. server' = server /\ attached' = attached /\ leased' = leased
    BY <1>4 DEF Verified, Ask, Send, StartAnswered, TurnRefused, StartFails, TurnEnds
  <2> QED BY <1>0, <2>1, <2>2, ServerFrame DEF IsOpen
<1>5. CASE RunTurn
  <2>1. /\ runner.pc = "idle" /\ runner'.pc = "look"
        /\ runner'.thread = runner.thread /\ runner'.kill = runner.kill
    BY <1>0, <1>5, RunnerStarts DEF RunTurn, At
  <2>2. server' = server /\ attached' = attached /\ leased' = leased
    BY <1>5 DEF RunTurn
  <2> QED BY <1>0, <2>1, <2>2, ServerFrame DEF IsOpen
<1>6. CASE WorkerKills
  <2>1. PICK k2 \in KillProgress :
            /\ Kill(runner.kill, k2)
            /\ runner' = [runner EXCEPT !.kill = k2, !.pc = IF k2 = IdleKill THEN "over" ELSE @]
    BY <1>6 DEF WorkerKills
  <2>2. /\ runner'.kill = k2 /\ runner'.thread = runner.thread /\ runner.pc = "kill"
        /\ runner'.pc = IF k2 = IdleKill THEN "over" ELSE runner.pc
    BY <1>0, <1>6, <2>1, RunnerKillIs DEF WorkerKills, At
  <2>3. PICK k \in KillPlaces : k = runner.kill
    BY <1>0 DEF RunnerLocals
  <2>4. /\ k2.pc = "spans" /\ k2.proven => server' # "alive"
        /\ server' = "alive" => server = "alive" /\ attached'
        /\ server' = "alive" /\ leased => leased'
    BY <2>1, <2>3, KillIsRight DEF ServerInv, CodexKinds
  <2>5. k2 = IdleKill => k2.pc = "idle"
    BY IdleKillIs
  <2> QED BY <1>0, <2>2, <2>4, <2>5 DEF ServerInv, Right, IsOpen
<1>7. CASE TurnEnds
  BY <1>0, <1>3, <1>4, <1>7, TurnEndsIs
<1> QED BY <1>1, <1>2, <1>3, <1>4, <1>5, <1>6, <1>7 DEF Worker

----------------------------------------------------------------------------
LEMMA CodexInitInv == ASSUME CodexConstantsOK, CodexInit PROVE CodexInv
<1>1. 0 \in 0 .. MaxCodexTurns /\ \A t \in CodexTurn : t # 0
  BY DEF CodexConstantsOK, CodexTurn
<1>2. CodexKinds
  <2>1. runner \in RunnerLocals
    BY <1>1, IdleKillIs DEF CodexInit, RunnerLocals, RunnerPc, NoCodexTurn
  <2>2. client \in [Client -> ClientLocals]
    BY IdleKillIs DEF CodexInit, ClientLocals, ClientPc
  <2>3. wire \in Seq(Messages)
    BY DEF CodexInit
  <2> QED BY <2>1, <2>2, <2>3, NoMessageIs
          DEF CodexInit, CodexKinds, ChannelKinds, SpanKinds, VendorKinds, ThreadKinds
<1>3. SaidInv
  BY NoMessageIs DEF CodexInit, SaidInv, Agrees
<1>4. AskedInv
  BY DEF CodexInit, AskedInv
<1>5. SpanInv
  BY DEF CodexInit, SpanInv
<1>6. ServerInv
  BY IdleKillIs DEF CodexInit, ServerInv, Right
<1> QED BY <1>2, <1>3, <1>4, <1>5, <1>6 DEF CodexInv

\* What run_turn, the reader of the app-server's output and the requests of other
\* threads make of its messages fits together (CodexInv), for any number of turns and
\* requests, whatever the app-server leaves out, delays or reorders (codex.py).
THEOREM CodexInvHolds ==
    ASSUME CodexConstantsOK
    PROVE  CodexSpec => []CodexInv
<1>1. CodexInit => CodexInv
  BY CodexInitInv
<1>2. CodexInv /\ [CodexNext]_codexVars => CodexInv'
  <2> SUFFICES ASSUME CodexInv, [CodexNext]_codexVars PROVE CodexInv'
    OBVIOUS
  <2> USE DEF CodexInv
  <2>1. CASE Vendor
    <3>1. CodexKinds' /\ SaidInv' /\ EndsStay
      BY <2>1, VendorKeepsKinds, VendorKeepsSaid
    <3>2. AskedInv' /\ ServerInv'
      BY <2>1, AskedKept, VendorKeepsServer DEF CodexNext
    <3> QED BY <2>1, <3>1, <3>2, VendorKeepsSpans
  <2>2. CASE Reader
    <3>1. CodexKinds' /\ SaidInv' /\ EndsStay /\ turn' = turn
      BY <2>2, ReaderKeepsKinds, ReaderKeepsSaid
    <3>2. AskedInv' /\ ServerInv'
      BY <2>2, AskedKept, ReaderKeepsServer DEF CodexNext
    <3> QED BY <2>2, <3>1, <3>2, ReaderKeepsSpans
  <2>3. CASE Worker
    <3>1. CodexKinds' /\ SaidInv' /\ EndsStay
      BY <2>3, RunnerKeepsKinds, ThreadsKeepSaid
    <3>2. AskedInv' /\ ServerInv'
      BY <2>3, AskedKept, RunnerKeepsServer DEF CodexNext
    <3> QED BY <2>3, <3>1, <3>2, RunnerKeepsSpans
  <2>4. CASE \E c \in Client : ClientStep(c)
    <3>1. PICK c \in Client : ClientStep(c)
      BY <2>4
    <3>2. CodexKinds' /\ SaidInv' /\ EndsStay
      BY <2>4, <3>1, RequestsKeepKinds, ThreadsKeepSaid
    <3>3. AskedInv' /\ ServerInv'
      BY <2>4, <3>1, AskedKept, RequestsKeepServer DEF CodexNext
    <3> QED BY <3>1, <3>2, <3>3, RequestsKeepSpans
  <2>5. CASE UNCHANGED codexVars
    <3> USE <2>5 DEF codexVars, rpc, reading, spans, program, vendor, threads
    <3>1. CodexKinds'
      BY DEF CodexKinds, ChannelKinds, SpanKinds, VendorKinds, ThreadKinds
    <3>2. SaidInv'
      BY DEF SaidInv, Agrees
    <3>3. AskedInv' /\ SpanInv' /\ ServerInv'
      BY DEF AskedInv, SpanInv, ServerInv, Right, IsOpen, Now
    <3> QED BY <3>1, <3>2, <3>3
  <2> QED BY <2>1, <2>2, <2>3, <2>4, <2>5 DEF CodexNext
<1> QED BY <1>1, <1>2, PTL DEF CodexSpec

\* The channel, the spans, the messages and the threads' progress keep their types.
THEOREM CodexTypeCorrect ==
    ASSUME CodexConstantsOK
    PROVE  CodexSpec => []CodexTypeOK
<1>1. CodexInv => CodexTypeOK
  BY DEF CodexInv, CodexKinds, ChannelKinds, SpanKinds, VendorKinds, CodexTypeOK
<1> QED BY <1>1, CodexInvHolds, PTL

\* No turn that has ended comes back as the active one, in whatever order its start, its
\* answer, its end and an interrupt arrive; run_turn reports the end of its own turn; and
\* the thread's lease is held as long as the process may run.
THEOREM EndedTurnsAreOver ==
    ASSUME CodexConstantsOK
    PROVE  CodexSpec => []EndedTurnsStayEnded
<1>1. CodexInv => EndedTurnsStayEnded
  BY DEF CodexInv, SpanInv, ServerInv, EndedTurnsStayEnded
<1> QED BY <1>1, CodexInvHolds, PTL

----------------------------------------------------------------------------
(***************************************************************************)
(* The adapter of Claude and its worker.  While a turn runs, what is under *)
(* way about it is the start it was asked for with, then the turn of the   *)
(* worker and what it writes, and last its result: in the pipe, in the     *)
(* reader's hand, recorded.  Whoever is further on has left the rest       *)
(* behind.  At rest nothing is under way.                                  *)
(***************************************************************************)
ReplyStates == {"none", "waiting", "ok", "refused", "gone"}
DriverPc == {"new", "opening", "idle", "ask", "starting", "waits", "failed", "closing", "over"}
ToolPc == {"none", "runs", "send", "waits", "fail", "wake", "over"}
RequesterPc == {"idle", "steer", "interrupt", "close", "closed", "reap", "reap only", "mark", "over"}
ToWorkers ==
    [op : {"initialize", "close"}, of : {NoClaudeTurn}, from : Sender]
    \cup [op : {"start"}, of : ClaudeTurn, from : ClaudeTurn]
    \cup [op : {"steer", "interrupt"}, of : ClaudeTurn, from : Requester]
    \cup [op : {"result"}, of : ClaudeTurn, from : {NoRequester}]
Frames ==
    [kind : {"answer"}, of : Sender, status : {"ok", "refused"}]
    \cup [kind : {"settled"}, of : ClaudeTurn, status : {"ok", "refused"}]
    \cup [kind : {"event", "invoke"}, of : ClaudeTurn, status : {"none"}]
    \cup [kind : {"result"}, of : ClaudeTurn, status : ResultStatus]
    \cup [kind : {"initialized", "fatal"}, of : ClaudeTurn \cup {NoClaudeTurn}, status : {"none"}]

\* The kind of value of every variable.
HostKinds ==
    /\ agent \in {"none", "alive", "dead"} /\ hasChild \in BOOLEAN /\ isClosed \in BOOLEAN
    /\ listener \in {"off", "on", "wake", "last", "ended"}
    /\ hostTurn \in ClaudeTurn \cup {NoClaudeTurn}
    /\ recording \in ResultStatus \cup {"none"} /\ turnResult \in ResultStatus \cup {"none"}
    /\ answered \in [Sender -> ReplyStates]
    /\ driver \in [pc : DriverPc, turn : ClaudeTurn \cup {NoClaudeTurn}]
    /\ tool \in [ClaudeTurn -> [pc : ToolPc, fatal : BOOLEAN, reply : ReplyStates]]
    /\ requester \in [Requester -> RequesterPc]
    /\ outcome \in [ClaudeTurn -> ResultStatus \cup {"none"}]
PipeKinds == inbox \in Seq(ToWorkers) /\ frames \in Seq(Frames)
NodeKinds ==
    /\ workerTurn \in ClaudeTurn \cup {NoClaudeTurn} /\ closing \in BOOLEAN
    /\ pendingTool \in ClaudeTurn \cup {NoClaudeTurn} /\ busy \in Requester \cup {NoRequester}
    /\ said \in [ClaudeTurn -> ResultStatus \cup {"none"}]
    /\ toldFatal \in SUBSET ClaudeTurn
ClaudeKinds == HostKinds /\ PipeKinds /\ NodeKinds

Spoken(f) == f.kind \in {"event", "invoke", "result"}
Asks(i) == inbox[i].op = "start"

\* No start is in the inbox, no frame of a turn in the pipe.
NoStart == \A i \in 1 .. Len(inbox) : ~Asks(i)
NoSpeech == \A i \in 1 .. Len(frames) : ~Spoken(frames[i])
Silent == workerTurn = NoClaudeTurn /\ NoStart /\ NoSpeech

\* Nothing about the turn is under way.
Finished(t) ==
    /\ workerTurn # t
    /\ \A i \in 1 .. Len(inbox) : Asks(i) => inbox[i].of # t
    /\ \A i \in 1 .. Len(frames) : Spoken(frames[i]) => frames[i].of # t

Turning == driver.pc \in {"ask", "starting", "waits", "failed"}
AtRest == driver.pc \in {"new", "opening", "idle", "closing", "ask"}

TurnsInv ==
    /\ IF Turning THEN hostTurn = ThisTurn /\ ThisTurn \in ClaudeTurn ELSE hostTurn = NoClaudeTurn
    /\ \A t \in ClaudeTurn :
          /\ t > ThisTurn \/ (t = ThisTurn /\ Turning) => outcome[t] = "none"
          /\ tool[t].pc # "none" \/ tool[t].fatal => t <= ThisTurn

EndsInv == \A t \in ClaudeTurn : outcome[t] = "ended" => said[t] = "ended" /\ Finished(t)

\* From the start in the inbox to the result in the pipe.
PipesInv ==
    /\ AtRest => Silent
    /\ Turning =>
          /\ workerTurn \in {NoClaudeTurn, hostTurn}
          /\ \A i \in 1 .. Len(inbox) : Asks(i) =>
                /\ inbox[i].of = hostTurn /\ workerTurn = NoClaudeTurn /\ NoSpeech
                /\ \A j \in 1 .. Len(inbox) : Asks(j) => j = i
          /\ \A i \in 1 .. Len(frames) : Spoken(frames[i]) =>
                /\ frames[i].of = hostTurn
                /\ frames[i].kind = "result" =>
                      /\ workerTurn = NoClaudeTurn /\ NoStart /\ said[hostTurn] = frames[i].status
                      /\ \A j \in 1 .. Len(frames) : Spoken(frames[j]) => j <= i

\* From the result in the reader's hand to the one that run_turn reports.
ResultsInv ==
    /\ AtRest => recording = "none"
    /\ driver.pc = "ask" => turnResult # "ended"
    /\ Turning =>
          /\ recording # "none" => Silent /\ said[hostTurn] = recording /\ turnResult # "ended"
          /\ turnResult = "ended" => Silent /\ said[hostTurn] = "ended" /\ recording = "none"

\* A tool's fatal failure is the result of its turn before the worker hears of it.
FatalInv ==
    \A t \in ClaudeTurn :
       /\ tool[t].fatal /\ hostTurn = t => turnResult # "none"
       /\ t \in toldFatal =>
             /\ outcome[t] # "ended"
             /\ driver.pc # "over" => t <= ThisTurn
             /\ hostTurn = t => turnResult = "fatal" /\ recording = "none"

ClaudeInv == ClaudeKinds /\ TurnsInv /\ EndsInv /\ PipesInv /\ ResultsInv /\ FatalInv

----------------------------------------------------------------------------
LEMMA ToWorkerIs ==
    ASSUME NEW op, NEW of, NEW from, NEW m, m = ToWorker(op, of, from)
    PROVE  /\ m.op = op /\ m.of = of
           /\ op \in {"initialize", "close"} /\ of = NoClaudeTurn /\ from \in Sender => m \in ToWorkers
           /\ op = "start" /\ of \in ClaudeTurn /\ from = of => m \in ToWorkers
           /\ op \in {"steer", "interrupt"} /\ of \in ClaudeTurn /\ from \in Requester => m \in ToWorkers
           /\ op = "result" /\ of \in ClaudeTurn /\ from = NoRequester => m \in ToWorkers
BY DEF ToWorker, ToWorkers

LEMMA AnswerIs ==
    ASSUME NEW q \in Sender, NEW s \in {"ok", "refused"}
    PROVE  Frame("answer", q, s) \in Frames /\ ~Spoken(Frame("answer", q, s))
BY DEF Frame, Frames, Spoken

LEMMA SettledIs ==
    ASSUME NEW t \in ClaudeTurn, NEW s \in {"ok", "refused"}
    PROVE  Frame("settled", t, s) \in Frames /\ ~Spoken(Frame("settled", t, s))
BY DEF Frame, Frames, Spoken

LEMMA LastWordIs ==
    ASSUME NEW t \in ClaudeTurn \cup {NoClaudeTurn}, NEW kind \in {"fatal", "initialized"}
    PROVE  Frame(kind, t, "none") \in Frames /\ ~Spoken(Frame(kind, t, "none"))
BY DEF Frame, Frames, Spoken

LEMMA EventIs ==
    ASSUME NEW t \in ClaudeTurn, NEW kind \in {"event", "invoke"}
    PROVE  /\ Frame(kind, t, "none") \in Frames /\ Spoken(Frame(kind, t, "none"))
           /\ Frame(kind, t, "none").of = t /\ Frame(kind, t, "none").kind # "result"
BY DEF Frame, Frames, Spoken

LEMMA ResultIs ==
    ASSUME NEW t \in ClaudeTurn, NEW s \in ResultStatus
    PROVE  /\ Frame("result", t, s) \in Frames /\ Spoken(Frame("result", t, s))
           /\ Frame("result", t, s).of = t /\ Frame("result", t, s).status = s
BY DEF Frame, Frames, Spoken

----------------------------------------------------------------------------
\* Of what is said of turns and asked of the worker, nothing is new after a
\* step; what is left may have moved up by one.
FramesWithin(d) ==
    \A i \in 1 .. Len(frames') :
       Spoken(frames'[i]) => i + d \in 1 .. Len(frames) /\ frames[i + d] = frames'[i]
StartsWithin(d) ==
    \A i \in 1 .. Len(inbox') :
       inbox'[i].op = "start" => i + d \in 1 .. Len(inbox) /\ inbox[i + d] = inbox'[i]
NothingNew == \E d \in {0, 1}, e \in {0, 1} : FramesWithin(d) /\ StartsWithin(e)

LEMMA FramesStay == ASSUME PipeKinds, UNCHANGED frames PROVE FramesWithin(0) /\ frames' \in Seq(Frames)
BY DEF PipeKinds, FramesWithin

LEMMA StartsStay == ASSUME PipeKinds, UNCHANGED inbox PROVE StartsWithin(0) /\ inbox' \in Seq(ToWorkers)
BY DEF PipeKinds, StartsWithin

LEMMA FramesTaken ==
    ASSUME PipeKinds, frames # <<>>, frames' = Tail(frames)
    PROVE  /\ Head(frames) \in Frames /\ Head(frames) = frames[1] /\ 1 \in 1 .. Len(frames)
           /\ frames' \in Seq(Frames) /\ FramesWithin(1)
BY DEF PipeKinds, FramesWithin

LEMMA InboxTaken ==
    ASSUME PipeKinds, inbox # <<>>, inbox' = Tail(inbox)
    PROVE  /\ Head(inbox) \in ToWorkers /\ Head(inbox) = inbox[1] /\ 1 \in 1 .. Len(inbox)
           /\ inbox' \in Seq(ToWorkers) /\ StartsWithin(1)
BY DEF PipeKinds, StartsWithin

\* One frame more, or two.
LEMMA OneWritten ==
    ASSUME PipeKinds, NEW f \in Frames, Writes(<<f>>)
    PROVE  /\ frames' \in Seq(Frames) /\ Len(frames') = Len(frames) + 1
           /\ \A i \in 1 .. Len(frames) : frames'[i] = frames[i]
           /\ frames'[Len(frames) + 1] = f
           /\ ~Spoken(f) => FramesWithin(0)
<1>1. /\ frames' \in Seq(Frames) /\ Len(frames') = Len(frames) + 1
      /\ \A i \in 1 .. Len(frames) : frames'[i] = frames[i]
      /\ frames'[Len(frames) + 1] = f
  BY DEF PipeKinds, Writes
<1>2. ASSUME ~Spoken(f), NEW i \in 1 .. Len(frames'), Spoken(frames'[i])
      PROVE  i + 0 \in 1 .. Len(frames) /\ frames[i + 0] = frames'[i]
  <2>1. i # Len(frames) + 1
    BY <1>1, <1>2
  <2> QED BY <1>1, <1>2, <2>1 DEF PipeKinds
<1> QED BY <1>1, <1>2 DEF FramesWithin

LEMMA TwoWritten ==
    ASSUME PipeKinds, NEW f \in Frames, NEW g \in Frames, Writes(<<f, g>>)
    PROVE  /\ frames' \in Seq(Frames) /\ Len(frames') = Len(frames) + 2
           /\ \A i \in 1 .. Len(frames) : frames'[i] = frames[i]
           /\ frames'[Len(frames) + 1] = f /\ frames'[Len(frames) + 2] = g
           /\ ~Spoken(f) /\ ~Spoken(g) => FramesWithin(0)
<1>1. /\ frames' \in Seq(Frames) /\ Len(frames') = Len(frames) + 2
      /\ \A i \in 1 .. Len(frames) : frames'[i] = frames[i]
      /\ frames'[Len(frames) + 1] = f /\ frames'[Len(frames) + 2] = g
  BY DEF PipeKinds, Writes
<1>2. ASSUME ~Spoken(f), ~Spoken(g), NEW i \in 1 .. Len(frames'), Spoken(frames'[i])
      PROVE  i + 0 \in 1 .. Len(frames) /\ frames[i + 0] = frames'[i]
  <2>1. i # Len(frames) + 1 /\ i # Len(frames) + 2
    BY <1>1, <1>2
  <2> QED BY <1>1, <1>2, <2>1 DEF PipeKinds
<1> QED BY <1>1, <1>2 DEF FramesWithin

\* A request more.
LEMMA InboxGrows ==
    ASSUME PipeKinds, NEW m \in ToWorkers, inbox' = Append(inbox, m)
    PROVE  /\ inbox' \in Seq(ToWorkers) /\ Len(inbox') = Len(inbox) + 1
           /\ \A i \in 1 .. Len(inbox) : inbox'[i] = inbox[i]
           /\ inbox'[Len(inbox) + 1] = m
           /\ m.op # "start" => StartsWithin(0)
<1>1. /\ inbox' \in Seq(ToWorkers) /\ Len(inbox') = Len(inbox) + 1
      /\ \A i \in 1 .. Len(inbox) : inbox'[i] = inbox[i]
      /\ inbox'[Len(inbox) + 1] = m
  BY DEF PipeKinds
<1>2. ASSUME m.op # "start", NEW i \in 1 .. Len(inbox'), inbox'[i].op = "start"
      PROVE  i + 0 \in 1 .. Len(inbox) /\ inbox[i + 0] = inbox'[i]
  <2>1. i # Len(inbox) + 1
    BY <1>1, <1>2
  <2> QED BY <1>1, <1>2, <2>1 DEF PipeKinds
<1> QED BY <1>1, <1>2 DEF StartsWithin

\* A step that settles nothing about a turn, save that it may fail the active one.
ResultStays ==
    turnResult' = turnResult \/ (hostTurn # NoClaudeTurn /\ turnResult = "none" /\ turnResult' = "fatal")
ToolsStay ==
    \A t \in ClaudeTurn : tool'[t].fatal = tool[t].fatal /\ (tool'[t].pc # "none" => tool[t].pc # "none")
SettlesNothing ==
    /\ NothingNew /\ ResultStays /\ ToolsStay
    /\ UNCHANGED <<workerTurn, said, toldFatal, driver, hostTurn, outcome, recording>>

----------------------------------------------------------------------------
LEMMA HostStays ==
    ASSUME HostKinds, UNCHANGED host
    PROVE  /\ HostKinds' /\ ResultStays /\ ToolsStay
           /\ UNCHANGED <<driver, hostTurn, outcome, recording, turnResult, tool>>
<1> USE DEF host, agentState, hearing, claudeTurns
<1>1. HostKinds'
  BY DEF HostKinds
<1> QED BY <1>1 DEF ResultStays, ToolsStay

LEMMA ReadsIs ==
    ASSUME ClaudeKinds, NEW op, Reads(op)
    PROVE  /\ inbox' \in Seq(ToWorkers) /\ StartsWithin(1) /\ inbox' = Tail(inbox)
           /\ inbox # <<>> /\ Head(inbox) = inbox[1] /\ 1 \in 1 .. Len(inbox) /\ inbox[1].op = op
           /\ HostKinds' /\ ResultStays /\ ToolsStay
           /\ UNCHANGED <<driver, hostTurn, outcome, recording, turnResult, tool>>
           /\ op # "result" => From \in Sender
           /\ op \in {"start", "steer", "interrupt", "result"} => Of \in ClaudeTurn
           /\ op = "interrupt" => From \in Requester
<1>1. /\ inbox' \in Seq(ToWorkers) /\ StartsWithin(1) /\ inbox' = Tail(inbox)
      /\ inbox # <<>> /\ Head(inbox) = inbox[1] /\ 1 \in 1 .. Len(inbox)
      /\ Head(inbox) \in ToWorkers /\ Head(inbox).op = op
  BY InboxTaken DEF Reads, ClaudeKinds
<1>2. /\ HostKinds' /\ ResultStays /\ ToolsStay
      /\ UNCHANGED <<driver, hostTurn, outcome, recording, turnResult, tool>>
  BY HostStays DEF Reads, ClaudeKinds
<1>3. /\ op # "result" => From \in Sender
      /\ op \in {"start", "steer", "interrupt", "result"} => Of \in ClaudeTurn
      /\ op = "interrupt" => From \in Requester
  BY <1>1 DEF ToWorkers, From, Of, Sender
<1> QED BY <1>1, <1>2, <1>3

\* A frame that is not about a turn, with the worker as it was.
LEMMA SaysOne ==
    ASSUME ClaudeKinds, NEW f \in Frames, ~Spoken(f), Writes(<<f>>)
    PROVE  frames' \in Seq(Frames) /\ FramesWithin(0)
BY OneWritten DEF ClaudeKinds

LEMMA FailIs ==
    ASSUME ClaudeKinds, NEW fs \in Seq(Frames), Fail(fs), \A i \in 1 .. Len(fs) : ~Spoken(fs[i])
    PROVE  frames' \in Seq(Frames) /\ FramesWithin(0) /\ NodeKinds' /\ UNCHANGED <<workerTurn, said, toldFatal>>
<1> DEFINE word == Frame("fatal", workerTurn, "none")
           gs == Append(fs, word)
<1>1. word \in Frames /\ ~Spoken(word)
  BY LastWordIs DEF ClaudeKinds, NodeKinds
<1>2. NodeKinds' /\ UNCHANGED <<workerTurn, said, toldFatal>> /\ frames' = frames \o gs
  BY DEF Fail, Writes, ClaudeKinds, NodeKinds
<1> HIDE DEF word
<1>3. /\ gs \in Seq(Frames) /\ Len(gs) = Len(fs) + 1 /\ Len(fs) \in Nat
      /\ \A i \in 1 .. Len(fs) : gs[i] = fs[i]
      /\ gs[Len(fs) + 1] = word
  BY <1>1
<1>4. \A i \in 1 .. Len(gs) : ~Spoken(gs[i])
  <2> SUFFICES ASSUME NEW i \in 1 .. Len(gs)
               PROVE  ~Spoken(gs[i])
    OBVIOUS
  <2>1. i \in 1 .. Len(fs) \/ i = Len(fs) + 1
    BY <1>3
  <2> HIDE DEF gs
  <2> QED BY <1>1, <1>3, <2>1
<1> HIDE DEF gs
<1>5. frames \in Seq(Frames) /\ Len(frames) \in Nat /\ Len(gs) \in Nat /\ gs \in Seq(Frames)
  BY <1>3 DEF ClaudeKinds, PipeKinds
<1>6. /\ frames' \in Seq(Frames) /\ Len(frames') = Len(frames) + Len(gs)
      /\ \A i \in 1 .. Len(frames) : frames'[i] = frames[i]
  BY <1>2, <1>5
<1>7. ASSUME NEW i \in 1 .. Len(frames'), i \notin 1 .. Len(frames)
      PROVE  i - Len(frames) \in 1 .. Len(gs) /\ frames'[i] = gs[i - Len(frames)]
  BY <1>2, <1>5, <1>6, <1>7
<1>8. ASSUME NEW i \in 1 .. Len(frames'), Spoken(frames'[i])
      PROVE  i + 0 \in 1 .. Len(frames) /\ frames[i + 0] = frames'[i]
  <2>1. i \in 1 .. Len(frames)
    BY <1>4, <1>7, <1>8
  <2> QED BY <1>6, <2>1
<1> QED BY <1>2, <1>6, <1>8 DEF FramesWithin

LEMMA ReadsOnly ==
    ASSUME ClaudeKinds, NEW op, Reads(op), frames' \in Seq(Frames), FramesWithin(0),
           NodeKinds', UNCHANGED <<workerTurn, said, toldFatal>>
    PROVE  ClaudeKinds' /\ SettlesNothing
BY ReadsIs DEF ClaudeKinds, PipeKinds, SettlesNothing, NothingNew

LEMMA RefusesOnly ==
    ASSUME ClaudeKinds, NEW op, op # "result", Reads(op), Refuses
    PROVE  ClaudeKinds' /\ SettlesNothing
<1>1. From \in Sender
  BY ReadsIs
<1>2. frames' \in Seq(Frames) /\ FramesWithin(0)
  BY <1>1, AnswerIs, SaysOne DEF Refuses
<1>3. NodeKinds' /\ UNCHANGED <<workerTurn, said, toldFatal>>
  BY DEF Refuses, node, ClaudeKinds, NodeKinds
<1> QED BY <1>2, <1>3, ReadsOnly

\* Requests that are answered, or refused, without a turn beginning or ending.
LEMMA InitializeSettles == ASSUME ClaudeKinds, Initialize PROVE ClaudeKinds' /\ SettlesNothing
<1>1. Reads("initialize") /\ From \in Sender
  BY ReadsIs DEF Initialize
<1>2. CASE Writes(<<Frame("answer", From, "ok"), Frame("initialized", NoClaudeTurn, "none")>>) /\ UNCHANGED node
  <2>1. frames' \in Seq(Frames) /\ FramesWithin(0)
    BY <1>1, <1>2, AnswerIs, LastWordIs, TwoWritten DEF ClaudeKinds
  <2>2. NodeKinds' /\ UNCHANGED <<workerTurn, said, toldFatal>>
    BY <1>2 DEF node, ClaudeKinds, NodeKinds
  <2> QED BY <1>1, <2>1, <2>2, ReadsOnly
<1>3. CASE Fail(<<Frame("answer", From, "refused")>>)
  <2> DEFINE a == Frame("answer", From, "refused")
  <2>1. a \in Frames /\ ~Spoken(a)
    BY <1>1, AnswerIs
  <2> HIDE DEF a
  <2>2. <<a>> \in Seq(Frames) /\ \A i \in 1 .. Len(<<a>>) : ~Spoken(<<a>>[i])
    BY <2>1
  <2>3. Fail(<<a>>)
    BY <1>3 DEF a
  <2> QED BY <1>1, <2>2, <2>3, FailIs, ReadsOnly
<1> QED BY <1>2, <1>3 DEF Initialize

LEMMA SteersSettles == ASSUME ClaudeKinds, Steers PROVE ClaudeKinds' /\ SettlesNothing
<1>1. Reads("steer") /\ From \in Sender
  BY ReadsIs DEF Steers
<1>2. CASE Refuses
  BY <1>1, <1>2, RefusesOnly
<1>3. CASE ~Refuses
  <2>1. Writes(<<Frame("answer", From, "ok")>>) /\ UNCHANGED node
    BY <1>3 DEF Steers
  <2>2. frames' \in Seq(Frames) /\ FramesWithin(0)
    BY <1>1, <2>1, AnswerIs, SaysOne
  <2>3. NodeKinds' /\ UNCHANGED <<workerTurn, said, toldFatal>>
    BY <2>1 DEF node, ClaudeKinds, NodeKinds
  <2> QED BY <1>1, <2>2, <2>3, ReadsOnly
<1> QED BY <1>2, <1>3

LEMMA InterruptsSettles == ASSUME ClaudeKinds, Interrupts PROVE ClaudeKinds' /\ SettlesNothing
<1>1. Reads("interrupt") /\ From \in Requester
  BY ReadsIs DEF Interrupts
<1>2. CASE Refuses
  BY <1>1, <1>2, RefusesOnly
<1>3. CASE ~Refuses
  <2>1. UNCHANGED frames /\ NodeKinds' /\ UNCHANGED <<workerTurn, said, toldFatal>>
    BY <1>1, <1>3 DEF Interrupts, ClaudeKinds, NodeKinds
  <2> QED BY <1>1, <2>1, FramesStay, ReadsOnly DEF ClaudeKinds
<1> QED BY <1>2, <1>3

LEMMA CloseSettles == ASSUME ClaudeKinds, CloseSession PROVE ClaudeKinds' /\ SettlesNothing
<1>1. Reads("close") /\ From \in Sender
  BY ReadsIs DEF CloseSession
<1>2. frames' \in Seq(Frames) /\ FramesWithin(0)
  BY <1>1, AnswerIs, SaysOne DEF CloseSession
<1>3. NodeKinds' /\ UNCHANGED <<workerTurn, said, toldFatal>>
  BY DEF CloseSession, ClaudeKinds, NodeKinds
<1> QED BY <1>1, <1>2, <1>3, ReadsOnly

\* The worker hears of a tool's result; of a fatal one only while its turn runs.
LEMMA ToolResultIs ==
    ASSUME ClaudeKinds, ToolResult
    PROVE  /\ ClaudeKinds' /\ NothingNew /\ ResultStays /\ ToolsStay
           /\ UNCHANGED <<workerTurn, said, driver, hostTurn, outcome, recording, turnResult, tool>>
           /\ \/ toldFatal' = toldFatal
              \/ \E t \in ClaudeTurn :
                    t = workerTurn /\ tool[t].fatal /\ toldFatal' = toldFatal \cup {t}
<1>1. Reads("result") /\ Of \in ClaudeTurn
  BY ReadsIs DEF ToolResult
<1>2. frames' \in Seq(Frames) /\ FramesWithin(0)
  BY <1>1, SettledIs, SaysOne DEF ToolResult
<1>3. NodeKinds' /\ UNCHANGED <<workerTurn, said>>
  BY <1>1 DEF ToolResult, node, ClaudeKinds, NodeKinds
<1>4. \/ toldFatal' = toldFatal
      \/ Of = workerTurn /\ tool[Of].fatal /\ toldFatal' = toldFatal \cup {Of}
  BY DEF ToolResult, node
<1>5. ClaudeKinds' /\ NothingNew /\ ResultStays /\ ToolsStay
  BY <1>1, <1>2, <1>3, ReadsIs DEF ClaudeKinds, PipeKinds, NothingNew
<1> QED BY <1>1, <1>3, <1>4, <1>5, ReadsIs

\* A turn begins in the worker.
LEMMA StartsIs ==
    ASSUME ClaudeKinds, Starts, ~Refuses
    PROVE  /\ ClaudeKinds' /\ StartsWithin(1) /\ ResultStays /\ ToolsStay
           /\ UNCHANGED <<said, toldFatal, driver, hostTurn, outcome, recording, turnResult, tool>>
           /\ Asks(1) /\ 1 \in 1 .. Len(inbox) /\ inbox' = Tail(inbox)
           /\ workerTurn = NoClaudeTurn /\ workerTurn' = inbox[1].of /\ inbox[1].of \in ClaudeTurn
           /\ \E e \in Frames : /\ Spoken(e) /\ e.of = inbox[1].of /\ e.kind # "result"
                                /\ frames'[Len(frames) + 1] = e
           /\ Len(frames') = Len(frames) + 2 /\ ~Spoken(frames'[Len(frames) + 2])
           /\ \A i \in 1 .. Len(frames) : frames'[i] = frames[i]
<1>1. /\ Reads("start") /\ Of \in ClaudeTurn /\ From \in Sender /\ Of = inbox[1].of
      /\ Asks(1) /\ 1 \in 1 .. Len(inbox) /\ inbox' = Tail(inbox)
  BY ReadsIs DEF Starts, Of, Asks
<1> DEFINE e == Frame("event", Of, "none")
           a == Frame("answer", From, "ok")
<1>2. /\ e \in Frames /\ Spoken(e) /\ e.of = Of /\ e.kind # "result"
      /\ a \in Frames /\ ~Spoken(a)
  BY <1>1, EventIs, AnswerIs
<1>3. /\ Writes(<<e, a>>) /\ workerTurn = NoClaudeTurn /\ workerTurn' = Of
      /\ UNCHANGED <<closing, pendingTool, busy, said, toldFatal>>
  BY DEF Starts
<1> HIDE DEF e, a
<1>4. /\ frames' \in Seq(Frames) /\ Len(frames') = Len(frames) + 2
      /\ \A i \in 1 .. Len(frames) : frames'[i] = frames[i]
      /\ frames'[Len(frames) + 1] = e /\ frames'[Len(frames) + 2] = a
  BY <1>2, <1>3, TwoWritten DEF ClaudeKinds
<1>5. NodeKinds'
  BY <1>1, <1>3 DEF ClaudeKinds, NodeKinds
<1>6. ClaudeKinds' /\ StartsWithin(1) /\ ResultStays /\ ToolsStay
  BY <1>1, <1>4, <1>5, ReadsIs DEF ClaudeKinds, PipeKinds
<1> QED BY <1>1, <1>2, <1>3, <1>4, <1>6, ReadsIs

\* What the worker does by itself, without a turn ending.
LEMMA NodeOnly ==
    ASSUME ClaudeKinds, HostKinds', ResultStays, ToolsStay,
           UNCHANGED <<inbox, workerTurn, said, toldFatal, driver, hostTurn, outcome, recording>>,
           frames' \in Seq(Frames), FramesWithin(0), NodeKinds'
    PROVE  ClaudeKinds' /\ SettlesNothing
BY StartsStay DEF ClaudeKinds, PipeKinds, SettlesNothing, NothingNew

LEMMA WorkerGoesOn ==
    ASSUME ClaudeKinds, InterruptReturns \/ Consumes \/ Breaks \/ Dies
    PROVE  ClaudeKinds' /\ SettlesNothing
<1>1. CASE InterruptReturns
  <2>1. busy \in Sender /\ Writes(<<Frame("answer", busy, "ok")>>)
    BY <1>1 DEF InterruptReturns, ClaudeKinds, NodeKinds, Sender
  <2>2. frames' \in Seq(Frames) /\ FramesWithin(0)
    BY <2>1, AnswerIs, SaysOne
  <2>3. NodeKinds' /\ UNCHANGED host /\ UNCHANGED <<inbox, workerTurn, said, toldFatal>>
    BY <1>1 DEF InterruptReturns, ClaudeKinds, NodeKinds
  <2> QED BY <2>2, <2>3, HostStays, NodeOnly DEF ClaudeKinds
<1>2. CASE Consumes
  <2>1. UNCHANGED host /\ UNCHANGED <<inbox, frames>> /\ UNCHANGED node
    BY <1>2 DEF Consumes, pipes
  <2>2. NodeKinds' /\ UNCHANGED <<workerTurn, said, toldFatal>>
    BY <2>1 DEF node, ClaudeKinds, NodeKinds
  <2> QED BY <2>1, <2>2, HostStays, FramesStay, NodeOnly DEF ClaudeKinds
<1>3. CASE Breaks
  <2>1. UNCHANGED host /\ UNCHANGED inbox /\ Fail(<<>>)
    BY <1>3 DEF Breaks, Speaks
  <2>2. <<>> \in Seq(Frames) /\ \A i \in 1 .. Len(<<>>) : ~Spoken(<<>>[i])
    OBVIOUS
  <2> QED BY <2>1, <2>2, FailIs, HostStays, NodeOnly DEF ClaudeKinds
<1>4. CASE Dies
  <2> USE <1>4 DEF Dies, hearing, claudeTurns, pipes, node
  <2>1. HostKinds' /\ ResultStays /\ ToolsStay
    BY DEF ClaudeKinds, HostKinds, ResultStays, ToolsStay
  <2>2. NodeKinds'
    BY DEF ClaudeKinds, NodeKinds
  <2> QED BY <2>1, <2>2, FramesStay, NodeOnly DEF ClaudeKinds
<1> QED BY <1>1, <1>2, <1>3, <1>4

\* What the worker says of its turn.
SaysOfTurn(f) ==
    /\ workerTurn \in ClaudeTurn /\ f \in Frames /\ Spoken(f) /\ f.of = workerTurn
    /\ frames' \in Seq(Frames) /\ Len(frames') = Len(frames) + 1
    /\ \A i \in 1 .. Len(frames) : frames'[i] = frames[i]
    /\ frames'[Len(frames) + 1] = f

LEMMA SaysOfTurnIs ==
    ASSUME ClaudeKinds, workerTurn # NoClaudeTurn, NEW f \in Frames, Spoken(f), f.of = workerTurn, Writes(<<f>>)
    PROVE  SaysOfTurn(f)
<1>1. workerTurn \in ClaudeTurn
  BY DEF ClaudeKinds, NodeKinds
<1>2. PipeKinds
  BY DEF ClaudeKinds
<1>3. /\ frames' \in Seq(Frames) /\ Len(frames') = Len(frames) + 1
      /\ \A i \in 1 .. Len(frames) : frames'[i] = frames[i]
      /\ frames'[Len(frames) + 1] = f
  BY <1>2, OneWritten
<1> QED BY <1>1, <1>3 DEF SaysOfTurn

LEMMA DeltaIs ==
    ASSUME ClaudeConstantsOK, ClaudeKinds, Delta \/ InvokeTool
    PROVE  /\ ClaudeKinds' /\ UNCHANGED <<host, inbox, workerTurn, said, toldFatal>>
           /\ \E f \in Frames : SaysOfTurn(f) /\ f.kind # "result"
<1>1. PICK kind \in {"event", "invoke"} :
         /\ workerTurn # NoClaudeTurn /\ Writes(<<Frame(kind, workerTurn, "none")>>)
         /\ UNCHANGED <<host, inbox, workerTurn, closing, busy, said, toldFatal>>
         /\ pendingTool' \in {pendingTool, workerTurn}
  <2>1. CASE Delta
    BY <2>1 DEF Delta, Speaks, node
  <2>2. CASE InvokeTool
    <3>1. workerTurn \in ToolTurns /\ workerTurn # NoClaudeTurn
      BY <2>2 DEF InvokeTool, ClaudeConstantsOK, NoClaudeTurn
    <3> QED BY <2>2, <3>1 DEF InvokeTool, Speaks
  <2> QED BY <2>1, <2>2
<1> DEFINE f == Frame(kind, workerTurn, "none")
<1>2. f \in Frames /\ Spoken(f) /\ f.of = workerTurn /\ f.kind # "result"
  BY <1>1, EventIs DEF ClaudeKinds, NodeKinds
<1>3. Writes(<<f>>)
  BY <1>1
<1> HIDE DEF f
<1>4. SaysOfTurn(f)
  BY <1>1, <1>2, <1>3, SaysOfTurnIs
<1>5. NodeKinds' /\ HostKinds' /\ PipeKinds'
  BY <1>1, <1>4, HostStays DEF ClaudeKinds, NodeKinds, PipeKinds, SaysOfTurn
<1> QED BY <1>1, <1>2, <1>4, <1>5 DEF ClaudeKinds

\* A turn ends in the worker, or the worker, which has none, fails.
LEMMA EmitResultIs ==
    ASSUME ClaudeKinds, EmitResult
    PROVE  /\ ClaudeKinds'
           /\ \/ SettlesNothing
              \/ /\ UNCHANGED <<host, inbox, toldFatal>> /\ workerTurn' = NoClaudeTurn
                 /\ \E f \in Frames : /\ SaysOfTurn(f) /\ f.kind = "result"
                                      /\ said' = [said EXCEPT ![workerTurn] = f.status]
<1>1. UNCHANGED host /\ UNCHANGED inbox
  BY DEF EmitResult, Speaks
<1>2. CASE workerTurn = NoClaudeTurn
  <2>1. Fail(<<>>)
    BY <1>2 DEF EmitResult
  <2>2. <<>> \in Seq(Frames) /\ \A i \in 1 .. Len(<<>>) : ~Spoken(<<>>[i])
    OBVIOUS
  <2> QED BY <1>1, <2>1, <2>2, FailIs, HostStays, NodeOnly DEF ClaudeKinds
<1>3. CASE workerTurn # NoClaudeTurn
  <2>1. PICK s \in ResultStatus :
           /\ Writes(<<Frame("result", workerTurn, s)>>) /\ said' = [said EXCEPT ![workerTurn] = s]
           /\ workerTurn' = NoClaudeTurn /\ pendingTool' = NoClaudeTurn
           /\ UNCHANGED <<closing, busy, toldFatal>>
    BY <1>3 DEF EmitResult
  <2> DEFINE f == Frame("result", workerTurn, s)
  <2>2. f \in Frames /\ Spoken(f) /\ f.of = workerTurn /\ f.kind = "result" /\ f.status = s
    BY <1>3, ResultIs DEF ClaudeKinds, NodeKinds, Frame
  <2>3. Writes(<<f>>)
    BY <2>1
  <2> HIDE DEF f
  <2>4. SaysOfTurn(f)
    BY <1>3, <2>2, <2>3, SaysOfTurnIs
  <2>5. NodeKinds' /\ HostKinds' /\ PipeKinds'
    BY <1>1, <2>1, <2>4, HostStays DEF ClaudeKinds, NodeKinds, PipeKinds, SaysOfTurn
  <2> QED BY <1>1, <2>1, <2>2, <2>4, <2>5 DEF ClaudeKinds
<1> QED BY <1>2, <1>3

----------------------------------------------------------------------------
ToolLocals == [pc : ToolPc, fatal : BOOLEAN, reply : ReplyStates]
ToolKinds == tool \in [ClaudeTurn -> ToolLocals]

LEMMA ToolReplies ==
    ASSUME ToolKinds, NEW t \in ClaudeTurn, NEW r \in ReplyStates, tool' = [tool EXCEPT ![t].reply = r]
    PROVE  ToolKinds' /\ ToolsStay
<1>1. ASSUME NEW u \in ClaudeTurn
      PROVE  tool'[u] \in ToolLocals /\ tool'[u].fatal = tool[u].fatal /\ tool'[u].pc = tool[u].pc
  BY DEF ToolKinds, ToolLocals
<1>2. tool' \in [ClaudeTurn -> ToolLocals]
  BY <1>1 DEF ToolKinds
<1> QED BY <1>1, <1>2 DEF ToolKinds, ToolsStay

LEMMA ToolsRefused ==
    ASSUME ToolKinds, tool' = [t \in ClaudeTurn |-> [tool[t] EXCEPT !.reply = Refusal(@)]]
    PROVE  ToolKinds' /\ ToolsStay
<1>1. ASSUME NEW u \in ClaudeTurn
      PROVE  tool'[u] \in ToolLocals /\ tool'[u].fatal = tool[u].fatal /\ tool'[u].pc = tool[u].pc
  <2>1. Refusal(tool[u].reply) \in ReplyStates
    BY DEF ToolKinds, ToolLocals, Refusal, ReplyStates
  <2> QED BY <2>1 DEF ToolKinds, ToolLocals
<1>2. tool' \in [ClaudeTurn -> ToolLocals]
  BY <1>1 DEF ToolKinds
<1> QED BY <1>1, <1>2 DEF ToolKinds, ToolsStay

LEMMA AllRefused ==
    ASSUME HostKinds, answered' = [q \in Sender |-> Refusal(answered[q])]
    PROVE  answered' \in [Sender -> ReplyStates]
BY DEF HostKinds, Refusal, ReplyStates

LEMMA FailTurnIs ==
    ASSUME HostKinds, FailTurn
    PROVE  turnResult' \in ResultStatus \cup {"none"} /\ ResultStays
BY DEF HostKinds, FailTurn, ResultStays, ResultStatus

LEMMA NodeStays == ASSUME NodeKinds, UNCHANGED node PROVE NodeKinds' /\ UNCHANGED <<workerTurn, said, toldFatal>>
BY DEF NodeKinds, node

\* What the host does while the turn stays what it is.
LEMMA HostOnly ==
    ASSUME ClaudeKinds, HostKinds', UNCHANGED node, ResultStays, ToolsStay,
           inbox' \in Seq(ToWorkers), StartsWithin(0), NEW d \in {0, 1}, frames' \in Seq(Frames), FramesWithin(d),
           UNCHANGED <<driver, hostTurn, outcome, recording>>
    PROVE  ClaudeKinds' /\ SettlesNothing
BY NodeStays DEF ClaudeKinds, PipeKinds, SettlesNothing, NothingNew

LEMMA HearsIs ==
    ASSUME ClaudeKinds, NEW kind, Hears(kind)
    PROVE  /\ Head(frames) \in Frames /\ Head(frames) = frames[1] /\ Head(frames).kind = kind
           /\ 1 \in 1 .. Len(frames) /\ frames' = Tail(frames)
           /\ frames' \in Seq(Frames) /\ FramesWithin(1) /\ recording = "none"
           /\ kind = "answer" => Head(frames).of \in Sender /\ Head(frames).status \in {"ok", "refused"}
           /\ kind = "settled" => Head(frames).of \in ClaudeTurn /\ Head(frames).status \in {"ok", "refused"}
           /\ kind \in {"event", "invoke", "result"} => Spoken(Head(frames)) /\ Head(frames).of \in ClaudeTurn
           /\ kind = "result" => Head(frames).status \in ResultStatus
<1>1. /\ Head(frames) \in Frames /\ Head(frames) = frames[1] /\ Head(frames).kind = kind
      /\ 1 \in 1 .. Len(frames) /\ frames' = Tail(frames)
      /\ frames' \in Seq(Frames) /\ FramesWithin(1) /\ recording = "none"
  BY FramesTaken DEF Hears, ClaudeKinds
<1>2. /\ kind = "answer" => Head(frames).of \in Sender /\ Head(frames).status \in {"ok", "refused"}
      /\ kind = "settled" => Head(frames).of \in ClaudeTurn /\ Head(frames).status \in {"ok", "refused"}
      /\ kind \in {"event", "invoke", "result"} => Spoken(Head(frames)) /\ Head(frames).of \in ClaudeTurn
      /\ kind = "result" => Head(frames).status \in ResultStatus
  BY <1>1 DEF Frames, Spoken
<1> QED BY <1>1, <1>2

LEMMA AnswersSettle ==
    ASSUME ClaudeKinds, HearsAnswer \/ HearsSettled
    PROVE  ClaudeKinds' /\ SettlesNothing
<1> USE DEF agentState
<1>1. CASE HearsAnswer
  <2>1. /\ Head(frames).of \in Sender /\ Head(frames).status \in ReplyStates
        /\ frames' \in Seq(Frames) /\ FramesWithin(1)
    BY <1>1, HearsIs DEF HearsAnswer, ReplyStates
  <2>2. /\ UNCHANGED <<agentState, recording, hostTurn, outcome, driver, tool, requester, inbox, node>>
        /\ \/ listener' = "last" /\ FailTurn /\ UNCHANGED answered
           \/ /\ UNCHANGED <<listener, turnResult>>
              /\ \/ UNCHANGED answered
                 \/ answered' = [answered EXCEPT ![Head(frames).of] = Head(frames).status]
    BY <1>1 DEF HearsAnswer
  <2>3. answered' \in [Sender -> ReplyStates]
    BY <2>1, <2>2 DEF ClaudeKinds, HostKinds
  <2>4. turnResult' \in ResultStatus \cup {"none"} /\ ResultStays
    BY <2>2, FailTurnIs DEF ClaudeKinds, HostKinds, ResultStays
  <2>5. HostKinds' /\ ToolsStay
    BY <2>2, <2>3, <2>4 DEF ClaudeKinds, HostKinds, ToolsStay
  <2> QED BY <2>1, <2>2, <2>4, <2>5, StartsStay, HostOnly DEF ClaudeKinds
<1>2. CASE HearsSettled
  <2>1. /\ Head(frames).of \in ClaudeTurn /\ Head(frames).status \in ReplyStates
        /\ frames' \in Seq(Frames) /\ FramesWithin(1)
    BY <1>2, HearsIs DEF HearsSettled, ReplyStates
  <2>2. /\ UNCHANGED <<agentState, recording, hostTurn, outcome, driver, answered, requester, inbox, node>>
        /\ \/ listener' = "last" /\ FailTurn /\ UNCHANGED tool
           \/ /\ UNCHANGED <<listener, turnResult>>
              /\ \/ UNCHANGED tool
                 \/ tool' = [tool EXCEPT ![Head(frames).of].reply = Head(frames).status]
    BY <1>2 DEF HearsSettled
  <2>3. ToolKinds
    BY DEF ClaudeKinds, HostKinds, ToolKinds, ToolLocals
  <2>4. ToolKinds' /\ ToolsStay
    <3>1. CASE UNCHANGED tool
      BY <2>3, <3>1 DEF ToolKinds, ToolsStay
    <3>2. CASE tool' = [tool EXCEPT ![Head(frames).of].reply = Head(frames).status]
      BY <2>1, <2>3, <3>2, ToolReplies
    <3> QED BY <2>2, <3>1, <3>2
  <2>5. turnResult' \in ResultStatus \cup {"none"} /\ ResultStays
    BY <2>2, FailTurnIs DEF ClaudeKinds, HostKinds, ResultStays
  <2>6. HostKinds'
    BY <2>2, <2>4, <2>5 DEF ClaudeKinds, HostKinds, ToolKinds, ToolLocals
  <2> QED BY <2>1, <2>2, <2>4, <2>5, <2>6, StartsStay, HostOnly DEF ClaudeKinds
<1> QED BY <1>1, <1>2

LEMMA OthersSettle ==
    ASSUME ClaudeKinds, HearsMisplaced \/ HearsEvent \/ HearsFatal \/ OutputEnds \/ Wakes
    PROVE  ClaudeKinds' /\ SettlesNothing
<1> USE DEF agentState, claudeTurns, ToNobody, hearing, pipes
<1>1. ASSUME \/ UNCHANGED frames \/ \E kind : Hears(kind),
             UNCHANGED <<agentState, recording, hostTurn, outcome, answered, driver, tool, requester, inbox, node>>,
             listener' \in {"off", "on", "wake", "last", "ended"}, FailTurn \/ UNCHANGED turnResult
      PROVE  ClaudeKinds' /\ SettlesNothing
  <2>1. frames' \in Seq(Frames) /\ \E d \in {0, 1} : FramesWithin(d)
    BY <1>1, FramesStay, HearsIs DEF ClaudeKinds
  <2>2. turnResult' \in ResultStatus \cup {"none"} /\ ResultStays
    BY <1>1, FailTurnIs DEF ClaudeKinds, HostKinds, ResultStays
  <2>3. HostKinds' /\ ToolsStay
    BY <1>1, <2>2 DEF ClaudeKinds, HostKinds, ToolsStay
  <2> QED BY <1>1, <2>1, <2>2, <2>3, StartsStay, HostOnly DEF ClaudeKinds
<1>2. CASE HearsMisplaced
  BY <1>1, <1>2 DEF HearsMisplaced
<1>3. CASE HearsEvent
  BY <1>1, <1>3 DEF HearsEvent, ClaudeKinds, HostKinds
<1>4. CASE HearsFatal
  BY <1>1, <1>4 DEF HearsFatal
<1>5. CASE OutputEnds
  BY <1>1, <1>5 DEF OutputEnds
<1>6. CASE Wakes
  <2>1. ToolKinds
    BY DEF ClaudeKinds, HostKinds, ToolKinds, ToolLocals
  <2>2. ToolKinds' /\ ToolsStay /\ answered' \in [Sender -> ReplyStates]
    BY <1>6, <2>1, ToolsRefused, AllRefused DEF Wakes, FailPending, ClaudeKinds
  <2>3. HostKinds' /\ ResultStays
    BY <1>6, <2>2 DEF Wakes, ClaudeKinds, HostKinds, ToolKinds, ToolLocals, ResultStays
  <2>4. UNCHANGED <<inbox, frames, node, driver, hostTurn, outcome, recording>>
    BY <1>6 DEF Wakes
  <2> QED BY <2>2, <2>3, <2>4, FramesStay, StartsStay, HostOnly DEF ClaudeKinds
<1> QED BY <1>2, <1>3, <1>4, <1>5, <1>6

\* A tool call begins, of the active turn.
LEMMA HearsInvokeIs ==
    ASSUME ClaudeKinds, HearsInvoke
    PROVE  /\ ClaudeKinds' /\ NothingNew /\ ResultStays
           /\ UNCHANGED <<workerTurn, said, toldFatal, driver, hostTurn, outcome, recording, turnResult>>
           /\ hostTurn \in ClaudeTurn
           /\ \A t \in ClaudeTurn : /\ tool'[t].fatal = tool[t].fatal
                                    /\ t # hostTurn => tool'[t] = tool[t]
<1> USE DEF agentState, claudeTurns, ToNobody, hearing
<1>1. /\ Head(frames).of \in ClaudeTurn /\ frames' \in Seq(Frames) /\ FramesWithin(1) /\ Head(frames).kind = "invoke"
  BY HearsIs DEF HearsInvoke
<1>2. /\ UNCHANGED <<agentState, hearing, claudeTurns, answered, driver, requester, inbox, node>>
      /\ tool' = [tool EXCEPT ![Head(frames).of].pc = "runs"]
  BY DEF HearsInvoke
<1>3. hostTurn = Head(frames).of
  BY <1>1 DEF HearsInvoke, Misplaced
<1>4. ASSUME NEW t \in ClaudeTurn
      PROVE  /\ tool'[t] \in ToolLocals /\ tool'[t].fatal = tool[t].fatal
             /\ t # hostTurn => tool'[t] = tool[t]
  BY <1>1, <1>2, <1>3 DEF ClaudeKinds, HostKinds, ToolLocals, ToolPc
<1>5. tool' \in [ClaudeTurn -> ToolLocals]
  BY <1>2, <1>4 DEF ClaudeKinds, HostKinds
<1>6. HostKinds' /\ ResultStays
  BY <1>2, <1>5 DEF ClaudeKinds, HostKinds, ToolLocals, ResultStays
<1>7. StartsWithin(0) /\ inbox' \in Seq(ToWorkers) /\ NodeKinds' /\ UNCHANGED <<workerTurn, said, toldFatal>>
  BY <1>2, StartsStay, NodeStays DEF ClaudeKinds
<1>8. ClaudeKinds' /\ NothingNew
  BY <1>1, <1>6, <1>7 DEF ClaudeKinds, PipeKinds, NothingNew
<1> QED BY <1>1, <1>2, <1>3, <1>4, <1>6, <1>7, <1>8

\* A result is taken out of the pipe, then recorded.
LEMMA HearsResultIs ==
    ASSUME ClaudeKinds, HearsResult
    PROVE  /\ ClaudeKinds' /\ ToolsStay /\ StartsWithin(0) /\ FramesWithin(1) /\ frames' = Tail(frames)
           /\ UNCHANGED <<workerTurn, said, toldFatal, driver, hostTurn, outcome, turnResult, tool>>
           /\ recording = "none" /\ recording' = IF turnResult = "fatal" THEN "none" ELSE frames[1].status
           /\ 1 \in 1 .. Len(frames) /\ Spoken(frames[1]) /\ frames[1].kind = "result" /\ frames[1].of = hostTurn
           /\ hostTurn \in ClaudeTurn
<1> USE DEF agentState, claudeTurns, ToNobody, hearing
<1>1. /\ Head(frames) = frames[1] /\ frames[1].kind = "result" /\ Spoken(frames[1])
      /\ frames[1].of \in ClaudeTurn /\ frames[1].status \in ResultStatus /\ recording = "none"
      /\ frames' = Tail(frames) /\ frames' \in Seq(Frames) /\ FramesWithin(1) /\ 1 \in 1 .. Len(frames)
  BY HearsIs DEF HearsResult
<1>2. hostTurn = frames[1].of
  BY <1>1 DEF HearsResult, Misplaced
<1>3. /\ UNCHANGED <<agentState, listener, claudeTurns, answered, driver, tool, requester, inbox, node>>
      /\ recording' = IF turnResult = "fatal" THEN "none" ELSE frames[1].status
  BY <1>1 DEF HearsResult
<1>4. HostKinds' /\ ToolsStay
  BY <1>1, <1>3 DEF ClaudeKinds, HostKinds, ToolsStay
<1>5. StartsWithin(0) /\ inbox' \in Seq(ToWorkers) /\ NodeKinds' /\ UNCHANGED <<workerTurn, said, toldFatal>>
  BY <1>3, StartsStay, NodeStays DEF ClaudeKinds
<1> QED BY <1>1, <1>2, <1>3, <1>4, <1>5 DEF ClaudeKinds, PipeKinds

LEMMA RecordsResultIs ==
    ASSUME ClaudeKinds, RecordsResult
    PROVE  /\ ClaudeKinds'
           /\ UNCHANGED <<workerTurn, said, toldFatal, driver, hostTurn, outcome, tool, inbox, frames>>
           /\ recording # "none" /\ recording' = "none" /\ turnResult' = recording
<1> USE DEF RecordsResult, agentState, pipes
<1>1. HostKinds'
  BY DEF ClaudeKinds, HostKinds
<1>2. PipeKinds' /\ NodeKinds' /\ UNCHANGED <<workerTurn, said, toldFatal>>
  BY NodeStays DEF ClaudeKinds, PipeKinds
<1> QED BY <1>1, <1>2 DEF ClaudeKinds

----------------------------------------------------------------------------
\* What the tool's thread and the requests do, without a word of the worker.
LEMMA ThreadOnly ==
    ASSUME ClaudeKinds, HostKinds', ResultStays, ToolsStay,
           inbox' \in Seq(ToWorkers), StartsWithin(0),
           UNCHANGED <<frames, node, driver, hostTurn, outcome, recording>>
    PROVE  ClaudeKinds' /\ SettlesNothing
BY FramesStay, HostOnly DEF ClaudeKinds

LEMMA ToolThreadSettles ==
    ASSUME ClaudeKinds, NEW t \in ClaudeTurn,
           SendsResult(t) \/ ToolSettled(t) \/ ToolFailsTurn(t) \/ ToolFailsPending(t)
    PROVE  ClaudeKinds' /\ SettlesNothing
<1> USE DEF Untouched, agentState, hearing
<1>1. /\ UNCHANGED <<frames, node, agentState, hearing, driver, hostTurn, outcome, recording, requester>>
      /\ tool[t].pc \in {"send", "waits", "fail", "wake"}
  BY DEF SendsResult, ToolSettled, ToolFailsTurn, ToolFailsPending, ToolIs
<1>2. inbox' \in Seq(ToWorkers) /\ StartsWithin(0)
  <2>1. CASE SendsResult(t)
    <3>1. CASE UNCHANGED inbox
      BY <3>1, StartsStay DEF ClaudeKinds
    <3>2. CASE inbox' = Append(inbox, ToWorker("result", t, NoRequester))
      <4> DEFINE m == ToWorker("result", t, NoRequester)
      <4>1. m \in ToWorkers /\ m.op = "result"
        BY ToWorkerIs
      <4> HIDE DEF m
      <4>2. inbox' = Append(inbox, m)
        BY <3>2 DEF m
      <4> QED BY <4>1, <4>2, InboxGrows DEF ClaudeKinds
    <3> QED BY <2>1, <3>1, <3>2 DEF SendsResult
  <2>2. CASE ~SendsResult(t)
    <3>1. UNCHANGED inbox
      BY <2>2 DEF ToolSettled, ToolFailsTurn, ToolFailsPending
    <3> QED BY <3>1, StartsStay DEF ClaudeKinds
  <2> QED BY <2>1, <2>2
<1>3. answered' \in [Sender -> ReplyStates]
  <2>1. CASE ToolFailsPending(t)
    BY <2>1, AllRefused DEF ToolFailsPending, ClaudeKinds
  <2>2. CASE ~ToolFailsPending(t)
    BY <2>2 DEF SendsResult, ToolSettled, ToolFailsTurn, ClaudeKinds, HostKinds
  <2> QED BY <2>1, <2>2
<1>4. turnResult' \in ResultStatus \cup {"none"} /\ ResultStays
  <2>1. CASE ToolFailsTurn(t)
    BY <2>1, FailTurnIs DEF ToolFailsTurn, ClaudeKinds
  <2>2. CASE ~ToolFailsTurn(t)
    BY <2>2 DEF SendsResult, ToolSettled, ToolFailsPending, ClaudeKinds, HostKinds, ResultStays
  <2> QED BY <2>1, <2>2
<1>5. ASSUME NEW u \in ClaudeTurn
      PROVE  tool'[u] \in ToolLocals /\ tool'[u].fatal = tool[u].fatal /\ (u # t => tool'[u].pc = tool[u].pc)
  <2>1. tool[u] \in ToolLocals /\ NotSent(t) \in ToolPc /\ Refusal(tool[u].reply) \in ReplyStates
    BY DEF ClaudeKinds, HostKinds, ToolLocals, NotSent, ToolPc, Refusal, ReplyStates
  <2>2. CASE SendsResult(t)
    BY <2>1, <2>2 DEF SendsResult, ToolGoes, ClaudeKinds, HostKinds, ToolLocals, ToolPc, ReplyStates
  <2>3. CASE ToolSettled(t)
    BY <2>1, <2>3 DEF ToolSettled, ClaudeKinds, HostKinds, ToolLocals, ToolPc, ReplyStates
  <2>4. CASE ToolFailsTurn(t)
    BY <2>1, <2>4 DEF ToolFailsTurn, ToolGoes, ClaudeKinds, HostKinds, ToolLocals, ToolPc, ReplyStates
  <2>5. CASE ToolFailsPending(t)
    BY <2>1, <2>5 DEF ToolFailsPending, ToolLocals, ToolPc
  <2> QED BY <2>2, <2>3, <2>4, <2>5
<1>6. tool' \in [ClaudeTurn -> ToolLocals]
  <2>1. \E F \in [ClaudeTurn -> ToolLocals] : tool' = F
    <3> DEFINE F == [u \in ClaudeTurn |-> tool'[u]]
    <3>1. tool' = F
      BY DEF SendsResult, ToolSettled, ToolFailsTurn, ToolFailsPending, ToolGoes, ClaudeKinds, HostKinds
    <3>2. F \in [ClaudeTurn -> ToolLocals]
      BY <1>5
    <3> QED BY <3>1, <3>2
  <2> QED BY <2>1
<1>7. ToolsStay
  BY <1>1, <1>5 DEF ToolsStay
<1>8. HostKinds'
  BY <1>1, <1>3, <1>4, <1>6 DEF ClaudeKinds, HostKinds, ToolLocals
<1> QED BY <1>1, <1>2, <1>4, <1>7, <1>8, ThreadOnly

\* A tool has run; a fatal failure is the turn's result before it is sent.
LEMMA ExecutesIs ==
    ASSUME ClaudeKinds, NEW t \in ClaudeTurn, Executes(t)
    PROVE  /\ ClaudeKinds'
           /\ UNCHANGED <<workerTurn, said, toldFatal, driver, hostTurn, outcome, recording, inbox, frames>>
           /\ ResultStays /\ tool[t].pc = "runs"
           /\ \A u \in ClaudeTurn : u # t => tool'[u] = tool[u]
           /\ tool'[t].fatal => hostTurn # t \/ turnResult' # "none"
<1> USE DEF Untouched, agentState, hearing
<1>1. PICK fatal \in BOOLEAN :
         /\ tool' = [tool EXCEPT ![t].pc = "send", ![t].fatal = fatal]
         /\ turnResult' = IF fatal THEN Terminalizes(t) ELSE turnResult
  BY DEF Executes
<1>2. /\ UNCHANGED <<frames, node, agentState, hearing, driver, hostTurn, outcome, recording, requester>>
      /\ UNCHANGED <<answered, inbox>> /\ tool[t].pc = "runs"
  BY DEF Executes, ToolIs
<1>3. ASSUME NEW u \in ClaudeTurn
      PROVE  tool'[u] \in ToolLocals /\ (u # t => tool'[u] = tool[u]) /\ (u = t => tool'[u].fatal = fatal)
  BY <1>1 DEF ClaudeKinds, HostKinds, ToolLocals, ToolPc
<1>4. tool' \in [ClaudeTurn -> ToolLocals]
  BY <1>1, <1>3 DEF ClaudeKinds, HostKinds
<1>5. /\ turnResult' \in ResultStatus \cup {"none"} /\ ResultStays
      /\ fatal => hostTurn # t \/ turnResult' # "none"
  BY <1>1 DEF Terminalizes, ClaudeKinds, HostKinds, ResultStatus, ResultStays, NoClaudeTurn, ClaudeTurn
<1>6. HostKinds'
  BY <1>2, <1>4, <1>5 DEF ClaudeKinds, HostKinds, ToolLocals
<1>7. PipeKinds' /\ NodeKinds' /\ UNCHANGED <<workerTurn, said, toldFatal>>
  BY <1>2, NodeStays DEF ClaudeKinds, PipeKinds
<1>8. tool'[t].fatal => hostTurn # t \/ turnResult' # "none"
  BY <1>3, <1>5
<1> QED BY <1>2, <1>3, <1>5, <1>6, <1>7, <1>8 DEF ClaudeKinds

----------------------------------------------------------------------------
LEMMA RequestsIs ==
    ASSUME ClaudeKinds, NEW q \in Sender, NEW op, NEW of, Requests(q, op, of),
           \/ op \in {"initialize", "close"} /\ of = NoClaudeTurn
           \/ op = "start" /\ of \in ClaudeTurn /\ q = of
           \/ op \in {"steer", "interrupt"} /\ of \in ClaudeTurn /\ q \in Requester
    PROVE  /\ answered' \in [Sender -> ReplyStates] /\ inbox' \in Seq(ToWorkers)
           /\ op # "start" => StartsWithin(0)
           /\ Len(inbox') = Len(inbox) + 1 /\ \A i \in 1 .. Len(inbox) : inbox'[i] = inbox[i]
           /\ inbox'[Len(inbox) + 1].op = op /\ inbox'[Len(inbox) + 1].of = of
<1> DEFINE m == ToWorker(op, of, q)
<1>1. m \in ToWorkers /\ m.op = op /\ m.of = of
  BY ToWorkerIs
<1>2. inbox' = Append(inbox, m) /\ answered' = [answered EXCEPT ![q] = "waiting"]
  BY DEF Requests
<1> HIDE DEF m
<1>3. answered' \in [Sender -> ReplyStates]
  BY <1>2 DEF ClaudeKinds, HostKinds, ReplyStates
<1> QED BY <1>1, <1>2, <1>3, InboxGrows DEF ClaudeKinds

LEMMA RequestersSettle ==
    ASSUME ClaudeKinds, NEW c \in Requester, RequesterStep(c), ~CloseBegins(c)
    PROVE  ClaudeKinds' /\ SettlesNothing
<1> USE DEF Aside, agentState, hearing
<1>1. /\ UNCHANGED <<frames, node, listener, driver, hostTurn, outcome, recording, tool>>
      /\ ToolsStay
  BY DEF RequesterStep, Talks, Talked, CloseAnswered, CloseFlag, KillBegins, Reaps, Marks, ToolsStay
<1>2. inbox' \in Seq(ToWorkers) /\ StartsWithin(0) /\ answered' \in [Sender -> ReplyStates]
  <2>1. CASE UNCHANGED <<inbox, answered>>
    BY <2>1, StartsStay DEF ClaudeKinds, HostKinds
  <2>2. CASE Talks(c) /\ ~UNCHANGED <<inbox, answered>>
    <3>1. PICK op \in {"steer", "interrupt"} : Requests(c, op, hostTurn)
      BY <2>2 DEF Talks
    <3>2. c \in Sender /\ hostTurn \in ClaudeTurn
      BY <2>2 DEF Talks, Sender, ClaudeKinds, HostKinds
    <3> QED BY <3>1, <3>2, RequestsIs
  <2>3. CASE Talked(c) \/ CloseAnswered(c)
    <3>1. UNCHANGED inbox /\ answered' = [answered EXCEPT ![c] = "gone"]
      BY <2>3 DEF Talked, CloseAnswered
    <3>2. answered' \in [Sender -> ReplyStates]
      BY <3>1 DEF ClaudeKinds, HostKinds, ReplyStates
    <3> QED BY <3>1, <3>2, StartsStay DEF ClaudeKinds
  <2> QED BY <2>1, <2>2, <2>3 DEF RequesterStep, CloseFlag, KillBegins, Reaps, Marks
<1>3. turnResult' \in ResultStatus \cup {"none"} /\ ResultStays
  <2>1. CASE Marks(c)
    BY <2>1, FailTurnIs DEF Marks, ClaudeKinds
  <2>2. CASE ~Marks(c)
    BY <2>2 DEF RequesterStep, Talks, Talked, CloseAnswered, CloseFlag, KillBegins, Reaps, ClaudeKinds, HostKinds,
                ResultStays
  <2> QED BY <2>1, <2>2
<1>4. agent' \in {"none", "alive", "dead"} /\ hasChild' \in BOOLEAN /\ isClosed' \in BOOLEAN
  BY DEF RequesterStep, Talks, Talked, CloseAnswered, CloseFlag, KillBegins, Reaps, Marks, KillFlag, KillTree,
         ClaudeKinds, HostKinds
<1>5. requester' \in [Requester -> RequesterPc]
  <2>1. PICK p \in RequesterPc : requester' = [requester EXCEPT ![c] = p]
    BY DEF RequesterStep, Talks, Talked, CloseAnswered, CloseFlag, KillBegins, Reaps, Marks, RequesterGoes,
           RequesterPc
  <2> QED BY <2>1 DEF ClaudeKinds, HostKinds
<1>6. HostKinds'
  BY <1>1, <1>2, <1>3, <1>4, <1>5 DEF ClaudeKinds, HostKinds
<1> QED BY <1>1, <1>2, <1>3, <1>6, ThreadOnly

----------------------------------------------------------------------------
(***************************************************************************)
(* Of a step that settles nothing, the invariant follows from its shape.   *)
(***************************************************************************)
TurnsAgree == TurnsInv /\ EndsInv /\ PipesInv /\ ResultsInv /\ FatalInv

LEMMA StaysSilent == ASSUME NothingNew, workerTurn' = workerTurn, Silent PROVE Silent'
<1>1. PICK d \in {0, 1}, e \in {0, 1} : FramesWithin(d) /\ StartsWithin(e)
  BY DEF NothingNew
<1>2. NoStart'
  BY <1>1 DEF Silent, NoStart, Asks, StartsWithin
<1>3. NoSpeech'
  BY <1>1 DEF Silent, NoSpeech, FramesWithin
<1> QED BY <1>2, <1>3 DEF Silent

LEMMA StaysFinished ==
    ASSUME NothingNew, workerTurn' = workerTurn, NEW t, Finished(t)
    PROVE  Finished(t)'
<1>1. PICK d \in {0, 1}, e \in {0, 1} : FramesWithin(d) /\ StartsWithin(e)
  BY DEF NothingNew
<1> QED BY <1>1 DEF Finished, Asks, StartsWithin, FramesWithin

LEMMA ClaudeEndsStay ==
    ASSUME EndsInv, NothingNew, UNCHANGED <<workerTurn, said, outcome>>
    PROVE  EndsInv'
<1> SUFFICES ASSUME NEW t \in ClaudeTurn, outcome'[t] = "ended"
             PROVE  said'[t] = "ended" /\ Finished(t)'
  BY DEF EndsInv
<1> QED BY StaysFinished DEF EndsInv

\* What is under way about the turn, apart from the phase of the driver.
StartsInv ==
    \A i \in 1 .. Len(inbox) : Asks(i) =>
       /\ inbox[i].of = hostTurn /\ workerTurn = NoClaudeTurn /\ NoSpeech
       /\ \A j \in 1 .. Len(inbox) : Asks(j) => j = i
SpeechInv ==
    \A i \in 1 .. Len(frames) : Spoken(frames[i]) =>
       /\ frames[i].of = hostTurn
       /\ frames[i].kind = "result" =>
             /\ workerTurn = NoClaudeTurn /\ NoStart /\ said[hostTurn] = frames[i].status
             /\ \A j \in 1 .. Len(frames) : Spoken(frames[j]) => j <= i

LEMMA PipesAre ==
    PipesInv <=> /\ AtRest => Silent
                 /\ Turning => workerTurn \in {NoClaudeTurn, hostTurn} /\ StartsInv /\ SpeechInv
BY DEF PipesInv, StartsInv, SpeechInv

LEMMA StartsInvStays ==
    ASSUME PipeKinds, PipeKinds', NothingNew, StartsInv, UNCHANGED <<workerTurn, hostTurn>>
    PROVE  StartsInv'
<1>1. PICK d \in {0, 1}, e \in {0, 1} : FramesWithin(d) /\ StartsWithin(e)
  BY DEF NothingNew
<1> SUFFICES ASSUME NEW i \in 1 .. Len(inbox'), inbox'[i].op = "start"
             PROVE  /\ inbox'[i].of = hostTurn' /\ workerTurn' = NoClaudeTurn /\ NoSpeech'
                    /\ \A j \in 1 .. Len(inbox') : inbox'[j].op = "start" => j = i
  BY DEF StartsInv, Asks
<1>2. i + e \in 1 .. Len(inbox) /\ inbox[i + e] = inbox'[i]
  BY <1>1 DEF StartsWithin
<1>3. inbox[i + e].of = hostTurn /\ workerTurn = NoClaudeTurn /\ NoSpeech
  BY <1>2 DEF StartsInv, Asks
<1>4. NoSpeech'
  BY <1>1, <1>3 DEF NoSpeech, FramesWithin
<1>5. ASSUME NEW j \in 1 .. Len(inbox'), inbox'[j].op = "start"
      PROVE  j = i
  <2>1. j + e \in 1 .. Len(inbox) /\ inbox[j + e] = inbox'[j]
    BY <1>1, <1>5 DEF StartsWithin
  <2>2. j + e = i + e
    BY <1>2, <1>5, <2>1 DEF StartsInv, Asks
  <2> QED BY <2>2 DEF PipeKinds
<1> QED BY <1>2, <1>3, <1>4, <1>5

LEMMA SpeechInvStays ==
    ASSUME PipeKinds, PipeKinds', NothingNew, SpeechInv, UNCHANGED <<workerTurn, hostTurn, said>>
    PROVE  SpeechInv'
<1>1. PICK d \in {0, 1}, e \in {0, 1} : FramesWithin(d) /\ StartsWithin(e)
  BY DEF NothingNew
<1> SUFFICES ASSUME NEW i \in 1 .. Len(frames'), Spoken(frames'[i])
             PROVE  /\ frames'[i].of = hostTurn'
                    /\ frames'[i].kind = "result" =>
                          /\ workerTurn' = NoClaudeTurn /\ NoStart' /\ said'[hostTurn'] = frames'[i].status
                          /\ \A j \in 1 .. Len(frames') : Spoken(frames'[j]) => j <= i
  BY DEF SpeechInv, Spoken
<1>2. i + d \in 1 .. Len(frames) /\ frames[i + d] = frames'[i] /\ Spoken(frames[i + d])
  BY <1>1 DEF FramesWithin
<1>3. frames[i + d].of = hostTurn
  BY <1>2 DEF SpeechInv
<1>4. ASSUME frames'[i].kind = "result"
      PROVE  /\ workerTurn = NoClaudeTurn /\ NoStart' /\ said[hostTurn] = frames'[i].status
             /\ \A j \in 1 .. Len(frames') : Spoken(frames'[j]) => j <= i
  <2>1. /\ workerTurn = NoClaudeTurn /\ NoStart /\ said[hostTurn] = frames'[i].status
        /\ \A j \in 1 .. Len(frames) : Spoken(frames[j]) => j <= i + d
    BY <1>2, <1>4 DEF SpeechInv
  <2>2. NoStart'
    BY <1>1, <2>1 DEF NoStart, Asks, StartsWithin
  <2>3. ASSUME NEW j \in 1 .. Len(frames'), Spoken(frames'[j])
        PROVE  j <= i
    <3>1. j + d \in 1 .. Len(frames) /\ Spoken(frames[j + d])
      BY <1>1, <2>3 DEF FramesWithin
    <3>2. j + d <= i + d
      BY <2>1, <3>1
    <3> QED BY <3>2 DEF PipeKinds
  <2> QED BY <2>1, <2>2, <2>3
<1> QED BY <1>2, <1>3, <1>4

LEMMA PipesStay ==
    ASSUME ClaudeKinds, ClaudeKinds', PipesInv, NothingNew, UNCHANGED <<workerTurn, said, driver, hostTurn>>
    PROVE  PipesInv'
<1>1. PipeKinds /\ PipeKinds'
  BY DEF ClaudeKinds
<1>2. (Turning' <=> Turning) /\ (AtRest' <=> AtRest)
  BY DEF Turning, AtRest
<1>3. AtRest => Silent'
  BY StaysSilent DEF PipesInv
<1>4. Turning => StartsInv' /\ SpeechInv' /\ workerTurn' \in {NoClaudeTurn, hostTurn'}
  BY <1>1, PipesAre, StartsInvStays, SpeechInvStays
<1> QED BY <1>2, <1>3, <1>4 DEF PipesInv, StartsInv, SpeechInv, Spoken, Asks

\* The turns, results and failures as far as they do not hang on the pipes.
LEMMA TurnsStay ==
    ASSUME ClaudeKinds, TurnsInv, ToolsStay, UNCHANGED <<driver, hostTurn, outcome>>
    PROVE  TurnsInv'
BY DEF TurnsInv, ToolsStay, Turning, ThisTurn, ClaudeKinds, HostKinds, ToolLocals

LEMMA ResultsStay ==
    ASSUME ResultsInv, ResultStays, NothingNew,
           UNCHANGED <<workerTurn, said, driver, hostTurn, recording>>
    PROVE  ResultsInv'
<1>1. (Turning' <=> Turning) /\ (AtRest' <=> AtRest) /\ (Silent => Silent')
  BY StaysSilent DEF Turning, AtRest
<1> QED BY <1>1 DEF ResultsInv, ResultStays

LEMMA FatalStays ==
    ASSUME FatalInv, ResultStays, ToolsStay, UNCHANGED <<toldFatal, driver, hostTurn, outcome, recording>>
    PROVE  FatalInv'
BY DEF FatalInv, ResultStays, ToolsStay, ThisTurn

LEMMA AgreeStays ==
    ASSUME ClaudeKinds, ClaudeKinds', TurnsAgree, SettlesNothing
    PROVE  TurnsAgree'
<1> USE DEF TurnsAgree, SettlesNothing
<1>1. TurnsInv' /\ EndsInv'
  BY TurnsStay, ClaudeEndsStay
<1>2. PipesInv'
  BY PipesStay
<1>3. ResultsInv' /\ FatalInv'
  BY ResultsStay, FatalStays
<1> QED BY <1>1, <1>2, <1>3

----------------------------------------------------------------------------
(***************************************************************************)
(* The steps on which a turn begins, speaks and ends.                      *)
(***************************************************************************)
LEMMA Phases ==
    ASSUME ClaudeKinds, TurnsInv
    PROVE  /\ AtRest \/ Turning \/ driver.pc = "over"
           /\ hostTurn \in ClaudeTurn => Turning
           /\ Turning => hostTurn = ThisTurn /\ hostTurn \in ClaudeTurn
           /\ ~Turning => hostTurn = NoClaudeTurn
           /\ driver.pc = "over" => ~Turning /\ ~AtRest
BY DEF ClaudeKinds, HostKinds, TurnsInv, AtRest, Turning, DriverPc, ClaudeTurn, NoClaudeTurn

LEMMA NothingMoves ==
    ASSUME PipeKinds, UNCHANGED <<inbox, frames>>
    PROVE  NothingNew
BY FramesStay, StartsStay DEF NothingNew

LEMMA StartsKeeps ==
    ASSUME ClaudeKinds, TurnsAgree, Starts, ~Refuses
    PROVE  ClaudeKinds' /\ TurnsAgree'
<1> USE DEF TurnsAgree
<1>1. /\ ClaudeKinds' /\ StartsWithin(1) /\ ResultStays /\ ToolsStay
      /\ UNCHANGED <<said, toldFatal, driver, hostTurn, outcome, recording, turnResult, tool>>
      /\ Asks(1) /\ 1 \in 1 .. Len(inbox)
      /\ workerTurn = NoClaudeTurn /\ workerTurn' = inbox[1].of /\ inbox[1].of \in ClaudeTurn
      /\ Len(frames') = Len(frames) + 2 /\ ~Spoken(frames'[Len(frames) + 2])
      /\ \A i \in 1 .. Len(frames) : frames'[i] = frames[i]
  BY StartsIs
<1>2. PICK e \in Frames : /\ Spoken(e) /\ e.of = inbox[1].of /\ e.kind # "result"
                          /\ frames'[Len(frames) + 1] = e
  BY StartsIs
<1>3. ~AtRest /\ (Turning' <=> Turning) /\ ~AtRest'
  BY <1>1 DEF PipesInv, Silent, NoStart, AtRest, Turning
<1>4. Len(frames) \in Nat /\ Len(inbox) \in Nat /\ Len(inbox') \in Nat
  BY <1>1 DEF ClaudeKinds, PipeKinds
<1>5. \A i \in 1 .. Len(frames') : i \in 1 .. Len(frames) \/ i = Len(frames) + 1 \/ i = Len(frames) + 2
  BY <1>1, <1>4
<1>6. TurnsInv' /\ FatalInv'
  BY <1>1, TurnsStay, FatalStays
<1>7. EndsInv'
  <2> SUFFICES ASSUME NEW t \in ClaudeTurn, outcome'[t] = "ended"
               PROVE  said'[t] = "ended" /\ Finished(t)'
    BY DEF EndsInv
  <2>1. said[t] = "ended" /\ Finished(t) /\ inbox[1].of # t
    BY <1>1 DEF EndsInv, Finished, Asks
  <2>2. \A i \in 1 .. Len(inbox') : inbox'[i].op = "start" => inbox'[i].of # t
    BY <1>1, <2>1 DEF StartsWithin, Finished, Asks
  <2>3. \A i \in 1 .. Len(frames') : Spoken(frames'[i]) => frames'[i].of # t
    BY <1>1, <1>2, <1>5, <2>1 DEF Finished
  <2> QED BY <1>1, <2>1, <2>2, <2>3 DEF Finished, Asks, Spoken
<1>8. ASSUME Turning
      PROVE  inbox[1].of = hostTurn /\ NoSpeech /\ NoStart' /\ recording = "none" /\ turnResult # "ended"
  <2>1. /\ inbox[1].of = hostTurn /\ NoSpeech
        /\ \A j \in 1 .. Len(inbox) : Asks(j) => j = 1
    BY <1>1, <1>8 DEF PipesInv
  <2>2. NoStart'
    <3> SUFFICES ASSUME NEW i \in 1 .. Len(inbox'), inbox'[i].op = "start"
                 PROVE  FALSE
      BY DEF NoStart, Asks
    <3>1. i + 1 \in 1 .. Len(inbox) /\ Asks(i + 1)
      BY <1>1 DEF StartsWithin, Asks
    <3> QED BY <1>4, <2>1, <3>1
  <2>3. ~Silent
    BY <1>1 DEF Silent, NoStart
  <2> QED BY <1>8, <2>1, <2>2, <2>3 DEF ResultsInv
<1>9. PipesInv'
  <2>1. ASSUME Turning
        PROVE  StartsInv' /\ SpeechInv' /\ workerTurn' = hostTurn'
    <3>1. StartsInv' /\ workerTurn' = hostTurn'
      BY <1>1, <1>8, <2>1 DEF StartsInv, NoStart
    <3>2. ASSUME NEW i \in 1 .. Len(frames'), Spoken(frames'[i])
          PROVE  frames'[i].of = hostTurn' /\ frames'[i].kind # "result"
      <4>1. i = Len(frames) + 1
        BY <1>1, <1>5, <1>8, <2>1, <3>2 DEF NoSpeech
      <4> QED BY <1>1, <1>2, <1>8, <2>1, <4>1
    <3> QED BY <3>1, <3>2 DEF SpeechInv, Spoken
  <2> QED BY <1>3, <2>1 DEF PipesInv, StartsInv, SpeechInv, Spoken, Asks
<1>10. ResultsInv'
  BY <1>1, <1>3, <1>8 DEF ResultsInv, Turning
<1> QED BY <1>1, <1>6, <1>7, <1>9, <1>10

LEMMA SpeakingIs ==
    ASSUME ClaudeKinds, TurnsAgree, workerTurn \in ClaudeTurn
    PROVE  /\ ~AtRest
           /\ Turning => /\ workerTurn = hostTurn /\ NoStart /\ recording = "none" /\ turnResult # "ended"
                         /\ \A i \in 1 .. Len(frames) :
                               Spoken(frames[i]) => frames[i].of = hostTurn /\ frames[i].kind # "result"
<1>1. workerTurn # NoClaudeTurn
  BY DEF ClaudeTurn, NoClaudeTurn
<1>2. ~Silent
  BY <1>1 DEF Silent
<1>3. ~AtRest
  BY <1>2 DEF TurnsAgree, PipesInv
<1>4. ASSUME Turning
      PROVE  /\ workerTurn = hostTurn /\ NoStart
             /\ \A i \in 1 .. Len(frames) :
                   Spoken(frames[i]) => frames[i].of = hostTurn /\ frames[i].kind # "result"
  BY <1>1, <1>4 DEF TurnsAgree, PipesInv, NoStart
<1>5. ASSUME Turning
      PROVE  recording = "none" /\ turnResult # "ended"
  BY <1>2, <1>5 DEF TurnsAgree, ResultsInv
<1> QED BY <1>3, <1>4, <1>5

LEMMA SpeechIs ==
    ASSUME ClaudeKinds, NEW f, SaysOfTurn(f)
    PROVE  /\ Len(frames) \in Nat /\ Len(frames') = Len(frames) + 1
           /\ frames'[Len(frames) + 1] = f /\ Spoken(f) /\ f.of = workerTurn /\ workerTurn \in ClaudeTurn
           /\ \A i \in 1 .. Len(frames') : (i \in 1 .. Len(frames) /\ frames'[i] = frames[i]) \/ i = Len(frames) + 1
<1>1. Len(frames) \in Nat
  BY DEF ClaudeKinds, PipeKinds
<1> QED BY <1>1 DEF SaysOfTurn

LEMMA DeltaKeeps ==
    ASSUME ClaudeConstantsOK, ClaudeKinds, TurnsAgree, Delta \/ InvokeTool
    PROVE  ClaudeKinds' /\ TurnsAgree'
<1> USE DEF TurnsAgree
<1>1. ClaudeKinds' /\ UNCHANGED <<inbox, workerTurn, said, toldFatal>> /\ UNCHANGED host
  BY DeltaIs
<1>2. PICK f \in Frames : SaysOfTurn(f) /\ f.kind # "result"
  BY DeltaIs
<1>3. /\ Len(frames) \in Nat /\ Len(frames') = Len(frames) + 1
      /\ frames'[Len(frames) + 1] = f /\ Spoken(f) /\ f.of = workerTurn /\ workerTurn \in ClaudeTurn
      /\ \A i \in 1 .. Len(frames') : (i \in 1 .. Len(frames) /\ frames'[i] = frames[i]) \/ i = Len(frames) + 1
  BY <1>2, SpeechIs
<1>4. /\ ResultStays /\ ToolsStay
      /\ UNCHANGED <<driver, hostTurn, outcome, recording, turnResult, tool>>
  BY <1>1, HostStays DEF ClaudeKinds
<1>5. ~AtRest /\ ~AtRest' /\ (Turning' <=> Turning)
  BY <1>3, <1>4, SpeakingIs DEF AtRest, Turning
<1>6. TurnsInv' /\ FatalInv'
  BY <1>1, <1>4, TurnsStay, FatalStays
<1>7. EndsInv'
  <2> SUFFICES ASSUME NEW t \in ClaudeTurn, outcome'[t] = "ended"
               PROVE  said'[t] = "ended" /\ Finished(t)'
    BY DEF EndsInv
  <2>1. said[t] = "ended" /\ Finished(t)
    BY <1>4 DEF EndsInv
  <2>2. \A i \in 1 .. Len(frames') : Spoken(frames'[i]) => frames'[i].of # t
    BY <1>3, <2>1 DEF Finished
  <2> QED BY <1>1, <2>1, <2>2 DEF Finished, Asks, Spoken
<1>8. PipesInv'
  <2>1. ASSUME Turning
        PROVE  StartsInv' /\ SpeechInv' /\ workerTurn' = hostTurn'
    <3>1. StartsInv' /\ workerTurn' = hostTurn'
      BY <1>1, <1>3, <1>4, <2>1, SpeakingIs DEF StartsInv, NoStart, Asks
    <3>2. ASSUME NEW i \in 1 .. Len(frames'), Spoken(frames'[i])
          PROVE  frames'[i].of = hostTurn' /\ frames'[i].kind # "result"
      BY <1>2, <1>3, <1>4, <2>1, <3>2, SpeakingIs
    <3> QED BY <3>1, <3>2 DEF SpeechInv, Spoken
  <2> QED BY <1>5, <2>1 DEF PipesInv, StartsInv, SpeechInv, Spoken, Asks
<1>9. ResultsInv'
  BY <1>3, <1>4, <1>5, SpeakingIs DEF ResultsInv, Turning
<1> QED BY <1>1, <1>6, <1>7, <1>8, <1>9

LEMMA EmitResultKeeps ==
    ASSUME ClaudeKinds, TurnsAgree, EmitResult
    PROVE  ClaudeKinds' /\ TurnsAgree'
<1> USE DEF TurnsAgree
<1>1. ClaudeKinds'
  BY EmitResultIs
<1>2. CASE SettlesNothing
  BY <1>1, <1>2, AgreeStays
<1>3. CASE ~SettlesNothing
  <2>1. UNCHANGED <<inbox, toldFatal>> /\ UNCHANGED host /\ workerTurn' = NoClaudeTurn
    BY <1>3, EmitResultIs
  <2>2. PICK f \in Frames : SaysOfTurn(f) /\ f.kind = "result" /\ said' = [said EXCEPT ![workerTurn] = f.status]
    BY <1>3, EmitResultIs
  <2>3. /\ Len(frames) \in Nat /\ Len(frames') = Len(frames) + 1
        /\ frames'[Len(frames) + 1] = f /\ Spoken(f) /\ f.of = workerTurn /\ workerTurn \in ClaudeTurn
        /\ \A i \in 1 .. Len(frames') : (i \in 1 .. Len(frames) /\ frames'[i] = frames[i]) \/ i = Len(frames) + 1
    BY <2>2, SpeechIs
  <2>4. /\ ResultStays /\ ToolsStay
        /\ UNCHANGED <<driver, hostTurn, outcome, recording, turnResult, tool>>
    BY <2>1, HostStays DEF ClaudeKinds
  <2>5. ~AtRest /\ ~AtRest' /\ (Turning' <=> Turning)
    BY <2>3, <2>4, SpeakingIs DEF AtRest, Turning
  <2>6. TurnsInv' /\ FatalInv'
    BY <2>1, <2>4, TurnsStay, FatalStays
  <2>7. /\ said'[workerTurn] = f.status
        /\ \A t \in ClaudeTurn : t # workerTurn => said'[t] = said[t]
    BY <2>2, <2>3 DEF ClaudeKinds, NodeKinds
  <2>8. EndsInv'
    <3> SUFFICES ASSUME NEW t \in ClaudeTurn, outcome'[t] = "ended"
                 PROVE  said'[t] = "ended" /\ Finished(t)'
      BY DEF EndsInv
    <3>1. said[t] = "ended" /\ Finished(t)
      BY <2>4 DEF EndsInv
    <3>2. said'[t] = "ended" /\ workerTurn' # t
      BY <2>1, <2>7, <3>1 DEF Finished, ClaudeTurn, NoClaudeTurn
    <3>3. \A i \in 1 .. Len(frames') : Spoken(frames'[i]) => frames'[i].of # t
      BY <2>3, <3>1 DEF Finished
    <3> QED BY <2>1, <3>1, <3>2, <3>3 DEF Finished, Asks, Spoken
  <2>9. PipesInv'
    <3>1. ASSUME Turning
          PROVE  StartsInv' /\ SpeechInv' /\ workerTurn' \in {NoClaudeTurn, hostTurn'}
      <4>1. NoStart' /\ StartsInv'
        BY <2>1, <2>3, <3>1, SpeakingIs DEF StartsInv, NoStart, Asks
      <4>2. ASSUME NEW i \in 1 .. Len(frames'), Spoken(frames'[i])
            PROVE  frames'[i].of = hostTurn' /\ (frames'[i].kind = "result" => i = Len(frames) + 1)
        BY <2>2, <2>3, <2>4, <3>1, <4>2, SpeakingIs
      <4>3. said'[hostTurn'] = frames'[Len(frames) + 1].status
        BY <2>3, <2>4, <2>7, <3>1, SpeakingIs
      <4>4. \A j \in 1 .. Len(frames') : j <= Len(frames) + 1
        BY <2>3
      <4> QED BY <2>1, <4>1, <4>2, <4>3, <4>4 DEF SpeechInv, Spoken
    <3> QED BY <2>5, <3>1 DEF PipesInv, StartsInv, SpeechInv, Spoken, Asks
  <2>10. ResultsInv'
    BY <2>3, <2>4, <2>5, SpeakingIs DEF ResultsInv, Turning
  <2> QED BY <1>1, <2>6, <2>8, <2>9, <2>10
<1> QED BY <1>2, <1>3

LEMMA ToolResultKeeps ==
    ASSUME ClaudeKinds, TurnsAgree, ToolResult
    PROVE  ClaudeKinds' /\ TurnsAgree'
<1> USE DEF TurnsAgree
<1>1. /\ ClaudeKinds' /\ NothingNew /\ ResultStays /\ ToolsStay
      /\ UNCHANGED <<workerTurn, said, driver, hostTurn, outcome, recording, turnResult, tool>>
  BY ToolResultIs
<1>2. TurnsInv' /\ EndsInv' /\ PipesInv' /\ ResultsInv'
  BY <1>1, TurnsStay, ClaudeEndsStay, PipesStay, ResultsStay
<1>3. CASE toldFatal' = toldFatal
  BY <1>1, <1>2, <1>3, FatalStays
<1>4. CASE toldFatal' # toldFatal
  <2>1. PICK t \in ClaudeTurn : t = workerTurn /\ tool[t].fatal /\ toldFatal' = toldFatal \cup {t}
    BY <1>4, ToolResultIs
  <2>2. outcome[t] # "ended"
    BY <2>1 DEF EndsInv, Finished
  <2>3. ~AtRest /\ (Turning => hostTurn = t /\ recording = "none" /\ turnResult # "ended")
    BY <2>1, SpeakingIs
  <2>4. driver.pc # "over" => t <= ThisTurn
    BY <2>1, <2>3, Phases DEF ClaudeTurn
  <2>5. hostTurn = t => turnResult = "fatal" /\ recording = "none"
    <3> SUFFICES ASSUME hostTurn = t
                 PROVE  turnResult = "fatal" /\ recording = "none"
      OBVIOUS
    <3>1. Turning
      BY Phases
    <3>2. turnResult # "none"
      BY <2>1 DEF FatalInv
    <3> QED BY <2>3, <3>1, <3>2 DEF ClaudeKinds, HostKinds, ResultStatus
  <2>6. FatalInv'
    BY <1>1, <2>1, <2>2, <2>4, <2>5 DEF FatalInv, ThisTurn
  <2> QED BY <1>1, <1>2, <2>6
<1> QED BY <1>3, <1>4

LEMMA HearsInvokeKeeps ==
    ASSUME ClaudeConstantsOK, ClaudeKinds, TurnsAgree, HearsInvoke
    PROVE  ClaudeKinds' /\ TurnsAgree'
<1> USE DEF TurnsAgree
<1>1. /\ ClaudeKinds' /\ NothingNew /\ ResultStays
      /\ UNCHANGED <<workerTurn, said, toldFatal, driver, hostTurn, outcome, recording, turnResult>>
      /\ hostTurn \in ClaudeTurn
      /\ \A t \in ClaudeTurn : /\ tool'[t].fatal = tool[t].fatal
                               /\ t # hostTurn => tool'[t] = tool[t]
  BY HearsInvokeIs
<1>2. EndsInv' /\ PipesInv' /\ ResultsInv'
  BY <1>1, ClaudeEndsStay, PipesStay, ResultsStay
<1>3. hostTurn = ThisTurn /\ hostTurn <= ThisTurn
  BY <1>1, Phases DEF ClaudeTurn, ClaudeConstantsOK
<1>4. TurnsInv'
  BY <1>1, <1>3 DEF TurnsInv, Turning, ThisTurn
<1>5. FatalInv'
  BY <1>1 DEF FatalInv, ThisTurn
<1> QED BY <1>1, <1>2, <1>4, <1>5

LEMMA HearsResultKeeps ==
    ASSUME ClaudeKinds, TurnsAgree, HearsResult
    PROVE  ClaudeKinds' /\ TurnsAgree'
<1> USE DEF TurnsAgree
<1>1. /\ ClaudeKinds' /\ ToolsStay /\ StartsWithin(0) /\ FramesWithin(1)
      /\ UNCHANGED <<workerTurn, said, toldFatal, driver, hostTurn, outcome, turnResult, tool>>
      /\ recording' = IF turnResult = "fatal" THEN "none" ELSE frames[1].status
      /\ 1 \in 1 .. Len(frames) /\ Spoken(frames[1]) /\ frames[1].kind = "result"
      /\ hostTurn \in ClaudeTurn
  BY HearsResultIs
<1>2. NothingNew
  BY <1>1 DEF NothingNew
<1>3. TurnsInv' /\ EndsInv' /\ PipesInv'
  BY <1>1, <1>2, TurnsStay, ClaudeEndsStay, PipesStay
<1>4. Turning /\ Turning' /\ ~AtRest
  <2>1. Turning
    BY <1>1, Phases
  <2>2. ~Silent
    BY <1>1 DEF Silent, NoSpeech
  <2> QED BY <1>1, <2>1, <2>2 DEF PipesInv, Turning
<1>5. /\ workerTurn = NoClaudeTurn /\ NoStart /\ said[hostTurn] = frames[1].status
      /\ \A j \in 1 .. Len(frames) : Spoken(frames[j]) => j <= 1
  BY <1>1, <1>4 DEF PipesInv
<1>6. NoSpeech'
  <2> SUFFICES ASSUME NEW i \in 1 .. Len(frames'), Spoken(frames'[i])
               PROVE  FALSE
    BY DEF NoSpeech, Spoken
  <2>1. i + 1 \in 1 .. Len(frames) /\ Spoken(frames[i + 1])
    BY <1>1 DEF FramesWithin
  <2>2. i + 1 <= 1
    BY <1>5, <2>1
  <2>3. i \in Nat /\ i >= 1
    BY <1>1 DEF ClaudeKinds, PipeKinds
  <2> QED BY <2>2, <2>3
<1>7. NoStart'
  BY <1>1, <1>5 DEF NoStart, Asks, StartsWithin
<1>8. Silent' /\ turnResult # "ended"
  BY <1>1, <1>4, <1>5, <1>6, <1>7 DEF Silent, ResultsInv, NoSpeech
<1>9. ResultsInv'
  BY <1>1, <1>4, <1>5, <1>8 DEF ResultsInv, Turning, AtRest
<1>10. FatalInv'
  BY <1>1 DEF FatalInv, ThisTurn
<1> QED BY <1>1, <1>3, <1>9, <1>10

LEMMA RecordsResultKeeps ==
    ASSUME ClaudeKinds, TurnsAgree, RecordsResult
    PROVE  ClaudeKinds' /\ TurnsAgree'
<1> USE DEF TurnsAgree
<1>1. /\ ClaudeKinds'
      /\ UNCHANGED <<workerTurn, said, toldFatal, driver, hostTurn, outcome, tool, inbox, frames>>
      /\ recording # "none" /\ recording' = "none" /\ turnResult' = recording
  BY RecordsResultIs
<1>2. NothingNew /\ ToolsStay
  BY <1>1, NothingMoves DEF ClaudeKinds, ToolsStay
<1>3. TurnsInv' /\ EndsInv' /\ PipesInv'
  BY <1>1, <1>2, TurnsStay, ClaudeEndsStay, PipesStay
<1>4. ~AtRest /\ ~AtRest' /\ (Turning' <=> Turning) /\ (Silent => Silent') /\ driver'.pc # "ask"
  BY <1>1, <1>2, StaysSilent DEF ResultsInv, AtRest, Turning
<1>5. ResultsInv'
  BY <1>1, <1>4 DEF ResultsInv
<1>6. FatalInv'
  BY <1>1 DEF FatalInv, ThisTurn
<1> QED BY <1>1, <1>3, <1>5, <1>6

LEMMA ExecutesKeeps ==
    ASSUME ClaudeKinds, TurnsAgree, NEW t \in ClaudeTurn, Executes(t)
    PROVE  ClaudeKinds' /\ TurnsAgree'
<1> USE DEF TurnsAgree
<1>1. /\ ClaudeKinds'
      /\ UNCHANGED <<workerTurn, said, toldFatal, driver, hostTurn, outcome, recording, inbox, frames>>
      /\ ResultStays /\ tool[t].pc = "runs"
      /\ \A u \in ClaudeTurn : u # t => tool'[u] = tool[u]
      /\ tool'[t].fatal => hostTurn # t \/ turnResult' # "none"
  BY ExecutesIs
<1>2. NothingNew
  BY <1>1, NothingMoves DEF ClaudeKinds
<1>3. EndsInv' /\ PipesInv' /\ ResultsInv'
  BY <1>1, <1>2, ClaudeEndsStay, PipesStay, ResultsStay
<1>4. TurnsInv'
  <2>1. t <= ThisTurn
    BY <1>1 DEF TurnsInv
  <2> QED BY <1>1, <2>1 DEF TurnsInv, Turning, ThisTurn
<1>5. FatalInv'
  <2> SUFFICES ASSUME NEW u \in ClaudeTurn
               PROVE  /\ tool'[u].fatal /\ hostTurn' = u => turnResult' # "none"
                      /\ u \in toldFatal' => /\ outcome'[u] # "ended"
                                             /\ driver'.pc # "over" => u <= driver'.turn
                                             /\ hostTurn' = u => turnResult' = "fatal" /\ recording' = "none"
    BY DEF FatalInv, ThisTurn
  <2>1. tool'[u].fatal /\ hostTurn' = u => turnResult' # "none"
    BY <1>1 DEF FatalInv, ResultStays
  <2> QED BY <1>1, <2>1 DEF FatalInv, ThisTurn, ResultStays
<1> QED BY <1>1, <1>3, <1>4, <1>5

----------------------------------------------------------------------------
(***************************************************************************)
(* open, run_turn and close.                                               *)
(***************************************************************************)
\* The driver's place moves, in the same turn.
DriverMoves(p) ==
    /\ driver' = [driver EXCEPT !.pc = p]
    /\ UNCHANGED <<hostTurn, outcome, turnResult, recording, tool, frames, node>>

LEMMA DriverMovesIs ==
    ASSUME ClaudeKinds, NEW p \in DriverPc, DriverMoves(p), listener' \in {"off", "on", "wake", "last", "ended"},
           answered' \in [Sender -> ReplyStates], requester' \in [Requester -> RequesterPc],
           agent' \in {"none", "alive", "dead"}, hasChild' \in BOOLEAN, isClosed' \in BOOLEAN,
           inbox' \in Seq(ToWorkers)
    PROVE  ClaudeKinds' /\ driver'.pc = p /\ driver'.turn = driver.turn /\ UNCHANGED <<workerTurn, said, toldFatal>>
<1> USE DEF DriverMoves
<1>1. driver' \in [pc : DriverPc, turn : ClaudeTurn \cup {NoClaudeTurn}] /\ driver'.pc = p
      /\ driver'.turn = driver.turn
  BY DEF ClaudeKinds, HostKinds
<1>2. HostKinds'
  BY <1>1 DEF ClaudeKinds, HostKinds
<1>3. PipeKinds' /\ NodeKinds' /\ UNCHANGED <<workerTurn, said, toldFatal>>
  BY NodeStays DEF ClaudeKinds, PipeKinds
<1> QED BY <1>1, <1>2, <1>3 DEF ClaudeKinds

\* From one place of rest to another, or to the end.
LEMMA RestKeeps ==
    ASSUME ClaudeKinds, TurnsAgree, AtRest, driver.pc # "ask", NothingNew,
           NEW p \in {"opening", "idle", "closing", "over"}, DriverMoves(p),
           driver'.pc = p, driver'.turn = driver.turn, UNCHANGED <<workerTurn, said, toldFatal>>
    PROVE  TurnsAgree'
<1> USE DEF TurnsAgree, DriverMoves
<1>1. ~Turning /\ ~Turning' /\ driver'.pc # "ask" /\ driver.pc # "over"
  BY DEF AtRest, Turning
<1>2. TurnsInv'
  BY <1>1 DEF TurnsInv, ThisTurn
<1>3. EndsInv'
  BY ClaudeEndsStay
<1>4. Silent'
  BY StaysSilent DEF PipesInv
<1>5. PipesInv' /\ ResultsInv'
  BY <1>1, <1>4 DEF PipesInv, ResultsInv
<1>6. FatalInv'
  BY <1>1 DEF FatalInv, ThisTurn
<1> QED BY <1>2, <1>3, <1>5, <1>6

\* The start is accepted, refused or lost.
LEMMA TurnKeeps ==
    ASSUME ClaudeKinds, ClaudeKinds', TurnsAgree, Turning, NothingNew,
           NEW p \in {"waits", "failed"}, DriverMoves(p),
           driver'.pc = p, driver'.turn = driver.turn, UNCHANGED <<workerTurn, said, toldFatal>>
    PROVE  TurnsAgree'
<1> USE DEF TurnsAgree, DriverMoves
<1>1. Turning' /\ ~AtRest' /\ driver'.pc # "ask" /\ driver'.pc # "over" /\ driver.pc # "over"
  BY DEF AtRest, Turning
<1>2. TurnsInv'
  BY <1>1 DEF TurnsInv, ThisTurn
<1>3. EndsInv' /\ (Silent => Silent')
  BY ClaudeEndsStay, StaysSilent
<1>4. StartsInv' /\ SpeechInv' /\ workerTurn' \in {NoClaudeTurn, hostTurn'}
  BY PipesAre, StartsInvStays, SpeechInvStays DEF ClaudeKinds
<1>5. PipesInv'
  BY <1>1, <1>4 DEF PipesInv, StartsInv, SpeechInv, Spoken, Asks
<1>6. ResultsInv'
  BY <1>1, <1>3 DEF ResultsInv
<1>7. FatalInv'
  BY <1>1 DEF FatalInv, ThisTurn
<1> QED BY <1>2, <1>3, <1>5, <1>6, <1>7

LEMMA OpenKeeps ==
    ASSUME ClaudeKinds, TurnsAgree, Open \/ Opened \/ TurnStarted \/ \E c \in Requester : CloseBegins(c)
    PROVE  ClaudeKinds' /\ TurnsAgree'
<1> USE DEF agentState, hearing, claudeTurns, pipes, DriverGoes, DriverIs
<1>1. CASE Open
  <2>1. Requests(NoClaudeTurn, "initialize", NoClaudeTurn) /\ NoClaudeTurn \in Sender
    BY <1>1 DEF Open, Sender
  <2>2. answered' \in [Sender -> ReplyStates] /\ inbox' \in Seq(ToWorkers) /\ StartsWithin(0)
    BY <2>1, RequestsIs
  <2>3. DriverMoves("opening") /\ AtRest /\ driver.pc # "ask"
    BY <1>1 DEF Open, DriverMoves, AtRest
  <2>4. NothingNew
    BY <2>2, <2>3, FramesStay DEF NothingNew, DriverMoves, ClaudeKinds
  <2>5. /\ requester' \in [Requester -> RequesterPc] /\ listener' = "on"
        /\ agent' = "alive" /\ hasChild' = TRUE /\ isClosed' = isClosed
    BY <1>1 DEF Open, ClaudeKinds, HostKinds
  <2>6. /\ ClaudeKinds' /\ driver'.pc = "opening" /\ driver'.turn = driver.turn
        /\ UNCHANGED <<workerTurn, said, toldFatal>>
    BY <2>2, <2>3, <2>5, DriverMovesIs DEF DriverPc, ClaudeKinds, HostKinds
  <2> QED BY <2>3, <2>4, <2>6, RestKeeps
<1>2. CASE Opened \/ TurnStarted
  <2>1. PICK q \in Sender, p \in {"idle", "over", "waits", "failed"} :
           /\ answered' = [answered EXCEPT ![q] = "gone"] /\ DriverMoves(p)
           /\ UNCHANGED <<agentState, listener, requester, inbox, frames>>
           /\ Opened => driver.pc = "opening" /\ p \in {"idle", "over"}
           /\ TurnStarted => driver.pc = "starting" /\ p \in {"waits", "failed"}
    <3>1. CASE Opened
      BY <1>2, <3>1 DEF Opened, TurnStarted, DriverMoves, Sender
    <3>2. CASE TurnStarted
      <4>1. ThisTurn \in Sender
        BY DEF ThisTurn, Sender, ClaudeKinds, HostKinds
      <4>2. ~Opened
        BY <3>2 DEF Opened, TurnStarted
      <4> QED BY <3>2, <4>1, <4>2 DEF TurnStarted, DriverMoves
    <3> QED BY <1>2, <3>1, <3>2
  <2>2. answered' \in [Sender -> ReplyStates]
    BY <2>1 DEF ClaudeKinds, HostKinds, ReplyStates
  <2>3. /\ requester' \in [Requester -> RequesterPc] /\ listener' = listener
        /\ UNCHANGED <<agent, hasChild, isClosed>> /\ inbox' \in Seq(ToWorkers)
    BY <2>1 DEF ClaudeKinds, HostKinds, PipeKinds
  <2>4. NothingNew
    BY <2>1, NothingMoves DEF ClaudeKinds
  <2>5. /\ ClaudeKinds' /\ driver'.pc = p /\ driver'.turn = driver.turn
        /\ UNCHANGED <<workerTurn, said, toldFatal>>
    BY <2>1, <2>2, <2>3, DriverMovesIs DEF DriverPc, ClaudeKinds, HostKinds
  <2>6. CASE Opened
    <3>1. AtRest /\ driver.pc # "ask" /\ p \in {"opening", "idle", "closing", "over"}
      BY <2>1, <2>6 DEF AtRest
    <3> QED BY <2>1, <2>4, <2>5, <3>1, RestKeeps
  <2>7. CASE TurnStarted
    <3>1. Turning /\ p \in {"waits", "failed"}
      BY <2>1, <2>7 DEF Turning
    <3> QED BY <2>1, <2>4, <2>5, <3>1, TurnKeeps
  <2> QED BY <1>2, <2>6, <2>7
<1>3. ASSUME NEW c \in Requester, CloseBegins(c)
      PROVE  ClaudeKinds' /\ TurnsAgree'
  <2> USE <1>3 DEF Aside
  <2>1. DriverMoves("closing") /\ AtRest /\ driver.pc # "ask"
    BY DEF CloseBegins, DriverMoves, AtRest
  <2>2. answered' \in [Sender -> ReplyStates] /\ inbox' \in Seq(ToWorkers) /\ StartsWithin(0)
    <3>1. CASE UNCHANGED <<answered, inbox>>
      BY <3>1, StartsStay DEF ClaudeKinds, HostKinds
    <3>2. CASE Requests(c, "close", NoClaudeTurn)
      <4>1. c \in Sender
        BY DEF Sender
      <4> QED BY <3>2, <4>1, RequestsIs
    <3> QED BY <3>1, <3>2 DEF CloseBegins
  <2>3. NothingNew
    BY <2>1, <2>2, FramesStay DEF NothingNew, DriverMoves, ClaudeKinds
  <2>4. requester' \in [Requester -> RequesterPc]
    <3>1. PICK p \in RequesterPc : requester' = [requester EXCEPT ![c] = p]
      BY DEF CloseBegins, RequesterGoes, RequesterPc
    <3> QED BY <3>1 DEF ClaudeKinds, HostKinds
  <2>5. listener' = listener /\ UNCHANGED <<agent, hasChild, isClosed>>
    BY DEF CloseBegins
  <2>6. /\ ClaudeKinds' /\ driver'.pc = "closing" /\ driver'.turn = driver.turn
        /\ UNCHANGED <<workerTurn, said, toldFatal>>
    BY <2>1, <2>2, <2>4, <2>5, DriverMovesIs DEF DriverPc, ClaudeKinds, HostKinds
  <2> QED BY <2>1, <2>3, <2>6, RestKeeps
<1> QED BY <1>1, <1>2, <1>3

\* run_turn begins a turn, of which nobody has heard.
LEMMA BeginTurnKeeps ==
    ASSUME ClaudeConstantsOK, ClaudeKinds, TurnsAgree, BeginTurn
    PROVE  ClaudeKinds' /\ TurnsAgree'
<1> USE DEF agentState, hearing, pipes, DriverGoes, DriverIs, TurnsAgree
<1>1. /\ UNCHANGED <<agentState, hearing, outcome, answered, tool, requester, inbox, frames, node>>
      /\ driver.pc = "idle" /\ ThisTurn < MaxClaudeTurns
  BY DEF BeginTurn
<1>2. PipeKinds' /\ NodeKinds' /\ UNCHANGED <<workerTurn, said, toldFatal>> /\ NothingNew
  BY <1>1, NodeStays, NothingMoves DEF ClaudeKinds, PipeKinds
<1>3. AtRest /\ driver.pc # "ask" /\ ~Turning /\ driver.pc # "over"
  BY <1>1 DEF AtRest, Turning
<1>4. CASE ~hasChild \/ isClosed
  <2>1. DriverMoves("over")
    BY <1>1, <1>4 DEF BeginTurn, DriverMoves
  <2>2. /\ ClaudeKinds' /\ driver'.pc = "over" /\ driver'.turn = driver.turn
    BY <1>1, <2>1, DriverMovesIs DEF DriverPc, ClaudeKinds, HostKinds, PipeKinds
  <2> QED BY <1>2, <1>3, <2>1, <2>2, RestKeeps
<1>5. CASE ~(~hasChild \/ isClosed)
  <2> DEFINE n == ThisTurn + 1
  <2>1. driver' = [pc |-> "ask", turn |-> n] /\ hostTurn' = n /\ turnResult' = "none"
    BY <1>5 DEF BeginTurn
  <2>2. n \in ClaudeTurn /\ ThisTurn \in Nat /\ n > ThisTurn
    BY <1>1 DEF ThisTurn, ClaudeTurn, NoClaudeTurn, ClaudeConstantsOK, ClaudeKinds, HostKinds
  <2>3. driver'.pc = "ask" /\ driver'.turn = n /\ driver' \in [pc : DriverPc, turn : ClaudeTurn \cup {NoClaudeTurn}]
    BY <2>1, <2>2 DEF DriverPc
  <2> HIDE DEF n
  <2>4. ClaudeKinds'
    BY <1>1, <1>2, <2>1, <2>2, <2>3 DEF ClaudeKinds, HostKinds
  <2>5. Turning' /\ AtRest' /\ driver'.pc # "over"
    BY <2>3 DEF Turning, AtRest
  <2>6. TurnsInv'
    <3>1. ASSUME NEW t \in ClaudeTurn
          PROVE  /\ t > n \/ t = n => outcome[t] = "none"
                 /\ tool[t].pc # "none" \/ tool[t].fatal => t <= n
      <4>1. t \in Nat /\ n \in Nat /\ n = ThisTurn + 1
        BY <2>2 DEF ClaudeTurn, ClaudeConstantsOK, n
      <4> QED BY <2>2, <4>1 DEF TurnsInv
    <3> QED BY <1>1, <2>1, <2>2, <2>3, <2>5, <3>1 DEF TurnsInv, ThisTurn
  <2>7. EndsInv'
    BY <1>1, <1>2, ClaudeEndsStay
  <2>8. Silent'
    BY <1>2, <1>3, StaysSilent DEF PipesInv
  <2>9. StartsInv' /\ SpeechInv' /\ workerTurn' \in {NoClaudeTurn, hostTurn'}
    BY <2>8 DEF StartsInv, SpeechInv, Silent, NoStart, NoSpeech, Spoken
  <2>10. PipesInv'
    BY <2>5, <2>8, <2>9 DEF PipesInv, StartsInv, SpeechInv, Spoken, Asks
  <2>11. recording' = "none"
    BY <1>1, <1>3 DEF ResultsInv
  <2>12. ResultsInv'
    BY <2>1, <2>11 DEF ResultsInv
  <2>13. FatalInv'
    <3>1. ASSUME NEW t \in ClaudeTurn, tool[t].fatal \/ t \in toldFatal
          PROVE  t <= ThisTurn /\ t # n /\ t <= n
      <4>1. t <= ThisTurn
        BY <1>3, <3>1 DEF TurnsInv, FatalInv
      <4>2. t \in Nat /\ n = ThisTurn + 1
        BY DEF ClaudeTurn, ClaudeConstantsOK, n
      <4> QED BY <2>2, <4>1, <4>2
    <3> QED BY <1>1, <1>2, <2>1, <2>3, <3>1 DEF FatalInv, ThisTurn
  <2> QED BY <2>4, <2>6, <2>7, <2>10, <2>12, <2>13
<1> QED BY <1>4, <1>5

\* Its start is written, unless the worker is gone.
LEMMA StartTurnKeeps ==
    ASSUME ClaudeKinds, TurnsAgree, StartTurn
    PROVE  ClaudeKinds' /\ TurnsAgree'
<1> USE DEF agentState, hearing, claudeTurns, DriverGoes, DriverIs, TurnsAgree
<1>1. /\ UNCHANGED <<agentState, listener, requester>> /\ driver.pc = "ask"
      /\ \/ DriverMoves("starting") /\ Requests(ThisTurn, "start", ThisTurn)
         \/ DriverMoves("failed") /\ UNCHANGED <<answered, inbox>>
  BY DEF StartTurn, DriverMoves
<1>2. /\ AtRest /\ Turning /\ hostTurn = ThisTurn /\ hostTurn \in ClaudeTurn
      /\ Silent /\ recording = "none" /\ turnResult # "ended"
  BY <1>1 DEF AtRest, Turning, TurnsInv, PipesInv, ResultsInv
<1>3. /\ requester' \in [Requester -> RequesterPc] /\ listener' \in {"off", "on", "wake", "last", "ended"}
      /\ agent' \in {"none", "alive", "dead"} /\ hasChild' \in BOOLEAN /\ isClosed' \in BOOLEAN
  BY <1>1 DEF ClaudeKinds, HostKinds
<1>4. CASE DriverMoves("failed") /\ UNCHANGED <<answered, inbox>>
  <2>1. answered' \in [Sender -> ReplyStates] /\ inbox' \in Seq(ToWorkers)
    BY <1>4 DEF ClaudeKinds, HostKinds, PipeKinds
  <2>2. /\ ClaudeKinds' /\ driver'.pc = "failed" /\ driver'.turn = driver.turn
        /\ UNCHANGED <<workerTurn, said, toldFatal>>
    BY <1>3, <1>4, <2>1, DriverMovesIs DEF DriverPc
  <2>3. NothingNew
    BY <1>4, NothingMoves DEF DriverMoves, ClaudeKinds
  <2> QED BY <1>2, <1>4, <2>2, <2>3, TurnKeeps
<1>5. CASE DriverMoves("starting") /\ Requests(ThisTurn, "start", ThisTurn)
  <2>1. ThisTurn \in Sender /\ ThisTurn \in ClaudeTurn
    BY <1>2 DEF Sender
  <2>2. /\ answered' \in [Sender -> ReplyStates] /\ inbox' \in Seq(ToWorkers)
        /\ Len(inbox') = Len(inbox) + 1 /\ \A i \in 1 .. Len(inbox) : inbox'[i] = inbox[i]
        /\ inbox'[Len(inbox) + 1].of = ThisTurn
    BY <1>5, <2>1, RequestsIs
  <2>3. /\ ClaudeKinds' /\ driver'.pc = "starting" /\ driver'.turn = driver.turn
        /\ UNCHANGED <<workerTurn, said, toldFatal>>
    BY <1>3, <1>5, <2>2, DriverMovesIs DEF DriverPc
  <2>4. UNCHANGED <<hostTurn, outcome, turnResult, recording, tool, frames>>
    BY <1>5 DEF DriverMoves
  <2>5. Turning' /\ ~AtRest' /\ driver'.pc # "ask" /\ driver'.pc # "over" /\ driver.pc # "over"
    BY <1>1, <2>3 DEF Turning, AtRest
  <2>6. TurnsInv'
    BY <1>2, <2>3, <2>4, <2>5 DEF TurnsInv, ThisTurn
  <2>7. workerTurn = NoClaudeTurn /\ NoStart /\ NoSpeech /\ NoSpeech' /\ Len(inbox) \in Nat
    BY <1>2, <2>4 DEF Silent, NoSpeech, Spoken, ClaudeKinds, PipeKinds
  <2>8. \A i \in 1 .. Len(inbox') : inbox'[i].op = "start" => i = Len(inbox) + 1
    BY <2>2, <2>7 DEF NoStart, Asks
  <2>9. EndsInv'
    <3> SUFFICES ASSUME NEW t \in ClaudeTurn, outcome'[t] = "ended"
                 PROVE  said'[t] = "ended" /\ Finished(t)'
      BY DEF EndsInv
    <3>1. said[t] = "ended" /\ Finished(t) /\ t # ThisTurn
      BY <1>2, <2>4 DEF EndsInv, TurnsInv
    <3>2. \A i \in 1 .. Len(inbox') : inbox'[i].op = "start" => inbox'[i].of # t
      BY <2>2, <2>8, <3>1
    <3> QED BY <2>3, <2>4, <3>1, <3>2 DEF Finished, Asks, Spoken
  <2>10. StartsInv' /\ SpeechInv' /\ workerTurn' = NoClaudeTurn
    BY <1>2, <2>2, <2>3, <2>4, <2>7, <2>8 DEF StartsInv, SpeechInv, Asks, NoSpeech, Spoken
  <2>11. PipesInv'
    BY <2>5, <2>10 DEF PipesInv, StartsInv, SpeechInv, Spoken, Asks
  <2>12. ResultsInv'
    BY <1>2, <2>4, <2>5 DEF ResultsInv
  <2>13. FatalInv'
    BY <2>3, <2>4, <2>5 DEF FatalInv, ThisTurn
  <2> QED BY <2>3, <2>6, <2>9, <2>11, <2>12, <2>13
<1> QED BY <1>1, <1>4, <1>5

\* The turn is reported and left.
LEMMA TurnReturnsKeeps ==
    ASSUME ClaudeKinds, TurnsAgree, TurnReturns
    PROVE  ClaudeKinds' /\ TurnsAgree'
<1> USE DEF agentState, hearing, pipes, DriverGoes, DriverIs, TurnsAgree
<1> DEFINE r == IF turnResult = "none" THEN "fatal" ELSE turnResult
           p == IF r = "fatal" THEN "over" ELSE "idle"
<1>1. /\ UNCHANGED <<agentState, hearing, turnResult, answered, tool, requester, inbox, frames, node>>
      /\ outcome' = [outcome EXCEPT ![ThisTurn] = r] /\ driver' = [driver EXCEPT !.pc = p]
      /\ hostTurn' = NoClaudeTurn /\ driver.pc \in {"failed", "waits"}
  BY DEF TurnReturns
<1>2. /\ Turning /\ ~AtRest /\ driver.pc # "over"
      /\ hostTurn = ThisTurn /\ ThisTurn \in ClaudeTurn
  BY <1>1 DEF Turning, AtRest, TurnsInv
<1>3. r \in ResultStatus /\ p \in {"over", "idle"} /\ (r = "ended" <=> turnResult = "ended") /\ (p = "idle" => r = "ended")
  BY DEF ClaudeKinds, HostKinds, ResultStatus
<1> HIDE DEF r, p
<1>4. driver'.pc = p /\ driver'.turn = driver.turn /\ driver' \in [pc : DriverPc, turn : ClaudeTurn \cup {NoClaudeTurn}]
  BY <1>1, <1>3 DEF ClaudeKinds, HostKinds, DriverPc
<1>5. /\ outcome' \in [ClaudeTurn -> ResultStatus \cup {"none"}] /\ outcome'[ThisTurn] = r
      /\ \A t \in ClaudeTurn : t # ThisTurn => outcome'[t] = outcome[t]
  BY <1>1, <1>2, <1>3 DEF ClaudeKinds, HostKinds
<1>6. PipeKinds' /\ NodeKinds' /\ UNCHANGED <<workerTurn, said, toldFatal>> /\ NothingNew
  BY <1>1, NodeStays, NothingMoves DEF ClaudeKinds, PipeKinds
<1>7. ClaudeKinds'
  BY <1>1, <1>4, <1>5, <1>6 DEF ClaudeKinds, HostKinds
<1>8. ~Turning' /\ driver'.pc # "ask" /\ (AtRest' => p = "idle")
  BY <1>3, <1>4 DEF Turning, AtRest
<1>9. turnResult = "ended" => Silent /\ said[ThisTurn] = "ended" /\ recording = "none"
  BY <1>2 DEF ResultsInv
<1>10. TurnsInv'
  <2>1. ASSUME NEW t \in ClaudeTurn, t > ThisTurn
        PROVE  outcome'[t] = "none"
    <3>1. t # ThisTurn
      BY <1>2, <2>1 DEF ClaudeTurn
    <3> QED BY <1>5, <2>1, <3>1 DEF TurnsInv
  <2> QED BY <1>1, <1>4, <1>8, <2>1 DEF TurnsInv, ThisTurn
<1>11. EndsInv'
  <2> SUFFICES ASSUME NEW t \in ClaudeTurn, outcome'[t] = "ended"
               PROVE  said'[t] = "ended" /\ Finished(t)'
    BY DEF EndsInv
  <2>1. CASE t = ThisTurn
    <3>1. Silent /\ said[t] = "ended"
      BY <1>3, <1>5, <1>9, <2>1
    <3>2. Finished(t)
      BY <3>1 DEF Silent, Finished, NoStart, NoSpeech, ClaudeTurn, NoClaudeTurn
    <3> QED BY <1>6, <3>1, <3>2, StaysFinished
  <2>2. CASE t # ThisTurn
    <3>1. said[t] = "ended" /\ Finished(t)
      BY <1>5, <2>2 DEF EndsInv
    <3> QED BY <1>6, <3>1, StaysFinished
  <2> QED BY <2>1, <2>2
<1>12. AtRest' => Silent' /\ recording' = "none"
  BY <1>1, <1>3, <1>6, <1>8, <1>9, StaysSilent
<1>13. PipesInv' /\ ResultsInv'
  BY <1>8, <1>12 DEF PipesInv, ResultsInv
<1>14. FatalInv'
  <2>1. ASSUME NEW t \in toldFatal, t \in ClaudeTurn
        PROVE  outcome'[t] # "ended" /\ (driver'.pc # "over" => t <= driver'.turn)
    <3>1. outcome[t] # "ended" /\ t <= ThisTurn /\ (hostTurn = t => turnResult = "fatal")
      BY <1>2, <2>1 DEF FatalInv
    <3>2. outcome'[t] # "ended"
      BY <1>2, <1>3, <1>5, <2>1, <3>1
    <3> QED BY <1>4, <3>1, <3>2 DEF ThisTurn
  <2>2. \A t \in ClaudeTurn : hostTurn' # t
    BY <1>1 DEF ClaudeTurn, NoClaudeTurn
  <2> QED BY <1>6, <2>1, <2>2 DEF FatalInv, ThisTurn
<1> QED BY <1>7, <1>10, <1>11, <1>13, <1>14

----------------------------------------------------------------------------
LEMMA ClaudeInitInv == ASSUME ClaudeConstantsOK, ClaudeInit PROVE ClaudeInv
<1> USE DEF ClaudeInit
<1>1. /\ inbox = <<>> /\ frames = <<>> /\ <<>> \in Seq(ToWorkers) /\ <<>> \in Seq(Frames)
      /\ Len(inbox) = 0 /\ Len(frames) = 0
  OBVIOUS
<1>2. tool \in [ClaudeTurn -> [pc : ToolPc, fatal : BOOLEAN, reply : ReplyStates]]
  BY DEF NoTool, ToolPc, ReplyStates
<1>3. driver \in [pc : DriverPc, turn : ClaudeTurn \cup {NoClaudeTurn}] /\ driver.pc = "new" /\ ThisTurn = 0
  BY DEF DriverPc, NoClaudeTurn, ThisTurn
<1>4. ClaudeKinds
  BY <1>1, <1>2, <1>3 DEF ClaudeKinds, HostKinds, PipeKinds, NodeKinds, ReplyStates, RequesterPc
<1>5. AtRest /\ ~Turning /\ driver.pc # "ask"
  BY <1>3 DEF AtRest, Turning
<1>6. Silent
  BY <1>1 DEF Silent, NoStart, NoSpeech
<1>7. TurnsInv
  BY <1>5 DEF TurnsInv, NoTool
<1>8. EndsInv /\ PipesInv /\ ResultsInv /\ FatalInv
  BY <1>5, <1>6, <1>7 DEF EndsInv, PipesInv, ResultsInv, FatalInv, NoTool
<1> QED BY <1>4, <1>7, <1>8 DEF ClaudeInv

LEMMA NodeKeeps ==
    ASSUME ClaudeConstantsOK, ClaudeKinds, TurnsAgree, NodeStep
    PROVE  ClaudeKinds' /\ TurnsAgree'
<1>1. CASE Initialize
  BY <1>1, InitializeSettles, AgreeStays
<1>2. CASE Starts
  <2>1. CASE Refuses
    <3>1. Reads("start")
      BY <1>2 DEF Starts
    <3>2. ClaudeKinds' /\ SettlesNothing
      BY <2>1, <3>1, RefusesOnly
    <3> QED BY <3>2, AgreeStays
  <2>2. CASE ~Refuses
    BY <1>2, <2>2, StartsKeeps
  <2> QED BY <2>1, <2>2
<1>3. CASE Steers
  BY <1>3, SteersSettles, AgreeStays
<1>4. CASE Interrupts
  BY <1>4, InterruptsSettles, AgreeStays
<1>5. CASE ToolResult
  BY <1>5, ToolResultKeeps
<1>6. CASE CloseSession
  BY <1>6, CloseSettles, AgreeStays
<1>7. CASE InterruptReturns \/ Consumes \/ Breaks \/ Dies
  BY <1>7, WorkerGoesOn, AgreeStays
<1>8. CASE Delta \/ InvokeTool
  BY <1>8, DeltaKeeps
<1>9. CASE EmitResult
  BY <1>9, EmitResultKeeps
<1> QED BY <1>1, <1>2, <1>3, <1>4, <1>5, <1>6, <1>7, <1>8, <1>9 DEF NodeStep

LEMMA HostKeeps ==
    ASSUME ClaudeConstantsOK, ClaudeKinds, TurnsAgree,
           ListenerStep \/ DriverStep \/ (\E t \in ClaudeTurn : ToolStep(t)) \/ \E c \in Requester : RequesterStep(c)
    PROVE  ClaudeKinds' /\ TurnsAgree'
<1>1. CASE HearsAnswer \/ HearsSettled
  BY <1>1, AnswersSettle, AgreeStays
<1>2. CASE HearsMisplaced \/ HearsEvent \/ HearsFatal \/ OutputEnds \/ Wakes
  BY <1>2, OthersSettle, AgreeStays
<1>3. CASE HearsInvoke
  BY <1>3, HearsInvokeKeeps
<1>4. CASE HearsResult
  BY <1>4, HearsResultKeeps
<1>5. CASE RecordsResult
  BY <1>5, RecordsResultKeeps
<1>6. CASE Open \/ Opened \/ TurnStarted
  BY <1>6, OpenKeeps
<1>7. CASE BeginTurn
  BY <1>7, BeginTurnKeeps
<1>8. CASE StartTurn
  BY <1>8, StartTurnKeeps
<1>9. CASE TurnReturns
  BY <1>9, TurnReturnsKeeps
<1>10. ASSUME NEW t \in ClaudeTurn, ToolStep(t)
       PROVE  ClaudeKinds' /\ TurnsAgree'
  <2>1. CASE Executes(t)
    BY <2>1, ExecutesKeeps
  <2>2. CASE ~Executes(t)
    <3>1. ClaudeKinds' /\ SettlesNothing
      BY <1>10, <2>2, ToolThreadSettles DEF ToolStep
    <3> QED BY <3>1, AgreeStays
  <2> QED BY <2>1, <2>2
<1>11. ASSUME NEW c \in Requester, RequesterStep(c)
       PROVE  ClaudeKinds' /\ TurnsAgree'
  <2>1. CASE CloseBegins(c)
    BY <2>1, OpenKeeps
  <2>2. CASE ~CloseBegins(c)
    <3>1. ClaudeKinds' /\ SettlesNothing
      BY <1>11, <2>2, RequestersSettle
    <3> QED BY <3>1, AgreeStays
  <2> QED BY <2>1, <2>2
<1> QED BY <1>1, <1>2, <1>3, <1>4, <1>5, <1>6, <1>7, <1>8, <1>9, <1>10, <1>11
        DEF ListenerStep, DriverStep

LEMMA ClaudeStutters == ASSUME ClaudeInv, UNCHANGED claudeVars PROVE ClaudeInv'
<1> USE DEF claudeVars, host, agentState, hearing, claudeTurns, pipes, node
<1>1. ClaudeKinds'
  BY DEF ClaudeInv, ClaudeKinds, HostKinds, PipeKinds, NodeKinds
<1>2. NothingNew /\ ResultStays /\ ToolsStay
  BY NothingMoves DEF ClaudeInv, ClaudeKinds, ResultStays, ToolsStay
<1>3. SettlesNothing
  BY <1>2 DEF SettlesNothing
<1>4. TurnsAgree'
  BY <1>1, <1>3, AgreeStays DEF ClaudeInv, TurnsAgree
<1> QED BY <1>1, <1>4 DEF ClaudeInv, TurnsAgree

\* The inductive invariant of the adapter of Claude and its worker: while a turn
\* runs, start, speech, result in the pipe, result at hand and result recorded
\* exclude each other and agree with what the worker said; at rest the pipes are
\* silent; a tool's fatal failure is the turn's result before the worker hears it.
THEOREM ClaudeInvHolds == ASSUME ClaudeConstantsOK PROVE ClaudeSpec => []ClaudeInv
<1>1. ClaudeInit => ClaudeInv
  BY ClaudeInitInv
<1>2. ClaudeInv /\ [ClaudeNext]_claudeVars => ClaudeInv'
  <2> SUFFICES ASSUME ClaudeInv, [ClaudeNext]_claudeVars
               PROVE  ClaudeInv'
    OBVIOUS
  <2>1. CASE UNCHANGED claudeVars
    BY <2>1, ClaudeStutters
  <2>2. CASE ClaudeNext
    <3>1. ClaudeKinds /\ TurnsAgree
      BY DEF ClaudeInv, TurnsAgree
    <3>2. ClaudeKinds' /\ TurnsAgree'
      BY <2>2, <3>1, NodeKeeps, HostKeeps DEF ClaudeNext
    <3> QED BY <3>2 DEF ClaudeInv, TurnsAgree
  <2> QED BY <2>1, <2>2
<1> QED BY <1>1, <1>2, PTL DEF ClaudeSpec

\* Every variable of the adapter and its worker has the values the code can give it.
THEOREM ClaudeTypeCorrect == ASSUME ClaudeConstantsOK PROVE ClaudeSpec => []ClaudeTypeOK
<1>1. ClaudeInv => ClaudeTypeOK
  BY DEF ClaudeInv, ClaudeKinds, HostKinds, NodeKinds, ClaudeTypeOK, ReplyStates
<1> QED BY <1>1, ClaudeInvHolds, PTL

\* Host and worker agree on a turn: one that run_turn reports without a fatal
\* failure ended in the worker, with that result and for good; no success follows
\* a fatal tool failure the worker has heard of; and as long as the conversation
\* goes on, what the worker writes about a turn is about the host's active one.
THEOREM ClaudeStaysInStep == ASSUME ClaudeConstantsOK PROVE ClaudeSpec => []TurnsStayInStep
<1>1. ClaudeInv => TurnsStayInStep
  <2> SUFFICES ASSUME ClaudeInv
               PROVE  TurnsStayInStep
    OBVIOUS
  <2> USE DEF ClaudeInv
  <2>1. ASSUME NEW t \in ClaudeTurn
        PROVE  /\ outcome[t] = "ended" => said[t] = "ended" /\ workerTurn # t
               /\ t \in toldFatal => outcome[t] \in {"none", "fatal"}
    BY DEF EndsInv, Finished, FatalInv, ClaudeKinds, HostKinds, ResultStatus
  <2>2. ASSUME driver.pc \in {"idle", "ask", "starting", "waits"}, NEW i \in 1 .. Len(frames),
               frames[i].kind \in {"event", "invoke", "result"}
        PROVE  frames[i].of = hostTurn
    <3>1. Spoken(frames[i])
      BY <2>2 DEF Spoken
    <3>2. CASE driver.pc = "idle"
      BY <2>2, <3>1, <3>2 DEF PipesInv, AtRest, Silent, NoSpeech
    <3>3. CASE driver.pc # "idle"
      BY <2>2, <3>1, <3>3 DEF PipesInv, Turning
    <3> QED BY <3>2, <3>3
  <2> QED BY <2>1, <2>2 DEF TurnsStayInStep
<1> QED BY <1>1, ClaudeInvHolds, PTL
=============================================================================
