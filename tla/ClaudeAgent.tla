----------------------------- MODULE ClaudeAgent -----------------------------
(***************************************************************************)
(* The adapter of Claude (adapters/claude_sdk.py) and the Node worker it   *)
(* owns (vendor_workers/claude_agent/worker.ts), joined by two pipes.  The *)
(* host's threads are run_turn, the reader, one per tool call, and the     *)
(* daemon's requests; the worker handles one request after the other while *)
(* it consumes the provider's messages.  A turn's id is the number of the  *)
(* run_turn that began it.                                                 *)
(***************************************************************************)
EXTENDS Integers, Sequences

CONSTANTS
    Requester,       \* bound: requests, each on a thread of its own
    NoRequester,
    MaxClaudeTurns,  \* bound: calls of run_turn
    ToolTurns,       \* bound: the turns that call a tool, once each
    MaxFrames        \* bound: frames in the pipe when another delta is written

ClaudeConstantsOK ==
    /\ MaxClaudeTurns \in Nat \ {0} /\ MaxFrames \in Nat /\ ToolTurns \subseteq 1 .. MaxClaudeTurns
    /\ NoRequester \notin Requester

VARIABLES
    agent,           \* the worker process: "none", "alive", "dead"
    hasChild,        \* _child is not None
    isClosed,        \* _closed
    listener,        \* the reader: "off", "on", "wake", "last", "ended"
    recording,       \* the turn.result it is about to record
    hostTurn,        \* _active_turn
    turnResult,      \* _turn_result
    answered,        \* what each registered request has been answered
    driver,          \* progress of open and run_turn
    tool,            \* the host's thread for the tool call of each turn
    requester,       \* progress of each request
    outcome,         \* what run_turn returned, for each turn
    inbox,           \* requests the worker has not read
    frames,          \* frames the reader has not read
    workerTurn,      \* activeTurnId
    closing,         \* the worker's closing
    pendingTool,     \* the turn whose tool call is in pendingTools
    busy,            \* the request whose interrupt() it awaits
    input,           \* what the provider has not taken from AsyncInput
    provider,        \* the provider: "idle", "running"
    said,            \* the turn.result the worker gave each turn
    toldFatal        \* turns whose fatal tool failure the worker accepted

claudeTurns == <<hostTurn, turnResult, outcome>>
agentState == <<agent, hasChild, isClosed>>
hearing == <<listener, recording>>
host == <<agentState, hearing, claudeTurns, answered, driver, tool, requester>>
pipes == <<inbox, frames>>
sdk == <<input, provider>>
node == <<workerTurn, closing, pendingTool, busy, said, toldFatal>>
claudeVars == <<host, pipes, sdk, node>>

NoClaudeTurn == 0
ClaudeTurn == 1 .. MaxClaudeTurns
Sender == ClaudeTurn \cup {NoClaudeTurn} \cup Requester  \* NoClaudeTurn sends initialize
ResultStatus == {"ended", "fatal"}    \* of a result: OK, FAILED or CANCELED, or fatal
NoTool == [pc |-> "none", fatal |-> FALSE, reply |-> "none"]

Frame(kind, of, status) == [kind |-> kind, of |-> of, status |-> status]
ToWorker(op, of, from) == [op |-> op, of |-> of, from |-> from]
Writes(fs) == frames' = frames \o fs

----------------------------------------------------------------------------
(***************************************************************************)
(* The worker.                                                             *)
(***************************************************************************)
\* fail: its last word; the process ends by itself afterwards.
Fail(fs) ==
    /\ closing' = TRUE /\ pendingTool' = NoClaudeTurn
    /\ Writes(Append(fs, Frame("fatal", workerTurn, "none")))
    /\ UNCHANGED <<workerTurn, busy, said, toldFatal>>

Reads(op) ==
    /\ agent = "alive" /\ ~closing /\ busy = NoRequester
    /\ inbox # <<>> /\ Head(inbox).op = op
    /\ inbox' = Tail(inbox)
    /\ UNCHANGED host

From == Head(inbox).from
Of == Head(inbox).of
Refuses == Writes(<<Frame("answer", From, "refused")>>) /\ UNCHANGED <<sdk, node>>

\* The account, the surface and the catalog are accepted, or it is the end.
Initialize ==
    /\ Reads("initialize") /\ UNCHANGED sdk
    /\ \/ Writes(<<Frame("answer", From, "ok"), Frame("initialized", NoClaudeTurn, "none")>>)
          /\ UNCHANGED node
       \/ Fail(<<Frame("answer", From, "refused")>>)

\* A message may fail to be built from its references.
Starts ==
    /\ Reads("start")
    /\ \/ Refuses
       \/ /\ workerTurn = NoClaudeTurn
          /\ workerTurn' = Of /\ input' = Append(input, "prompt")
          /\ Writes(<<Frame("event", Of, "none"), Frame("answer", From, "ok")>>)
          /\ UNCHANGED <<provider, closing, pendingTool, busy, said, toldFatal>>

Steers ==
    /\ Reads("steer")
    /\ \/ Refuses
       \/ /\ workerTurn # NoClaudeTurn /\ Of = workerTurn
          /\ input' = Append(input, "steer")
          /\ Writes(<<Frame("answer", From, "ok")>>)
          /\ UNCHANGED <<provider, node>>

\* No other request is handled until the provider's interrupt() has returned.
Interrupts ==
    /\ Reads("interrupt")
    /\ IF workerTurn # NoClaudeTurn /\ Of = workerTurn
       THEN /\ busy' = From
            /\ UNCHANGED <<frames, sdk, workerTurn, closing, pendingTool, said, toldFatal>>
       ELSE Refuses

InterruptReturns ==
    /\ agent = "alive" /\ ~closing /\ busy # NoRequester
    /\ Writes(<<Frame("answer", busy, "ok")>>) /\ busy' = NoRequester
    /\ UNCHANGED <<host, inbox, sdk, workerTurn, closing, pendingTool, said, toldFatal>>

\* toolResult: of the turn that runs and the call that waits, or refused.
ToolResult ==
    /\ Reads("result") /\ UNCHANGED sdk
    /\ IF workerTurn # NoClaudeTurn /\ Of = workerTurn /\ pendingTool = workerTurn
       THEN /\ pendingTool' = NoClaudeTurn /\ Writes(<<Frame("settled", Of, "ok")>>)
            /\ toldFatal' = IF tool[Of].fatal THEN toldFatal \cup {Of} ELSE toldFatal
            /\ UNCHANGED <<workerTurn, closing, busy, said>>
       ELSE Writes(<<Frame("settled", Of, "refused")>>) /\ UNCHANGED node

CloseSession ==
    /\ Reads("close") /\ UNCHANGED sdk
    /\ closing' = TRUE /\ pendingTool' = NoClaudeTurn
    /\ Writes(<<Frame("answer", From, "ok")>>)
    /\ UNCHANGED <<workerTurn, busy, said, toldFatal>>

\* The provider's next message is taken, or joins the turn that runs.
Consumes ==
    /\ agent = "alive" /\ ~closing /\ input # <<>>
    /\ provider = "idle" \/ Head(input) = "steer"
    /\ input' = Tail(input)
    /\ provider' = "running"
    /\ UNCHANGED <<host, pipes, node>>

Speaks == agent = "alive" /\ ~closing /\ provider # "idle" /\ UNCHANGED <<host, inbox>>

Delta ==
    /\ Speaks /\ workerTurn # NoClaudeTurn /\ Len(frames) < MaxFrames
    /\ Writes(<<Frame("event", workerTurn, "none")>>)
    /\ UNCHANGED <<sdk, node>>

\* One call at a time; open, then invoke.
InvokeTool ==
    /\ Speaks /\ workerTurn \in ToolTurns /\ pendingTool = NoClaudeTurn /\ tool[workerTurn] = NoTool
    /\ \A i \in 1 .. Len(frames) : frames[i] # Frame("invoke", workerTurn, "none")
    /\ pendingTool' = workerTurn
    /\ Writes(<<Frame("invoke", workerTurn, "none")>>)
    /\ UNCHANGED <<sdk, workerTurn, closing, busy, said, toldFatal>>

\* emitResult: what is pending is rejected and the turn is left; a result that
\* belongs to no turn is fatal.
EmitResult ==
    /\ Speaks /\ provider' = "idle" /\ UNCHANGED input
    /\ IF workerTurn = NoClaudeTurn THEN Fail(<<>>)
       ELSE \E s \in ResultStatus :
              /\ Writes(<<Frame("result", workerTurn, s)>>)
              /\ said' = [said EXCEPT ![workerTurn] = s]
              /\ workerTurn' = NoClaudeTurn /\ pendingTool' = NoClaudeTurn
              /\ UNCHANGED <<closing, busy, toldFatal>>

\* Another model, a broken stream, an answer without a turn.
Breaks == Speaks /\ Fail(<<>>) /\ UNCHANGED sdk

Dies ==
    /\ agent = "alive" /\ agent' = "dead"
    /\ UNCHANGED <<hasChild, isClosed, hearing, claudeTurns, answered, driver, tool, requester, pipes,
                   sdk, node>>

NodeStep ==
    \/ Initialize \/ Starts \/ Steers \/ Interrupts \/ InterruptReturns \/ ToolResult
    \/ CloseSession \/ Consumes \/ Delta \/ InvokeTool \/ EmitResult \/ Breaks \/ Dies

----------------------------------------------------------------------------
(***************************************************************************)
(* The host's requests: registered and written, then answered, refused or  *)
(* given up at their timeout.                                              *)
(***************************************************************************)
Writable == hasChild /\ agent = "alive"

\* _worker_failed: the turn first, then everybody who waits for an answer.
FailTurn ==
    turnResult' = IF hostTurn # NoClaudeTurn /\ turnResult = "none" THEN "fatal" ELSE turnResult
Refusal(r) == IF r = "waiting" THEN "refused" ELSE r
FailPending ==
    /\ answered' = [q \in Sender |-> Refusal(answered[q])]
    /\ tool' = [t \in ClaudeTurn |-> [tool[t] EXCEPT !.reply = Refusal(@)]]

\* _request, of the conversation's worker and of the daemon's threads.
Requests(q, op, of) ==
    /\ answered' = [answered EXCEPT ![q] = "waiting"]
    /\ inbox' = Append(inbox, ToWorker(op, of, q))

----------------------------------------------------------------------------
(***************************************************************************)
(* _read_stdout and _handle_event.                                         *)
(***************************************************************************)
ToNobody == <<agentState, claudeTurns, driver, requester, inbox, sdk, node>>
Hears(kind) ==
    /\ listener = "on" /\ recording = "none" /\ hasChild
    /\ frames # <<>> /\ Head(frames).kind = kind /\ frames' = Tail(frames)

HearsAnswer ==
    /\ Hears("answer")
    /\ LET q == Head(frames).of IN
         IF answered[q] \in {"ok", "refused"}      \* a second answer in a queue of one
         THEN listener' = "last" /\ FailTurn /\ UNCHANGED answered
         ELSE /\ answered' = IF answered[q] = "waiting"
                             THEN [answered EXCEPT ![q] = Head(frames).status]
                             ELSE answered
              /\ UNCHANGED <<listener, turnResult>>
    /\ UNCHANGED <<agentState, recording, hostTurn, outcome, driver, tool, requester, inbox, sdk, node>>

HearsSettled ==
    /\ Hears("settled")
    /\ LET t == Head(frames).of IN
         IF tool[t].reply = "refused"
         THEN listener' = "last" /\ FailTurn /\ UNCHANGED tool
         ELSE /\ tool' = IF tool[t].reply = "waiting"
                         THEN [tool EXCEPT ![t].reply = Head(frames).status] ELSE tool
              /\ UNCHANGED <<listener, turnResult>>
    /\ UNCHANGED <<agentState, recording, hostTurn, outcome, answered, driver, requester, inbox, sdk, node>>

\* An event of another turn than the active one is a protocol failure.
Misplaced(f) ==
    IF f.kind = "initialized" THEN hostTurn # NoClaudeTurn
                              ELSE hostTurn = NoClaudeTurn \/ f.of # hostTurn

HearsMisplaced ==
    /\ \E kind \in {"initialized", "event", "invoke", "result"} : Hears(kind)
    /\ Misplaced(Head(frames))
    /\ listener' = "last" /\ FailTurn
    /\ UNCHANGED <<agentState, recording, hostTurn, outcome, answered, driver, tool, requester, inbox,
                   sdk, node>>

HearsEvent ==
    /\ (Hears("initialized") \/ Hears("event")) /\ ~Misplaced(Head(frames))
    /\ UNCHANGED <<ToNobody, listener, recording, answered, tool>>

HearsInvoke ==
    /\ Hears("invoke") /\ ~Misplaced(Head(frames))
    /\ tool' = [tool EXCEPT ![Head(frames).of].pc = "runs"]
    /\ UNCHANGED <<ToNobody, hearing, answered>>

\* turn.result: a fatal result stands; otherwise it is recorded after a look.
HearsResult ==
    /\ Hears("result") /\ ~Misplaced(Head(frames))
    /\ recording' = IF turnResult = "fatal" THEN "none" ELSE Head(frames).status
    /\ UNCHANGED <<ToNobody, listener, answered, tool>>

RecordsResult ==
    /\ recording # "none" /\ recording' = "none" /\ turnResult' = recording
    /\ UNCHANGED <<agentState, listener, hostTurn, outcome, answered, driver, tool, requester, pipes,
                   sdk, node>>

HearsFatal ==
    /\ Hears("fatal") /\ FailTurn
    /\ listener' = IF Head(frames).of = hostTurn THEN "wake" ELSE "last"
    /\ UNCHANGED <<agentState, recording, hostTurn, outcome, answered, driver, tool, requester, inbox,
                   sdk, node>>

OutputEnds ==
    /\ listener = "on" /\ recording = "none" /\ agent = "dead"
    /\ frames = <<>> \/ ~hasChild
    /\ IF isClosed /\ frames = <<>> THEN listener' = "ended" /\ UNCHANGED turnResult
                               ELSE listener' = "last" /\ FailTurn
    /\ UNCHANGED <<agentState, recording, hostTurn, outcome, answered, driver, tool, requester, pipes,
                   sdk, node>>

Wakes ==
    /\ listener \in {"wake", "last"} /\ listener' = IF listener = "last" THEN "ended" ELSE "on"
    /\ FailPending
    /\ UNCHANGED <<agentState, recording, claudeTurns, driver, requester, pipes, sdk, node>>

ListenerStep ==
    \/ HearsAnswer \/ HearsSettled \/ HearsMisplaced \/ HearsEvent \/ HearsInvoke
    \/ HearsResult \/ RecordsResult \/ HearsFatal \/ OutputEnds \/ Wakes

----------------------------------------------------------------------------
(***************************************************************************)
(* open and run_turn.  A conversation that failed is over: its session     *)
(* kills the adapter as a request would (KillBegins).                      *)
(***************************************************************************)
DriverIs(place) == driver.pc = place
DriverGoes(place) == driver' = [driver EXCEPT !.pc = place]
ThisTurn == driver.turn

Open ==
    /\ DriverIs("new") /\ DriverGoes("opening")
    /\ agent' = "alive" /\ hasChild' = TRUE /\ listener' = "on"
    /\ Requests(NoClaudeTurn, "initialize", NoClaudeTurn)
    /\ UNCHANGED <<isClosed, recording, claudeTurns, tool, requester, frames, sdk, node>>

\* What initialize answered is checked once more.
Opened ==
    /\ DriverIs("opening") /\ answered' = [answered EXCEPT ![NoClaudeTurn] = "gone"]
    /\ \/ answered[NoClaudeTurn] = "ok" /\ DriverGoes("idle")
       \/ answered[NoClaudeTurn] # "none" /\ DriverGoes("over")
    /\ UNCHANGED <<agentState, hearing, claudeTurns, tool, requester, pipes, sdk, node>>

BeginTurn ==
    /\ DriverIs("idle") /\ ThisTurn < MaxClaudeTurns
    /\ IF ~hasChild \/ isClosed
       THEN DriverGoes("over") /\ UNCHANGED <<hostTurn, turnResult>>
       ELSE /\ driver' = [pc |-> "ask", turn |-> ThisTurn + 1]
            /\ hostTurn' = ThisTurn + 1 /\ turnResult' = "none"
    /\ UNCHANGED <<agentState, hearing, outcome, answered, tool, requester, pipes, sdk, node>>

\* The prompt is staged, and the request written unless the worker is gone.
StartTurn ==
    /\ DriverIs("ask")
    /\ IF Writable THEN Requests(ThisTurn, "start", ThisTurn) /\ DriverGoes("starting")
                   ELSE DriverGoes("failed") /\ UNCHANGED <<answered, inbox>>
    /\ UNCHANGED <<agentState, hearing, claudeTurns, tool, requester, frames, sdk, node>>

\* Accepted; or refused, or too late.
TurnStarted ==
    /\ DriverIs("starting") /\ answered[ThisTurn] # "none"
    /\ DriverGoes(IF answered[ThisTurn] = "ok" THEN "waits" ELSE "failed")
    /\ answered' = [answered EXCEPT ![ThisTurn] = "gone"]
    /\ UNCHANGED <<agentState, hearing, claudeTurns, tool, requester, pipes, sdk, node>>

\* The result that is there, or a failure; then the turn is left.
TurnReturns ==
    /\ DriverIs("failed") \/ (DriverIs("waits") /\ turnResult # "none")
    /\ LET r == IF turnResult = "none" THEN "fatal" ELSE turnResult IN
         /\ outcome' = [outcome EXCEPT ![ThisTurn] = r]
         /\ DriverGoes(IF r = "fatal" THEN "over" ELSE "idle")
    /\ hostTurn' = NoClaudeTurn
    /\ UNCHANGED <<agentState, hearing, turnResult, answered, tool, requester, pipes, sdk, node>>

DriverStep == Open \/ Opened \/ BeginTurn \/ StartTurn \/ TurnStarted \/ TurnReturns

----------------------------------------------------------------------------
(***************************************************************************)
(* _handle_tool, on a thread of its own.                                   *)
(***************************************************************************)
ToolIs(t, place) == tool[t].pc = place
ToolGoes(t, place) == tool' = [tool EXCEPT ![t].pc = place]
Untouched == <<agentState, hearing, hostTurn, outcome, driver, requester, frames, sdk, node>>

\* Mutant: the turn goes on after a fatal failure.
TerminalizesNot(t) == turnResult

\* _terminalize_tool_failure.
Terminalizes(t) == IF hostTurn = t /\ turnResult = "none" THEN "fatal" ELSE turnResult

\* The gateway has answered; a fatal answer ends the turn before it is sent.
Executes(t) ==
    /\ ToolIs(t, "runs")
    /\ \E fatal \in BOOLEAN :
          /\ tool' = [tool EXCEPT ![t].pc = "send", ![t].fatal = fatal]
          /\ turnResult' = IF fatal THEN Terminalizes(t) ELSE turnResult
    /\ UNCHANGED <<Untouched, answered, inbox>>

NotSent(t) == IF tool[t].fatal THEN "over" ELSE "fail"

SendsResult(t) ==
    /\ ToolIs(t, "send")
    /\ IF Writable
       THEN /\ tool' = [tool EXCEPT ![t].pc = "waits", ![t].reply = "waiting"]
            /\ inbox' = Append(inbox, ToWorker("result", t, NoRequester))
       ELSE ToolGoes(t, NotSent(t)) /\ UNCHANGED inbox
    /\ UNCHANGED <<Untouched, answered, turnResult>>

\* Accepted; or refused, or too late, which fails the worker and whichever turn
\* is active.
ToolSettled(t) ==
    /\ ToolIs(t, "waits")
    /\ tool' = [tool EXCEPT ![t].reply = "gone",
                            ![t].pc = IF tool[t].reply = "ok" THEN "over" ELSE NotSent(t)]
    /\ UNCHANGED <<Untouched, answered, inbox, turnResult>>

ToolFailsTurn(t) ==
    /\ ToolIs(t, "fail") /\ ToolGoes(t, "wake") /\ FailTurn
    /\ UNCHANGED <<Untouched, answered, inbox>>

ToolFailsPending(t) ==
    /\ ToolIs(t, "wake")
    /\ answered' = [q \in Sender |-> Refusal(answered[q])]
    /\ tool' = [u \in ClaudeTurn |-> [tool[u] EXCEPT !.reply = Refusal(@),
                                               !.pc = IF u = t THEN "over" ELSE @]]
    /\ UNCHANGED <<Untouched, inbox, turnResult>>

ToolStep(t) ==
    \/ Executes(t) \/ SendsResult(t) \/ ToolSettled(t) \/ ToolFailsTurn(t) \/ ToolFailsPending(t)

----------------------------------------------------------------------------
(***************************************************************************)
(* steer, interrupt, close and kill, on the daemon's request threads.      *)
(***************************************************************************)
RequesterIs(c, place) == requester[c] = place
RequesterGoes(c, place) == requester' = [requester EXCEPT ![c] = place]
Aside == <<hearing, hostTurn, outcome, tool, frames, sdk, node>>

\* kill: the flag, the process, the result of a turn that still waits.
KillFlag == isClosed' = TRUE /\ UNCHANGED <<agent, hasChild>>

\* _kill_tree; a process whose end is not proven stays attached.
KillTree ==
    /\ UNCHANGED isClosed
    /\ IF hasChild
       THEN \/ agent' = "dead" /\ hasChild' = FALSE
            \/ UNCHANGED <<agent, hasChild>>
       ELSE UNCHANGED <<agent, hasChild>>

\* Only while the turn runs; a worker that is gone answers at once.
Talks(c) ==
    /\ RequesterIs(c, "idle") /\ hostTurn # NoClaudeTurn
    /\ \E op \in {"steer", "interrupt"} :
          IF Writable THEN RequesterGoes(c, op) /\ Requests(c, op, hostTurn)
          ELSE /\ RequesterGoes(c, IF op = "steer" THEN "over" ELSE "reap only")
               /\ UNCHANGED <<answered, inbox>>
    /\ UNCHANGED <<Aside, agentState, turnResult, driver>>

\* An interrupt nobody confirms takes the process down.
Talked(c) ==
    /\ requester[c] \in {"steer", "interrupt"}
    /\ RequesterGoes(c, IF RequesterIs(c, "steer") \/ answered[c] = "ok" THEN "over"
                                                                ELSE "reap only")
    /\ answered' = [answered EXCEPT ![c] = "gone"]
    /\ UNCHANGED <<Aside, agentState, turnResult, driver, inbox>>

\* close is admitted in an idle conversation, which begins no turn afterwards.
CloseBegins(c) ==
    /\ RequesterIs(c, "idle") /\ DriverIs("idle") /\ DriverGoes("closing")
    /\ IF Writable THEN RequesterGoes(c, "close") /\ Requests(c, "close", NoClaudeTurn)
                   ELSE RequesterGoes(c, "closed") /\ UNCHANGED <<answered, inbox>>
    /\ UNCHANGED <<Aside, agentState, turnResult>>

CloseAnswered(c) ==
    /\ RequesterIs(c, "close") /\ RequesterGoes(c, "closed")
    /\ answered' = [answered EXCEPT ![c] = "gone"]
    /\ UNCHANGED <<Aside, agentState, turnResult, driver, inbox>>

\* The flag; then the process ends by itself or is killed.
CloseFlag(c) ==
    /\ RequesterIs(c, "closed") /\ RequesterGoes(c, "reap only") /\ KillFlag
    /\ UNCHANGED <<Aside, answered, turnResult, driver, inbox>>

KillBegins(c) ==
    /\ RequesterIs(c, "idle") /\ driver.pc \notin {"new", "opening"}
    /\ RequesterGoes(c, "reap") /\ KillFlag
    /\ UNCHANGED <<Aside, answered, turnResult, driver, inbox>>

Reaps(c) ==
    /\ \/ RequesterIs(c, "reap") /\ RequesterGoes(c, "mark")
       \/ RequesterIs(c, "reap only") /\ RequesterGoes(c, "over")
    /\ KillTree
    /\ UNCHANGED <<Aside, answered, turnResult, driver, inbox>>

Marks(c) ==
    /\ RequesterIs(c, "mark") /\ RequesterGoes(c, "over") /\ FailTurn
    /\ UNCHANGED <<Aside, agentState, answered, driver, inbox>>

RequesterStep(c) ==
    \/ Talks(c) \/ Talked(c) \/ CloseBegins(c) \/ CloseAnswered(c) \/ CloseFlag(c)
    \/ KillBegins(c) \/ Reaps(c) \/ Marks(c)

----------------------------------------------------------------------------
ClaudeInit ==
    /\ agent = "none" /\ hasChild = FALSE /\ isClosed = FALSE
    /\ listener = "off" /\ recording = "none" /\ hostTurn = NoClaudeTurn /\ turnResult = "none"
    /\ answered = [q \in Sender |-> "none"]
    /\ driver = [pc |-> "new", turn |-> NoClaudeTurn]
    /\ tool = [t \in ClaudeTurn |-> NoTool] /\ requester = [c \in Requester |-> "idle"]
    /\ outcome = [t \in ClaudeTurn |-> "none"] /\ said = [t \in ClaudeTurn |-> "none"]
    /\ inbox = <<>> /\ frames = <<>>
    /\ workerTurn = NoClaudeTurn /\ closing = FALSE
    /\ pendingTool = NoClaudeTurn /\ busy = NoRequester
    /\ input = <<>> /\ provider = "idle" /\ toldFatal = {}

ClaudeNext ==
    \/ NodeStep \/ ListenerStep \/ DriverStep
    \/ \E t \in ClaudeTurn : ToolStep(t)
    \/ \E c \in Requester : RequesterStep(c)

ClaudeSpec == ClaudeInit /\ [][ClaudeNext]_claudeVars

----------------------------------------------------------------------------
\* Every variable has the values the code can give it.
ClaudeTypeOK ==
    /\ agent \in {"none", "alive", "dead"} /\ {hasChild, isClosed, closing} \subseteq BOOLEAN
    /\ listener \in {"off", "on", "wake", "last", "ended"}
    /\ {hostTurn, workerTurn, pendingTool} \subseteq ClaudeTurn \cup {NoClaudeTurn}
    /\ busy \in Requester \cup {NoRequester}
    /\ {recording, turnResult} \subseteq ResultStatus \cup {"none"}
    /\ \A q \in Sender : answered[q] \in {"none", "waiting", "ok", "refused", "gone"}
    /\ \A t \in ClaudeTurn : {outcome[t], said[t]} \subseteq ResultStatus \cup {"none"}

\* Host and worker agree on a turn.  One that run_turn reports without a fatal
\* failure ended in the worker, with that result and for good; a tool's fatal
\* failure the worker has heard of is never followed by a success ("a fast worker
\* cannot race a later success over this authoritative governed failure"); and as
\* long as the conversation goes on, what the worker writes about a turn is about
\* the host's active one, so that its strict reading fails no healthy turn.
TurnsStayInStep ==
    /\ \A t \in ClaudeTurn :
          /\ outcome[t] = "ended" => said[t] = "ended" /\ workerTurn # t
          /\ t \in toldFatal => outcome[t] \in {"none", "fatal"}
    /\ driver.pc \in {"idle", "ask", "starting", "waits"} =>
          \A i \in 1 .. Len(frames) :
             frames[i].kind \in {"event", "invoke", "result"} => frames[i].of = hostTurn

=============================================================================
