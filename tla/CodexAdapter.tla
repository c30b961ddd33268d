---------------------------- MODULE CodexAdapter ----------------------------
(***************************************************************************)
(* The adapter of Codex (adapters/codex.py): one app-server process, the   *)
(* thread that reads its output, run_turn on the session's worker, and     *)
(* interrupt, close and kill on the daemon's request threads.  Answers are *)
(* matched to requests by number, turns to their ends by the vendor's turn *)
(* id; a turn's id here is the number of the run_turn that asked for it.   *)
(***************************************************************************)
EXTENDS Integers, Sequences

CONSTANTS
    Client,         \* bound: requests, each on a thread of its own
    MaxCodexTurns,  \* bound: calls of run_turn
    MaxWire         \* bound: messages the app-server has written ahead of the reader

CodexConstantsOK == {MaxCodexTurns, MaxWire} \subseteq Nat \ {0}

VARIABLES
    server,     \* the app-server: "none", "alive", "dead"
    attached,   \* _child is not None
    channel,    \* _rpc is not None
    shut,       \* the channel's _closed
    opened,     \* _opened
    leased,     \* the registry names this adapter as the thread's controller
    reader,     \* the reader: "off", "on", "wake", "ended"
    hand,       \* the message it is dispatching
    reply,      \* what each registered request has been answered
    activeTurn, \* _active_turn
    closedTurns, \* _turn_closed
    terminal,   \* _turn_terminal
    texts,      \* the turns in _turn_final_text
    runner,     \* progress of open and run_turn
    client,     \* progress of each request
    result,     \* what run_turn returned, for each turn
    wire,       \* the app-server's output, unread
    turn,       \* each turn, as the app-server has it
    told        \* turns whose turn/start it has answered

rpc == <<channel, shut, reply>>
reading == <<reader, hand>>
spans == <<activeTurn, closedTurns, terminal, texts>>
program == <<server, attached, leased>>
vendor == <<wire, turn, told>>
threads == <<runner, client, result>>
codexVars == <<opened, rpc, reading, spans, program, vendor, threads>>

NoCodexTurn == 0
CodexTurn == 1 .. MaxCodexTurns
Request == CodexTurn \cup Client
Status == {"completed", "interrupted", "failed"}
Message(kind, of, status) == [kind |-> kind, of |-> of, status |-> status, text |-> FALSE]
NoMessage == Message("none", NoCodexTurn, "none")
IdleKill == [pc |-> "idle", proven |-> TRUE]
KillProgress == [pc : {"idle", "reap", "spans"}, proven : BOOLEAN]

----------------------------------------------------------------------------
(***************************************************************************)
(* The app-server, as the adapter and its tests expect it.                 *)
(***************************************************************************)
Says(m) == Len(wire) < MaxWire /\ wire' = Append(wire, m)

\* It starts a turn; its answer may come before or after anything else it says.
\* A refusal is a request that fails for a turn that never starts; an answer to a
\* request already given up would be dropped.
VendorStarts ==
    /\ server = "alive"
    /\ \E t \in CodexTurn : turn[t] = "asked" /\ turn' = [turn EXCEPT ![t] = "running"]
                       /\ Says(Message("started", t, "none"))
    /\ UNCHANGED <<opened, rpc, reading, spans, program, told, threads>>

VendorAnswers ==
    /\ server = "alive"
    /\ \E t \in CodexTurn \ told :
          /\ turn[t] # "none" /\ reply[t] = "waiting"
          /\ told' = told \cup {t} /\ Says(Message("answer", t, "none"))
    /\ UNCHANGED <<opened, rpc, reading, spans, program, turn, threads>>

\* A completed turn has a final message, or not.
VendorEnds ==
    /\ server = "alive"
    /\ \E t \in CodexTurn, s \in Status, text \in BOOLEAN :
          /\ turn[t] = "running" /\ (s # "interrupted" \/ \E c \in Client : reply[c] # "none")
          /\ text => s = "completed"
          /\ turn' = [turn EXCEPT ![t] = s]
          /\ Says([Message("ended", t, s) EXCEPT !.text = text])
    /\ UNCHANGED <<opened, rpc, reading, spans, program, told, threads>>

VendorAcks ==
    /\ server = "alive"
    /\ \E c \in Client :
          /\ reply[c] = "waiting" /\ ~client[c].heard
          /\ client' = [client EXCEPT ![c].heard = TRUE]
          /\ Says(Message("answer", c, "none"))
    /\ UNCHANGED <<opened, rpc, reading, spans, program, turn, told, runner, result>>

VendorDies ==
    /\ server = "alive" /\ server' = "dead"
    /\ UNCHANGED <<opened, rpc, reading, spans, attached, leased, vendor, threads>>

Vendor == VendorStarts \/ VendorAnswers \/ VendorEnds \/ VendorAcks \/ VendorDies

----------------------------------------------------------------------------
(***************************************************************************)
(* _read_loop: a message is taken, then the channel is seen closed or not. *)
(* When the output ends every waiter is woken.                             *)
(***************************************************************************)
Take ==
    /\ reader = "on" /\ hand = NoMessage /\ wire # <<>> /\ attached
    /\ wire' = Tail(wire)
    /\ IF shut THEN reader' = "wake" /\ UNCHANGED hand
               ELSE hand' = Head(wire) /\ UNCHANGED reader
    /\ UNCHANGED <<opened, rpc, spans, program, turn, told, threads>>

EndOfOutput ==
    /\ reader = "on" /\ hand = NoMessage
    /\ server = "dead" /\ (wire = <<>> \/ ~attached)
    /\ reader' = "wake"
    /\ UNCHANGED <<opened, rpc, hand, spans, program, vendor, threads>>

\* A run_turn that waits for its end is told too, as at its deadline.
Wake ==
    /\ reader = "wake" /\ reader' = "ended"
    /\ reply' = [q \in Request |-> IF reply[q] = "waiting" THEN "failed" ELSE reply[q]]
    /\ UNCHANGED <<opened, channel, shut, hand, spans, program, vendor, threads>>

\* _deliver_result: an answer nobody waits for is dropped.
Deliver ==
    /\ hand.kind = "answer" /\ hand' = NoMessage
    /\ reply' = IF reply[hand.of] = "waiting"
                THEN [reply EXCEPT ![hand.of] = "ok"] ELSE reply
    /\ UNCHANGED <<opened, channel, shut, reader, spans, program, vendor, threads>>

\* Mutant: a turn that has ended is made the active one again.
OpensAlways(t) == t

\* _open_turn.
Opens(t) == IF t \in closedTurns THEN activeTurn ELSE t

Started ==
    /\ hand.kind = "started" /\ hand' = NoMessage
    /\ activeTurn' = Opens(hand.of)
    /\ UNCHANGED <<opened, rpc, reader, closedTurns, terminal, texts, program, vendor, threads>>

\* _close_turn.
Close(t) ==
    /\ closedTurns' = closedTurns \cup {t}
    /\ activeTurn' = IF activeTurn = t /\ t \notin closedTurns THEN NoCodexTurn ELSE activeTurn

\* turn/completed: the text and the span, then the waiter of the turn.
Ended ==
    /\ hand.kind = "ended" /\ hand' = [hand EXCEPT !.kind = "notify"]
    /\ texts' = IF hand.text THEN texts \cup {hand.of} ELSE texts
    /\ Close(hand.of)
    /\ UNCHANGED <<opened, rpc, reader, terminal, program, vendor, threads>>

Notify ==
    /\ hand.kind = "notify" /\ hand' = NoMessage
    /\ terminal' = [terminal EXCEPT ![hand.of] = hand.status]
    /\ UNCHANGED <<opened, rpc, reader, activeTurn, closedTurns, texts, program, vendor, threads>>

Reader == Take \/ EndOfOutput \/ Wake \/ Deliver \/ Started \/ Ended \/ Notify

----------------------------------------------------------------------------
(***************************************************************************)
(* kill, step by step, on the thread whose progress is k; k2 is that       *)
(* progress afterwards.                                                    *)
(***************************************************************************)
\* Flags, then the channel: the reader is told, not waited for.
KillFlags(k, k2) ==
    /\ k.pc = "flags" /\ k2 = [k EXCEPT !.pc = "reap"]
    /\ opened' = FALSE /\ channel' = FALSE /\ shut' = (shut \/ channel)
    /\ UNCHANGED <<reply, reading, spans, program, vendor>>

\* kill_tree; its process may survive, and stays attached then.
Reap(k, k2) ==
    /\ k.pc = "reap"
    /\ \E proven \in BOOLEAN :
          /\ k2 = [k EXCEPT !.pc = "spans", !.proven = proven]
          /\ IF proven
             THEN /\ attached' = FALSE
                  /\ server' = IF attached THEN "dead" ELSE server
             ELSE attached /\ UNCHANGED <<attached, server>>
    /\ UNCHANGED <<opened, rpc, reading, spans, leased, vendor>>

\* The span it finds; when the end is proven also the lease and the private
\* runtime, which nobody else reads, and which may fail to go.
Terminalize(k, k2) ==
    /\ k.pc = "spans" /\ k2 = IdleKill
    /\ IF activeTurn = NoCodexTurn THEN UNCHANGED <<activeTurn, closedTurns>> ELSE Close(activeTurn)
    /\ leased' \in IF k.proven THEN {FALSE, leased} ELSE {leased}
    /\ UNCHANGED <<opened, rpc, reading, terminal, texts, server, attached, vendor>>

Kill(k, k2) == KillFlags(k, k2) \/ Reap(k, k2) \/ Terminalize(k, k2)

----------------------------------------------------------------------------
(***************************************************************************)
(* open, before the session has its worker: spawn, handshake and catalog,  *)
(* thread and lease, the checks after it.  A failure anywhere is killed.   *)
(***************************************************************************)
At(place) == runner.pc = place
GoesTo(place) == runner' = [runner EXCEPT !.pc = place]
Kills == runner' = [runner EXCEPT !.pc = "kill", !.kill = [IdleKill EXCEPT !.pc = "flags"]]

SpawnServer ==
    /\ At("open") /\ GoesTo("handshake")
    /\ server' = "alive" /\ attached' = TRUE /\ channel' = TRUE /\ reader' = "on"
    /\ UNCHANGED <<opened, shut, reply, hand, spans, leased, vendor, client, result>>

\* The thread has a fresh id, so that no other controller can have its lease.
StartThread ==
    /\ At("handshake") /\ server = "alive"
    /\ runner' = [runner EXCEPT !.pc = "verify", !.thread = TRUE]
    /\ leased' = TRUE
    /\ UNCHANGED <<opened, rpc, reading, spans, server, attached, vendor, client, result>>

Verified ==
    /\ At("verify") /\ GoesTo("idle")
    /\ opened' = TRUE
    /\ UNCHANGED <<rpc, reading, spans, program, vendor, client, result>>

OpenFails ==
    /\ runner.pc \in {"open", "handshake", "verify"} /\ Kills
    /\ UNCHANGED <<opened, rpc, reading, spans, program, vendor, client, result>>

----------------------------------------------------------------------------
(***************************************************************************)
(* run_turn.                                                               *)
(***************************************************************************)
Now == runner.turn
\* What it returns, a failure left out; after a fatal one the session ends.
Returns(r, place) ==
    /\ result' = [result EXCEPT ![Now] = r]
    /\ GoesTo(place)

RunTurn ==
    /\ At("idle") /\ Now < MaxCodexTurns
    /\ runner' = [runner EXCEPT !.turn = @ + 1, !.pc = "look"]
    /\ UNCHANGED <<opened, rpc, reading, spans, program, vendor, client, result>>

TurnRefused ==
    /\ At("look")
    /\ IF ~opened \/ ~channel THEN GoesTo("over") ELSE activeTurn # NoCodexTurn /\ GoesTo("idle")
    /\ UNCHANGED <<opened, rpc, reading, spans, program, vendor, client, result>>

\* request: registered, then written; what is written to a dead process is lost.
Ask ==
    /\ At("look") /\ opened /\ channel /\ activeTurn = NoCodexTurn /\ GoesTo("ask")
    /\ UNCHANGED <<opened, rpc, reading, spans, program, vendor, client, result>>

\* Between the looks and the request a kill may take the channel away.
Send ==
    /\ At("ask") /\ channel /\ GoesTo("await")
    /\ reply' = [reply EXCEPT ![Now] = "waiting"]
    /\ turn' = IF server = "alive" THEN [turn EXCEPT ![Now] = "asked"] ELSE turn
    /\ UNCHANGED <<opened, channel, shut, reading, spans, program, wire, told, client, result>>

\* A refusal, an end of the output, the request's deadline, or no channel: it is
\* fatal when the process is gone.
StartFails ==
    /\ \/ At("await") /\ reply[Now] # "ok"
       \/ At("ask") /\ ~channel
    /\ reply' = [reply EXCEPT ![Now] = "gone"]
    /\ GoesTo(IF attached /\ server = "alive" THEN "idle" ELSE "over")
    /\ UNCHANGED <<opened, channel, shut, reading, spans, program, vendor, client, result>>

\* The answer names the turn; it may have begun, and ended, before.
StartAnswered ==
    /\ At("await") /\ reply[Now] = "ok" /\ GoesTo("wait")
    /\ reply' = [reply EXCEPT ![Now] = "gone"]
    /\ activeTurn' = Opens(Now)
    /\ UNCHANGED <<opened, channel, shut, reading, closedTurns, terminal, texts, program, vendor, client,
                   result>>

EndOf(t) == terminal[t]

\* The end of its own turn; a completed one without a final message is killed.
TurnEnds ==
    /\ At("wait") /\ EndOf(Now) # "none"
    /\ terminal' = [terminal EXCEPT ![Now] = "none"] /\ texts' = texts \ {Now}
    /\ CASE EndOf(Now) = "interrupted" -> Returns("CANCELED", "idle")
         [] EndOf(Now) = "failed" -> GoesTo("idle") /\ UNCHANGED result
         [] OTHER -> IF Now \in texts THEN Returns("OK", "idle")
                     ELSE Kills /\ UNCHANGED result
    /\ UNCHANGED <<opened, rpc, reading, activeTurn, closedTurns, program, vendor, client>>

\* The channel is reported lost, or the turn's deadline passes.
TurnLost ==
    /\ At("wait") /\ EndOf(Now) = "none"
    /\ Kills
    /\ texts' = texts \ {Now}
    /\ UNCHANGED <<opened, rpc, reading, activeTurn, closedTurns, terminal, program, vendor, client,
                   result>>

WorkerKills ==
    /\ At("kill")
    /\ \E k2 \in KillProgress :
          /\ Kill(runner.kill, k2)
          /\ runner' = [runner EXCEPT !.kill = k2, !.pc = IF k2 = IdleKill THEN "over" ELSE @]
    /\ UNCHANGED <<client, result>>

Worker ==
    \/ SpawnServer \/ StartThread \/ Verified \/ OpenFails
    \/ RunTurn \/ TurnRefused \/ Ask \/ Send \/ StartFails \/ StartAnswered \/ TurnEnds \/ TurnLost
    \/ WorkerKills

----------------------------------------------------------------------------
(***************************************************************************)
(* interrupt, close and kill, once the session is open.                    *)
(***************************************************************************)
IsOpen == runner.pc \notin {"open", "handshake", "verify"}

Interrupt(c) ==
    /\ client[c].pc = "idle" /\ opened /\ channel /\ activeTurn # NoCodexTurn
    /\ client' = [client EXCEPT ![c].pc = "await", ![c].turn = activeTurn]
    /\ reply' = [reply EXCEPT ![c] = "waiting"]
    /\ UNCHANGED <<opened, channel, shut, reading, spans, program, vendor, runner, result>>

\* Acknowledged: the spans are closed here, whether the end has arrived or not.
Interrupted(c) ==
    /\ client[c].pc = "await" /\ reply[c] = "ok"
    /\ Close(client[c].turn)
    /\ client' = [client EXCEPT ![c].pc = "over", ![c].turn = NoCodexTurn]
    /\ reply' = [reply EXCEPT ![c] = "gone"]
    /\ UNCHANGED <<opened, channel, shut, reading, terminal, texts, program, vendor, runner, result>>

InterruptFails(c) ==
    /\ client[c].pc = "await" /\ reply[c] # "ok"
    /\ client' = [client EXCEPT ![c].pc = "over", ![c].turn = NoCodexTurn]
    /\ reply' = [reply EXCEPT ![c] = "gone"]
    /\ UNCHANGED <<opened, channel, shut, reading, spans, program, vendor, runner, result>>

\* kill; close does the same for an idle conversation.
Stop(c) ==
    /\ client[c].pc = "idle" /\ IsOpen
    /\ client' = [client EXCEPT ![c].pc = "kill", ![c].kill = [IdleKill EXCEPT !.pc = "flags"]]
    /\ UNCHANGED <<opened, rpc, reading, spans, program, vendor, runner, result>>

ClientKills(c) ==
    /\ client[c].pc = "kill"
    /\ \E k2 \in KillProgress :
          /\ Kill(client[c].kill, k2)
          /\ client' = [client EXCEPT ![c].kill = k2, ![c].pc = IF k2 = IdleKill THEN "over" ELSE @]
    /\ UNCHANGED <<runner, result>>

ClientStep(c) == Interrupt(c) \/ Interrupted(c) \/ InterruptFails(c) \/ Stop(c) \/ ClientKills(c)

----------------------------------------------------------------------------
CodexInit ==
    /\ server = "none" /\ attached = FALSE /\ leased = FALSE
    /\ channel = FALSE /\ shut = FALSE /\ reply = [q \in Request |-> "none"]
    /\ opened = FALSE
    /\ reader = "off" /\ hand = NoMessage
    /\ activeTurn = NoCodexTurn /\ closedTurns = {} /\ texts = {}
    /\ terminal = [t \in CodexTurn |-> "none"]
    /\ wire = <<>> /\ told = {} /\ turn = [t \in CodexTurn |-> "none"]
    /\ runner = [pc |-> "open", thread |-> FALSE, turn |-> NoCodexTurn, kill |-> IdleKill]
    /\ client = [c \in Client |-> [pc |-> "idle", turn |-> NoCodexTurn, heard |-> FALSE, kill |-> IdleKill]]
    /\ result = [t \in CodexTurn |-> "none"]

CodexNext == Vendor \/ Reader \/ Worker \/ \E c \in Client : ClientStep(c)

CodexSpec == CodexInit /\ [][CodexNext]_codexVars

----------------------------------------------------------------------------
\* Every variable has the values the code can give it.
CodexTypeOK ==
    /\ {attached, channel, shut, opened, leased} \subseteq BOOLEAN
    /\ server \in {"none", "alive", "dead"} /\ reader \in {"off", "on", "wake", "ended"}
    /\ activeTurn \in CodexTurn \cup {NoCodexTurn}
    /\ closedTurns \cup texts \cup told \subseteq CodexTurn
    /\ \A q \in Request : reply[q] \in {"none", "waiting", "ok", "failed", "gone"}
    /\ \A t \in CodexTurn : terminal[t] \in Status \cup {"none"}

\* A turn that has ended never comes back as the active one, which would refuse
\* every later prompt, however its start, its answer, its end and an interrupt
\* overtake each other; run_turn reports the end the app-server gave its own
\* turn, and leaves that turn behind; the thread's lease is kept as long as the
\* process that works on the thread may be alive.
EndedTurnsStayEnded ==
    /\ activeTurn \notin closedTurns
    /\ \A t \in CodexTurn :
          /\ result[t] = "OK" => turn[t] = "completed"
          /\ result[t] = "CANCELED" => turn[t] = "interrupted"
          /\ result[t] \in {"OK", "CANCELED"} => activeTurn # t
    /\ server = "alive" /\ runner.thread => leased

=============================================================================
