----------------------------- MODULE FollowUps -----------------------------
(***************************************************************************)
(* The prompts of the chat panel: submitPrompt of the extension's          *)
(* conversationController.ts, its queue of follow-ups (followUpQueue.ts)   *)
(* and the pump that acknowledges them by durable events                   *)
(* (sessionClient.ts), against a conversation of the daemon that already   *)
(* runs.                                                                   *)
(*                                                                         *)
(* One callback of the extension is one step: it runs up to its await.     *)
(* Replies, poll responses and the user come in any order.  A prompt is    *)
(* its number.                                                             *)
(***************************************************************************)
EXTENDS Naturals, Sequences, SequencesExt, FiniteSets

CONSTANTS
    FollowUpLimit, \* FOLLOW_UP_QUEUE_LIMIT
    MaxPrompts,    \* bound: prompts the user types
    MaxPanelTurns, \* bound: turns the daemon accepts
    MaxTroubles    \* bound: interrupts, endings, lost replies and foreign turns

PanelConstantsOK == {FollowUpLimit, MaxPrompts, MaxPanelTurns, MaxTroubles} \subseteq Nat

VARIABLES
    panelLog,      \* durable events of the run
    panelTurn,     \* the daemon's conversation: "idle", "running", "ended"
    panelRequests, \* session/turn requests under way
    panelBatch,    \* the poll response in flight
    panelCursor,   \* events the panel has folded
    panel,         \* what the controller remembers
    panelEnding,   \* progress of a close or a kill
    panelTyped,    \* prompts typed so far
    panelTroubles  \* interrupts, endings, lost replies and foreign turns so far

panelDaemon == <<panelLog, panelTurn>>
panelVars == <<panelDaemon, panelRequests, panelBatch, panelCursor, panel, panelEnding,
               panelTyped, panelTroubles>>

NoPrompt == 0
NoBatch == [upto |-> 0, state |-> "idle"]
DurableEvent(kind, item) == [kind |-> kind, item |-> item]
Prompts(events) == {events[i].item : i \in {i \in DOMAIN events : events[i].kind = "user"}}
Has(events, kind) == \E i \in DOMAIN events : events[i].kind = kind

(***************************************************************************)
(* The queue.                                                              *)
(***************************************************************************)
Pause(p) == IF p.items = <<>> THEN p ELSE [p EXCEPT !.paused = TRUE, !.dispatching = NoPrompt]

\* Mutant: a follow-up the daemon denied is dropped instead of kept.
RejectAndDrop(p, item) ==
    Pause([p EXCEPT !.items = SelectSeq(@, LAMBDA i : i # item), !.queued = NoPrompt,
                    !.dispatching = IF @ = item THEN NoPrompt ELSE @])

\* rejectQueuedDispatch
Reject(p, item) ==
    Pause([p EXCEPT !.queued = NoPrompt, !.dispatching = IF @ = item THEN NoPrompt ELSE @])

ClearedPanel(p) ==
    [p EXCEPT !.items = <<>>, !.paused = FALSE, !.dispatching = NoPrompt, !.queued = NoPrompt]

\* acknowledgeDurable, for whatever prompt the durable event is about.
Acknowledge(p) ==
    LET isHead == p.queued # NoPrompt /\ p.dispatching = p.queued /\ Head(p.items) = p.queued
    IN  [p EXCEPT !.items = IF isHead THEN Tail(@) ELSE @,
                  !.dispatching = IF isHead THEN NoPrompt ELSE @,
                  !.queued = NoPrompt, !.pending = FALSE]

TurnRequest(item, queued) == [item |-> item, queued |-> queued, at |-> "sent", awaited |-> TRUE]

\* submitPrompt up to its await: the prompt is pending and under way.
Submitted(p) == [p EXCEPT !.pending = TRUE, !.banner = "none"]

CanDrain(p) ==
    ~p.pending /\ p.state = "idle" /\ ~p.paused /\ p.dispatching = NoPrompt /\ p.items # <<>>
Drained(p) == Submitted([p EXCEPT !.dispatching = Head(p.items), !.queued = Head(p.items)])

Trouble == panelTroubles < MaxTroubles /\ panelTroubles' = panelTroubles + 1

(***************************************************************************)
(* The user.                                                               *)
(***************************************************************************)
TypePrompt ==
    /\ panelTyped < MaxPrompts /\ panelTyped' = panelTyped + 1
    /\ LET item == panelTyped + 1
       IN  \/ /\ panel.pending \/ panel.state = "running"
              /\ panel' = IF Len(panel.items) < FollowUpLimit
                          THEN [panel EXCEPT !.items = Append(@, item)]
                          ELSE [panel EXCEPT !.banner = "other"]
              /\ UNCHANGED panelRequests
           \/ /\ ~panel.pending /\ panel.state = "idle" /\ panelEnding = "no"
              /\ panel' = Submitted(panel)
              /\ panelRequests' = panelRequests \cup {TurnRequest(item, FALSE)}
           \/ /\ ~panel.pending /\ panel.state # "running" /\ (panel.state = "idle" => panelEnding # "no")
              /\ panel' = [panel EXCEPT !.banner = "other"]
              /\ UNCHANGED panelRequests
    /\ UNCHANGED <<panelDaemon, panelBatch, panelCursor, panelEnding, panelTroubles>>

\* Interrupt pauses.  A denied or lost interrupt, steer or approval decision
\* shows a banner, and the loss or the time-out of a decision pauses too.
InterruptPanel ==
    /\ Trouble
    /\ panel.state # "ended"
    /\ \E p \in {panel, Pause(panel)}, shown \in {panel.banner, "other", "unreachable"} :
          panel' = [p EXCEPT !.banner = shown]
    /\ UNCHANGED <<panelDaemon, panelRequests, panelBatch, panelCursor, panelEnding, panelTyped>>

AskToEnd ==
    /\ Trouble
    /\ panelEnding = "no"
    /\ \/ panel.state = "idle" /\ panelEnding' = "close" /\ UNCHANGED panel
       \/ panel.state # "ended" /\ panelEnding' = "kill" /\ panel' = Pause(panel)
    /\ UNCHANGED <<panelDaemon, panelRequests, panelBatch, panelCursor, panelTyped>>

EndAnswered ==
    /\ panelEnding \in {"closed", "killed", "close", "kill"}
    /\ LET over == [panel EXCEPT !.state = "ended", !.pending = FALSE]
       IN  \/ panelEnding = "closed" /\ panel' = ClearedPanel(over)
           \/ panelEnding = "killed" /\ panel' = over
           \/ panel' \in {[panel EXCEPT !.banner = shown] : shown \in {"other", "unreachable"}}
    /\ panelEnding' = "no"
    /\ UNCHANGED <<panelDaemon, panelRequests, panelBatch, panelCursor, panelTyped, panelTroubles>>

(***************************************************************************)
(* The daemon.                                                             *)
(***************************************************************************)
Turns == Cardinality({i \in DOMAIN panelLog : panelLog[i].kind = "user"})

Replied(r, at) ==
    (panelRequests \ {r}) \cup (IF r.awaited THEN {[r EXCEPT !.at = at]} ELSE {})

AcceptTurn ==
    /\ panelTurn = "idle" /\ Turns < MaxPanelTurns
    /\ \E r \in {r \in panelRequests : r.at = "sent"} :
          /\ panelRequests' = Replied(r, "accepted")
          /\ panelLog' = Append(panelLog, DurableEvent("user", r.item))
    /\ panelTurn' = "running"
    /\ UNCHANGED <<panelBatch, panelCursor, panel, panelEnding, panelTyped, panelTroubles>>

\* In progress, ended, no writer to be had, and so on.
DenyTurn ==
    /\ \E r \in {r \in panelRequests : r.at = "sent"} :
          panelRequests' = Replied(r, "denied")
    /\ UNCHANGED <<panelDaemon, panelBatch, panelCursor, panel, panelEnding, panelTyped, panelTroubles>>

\* A turn of another client of the same conversation.
OtherTurn ==
    /\ Trouble
    /\ panelTurn = "idle" /\ Turns < MaxPanelTurns
    /\ panelTurn' = "running" /\ panelLog' = Append(panelLog, DurableEvent("user", NoPrompt))
    /\ UNCHANGED <<panelRequests, panelBatch, panelCursor, panel, panelEnding, panelTyped>>

ApprovalTimesOut ==
    /\ Trouble
    /\ panelTurn = "running" /\ Last(panelLog).kind = "user"
    /\ panelLog' = Append(panelLog, DurableEvent("timeout", NoPrompt))
    /\ UNCHANGED <<panelTurn, panelRequests, panelBatch, panelCursor, panel, panelEnding, panelTyped>>

FinishDaemonTurn ==
    /\ panelTurn = "running"
    /\ \/ /\ panelTurn' = "idle"
          /\ \E kind \in {"completed", "failed"} : panelLog' = Append(panelLog, DurableEvent(kind, NoPrompt))
       \/ /\ panelTurn' = "ended"
          /\ panelLog' = panelLog \o <<DurableEvent("failed", NoPrompt), DurableEvent("end", NoPrompt)>>
    /\ UNCHANGED <<panelRequests, panelBatch, panelCursor, panel, panelEnding, panelTyped, panelTroubles>>

EndConversation ==
    /\ panelTurn # "ended"
    /\ \/ panelEnding = "close" /\ panelTurn = "idle" /\ panelEnding' = "closed"
       \/ panelEnding = "kill" /\ panelEnding' = "killed"
    /\ panelTurn' = "ended" /\ panelLog' = Append(panelLog, DurableEvent("end", NoPrompt))
    /\ UNCHANGED <<panelRequests, panelBatch, panelCursor, panel, panelTyped, panelTroubles>>

(***************************************************************************)
(* The reply to session/turn, or none: the tail of submitPrompt.           *)
(***************************************************************************)
SettledReply(p, r) ==
    IF p.banner = "none" THEN p
    ELSE LET q == [p EXCEPT !.pending = FALSE]
         IN  IF r.queued THEN Reject(q, r.item) ELSE q

Reply ==
    /\ \E r \in {r \in panelRequests : r.awaited /\ r.at # "sent"} :
          /\ panelRequests' = panelRequests \ {r}
          /\ panel' = SettledReply(IF r.at = "denied" THEN [panel EXCEPT !.banner = "other"] ELSE panel, r)
    /\ UNCHANGED <<panelDaemon, panelBatch, panelCursor, panelEnding, panelTyped, panelTroubles>>

\* The reply is lost or late; a request that is late is still handled.
GiveUp ==
    /\ Trouble
    /\ \E r \in {r \in panelRequests : r.awaited} :
          /\ panelRequests' = (panelRequests \ {r})
                \cup (IF r.at = "sent" THEN {[r EXCEPT !.awaited = FALSE]} ELSE {})
          /\ panel' = SettledReply([panel EXCEPT !.banner = "unreachable"], r)
    /\ UNCHANGED <<panelDaemon, panelBatch, panelCursor, panelEnding, panelTyped>>

(***************************************************************************)
(* The pump.                                                               *)
(***************************************************************************)
Poll ==
    /\ panelBatch = NoBatch /\ panel.pump
    /\ \E upto \in panelCursor .. Len(panelLog) :
          /\ upto = panelCursor => panelTurn = "ended" /\ panelCursor = Len(panelLog)
          /\ panelBatch' = [upto |-> upto + 1, state |-> panelTurn]
    /\ UNCHANGED <<panelDaemon, panelRequests, panelCursor, panel, panelEnding, panelTyped, panelTroubles>>

\* onEvents before the drain.
Folded(p, events) ==
    LET heard == IF p.banner = "unreachable" THEN [p EXCEPT !.banner = "none"] ELSE p
        q == IF Has(events, "user") THEN Acknowledge(heard) ELSE heard
        told == {i \in DOMAIN events : events[i].kind # "timeout"}
        s == IF Has(events, "end") THEN [q EXCEPT !.state = "ended"]
             ELSE IF told = {} THEN q
             ELSE [q EXCEPT !.state = IF events[Max(told)].kind = "user" THEN "running" ELSE "idle"]
        stops == \/ Has(events, "timeout") \/ Has(events, "failed")
                 \/ Has(events, "completed") /\ s.state = "ended"
    IN  IF stops THEN Pause(s) ELSE s

Normal(events, p) ==
    Has(events, "completed") /\ ~Has(events, "timeout") /\ ~Has(events, "failed") /\ p.state # "ended"

\* onTurnState, and onTerminal when there is nothing more to read: an end other
\* than success shows a banner.
TurnState(p, told, last, shown) ==
    LET q == [p EXCEPT !.state = told, !.banner = IF @ = "unreachable" THEN "none" ELSE @]
    IN  IF told # "ended" THEN q
        ELSE Pause(IF last THEN [q EXCEPT !.pending = FALSE, !.pump = FALSE, !.banner = shown] ELSE q)

DeliverBatch ==
    /\ panelBatch # NoBatch
    /\ LET events == SubSeq(panelLog, panelCursor + 1, panelBatch.upto - 1)
           p == IF events = <<>> THEN panel ELSE Folded(panel, events)
           drains == Normal(events, p) /\ CanDrain(p)
           q == IF ~drains THEN p
                ELSE IF panelEnding = "no" THEN Drained(p)
                ELSE Reject([p EXCEPT !.banner = "other"], Head(p.items))
       IN  /\ \E shown \in {q.banner, "other"} :
                 panel' = TurnState(q, panelBatch.state, events = <<>>, shown)
           /\ panelRequests' = IF drains /\ panelEnding = "no"
                          THEN panelRequests \cup {TurnRequest(Head(p.items), TRUE)} ELSE panelRequests
    /\ panelCursor' = panelBatch.upto - 1 /\ panelBatch' = NoBatch
    /\ UNCHANGED <<panelDaemon, panelEnding, panelTyped, panelTroubles>>

PollUnreachable ==
    /\ Trouble
    /\ panel.pump
    /\ panelBatch' = NoBatch
    /\ panel' = [Pause(panel) EXCEPT !.banner = "unreachable"]
    /\ UNCHANGED <<panelDaemon, panelRequests, panelCursor, panelEnding, panelTyped>>

\* The daemon denies the poll, and the panel stops.
PollDenied ==
    /\ Trouble
    /\ panel.pump
    /\ panelBatch' = NoBatch
    /\ panel' = [Pause(panel) EXCEPT !.state = "ended", !.pending = FALSE, !.pump = FALSE, !.banner = "other"]
    /\ UNCHANGED <<panelDaemon, panelRequests, panelCursor, panelEnding, panelTyped>>

----------------------------------------------------------------------------
PanelInit ==
    /\ panelLog = <<>> /\ panelTurn = "idle" /\ panelRequests = {} /\ panelBatch = NoBatch /\ panelCursor = 0
    /\ panel = [items |-> <<>>, paused |-> FALSE, dispatching |-> NoPrompt, queued |-> NoPrompt,
                pending |-> FALSE, banner |-> "none", state |-> "idle", pump |-> TRUE]
    /\ panelEnding = "no" /\ panelTyped = 0 /\ panelTroubles = 0

PanelNext ==
    \/ TypePrompt \/ InterruptPanel \/ AskToEnd \/ EndAnswered
    \/ AcceptTurn \/ DenyTurn \/ OtherTurn \/ ApprovalTimesOut \/ FinishDaemonTurn \/ EndConversation
    \/ Reply \/ GiveUp \/ Poll \/ DeliverBatch \/ PollUnreachable \/ PollDenied

PanelSpec == PanelInit /\ [][PanelNext]_panelVars

----------------------------------------------------------------------------
PromptNo == 1 .. MaxPrompts

\* Every variable has the values the code can give it.
PanelTypeOK ==
    /\ panelTurn \in {"idle", "running", "ended"} /\ panelCursor <= Len(panelLog)
    /\ panelEnding \in {"no", "close", "kill", "closed", "killed"}
    /\ Range(panel.items) \subseteq PromptNo /\ Len(panel.items) <= FollowUpLimit
    /\ {panel.dispatching, panel.queued} \subseteq PromptNo \cup {NoPrompt}
    /\ panel.dispatching # NoPrompt => panel.items # <<>> /\ Head(panel.items) = panel.dispatching
    /\ panel.paused => panel.items # <<>> /\ panel.dispatching = NoPrompt
    /\ panel.banner \in {"none", "unreachable", "other"}

\* A prompt reaches the daemon at most once, and follow-ups in the order they
\* were typed.  One is sent only when the last the panel has seen of the
\* conversation is a completed turn, and it leaves the queue only when a durable
\* prompt was seen or the conversation was closed: no denial, failure or lost
\* reply drops it.
KeepsFollowUps ==
    /\ \A i, j \in DOMAIN panelLog' : i < j /\ panelLog'[i].kind = "user" /\ panelLog'[j].kind = "user"
          => panelLog'[i].item # panelLog'[j].item \/ panelLog'[i].item = NoPrompt
    /\ \A r \in panelRequests' \ panelRequests : r.queued /\ r.at = "sent" /\ r.awaited
          => panelLog[panelCursor'].kind = "completed" /\ \A q \in panelRequests : q.queued => q.item < r.item
    /\ \A item \in Range(panel.items) \ Range(panel'.items) :
          \/ panelEnding = "closed"
          \/ \E i \in panelCursor + 1 .. panelCursor' : panelLog[i].kind = "user"

FollowUpsAreKept == [][KeepsFollowUps]_panelVars

=============================================================================
