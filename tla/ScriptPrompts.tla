---------------------------- MODULE ScriptPrompts ----------------------------
(***************************************************************************)
(* The prompt generator for a new script: an interview kept in a log like  *)
(* that of PromptSessions.  Here the questions depend on the mode and on   *)
(* where the prompt will run, the reply of another model is accepted field *)
(* by field, there is no registry, no command beside the interview and no  *)
(* way back from the replies.  One process runs at a time.                 *)
(***************************************************************************)
EXTENDS Naturals, Sequences, SequencesExt

CONSTANTS Session, NoEntry,
          Extensions,   \* the agents that run as an extension of the editor
          Online,       \* names an online model may be given
          MaxLaunches

Empty   == "empty"
Unasked == "unasked"
Target  == {"extension", "online"}
Mode    == {"new script prompt", "meta prompt"}
Text    == {"for extensions", "for online", "a repository path"}

ConstantsOK ==
    /\ "Claude" \in Extensions /\ "ChatGPT" \in Online /\ Extensions \cap Online = {}
    /\ {Empty, Unasked} \cap (Extensions \cup Online) = {}

VARIABLES
    log,      \* the file: settings, sessions, drafts and completed runs
    run,      \* the interview
    launches

vars == <<log, run, launches>>

Entry == [session : Session, mode : Mode, target : Target, name : Extensions \cup Online,
          text : Text \cup {Empty}]
NoAnswers == [target |-> Unasked, name |-> Unasked, text |-> Unasked]
Idle == [pc |-> "off", active |-> NoEntry, defaults |-> NoEntry, mode |-> "meta prompt",
         answers |-> NoAnswers, at |-> 1]

TypeOK ==
    /\ log.there \in BOOLEAN /\ log.assist \in BOOLEAN
    /\ log.sessions \in Seq(Session)
    /\ log.drafts \in [Session -> Entry \cup {NoEntry}]
    /\ Range(log.history) \subseteq Entry
    /\ run.pc \in {"off", "setup", "choose", "mode", "ask", "assist", "reply"}
    /\ run.mode \in Mode /\ run.at \in 1 .. 3
    /\ run.answers.target \in Target \cup {Unasked}
    /\ run.answers.name \in Extensions \cup Online \cup {Unasked}
    /\ run.answers.text \in Text \cup {Empty, Unasked}
    /\ launches \in 0 .. MaxLaunches

Init ==
    /\ log = [there |-> FALSE, assist |-> TRUE, sessions |-> <<>>,
              drafts |-> [s \in Session |-> NoEntry], history |-> <<>>]
    /\ run = Idle /\ launches = 0

-----------------------------------------------------------------------------
Resumed(s) ==
    LET mine == SelectSeq(log.history, LAMBDA e : e.session = s)
    IN  IF log.drafts[s] # NoEntry THEN log.drafts[s]
        ELSE IF mine = <<>> THEN NoEntry ELSE Last(mine)

Pick(answer, fallback, kept, default) ==
    IF answer \notin {Empty, Unasked} THEN answer
    ELSE IF fallback # NoEntry /\ kept # Empty THEN kept ELSE default

DefaultText(target) == IF target = "online" THEN "for online" ELSE "for extensions"

\* Mutant: a draft holds what this process asked only.
DraftOfAnswers(answers, mode, s, fallback) ==
    [session |-> s, mode |-> mode,
     target  |-> Pick(answers.target, NoEntry, Empty, "extension"),
     name    |-> Pick(answers.name, NoEntry, Empty, "Claude"),
     text    |-> Pick(answers.text, NoEntry, Empty, "for extensions")]

DraftOf(answers, mode, s, fallback) ==
    [session |-> s, mode |-> mode,
     target  |-> Pick(answers.target, fallback, fallback.target, "extension"),
     name    |-> Pick(answers.name, fallback, fallback.name, "Claude"),
     text    |-> Pick(answers.text, fallback, fallback.text, "for extensions")]

EntryOf(answers, mode, s) ==
    [session |-> s, mode |-> mode, target |-> answers.target, name |-> answers.name, text |-> answers.text]

\* A meta prompt has fixed texts.
MetaEntry(s, target, name) ==
    [session |-> s, mode |-> "meta prompt", target |-> target, name |-> name, text |-> DefaultText(target)]

\* What a question shows as the value that Enter keeps.
OfferedTarget(answers, last) == Pick(answers.target, last, last.target, "extension")

OfferedName(answers, last) ==
    LET kept == Pick(answers.name, last, last.name, "none")
    IN  IF answers.target = "online" THEN IF kept = "none" THEN "ChatGPT" ELSE kept
        ELSE IF answers.name \in Extensions THEN answers.name
        ELSE IF last # NoEntry /\ last.name \in Extensions THEN last.name ELSE "Claude"

OfferedText(answers, last) == Pick(answers.text, last, last.text, DefaultText(answers.target))

\* A prompt for an online model must not name what only the repository has.
Verified(e) == e.target = "online" => e.text # "a repository path"

Persist(next) ==
    /\ run' = next
    /\ log' = [log EXCEPT !.drafts[next.active] =
                  DraftOf(next.answers, next.mode, next.active, next.defaults)]

-----------------------------------------------------------------------------
Launch ==
    /\ run.pc = "off" /\ launches < MaxLaunches /\ launches' = launches + 1
    /\ log' = [log EXCEPT !.there = TRUE]
    /\ run' = [Idle EXCEPT !.pc = IF log.there THEN "choose" ELSE "setup"]

WalkSettings(assist) ==
    /\ run.pc \in {"setup", "mode"}
    /\ log' = [log EXCEPT !.assist = assist]
    /\ run' = [run EXCEPT !.pc = IF @ = "setup" THEN "choose" ELSE @]
    /\ UNCHANGED launches

Continue(s) ==
    /\ run.pc = "choose" /\ s \in Range(log.sessions)
    /\ run' = [run EXCEPT !.pc = "mode", !.active = s, !.defaults = Resumed(s)]
    /\ UNCHANGED <<log, launches>>

StartNew(s) ==
    /\ run.pc = "choose" /\ s \notin Range(log.sessions)
    /\ log' = [log EXCEPT !.sessions = Append(@, s)]
    /\ run' = [run EXCEPT !.pc = "mode", !.active = s]
    /\ UNCHANGED launches

Reprint ==
    /\ run.pc = "mode" /\ \E e \in Range(log.history) : e.session = run.active
    /\ run' = Idle
    /\ UNCHANGED <<log, launches>>

StartRun(mode) ==
    /\ run.pc = "mode"
    /\ Persist([run EXCEPT !.pc = "ask", !.mode = mode])
    /\ UNCHANGED launches

\* A run that was verified is kept and becomes the draft; one that was not is not.
Complete(e) ==
    /\ log' = IF Verified(e) THEN [log EXCEPT !.history = Append(@, e), !.drafts[run.active] = e]
              ELSE log
    /\ run' = Idle

AnswerTarget(target) ==
    /\ run.pc = "ask" /\ run.at = 1
    /\ Persist([run EXCEPT !.answers.target = target, !.at = 2])
    /\ UNCHANGED launches

\* The last question of a meta prompt.
AnswerName(name) ==
    /\ run.pc = "ask" /\ run.at = 2
    /\ run.answers.target = "extension" => name \in Extensions
    /\ Persist([run EXCEPT !.answers.name = name, !.at = 3])
    /\ UNCHANGED launches

CompleteMeta ==
    /\ run.pc = "ask" /\ run.at = 3 /\ run.mode = "meta prompt"
    /\ Complete(MetaEntry(run.active, run.answers.target, run.answers.name))
    /\ UNCHANGED launches

AnswerText(text) ==
    /\ run.pc = "ask" /\ run.at = 3 /\ run.mode = "new script prompt"
    /\ Persist([run EXCEPT !.answers.text = text, !.pc = "assist"])
    /\ UNCHANGED launches

Back ==
    /\ run.pc = "ask" /\ run.at > 1
    /\ run.mode = "meta prompt" => run.at = 2
    /\ run' = [run EXCEPT !.at = @ - 1]
    /\ UNCHANGED <<log, launches>>

\* A suggestion is shown, and what the user keeps or types is an answer; the reply is
\* kept in the draft once all of its suggestions were seen.
Accept(text) ==
    /\ run.pc \in {"assist", "reply"} /\ log.assist
    /\ run' = [run EXCEPT !.answers.text = text, !.pc = "reply"]
    /\ UNCHANGED <<log, launches>>

ReplyDone ==
    /\ run.pc = "reply"
    /\ Persist([run EXCEPT !.pc = "assist"])
    /\ UNCHANGED launches

Generate ==
    /\ run.pc = "assist"
    /\ Complete(EntryOf(run.answers, run.mode, run.active))
    /\ UNCHANGED launches

\* q, an interrupt, the end of the input or of the process, a build that fails.
Quit ==
    /\ run.pc # "off" /\ run' = Idle
    /\ UNCHANGED <<log, launches>>

Next ==
    \/ Launch \/ Reprint \/ CompleteMeta \/ Back \/ ReplyDone \/ Generate \/ Quit
    \/ \E assist \in BOOLEAN : WalkSettings(assist)
    \/ \E s \in Session : Continue(s) \/ StartNew(s)
    \/ \E mode \in Mode : StartRun(mode)
    \/ \E target \in Target : AnswerTarget(target)
    \/ \E name \in Extensions \cup Online : AnswerName(name)
    \/ \E text \in Text : AnswerText(text)
    \/ \E text \in Text \cup {Empty} : Accept(text)

Spec == Init /\ [][Next]_vars

-----------------------------------------------------------------------------
\* What was answered, here or before, is offered again by a process that continues
\* the session, as far as it fits where the prompt will run.
OffersWhatWasAnswered ==
    run.pc \in {"ask", "assist"} =>
        LET draft == log.drafts[run.active]
            again == [NoAnswers EXCEPT !.target = draft.target]
            known == \/ run.answers.text \notin {Empty, Unasked}
                     \/ run.defaults # NoEntry /\ run.defaults.text # Empty
            fits  == (run.answers.target = "extension") = (run.answers.name \in Extensions)
        IN  /\ draft # NoEntry /\ draft.mode = run.mode
            /\ OfferedTarget(NoAnswers, draft) = OfferedTarget(run.answers, run.defaults)
            /\ known => OfferedText(again, draft) = OfferedText(run.answers, run.defaults)
            /\ run.answers.name # Unasked /\ fits => OfferedName(again, draft) = run.answers.name

LogIsWhole ==
    /\ \A s \in Session : log.drafts[s] # NoEntry => s \in Range(log.sessions)
    /\ \A e \in Range(log.history) : e.session \in Range(log.sessions) /\ Verified(e)

LogGrows ==
    /\ IsPrefix(log.sessions, log'.sessions) /\ IsPrefix(log.history, log'.history)
    /\ \A s \in Session : log.drafts[s] # log'.drafts[s] => s \in {run.active, run'.active}

KeepsAnswers == OffersWhatWasAnswered' /\ LogIsWhole' /\ LogGrows
=============================================================================
