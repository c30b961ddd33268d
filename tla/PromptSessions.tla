--------------------------- MODULE PromptSessions ---------------------------
(***************************************************************************)
(* The skill package prompt builder: an interview whose answers are kept   *)
(* in a log beside the script, so that it can be left at any question and  *)
(* continued in a later process, and the commands that use the same log    *)
(* without an interview.  The whole log is read when a process starts and  *)
(* written whole, by a rename, each time something is to be kept.          *)
(*                                                                         *)
(* An interview and commands may run side by side; the log has no lock.    *)
(***************************************************************************)
EXTENDS Naturals, Sequences, SequencesExt

CONSTANTS Field,        \* the fields of a run
          Question,     \* the questions in their order, "sources" one of them
          Choice,       \* the fields answered from a menu
          Value, Default, \* the texts a field may have, and its default
          Source, Seed, Large, \* sources, those registered at first, the large ones
          Settings,     \* what the settings may be: assist on or off, clipboard on or off
          Session, NoEntry,
          MaxLaunches

Empty   == "empty"
Unasked == "unasked"
Defaults == [assist |-> TRUE, clipboard |-> TRUE]

ConstantsOK ==
    /\ {Empty, Unasked} \cap Value = {} /\ Default \in Value
    /\ Seed \subseteq Source /\ Large \subseteq Source /\ Seed # {}
    /\ Range(Question) = Field \cup {"sources"} /\ "sources" \notin Field
    /\ Settings \subseteq [assist : BOOLEAN, clipboard : BOOLEAN] /\ Defaults \in Settings
    /\ "parallelism" \in Choice /\ Choice \subseteq Field

VARIABLES
    log,      \* the file: settings, sessions, drafts and completed runs
    run,      \* the open interview, with the image of the log it works on
    beside,   \* a command has written the log beside the open interview
    launches

vars == <<log, run, beside, launches>>

Entry     == [session : Session, fields : [Field -> Value \cup {Empty}], sources : SUBSET Source]
NoAnswers == [f \in Field |-> Unasked]
Idle == [pc |-> "off", mem |-> NoEntry, active |-> NoEntry, defaults |-> NoEntry,
         answers |-> NoAnswers, sources |-> {}, at |-> 1]

TypeOK ==
    /\ log.there \in BOOLEAN /\ log.settings \in Settings
    /\ log.sessions \in Seq(Session)
    /\ log.drafts \in [Session -> Entry \cup {NoEntry}]
    /\ Range(log.history) \subseteq Entry
    /\ run.pc \in {"off", "setup", "choose", "mode", "ask", "assist", "confirm"}
    /\ run.answers \in [Field -> Value \cup {Empty, Unasked}]
    /\ run.sources \subseteq Source /\ run.at \in 1 .. Len(Question)
    /\ beside \in BOOLEAN /\ launches \in 0 .. MaxLaunches

NoLog == [there |-> FALSE, settings |-> Defaults, sessions |-> <<>>,
          drafts |-> [s \in Session |-> NoEntry], history |-> <<>>]

\* The log of an older version, which did not know the field.
OldLog(s, field) ==
    [NoLog EXCEPT !.there = TRUE, !.sessions = <<s>>,
                  !.drafts[s] = [session |-> s, sources |-> Seed,
                                 fields  |-> [f \in Field |-> IF f = field THEN Empty ELSE Default]]]

Init ==
    /\ log \in {NoLog} \cup {OldLog(CHOOSE s \in Session : TRUE, f) : f \in Field \ Choice}
    /\ run = Idle /\ beside = FALSE /\ launches = 0

-----------------------------------------------------------------------------
\* Reading is lenient: a field that is missing has its default.
Backfilled(e) ==
    IF e = NoEntry THEN e
    ELSE [e EXCEPT !.fields = [f \in Field |-> IF @[f] = Empty THEN Default ELSE @[f]]]

Read(l) == [l EXCEPT !.drafts = [s \in Session |-> Backfilled(@[s])]]

Latest(l, s) ==
    LET mine == SelectSeq(l.history, LAMBDA e : e.session = s)
    IN  IF mine = <<>> THEN NoEntry ELSE Last(mine)

\* What a session starts from: its draft, else its last completed run.
Resumed(l, s) == IF l.drafts[s] # NoEntry THEN l.drafts[s] ELSE Latest(l, s)

Answered(value) == value \notin {Empty, Unasked}

\* Mutant: the draft of a session holds the answers of this process only.
DraftOfAnswers(answers, sources, s, fallback) ==
    [session |-> s,
     fields  |-> [f \in Field |-> IF Answered(answers[f]) THEN answers[f] ELSE Default],
     sources |-> sources]

DraftOf(answers, sources, s, fallback) ==
    [session |-> s,
     fields  |-> [f \in Field |->
                    IF Answered(answers[f]) THEN answers[f]
                    ELSE IF fallback # NoEntry THEN fallback.fields[f] ELSE Default],
     sources |-> IF sources # {} THEN sources
                 ELSE IF fallback # NoEntry THEN fallback.sources ELSE {}]

EntryOf(answers, sources, s) ==
    [session |-> s,
     fields  |-> [f \in Field |-> IF answers[f] = Unasked THEN Default ELSE answers[f]],
     sources |-> sources]

\* What the interview shows as the value that Enter keeps.
Offered(f) ==
    IF Answered(run.answers[f]) THEN run.answers[f]
    ELSE IF run.defaults # NoEntry THEN run.defaults.fields[f] ELSE Default

Verified(e) == e.sources # {} /\ \A f \in Field : e.fields[f] # Empty

\* The draft of the session is kept with every answer, in memory and on disk.
Persist(next) ==
    LET mem == [next.mem EXCEPT
                  !.drafts[next.active] =
                      DraftOf(next.answers, next.sources, next.active, next.defaults)]
    IN  run' = [next EXCEPT !.mem = mem] /\ log' = mem

\* The interview writes its image of the log.
WriteLog(mem, pc) == log' = mem /\ run' = [run EXCEPT !.mem = mem, !.pc = pc]

-----------------------------------------------------------------------------
Launch ==
    /\ run.pc = "off" /\ launches < MaxLaunches
    /\ launches' = launches + 1 /\ beside' = FALSE
    /\ LET mem == [Read(log) EXCEPT !.there = TRUE]
       IN  /\ run' = [Idle EXCEPT !.mem = mem, !.pc = IF log.there THEN "choose" ELSE "setup"]
           /\ log' = IF log.there THEN log ELSE mem

\* On the first run, and from the start menu: the new settings take effect when the
\* walk is over.
WalkSettings(settings) ==
    /\ run.pc \in {"setup", "mode"}
    /\ WriteLog([run.mem EXCEPT !.settings = settings], IF run.pc = "setup" THEN "choose" ELSE "mode")
    /\ UNCHANGED <<beside, launches>>

Continue(s) ==
    /\ run.pc = "choose" /\ s \in Range(run.mem.sessions)
    /\ run' = [run EXCEPT !.pc = "mode", !.active = s, !.defaults = Resumed(run.mem, s)]
    /\ UNCHANGED <<log, beside, launches>>

\* A root is drawn at random: no other process has it.
StartNew(s) ==
    /\ run.pc = "choose" /\ s \notin Range(run.mem.sessions) \cup Range(log.sessions)
    /\ LET mem == [run.mem EXCEPT !.sessions = Append(@, s)]
       IN  /\ log' = mem
           /\ run' = [run EXCEPT !.mem = mem, !.pc = "mode", !.active = s]
    /\ UNCHANGED <<beside, launches>>

StartRun ==
    /\ run.pc = "mode"
    /\ Persist([run EXCEPT !.pc = "ask", !.at = 1,
                   !.sources = IF run.defaults # NoEntry /\ run.defaults.sources # {}
                               THEN run.defaults.sources ELSE Seed])
    /\ UNCHANGED <<beside, launches>>

Reprint ==
    /\ run.pc = "mode" /\ Latest(run.mem, run.active) # NoEntry
    /\ run' = Idle /\ beside' = FALSE
    /\ UNCHANGED <<log, launches>>

-----------------------------------------------------------------------------
Asking == run.pc = "ask" /\ UNCHANGED <<beside, launches>>
Skipped == Question[run.at] = "parallelism" /\ run.sources \cap Large = {}

\* The question after the last one is the next stage.
Forward(next) ==
    IF next.at < Len(Question) THEN [next EXCEPT !.at = @ + 1]
    ELSE [next EXCEPT !.pc = IF next.mem.settings.assist THEN "assist" ELSE "confirm"]

Answer(value) ==
    /\ Asking /\ Question[run.at] \in Field /\ ~Skipped
    /\ Persist(Forward([run EXCEPT !.answers[Question[run.at]] = value]))

\* The question about parallel agents answers itself when no source is large.
Skip ==
    /\ Asking /\ Skipped
    /\ Persist(Forward([run EXCEPT !.answers["parallelism"] = Default]))

Register(sources) ==
    /\ Asking /\ Question[run.at] = "sources" /\ sources # run.sources
    /\ Persist([run EXCEPT !.sources = sources])

DoneRegistering ==
    /\ Asking /\ Question[run.at] = "sources"
    /\ Persist(Forward(run))

Back ==
    /\ Asking /\ run.at > 1 /\ ~Skipped
    /\ run' = [run EXCEPT !.at = @ - 1]
    /\ UNCHANGED log

\* A reply of another model is applied field by field; a value no menu has is skipped.
Assist(f, value) ==
    /\ run.pc = "assist" /\ (f \in Choice => value # Empty)
    /\ Persist([run EXCEPT !.answers[f] = value])
    /\ UNCHANGED <<beside, launches>>

AssistSkip ==
    /\ run.pc = "assist"
    /\ run' = [run EXCEPT !.pc = "confirm"]
    /\ UNCHANGED <<log, beside, launches>>

StepBack ==
    /\ run.pc \in {"assist", "confirm"}
    /\ run' = IF run.pc = "confirm" /\ run.mem.settings.assist
              THEN [run EXCEPT !.pc = "assist"]
              ELSE [run EXCEPT !.pc = "ask", !.at = Len(Question)]
    /\ UNCHANGED <<log, beside, launches>>

\* What failed to verify is not logged; also a source that is gone fails it.
Generate ==
    /\ run.pc = "confirm" /\ run' = Idle /\ beside' = FALSE
    /\ LET e == EntryOf(run.answers, run.sources, run.active)
       IN  \/ Verified(e) /\ log' = [run.mem EXCEPT !.history = Append(@, e), !.drafts[run.active] = e]
           \/ log' = log
    /\ UNCHANGED launches

\* :q, an interrupt, the end of the input, a write that fails, the end of the process.
Quit ==
    /\ run.pc # "off" /\ run' = Idle /\ beside' = FALSE
    /\ UNCHANGED <<log, launches>>

-----------------------------------------------------------------------------
\* A command reads the log, writes it and ends; its overrides stay in the settings.
Command(l) ==
    /\ launches < MaxLaunches /\ launches' = launches + 1
    /\ log' = [l EXCEPT !.there = TRUE]
    /\ beside' = (run.pc # "off")
    /\ UNCHANGED run

\* The run of the command line: its flags over what the session starts from.
CommandRun(s, given, value, sources) ==
    LET fallback == IF s \in Range(log.sessions) THEN Resumed(Read(log), s) ELSE NoEntry
        base     == DraftOf([f \in Field |-> IF f = given THEN value ELSE Unasked],
                            sources, s, fallback)
    IN  [base EXCEPT !.sources = IF @ = {} THEN Seed ELSE @]

GenerateCommand(s, given, value, sources, settings) ==
    LET e == CommandRun(s, given, value, sources)
    IN  /\ settings.assist = log.settings.assist
        /\ settings.clipboard => log.settings.clipboard
        /\ ~(s \notin Range(log.sessions) /\ run.pc # "off" /\ s \in Range(run.mem.sessions))
        /\ Verified(e)
        /\ Command([Read(log) EXCEPT
                      !.settings = settings,
                      !.sessions = IF s \in Range(@) THEN @ ELSE Append(@, s),
                      !.history  = Append(@, e),
                      !.drafts[s] = e])

SettingsCommand(settings) == Command([Read(log) EXCEPT !.settings = settings])

Next ==
    \/ Launch \/ StartRun \/ Reprint \/ Skip \/ DoneRegistering \/ Back \/ AssistSkip
    \/ StepBack \/ Generate \/ Quit
    \/ \E settings \in Settings : WalkSettings(settings) \/ SettingsCommand(settings)
    \/ \E s \in Session : Continue(s) \/ StartNew(s)
    \/ \E value \in Value : Answer(value)
    \/ \E sources \in SUBSET Source : Register(sources)
    \/ \E f \in Field, value \in Value \cup {Empty} : Assist(f, value)
    \/ \E s \in Session, f \in Field, value \in Value, sources \in SUBSET Source, settings \in Settings :
          GenerateCommand(s, f, value, sources, settings)

Spec == Init /\ [][Next]_vars

-----------------------------------------------------------------------------
\* Every draft and completed run belongs to a listed session, and what is in the
\* history was verified, whatever ran side by side.
LogIsWhole ==
    /\ \A s \in Session : log.drafts[s] # NoEntry => s \in Range(log.sessions)
    /\ \A e \in Range(log.history) : e.session \in Range(log.sessions) /\ Verified(e)

\* What each question offers is what a process that continues the session would offer,
\* and the registry, unless it was emptied, is the one on disk.
DraftIsCurrent ==
    run.pc \in {"ask", "assist", "confirm"} /\ ~beside =>
        LET draft == log.drafts[run.active]
        IN  /\ draft # NoEntry
            /\ \A f \in Field : draft.fields[f] = Offered(f)
            /\ run.sources # {} => draft.sources = run.sources

\* Sessions and completed runs stay; a step changes the draft of one session at most.
LogGrows ==
    /\ IsPrefix(log.sessions, log'.sessions) /\ IsPrefix(log.history, log'.history)
    /\ \A s, t \in Session :
          Read(log).drafts[s] # Read(log').drafts[s] /\ Read(log).drafts[t] # Read(log').drafts[t] => s = t
    /\ \A s \in Session : log.drafts[s] # NoEntry => log'.drafts[s] # NoEntry

KeepsAnswers == LogIsWhole' /\ DraftIsCurrent' /\ (~beside => LogGrows)
=============================================================================
