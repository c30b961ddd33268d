------------------------------ MODULE MCParts -------------------------------
(***************************************************************************)
(* Parts of the system whose instances are small, in one run.  A behaviour *)
(* is a behaviour of one part, chosen at the start.  The variables x1, x2  *)
(* and so on are those of that part, in the order of its declarations.     *)
(***************************************************************************)
EXTENDS FleetReconcile, SessionStream, FollowUps, SessionResume,
    ArtifactCache, Sequences, TLC

CONSTANTS book, f1, i1, i2, i3, ink, noId, noLimit, nothing, s1, s2, w1, w2,
    web

VARIABLE component

VARIABLES x1, x2, x3, x4, x5, x6, x7, x8, x9, x10, x11, x12

----------------------------------------------------------------------------
\* Node 2 was cut off and granted itself the scope; it serves two calls.
MCSite == [c \in Caller |-> 2]
MCCutOff == 2 :> <<CHOOSE s \in Scope : TRUE>>

ASSUME ReconcileAssumption == ReconcileConstantsOK

----------------------------------------------------------------------------
\* A ring of two chunks, two turns and five chunks.
ASSUME StreamAssumption == StreamConstantsOK

----------------------------------------------------------------------------
\* A queue of two, three prompts, three turns and one trouble.
ASSUME PanelAssumption == PanelConstantsOK

----------------------------------------------------------------------------
\* Two requests, three legs, two claims, one crash.
ASSUME ResumeConstantsOK == ConstantsOK

----------------------------------------------------------------------------
\* Three lanes under no ceiling or one of three turns, two writers.

FanOut == INSTANCE FanOut
    WITH Lanes <- 3, Limits <- {3}, NoLimit <- noLimit, Costs <- {1},
    Writer <- {w1, w2}, Retries <- 2, strategy <- x1, limit <- x2, legs <- x3,
    spent <- x4, order <- x5, votes <- x6, winner <- x7, writer <- x8,
    tree <- x9, registered <- x10, span <- x11, returned <- x12

ASSUME FanOutConstantsOK == FanOut!ConstantsOK
----------------------------------------------------------------------------
\* One image, two context snapshots, two conversations, one fault.
ASSUME CacheAssumption == CacheConstantsOK

----------------------------------------------------------------------------
\* Two sessions, two processes, three questions; one of two sources is large.
MCSettings == {[assist |-> TRUE, clipboard |-> TRUE], [assist |-> FALSE, clipboard |-> FALSE]}

Prompt == INSTANCE PromptSessions
    WITH Field <- {"parallelism", "user_workflow"},
    Question <- <<"sources", "parallelism", "user_workflow">>,
    Choice <- {"parallelism"}, Value <- {"default", "typed"},
    Default <- "default", Source <- {web, book}, Seed <- {web},
    Large <- {book}, Settings <- MCSettings, Session <- {s1, s2},
    NoEntry <- nothing, MaxLaunches <- 2, log <- x1, run <- x2, beside <- x3,
    launches <- x4

ASSUME PromptConstantsOK == Prompt!ConstantsOK
promptRest == <<x5, x6, x7, x8, x9, x10, x11, x12>>
----------------------------------------------------------------------------
\* One session and one more, two processes.

Script == INSTANCE ScriptPrompts
    WITH Session <- {s1, s2}, NoEntry <- nothing,
    Extensions <- {"Claude", "Codex"}, Online <- {"ChatGPT"},
    MaxLaunches <- 2, log <- x1, run <- x2, launches <- x3

ASSUME ScriptConstantsOK == Script!ConstantsOK
scriptRest == <<x4, x5, x6, x7, x8, x9, x10, x11, x12>>
----------------------------------------------------------------------------
\* Three prompts in two chains at most, one edit, one image of an older version.
MCOldImages == {[folder |-> f1, version |-> 1, name |-> [root |-> noId, layer |-> "far", panel |-> 1,
    planned |-> 2, scene |-> ink]]}

Panels == INSTANCE PanelChains
    WITH Id <- {i1, i2, i3}, NoId <- noId, NoEntry <- nothing,
    Layers <- <<"far", "near">>, Scene <- {ink}, Folder <- {f1},
    OldImages <- MCOldImages, Saves <- {TRUE}, MaxPanels <- 2,
    MaxVersions <- 2, MaxEdits <- 1, log <- x1, run <- x2, images <- x3,
    offers <- x4, files <- x5, drawn <- x6, edits <- x7

ASSUME PanelsConstantsOK == Panels!ConstantsOK
panelsRest == <<x8, x9, x10, x11, x12>>
----------------------------------------------------------------------------
PartsInit ==
    /\ ReconcileInit
    /\ StreamInit
    /\ PanelInit
    /\ Init /\ writes
    /\ CacheInit
    /\ \/ /\ component = "reconcile"
          /\ x1 = 0 /\ x2 = 0 /\ x3 = 0 /\ x4 = 0 /\ x5 = 0 /\ x6 = 0 /\ x7 = 0
          /\ x8 = 0 /\ x9 = 0 /\ x10 = 0 /\ x11 = 0 /\ x12 = 0
       \/ /\ component = "stream"
          /\ x1 = 0 /\ x2 = 0 /\ x3 = 0 /\ x4 = 0 /\ x5 = 0 /\ x6 = 0 /\ x7 = 0
          /\ x8 = 0 /\ x9 = 0 /\ x10 = 0 /\ x11 = 0 /\ x12 = 0
       \/ /\ component = "panel"
          /\ x1 = 0 /\ x2 = 0 /\ x3 = 0 /\ x4 = 0 /\ x5 = 0 /\ x6 = 0 /\ x7 = 0
          /\ x8 = 0 /\ x9 = 0 /\ x10 = 0 /\ x11 = 0 /\ x12 = 0
       \/ /\ component = "resume"
          /\ x1 = 0 /\ x2 = 0 /\ x3 = 0 /\ x4 = 0 /\ x5 = 0 /\ x6 = 0 /\ x7 = 0
          /\ x8 = 0 /\ x9 = 0 /\ x10 = 0 /\ x11 = 0 /\ x12 = 0
       \/ /\ component = "fanout"
          /\ FanOut!Init
       \/ /\ component = "cache"
          /\ x1 = 0 /\ x2 = 0 /\ x3 = 0 /\ x4 = 0 /\ x5 = 0 /\ x6 = 0 /\ x7 = 0
          /\ x8 = 0 /\ x9 = 0 /\ x10 = 0 /\ x11 = 0 /\ x12 = 0
       \/ /\ component = "prompt"
          /\ Prompt!Init
          /\ x5 = 0 /\ x6 = 0 /\ x7 = 0 /\ x8 = 0 /\ x9 = 0 /\ x10 = 0 /\ x11 = 0
          /\ x12 = 0
       \/ /\ component = "script"
          /\ Script!Init
          /\ x4 = 0 /\ x5 = 0 /\ x6 = 0 /\ x7 = 0 /\ x8 = 0 /\ x9 = 0 /\ x10 = 0
          /\ x11 = 0 /\ x12 = 0
       \/ /\ component = "panels"
          /\ Panels!Init
          /\ x8 = 0 /\ x9 = 0 /\ x10 = 0 /\ x11 = 0 /\ x12 = 0

slots == <<x1, x2, x3, x4, x5, x6, x7, x8, x9, x10, x11, x12>>

PartsNext ==
    /\ UNCHANGED component
    /\ \/ component = "reconcile" /\ ReconcileNext /\ UNCHANGED <<streamVars, panelVars, vars, cacheVars, slots>>
       \/ component = "stream" /\ StreamNext /\ UNCHANGED <<reconcileVars, panelVars, vars, cacheVars, slots>>
       \/ component = "panel" /\ PanelNext /\ UNCHANGED <<reconcileVars, streamVars, vars, cacheVars, slots>>
       \/ component = "resume" /\ Next /\ UNCHANGED <<reconcileVars, streamVars, panelVars, cacheVars, slots>>
       \/ component = "fanout" /\ FanOut!Next /\ UNCHANGED <<reconcileVars, streamVars, panelVars, vars, cacheVars>>
       \/ component = "cache" /\ CacheNext /\ UNCHANGED <<reconcileVars, streamVars, panelVars, vars, slots>>
       \/ component = "prompt" /\ Prompt!Next /\ UNCHANGED <<reconcileVars, streamVars, panelVars, vars, cacheVars, promptRest>>
       \/ component = "script" /\ Script!Next /\ UNCHANGED <<reconcileVars, streamVars, panelVars, vars, cacheVars, scriptRest>>
       \/ component = "panels" /\ Panels!Next /\ UNCHANGED <<reconcileVars, streamVars, panelVars, vars, cacheVars, panelsRest>>

allVars == <<component, reconcileVars, streamVars, panelVars, vars, cacheVars, slots>>


PartsSpec == PartsInit /\ [][PartsNext]_allVars

\* A third event is written only after node 2 surfaced a conflict, and a second only
\* when no two calls are under way; once node 1 was isolated in its turn,
\* node 2 only sweeps; and a behaviour is left once nothing more can be written.
OneComesHome ==
    LET again == {1} \X (3 .. 4)
        sweeps == {"idle", "sweep", "stale"}
    IN  /\ Room
        /\ iso \subseteq again \cup {2} \X (1 .. 3)
        /\ IF again \subseteq iso
           THEN /\ \A c \in Caller : job[c].pc \in sweeps
                /\ \A n \in Node : \A x \in notes[n] : x.kind = "stale"
           ELSE /\ written > 2 => \E x \in notes[2] : x.kind = "conflict"
                /\ (\A c \in Caller : job[c] # NoJob) => written <= 1

\* One turn at a time, files in one conversation only, and the editor stages one of the
\* context snapshots only; faults and the passing of time together for one conversation
\* and one snapshot.
OneAsks ==
    LET one == CHOOSE s \in CacheSession : TRUE
        text == CHOOSE o \in CacheContext : TRUE
    IN  /\ \E s \in CacheSession : \A c \in CacheSession \ {s} : request[c].pc = "idle"
        /\ \A c \in CacheSession \ {one} : request[c].files = {}
        /\ request[one].files = {} \/ request[one].images = {}
        /\ staging.pc = "idle" \/ staging.object \in CacheImage \cup {text}
        /\ cacheFaults = 0 \/ cacheClock = 0
           \/ /\ there \subseteq CacheImage \cup {text}
              /\ \A c \in CacheSession \ {one} : request[c].pc = "idle" /\ noted[c] = {}

\* Chains begin with the first of two panels of the far layer, and one prompt at a time
\* waits for its image.
ChainsBegin ==
    /\ Cardinality(x4) <= 1
    /\ x2.pc # "build" \/ x2.entry.pass # "new" \/ x2.entry.edited
         \/ (x2.entry.layer = "far" /\ x2.entry.panel = 1 /\ x2.entry.planned = 2)

\* Bounds of single parts, each named above.
Bounds ==
    /\ component = "reconcile" => OneComesHome
    /\ component = "cache" => OneAsks
    /\ component = "panels" => ChainsBegin

----------------------------------------------------------------------------
\* Every variable of every part has the values its code can give it.
PartsTypeOK ==
    /\ ReconcileTypeOK
    /\ StreamTypeOK
    /\ PanelTypeOK
    /\ TypeOK
    /\ component = "fanout" => FanOut!TypeOK
    /\ CacheTypeOK
    /\ component = "prompt" => Prompt!TypeOK
    /\ component = "script" => Script!TypeOK
    /\ component = "panels" => Panels!TypeOK

\* A fan-out stays within its turns, is decided by what its lanes said of each other,
\* and tells what is left of a worktree it tore down.
FanOutIsTruthful == component = "fanout" => FanOut!FanOutIsTruthful

\* An interview that was left at any point offers again what was answered, no run or
\* session of a log is lost, and a chain of panels goes on from an accepted image.
InterviewsGoOn ==
    [][
       /\ component = "prompt" => Prompt!KeepsAnswers
       /\ component = "script" => Script!KeepsAnswers
       /\ component = "panels" => Panels!ChainsGoOn
      ]_allVars

============================================================================
