----------------------------- MODULE PanelChains -----------------------------
(***************************************************************************)
(* The prompt generator for parallax panels.  Its log holds every prompt   *)
(* it gave; prompts of one root form a chain, layer by layer and panel by  *)
(* panel.  Whether a panel was accepted is not in the log: it is an image  *)
(* of the panel's name in the output folder, put there (or taken away) by  *)
(* whoever draws, at any time.  One process of the script runs at a time.  *)
(***************************************************************************)
EXTENDS Naturals, Sequences, FiniteSets, SequencesExt, FiniteSetsExt

CONSTANTS Id, NoId,       \* session ids; a chain is named by its first session
          NoEntry,
          Layers,         \* the recipes, in their order
          Scene,          \* the world and the mood, as far as names show them
          Folder,         \* output folders
          OldImages,      \* images an earlier version of the script left, without a root
          Saves,          \* whether a prompt is saved as a file, as set or as the user says
          MaxPanels, MaxVersions,
          MaxEdits        \* values the user edits in a review, and images thrown away

Layer   == Range(Layers)
Extends == {"extend right", "extend left"}
Mode    == {"new panel"} \cup Extends

ConstantsOK == NoId \notin Id /\ Scene # {} /\ Folder # {} /\ MaxPanels \in Nat \ {0}

VARIABLES
    log,     \* the file: settings and the history of prompts
    run,     \* the process and the prompt it prepares
    images,  \* the images in the output folders
    offers,  \* the paths that printed prompts name for their image
    files,   \* the prompts saved as files
    drawn,   \* every name of a panel that ever had an image
    edits

vars == <<log, run, images, offers, files, drawn, edits>>

Panels  == {p \in (1 .. MaxPanels) \X (1 .. MaxPanels) : p[1] <= p[2]}
Entry   == [session : Id, root : Id, parent : Id \cup {NoId}, pass : {"new", "continue", "rollover"},
            mode : Mode, layer : Layer, panel : 1 .. MaxPanels, planned : 1 .. MaxPanels,
            scene : Scene, edited : BOOLEAN]

Settings == [folder : Folder, scene : Scene]
Off      == [pc |-> "off", settings |-> CHOOSE s \in Settings : TRUE, entry |-> NoEntry,
             text |-> NoEntry]

\* What an image is called.  Older names lack the root.
NameOf(e)    == [root |-> e.root, layer |-> e.layer, panel |-> e.panel, planned |-> e.planned,
                 scene |-> e.scene]
OldNameOf(e) == [NameOf(e) EXCEPT !.root = NoId]
Name         == [root : Id \cup {NoId}, layer : Layer, panel : 1 .. MaxPanels,
                 planned : 1 .. MaxPanels, scene : Scene]
Image        == [folder : Folder, name : Name, version : 1 .. MaxVersions]

TypeOK ==
    /\ log.there \in BOOLEAN /\ log.settings \in Settings
    /\ Range(log.history) \subseteq Entry
    /\ run.pc \in {"off", "setup", "ask", "target", "scene", "settings", "build", "archive",
                   "emit", "backup"}
    /\ run.settings \in Settings /\ run.entry \in Entry \cup {NoEntry}
    /\ images \subseteq Image /\ offers \subseteq Image
    /\ drawn \subseteq Name /\ edits \in 0 .. MaxEdits

Init ==
    /\ log = [there |-> FALSE, settings |-> Off.settings, history |-> <<>>]
    /\ run = Off
    /\ images = OldImages /\ drawn = {i.name : i \in OldImages}
    /\ offers = {} /\ files = {} /\ edits = 0

-----------------------------------------------------------------------------
History == log.history

\* Only an image proves that a prompt was accepted.
Accepted(e, settings) ==
    \E i \in images : i.folder = settings.folder /\ i.name \in {NameOf(e), OldNameOf(e)}

\* A fresh id is one that no entry of the history holds.
Known == {e.session : e \in Range(History)} \cup {e.root : e \in Range(History)}
           \cup {e.parent : e \in Range(History)}
FreshId == CHOOSE i \in Id \ Known : TRUE

Roots       == {e.root : e \in Range(History)}
ChainOf(r)  == {i \in DOMAIN History : History[i].root = r}
LatestOf(r) == Max(ChainOf(r))
AcceptedOf(r) == {i \in ChainOf(r) : Accepted(History[i], run.settings)}

Ambiguous(r) ==
    \E i \in ChainOf(r), j \in DOMAIN History : i # j /\ History[i].session = History[j].session

\* Mutant: any accepted panel of the chain makes it active.
StatusByAnyPanel(r) ==
    IF Ambiguous(r) THEN "ambiguous"
    ELSE IF AcceptedOf(r) = {} THEN "pending output"
    ELSE LET base == History[Max(AcceptedOf(r))]
         IN  IF base.panel < base.planned THEN "active" ELSE "layer complete"

StatusOf(r) ==
    IF Ambiguous(r) THEN "ambiguous"
    ELSE IF AcceptedOf(r) = {} \/ LatestOf(r) > Max(AcceptedOf(r)) THEN "pending output"
    ELSE LET base == History[Max(AcceptedOf(r))]
         IN  IF base.panel < base.planned THEN "active" ELSE "layer complete"

\* The layers a chain may go on with: the next recipe, or after the last any.
NextLayers(layer) ==
    LET at == CHOOSE i \in DOMAIN Layers : Layers[i] = layer
    IN  IF at < Len(Layers) THEN {Layers[at + 1]} ELSE Layer

\* The lower panels of the same chain and layer that have an image.
References(e, settings) ==
    {h.panel : h \in {h \in Range(History) :
        h.root = e.root /\ h.layer = e.layer /\ h.panel < e.panel /\ Accepted(h, settings)}}

\* The first free version of an image's name.
FreeVersions(folder, name) ==
    {v \in 1 .. MaxVersions : [folder |-> folder, name |-> name, version |-> v] \notin images}

Verified(e, settings) == e.mode \in Extends => References(e, settings) # {}

\* What the prompt says, with the path its image shall have.
TextOf(e, settings) ==
    [mode |-> e.mode, references |-> References(e, settings),
     image |-> [folder |-> settings.folder, name |-> NameOf(e),
                version |-> Min(FreeVersions(settings.folder, NameOf(e)))]]

Builds(e, settings) == Verified(e, settings) /\ FreeVersions(settings.folder, NameOf(e)) # {}

-----------------------------------------------------------------------------
Launch ==
    /\ run.pc = "off"
    /\ log' = [log EXCEPT !.there = TRUE]
    /\ run' = [Off EXCEPT !.pc = IF log.there THEN "ask" ELSE "setup", !.settings = log.settings]
    /\ UNCHANGED <<images, offers, files, drawn, edits>>

\* The settings are walked on the first run, and later on request.
WalkSettings(new) ==
    /\ run.pc \in {"setup", "ask"}
    /\ log' = [log EXCEPT !.settings = new]
    /\ run' = [run EXCEPT !.pc = "ask", !.settings = new]
    /\ UNCHANGED <<images, offers, files, drawn, edits>>

\* A prompt that was given before is built again; the log stays as it is.
GiveAgain(e) ==
    /\ offers' = IF Builds(e, run.settings) THEN offers \cup {TextOf(e, run.settings).image} ELSE offers
    /\ run' = Off
    /\ UNCHANGED <<log, images, files, drawn, edits>>

ReprintLast == run.pc = "ask" /\ History # <<>> /\ GiveAgain(Last(History))

ContinuePending(r) ==
    /\ run.pc = "ask" /\ r \in Roots /\ StatusOf(r) = "pending output"
    /\ GiveAgain(History[LatestOf(r)])

\* The interview for a new panel starts a chain; its scene becomes the default.
NewPanel(layer, p, scene) ==
    /\ run.pc = "ask" /\ Id \ Known # {}
    /\ run' = [run EXCEPT !.pc = "build", !.settings.scene = scene,
                  !.entry = [session |-> FreshId, root |-> FreshId, parent |-> NoId, pass |-> "new",
                             mode |-> "new panel", layer |-> layer, panel |-> p[1], planned |-> p[2],
                             scene |-> scene, edited |-> FALSE]]
    /\ UNCHANGED <<log, images, offers, files, drawn, edits>>

Propose(next) ==
    /\ run' = [run EXCEPT !.pc = "target", !.entry = next]
    /\ UNCHANGED <<log, images, offers, files, drawn, edits>>

\* The next panel of a layer; direction and values are those of the accepted one.
ContinueLayer(r) ==
    /\ run.pc = "ask" /\ r \in Roots /\ StatusOf(r) = "active" /\ Id \ Known # {}
    /\ LET base == History[Max(AcceptedOf(r))]
       IN  Propose([base EXCEPT !.session = FreshId, !.parent = base.session, !.pass = "continue",
                       !.mode = IF @ \in Extends THEN @ ELSE "extend right",
                       !.panel = @ + 1, !.edited = FALSE])

\* A complete layer is followed by the first panel of another.
StartLayer(r, layer, planned) ==
    /\ run.pc = "ask" /\ r \in Roots /\ StatusOf(r) = "layer complete" /\ Id \ Known # {}
    /\ LET base == History[Max(AcceptedOf(r))]
       IN  /\ layer \in NextLayers(base.layer)
           /\ Propose([base EXCEPT !.session = FreshId, !.parent = base.session, !.pass = "rollover",
                          !.mode = "new panel", !.layer = layer, !.panel = 1, !.planned = planned,
                          !.edited = FALSE])

\* The review of a proposal: each group is used as it is, or edited.
Use ==
    /\ run.pc \in {"target", "scene", "settings"}
    /\ run' = [run EXCEPT !.pc = CASE @ = "target" -> "scene" [] @ = "scene" -> "settings"
                                   [] OTHER -> "build"]
    /\ UNCHANGED <<log, images, offers, files, drawn, edits>>

Edit(at, next, new) ==
    /\ run.pc = at /\ edits < MaxEdits /\ edits' = edits + 1
    /\ run' = [run EXCEPT !.pc = CASE at = "target" -> "scene" [] at = "scene" -> "settings"
                                   [] OTHER -> "build",
                  !.entry = [next EXCEPT !.edited = @ \/ next # run.entry \/ new # run.settings],
                  !.settings = new]
    /\ UNCHANGED <<log, images, offers, files, drawn>>

EditTarget(mode, layer, p) ==
    /\ run.pc = "target" /\ mode \in Extends \cup {run.entry.mode}
    /\ Edit("target", [run.entry EXCEPT !.mode = mode, !.layer = layer, !.panel = p[1],
                           !.planned = p[2]], run.settings)

EditScene(scene)   == Edit("scene", [run.entry EXCEPT !.scene = scene], run.settings)
EditFolder(folder) == Edit("settings", run.entry, [run.settings EXCEPT !.folder = folder])

\* A prompt is built and verified before the log knows of it.
Build ==
    /\ run.pc = "build"
    /\ IF Builds(run.entry, run.settings)
       THEN /\ log' = [log EXCEPT !.settings = run.settings, !.history = Append(@, run.entry)]
            /\ run' = [run EXCEPT !.pc = "archive", !.text = TextOf(run.entry, run.settings)]
       ELSE log' = log /\ run' = Off
    /\ UNCHANGED <<images, offers, files, drawn, edits>>

-----------------------------------------------------------------------------
\* A text is saved under its name, or the first version of it that is free; a file that
\* says the same already is left.
Saved(label) ==
    LET same   == {f \in files : f.label = label /\ f.name = [NameOf(run.entry) EXCEPT !.scene = NoId]}
        free   == Min({v \in 1 .. Cardinality(same) + 1 : \A f \in same : f.version # v})
        before == {f \in same : f.version < free /\ f.text = run.text}
    IN  IF before # {} THEN files
        ELSE files \cup {[label |-> label, name |-> [NameOf(run.entry) EXCEPT !.scene = NoId],
                          version |-> free, text |-> run.text]}

\* The archive needs its folder, which the user may refuse to create.
Archive(save) ==
    /\ run.pc = "archive"
    /\ files' = IF save THEN Saved("script") ELSE files
    /\ run' = [run EXCEPT !.pc = "emit"]
    /\ UNCHANGED <<log, images, offers, drawn, edits>>

Emit ==
    /\ run.pc = "emit"
    /\ offers' = offers \cup {run.text.image}
    /\ run' = [run EXCEPT !.pc = "backup"]
    /\ UNCHANGED <<log, images, files, drawn, edits>>

Backup(save) ==
    /\ run.pc = "backup"
    /\ files' = IF save THEN Saved("backup") ELSE files
    /\ run' = Off
    /\ UNCHANGED <<log, images, offers, drawn, edits>>

\* q, an interrupt, the end of the input or of the process.
Quit ==
    /\ run.pc # "off" /\ run' = Off
    /\ UNCHANGED <<log, images, offers, files, drawn, edits>>

\* An image is saved where a printed prompt said, or thrown away.
Draw(i) ==
    /\ i \in offers
    /\ images' = images \cup {i} /\ drawn' = drawn \cup {i.name} /\ offers' = offers \ {i}
    /\ UNCHANGED <<log, run, files, edits>>

Discard(i) ==
    /\ i \in images /\ edits < MaxEdits /\ edits' = edits + 1
    /\ images' = images \ {i}
    /\ UNCHANGED <<log, run, offers, files, drawn>>

Next ==
    \/ Launch \/ ReprintLast \/ Use \/ Build \/ Emit \/ Quit
    \/ \E save \in Saves : Archive(save) \/ Backup(save)
    \/ \E new \in Settings : WalkSettings(new)
    \/ \E r \in Id : ContinuePending(r) \/ ContinueLayer(r)
    \/ \E r \in Id, layer \in Layer, planned \in 1 .. MaxPanels : StartLayer(r, layer, planned)
    \/ \E layer \in Layer, p \in Panels, scene \in Scene : NewPanel(layer, p, scene)
    \/ \E mode \in Mode, layer \in Layer, p \in Panels : EditTarget(mode, layer, p)
    \/ \E scene \in Scene : EditScene(scene)
    \/ \E folder \in Folder : EditFolder(folder)
    \/ \E i \in offers : Draw(i)
    \/ \E i \in images : Discard(i)

Spec == Init /\ [][Next]_vars

-----------------------------------------------------------------------------
\* A chain goes on only after its latest prompt had an image, as a pending prompt is
\* given again instead.
PendingIsNotExtended ==
    \A i \in DOMAIN History :
        LET before == {j \in ChainOf(History[i].root) : j < i}
        IN  before # {} => LET e == History[Max(before)]
                           IN  {NameOf(e), OldNameOf(e)} \cap drawn # {}

\* What the user took as proposed follows its parent: the next panel of the layer, or
\* the first of the next one.
FollowsItsParent ==
    \A i \in DOMAIN History :
        LET e == History[i]
        IN  \/ e.pass = "new" /\ e.root = e.session
            \/ /\ e.pass # "new"
               /\ \E j \in 1 .. i - 1 :
                    LET p == History[j]
                    IN  /\ p.session = e.parent /\ p.root = e.root
                        /\ \/ e.edited
                           \/ e.pass = "continue" /\ NameOf(e) = [NameOf(p) EXCEPT !.panel = @ + 1]
                           \/ e.pass = "rollover" /\ e.panel = 1 /\ p.panel = p.planned
                                /\ e.layer \in NextLayers(p.layer)

SessionsDiffer ==
    \A i, j \in DOMAIN History : History[i].session = History[j].session => i = j

\* A seam is that of the panel before, unless its image is gone.
SeamIsTheLast ==
    LET e == run.entry
    IN  History # History' /\ e.pass = "continue" /\ ~e.edited =>
            \/ Max(run'.text.references) = e.panel - 1
            \/ \A h \in Range(History) : h.session = e.parent => ~Accepted(h, run.settings)

\* No prompt is dropped from the log, and no saved prompt is written over.
KeepsPrompts ==
    /\ IsPrefix(History, History') /\ files \subseteq files'
    /\ \A f, g \in files' : f.label = g.label /\ f.name = g.name /\ f.version = g.version => f = g

ChainsGoOn ==
    /\ PendingIsNotExtended' /\ FollowsItsParent' /\ SessionsDiffer' /\ SeamIsTheLast /\ KeepsPrompts
=============================================================================
