--------------------------- MODULE SettingsWindow ---------------------------
(***************************************************************************)
(* Kohiko Settings, the file it edits, and the window manager that reads    *)
(* it.  The window loads kohiko.conf once and edits its own copy of the     *)
(* lines; Save writes the whole copy to a temporary file and renames it     *)
(* over the original, then asks Kohiko to load it.  A starting Kohiko adds  *)
(* missing keys to the same file through the same ConfigWriter, backs it    *)
(* up, or, after a start that did not finish, leaves it unread.  Nothing    *)
(* locks the file: the user's editor writes it too.                         *)
(***************************************************************************)
EXTENDS SettingsEditor, ConfigFile, TLC

CONSTANTS
  Files,         \* what kohiko.conf may hold at first
  MaxGestures,   \* bound: clicks and keys
  MaxKept,       \* bound: lines left of a write whose end is lost
  MaxEvents      \* bound: what happens outside the window

\* A setting has a text, a window rule the three cells its row is parsed into.
IsLine(l) ==
  /\ l \in [key : STRING, val : Seq(STRING), form : {"plain", "spaced", "comment"}]
  /\ l.form # "comment" => Len(l.val) = Cells(l.key)

ASSUME FilesAreLines == \A f \in Files : f \in Seq({f[i] : i \in DOMAIN f}) /\ \A i \in DOMAIN f : IsLine(f[i])
ASSUME SchemaIsScalar ==
  /\ Schema \in Seq(STRING)
  /\ \A i \in DOMAIN Schema : Schema[i] \notin Block /\ Default[Schema[i]] \in [1..1 -> STRING]
ASSUME BoundsAreNatural == MaxGestures \in Nat /\ MaxKept \in Nat /\ MaxEvents \in Nat

VARIABLES
  open,          \* the window's process runs
  lines,         \* m_writer.m_lines
  synced,        \* the lines the window last read or wrote on disk
  touched,       \* keys and blocks applied to lines since then
  foreign,       \* another hand has written kohiko.conf since then (history)
  disk,          \* kohiko.conf, the temporary file, kohiko.conf.bak
  at, pen,       \* each writer's place in ConfigWriter::Save, and the file its stream is on
  kohiko,        \* the window manager
  spoilt,        \* two writers were in Save together, or the end of a write was lost (history)
  gestures, events

winVars == <<open, ed, lines, synced, touched>>
fileVars == <<disk, at, pen, spoilt, foreign>>
vars == <<winVars, fileVars, kohiko, gestures, events>>

Saver == {"settings", "kohiko"}
Scalar == {"flag", "count", "ws1"}
NoFile == [lines |-> <<>>, is |-> "none"]
Torn == [lines |-> <<>>, is |-> "torn"]
Whole(ls) == [lines |-> ls, is |-> "whole"]
Idle == [s \in Saver |-> "idle"]

Fallback(f) == IF Shows(Schema, f) THEN Default[f] ELSE <<"">>
Reads(ls, f) == GetString(ls, f, Fallback(f))[1]

-----------------------------------------------------------------------------
(* ConfigWriter::Save, one system call at a time. *)

\* The stream truncates the temporary file, whoever else has it open.
OpenTemp_InPlace(s) ==
  /\ at[s] = "ready"
  /\ at' = [at EXCEPT ![s] = "opened"] /\ pen' = [pen EXCEPT ![s] = "conf"]
  /\ disk' = [disk EXCEPT !.conf = Torn]
  /\ spoilt' = (spoilt \/ \E t \in Saver \ {s} : at[t] \in {"opened", "written"})

OpenTemp(s) ==
  /\ at[s] = "ready"
  /\ at' = [at EXCEPT ![s] = "opened"] /\ pen' = [pen EXCEPT ![s] = "tmp"]
  /\ disk' = [disk EXCEPT !.tmp = Torn]
  /\ spoilt' = (spoilt \/ \E t \in Saver \ {s} : at[t] \in {"opened", "written"})

\* good() is asked before the stream is closed: when the last flush fails, the end of the
\* lines is lost and nobody is told.  Bounds: MaxKept, and that it is one of the MaxEvents.
Flushed(ls) ==
  {ls} \cup {SubSeq(ls, 1, n) : n \in {m \in 0..MaxKept : m < Len(ls) /\ events < MaxEvents}}

\* Over what another stream wrote there meanwhile the two texts are mixed.
Filled(file, ls, got) ==
  IF got = ls /\ file.lines \in {<<>>, ls} THEN Whole(ls) ELSE [Torn EXCEPT !.lines = got]

WriteTemp(s, ls) ==
  /\ at[s] = "opened"
  /\ at' = [at EXCEPT ![s] = "written"] /\ pen' = [pen EXCEPT ![s] = None]
  /\ \E got \in Flushed(ls) :
       /\ disk' = CASE pen[s] = "tmp" -> [disk EXCEPT !.tmp = Filled(@, ls, got)]
                    [] pen[s] = "conf" -> [disk EXCEPT !.conf = Filled(@, ls, got)]
                    [] OTHER -> disk
       /\ spoilt' = (spoilt \/ got # ls)
       /\ events' = IF got = ls THEN events ELSE events + 1

\* A stream on the file that was moved or removed stays on it.
Moved(from, to) == [t \in Saver |-> IF pen[t] = from THEN to ELSE IF pen[t] = to THEN "gone" ELSE pen[t]]

\* rename() succeeds when there is a temporary file to rename.
RenameTemp(s, next) ==
  /\ at[s] = "written" /\ disk.tmp # NoFile
  /\ disk' = [disk EXCEPT !.conf = disk.tmp, !.tmp = NoFile]
  /\ at' = [at EXCEPT ![s] = next] /\ pen' = Moved("tmp", "conf")
  /\ UNCHANGED spoilt

\* Opening, writing or renaming fails: the temporary file goes.
SaveFails(s) ==
  /\ \/ at[s] \in {"ready", "opened"}
     \/ at[s] = "written" /\ disk.tmp = NoFile
  /\ disk' = IF at[s] = "ready" THEN disk ELSE [disk EXCEPT !.tmp = NoFile]
  /\ pen' = IF at[s] = "ready" THEN pen ELSE [Moved("tmp", "gone") EXCEPT ![s] = None]
  /\ at' = [at EXCEPT ![s] = "idle"]
  /\ UNCHANGED spoilt

-----------------------------------------------------------------------------
(* The window. *)

\* BuildWorkspaceFields reads the file, not the copy.
BuildWorkspaceFields(e) ==
  LET ws == IF e.field["count"].now = "" THEN {} ELSE {"ws1"}
      fresh == [loaded |-> Reads(disk.conf.lines, "ws1"), now |-> Reads(disk.conf.lines, "ws1")]
  IN  [e EXCEPT !.onField = None,
                !.field = [f \in {"flag", "count"} \cup ws |-> IF f = "ws1" THEN fresh ELSE @[f]]]

\* BuildFields, BuildRawBlocks and the members' initial values.
Built(ls) ==
  [field |-> [f \in {"flag", "count"} |-> [loaded |-> Reads(ls, f), now |-> Reads(ls, f)]],
   block |-> [b \in Block |-> [loaded |-> GetRawBlock(ls, b), rows |-> GetRawBlock(ls, b)]],
   category |-> "General", found |-> FALSE, inSearch |-> FALSE, onField |-> None, onBlock |-> None,
   fieldCaret |-> 0, row |-> 1, col |-> 0, cell |-> Class, unchecked |-> FALSE, slip |-> None,
   fault |-> None]

Open ==
  /\ ~open /\ open' = TRUE
  /\ lines' = disk.conf.lines /\ synced' = disk.conf.lines /\ touched' = {}
  /\ ed' = BuildWorkspaceFields(Built(disk.conf.lines))
  /\ foreign' = FALSE
  /\ UNCHANGED <<disk, at, pen, spoilt, kohiko, gestures, events>>

\* The window's one thread waits for an event.
Waiting == open /\ at["settings"] = "idle" /\ ed.fault = None

Gesture(next) ==
  /\ Waiting /\ gestures < MaxGestures /\ gestures' = gestures + 1
  /\ next # ed /\ ed' = next
  /\ UNCHANGED <<open, lines, synced, touched, fileVars, kohiko, events>>

KeyPress ==
  \/ Gesture(Tab(ed))
  \/ \E key \in Key : Fits(ed, key) /\ Gesture(Pressed(ed, key, BuildWorkspaceFields(ed)))

\* HandleButtonPress.
Click ==
  \/ \E c \in Category : Gesture(SelectCategory(ed, c))
  \/ Gesture(ClickSearch(ed))
  \/ \E f \in DOMAIN ed.field :
       /\ Shows(VisibleFields(ed), f)
       /\ \E caret \in CaretsForClick(ed.field[f].now) : Gesture(ClickField(ed, f, caret))
  \/ Shows(VisibleBlocks(ed), "bind") /\
       LET rows == ed.block["bind"].rows
       IN  \/ rows = <<>> /\ Gesture(ClickLine(ed, 1, 0))
           \/ \E i \in DOMAIN rows : \E col \in CaretsForClick(rows[i][Text]) :
                Gesture(ClickLine(ed, i, col))
  \/ \E b \in Structured : Shows(VisibleBlocks(ed), b) /\
       LET rows == ed.block[b].rows
       IN  \/ Len(rows) < MaxRows /\ Gesture(AddRow(ed, b))
           \/ \E i \in DOMAIN rows :
                \/ Gesture(RemoveRow(ed, b, i))
                \/ b = "windowrule" /\ Gesture(CycleAction(ed, i))
                \/ \E cell \in {Class, Workspace} :
                     /\ cell = Workspace => HasWorkspace(b, rows[i])
                     /\ \E col \in CaretsForClick(rows[i][cell]) :
                          Gesture(FocusRow(ed, b, i, cell, col))
  \/ Gesture(ResetVisible(ed, [f \in Scalar |-> Fallback(f)[1]]))

\* Save: what is dirty and valid goes into the lines and counts as loaded before they are written.
Valid ==
  {f \in DOMAIN ed.field : FieldDirty(ed, f) /\ FieldOK(ed, f)}
    \cup {b \in Block : BlockDirty(ed, b) /\ BlockOK(ed, b)}

ApplyField(ls, f) ==
  IF f \in Valid THEN SetScalar(ls, f, <<ed.field[f].now>>, SettingsMarker) ELSE ls

ApplyBlock(ls, b) ==
  IF b \in Valid
  THEN ReplaceRawBlock(ls, b, NonBlank(ed.block[b].rows)) ELSE ls

Save ==
  /\ Waiting /\ gestures < MaxGestures /\ gestures' = gestures + 1
  /\ lines' = ApplyBlock(ApplyBlock(ApplyBlock(ApplyField(ApplyField(ApplyField(lines,
                "flag"), "count"), "ws1"), "windowrule"), "monitor"), "bind")
  /\ touched' = touched \cup Valid
  /\ ed' = [ed EXCEPT
       !.field = [f \in DOMAIN ed.field |->
                   IF f \in Valid THEN [ed.field[f] EXCEPT !.loaded = ed.field[f].now] ELSE ed.field[f]],
       !.block = [b \in Block |->
                   IF b \in Valid THEN [ed.block[b] EXCEPT !.loaded = ed.block[b].rows] ELSE ed.block[b]]]
  /\ at' = [at EXCEPT !["settings"] = "ready"]
  /\ UNCHANGED <<open, synced, disk, pen, spoilt, foreign, kohiko, events>>

SettingsWrites ==
  /\ \/ OpenTemp("settings") /\ UNCHANGED <<synced, touched, foreign, events>>
     \/ WriteTemp("settings", lines) /\ UNCHANGED <<synced, touched, foreign>>
     \/ SaveFails("settings") /\ UNCHANGED <<synced, touched, foreign, events>>
     \/ RenameTemp("settings", "renamed") /\ synced' = lines /\ touched' = {} /\ foreign' = FALSE
          /\ UNCHANGED events
  /\ UNCHANGED <<open, ed, lines, kohiko, gestures>>

\* What a Kohiko that has just read these lines runs with.
InForce(ls) == [key \in Scalar \cup Block |-> GetAll(ls, key)]

\* Keys read when Kohiko starts and not again: workspace.count sizes the list of workspaces
\* (as the launcher's, notepad's, power menu's and lock screen's keys are read once), and a
\* workspace's own key starts programs.
AtStart == {"count", "ws1"}

\* `kohikoctl reload` reaches a Kohiko that listens; ReloadConfig loads the file.
Reloaded_NotLoaded(k) == [k EXCEPT !.news = IF k.at = "up" THEN "none" ELSE @]

Reloaded(k) ==
  CASE k.at = "up" ->
         [k EXCEPT !.running = [key \in DOMAIN @ |->
                                  IF key \in AtStart THEN @[key] ELSE InForce(disk.conf.lines)[key]],
                   !.news = "none"]
    [] k.at \in {"migrating", "loaded"} -> [k EXCEPT !.news = "missed"]
    [] OTHER -> k

ReloadRunningKohiko ==
  /\ open /\ at["settings"] = "renamed"
  /\ at' = [at EXCEPT !["settings"] = "idle"]
  /\ ed' = BuildWorkspaceFields(ed)
  /\ kohiko' = Reloaded(kohiko)
  /\ UNCHANGED <<open, lines, synced, touched, disk, pen, spoilt, foreign, gestures, events>>

-----------------------------------------------------------------------------
(* Around the window.  Bound: MaxEvents of these, and but for Close they   *)
(* and Kohiko's own steps come in Save or while nothing is being edited:   *)
(* what is typed and the file share no state.                              *)

AnyDirty == (\E f \in DOMAIN ed.field : FieldDirty(ed, f)) \/ \E b \in Block : BlockDirty(ed, b)
Resting == ~AnyDirty /\ ~ed.inSearch /\ ed.onField = None /\ ed.onBlock = None /\ ~ed.found
Apart == at["settings"] # "idle" \/ Resting

Event == events < MaxEvents /\ events' = events + 1 /\ UNCHANGED gestures

Left(s) ==
  /\ at' = [at EXCEPT ![s] = "idle"] /\ pen' = [pen EXCEPT ![s] = None]
  /\ UNCHANGED <<disk, spoilt>>

News(k, what) == IF k.at = "off" THEN k ELSE [k EXCEPT !.news = what]

\* Closed, without a question about what is not saved, or killed anywhere in Save.
Close ==
  /\ Event /\ open
  /\ open' = FALSE /\ ed' = Built(<<>>) /\ lines' = <<>> /\ synced' = <<>> /\ touched' = {}
  /\ Left("settings") /\ foreign' = FALSE
  /\ kohiko' = IF at["settings"] = "renamed" THEN News(kohiko, "other") ELSE kohiko

\* The user's editor changes the Boolean.
EditedByHand ==
  /\ Event /\ Apart /\ disk.conf.is = "whole"
  /\ LET other == IF Reads(disk.conf.lines, "flag") = "true" THEN <<"false">> ELSE <<"true">>
     IN  disk' = [disk EXCEPT !.conf.lines = SetScalar(@, "flag", other, SettingsMarker)]
  /\ kohiko' = News(kohiko, "other") /\ foreign' = open
  /\ UNCHANGED <<winVars, at, pen, spoilt>>

\* `kohikoctl restore-config`.
RestoreConfig ==
  /\ Event /\ Apart /\ disk.bak # NoFile
  /\ disk' = [disk EXCEPT !.conf = disk.bak]
  /\ kohiko' = News(kohiko, "other") /\ foreign' = open
  /\ UNCHANGED <<winVars, at, pen, spoilt>>

\* Application::Run: the marker of a start that did not finish means defaults.
Recover ==
  /\ kohiko.marker
  /\ kohiko' = [kohiko EXCEPT !.at = "loaded", !.running = InForce(<<>>), !.news = "other"]
  /\ disk' \in {disk, [disk EXCEPT !.bak = disk.conf]}
  /\ UNCHANGED at

Loaded(k, ls) ==
  [k EXCEPT !.at = "loaded", !.running = InForce(ls), !.news = "none", !.marker = TRUE, !.base = <<>>, !.held = <<>>]

\* ConfigMigration::MigrateIfNeeded up to its Save; a backup that fails stops nothing.
Migrate ==
  /\ ~kohiko.marker
  /\ IF Missing(disk.conf.lines) = {}
     THEN kohiko' = Loaded(kohiko, disk.conf.lines) /\ UNCHANGED <<disk, at>>
     ELSE /\ kohiko' = [kohiko EXCEPT !.at = "migrating", !.base = disk.conf.lines,
                                      !.held = Migrated(disk.conf.lines), !.marker = TRUE]
          /\ disk' \in {disk, [disk EXCEPT !.bak = disk.conf]}
          /\ at' = [at EXCEPT !["kohiko"] = "ready"]

KohikoStarts ==
  /\ Event /\ Apart /\ kohiko.at = "off" /\ at["kohiko"] = "idle"
  /\ Recover \/ Migrate
  /\ UNCHANGED <<winVars, pen, spoilt, foreign>>

KohikoWrites ==
  /\ Apart
  /\ \/ OpenTemp("kohiko") /\ UNCHANGED <<foreign, events>>
     \/ WriteTemp("kohiko", kohiko.held) /\ UNCHANGED foreign
     \/ SaveFails("kohiko") /\ UNCHANGED <<foreign, events>>
     \/ RenameTemp("kohiko", "idle") /\ foreign' = open /\ UNCHANGED events
  /\ kohiko' = IF at'["kohiko"] = "idle" THEN Loaded(kohiko, disk'.conf.lines) ELSE kohiko
  /\ UNCHANGED <<winVars, gestures>>

\* Initialize returns: Kohiko listens, the marker goes.
KohikoReady ==
  /\ Apart /\ kohiko.at = "loaded"
  /\ kohiko' = [kohiko EXCEPT !.at = "up", !.marker = FALSE]
  /\ UNCHANGED <<winVars, fileVars, gestures, events>>

\* It ends or dies, in any state.
KohikoDies ==
  /\ Apart /\ kohiko.at # "off" /\ UNCHANGED <<gestures, events>>
  /\ kohiko' = [kohiko EXCEPT !.at = "off", !.running = InForce(<<>>), !.news = "none", !.base = <<>>, !.held = <<>>]
  /\ Left("kohiko")
  /\ UNCHANGED <<winVars, foreign>>

-----------------------------------------------------------------------------

Init ==
  /\ \E f \in Files : disk = [conf |-> Whole(f), tmp |-> NoFile, bak |-> NoFile]
  /\ open = FALSE /\ ed = Built(<<>>) /\ lines = <<>> /\ synced = <<>> /\ touched = {}
  /\ at = Idle /\ pen = [s \in Saver |-> None] /\ spoilt = FALSE /\ foreign = FALSE
  /\ kohiko = [at |-> "off", running |-> InForce(<<>>), base |-> <<>>, held |-> <<>>,
               marker |-> FALSE, news |-> "none"]
  /\ gestures = 0 /\ events = 0

Next ==
  \/ Open \/ KeyPress \/ Click \/ Save \/ SettingsWrites \/ ReloadRunningKohiko
  \/ Close \/ EditedByHand \/ RestoreConfig
  \/ KohikoStarts \/ KohikoWrites \/ KohikoReady \/ KohikoDies

Spec == Init /\ [][Next]_vars

-----------------------------------------------------------------------------
(* Properties. *)

(* A key goes where a caret says, and carets are plain offsets.  The only  *)
(* accesses outside a text or outside the rows follow four ways of moving  *)
(* the text from under the caret: Tab into a structured block (the caret   *)
(* takes the length of the whole line, or the cell of another row), Reset  *)
(* to Default and the action button, while the text has the focus, and a   *)
(* comma in the output of a monitor rule.                                  *)
OnlyStaleCarets == ed.fault \in {None, "tab", "reset", "cycle", "comma"}

(* ConfigWriter.h promises that a write interrupted partway can never      *)
(* leave kohiko.conf half-written, for a full disk or a killed process: so  *)
(* it is, wherever Settings or Kohiko is killed and whichever call fails    *)
(* that the code looks at.  Two things break it: the two share one          *)
(* temporary file and may save together, and the last flush, when the       *)
(* stream is closed, may fail unnoticed.                                    *)
WholeUnlessSpoilt == ~spoilt => disk.conf.is = "whole"

(* Nobody's lines but one's own.  Where nobody wrote the file in between,  *)
(* Settings changes what Config reads of a key only if the user changed    *)
(* that key, the migration only of keys the file did not have; neither     *)
(* drops a comment.                                                        *)
Kept(old, new, but) ==
  /\ \A key \in (Scalar \cup Block) \ but : GetAll(new, key) = GetAll(old, key)
  /\ \A l \in {old[i] : i \in DOMAIN old} : l.form = "comment" => \E i \in DOMAIN new : new[i] = l

OthersKept ==
  [][/\ at["settings"] = "written" /\ at'["settings"] = "renamed" /\ ~spoilt /\ disk.conf.lines = synced
        => Kept(disk.conf.lines, disk'.conf.lines, touched)
     /\ at["kohiko"] = "written" /\ at'["kohiko"] = "idle" /\ ~spoilt /\ disk.conf.lines = kohiko.base
        => Kept(disk.conf.lines, disk'.conf.lines, Missing(kohiko.base))]_vars

(* What is not marked as changed is what the file says, but for blank      *)
(* lines of a block: after any editing, skipped, failed and repeated       *)
(* saves, whenever the copy of the lines is what the file holds.  The      *)
(* fields of the workspaces are read from the file itself, and so are only *)
(* sure as long as nobody else has written it since.                       *)
Fresh(f) == f # "ws1" \/ (at["settings"] = "idle" /\ ~spoilt /\ ~foreign)

ShownIsSaved ==
  open /\ lines = disk.conf.lines =>
    /\ \A f \in DOMAIN ed.field :
         Fresh(f) /\ ~FieldDirty(ed, f) => ed.field[f].now = Reads(disk.conf.lines, f)
    /\ \A b \in Block :
         ~BlockDirty(ed, b) => NonBlank(ed.block[b].rows) = NonBlank(GetRawBlock(disk.conf.lines, b))

(* A save is in force without a restart, but for the keys read at start:   *)
(* of every other one Kohiko runs with what the file says, unless the file *)
(* was changed by another hand or the reload came before a starting Kohiko *)
(* listened.                                                               *)
RunningIsSaved ==
  kohiko.at = "up" /\ kohiko.news = "none" /\ at["settings"] # "renamed" /\ ~spoilt =>
    \A key \in (Scalar \cup Block) \ AtStart : kohiko.running[key] = GetAll(disk.conf.lines, key)

(* The screen, the file and the running Kohiko say the same after a save.   *)
SavedIsShownAndRuns == ShownIsSaved /\ RunningIsSaved
=============================================================================
