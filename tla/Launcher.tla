------------------------------- MODULE Launcher -------------------------------
(***************************************************************************)
(* The launcher's box over the list of AppIndex: the query and the results *)
(* with a selected row.  Key presses, the watch and reload commands are    *)
(* handlers of the event loop; a reload joins the last build first and     *)
(* blocks the loop until it is through.                                    *)
(***************************************************************************)
EXTENDS AppIndex

CONSTANTS
    Query,          \* the texts that get typed, "" among them
    Answers,        \* which applications each of them matches
    File,           \* files of the home directory; any text but "" matches them
    Rows            \* how many rows the box has

ASSUME LauncherAssumption ==
    /\ "" \in Query /\ Answers \in [Query -> SUBSET App] /\ Answers[""] = App
    /\ Rows \in Nat \ {0} /\ IsFiniteSet(File) /\ App \cap File = {}

VARIABLES
    loop,       \* "down", "starting", "idle", or blocked in "joining"
    open,       \* m_open
    query,      \* m_query
    matches,    \* m_matches
    selected,   \* m_selectedIndex, from 1
    scroll      \* m_scrollOffset

box == <<open, query, matches, selected, scroll>>
boxVars == <<loop, box>>
launcherVars == <<indexVars, boxVars>>

Web == "web"
Row == App \cup File \cup {Web}

LauncherTypeOK ==
    /\ IndexTypeOK
    /\ loop \in {"down", "starting", "idle", "joining"}
    /\ open \in BOOLEAN /\ query \in Query
    /\ matches \in Seq(Row) /\ scroll \in Nat
    /\ selected \in 1..Len(matches) \/ selected = 1
    /\ scroll + Rows <= Len(matches) \/ scroll = 0
    /\ (loop = "joining") => builder # "none"
    /\ loop \in {"down", "starting"} => watched = {} /\ ~noticed
    /\ open => loop # "down"

LauncherInit ==
    /\ IndexInit
    /\ loop = "down"
    /\ open = FALSE /\ query = "" /\ matches = <<>> /\ selected = 1 /\ scroll = 0

(* ------------------------------ the results ------------------------------ *)

\* The applications whose score for a text is not kNoMatch.  Which of two comes
\* first, their scores' and the launch history's doing, tells no two
\* behaviours apart here.
Scored(text) == Answers[text] \cap index

\* Applications, then files, then a search of the web if there was nothing else.
Ranked(text) ==
    LET apps == Scored(text)
        files == IF text = "" THEN {} ELSE File
        web == IF text # "" /\ apps \cup files = {} THEN {Web} ELSE {}
    IN SetToSeq(apps) \o SetToSeq(files) \o SetToSeq(web)

\* Mutant.  The selection is kept whatever has become of the rows.
Clamped_Never(rows, row) == row

Clamped(rows, row) == IF row > Len(rows) THEN 1 ELSE row

UpdateMatches(text, row) ==
    /\ matches' = Ranked(text)
    /\ selected' = Clamped(matches', row)
    /\ scroll' = 0

(* --------------------------- start, watch, reload ------------------------- *)

\* Configure: the first build starts, then the watch.
Start ==
    /\ loop = "down" /\ loop' = "starting"
    /\ builder' = "looking"
    /\ UNCHANGED <<directories, cache, found, stamp, index, watch, box>>

\* AppDirWatcher::Initialize: a directory that is not there yet is passed
\* over; where inotify refuses, none is watched.
WatchStarts ==
    /\ loop = "starting" /\ loop' = "idle"
    /\ watched' \in {{}} \cup {ds \in SUBSET Dirs : There \subseteq ds}
    /\ UNCHANGED <<directories, cache, build, noticed, box>>

\* Mutant.  What is noticed while a build runs is taken to be in it.
HandleAppDirChanged_UnlessBuilding ==
    /\ loop = "idle" /\ noticed
    /\ noticed' = FALSE
    /\ loop' = IF builder = "done" THEN "joining" ELSE "idle"
    /\ UNCHANGED <<directories, cache, build, watched, box>>

HandleAppDirChanged ==
    /\ loop = "idle" /\ noticed
    /\ noticed' = FALSE
    /\ loop' = "joining"
    /\ UNCHANGED <<directories, cache, build, watched, box>>

\* The key binding or kohikoctl reloadlauncher.
LauncherReload ==
    /\ loop = "idle"
    /\ loop' = "joining"
    /\ UNCHANGED <<indexVars, box>>

\* StartIndexRebuild and the UpdateMatches after it: still the old index.
ReloadDesktopEntries ==
    /\ loop = "joining" /\ builder = "done"
    /\ loop' = "idle" /\ builder' = "looking"
    /\ UpdateMatches(query, selected)
    /\ UNCHANGED <<directories, cache, found, stamp, index, watch, open, query>>

\* The end of the process: the files stay.
Ends ==
    /\ loop' = "down" /\ builder' = "none" /\ watched' = {} /\ noticed' = FALSE
    /\ index' = {} /\ found' = {} /\ stamp' = 0
    /\ open' = FALSE /\ query' = "" /\ matches' = <<>> /\ selected' = 1 /\ scroll' = 0
    /\ UNCHANGED <<directories, cache>>

\* ~Launcher joins the thread.
Quit == loop = "idle" /\ builder = "done" /\ Ends

Crash == loop # "down" /\ Ends

(* ------------------------------- the box --------------------------------- *)

Open ==
    /\ loop = "idle" /\ ~open
    /\ open' = TRUE /\ query' = ""
    /\ UpdateMatches("", 1)
    /\ UNCHANGED <<indexVars, loop>>

InBox ==
    /\ loop = "idle" /\ open
    /\ UNCHANGED <<indexVars, loop, open>>

\* The selected row keeps its number while the rows change under it.
Type(text) ==
    /\ InBox
    /\ query' = text
    /\ UpdateMatches(text, selected)

\* Ctrl+U leaves the rows of the text it clears.
ClearLine ==
    /\ InBox
    /\ query' = ""
    /\ UNCHANGED <<matches, selected, scroll>>

Up ==
    /\ InBox
    /\ selected > 1 /\ selected' = selected - 1
    /\ scroll' = IF selected' - 1 < scroll THEN selected' - 1 ELSE scroll
    /\ UNCHANGED <<query, matches>>

Down ==
    /\ InBox
    /\ selected < Len(matches) /\ selected' = selected + 1
    /\ scroll' = IF selected' > scroll + Rows THEN scroll + 1 ELSE scroll
    /\ UNCHANGED <<query, matches>>

\* The wheel scrolls and leaves the selection behind.
Wheel ==
    /\ InBox
    /\ \/ scroll > 0 /\ scroll' = scroll - 1
       \/ scroll + Rows < Len(matches) /\ scroll' = scroll + 1
    /\ UNCHANGED <<query, matches, selected>>

\* What is launched, and the history of launches, are not modelled.
CloseLauncher ==
    /\ loop = "idle" /\ open /\ open' = FALSE
    /\ UNCHANGED <<indexVars, loop, query, matches, selected, scroll>>

Handlers ==
    \/ HandleAppDirChanged \/ LauncherReload \/ ReloadDesktopEntries \/ Quit
    \/ Open \/ ClearLine \/ Up \/ Down \/ Wheel
    \/ CloseLauncher
    \/ \E text \in Query : Type(text)

BuilderStep == BuilderNext /\ UNCHANGED boxVars

DirectoriesStep == DirectoriesNext /\ UNCHANGED boxVars

LauncherNext == Start \/ WatchStarts \/ Handlers \/ Crash \/ BuilderStep \/ DirectoriesStep

\* The thread runs, kohiko-session starts kohiko again and the loop serves the
\* watch; nobody has to type, close the box, quit or crash.
ThreadRuns == builder \notin {"none", "done"}

Fairness ==
    /\ []<>~ThreadRuns \/ []<><<BuilderStep>>_launcherVars  \* WF_launcherVars(BuilderStep)
    /\ WF_launcherVars(Start) /\ WF_launcherVars(WatchStarts)
    /\ WF_launcherVars(HandleAppDirChanged) /\ WF_launcherVars(ReloadDesktopEntries)

LauncherSpec == LauncherInit /\ [][LauncherNext]_launcherVars /\ Fairness

(* ------------------------------ properties ------------------------------- *)

\* What the index holds and what the box selects of it are there.
ListIsTrue == LauncherTypeOK /\ FreshIsTrue /\ ListIsWhole

\* The application list "refreshes itself the moment a .desktop file is
\* installed, edited, or removed" (README.md): once the directories rest and
\* kohiko stays up, the list is theirs, unless the last change is one of those
\* missed names: edited in place, below an application directory, or where no
\* watch was.  A change during a build is not one of them.
IndexCatchesUp == <>[](loop # "down") => <>[](index \in Lists[disk] \/ missed # "no")
==============================================================================
