------------------------------- MODULE AppIndex -------------------------------
(***************************************************************************)
(* The launcher's list of applications: what the application directories   *)
(* hold, the cache file with the directories' stamps, the thread that      *)
(* rebuilds the list, and the inotify watch that says when to.  The thread *)
(* reads the directories and all below them, then the stamps of the        *)
(* directories alone, then writes the cache; the watch is on the           *)
(* directories alone too, and on those only that were there when it began. *)
(* They belong to package managers and editors and change whenever those   *)
(* like.                                                                   *)
(***************************************************************************)
EXTENDS AppList

CONSTANTS
    Nested,         \* the files in a directory below an application directory
    MaxChanges      \* a bound on how often the directories change

ASSUME IndexAssumption == MaxChanges \in Nat /\ Nested \subseteq App

VARIABLES
    disk,       \* what the directories hold
    mtime,      \* their modification time
    changes,    \* how often they have changed (a bound)
    missed,     \* why the last change may go unseen, if it may (history)
    cache,      \* app_index.cache
    builder,    \* where m_buildThread is
    found,      \* what it has read
    stamp,      \* the stamps it goes by
    index,      \* m_index
    watched,    \* m_watchDescriptors: the directories inotify watches
    noticed     \* its descriptor is readable

directories == <<disk, mtime, changes, missed>>
build == <<builder, found, stamp, index>>
watch == <<watched, noticed>>
indexVars == <<directories, cache, build, watch>>

\* Xdg::ApplicationDirs, as far as they ever hold anything, and those that do.
Dirs == {About[a].dir : a \in App}
There == {About[a].dir : a \in {b \in App : disk[b] # "absent"}}

\* A cache file that is not there, or that its writer has only begun.
NoCache == [stamp |-> 0, apps |-> {}, whole |-> FALSE]

IndexTypeOK ==
    /\ disk \in Disks /\ found \subseteq App /\ index \subseteq App
    /\ changes \in 0..MaxChanges /\ mtime \in 1..(changes + 1)
    /\ missed \in {"no", "unstamped", "unwatched", "in place", "nested"}
    /\ stamp \in 0..mtime
    /\ cache \in [stamp : 0..mtime, apps : SUBSET App, whole : BOOLEAN]
    /\ builder \in {"none", "looking", "scanning", "scanned", "saving", "publishing", "done"}
    /\ watched \subseteq Dirs /\ noticed \in BOOLEAN

IndexInit ==
    /\ disk = [a \in App |-> "shown"] /\ mtime = 1 /\ changes = 0 /\ missed = "no"
    /\ cache = NoCache
    /\ builder = "none" /\ found = {} /\ stamp = 0 /\ index = {}
    /\ watched = {} /\ noticed = FALSE

(* --------------------------- the directories ----------------------------- *)

\* inotify tells of a file in a watched directory, not of one below it.
Watched(a) == a \notin Nested /\ About[a].dir \in watched

\* With its last file a directory may go, and its watch with it.
WatchKept(dir) ==
    /\ watched' \in {watched, watched \ {dir}}
    /\ watched' # watched => \A a \in App : About[a].dir = dir => disk'[a] = "absent"

\* A file is installed, replaced or removed.  Below an application directory
\* this is neither stamped nor watched; in it, it may go unseen between the
\* thread's reading and its stamps, or where nothing watches.
DirectoryChanges(a) ==
    /\ changes < MaxChanges /\ changes' = changes + 1
    /\ \E is \in {"absent", "hidden", "shown"} \ {disk[a]} : disk' = [disk EXCEPT ![a] = is]
    /\ mtime' = IF a \in Nested THEN mtime ELSE mtime + 1
    /\ missed' = IF a \in Nested THEN "nested"
                 ELSE IF builder = "scanned" THEN "unstamped"
                 ELSE IF builder # "none" /\ ~Watched(a) THEN "unwatched" ELSE "no"
    /\ noticed' = (noticed \/ Watched(a))
    /\ WatchKept(About[a].dir)
    /\ UNCHANGED <<cache, build>>

\* A file is rewritten where it is: an event, but no new time on its directory.
FileEdited(a) ==
    /\ disk[a] # "absent"
    /\ changes < MaxChanges /\ changes' = changes + 1
    /\ \E is \in {"hidden", "shown"} \ {disk[a]} : disk' = [disk EXCEPT ![a] = is]
    /\ missed' = "in place"
    /\ noticed' = (noticed \/ Watched(a))
    /\ UNCHANGED <<mtime, cache, build, watched>>

(* ------------------------------ the thread ------------------------------- *)

\* Mutant.  A cache that can be read is good enough.
IsFresh_Unstamped == cache.whole

IsFresh == cache.whole /\ cache.stamp = mtime

\* LoadCache and IsFresh.
LooksAtCache ==
    /\ builder = "looking"
    /\ \/ /\ IsFresh
          /\ found' = cache.apps /\ builder' = "publishing"
       \/ /\ ~IsFresh
          /\ builder' = "scanning" /\ UNCHANGED found
    /\ UNCHANGED <<directories, cache, stamp, index, watch>>

\* AppIndex::Build: its reading of the directories.
Scans ==
    /\ builder = "scanning" /\ builder' = "scanned"
    /\ found' \in Builds(disk)
    /\ UNCHANGED <<directories, cache, stamp, index, watch>>

\* CurrentDirStamps; SaveCache truncates the file before it writes.
Stamps ==
    /\ builder = "scanned" /\ builder' = "saving"
    /\ stamp' = mtime
    /\ cache' \in {NoCache, cache}
    /\ UNCHANGED <<directories, found, index, watch>>

\* A file that could not be opened, or not be filled, stays as it was.
Saves ==
    /\ builder = "saving" /\ builder' = "publishing"
    /\ \/ UNCHANGED cache
       \/ /\ cache = NoCache
          /\ cache' = [stamp |-> stamp, apps |-> found, whole |-> TRUE]
    /\ UNCHANGED <<directories, found, stamp, index, watch>>

Publishes ==
    /\ builder = "publishing" /\ builder' = "done"
    /\ index' = found
    /\ UNCHANGED <<directories, cache, found, stamp, watch>>

BuilderNext == LooksAtCache \/ Scans \/ Stamps \/ Saves \/ Publishes

DirectoriesNext == \E a \in App : DirectoryChanges(a) \/ FileEdited(a)

(* ------------------------------ properties ------------------------------- *)

\* "IsFresh(): Build() would produce the same result, so there's no need to
\* re-scan" (AppIndex.h): a cache that passes for fresh holds the list of
\* what the directories hold, over crashes of its writer and restarts, unless a file
\* was edited in place, lies below an application directory, or changed
\* between the reading and its stamps.
FreshIsTrue ==
    IsFresh => cache.apps \in Lists[disk] \/ missed \in {"unstamped", "in place", "nested"}

\* Each application once and none lost, whatever the directories hold.
ListIsWhole == ListsWell[disk]
==============================================================================
