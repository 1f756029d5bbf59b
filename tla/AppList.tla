------------------------------- MODULE AppList --------------------------------
(***************************************************************************)
(* How AppIndex::Build makes the launcher's list out of the .desktop files *)
(* of the application directories: those that want to be shown, one for    *)
(* each desktop id, one for each application that goes by several ids.     *)
(***************************************************************************)
EXTENDS Naturals, Sequences, SequencesExt, FiniteSets

CONSTANTS
    App,        \* .desktop files that may come and go
    About       \* what each says: its directory's place, id, class, ...

\* An empty text is a field that is not there, or names a mere wrapper (sh,
\* flatpak, ...), which identifies nothing.
DesktopEntry ==
    [dir : Nat, id : STRING, length : Nat, class : STRING, exec : STRING,
     name : STRING, icon : BOOLEAN]

ASSUME AboutAssumption == IsFiniteSet(App) /\ About \in [App -> DesktopEntry]

\* A directory's contents: which files are there, and which say NoDisplay.
Disks == [App -> {"absent", "hidden", "shown"}]

\* ParseAllDesktopEntries: a directory after the other, each in any order.
Orders(disk) ==
    {order \in SetToSeqs({a \in App : disk[a] = "shown"}) :
        \A i, j \in DOMAIN order : i < j => About[order[i]].dir <= About[order[j]].dir}

\* An entry comes last, or in the place of one with its id if its directory
\* comes first.
KeptById(kept, a) ==
    LET same == {i \in DOMAIN kept : About[kept[i]].id = About[a].id}
    IN IF same = {} THEN Append(kept, a)
       ELSE [i \in DOMAIN kept |->
               IF i \in same /\ About[a].dir < About[kept[i]].dir THEN a ELSE kept[i]]

DeduplicateByDesktopId(entries) ==
    LET kept[n \in 0..Len(entries)] ==
            IF n = 0 THEN <<>> ELSE KeptById(kept[n - 1], entries[n])
    IN kept[Len(entries)]

\* The user's directory first, then the one that says more about itself.
IsBetterCandidate(a, b) ==
    LET x == About[a]
        y == About[b]
    IN IF x.dir # y.dir THEN x.dir < y.dir
       ELSE IF x.icon # y.icon THEN x.icon
       ELSE IF (x.class = "") # (y.class = "") THEN y.class = ""
       ELSE x.length < y.length

Fields(a) == {<<1, About[a].class>>, <<2, About[a].exec>>, <<3, About[a].name>>}

\* Mutant.  What is not there is compared like the rest.
Keys_Empty(a) == Fields(a)

\* What tells an application's entries, in the order it is asked for.
Keys(a) == {key \in Fields(a) : key[2] # ""}

\* The first of its keys that is known says whose double an entry is; the keys
\* stay those of the one that came first.
Accepted(acc, a) ==
    LET known == Keys(a) \cap DOMAIN acc.at
        first == CHOOSE key \in known : \A other \in known : key[1] <= other[1]
        place == acc.at[first]
    IN IF known = {}
       THEN [apps |-> Append(acc.apps, a),
             at |-> [key \in DOMAIN acc.at \cup Keys(a) |->
                       IF key \in DOMAIN acc.at THEN acc.at[key] ELSE Len(acc.apps) + 1]]
       ELSE [acc EXCEPT !.apps[place] = IF IsBetterCandidate(a, @) THEN a ELSE @]

DeduplicateAcrossIds(entries) ==
    LET accepted[n \in 0..Len(entries)] ==
            IF n = 0 THEN [apps |-> <<>>, at |-> <<>>]
            ELSE Accepted(accepted[n - 1], entries[n])
    IN accepted[Len(entries)].apps

Builds(disk) ==
    {ToSet(DeduplicateAcrossIds(DeduplicateByDesktopId(order))) : order \in Orders(disk)}

Lists == [disk \in Disks |-> Builds(disk)]

(* ------------------------------ properties ------------------------------- *)

Alike(a, b) ==
    \/ About[a].id = About[b].id
    \/ \E field \in {"class", "exec", "name"} :
          About[a][field] = About[b][field] /\ About[a][field] # ""

\* One entry per id, and no application vanishes: whatever is not listed
\* stands behind one it is alike to, directly or over others.
ListsWell ==
    [disk \in Disks |->
        LET shown == {a \in App : disk[a] = "shown"}
            Families == {family \in SUBSET shown :
                           \A a \in family, b \in shown : Alike(a, b) => b \in family}
        IN \A list \in Lists[disk] :
              /\ \A a, b \in list : a # b => About[a].id # About[b].id
              /\ \A family \in Families \ {{}} : family \cap list # {}]
==============================================================================
