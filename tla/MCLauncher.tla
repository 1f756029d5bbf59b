------------------------------ MODULE MCLauncher ------------------------------
EXTENDS Launcher, FiniteSets

CONSTANTS Own, Maps, Stale

MCApp == {Own, Maps, Stale}

\* The user's own file of an id, the system's, and an older one of another id.
MCAbout ==
    (Own :> [dir |-> 0, id |-> "maps", length |-> 4, class |-> "", exec |-> "",
             name |-> "My Maps", icon |-> FALSE]) @@
    (Maps :> [dir |-> 1, id |-> "maps", length |-> 4, class |-> "Maps", exec |-> "maps",
              name |-> "Maps", icon |-> TRUE]) @@
    (Stale :> [dir |-> 1, id |-> "maps-old", length |-> 8, class |-> "", exec |-> "oldmaps",
               name |-> "Maps", icon |-> TRUE])

\* maps/old.desktop.
MCNested == {Stale}

MCQuery == {"", "t"}
MCAnswers == [text \in MCQuery |-> IF text = "" THEN App ELSE {Own}]
==============================================================================
