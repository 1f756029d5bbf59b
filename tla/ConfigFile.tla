----------------------------- MODULE ConfigFile -----------------------------
(***************************************************************************)
(* kohiko.conf as the code sees it: lines of text, read by Config (every    *)
(* reader of the file, Kohiko first) and edited in place by ConfigWriter    *)
(* (Kohiko Settings and the migration).  A line is a setting, a comment or  *)
(* the marker of a section; a setting may be written with blanks around     *)
(* its '=', which Config trims and GetRawBlock does not.                    *)
(***************************************************************************)
EXTENDS Sequences, Positions

CONSTANTS
  Schema,    \* the keys of ConfigSchema, in its order
  Default    \* the value ConfigSchema gives each of them

Line(key, val) == [key |-> key, val |-> val, form |-> "plain"]
Spaced(key, val) == [key |-> key, val |-> val, form |-> "spaced"]
Comment(key, val) == [key |-> key, val |-> val, form |-> "comment"]

\* The two section headings new keys are appended under.
SettingsMarker == Comment("Kohiko Settings", <<>>)
MigrationMarker == Comment("Kohiko migration", <<>>)

\* The places of the lines Config reads as key.
Active(lines, key) ==
  {i \in DOMAIN lines : lines[i].key = key /\ lines[i].form # "comment"}

Contains(lines, key) == Active(lines, key) # {}

LastActive(lines, key) ==
  CHOOSE i \in Active(lines, key) : \A j \in Active(lines, key) : j <= i

\* Config::GetString and ConfigWriter::GetScalar: the last one wins.
GetString(lines, key, fallback) ==
  IF Contains(lines, key) THEN lines[LastActive(lines, key)].val ELSE fallback

\* The values of the lines at these places, in file order.
Values(lines, places) == [n \in 1..Cardinality(places) |-> lines[Nth(places, n)].val]

\* Config::GetAll: every line of a repeatable directive.
GetAll(lines, key) == Values(lines, Active(lines, key))

\* New entries go to the end of the file, under the marker if it is new.
Added(lines, marker, new) ==
  (IF \E i \in DOMAIN lines : lines[i] = marker THEN lines ELSE Append(lines, marker)) \o new

SetScalar_First(lines, key, val, marker) ==
  IF Contains(lines, key)
    THEN [lines EXCEPT ![CHOOSE i \in Active(lines, key) : \A j \in Active(lines, key) : i <= j] =
                           Line(key, val)]
    ELSE Added(lines, marker, <<Line(key, val)>>)

\* The last active line is rewritten; shadowed ones are left alone.
SetScalar(lines, key, val, marker) ==
  IF Contains(lines, key)
    THEN [lines EXCEPT ![LastActive(lines, key)] = Line(key, val)]
    ELSE Added(lines, marker, <<Line(key, val)>>)

\* The lines of a block: those that start with its prefix, the '=' included.
InBlock(lines, prefix) == {i \in DOMAIN lines : lines[i].key = prefix /\ lines[i].form = "plain"}

GetRawBlock(lines, prefix) == Values(lines, InBlock(lines, prefix))

BlockLines(prefix, vals) == [i \in DOMAIN vals |-> Line(prefix, vals[i])]

ReplaceRawBlock_Greedy(lines, prefix, vals) ==
  Remaining(lines, {i \in DOMAIN lines : lines[i].key # prefix}) \o BlockLines(prefix, vals)

\* The block's old lines go, the new ones take the place of the first.
ReplaceRawBlock(lines, prefix, vals) ==
  LET old == InBlock(lines, prefix)
      first == CHOOSE i \in old : \A j \in old : i <= j
  IN  IF old = {} THEN Added(lines, SettingsMarker, BlockLines(prefix, vals))
      ELSE SubSeq(lines, 1, first - 1) \o BlockLines(prefix, vals)
             \o Remaining(lines, (first..Len(lines)) \ old)

\* ConfigMigration::MigrateIfNeeded: every schema key the file lacks, one
\* after the other.
Missing(lines) == {key \in {Schema[i] : i \in DOMAIN Schema} : ~Contains(lines, key)}

Migrated(lines) ==
  LET after[n \in 0..Len(Schema)] ==
        IF n = 0 THEN lines
        ELSE IF Contains(after[n - 1], Schema[n]) THEN after[n - 1]
        ELSE SetScalar(after[n - 1], Schema[n], Default[Schema[n]], MigrationMarker)
  IN  after[Len(Schema)]

=============================================================================
