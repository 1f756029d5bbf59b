-------------------------- MODULE MCSettingsWindow --------------------------
(* Two files: an old one, with a key the schema knows and it lacks, a key   *)
(* set twice, a setting and a binding commented out, a binding with blanks    *)
(* around its "="; and a full one with a monitor rule and an empty binding. *)
EXTENDS SettingsWindow

MCSchema == <<"flag", "count">>
MCDefault == [k \in {"flag", "count"} |-> IF k = "flag" THEN <<"true">> ELSE <<"1">>]

OldFile == <<Line("count", <<"1">>), Comment("flag", <<"false">>), Comment("bind", <<"1">>), Spaced("bind", <<"1">>),
             Line("bind", <<"1">>), Line("windowrule", <<"workspace", "1", "1">>), Line("count", <<"1">>)>>
FullFile == <<Line("flag", <<"true">>), Line("count", <<"1">>), Line("ws1", <<"">>), Line("ws1", <<"1">>),
              Line("monitor", <<"workspace", "1", "1">>), Line("bind", <<"">>)>>
MCFiles == {OldFile, FullFile}
=============================================================================
