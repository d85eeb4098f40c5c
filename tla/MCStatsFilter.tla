---------------------------- MODULE MCStatsFilter ----------------------------
(***************************************************************************)
(* Two streams, a prefix besides the default, and flags that are the       *)
(* whole, a part, or nothing of what the filter asks for.                  *)
(***************************************************************************)
EXTENDS StatsFilter, TLC

CONSTANTS s1, s2

MCStreams == {s1, s2}
MCPrefixes == {"a"}
MCFlagSets == {{"UAEX"}, {"RL"}, {"UAEX", "RL"}, {"?"}}

(* streams are alike *)
Symmetry == Permutations(MCStreams)
=============================================================================
