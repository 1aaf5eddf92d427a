---------------------------- MODULE MCStatsProxy ----------------------------
(* The proxy with the reply sizes at either side of PARAM_MAX_NUM and an   *)
(* empty list.                                                             *)
EXTENDS StatsProxy

MCReplySizes == {0, PARAM_MAX_NUM, PARAM_MAX_NUM + 1}
=============================================================================
