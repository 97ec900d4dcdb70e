--------------------------- MODULE MCPnrRingUni ----------------------------
(* The ring on small instances: every capacity and every range of indices  *)
(* a configuration names.                                                  *)
EXTENDS PnrRingUni
=============================================================================
