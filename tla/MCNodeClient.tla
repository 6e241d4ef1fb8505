---------------------------- MODULE MCNodeClient ----------------------------
(* One thread in run, one in check_health, and one node more than a run    *)
(* may spend: NodeClient.cfg gives the constants.                          *)
EXTENDS NodeClient
=============================================================================
