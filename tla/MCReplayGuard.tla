---------------------------- MODULE MCReplayGuard ----------------------------
(***************************************************************************)
(* ReplayGuard on five ids and a memory of three: one id can leave the     *)
(* window and come back while others stay in it.                           *)
(***************************************************************************)
EXTENDS ReplayGuard

MCIds == 1..5
MCCapacity == 3
=============================================================================
