---------------------------- MODULE MCChatGuards ----------------------------
(***************************************************************************)
(* Small instances of ChatGuards for TLC: clients and slots are            *)
(* interchangeable (no symmetry is used: the runs check liveness).         *)
(***************************************************************************)
EXTENDS ChatGuards, TLC

CONSTANTS c1, c2, r1, r2
=============================================================================
