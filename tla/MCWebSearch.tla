---------------------------- MODULE MCWebSearch ----------------------------
(***************************************************************************)
(* WebSearch for TLC: three searches, two ids and two workers, so that an  *)
(* id is used again and a search waits for a worker.                       *)
(***************************************************************************)
EXTENDS WebSearch
============================================================================
