---------------------------- MODULE MCTokenCache ----------------------------
(***************************************************************************)
(* TokenCache for TLC.                                                     *)
(***************************************************************************)
EXTENDS TokenCache
=============================================================================
