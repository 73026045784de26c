----------------------------- MODULE MCBookCache -----------------------------
(* A small instance of BookCache for TLC. *)
EXTENDS BookCache, TLC
=============================================================================
