----------------------------- MODULE MCHttpPool -----------------------------
(* An instance of HttpPool for TLC.                                         *)
EXTENDS HttpPool, TLC
=============================================================================
