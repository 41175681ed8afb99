------------------------------ MODULE MCPageLoads ------------------------------
(* Instances of PageLoads for TLC.                                           *)
EXTENDS PageLoads
===============================================================================
