---------------------------- MODULE MCPageFrames ----------------------------
(* An instance of PageFrames for TLC: an iframe in an iframe, and another   *)
(* beside the outer one.                                                    *)
EXTENDS PageFrames, TLC

CONSTANTS outer, inner, other

TheFrames == {outer, inner, other}
TheParents == (outer :> Main) @@ (inner :> outer) @@ (other :> Main)
=============================================================================
