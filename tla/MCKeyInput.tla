----------------------------- MODULE MCKeyInput -----------------------------
(* An instance of KeyInput for TLC.                                         *)
EXTENDS KeyInput, TLC

CONSTANTS Shift, Control

TheOrder == <<Shift, Control>>

(* Windows are interchangeable, and so are characters.                      *)
Symmetry == Permutations(Windows) \cup Permutations(Texts)
=============================================================================
