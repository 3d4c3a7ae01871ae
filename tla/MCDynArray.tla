----------------------------- MODULE MCDynArray -----------------------------
(***************************************************************************)
(* Two elements and lengths up to five: the array is resized twice.        *)
(***************************************************************************)
EXTENDS DynArray
=============================================================================
