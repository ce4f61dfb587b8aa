----------------------------- MODULE MCController -----------------------------
(***************************************************************************)
(* The instance of Controller for TLC, with liveness and so without        *)
(* symmetry, although the connections are interchangeable.                 *)
(***************************************************************************)
EXTENDS Controller
===============================================================================
