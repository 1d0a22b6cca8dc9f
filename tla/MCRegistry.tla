------------------------------ MODULE MCRegistry ------------------------------
(***************************************************************************)
(* Values of the constants of Registry for the run.                        *)
(***************************************************************************)
EXTENDS Registry

CONSTANTS alice, bob
=============================================================================
