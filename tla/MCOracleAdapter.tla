--------------------------- MODULE MCOracleAdapter ---------------------------
(***************************************************************************)
(* Values of the constants of OracleAdapter for the run.                   *)
(***************************************************************************)
EXTENDS OracleAdapter

CONSTANTS alice, bob, gold, land, farm
=============================================================================
