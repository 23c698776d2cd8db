--------------------------- MODULE MCBleAuthorization --------------------------
(***************************************************************************)
(* Values of the constants of BleAuthorization for TLC: three centrals and *)
(* room for two, so that a third bond replaces one.                        *)
(***************************************************************************)
EXTENDS BleAuthorization
================================================================================
