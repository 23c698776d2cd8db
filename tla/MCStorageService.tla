-------------------------- MODULE MCStorageService --------------------------
(***************************************************************************)
(* Values of the constants of StorageService for TLC: every measurement    *)
(* encodes to the same size and the region holds any queue.                *)
(***************************************************************************)
EXTENDS StorageService

MCPayloads == 1 .. MaxMeasurements
MCPayloadWords == [p \in Payloads |-> 1]
=============================================================================
