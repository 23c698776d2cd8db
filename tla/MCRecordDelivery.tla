-------------------------- MODULE MCRecordDelivery --------------------------
(***************************************************************************)
(* Values of the constants of RecordDelivery for TLC, as for               *)
(* MCStorageService.                                                       *)
(***************************************************************************)
EXTENDS RecordDelivery

MCPayloads == 1 .. MaxMeasurements
MCPayloadWords == [p \in Payloads |-> 1]
=============================================================================
