---------------------------- MODULE MCServerStores ----------------------------
(***************************************************************************)
(* Values of the constants of ServerStores for TLC: SQLite keeps every     *)
(* record as it was first accepted, JSONL follows the latest version.      *)
(***************************************************************************)
EXTENDS ServerStores, TLC

CONSTANTS JsonlRoom

MCStrategy == "sqlite" :> "reject" @@ "jsonl" :> "keep_last"
MCConflict == "sqlite" :> "error" @@ "jsonl" :> "latest"
MCBackfillFrom == "sqlite" :> "jsonl" @@ "jsonl" :> "all"
MCExclude == [s \in Stores |-> {}]
MCRoom == "sqlite" :> 0 @@ "jsonl" :> JsonlRoom
================================================================================
