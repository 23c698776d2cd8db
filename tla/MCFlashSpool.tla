---------------------------- MODULE MCFlashSpool ----------------------------
(***************************************************************************)
(* Values of the constants of FlashSpool for TLC: two payloads, a short    *)
(* one and a long one, whose sizes each configuration names.               *)
(***************************************************************************)
EXTENDS FlashSpool

CONSTANTS short, long, ShortWords, LongWords

MCPayloadWords == [p \in Payloads |-> IF p = short THEN ShortWords ELSE LongWords]
=============================================================================
