---------------------------- MODULE MCFlashRegions ----------------------------
(***************************************************************************)
(* Values of the constants of FlashRegions for TLC: an address space of 16 *)
(* bytes with sectors of two words, so that ranges meet, overlap, are      *)
(* empty, misaligned, or end where no u32 does.                            *)
(***************************************************************************)
EXTENDS FlashRegions

Offsets == {0, 2, 4, 8, 12}
Sizes == {0, 2, 4, 8}

MCLayouts ==
    [flash_size : {0, 12, 15}, sector_size : {0, 4},
     ble_auth : [offset : Offsets, size : Sizes],
     spool : [offset : Offsets, size : Sizes],
     protected : {{}, {[offset |-> 0, size |-> 4]}, {[offset |-> 3, size |-> 2]},
                  {[offset |-> 10, size |-> 5]}, {[offset |-> 8, size |-> 8]},
                  {[offset |-> 5, size |-> 0], [offset |-> 11, size |-> 1]}}]
================================================================================
