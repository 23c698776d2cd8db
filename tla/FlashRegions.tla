----------------------------- MODULE FlashRegions -----------------------------
(***************************************************************************)
(* The flash driver (drivers/flash.rs): the layout that gives the spool    *)
(* and the bonds each a region of the chip, its validation, and the read,  *)
(* write and erase calls of a region's handle, one call of the ROM per     *)
(* step.  A ROM call may fail after any part of its work.                  *)
(*                                                                         *)
(* Addresses and lengths are u32: 0 .. Limit - 1, and a sum that does not  *)
(* fit is an error (checked_add).  What the words hold is the subject of   *)
(* FlashSpool; here only which bytes a call touches matters.               *)
(***************************************************************************)
EXTENDS Integers

CONSTANTS
    Limit,       \* 2^32
    WordBytes,   \* 4
    ChunkWords,  \* ROM_FLASH_WORD_CHUNK
    Layouts      \* the layouts the board may be configured with

Number == 0 .. Limit - 1
FlashRange == [offset : Number, size : Number]
Handle == {"ble_auth", "spool"}

\* protected is the set of ranges that are present in the array of options.
FlashRegionLayout ==
    [flash_size : Number, sector_size : Number, ble_auth : FlashRange,
     spool : FlashRange, protected : SUBSET FlashRange]

\* The sector size of the board is a multiple of the word (4096).
ASSUME RegionsAssumption ==
    /\ Limit \in Nat \ {0}
    /\ WordBytes \in Nat \ {0}
    /\ ChunkWords \in Nat \ {0}
    /\ Layouts \subseteq FlashRegionLayout

VARIABLES
    layout,   \* the configured layout, which never changes
    opened,   \* the handles that were created
    call      \* the call in progress, or the last one

vars == <<layout, opened, call>>

-----------------------------------------------------------------------------
(* Ranges and the validation of a layout.                                  *)

\* FlashRange::end is None when the end is not representable.
EndOf(range) == range.offset + range.size
HasEnd(range) == EndOf(range) < Limit

Bytes(range) == range.offset .. EndOf(range) - 1

\* A plausible bug: ranges that touch count as overlapping.
OverlapsOrTouches(range, other) ==
    \/ ~HasEnd(range) \/ ~HasEnd(other)
    \/ range.offset =< EndOf(other) /\ other.offset =< EndOf(range)

Overlaps(range, other) ==
    \/ ~HasEnd(range) \/ ~HasEnd(other)
    \/ range.offset < EndOf(other) /\ other.offset < EndOf(range)

IsAligned(value, alignment) == value % alignment = 0

DataRangeValid(range, l) ==
    /\ range.size # 0
    /\ IsAligned(range.offset, l.sector_size)
    /\ IsAligned(range.size, l.sector_size)
    /\ HasEnd(range) /\ EndOf(range) =< l.flash_size

ProtectedValid(range, l) ==
    /\ HasEnd(range) /\ EndOf(range) =< l.flash_size
    /\ ~Overlaps(l.ble_auth, range) /\ ~Overlaps(l.spool, range)

Valid(l) ==
    /\ l.flash_size # 0 /\ l.sector_size # 0
    /\ DataRangeValid(l.ble_auth, l)
    /\ DataRangeValid(l.spool, l)
    /\ ~Overlaps(l.ble_auth, l.spool)
    /\ \A range \in l.protected : ProtectedValid(range, l)

-----------------------------------------------------------------------------
(* Calls of a handle.                                                      *)

RegionOf(handle) == IF handle = "spool" THEN layout.spool ELSE layout.ble_auth

\* Absolute address and length of what is left to do; touched is history.
FlashCall ==
    [by : Handle, op : {"none", "read", "write", "erase"}, offset : Number,
     len : Number, at : Nat, left : Nat, status : {"running", "ok", "failed"},
     touched : SUBSET Nat]

\* No call was made yet.
NoCall ==
    [by |-> "spool", op |-> "none", offset |-> 0, len |-> 0,
     at |-> 0, left |-> 0, status |-> "ok", touched |-> {}]

\* A plausible bug: the start of the call is checked, not its end.
StartInSubrange(range, offset, len) ==
    /\ offset < range.size
    /\ range.offset + offset < Limit

\* check_flash_subrange: the call lies in the region, and the absolute
\* address is representable.
InSubrange(range, offset, len) ==
    /\ offset + len < Limit /\ offset + len =< range.size
    /\ range.offset + offset < Limit

AcceptsTransfer(range, offset, len) ==
    /\ IsAligned(offset, WordBytes) /\ IsAligned(len, WordBytes)
    /\ InSubrange(range, offset, len)

AcceptsErase(range, offset, len) ==
    /\ len # 0
    /\ IsAligned(offset, layout.sector_size) /\ IsAligned(len, layout.sector_size)
    /\ InSubrange(range, offset, len)

Accepts(op, range, offset, len) ==
    IF op = "erase" THEN AcceptsErase(range, offset, len)
                    ELSE AcceptsTransfer(range, offset, len)

\* RomSpoolFlash::new, RomBleAuthFlash::new
Open(handle) ==
    /\ handle \notin opened
    /\ Valid(layout)
    /\ opened' = opened \union {handle}
    /\ UNCHANGED <<layout, call>>

\* A call that is not accepted returns an error and touches nothing.
Call(handle, op, offset, len) ==
    /\ handle \in opened
    /\ call.status # "running"
    /\ Accepts(op, RegionOf(handle), offset, len)
    /\ call' = [by |-> handle, op |-> op, offset |-> offset, len |-> len,
                at |-> RegionOf(handle).offset + offset, left |-> len,
                status |-> IF len = 0 THEN "ok" ELSE "running", touched |-> {}]
    /\ UNCHANGED <<layout, opened>>

\* The next ROM call works on one sector, or on at most a chunk of words.
ChunkLen ==
    IF call.left < ChunkWords * WordBytes THEN call.left ELSE ChunkWords * WordBytes

StepLen == IF call.op = "erase" THEN layout.sector_size ELSE ChunkLen

ChunkBytes == call.at .. call.at + ChunkLen - 1

\* The ROM takes the number of the sector.
SectorBytes ==
    LET sector == call.at \div layout.sector_size
    IN  sector * layout.sector_size .. (sector + 1) * layout.sector_size - 1

\* A plausible bug: the last chunk is written at full length.
WholeStepBytes ==
    IF call.op = "erase" THEN SectorBytes
    ELSE call.at .. call.at + ChunkWords * WordBytes - 1

StepBytes == IF call.op = "erase" THEN SectorBytes ELSE ChunkBytes

\* One turn of the loop; the call returns after the last one.
RomCall ==
    /\ call.status = "running"
    /\ call' = [call EXCEPT !.touched = @ \union StepBytes,
                            !.at = @ + StepLen,
                            !.left = @ - StepLen,
                            !.status = IF call.left = StepLen THEN "ok" ELSE @]
    /\ UNCHANGED <<layout, opened>>

\* The ROM reports an error, which ends the call.
RomCallFails ==
    /\ call.status = "running"
    /\ \E some \in SUBSET StepBytes :
         call' = [call EXCEPT !.touched = @ \union some, !.status = "failed"]
    /\ UNCHANGED <<layout, opened>>

Init ==
    /\ layout \in Layouts
    /\ opened = {}
    /\ call = NoCall

Next ==
    \/ \E handle \in Handle : Open(handle)
    \/ \E handle \in Handle, op \in {"read", "write", "erase"}, offset, len \in Number :
         Call(handle, op, offset, len)
    \/ RomCall \/ RomCallFails

Spec == Init /\ [][Next]_vars

-----------------------------------------------------------------------------
(* Properties.                                                             *)

TypeOK ==
    /\ layout \in Layouts
    /\ opened \subseteq Handle
    /\ call \in FlashCall

\* Whatever layout is configured and however a call ends, a handle touches only
\* bytes of its own region: not the other region, whose data a wrong
\* erase would destroy, and no protected range (bootloader, application).
OwnRegionOnly ==
    /\ call.touched \subseteq Bytes(RegionOf(call.by))
    /\ \A handle \in Handle \ {call.by} :
         call.touched \intersect Bytes(RegionOf(handle)) = {}
    /\ \A range \in layout.protected : call.touched \intersect Bytes(range) = {}

\* A call that reports success has worked on exactly the bytes it was asked
\* for: no chunk or sector is left out, repeated past the end, or misplaced.
CallExact ==
    call.status = "ok" =>
        LET first == RegionOf(call.by).offset + call.offset
        IN  call.touched = first .. first + call.len - 1

\* What "valid" is meant to be, by the bytes themselves.
RegionsApart(l) ==
    /\ l.flash_size > 0 /\ l.sector_size > 0
    /\ \A range \in {l.ble_auth, l.spool} :
         /\ Bytes(range) # {} /\ Bytes(range) \subseteq 0 .. l.flash_size - 1
         /\ \E first, count \in 0 .. l.flash_size :
              range = [offset |-> first * l.sector_size, size |-> count * l.sector_size]
    /\ Bytes(l.ble_auth) \intersect Bytes(l.spool) = {}
    /\ \A range \in l.protected :
         /\ Bytes(range) \subseteq 0 .. l.flash_size - 1
         /\ Bytes(range) \intersect (Bytes(l.ble_auth) \union Bytes(l.spool)) = {}

NoEmptyProtected(l) == \A range \in l.protected : range.size # 0

\* The validation accepts no layout whose regions are not whole sectors of the
\* chip, apart from each other and from the protected ranges, and refuses
\* no such layout (but for an empty protected range within a region).
ValidationExact ==
    /\ Valid(layout) => RegionsApart(layout)
    /\ RegionsApart(layout) /\ NoEmptyProtected(layout) => Valid(layout)
===============================================================================
