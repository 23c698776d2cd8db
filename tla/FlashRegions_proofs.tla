-------------------------- MODULE FlashRegions_proofs --------------------------
(***************************************************************************)
(* Proofs that no call of the flash driver leaves its region, that a call  *)
(* that succeeds has worked on exactly its bytes, and that the validation  *)
(* accepts exactly the sound layouts, for every address width, word and    *)
(* chunk, and every layout that is configured. The layout may be anything: *)
(* what the calls need of it is what its validation establishes before a   *)
(* handle exists.                                                          *)
(***************************************************************************)
EXTENDS FlashRegions, TLAPS

-----------------------------------------------------------------------------
(* Arithmetic of aligned addresses.                                        *)

LEMMA AlignedSplit ==
    ASSUME NEW a \in Nat, NEW s \in Nat \ {0}, a % s = 0
    PROVE  a = s * (a \div s) /\ a \div s \in Int
OBVIOUS

LEMMA SectorSpan ==
    ASSUME NEW a \in Nat, NEW s \in Nat \ {0}, a % s = 0
    PROVE  (a \div s) * s = a /\ (a \div s + 1) * s = a + s
<1>. DEFINE q == a \div s
<1>1. a = s * q /\ q \in Int
  BY AlignedSplit
<1>. HIDE DEF q
<1>2. q * s = a /\ (q + 1) * s = a + s
  BY <1>1
<1>. QED BY <1>2 DEF q

LEMMA MultipleAligned ==
    ASSUME NEW k \in Int, NEW s \in Nat \ {0}
    PROVE  (s * k) % s = 0
<1>. DEFINE x == s * k
            q == x \div s
            r == x % s
<1>1. x \in Int
  OBVIOUS
<1>. HIDE DEF x
<1>2. x = s * q + r /\ q \in Int /\ r \in 0 .. s - 1
  BY <1>1
<1>. HIDE DEF q, r
<1>3. s * (k - q) = r
  BY <1>1, <1>2 DEF x
<1>4. k - q =< 0
  <2>. SUFFICES ASSUME k - q >= 1 PROVE FALSE
    BY <1>2
  <2>. QED BY <1>2, <1>3
<1>5. k - q >= 0
  <2>. SUFFICES ASSUME k - q =< -1 PROVE FALSE
    BY <1>2
  <2>. QED BY <1>2, <1>3
<1>6. r = 0
  BY <1>2, <1>3, <1>4, <1>5
<1>. QED BY <1>6 DEF r, x

LEMMA AlignedSum ==
    ASSUME NEW a \in Nat, NEW b \in Nat, NEW s \in Nat \ {0}, a % s = 0, b % s = 0
    PROVE  (a + b) % s = 0
<1>. DEFINE p == a \div s
            q == b \div s
<1>1. a = s * p /\ p \in Int
  BY AlignedSplit
<1>2. b = s * q /\ q \in Int
  BY AlignedSplit
<1>. HIDE DEF p, q
<1>3. a + b = s * (p + q) /\ p + q \in Int
  BY <1>1, <1>2
<1>. QED BY <1>3, MultipleAligned

LEMMA AlignedRest ==
    ASSUME NEW a \in Nat \ {0}, NEW s \in Nat \ {0}, a % s = 0
    PROVE  s =< a /\ (a - s) % s = 0
<1>. DEFINE p == a \div s
<1>1. a = s * p /\ p \in Int
  BY AlignedSplit
<1>. HIDE DEF p
<1>2. p >= 1
  BY <1>1
<1>3. s =< a
  BY <1>1, <1>2
<1>4. a - s = s * (p - 1) /\ p - 1 \in Int
  BY <1>1
<1>. QED BY <1>3, <1>4, MultipleAligned

LEMMA SelfAligned == ASSUME NEW s \in Nat \ {0} PROVE s % s = 0
OBVIOUS

-----------------------------------------------------------------------------
(* The inductive invariant.                                                *)

\* The rest of a call in progress lies in its region, and an erase is aligned.
RestInRegion ==
    /\ call.op # "none" /\ call.left > 0
    /\ RegionOf(call.by).offset =< call.at
    /\ call.at + call.left =< EndOf(RegionOf(call.by))
    /\ call.op = "erase" =>
         IsAligned(call.at, layout.sector_size) /\ IsAligned(call.left, layout.sector_size)

RegionInv ==
    /\ TypeOK
    /\ opened # {} \/ call.op # "none" => Valid(layout)
    /\ call.op = "none" => call.touched = {}
    /\ call.touched \subseteq Bytes(RegionOf(call.by))
    /\ call.status = "running" => RestInRegion

LEMMA LayoutFields ==
    ASSUME layout \in Layouts, NEW handle \in Handle
    PROVE  /\ layout.sector_size \in Nat /\ layout.flash_size \in Nat
           /\ RegionOf(handle) \in FlashRange
           /\ RegionOf(handle).offset \in Nat /\ RegionOf(handle).size \in Nat
           /\ layout.protected \subseteq FlashRange
<1>1. layout \in FlashRegionLayout
  BY RegionsAssumption, Zenon
<1>2. /\ layout.sector_size \in Number /\ layout.flash_size \in Number
      /\ layout.ble_auth \in FlashRange /\ layout.spool \in FlashRange
      /\ layout.protected \subseteq FlashRange
  BY <1>1, Zenon DEF FlashRegionLayout
<1>3. RegionOf(handle) \in FlashRange
  BY <1>2, Zenon DEF RegionOf
<1>4. \A n \in Number : n \in Nat
  BY RegionsAssumption DEF Number
<1>5. RegionOf(handle).offset \in Number /\ RegionOf(handle).size \in Number
  BY <1>3, Zenon DEF FlashRange
<1>. QED BY <1>2, <1>3, <1>4, <1>5, Zenon

\* A valid layout has its data regions aligned.
LEMMA ValidRegion ==
    ASSUME layout \in Layouts, Valid(layout), NEW handle \in Handle
    PROVE  /\ layout.sector_size \in Nat \ {0}
           /\ RegionOf(handle).offset % layout.sector_size = 0
<1>1. layout.sector_size # 0 /\ DataRangeValid(RegionOf(handle), layout)
  BY Zenon DEF Valid, RegionOf
<1>. QED BY <1>1, LayoutFields, Zenon DEF DataRangeValid, IsAligned

LEMMA ApartBytes ==
    ASSUME NEW r \in FlashRange, NEW o \in FlashRange, ~Overlaps(r, o)
    PROVE  Bytes(r) \intersect Bytes(o) = {}
<1>1. r.offset \in Int /\ r.size \in Int /\ o.offset \in Int /\ o.size \in Int
  BY RegionsAssumption DEF FlashRange, Number
<1>. QED BY <1>1 DEF Overlaps, Bytes, EndOf

\* The bytes of a turn of the loop, and what the next one starts from.
LEMMA TurnInRegion ==
    ASSUME TypeOK, Valid(layout), RestInRegion
    PROVE  /\ StepLen \in Nat /\ StepLen =< call.left
           /\ StepBytes = call.at .. call.at + StepLen - 1
           /\ call.op = "erase" =>
                /\ (call.at + StepLen) % layout.sector_size = 0
                /\ (call.left - StepLen) % layout.sector_size = 0
<1>1. /\ call.at \in Nat /\ call.left \in Nat \ {0}
      /\ call.by \in Handle
  BY DEF TypeOK, FlashCall, RestInRegion
<1>2. layout \in Layouts
  BY Zenon DEF TypeOK
<1>3. layout.sector_size \in Nat \ {0}
  BY <1>1, <1>2, ValidRegion, Zenon
<1>4. CASE call.op = "erase"
  <2>1. call.at % layout.sector_size = 0 /\ call.left % layout.sector_size = 0
    BY <1>4, Zenon DEF RestInRegion, IsAligned
  <2>2. StepLen = layout.sector_size
    BY <1>4, Zenon DEF StepLen
  <2>3. StepBytes = call.at .. call.at + layout.sector_size - 1
    <3>. DEFINE first == (call.at \div layout.sector_size) * layout.sector_size
                next == (call.at \div layout.sector_size + 1) * layout.sector_size
    <3>1. first = call.at /\ next = call.at + layout.sector_size
      BY <1>1, <1>3, <2>1, SectorSpan
    <3>2. StepBytes = first .. next - 1
      BY <1>4, Zenon DEF StepBytes, SectorBytes
    <3>. HIDE DEF first, next
    <3>. QED BY <1>1, <1>3, <3>1, <3>2
  <2>4. layout.sector_size =< call.left /\ (call.left - layout.sector_size) % layout.sector_size = 0
    BY <1>1, <1>3, <2>1, AlignedRest, Zenon
  <2>5. (call.at + layout.sector_size) % layout.sector_size = 0
    BY <1>1, <1>3, <2>1, SelfAligned, AlignedSum, Zenon
  <2>. QED BY <1>3, <2>2, <2>3, <2>4, <2>5
<1>5. CASE call.op # "erase"
  <2>1. StepLen = ChunkLen /\ StepBytes = call.at .. call.at + ChunkLen - 1
    BY <1>5, Zenon DEF StepLen, StepBytes, ChunkBytes
  <2>2. ChunkWords * WordBytes \in Nat
    BY RegionsAssumption
  <2>3. ChunkLen \in Nat /\ ChunkLen =< call.left
    BY <1>1, <2>2 DEF ChunkLen
  <2>. QED BY <1>5, <2>1, <2>3, Zenon
<1>. QED BY <1>4, <1>5, Zenon

LEMMA RegionInvInit == Init => RegionInv
<1>. SUFFICES ASSUME Init PROVE RegionInv
  OBVIOUS
<1>1. NoCall \in FlashCall
  BY RegionsAssumption DEF NoCall, FlashCall, Handle, Number
<1>2. TypeOK
  BY <1>1, Zenon DEF Init, TypeOK
<1>. QED BY <1>2 DEF Init, RegionInv, NoCall

LEMMA RegionInvStep == RegionInv /\ [Next]_vars => RegionInv'
<1>. SUFFICES ASSUME RegionInv, [Next]_vars PROVE RegionInv'
  OBVIOUS
<1>0. TypeOK /\ layout \in Layouts /\ call \in FlashCall
  BY Zenon DEF RegionInv, TypeOK
<1>1. ASSUME NEW handle \in Handle, Open(handle) PROVE RegionInv'
  <2>1. layout' = layout /\ call' = call /\ Valid(layout) /\ opened' \subseteq Handle
    BY <1>0, <1>1, Zenon DEF Open, TypeOK
  <2>2. TypeOK' /\ Valid(layout)'
    BY <1>0, <2>1, Zenon DEF TypeOK
  <2>. QED BY <2>1, <2>2, Zenon DEF RegionInv, RestInRegion, RegionOf
<1>2. ASSUME NEW handle \in Handle, NEW op \in {"read", "write", "erase"},
             NEW offset \in Number, NEW len \in Number, Call(handle, op, offset, len)
      PROVE  RegionInv'
  <2>. DEFINE region == RegionOf(handle)
              ss == layout.sector_size
  <2>1. layout' = layout /\ opened' = opened /\ Valid(layout) /\ Valid(layout)'
    BY <1>2, Zenon DEF Call, RegionInv
  <2>2. /\ region.offset \in Nat /\ region.size \in Nat /\ ss \in Nat
        /\ ss # 0 /\ region.offset % ss = 0
    BY <1>0, <2>1, LayoutFields, ValidRegion, Zenon
  <2>3. offset \in Nat /\ len \in Nat
    BY RegionsAssumption DEF Number
  <2>4. Accepts(op, region, offset, len)
    BY <1>2, Zenon DEF Call
  <2>5. offset + len =< region.size
    BY <2>4, Zenon DEF Accepts, AcceptsErase, AcceptsTransfer, InSubrange
  <2>6. op = "erase" => offset % ss = 0 /\ len % ss = 0
    BY <2>4, Zenon DEF Accepts, AcceptsErase, IsAligned
  <2>7. op = "erase" => (region.offset + offset) % ss = 0
    BY <2>2, <2>3, <2>6, AlignedSum
  <2>8. call' = [by |-> handle, op |-> op, offset |-> offset, len |-> len,
                 at |-> region.offset + offset, left |-> len,
                 status |-> IF len = 0 THEN "ok" ELSE "running", touched |-> {}]
    BY <1>2, Zenon DEF Call
  <2>9. /\ call'.by = handle /\ call'.op = op /\ call'.at = region.offset + offset
        /\ call'.left = len /\ call'.touched = {} /\ call'.offset = offset /\ call'.len = len
        /\ call'.status \in {"running", "ok"} /\ (call'.status = "running" => len # 0)
    BY <2>8
  <2>. HIDE DEF region, ss
  <2>10. call' \in FlashCall
    <3>1. region.offset + offset \in Nat
      BY <2>2, <2>3
    <3>2. (IF len = 0 THEN "ok" ELSE "running") \in {"running", "ok", "failed"}
      OBVIOUS
    <3>. QED BY <2>3, <2>8, <3>1, <3>2, Zenon DEF FlashCall
  <2>11. RegionOf(call.by)' = region /\ layout'.sector_size = ss
    BY <2>1, <2>9, Zenon DEF RegionOf, region, ss
  <2>12. call'.status = "running" => RestInRegion'
    <3>1. op # "none"
      OBVIOUS
    <3>2. len # 0 => len > 0
      BY <2>3
    <3>3. region.offset =< region.offset + offset
          /\ region.offset + offset + len =< EndOf(region)
      BY <2>2, <2>3, <2>5 DEF EndOf
    <3>4. EndOf(RegionOf(call.by))' = EndOf(region)
      BY <2>11, Zenon DEF EndOf
    <3>. QED BY <2>6, <2>7, <2>9, <2>11, <3>1, <3>2, <3>3, <3>4 DEF RestInRegion, IsAligned
  <2>. QED BY <1>0, <2>1, <2>9, <2>10, <2>12, Zenon DEF RegionInv, TypeOK
<1>3. ASSUME call.status = "running", layout' = layout, opened' = opened
      PROVE  /\ Valid(layout) /\ Valid(layout)' /\ RestInRegion
             /\ StepBytes \subseteq Bytes(RegionOf(call.by)) /\ StepBytes \subseteq Nat
             /\ call.at \in Nat /\ call.left \in Nat /\ StepLen \in Nat
             /\ StepLen =< call.left
             /\ call.touched \subseteq Bytes(RegionOf(call.by))
             /\ call.touched \subseteq Nat
             /\ RestInRegion
  <2>1. RestInRegion /\ Valid(layout) /\ Valid(layout)'
    BY <1>3, Zenon DEF RegionInv, RestInRegion
  <2>2. /\ StepLen \in Nat /\ StepLen =< call.left
        /\ StepBytes = call.at .. call.at + StepLen - 1
    BY <1>0, <2>1, TurnInRegion, Zenon
  <2>3. call.at \in Nat /\ call.left \in Nat /\ call.by \in Handle /\ call.touched \subseteq Nat
    BY <1>0 DEF FlashCall
  <2>4. /\ RegionOf(call.by).offset =< call.at
        /\ call.at + call.left =< EndOf(RegionOf(call.by))
    BY <2>1, Zenon DEF RestInRegion
  <2>5. RegionOf(call.by).offset \in Nat /\ EndOf(RegionOf(call.by)) \in Nat
    BY <1>0, <2>3, LayoutFields DEF EndOf
  <2>6. StepBytes \subseteq Bytes(RegionOf(call.by)) /\ StepBytes \subseteq Nat
    BY <2>2, <2>3, <2>4, <2>5 DEF Bytes
  <2>7. call.touched \subseteq Bytes(RegionOf(call.by))
    BY Zenon DEF RegionInv
  <2>. QED BY <2>1, <2>2, <2>3, <2>6, <2>7, Zenon
<1>4. CASE RomCall
  <2>1. layout' = layout /\ opened' = opened /\ call.status = "running"
    BY <1>4, Zenon DEF RomCall
  <2>2. /\ call'.by = call.by /\ call'.op = call.op
        /\ call'.touched = call.touched \union StepBytes
        /\ call'.at = call.at + StepLen /\ call'.left = call.left - StepLen
        /\ call'.status \in {"running", "ok"}
        /\ call'.status = "running" => call.left # StepLen
    BY <1>0, <1>4 DEF RomCall, FlashCall
  <2>3. RegionOf(call.by)' = RegionOf(call.by) /\ layout'.sector_size = layout.sector_size
    BY <2>1, <2>2, Zenon DEF RegionOf
  <2>4. call' \in FlashCall
    <3>1. call.left - StepLen \in Nat /\ call.at + StepLen \in Nat
      BY <1>3, <2>1
    <3>2. call.touched \union StepBytes \subseteq Nat
      BY <1>3, <2>1, Zenon
    <3>. QED BY <1>0, <1>4, <3>1, <3>2 DEF RomCall, FlashCall
  <2>5. call'.touched \subseteq Bytes(RegionOf(call.by))'
    BY <1>3, <2>1, <2>2, <2>3, Zenon DEF Bytes, EndOf
  <2>6. call'.status = "running" => RestInRegion'
    <3>. SUFFICES ASSUME call'.status = "running" PROVE RestInRegion'
      OBVIOUS
    <3>1. call.op # "none" /\ RestInRegion
      BY <1>3, <2>1, Zenon DEF RestInRegion
    <3>2. RegionOf(call.by).offset \in Nat /\ RegionOf(call.by).size \in Nat
      BY <1>0, LayoutFields DEF FlashCall
    <3>3. /\ call.left - StepLen > 0
          /\ RegionOf(call.by).offset =< call.at + StepLen
          /\ call.at + StepLen + (call.left - StepLen) =< EndOf(RegionOf(call.by))
      BY <1>3, <2>1, <2>2, <3>1, <3>2 DEF RestInRegion, EndOf
    <3>4. call.op = "erase" =>
            /\ (call.at + StepLen) % layout.sector_size = 0
            /\ (call.left - StepLen) % layout.sector_size = 0
      BY <1>0, <1>3, <2>1, <3>1, TurnInRegion, Zenon
    <3>. QED BY <2>2, <2>3, <3>1, <3>3, <3>4, Zenon DEF RestInRegion, IsAligned, EndOf
  <2>. QED BY <1>0, <1>3, <2>1, <2>2, <2>4, <2>5, <2>6, Zenon DEF RegionInv, TypeOK, RestInRegion
<1>5. CASE RomCallFails
  <2>1. layout' = layout /\ opened' = opened /\ call.status = "running"
    BY <1>5, Zenon DEF RomCallFails
  <2>2. PICK some \in SUBSET StepBytes :
          call' = [call EXCEPT !.touched = @ \union some, !.status = "failed"]
    BY <1>5, Zenon DEF RomCallFails
  <2>3. /\ call'.by = call.by /\ call'.op = call.op /\ call'.status = "failed"
        /\ call'.touched = call.touched \union some
    BY <1>0, <2>2 DEF FlashCall
  <2>4. call' \in FlashCall
    <3>1. call.touched \union some \subseteq Nat
      BY <1>3, <2>1, <2>2, Zenon
    <3>. QED BY <1>0, <2>2, <3>1 DEF FlashCall
  <2>5. call'.touched \subseteq Bytes(RegionOf(call.by))'
    BY <1>3, <2>1, <2>3, Zenon DEF Bytes, EndOf, RegionOf
  <2>. QED BY <1>0, <1>3, <2>1, <2>3, <2>4, <2>5 DEF RegionInv, TypeOK, RestInRegion
<1>6. CASE UNCHANGED vars
  BY <1>6, Zenon DEF vars, RegionInv, TypeOK, RestInRegion, RegionOf
<1>. QED BY <1>1, <1>2, <1>4, <1>5, <1>6, Zenon DEF Next

\* Whatever is configured and however the chip fails, every call keeps to the
\* region of its handle (check_flash_subrange, the loops of drivers/flash.rs).
THEOREM CallsKeepToRegion == Spec => []OwnRegionOnly
<1>1. RegionInv => OwnRegionOnly
  <2>. SUFFICES ASSUME RegionInv PROVE OwnRegionOnly
    OBVIOUS
  <2>0. TypeOK /\ layout \in Layouts /\ call.by \in Handle
    BY DEF RegionInv, TypeOK, FlashCall
  <2>1. call.touched \subseteq Bytes(RegionOf(call.by))
    BY Zenon DEF RegionInv
  <2>2. CASE call.op = "none"
    BY <2>2, Zenon DEF RegionInv, OwnRegionOnly
  <2>3. CASE call.op # "none"
    <3>1. Valid(layout)
      BY <2>3, Zenon DEF RegionInv
    <3>2. layout.ble_auth \in FlashRange /\ layout.spool \in FlashRange
      BY <2>0, LayoutFields DEF RegionOf, Handle
    <3>3. Bytes(layout.ble_auth) \intersect Bytes(layout.spool) = {}
      BY <3>1, <3>2, ApartBytes, Zenon DEF Valid
    <3>4. ASSUME NEW handle \in Handle \ {call.by}
          PROVE  call.touched \intersect Bytes(RegionOf(handle)) = {}
      BY <2>0, <2>1, <3>3 DEF RegionOf, Handle
    <3>5. ASSUME NEW range \in layout.protected
          PROVE  call.touched \intersect Bytes(range) = {}
      <4>1. range \in FlashRange
        BY <2>0, LayoutFields, Zenon
      <4>2. ~Overlaps(layout.ble_auth, range) /\ ~Overlaps(layout.spool, range)
        BY <3>1, Zenon DEF Valid, ProtectedValid
      <4>3. Bytes(RegionOf(call.by)) \intersect Bytes(range) = {}
        BY <3>2, <4>1, <4>2, ApartBytes, Zenon DEF RegionOf
      <4>. QED BY <2>1, <4>3, Zenon
    <3>. QED BY <2>1, <3>4, <3>5, Zenon DEF OwnRegionOnly
  <2>. QED BY <2>2, <2>3, Zenon
<1>. QED BY <1>1, RegionInvInit, RegionInvStep, PTL DEF Spec

-----------------------------------------------------------------------------
(* A call works on exactly its bytes.                                      *)

\* Where the call in progress, or the last one, began.
First == RegionOf(call.by).offset + call.offset

\* The bytes before at are done, and those from there on are left.
WorkInv ==
    call.status # "failed" =>
        /\ call.touched = First .. First + call.len - call.left - 1
        /\ call.op # "none" => call.at + call.left = First + call.len
        /\ call.status = "ok" => call.left = 0
        /\ call.left =< call.len

LEMMA WorkTyped ==
    ASSUME TypeOK
    PROVE  /\ First \in Nat /\ call.at \in Nat /\ call.left \in Nat /\ call.len \in Nat
           /\ call.by \in Handle
<1>1. call.by \in Handle /\ call.at \in Nat /\ call.left \in Nat
      /\ call.len \in Nat /\ call.offset \in Nat
  BY RegionsAssumption DEF TypeOK, FlashCall, Number
<1>2. RegionOf(call.by).offset \in Nat
  BY <1>1, LayoutFields DEF TypeOK
<1>. QED
  BY <1>1, <1>2 DEF First

LEMMA WorkInit == Init => WorkInv
<1>. SUFFICES ASSUME Init PROVE WorkInv
  OBVIOUS
<1>1. First \in Nat
  BY RegionInvInit, WorkTyped DEF RegionInv
<1>2. call.touched = {} /\ call.len = 0 /\ call.left = 0 /\ call.op = "none"
  BY DEF Init, NoCall
<1>3. First .. First - 1 = {}
  BY <1>1
<1>4. First + call.len - call.left - 1 = First - 1
  BY <1>1, <1>2
<1>. QED
  BY <1>2, <1>3, <1>4 DEF WorkInv

LEMMA JoinedIntervals ==
    ASSUME NEW a \in Int, NEW b \in Int, NEW c \in Int, a <= b, b <= c
    PROVE  (a .. b - 1) \union (b .. c - 1) = a .. c - 1
OBVIOUS

LEMMA WorkStep == RegionInv /\ WorkInv /\ [Next]_vars => WorkInv'
<1>. SUFFICES ASSUME RegionInv, WorkInv, [Next]_vars PROVE WorkInv'
  OBVIOUS
<1>0. TypeOK /\ TypeOK' /\ call \in FlashCall
  BY RegionInvStep DEF RegionInv, TypeOK
<1>1. CASE UNCHANGED <<layout, call>>
  BY <1>1 DEF WorkInv, First, RegionOf
<1>2. ASSUME NEW handle \in Handle, NEW op \in {"read", "write", "erase"},
             NEW offset \in Number, NEW len \in Number, Call(handle, op, offset, len)
      PROVE  WorkInv'
  <2>1. /\ layout' = layout /\ call'.by = handle /\ call'.offset = offset /\ call'.len = len
        /\ call'.at = RegionOf(handle).offset + offset /\ call'.left = len
        /\ call'.touched = {} /\ (call'.status = "ok" => len = 0)
    BY <1>2 DEF Call
  <2>4. RegionOf(handle).offset \in Nat /\ offset \in Nat /\ len \in Nat
    BY <1>0, LayoutFields, RegionsAssumption DEF TypeOK, Number
  <2>2. First' = RegionOf(handle).offset + offset /\ First' \in Nat /\ len \in Nat
    BY <2>1, <2>4 DEF First, RegionOf
  <2>3. First' + call'.len - call'.left - 1 = First' - 1 /\ First' .. First' - 1 = {}
    BY <2>1, <2>2
  <2>. QED
    BY <2>1, <2>2, <2>3 DEF WorkInv
<1>3. CASE RomCall
  <2>1. layout' = layout /\ call.status = "running" /\ RestInRegion /\ Valid(layout)
    BY <1>3 DEF RomCall, RegionInv, RestInRegion
  <2>2. /\ call'.by = call.by /\ call'.op = call.op
        /\ call'.offset = call.offset /\ call'.len = call.len
        /\ call'.touched = call.touched \union StepBytes
        /\ call'.at = call.at + StepLen /\ call'.left = call.left - StepLen
        /\ call'.status = "ok" => call.left = StepLen
    BY <1>0, <1>3 DEF RomCall, FlashCall
  <2>3. First' = First
    BY <2>1, <2>2 DEF First, RegionOf
  <2>4. StepLen \in Nat /\ StepLen =< call.left
    BY <1>0, <2>1, TurnInRegion
  <2>5. call.at + call.left = First + call.len
    BY <2>1 DEF WorkInv, RestInRegion
  <2>6. /\ First \in Nat /\ call.at \in Nat /\ call.left \in Nat /\ call.len \in Nat
    BY <1>0, WorkTyped
  <2>7. call.left =< call.len
    BY <2>1 DEF WorkInv
  <2>8. call.touched \union StepBytes = First .. call.at + StepLen - 1
    <3>1. PICK here \in Int, next \in Int : here = call.at /\ next = call.at + StepLen
      BY <2>4, <2>6
    <3>2. First \in Int /\ First <= here /\ here <= next
      BY <2>4, <2>5, <2>6, <2>7, <3>1
    <3>3. call.touched = First .. here - 1
      <4>1. call.touched = First .. First + call.len - call.left - 1
        BY <2>1 DEF WorkInv
      <4>2. First + call.len - call.left - 1 = call.at - 1
        BY <2>5, <2>6
      <4>3. call.touched = First .. call.at - 1
        BY <4>1, <4>2
      <4>. QED
        BY <3>1, <4>3
    <3>4. StepBytes = here .. next - 1
      <4>1. StepBytes = call.at .. call.at + StepLen - 1
        BY <1>0, <2>1, TurnInRegion
      <4>. QED
        BY <2>4, <2>6, <3>1, <4>1
    <3>5. call.touched \union StepBytes = First .. next - 1
      <4>1. (First .. here - 1) \union (here .. next - 1) = First .. next - 1
        BY <3>2, JoinedIntervals
      <4>. QED
        BY <3>3, <3>4, <4>1
    <3>. QED
      BY <2>4, <2>6, <3>1, <3>5
  <2>9. call.at + StepLen - 1 = First + call.len - (call.left - StepLen) - 1
    BY <2>4, <2>5, <2>6
  <2>10. call.left = StepLen => call.left - StepLen = 0
    BY <2>4
  <2>11. call.at + StepLen + (call.left - StepLen) = First + call.len
    BY <2>4, <2>5, <2>6
  <2>12. call.left - StepLen =< call.len
    BY <2>4, <2>6, <2>7
  <2>. QED
    BY <2>2, <2>3, <2>8, <2>9, <2>10, <2>11, <2>12 DEF WorkInv
<1>4. CASE RomCallFails
  <2>1. call'.status = "failed"
    BY <1>0, <1>4 DEF RomCallFails, FlashCall
  <2>. QED
    BY <2>1 DEF WorkInv
<1>. QED
  BY <1>1, <1>2, <1>3, <1>4 DEF Next, Open, vars

\* A call that reports success has worked on exactly the bytes it was asked
\* for, for every region, chunk and length (the loops of rom_flash_read_range,
\* rom_flash_write_range and rom_flash_erase_range).
THEOREM SuccessfulCallsExact == Spec => []CallExact
<1>1. RegionInv /\ WorkInv => CallExact
  <2>. SUFFICES ASSUME RegionInv, WorkInv, call.status = "ok" PROVE CallExact
    BY DEF CallExact
  <2>1. First \in Nat /\ call.len \in Nat
    BY WorkTyped DEF RegionInv
  <2>2. call.left = 0 /\ call.touched = First .. First + call.len - call.left - 1
    BY DEF WorkInv
  <2>3. First + call.len - call.left - 1 = First + call.len - 1
    BY <2>1, <2>2
  <2>. QED
    BY <2>2, <2>3 DEF CallExact, First
<1>2. Init => RegionInv /\ WorkInv
  BY RegionInvInit, WorkInit
<1>3. RegionInv /\ WorkInv /\ [Next]_vars => RegionInv' /\ WorkInv'
  BY RegionInvStep, WorkStep
<1>. QED
  BY <1>1, <1>2, <1>3, PTL DEF Spec

-----------------------------------------------------------------------------
(* The validation accepts exactly the layouts whose regions are apart.     *)

LEMMA RangeTyped ==
    ASSUME NEW range \in FlashRange
    PROVE  /\ range.offset \in Nat /\ range.size \in Nat
           /\ range = [offset |-> range.offset, size |-> range.size]
           /\ range.offset < Limit /\ range.size < Limit
BY RegionsAssumption DEF FlashRange, Number

LEMMA LayoutTyped ==
    ASSUME NEW l \in FlashRegionLayout
    PROVE  /\ l.flash_size \in Nat /\ l.flash_size < Limit /\ l.sector_size \in Nat
           /\ l.ble_auth \in FlashRange /\ l.spool \in FlashRange
           /\ l.protected \subseteq FlashRange
<1>1. l.flash_size \in Number /\ l.sector_size \in Number
      /\ l.ble_auth \in FlashRange /\ l.spool \in FlashRange /\ l.protected \subseteq FlashRange
  BY Zenon DEF FlashRegionLayout
<1>. QED
  BY <1>1, RegionsAssumption DEF Number

\* Ranges with bytes that end on the chip do not overlap when no byte is in both.
LEMMA OverlapShares ==
    ASSUME NEW r \in FlashRange, NEW o \in FlashRange, HasEnd(r), HasEnd(o),
           r.size # 0, o.size # 0, Bytes(r) \intersect Bytes(o) = {}
    PROVE  ~Overlaps(r, o)
<1>0. r.offset \in Nat /\ r.size \in Nat /\ o.offset \in Nat /\ o.size \in Nat
  BY RangeTyped
<1>. SUFFICES ASSUME r.offset < o.offset + o.size, o.offset < r.offset + r.size PROVE FALSE
  BY DEF Overlaps, EndOf
<1>1. CASE r.offset =< o.offset
  <2>1. o.offset \in r.offset .. (r.offset + r.size) - 1 /\ o.offset \in o.offset .. (o.offset + o.size) - 1
    BY <1>0, <1>1
  <2>2. o.offset \in Bytes(r) /\ o.offset \in Bytes(o)
    BY <2>1, Zenon DEF Bytes, EndOf
  <2>. QED
    BY <2>2, Zenon
<1>2. CASE o.offset =< r.offset
  <2>1. r.offset \in r.offset .. (r.offset + r.size) - 1 /\ r.offset \in o.offset .. (o.offset + o.size) - 1
    BY <1>0, <1>2
  <2>2. r.offset \in Bytes(r) /\ r.offset \in Bytes(o)
    BY <2>1, Zenon DEF Bytes, EndOf
  <2>. QED
    BY <2>2, Zenon
<1>. QED
  BY <1>0, <1>1, <1>2

\* A range with bytes, all on the chip, ends on the chip.
LEMMA InsideEnds ==
    ASSUME NEW r \in FlashRange, NEW size \in Nat, size < Limit, r.size # 0,
           Bytes(r) \subseteq 0 .. size - 1
    PROVE  HasEnd(r) /\ EndOf(r) =< size
<1>0. r.offset \in Nat /\ r.size \in Nat
  BY RangeTyped
<1>1. r.offset + r.size - 1 \in Bytes(r)
  BY <1>0 DEF Bytes, EndOf
<1>2. r.offset + r.size - 1 < size
  BY <1>1
<1>. QED
  BY <1>0, <1>2, RegionsAssumption DEF HasEnd, EndOf

\* Whole sectors of the chip.
LEMMA WholeSectors ==
    ASSUME NEW r \in FlashRange, NEW s \in Nat \ {0}, NEW size \in Nat,
           r.offset % s = 0, r.size % s = 0, EndOf(r) =< size
    PROVE  \E first, count \in 0 .. size : r = [offset |-> first * s, size |-> count * s]
<1>0. r.offset \in Nat /\ r.size \in Nat
  BY RangeTyped
<1>. DEFINE first == r.offset \div s
            count == r.size \div s
<1>1. /\ r.offset = s * first /\ first \in Int
      /\ r.size = s * count /\ count \in Int
  BY <1>0, AlignedSplit
<1>2. r.offset =< size /\ r.size =< size
  BY <1>0 DEF EndOf
<1>. HIDE DEF first, count
<1>3. \A k \in Int, n \in Nat : n = s * k => 0 =< k /\ k =< n /\ n = k * s
  <2>. SUFFICES ASSUME NEW k \in Int, NEW n \in Nat, n = s * k
                PROVE  0 =< k /\ k =< n /\ n = k * s
    OBVIOUS
  <2>1. 0 =< k
    <3>. SUFFICES ASSUME k =< -1 PROVE FALSE
      OBVIOUS
    <3>. QED OBVIOUS
  <2>2. k =< n
    BY <2>1
  <2>. QED
    BY <2>1, <2>2
<1>4. first \in 0 .. size /\ count \in 0 .. size /\ r.offset = first * s /\ r.size = count * s
  BY <1>0, <1>1, <1>2, <1>3
<1>5. r = [offset |-> first * s, size |-> count * s]
  BY <1>4, RangeTyped
<1>. QED
  BY <1>4, <1>5, Zenon

\* A multiple of the sector is aligned to it.
LEMMA SectorsAligned ==
    ASSUME NEW r, NEW s \in Nat \ {0}, NEW first \in Int, NEW count \in Int,
           r = [offset |-> first * s, size |-> count * s]
    PROVE  IsAligned(r.offset, s) /\ IsAligned(r.size, s)
<1>1. r.offset = s * first /\ r.size = s * count
  OBVIOUS
<1>. QED
  BY <1>1, MultipleAligned DEF IsAligned

LEMMA ValidApart ==
    ASSUME NEW l \in FlashRegionLayout, Valid(l)
    PROVE  RegionsApart(l)
<1>0. /\ l.flash_size \in Nat /\ l.sector_size \in Nat /\ l.flash_size # 0 /\ l.sector_size # 0
      /\ l.ble_auth \in FlashRange /\ l.spool \in FlashRange /\ l.protected \subseteq FlashRange
  BY LayoutTyped DEF Valid
<1>1. ASSUME NEW range \in FlashRange, EndOf(range) =< l.flash_size
      PROVE  Bytes(range) \subseteq 0 .. l.flash_size - 1
  BY <1>0, <1>1, RangeTyped DEF Bytes, EndOf
<1>2. ASSUME NEW range \in {l.ble_auth, l.spool}
      PROVE  /\ Bytes(range) # {} /\ Bytes(range) \subseteq 0 .. l.flash_size - 1
             /\ \E first, count \in 0 .. l.flash_size :
                  range = [offset |-> first * l.sector_size, size |-> count * l.sector_size]
  <2>1. range \in FlashRange /\ DataRangeValid(range, l)
    BY <1>0, <1>2 DEF Valid
  <2>2. /\ range.size # 0 /\ EndOf(range) =< l.flash_size
        /\ range.offset % l.sector_size = 0 /\ range.size % l.sector_size = 0
    BY <2>1 DEF DataRangeValid, IsAligned
  <2>3. range.offset \in Bytes(range)
    BY <2>1, <2>2, RangeTyped DEF Bytes, EndOf
  <2>. QED
    BY <1>0, <1>1, <2>1, <2>2, <2>3, WholeSectors
<1>3. Bytes(l.ble_auth) \intersect Bytes(l.spool) = {}
  BY <1>0, ApartBytes DEF Valid
<1>4. ASSUME NEW range \in l.protected
      PROVE  /\ Bytes(range) \subseteq 0 .. l.flash_size - 1
             /\ Bytes(range) \intersect (Bytes(l.ble_auth) \union Bytes(l.spool)) = {}
  <2>1. range \in FlashRange /\ EndOf(range) =< l.flash_size
        /\ ~Overlaps(l.ble_auth, range) /\ ~Overlaps(l.spool, range)
    BY <1>0, <1>4 DEF Valid, ProtectedValid
  <2>2. Bytes(l.ble_auth) \intersect Bytes(range) = {} /\ Bytes(l.spool) \intersect Bytes(range) = {}
    BY <1>0, <2>1, ApartBytes
  <2>. QED
    BY <1>1, <2>1, <2>2
<1>. QED
  BY <1>0, <1>2, <1>3, <1>4 DEF RegionsApart

LEMMA ApartValid ==
    ASSUME NEW l \in FlashRegionLayout, RegionsApart(l), NoEmptyProtected(l)
    PROVE  Valid(l)
<1>0. /\ l.flash_size \in Nat \ {0} /\ l.flash_size < Limit /\ l.sector_size \in Nat \ {0}
      /\ l.ble_auth \in FlashRange /\ l.spool \in FlashRange /\ l.protected \subseteq FlashRange
  BY LayoutTyped DEF RegionsApart
<1>1. ASSUME NEW range \in {l.ble_auth, l.spool}
      PROVE  /\ range \in FlashRange /\ range.size # 0 /\ HasEnd(range)
             /\ DataRangeValid(range, l)
  <2>1. range \in FlashRange /\ Bytes(range) # {} /\ Bytes(range) \subseteq 0 .. l.flash_size - 1
    BY <1>0, <1>1 DEF RegionsApart
  <2>2. PICK first, count \in 0 .. l.flash_size :
           range = [offset |-> first * l.sector_size, size |-> count * l.sector_size]
    BY <1>1 DEF RegionsApart
  <2>3. range.size # 0
    BY <2>1, RangeTyped DEF Bytes, EndOf
  <2>4. HasEnd(range) /\ EndOf(range) =< l.flash_size
    BY <1>0, <2>1, <2>3, InsideEnds
  <2>5. IsAligned(range.offset, l.sector_size) /\ IsAligned(range.size, l.sector_size)
    BY <1>0, <2>2, SectorsAligned
  <2>. QED
    BY <2>1, <2>3, <2>4, <2>5 DEF DataRangeValid
<1>2. ~Overlaps(l.ble_auth, l.spool)
  BY <1>1, OverlapShares DEF RegionsApart
<1>3. ASSUME NEW range \in l.protected PROVE ProtectedValid(range, l)
  <2>1. /\ range \in FlashRange /\ range.size # 0
        /\ Bytes(range) \subseteq 0 .. l.flash_size - 1
        /\ Bytes(l.ble_auth) \intersect Bytes(range) = {}
        /\ Bytes(l.spool) \intersect Bytes(range) = {}
    BY <1>0, <1>3 DEF RegionsApart, NoEmptyProtected
  <2>2. HasEnd(range) /\ EndOf(range) =< l.flash_size
    BY <1>0, <2>1, InsideEnds
  <2>. QED
    BY <1>1, <2>1, <2>2, OverlapShares DEF ProtectedValid
<1>. QED
  BY <1>0, <1>1, <1>2, <1>3 DEF Valid

\* The validation of a layout accepts exactly those whose regions are whole
\* sectors of the chip, apart from each other and from the protected ranges
\* (validate_flash_region_layout), for any addresses and sector size.
THEOREM ValidationAlwaysExact == Spec => []ValidationExact
<1>1. RegionInv => ValidationExact
  <2>. SUFFICES ASSUME RegionInv PROVE ValidationExact
    OBVIOUS
  <2>1. layout \in FlashRegionLayout
    BY RegionsAssumption DEF RegionInv, TypeOK
  <2>. QED
    BY <2>1, ValidApart, ApartValid DEF ValidationExact
<1>. QED
  BY <1>1, RegionInvInit, RegionInvStep, PTL DEF Spec
===============================================================================
