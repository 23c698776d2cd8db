--------------------------- MODULE BleAuthorization ---------------------------
(***************************************************************************)
(* BLE authorization: the bonds a device keeps in a flash page of its own  *)
(* (storage/ble_auth), the pairing task that polls the BOOT button and     *)
(* clears them, and the BLE task that restores, makes, stores and checks   *)
(* them (tasks/ble/auth.rs, runtime.rs, gatt.rs).                          *)
(*                                                                         *)
(* The two tasks share the workspace and the window.  Driver calls block   *)
(* the executor and no lock is held across an await, so a handler is one   *)
(* step; power may be lost in the middle of one.  The BLE host, which      *)
(* pairs, encrypts and reports, is external.                               *)
(***************************************************************************)
EXTENDS PairingGesture, Sequences

CONSTANTS
    Peers,        \* centrals, by identity
    Capacity,     \* AUTH_RECORD_CAPACITY
    AutoPair,     \* AUTO_PAIR_ON_AUTH_RECORD_RESET
    MaxPairings,  \* bound: bonds made in a behaviour
    MaxResets,    \* bound: power losses between handlers, with no bond unsaved
    MaxFaults     \* bound: other power losses, and driver errors

ASSUME AuthorizationAssumption ==
    /\ Capacity \in Nat \ {0}
    /\ AutoPair \in BOOLEAN
    /\ MaxPairings \in Nat /\ MaxResets \in Nat /\ MaxFaults \in Nat

VARIABLES
    page,         \* what load_auth_records finds in the flash page
    saved,        \* the workspace: the records in force, none unless Valid
    host,         \* the bonds the BLE host knows
    link,         \* the connection
    started,      \* the tasks that have begun since the reset
    held,         \* external: held[p] is the key central p has bonded with
    pairings,     \* history: bonds made, the last of which has this key
    admitted,     \* history: who connected in an open window since the last clear
    offered,      \* history: the window was open since the reset
    misread,      \* history: a task could not read the page since the reset
    resets,       \* history: number of resets
    faults        \* history: number of faults

taskVars == <<saved, host, link, started>>
historyVars == <<pairings, admitted, offered, misread, resets, faults>>
vars == <<gestureVars, page, taskVars, held, historyVars>>

-----------------------------------------------------------------------------
(* Records and the page.                                                   *)

\* A BleAuthRecord: an identity and a long-term key.
Bond == [peer : Peers, key : 1 .. MaxPairings]

PeersOf(bonds) == {bonds[i].peer : i \in DOMAIN bonds}

\* The page is erased, holds the records of the last store, or anything else:
\* every other outcome of load_auth_records yields no record.
Erased == [state |-> "erased", bonds |-> <<>>]
Torn == [state |-> "torn", bonds |-> <<>>]
Stored(bonds) == [state |-> "valid", bonds |-> bonds]

\* The records load_auth_records returns: none unless the page is valid.
Loaded == page.bonds

\* Mutant of Upsert: a known peer is added again.
UpsertAgain(bonds, b) ==
    IF Len(bonds) < Capacity THEN Append(bonds, b) ELSE [bonds EXCEPT ![1] = b]

\* Mutant of Upsert: a full set grows.
UpsertBeyond(bonds, b) ==
    IF b.peer \in PeersOf(bonds)
      THEN [i \in DOMAIN bonds |-> IF bonds[i].peer = b.peer THEN b ELSE bonds[i]]
    ELSE Append(bonds, b)

\* upsert_auth_record: it replaces the first record when all are taken.
Upsert(bonds, b) ==
    IF b.peer \in PeersOf(bonds)
      THEN [i \in DOMAIN bonds |-> IF bonds[i].peer = b.peer THEN b ELSE bonds[i]]
    ELSE IF Len(bonds) < Capacity THEN Append(bonds, b)
    ELSE [bonds EXCEPT ![1] = b]

\* Mutant of RequiresWindow: only an erased page.
RequiresWindowErased == AutoPair /\ page.state = "erased"

\* should_auto_open_pairing_window
RequiresWindow == AutoPair /\ page.state # "valid"

Fault ==
    /\ faults < MaxFaults
    /\ faults' = faults + 1

-----------------------------------------------------------------------------
(* The pairing task.                                                       *)

\* It begins: the window opens by itself when no valid record is saved.
StartPairing ==
    /\ "pairing" \notin started
    /\ started' = started \cup {"pairing"}
    /\ IF RequiresWindow
         THEN OpenWindow /\ offered' = TRUE
         ELSE UNCHANGED <<window, opened, offered>>
    /\ UNCHANGED <<button, pressed, cleared, page, saved, host, link, held,
                   pairings, admitted, misread, resets, faults>>

StartPairingMisread ==
    /\ "pairing" \notin started
    /\ Fault
    /\ started' = started \cup {"pairing"}
    /\ misread' = TRUE
    /\ UNCHANGED <<gestureVars, page, saved, host, link, held,
                   pairings, admitted, offered, resets>>

\* A poll that asks for nothing but the window.
Poll ==
    /\ "pairing" \in started
    /\ SampleReleased \/ SampleHeld \/ SampleOpens
    /\ offered' = (offered \/ window' > 0)
    /\ UNCHANGED <<page, taskVars, held, pairings, admitted, misread, resets, faults>>

\* Mutant of ClearRecords: the workspace keeps the records.
ClearRecordsInFlash ==
    /\ "pairing" \in started
    /\ SampleClears(TRUE)
    /\ page' = Erased
    /\ admitted' = IF link # <<>> /\ link[1].bondable THEN {link[1].peer} ELSE {}
    /\ offered' = TRUE
    /\ UNCHANGED <<taskVars, held, pairings, misread, resets, faults>>

\* A poll that asks for a clear: clear_saved_ble_auth_records.  The BLE host
\* keeps its bonds; a central that is paired in the same session may bond yet.
ClearRecords ==
    /\ "pairing" \in started
    /\ SampleClears(TRUE)
    /\ page' = Erased
    /\ saved' = <<>>
    /\ admitted' = IF link # <<>> /\ link[1].bondable THEN {link[1].peer} ELSE {}
    /\ offered' = TRUE
    /\ UNCHANGED <<host, link, started, held, pairings, misread, resets, faults>>

\* The erasure fails, with or without effect on the page.
ClearFails ==
    /\ "pairing" \in started
    /\ SampleClears(FALSE)
    /\ Fault
    /\ page' \in {page, Torn}
    /\ UNCHANGED <<taskVars, held, pairings, admitted, offered, misread, resets>>

-----------------------------------------------------------------------------
(* The BLE task.                                                           *)

\* restore_ble_auth_records
StartBle ==
    /\ "ble" \notin started
    /\ started' = started \cup {"ble"}
    /\ saved' = Loaded
    /\ host' = {Loaded[i] : i \in DOMAIN Loaded}
    /\ UNCHANGED <<gestureVars, page, link, held, historyVars>>

StartBleMisread ==
    /\ "ble" \notin started
    /\ Fault
    /\ started' = started \cup {"ble"}
    /\ saved' = <<>>
    /\ misread' = TRUE
    /\ UNCHANGED <<gestureVars, page, host, link, held,
                   pairings, admitted, offered, resets>>

\* Mutant of Connect: any link may bond.
ConnectBondable(p) ==
    /\ "ble" \in started /\ link = <<>>
    /\ link' = <<[peer |-> p, bondable |-> TRUE, secured |-> FALSE, bond |-> 0]>>
    /\ admitted' = IF window > 0 THEN admitted \cup {p} ELSE admitted
    /\ UNCHANGED <<gestureVars, page, saved, host, started, held,
                   pairings, offered, misread, resets, faults>>

\* gatt_advertise_loop: a central connects; configure_ble_connection_security
\* reads the window once, for as long as the link lasts.
Connect(p) ==
    /\ "ble" \in started /\ link = <<>>
    /\ link' = <<[peer |-> p, bondable |-> window > 0, secured |-> FALSE, bond |-> 0]>>
    /\ admitted' = IF window > 0 THEN admitted \cup {p} ELSE admitted
    /\ UNCHANGED <<gestureVars, page, saved, host, started, held,
                   pairings, offered, misread, resets, faults>>

\* External: both ends know the key of an earlier bond and encrypt with it.
Encrypt ==
    /\ link # <<>> /\ ~link[1].secured
    /\ [peer |-> link[1].peer, key |-> held[link[1].peer]] \in host
    /\ link' = [link EXCEPT ![1].secured = TRUE]
    /\ UNCHANGED <<gestureVars, page, saved, host, started, held, historyVars>>

\* External: pairing on a link that may not bond encrypts it and leaves no key.
PairUnbonded ==
    /\ link # <<>> /\ ~link[1].bondable /\ ~link[1].secured
    /\ link' = [link EXCEPT ![1].secured = TRUE]
    /\ UNCHANGED <<gestureVars, page, saved, host, started, held, historyVars>>

\* External: pairing on a link that may bond; PairingComplete will tell.
PairBonded ==
    /\ link # <<>> /\ link[1].bondable /\ link[1].bond = 0
    /\ pairings < MaxPairings
    /\ pairings' = pairings + 1
    /\ link' = [link EXCEPT ![1].secured = TRUE, ![1].bond = pairings']
    /\ held' = [held EXCEPT ![link[1].peer] = pairings']
    /\ host' = {b \in host : b.peer # link[1].peer}
                 \cup {[peer |-> link[1].peer, key |-> pairings']}
    /\ UNCHANGED <<gestureVars, page, saved, started,
                   admitted, offered, misread, resets, faults>>

Unsaved == link # <<>> /\ link[1].bond # 0

BondToSave == [peer |-> link[1].peer, key |-> link[1].bond]

\* PairingComplete: persist_ble_bond_information
PersistBond ==
    /\ Unsaved
    /\ saved' = Upsert(saved, BondToSave)
    /\ page' = Stored(saved')
    /\ link' = [link EXCEPT ![1].bond = 0]
    /\ UNCHANGED <<gestureVars, host, started, held, historyVars>>

\* The erasure or the write fails, and the workspace stays as it was.
PersistFails ==
    /\ Unsaved
    /\ Fault
    /\ page' \in {page, Erased, Torn}
    /\ link' = [link EXCEPT ![1].bond = 0]
    /\ UNCHANGED <<gestureVars, saved, host, started, held,
                   pairings, admitted, offered, misread, resets>>

\* Disconnected, which comes after the other events of the link.
Disconnect ==
    /\ link # <<>> /\ ~Unsaved
    /\ link' = <<>>
    /\ UNCHANGED <<gestureVars, page, saved, host, started, held, historyVars>>

\* ensure_ble_authorized, on a link the host has encrypted: the metadata, the
\* fragments and the control point require that of themselves.
Authorized ==
    /\ link # <<>> /\ link[1].secured
    /\ window > 0 \/ link[1].peer \in PeersOf(saved)

-----------------------------------------------------------------------------
(* Resets.                                                                 *)

\* Memory is lost.
Restart ==
    /\ pressed' = 0
    /\ opened' = FALSE /\ cleared' = FALSE /\ window' = 0
    /\ saved' = <<>> /\ host' = {} /\ link' = <<>>
    /\ started' = {}
    /\ offered' = FALSE /\ misread' = FALSE
    /\ UNCHANGED <<button, held, pairings, admitted>>

Reset ==
    /\ started # {} /\ ~Unsaved
    /\ resets < MaxResets
    /\ resets' = resets + 1
    /\ Restart
    /\ UNCHANGED <<page, faults>>

\* Power is lost before a bond is saved, or while the page is written.
ResetUnsaved ==
    /\ Unsaved
    /\ Fault
    /\ page' \in {page, Erased, Torn}
    /\ Restart
    /\ UNCHANGED resets

\* Power is lost while the page is erased for a clear.
ResetInClear ==
    /\ "pairing" \in started /\ button /\ ClearDue
    /\ Fault
    /\ page' \in {Erased, Torn}
    /\ Restart
    /\ UNCHANGED resets

-----------------------------------------------------------------------------

Init ==
    /\ InitGesture
    /\ page = Erased
    /\ saved = <<>> /\ host = {} /\ link = <<>> /\ started = {}
    /\ held = [p \in Peers |-> 0]
    /\ pairings = 0 /\ admitted = {} /\ offered = FALSE /\ misread = FALSE
    /\ resets = 0 /\ faults = 0

PairingTask == StartPairing \/ StartPairingMisread \/ Poll \/ ClearRecords \/ ClearFails

BleTask ==
    \/ StartBle \/ StartBleMisread
    \/ \E p \in Peers : Connect(p)
    \/ Encrypt \/ PairUnbonded \/ PairBonded
    \/ PersistBond \/ PersistFails
    \/ Disconnect

User ==
    /\ PushOrRelease
    /\ UNCHANGED <<page, taskVars, held, historyVars>>

Next == User \/ PairingTask \/ BleTask \/ Reset \/ ResetUnsaved \/ ResetInClear

\* The executor runs the pairing task whenever its timer is due.
Fairness == WF_vars(PairingTask)

Spec == Init /\ [][Next]_vars /\ Fairness

-----------------------------------------------------------------------------
(* Properties.                                                             *)

IsBonds(bonds) ==
    /\ bonds \in Seq(Bond)
    /\ Len(bonds) <= Capacity

Link == [peer : Peers, bondable : BOOLEAN, secured : BOOLEAN, bond : 0 .. MaxPairings]

TypeOK ==
    /\ TypeGesture
    /\ page.state \in {"erased", "torn", "valid"} /\ IsBonds(page.bonds)
    /\ IsBonds(saved)
    /\ host \subseteq Bond
    /\ link = <<>> \/ \E l \in Link : link = <<l>>
    /\ started \subseteq {"pairing", "ble"}
    /\ held \in [Peers -> 0 .. MaxPairings]
    /\ pairings \in 0 .. MaxPairings
    /\ admitted \subseteq Peers
    /\ offered \in BOOLEAN /\ misread \in BOOLEAN
    /\ resets \in 0 .. MaxResets /\ faults \in 0 .. MaxFaults

\* With the window closed, a central reads measurements only if it connected
\* while the window was open, and its bond was not cleared since: across
\* resets, failing writes, links that outlive the window, and a host that
\* still knows the bonds that were cleared.
AccessFromWindow == Authorized /\ window = 0 => link[1].peer \in admitted

\* What a reset would restore is what is in force, or nothing: no bond that was
\* cleared or replaced comes back.
RestoresForce ==
    "ble" \in started /\ ~misread =>
        \/ page = Stored(saved) /\ saved # <<>>
        \/ page.state # "valid" /\ (faults = 0 => saved = <<>>)

\* A saved record is its peer's latest bond, one per peer, so the peer can come
\* back without pairing again.
SavedUsable ==
    "ble" \in started =>
        /\ \A i, j \in DOMAIN saved : saved[i].peer = saved[j].peer => i = j
        /\ faults = 0 /\ ~Unsaved =>
              \A i \in DOMAIN saved : saved[i].key = held[saved[i].peer] /\ saved[i] \in host

\* When the BLE task restored no bond, the pairing task, which read the page by
\* itself, has offered a window: the device never starts unreachable.
OfferedWhenEmpty ==
    AutoPair /\ started = {"pairing", "ble"} /\ saved = <<>> /\ ~misread => offered

\* A window opens as the device starts or as a press passes a threshold, never
\* again in the same press: "after the pairing window expires, the same
\* continuous press does not reopen the window until BOOT / IO9 is released and
\* pressed again" (docs/10-firmware/05-ble.md:145).
OpensOncePerPress ==
    [][window = 0 /\ window' > 0 /\ "pairing" \in started =>
          \/ pressed < HoldPolls /\ HoldPolls <= pressed'
          \/ pressed < ClearPolls /\ ClearPolls <= pressed']_vars

\* Left alone, the window closes for good.
WindowCloses == <>[](~button) => <>[](window = 0)
===============================================================================
