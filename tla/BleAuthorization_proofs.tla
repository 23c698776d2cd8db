------------------------ MODULE BleAuthorization_proofs ------------------------
(***************************************************************************)
(* Proofs about BleAuthorization, for any centrals, capacity, thresholds   *)
(* and bounds: the types, who gets access with the window closed, what a   *)
(* reset restores, when a press opens the window, who is offered one, and  *)
(* that a saved record is of use to its peer.                              *)
(***************************************************************************)
EXTENDS BleAuthorization, TLAPS

USE GestureAssumption, AuthorizationAssumption

\* The page is what an erasure, a store or an interruption leaves.
PageShape ==
    \/ page = Erased
    \/ page = Torn
    \/ page = Stored(page.bonds) /\ page.bonds # <<>>

\* Nothing is in force before the BLE task has started.
BeforeStart == "ble" \notin started => saved = <<>> /\ link = <<>>

TypeInv == TypeOK /\ PageShape /\ BeforeStart

\* Whoever has a record, or is about to, connected in an open window.
RecordsAdmitted ==
    /\ PeersOf(saved) \subseteq admitted
    /\ PeersOf(page.bonds) \subseteq admitted

LinkAdmitted ==
    link # <<>> =>
        /\ link[1].bondable => link[1].peer \in admitted
        /\ link[1].bond # 0 => link[1].bondable

AdmittedInv == RecordsAdmitted /\ LinkAdmitted

-----------------------------------------------------------------------------
(* Records.                                                                *)

LEMMA NoBonds == IsBonds(<<>>) /\ PeersOf(<<>>) = {}
BY DEF IsBonds, PeersOf

\* A set of records with a new one has its type, is not empty and has no peer
\* but the old ones and the new.
LEMMA Upserted ==
    ASSUME NEW bonds, IsBonds(bonds), NEW b \in Bond
    PROVE  /\ IsBonds(Upsert(bonds, b))
           /\ Upsert(bonds, b) # <<>>
           /\ PeersOf(Upsert(bonds, b)) \subseteq PeersOf(bonds) \cup {b.peer}
<1>. bonds \in Seq(Bond) /\ Len(bonds) \in Nat /\ DOMAIN bonds = 1 .. Len(bonds)
  BY DEF IsBonds
<1>1. CASE b.peer \in PeersOf(bonds)
  <2>. DEFINE updated == [i \in DOMAIN bonds |-> IF bonds[i].peer = b.peer THEN b ELSE bonds[i]]
  <2>1. Upsert(bonds, b) = updated
    BY <1>1 DEF Upsert
  <2>2. updated \in Seq(Bond) /\ Len(updated) = Len(bonds) /\ DOMAIN updated = DOMAIN bonds
    OBVIOUS
  <2>3. DOMAIN bonds # {}
    BY <1>1 DEF PeersOf
  <2>4. updated # <<>>
    BY <2>2, <2>3
  <2>5. PeersOf(updated) \subseteq PeersOf(bonds) \cup {b.peer}
    BY <2>2 DEF PeersOf
  <2>. QED BY <2>1, <2>2, <2>4, <2>5 DEF IsBonds
<1>2. CASE b.peer \notin PeersOf(bonds) /\ Len(bonds) < Capacity
  <2>1. Upsert(bonds, b) = Append(bonds, b)
    BY <1>2 DEF Upsert
  <2>2. /\ Append(bonds, b) \in Seq(Bond)
        /\ Len(Append(bonds, b)) = Len(bonds) + 1
        /\ DOMAIN Append(bonds, b) = 1 .. Len(bonds) + 1
        /\ \A i \in 1 .. Len(bonds) + 1 :
              Append(bonds, b)[i] = IF i \in DOMAIN bonds THEN bonds[i] ELSE b
    OBVIOUS
  <2>3. PeersOf(Append(bonds, b)) \subseteq PeersOf(bonds) \cup {b.peer}
    BY <2>2 DEF PeersOf
  <2>. QED BY <1>2, <2>1, <2>2, <2>3 DEF IsBonds
<1>3. CASE b.peer \notin PeersOf(bonds) /\ ~(Len(bonds) < Capacity)
  <2>. DEFINE replaced == [bonds EXCEPT ![1] = b]
  <2>1. Upsert(bonds, b) = replaced
    BY <1>3 DEF Upsert
  <2>0. Len(bonds) >= 1
    BY <1>3, AuthorizationAssumption
  <2>2. 1 \in DOMAIN bonds
    BY <2>0
  <2>3. /\ replaced \in Seq(Bond) /\ Len(replaced) = Len(bonds) /\ DOMAIN replaced = DOMAIN bonds
        /\ \A i \in DOMAIN bonds : replaced[i] = bonds[i] \/ replaced[i] = b
    BY <2>2
  <2>4. PeersOf(replaced) \subseteq PeersOf(bonds) \cup {b.peer}
    BY <2>3 DEF PeersOf
  <2>5. replaced # <<>>
    BY <2>2, <2>3
  <2>. QED BY <2>1, <2>2, <2>3, <2>4, <2>5 DEF IsBonds
<1>. QED BY <1>1, <1>2, <1>3

-----------------------------------------------------------------------------
(* Types.                                                                  *)

LEMMA Thresholds ==
    /\ Longest \in Nat
    /\ pressed \in 0 .. Longest => Longer \in 0 .. Longest
    /\ window \in 0 .. WindowPolls => Ticked \in 0 .. WindowPolls
BY GestureAssumption DEF Longest, Longer, Ticked

LEMMA SampleTypes ==
    ASSUME TypeGesture,
           SampleReleased \/ SampleHeld \/ SampleOpens \/ SampleClears(TRUE) \/ SampleClears(FALSE)
    PROVE  TypeGesture'
<1>. Longest' = Longest
  BY DEF Longest
<1>1. CASE SampleReleased
  <2>1. pressed' \in 0 .. Longest /\ window' \in 0 .. WindowPolls
    BY <1>1, Thresholds DEF SampleReleased, TypeGesture
  <2>. QED BY <1>1, <2>1, Zenon DEF SampleReleased, TypeGesture
<1>2. CASE SampleHeld BY <1>2, Thresholds DEF SampleHeld, TypeGesture
<1>3. CASE SampleOpens BY <1>3, Thresholds DEF SampleOpens, OpenWindow, TypeGesture
<1>4. CASE SampleClears(TRUE) BY <1>4, Thresholds DEF SampleClears, OpenWindow, TypeGesture
<1>5. CASE SampleClears(FALSE) BY <1>5, Thresholds DEF SampleClears, TypeGesture
<1>. QED BY <1>1, <1>2, <1>3, <1>4, <1>5

LEMMA PageLoaded ==
    ASSUME TypeInv
    PROVE  /\ IsBonds(Loaded)
           /\ page' \in {page, Erased, Torn} =>
                /\ PageShape'
                /\ page'.state \in {"erased", "torn", "valid"} /\ IsBonds(page'.bonds)
                /\ PeersOf(page'.bonds) \subseteq PeersOf(page.bonds)
BY NoBonds DEF TypeInv, TypeOK, PageShape, Loaded, Erased, Torn, Stored

\* The record of a bond to save, and what its store leaves in the page.
LEMMA BondSaved ==
    ASSUME TypeInv, Unsaved
    PROVE  /\ BondToSave \in Bond
           /\ IsBonds(Upsert(saved, BondToSave)) /\ Upsert(saved, BondToSave) # <<>>
           /\ PeersOf(Upsert(saved, BondToSave)) \subseteq PeersOf(saved) \cup {link[1].peer}
<1>1. BondToSave \in Bond
  BY DEF TypeInv, TypeOK, Unsaved, BondToSave, Bond, Link
<1>. QED BY <1>1, Upserted DEF TypeInv, TypeOK, BondToSave

\* A link, and what remains when its security or its bond changes.
LEMMA LinkMade ==
    ASSUME NEW p \in Peers, NEW bondable \in BOOLEAN, NEW secured \in BOOLEAN,
           NEW bond \in 0 .. MaxPairings
    PROVE  [peer |-> p, bondable |-> bondable, secured |-> secured, bond |-> bond] \in Link
BY Zenon DEF Link

LEMMA LinkFields ==
    ASSUME TypeOK, link # <<>>
    PROVE  link[1] \in Link /\ link[1].peer \in Peers /\ link[1].bondable \in BOOLEAN
           /\ link[1].secured \in BOOLEAN /\ link[1].bond \in 0 .. MaxPairings
<1>1. PICK l \in Link : link = <<l>>
  BY DEF TypeOK
<1>2. link[1] = l
  BY <1>1
<1>3. l.peer \in Peers /\ l.bondable \in BOOLEAN /\ l.secured \in BOOLEAN /\ l.bond \in 0 .. MaxPairings
  BY Zenon DEF Link
<1>. QED BY <1>2, <1>3

\* Stated for any sets, since the provers treat BOOLEAN apart.
LEMMA FieldsChanged ==
    ASSUME NEW P, NEW B, NEW N,
           NEW l \in [peer : P, bondable : B, secured : B, bond : N],
           NEW s \in B, NEW n \in N
    PROVE  /\ [l EXCEPT !.secured = s] \in [peer : P, bondable : B, secured : B, bond : N]
           /\ [l EXCEPT !.secured = s].peer = l.peer
           /\ [l EXCEPT !.secured = s].bondable = l.bondable
           /\ [l EXCEPT !.secured = s].bond = l.bond
           /\ [l EXCEPT !.bond = n] \in [peer : P, bondable : B, secured : B, bond : N]
           /\ [l EXCEPT !.bond = n].peer = l.peer
           /\ [l EXCEPT !.bond = n].bondable = l.bondable
           /\ [l EXCEPT !.bond = n].bond = n
           /\ [l EXCEPT !.secured = s, !.bond = n]
                 \in [peer : P, bondable : B, secured : B, bond : N]
           /\ [l EXCEPT !.secured = s, !.bond = n].peer = l.peer
           /\ [l EXCEPT !.secured = s, !.bond = n].bondable = l.bondable
           /\ [l EXCEPT !.secured = s, !.bond = n].bond = n
OBVIOUS

LEMMA LinkChanged ==
    ASSUME TypeOK, link # <<>>, NEW secured \in BOOLEAN, NEW bond \in 0 .. MaxPairings,
           \/ link' = [link EXCEPT ![1].secured = secured] /\ bond = link[1].bond
           \/ link' = [link EXCEPT ![1].bond = bond]
           \/ link' = [link EXCEPT ![1].secured = secured, ![1].bond = bond]
    PROVE  /\ \E l \in Link : link' = <<l>>
           /\ link'[1].peer = link[1].peer /\ link'[1].bondable = link[1].bondable
           /\ link'[1].bond = bond
<1>1. PICK l \in Link : link = <<l>>
  BY DEF TypeOK
<1>2. link[1] = l
  BY <1>1
<1>3. PICK c \in Link :
        link' = <<c>> /\ c.peer = l.peer /\ c.bondable = l.bondable /\ c.bond = bond
  <2>1. CASE link' = [link EXCEPT ![1].secured = secured] /\ bond = link[1].bond
    <3>. DEFINE c == [l EXCEPT !.secured = secured]
    <3>1. link' = <<c>> /\ bond = l.bond
      BY <1>1, <2>1
    <3>2. c \in Link
      BY FieldsChanged, Zenon DEF Link
    <3>3. c.peer = l.peer /\ c.bondable = l.bondable /\ c.bond = l.bond
      BY FieldsChanged, Zenon DEF Link
    <3>. QED BY <3>1, <3>2, <3>3, Zenon
  <2>2. CASE link' = [link EXCEPT ![1].bond = bond]
    <3>. DEFINE c == [l EXCEPT !.bond = bond]
    <3>1. link' = <<c>>
      BY <1>1, <2>2
    <3>2. c \in Link
      BY FieldsChanged, Zenon DEF Link
    <3>3. c.peer = l.peer /\ c.bondable = l.bondable /\ c.bond = bond
      BY FieldsChanged, Zenon DEF Link
    <3>. QED BY <3>1, <3>2, <3>3, Zenon
  <2>3. CASE link' = [link EXCEPT ![1].secured = secured, ![1].bond = bond]
    <3>. DEFINE c == [l EXCEPT !.secured = secured, !.bond = bond]
    <3>1. link' = <<c>>
      BY <1>1, <2>3
    <3>2. c \in Link
      BY FieldsChanged, Zenon DEF Link
    <3>3. c.peer = l.peer /\ c.bondable = l.bondable /\ c.bond = bond
      BY FieldsChanged, Zenon DEF Link
    <3>. QED BY <3>1, <3>2, <3>3, Zenon
  <2>. QED BY <2>1, <2>2, <2>3
<1>. QED BY <1>2, <1>3

LEMMA GestureRests == TypeGesture /\ UNCHANGED gestureVars => TypeGesture'
BY Zenon DEF TypeGesture, gestureVars

LEMMA TypesInit == Init => TypeInv
<1>. SUFFICES ASSUME Init PROVE TypeInv
  OBVIOUS
<1>1. TypeGesture
  <2>1. pressed \in 0 .. Longest /\ window \in 0 .. WindowPolls
    BY Thresholds DEF Init, InitGesture
  <2>. QED BY <2>1, Zenon DEF Init, InitGesture, TypeGesture
<1>2. /\ PageShape /\ page.state \in {"erased", "torn", "valid"}
      /\ IsBonds(page.bonds) /\ IsBonds(saved)
  BY NoBonds DEF Init, PageShape, Erased
<1>3. /\ pairings \in 0 .. MaxPairings /\ held \in [Peers -> 0 .. MaxPairings]
      /\ resets \in 0 .. MaxResets /\ faults \in 0 .. MaxFaults
  BY DEF Init
<1>. QED BY <1>1, <1>2, <1>3 DEF Init, TypeInv, TypeOK, BeforeStart

LEMMA RestartTypes ==
    ASSUME TypeInv, Restart, page' \in {page, Erased, Torn},
           resets' \in 0 .. MaxResets, faults' \in 0 .. MaxFaults
    PROVE  TypeInv'
<1>1. TypeGesture'
  <2>1. pressed' \in 0 .. Longest /\ window' \in 0 .. WindowPolls
    BY Thresholds DEF Restart
  <2>. QED BY <2>1, Zenon DEF Restart, TypeInv, TypeOK, TypeGesture
<1>2. /\ PageShape' /\ page'.state \in {"erased", "torn", "valid"}
      /\ IsBonds(page'.bonds) /\ IsBonds(saved')
  BY PageLoaded, NoBonds DEF Restart
<1>. QED BY <1>1, <1>2 DEF Restart, TypeInv, TypeOK, BeforeStart

LEMMA TypesStep == TypeInv /\ [Next]_vars => TypeInv'
<1>. SUFFICES ASSUME TypeInv, [Next]_vars PROVE TypeInv'
  OBVIOUS
<1>. USE DEF TypeInv, BeforeStart
<1>1. CASE StartPairing
  <2>1. window' \in 0 .. WindowPolls
    BY <1>1 DEF StartPairing, OpenWindow, TypeOK, TypeGesture
  <2>2. TypeGesture' /\ offered' \in BOOLEAN
    BY <1>1, <2>1, Zenon DEF StartPairing, OpenWindow, TypeOK, TypeGesture
  <2>3. started' \subseteq {"pairing", "ble"}
    BY <1>1 DEF StartPairing, TypeOK
  <2>. QED BY <1>1, <2>2, <2>3 DEF StartPairing, TypeOK, PageShape
<1>2. CASE StartPairingMisread
  BY <1>2 DEF StartPairingMisread, Fault, gestureVars, TypeOK, TypeGesture, PageShape, Longest
<1>3. CASE Poll
  <2>1. TypeGesture'
    BY <1>3, SampleTypes DEF Poll, TypeOK
  <2>. QED BY <1>3, <2>1 DEF Poll, taskVars, TypeOK, PageShape
<1>4. CASE ClearRecords
  <2>1. TypeGesture'
    BY <1>4, SampleTypes DEF ClearRecords, TypeOK
  <2>2. admitted' \subseteq Peers
    BY <1>4 DEF ClearRecords, TypeOK, Link
  <2>. QED BY <1>4, <2>1, <2>2, NoBonds DEF ClearRecords, TypeOK, PageShape, Erased
<1>5. CASE ClearFails
  <2>1. TypeGesture'
    BY <1>5, SampleTypes DEF ClearFails, TypeOK
  <2>. QED BY <1>5, <2>1, PageLoaded DEF ClearFails, Fault, taskVars, TypeOK
<1>6. CASE StartBle
  <2>1. host' \subseteq Bond
    BY <1>6, PageLoaded DEF StartBle, IsBonds
  <2>. QED BY <1>6, <2>1, PageLoaded
           DEF StartBle, gestureVars, historyVars, TypeOK, TypeGesture, PageShape, Longest
<1>7. CASE StartBleMisread
  BY <1>7, NoBonds
     DEF StartBleMisread, Fault, gestureVars, TypeOK, TypeGesture, PageShape, Longest
<1>8. ASSUME NEW p \in Peers, Connect(p) PROVE TypeInv'
  <2>1. (window > 0) \in BOOLEAN /\ 0 \in 0 .. MaxPairings
    OBVIOUS
  <2>2. \E l \in Link : link' = <<l>>
    BY <1>8, <2>1, LinkMade, Zenon DEF Connect
  <2>3. admitted' \subseteq Peers
    BY <1>8 DEF Connect, TypeOK
  <2>. QED BY <1>8, <2>2, <2>3, GestureRests DEF Connect, TypeOK, PageShape
<1>9. CASE Encrypt
  <2>1. link[1].bond \in 0 .. MaxPairings
    BY <1>9 DEF Encrypt, TypeOK, Link
  <2>2. \E l \in Link : link' = <<l>>
    BY <1>9, <2>1, LinkChanged DEF Encrypt
  <2>. QED BY <1>9, <2>2, GestureRests DEF Encrypt, historyVars, TypeOK, PageShape
<1>10. CASE PairUnbonded
  <2>1. link[1].bond \in 0 .. MaxPairings
    BY <1>10 DEF PairUnbonded, TypeOK, Link
  <2>2. \E l \in Link : link' = <<l>>
    BY <1>10, <2>1, LinkChanged DEF PairUnbonded
  <2>. QED BY <1>10, <2>2, GestureRests DEF PairUnbonded, historyVars, TypeOK, PageShape
<1>11. CASE PairBonded
  <2>1. pairings' \in 1 .. MaxPairings /\ pairings' \in 0 .. MaxPairings
        /\ link[1].peer \in Peers
    BY <1>11, LinkFields, AuthorizationAssumption DEF PairBonded, TypeOK
  <2>0. link # <<>> /\ link' = [link EXCEPT ![1].secured = TRUE, ![1].bond = pairings']
    BY <1>11 DEF PairBonded
  <2>2. \E l \in Link : link' = <<l>>
    BY <2>0, <2>1, LinkChanged
  <2>4. host' \subseteq Bond /\ held' \in [Peers -> 0 .. MaxPairings]
    BY <1>11, <2>1 DEF PairBonded, TypeOK, Bond, Link
  <2>. QED BY <1>11, <2>1, <2>2, <2>4, GestureRests DEF PairBonded, TypeOK, PageShape
<1>12. CASE PersistBond
  <2>1. link[1].secured \in BOOLEAN /\ 0 \in 0 .. MaxPairings
    BY <1>12, LinkFields, AuthorizationAssumption DEF PersistBond, Unsaved
  <2>2. \E l \in Link : link' = <<l>>
    BY <1>12, <2>1, LinkChanged DEF PersistBond, Unsaved
  <2>3. saved' = Upsert(saved, BondToSave) /\ IsBonds(saved') /\ saved' # <<>>
    BY <1>12, BondSaved DEF PersistBond
  <2>4. /\ PageShape'
        /\ page'.state \in {"erased", "torn", "valid"} /\ IsBonds(page'.bonds)
    BY <1>12, <2>3 DEF PersistBond, PageShape, Stored
  <2>5. UNCHANGED <<gestureVars, host, started, held, historyVars>>
    BY <1>12, Zenon DEF PersistBond
  <2>6. TypeGesture'
    BY <2>5, GestureRests, Zenon DEF TypeOK
  <2>7. IsBonds(saved')
    BY <2>3, Zenon
  <2>8. "ble" \in started'
    BY <1>12, <2>5, Zenon DEF PersistBond, Unsaved
  <2>9. UNCHANGED <<host, started, held, pairings, admitted, offered, misread, resets, faults>>
    BY <2>5, Zenon DEF historyVars
  <2>. QED BY <2>2, <2>4, <2>6, <2>7, <2>8, <2>9, Zenon DEF TypeOK
<1>13. CASE PersistFails
  <2>1. link[1].secured \in BOOLEAN /\ 0 \in 0 .. MaxPairings
    BY <1>13, LinkFields, AuthorizationAssumption DEF PersistFails, Unsaved
  <2>2. \E l \in Link : link' = <<l>>
    BY <1>13, <2>1, LinkChanged DEF PersistFails, Unsaved
  <2>3. /\ page' \in {page, Erased, Torn} /\ faults' \in 0 .. MaxFaults /\ link # <<>>
        /\ UNCHANGED <<gestureVars, saved, host, started, held, pairings, admitted, offered,
                      misread, resets>>
    BY <1>13 DEF PersistFails, Fault, Unsaved, TypeOK
  <2>4. /\ PageShape' /\ page'.state \in {"erased", "torn", "valid"} /\ IsBonds(page'.bonds)
        /\ TypeGesture'
    BY <2>3, PageLoaded, GestureRests DEF TypeOK
  <2>. QED BY <2>2, <2>3, <2>4, Zenon DEF TypeOK
<1>14. CASE Disconnect
  BY <1>14 DEF Disconnect, gestureVars, historyVars, TypeOK, TypeGesture, PageShape, Longest
<1>15. CASE Reset
  BY <1>15, RestartTypes DEF Reset, TypeOK
<1>16. CASE ResetUnsaved
  BY <1>16, RestartTypes DEF ResetUnsaved, Fault, TypeOK
<1>17. CASE ResetInClear
  BY <1>17, RestartTypes DEF ResetInClear, Fault, TypeOK
<1>18. CASE User
  BY <1>18 DEF User, PushOrRelease, taskVars, historyVars, TypeOK, TypeGesture, PageShape, Longest
<1>19. CASE UNCHANGED vars
  BY <1>19 DEF vars, gestureVars, taskVars, historyVars, TypeOK, TypeGesture, PageShape, Longest
<1>. QED
  BY <1>1, <1>2, <1>3, <1>4, <1>5, <1>6, <1>7, <1>8, <1>9, <1>10, <1>11, <1>12, <1>13,
     <1>14, <1>15, <1>16, <1>17, <1>18, <1>19 DEF Next, PairingTask, BleTask

\* The state of both tasks, the page and the link keep their types and bounds.
THEOREM TypeAuthorizationCorrect == Spec => []TypeOK
<1>1. Spec => []TypeInv
  BY TypesInit, TypesStep, PTL DEF Spec
<1>2. TypeInv => TypeOK
  BY DEF TypeInv
<1>. QED BY <1>1, <1>2, PTL

-----------------------------------------------------------------------------
(* Access.                                                                 *)

\* What a step does to the page, the records in force, the link and admitted,
\* when it does not admit, clear or save.
LEMMA AdmittedKept ==
    ASSUME TypeInv, AdmittedInv, admitted' = admitted,
           saved' \in {saved, page.bonds, <<>>}, page' \in {page, Erased, Torn},
           \/ link' \in {link, <<>>}
           \/ /\ link # <<>>
              /\ link'[1].peer = link[1].peer /\ link'[1].bondable = link[1].bondable
              /\ link'[1].bond # 0 => link[1].bondable
    PROVE  AdmittedInv'
<1>1. PeersOf(saved') \subseteq admitted
  BY NoBonds DEF AdmittedInv, RecordsAdmitted
<1>2. PeersOf(page'.bonds) \subseteq admitted
  BY PageLoaded, NoBonds DEF AdmittedInv, RecordsAdmitted, Erased, Torn
<1>3. LinkAdmitted'
  BY Zenon DEF AdmittedInv, LinkAdmitted
<1>. QED BY <1>1, <1>2, <1>3, Zenon DEF AdmittedInv, RecordsAdmitted, PeersOf

LEMMA AdmittedInit == Init => AdmittedInv
BY NoBonds DEF Init, Erased, AdmittedInv, RecordsAdmitted, LinkAdmitted

LEMMA AdmittedStep == TypeInv /\ AdmittedInv /\ [Next]_vars => AdmittedInv'
<1>. SUFFICES ASSUME TypeInv, AdmittedInv, [Next]_vars PROVE AdmittedInv'
  OBVIOUS
<1>0. TypeOK
  BY DEF TypeInv
<1>1. CASE StartPairing BY <1>1, AdmittedKept DEF StartPairing
<1>2. CASE StartPairingMisread BY <1>2, AdmittedKept DEF StartPairingMisread
<1>3. CASE Poll BY <1>3, AdmittedKept DEF Poll, taskVars
<1>4. CASE ClearRecords
  <2>1. RecordsAdmitted'
    BY <1>4, NoBonds DEF ClearRecords, Erased, RecordsAdmitted
  <2>2. LinkAdmitted'
    BY <1>4 DEF ClearRecords, AdmittedInv, LinkAdmitted
  <2>. QED BY <2>1, <2>2 DEF AdmittedInv
<1>5. CASE ClearFails BY <1>5, AdmittedKept DEF ClearFails, taskVars
<1>6. CASE StartBle BY <1>6, AdmittedKept DEF StartBle, Loaded, historyVars
<1>7. CASE StartBleMisread BY <1>7, AdmittedKept DEF StartBleMisread
<1>8. ASSUME NEW p \in Peers, Connect(p) PROVE AdmittedInv'
  <2>1. RecordsAdmitted'
    BY <1>8 DEF Connect, AdmittedInv, RecordsAdmitted, PeersOf
  <2>2. link'[1].peer = p /\ link'[1].bond = 0 /\ (link'[1].bondable => p \in admitted')
    BY <1>8 DEF Connect
  <2>. QED BY <2>1, <2>2, Zenon DEF AdmittedInv, LinkAdmitted
<1>9. CASE Encrypt
  <2>1. link # <<>> /\ link' = [link EXCEPT ![1].secured = TRUE]
    BY <1>9 DEF Encrypt
  <2>2. /\ link'[1].peer = link[1].peer /\ link'[1].bondable = link[1].bondable
        /\ link'[1].bond = link[1].bond
    BY <1>0, <2>1, LinkFields, LinkChanged
  <2>. QED BY <1>9, <2>1, <2>2, AdmittedKept
           DEF Encrypt, historyVars, AdmittedInv, LinkAdmitted
<1>10. CASE PairUnbonded
  <2>1. link # <<>> /\ link' = [link EXCEPT ![1].secured = TRUE]
    BY <1>10 DEF PairUnbonded
  <2>2. /\ link'[1].peer = link[1].peer /\ link'[1].bondable = link[1].bondable
        /\ link'[1].bond = link[1].bond
    BY <1>0, <2>1, LinkFields, LinkChanged
  <2>. QED BY <1>10, <2>1, <2>2, AdmittedKept
           DEF PairUnbonded, historyVars, AdmittedInv, LinkAdmitted
<1>11. CASE PairBonded
  <2>1. link # <<>> /\ link' = [link EXCEPT ![1].secured = TRUE, ![1].bond = pairings']
        /\ pairings' \in 0 .. MaxPairings
    BY <1>0, <1>11 DEF PairBonded, TypeOK
  <2>2. link'[1].peer = link[1].peer /\ link'[1].bondable = link[1].bondable
    BY <1>0, <2>1, LinkChanged
  <2>. QED BY <1>11, <2>1, <2>2, AdmittedKept DEF PairBonded
<1>12. CASE PersistBond
  <2>1. link # <<>> /\ link' = [link EXCEPT ![1].bond = 0] /\ 0 \in 0 .. MaxPairings
    BY <1>12 DEF PersistBond, Unsaved
  <2>2. /\ link'[1].peer = link[1].peer /\ link'[1].bondable = link[1].bondable
        /\ link'[1].bond = 0
    BY <1>0, <2>1, LinkFields, LinkChanged
  <2>3. LinkAdmitted'
    BY <1>12, <2>1, <2>2, Zenon DEF PersistBond, historyVars, AdmittedInv, LinkAdmitted
  <2>4. link[1].peer \in admitted
    BY <1>12, Zenon DEF PersistBond, Unsaved, AdmittedInv, LinkAdmitted
  <2>5. PeersOf(Upsert(saved, BondToSave)) \subseteq admitted
    BY <1>12, <2>4, BondSaved DEF PersistBond, AdmittedInv, RecordsAdmitted
  <2>6. saved' = Upsert(saved, BondToSave) /\ page'.bonds = saved' /\ admitted' = admitted
    BY <1>12 DEF PersistBond, Stored, historyVars
  <2>. QED BY <2>3, <2>5, <2>6, Zenon DEF AdmittedInv, RecordsAdmitted, PeersOf
<1>13. CASE PersistFails
  <2>1. link # <<>> /\ link' = [link EXCEPT ![1].bond = 0] /\ 0 \in 0 .. MaxPairings
    BY <1>13 DEF PersistFails, Unsaved
  <2>2. /\ link'[1].peer = link[1].peer /\ link'[1].bondable = link[1].bondable
        /\ link'[1].bond = 0
    BY <1>0, <2>1, LinkFields, LinkChanged
  <2>. QED BY <1>13, <2>1, <2>2, AdmittedKept DEF PersistFails
<1>14. CASE Disconnect BY <1>14, AdmittedKept DEF Disconnect, historyVars
<1>15. CASE Reset BY <1>15, AdmittedKept DEF Reset, Restart
<1>16. CASE ResetUnsaved BY <1>16, AdmittedKept DEF ResetUnsaved, Restart
<1>17. CASE ResetInClear BY <1>17, AdmittedKept DEF ResetInClear, Restart
<1>18. CASE User BY <1>18, AdmittedKept DEF User, taskVars, historyVars
<1>19. CASE UNCHANGED vars BY <1>19, AdmittedKept DEF vars, taskVars, historyVars
<1>. QED
  BY <1>1, <1>2, <1>3, <1>4, <1>5, <1>6, <1>7, <1>8, <1>9, <1>10, <1>11, <1>12, <1>13,
     <1>14, <1>15, <1>16, <1>17, <1>18, <1>19 DEF Next, PairingTask, BleTask

\* With the window closed, only a central that connected in an open window
\* since the last clear reads measurements.
THEOREM AccessOnlyFromWindow == Spec => []AccessFromWindow
<1>1. Spec => [](TypeInv /\ AdmittedInv)
  BY TypesInit, TypesStep, AdmittedInit, AdmittedStep, PTL DEF Spec
<1>2. TypeInv /\ AdmittedInv => AccessFromWindow
  <2>. SUFFICES ASSUME TypeInv, AdmittedInv, Authorized, window = 0
                PROVE  link[1].peer \in admitted
    BY DEF AccessFromWindow
  <2>1. link[1].peer \in PeersOf(saved)
    BY DEF Authorized
  <2>. QED BY <2>1 DEF AdmittedInv, RecordsAdmitted
<1>. QED BY <1>1, <1>2, PTL

-----------------------------------------------------------------------------
(* Restoring.                                                              *)

LEMMA RestoresInit == Init => RestoresForce
BY DEF Init, RestoresForce

LEMMA RestoresStep == TypeInv /\ RestoresForce /\ [Next]_vars => RestoresForce'
<1>. SUFFICES ASSUME TypeInv, RestoresForce, [Next]_vars PROVE RestoresForce'
  OBVIOUS
<1>. USE DEF RestoresForce
<1>0. faults \in Nat
  BY DEF TypeInv, TypeOK
<1>1. CASE StartPairing BY <1>1 DEF StartPairing, Stored
<1>2. CASE StartPairingMisread BY <1>2 DEF StartPairingMisread
<1>3. CASE Poll BY <1>3 DEF Poll, taskVars, Stored
<1>4. CASE ClearRecords BY <1>4 DEF ClearRecords, Erased
<1>5. CASE ClearFails BY <1>0, <1>5 DEF ClearFails, Fault, taskVars, Torn, Stored
<1>6. CASE StartBle
  BY <1>6 DEF StartBle, Loaded, historyVars, TypeInv, PageShape, Erased, Torn, Stored
<1>7. CASE StartBleMisread BY <1>7 DEF StartBleMisread
<1>8. ASSUME NEW p \in Peers, Connect(p) PROVE RestoresForce' BY <1>8 DEF Connect, Stored
<1>9. CASE Encrypt BY <1>9 DEF Encrypt, historyVars, Stored
<1>10. CASE PairUnbonded BY <1>10 DEF PairUnbonded, historyVars, Stored
<1>11. CASE PairBonded BY <1>11 DEF PairBonded, Stored
<1>12. CASE PersistBond
  <2>1. saved' # <<>> /\ page' = Stored(saved')
    BY <1>12, BondSaved DEF PersistBond
  <2>. QED BY <2>1 DEF Stored
<1>13. CASE PersistFails
  BY <1>0, <1>13 DEF PersistFails, Fault, Erased, Torn, Stored
<1>14. CASE Disconnect BY <1>14 DEF Disconnect, historyVars, Stored
<1>15. CASE Reset BY <1>15 DEF Reset, Restart
<1>16. CASE ResetUnsaved BY <1>16 DEF ResetUnsaved, Restart
<1>17. CASE ResetInClear BY <1>17 DEF ResetInClear, Restart
<1>18. CASE User BY <1>18 DEF User, taskVars, historyVars, Stored
<1>19. CASE UNCHANGED vars BY <1>19 DEF vars, taskVars, historyVars, Stored
<1>. QED
  BY <1>1, <1>2, <1>3, <1>4, <1>5, <1>6, <1>7, <1>8, <1>9, <1>10, <1>11, <1>12, <1>13,
     <1>14, <1>15, <1>16, <1>17, <1>18, <1>19 DEF Next, PairingTask, BleTask

\* A reset restores what is in force or nothing: no bond that was cleared or
\* replaced comes back.
THEOREM ResetRestoresForce == Spec => []RestoresForce
<1>1. Spec => [](TypeInv /\ RestoresForce)
  BY TypesInit, TypesStep, RestoresInit, RestoresStep, PTL DEF Spec
<1>. QED BY <1>1, PTL

-----------------------------------------------------------------------------
(* The gesture, when the window opens before the clear is due (3 s and     *)
(* 10 s in the firmware's configuration).                                  *)

ThresholdsApart == 0 < HoldPolls /\ (ClearPolls = 0 \/ HoldPolls < ClearPolls)

\* A press that has passed a threshold has been acted on.
PressInv ==
    /\ HoldPolls <= pressed => opened
    /\ 0 < ClearPolls /\ ClearPolls <= pressed => cleared

LEMMA PressSampled ==
    ASSUME ThresholdsApart, TypeGesture, PressInv,
           SampleReleased \/ SampleHeld \/ SampleOpens \/ SampleClears(TRUE) \/ SampleClears(FALSE)
    PROVE  PressInv'
<1>. /\ HoldPolls \in Nat /\ ClearPolls \in Nat /\ pressed \in Nat /\ Longest \in Nat
     /\ Longer \in Nat /\ Longer <= pressed + 1
  BY Thresholds DEF TypeGesture, Longer
<1>1. CASE SampleReleased
  BY <1>1 DEF SampleReleased, PressInv, ThresholdsApart
<1>2. CASE SampleHeld
  BY <1>2 DEF SampleHeld, ClearDue, OpenDue, PressInv
<1>3. CASE SampleOpens
  BY <1>3 DEF SampleOpens, OpenWindow, ClearDue, PressInv
<1>4. CASE SampleClears(TRUE)
  BY <1>4 DEF SampleClears, OpenWindow, PressInv
<1>5. CASE SampleClears(FALSE)
  <2>1. /\ 0 < ClearPolls /\ ClearPolls <= Longer
        /\ pressed' = Longer /\ opened' = opened /\ cleared' = TRUE
    BY <1>5 DEF SampleClears, ClearDue
  <2>2. HoldPolls <= pressed
    BY <2>1 DEF ThresholdsApart
  <2>. QED
    BY <2>1, <2>2 DEF PressInv
<1>. QED
  BY <1>1, <1>2, <1>3, <1>4, <1>5

LEMMA PressInit == ThresholdsApart /\ Init => PressInv
BY DEF Init, InitGesture, ThresholdsApart, PressInv

LEMMA PressStep ==
    ASSUME ThresholdsApart, TypeInv, PressInv, [Next]_vars
    PROVE  PressInv'
<1>0. TypeGesture
  BY DEF TypeInv, TypeOK
<1>1. CASE Poll \/ ClearRecords \/ ClearFails
  BY <1>0, <1>1, PressSampled DEF Poll, ClearRecords, ClearFails
<1>2. CASE Reset \/ ResetUnsaved \/ ResetInClear
  <2>1. pressed' = 0
    BY <1>2 DEF Reset, ResetUnsaved, ResetInClear, Restart
  <2>. QED
    BY <2>1 DEF PressInv, ThresholdsApart
<1>3. CASE StartPairing
  BY <1>3 DEF StartPairing, OpenWindow, PressInv
<1>4. CASE \/ StartPairingMisread \/ BleTask \/ User \/ UNCHANGED vars
  <2>1. UNCHANGED <<pressed, opened, cleared>>
    BY <1>4
       DEF StartPairingMisread, BleTask, StartBle, StartBleMisread, Connect, Encrypt, PairUnbonded,
           PairBonded, PersistBond, PersistFails, Disconnect, User, PushOrRelease, vars, gestureVars
  <2>. QED
    BY <2>1 DEF PressInv
<1>. QED
  BY <1>1, <1>2, <1>3, <1>4 DEF Next, PairingTask

\* The window opens as the device starts or as a press passes a threshold, and
\* never again in the same press (PairingButtonGesture::update), if the two
\* thresholds are apart: a clear that fails in the very poll that should open
\* the window would put the opening off to the next poll.
THEOREM PressOpensOnce == ASSUME ThresholdsApart PROVE Spec => OpensOncePerPress
<1>1. Init => TypeInv /\ PressInv
  BY TypesInit, PressInit
<1>2. TypeInv /\ PressInv /\ [Next]_vars => TypeInv' /\ PressInv'
  BY TypesStep, PressStep
<1>3. TypeInv /\ PressInv /\ [Next]_vars =>
        [window = 0 /\ window' > 0 /\ "pairing" \in started =>
            \/ pressed < HoldPolls /\ HoldPolls <= pressed'
            \/ pressed < ClearPolls /\ ClearPolls <= pressed']_vars
  <2>. SUFFICES ASSUME TypeInv, PressInv, Next, window = 0, window' > 0, "pairing" \in started
                PROVE  \/ pressed < HoldPolls /\ HoldPolls <= pressed'
                       \/ pressed < ClearPolls /\ ClearPolls <= pressed'
    OBVIOUS
  <2>0. /\ HoldPolls \in Nat /\ ClearPolls \in Nat /\ pressed \in Nat /\ Longer \in Nat
        /\ Ticked = 0
    BY Thresholds DEF TypeInv, TypeOK, TypeGesture, Ticked
  <2>1. CASE SampleOpens
    BY <2>0, <2>1 DEF SampleOpens, OpenDue, PressInv
  <2>2. CASE SampleClears(TRUE)
    BY <2>0, <2>2 DEF SampleClears, ClearDue, PressInv
  <2>3. CASE ~SampleOpens /\ ~SampleClears(TRUE)
    BY <2>0, <2>3
       DEF Next, PairingTask, StartPairing, Poll, ClearRecords, ClearFails, SampleReleased,
           SampleHeld, SampleClears, Reset, ResetUnsaved, ResetInClear, Restart,
           StartPairingMisread, BleTask, StartBle, StartBleMisread, Connect, Encrypt, PairUnbonded,
           PairBonded, PersistBond, PersistFails, Disconnect, User, PushOrRelease, gestureVars
  <2>. QED
    BY <2>1, <2>2, <2>3
<1>. QED
  BY <1>1, <1>2, <1>3, PTL DEF Spec, OpensOncePerPress

-----------------------------------------------------------------------------
(* The offer.                                                              *)

\* The pairing task has offered a window when there is nothing to restore, or
\* nothing was restored, and every opening counts as an offer.
OfferInv ==
    /\ opened => offered
    /\ AutoPair /\ "pairing" \in started /\ ~misread =>
          /\ "ble" \notin started /\ page.state # "valid" => offered
          /\ "ble" \in started /\ saved = <<>> => offered

LEMMA OfferInit == Init => OfferInv
BY DEF Init, InitGesture, OfferInv

\* A press long enough to clear has opened the window before.
LEMMA ClearOffered ==
    ASSUME ThresholdsApart, TypeInv, PressInv, OfferInv, ClearDue
    PROVE  offered
<1>1. /\ HoldPolls \in Nat /\ ClearPolls \in Nat /\ pressed \in Nat
      /\ Longer \in Nat /\ Longer <= pressed + 1
  BY Thresholds DEF TypeInv, TypeOK, TypeGesture, Longer
<1>2. HoldPolls <= pressed
  BY <1>1 DEF ClearDue, ThresholdsApart
<1>. QED
  BY <1>2 DEF PressInv, OfferInv

LEMMA OfferStep ==
    ASSUME ThresholdsApart, TypeInv, PressInv, RestoresForce, OfferInv, [Next]_vars
    PROVE  OfferInv'
<1>1. CASE StartPairing
  <2>1. page' = page /\ saved' = saved /\ misread' = misread /\ started' = started \cup {"pairing"}
    BY <1>1 DEF StartPairing
  <2>2. AutoPair /\ page.state # "valid" => offered'
    BY <1>1 DEF StartPairing, RequiresWindow
  <2>3. opened' => offered'
    BY <1>1 DEF StartPairing, OfferInv
  <2>4. "ble" \in started /\ saved = <<>> /\ ~misread => page.state # "valid"
    BY DEF RestoresForce
  <2>5. "ble" \in started' => "ble" \in started
    BY <2>1
  <2>6. AutoPair /\ page'.state # "valid" => offered'
    BY <2>1, <2>2
  <2>7. AutoPair /\ ~misread' /\ "ble" \in started' /\ saved' = <<>> => offered'
    BY <2>1, <2>2, <2>4, <2>5
  <2>. QED
    BY <2>3, <2>6, <2>7 DEF OfferInv
<1>2. CASE StartPairingMisread \/ StartBleMisread
  BY <1>2 DEF StartPairingMisread, StartBleMisread, gestureVars, OfferInv
<1>3. CASE Poll
  <2>1. \/ opened' = FALSE
        \/ opened' = opened
        \/ window' = WindowPolls
    BY <1>3, Zenon DEF Poll, SampleReleased, SampleHeld, SampleOpens, OpenWindow
  <2>2. window' = WindowPolls => window' > 0
    BY GestureAssumption
  <2>3. offered' = (offered \/ window' > 0)
    BY <1>3 DEF Poll
  <2>4. opened' => offered'
    BY <2>1, <2>2, <2>3, Zenon DEF OfferInv
  <2>. QED
    BY <1>3, <2>4 DEF Poll, taskVars, OfferInv
<1>4. CASE ClearRecords
  BY <1>4 DEF ClearRecords, OfferInv
<1>5. CASE ClearFails
  <2>1. offered
    BY <1>5, ClearOffered DEF ClearFails, SampleClears
  <2>. QED
    BY <1>5, <2>1 DEF ClearFails, OfferInv
<1>6. CASE StartBle
  <2>1. Loaded = <<>> => page.state # "valid"
    BY DEF TypeInv, PageShape, Loaded, Erased, Torn, Stored
  <2>. QED
    BY <1>6, <2>1 DEF StartBle, gestureVars, historyVars, OfferInv
<1>7. ASSUME NEW p \in Peers, Connect(p) PROVE OfferInv'
  BY <1>7 DEF Connect, gestureVars, OfferInv
<1>8. CASE Encrypt \/ PairUnbonded \/ PairBonded \/ Disconnect
  BY <1>8 DEF Encrypt, PairUnbonded, PairBonded, Disconnect, gestureVars, historyVars, OfferInv
<1>9. CASE PersistBond
  <2>1. saved' # <<>> /\ "ble" \in started /\ "ble" \in started'
    BY <1>9, BondSaved DEF PersistBond, Unsaved, TypeInv, BeforeStart
  <2>. QED
    BY <1>9, <2>1 DEF PersistBond, gestureVars, historyVars, OfferInv
<1>10. CASE PersistFails
  <2>1. "ble" \in started
    BY <1>10 DEF PersistFails, Unsaved, TypeInv, BeforeStart
  <2>. QED
    BY <1>10, <2>1 DEF PersistFails, gestureVars, OfferInv
<1>11. CASE Reset \/ ResetUnsaved \/ ResetInClear
  BY <1>11 DEF Reset, ResetUnsaved, ResetInClear, Restart, OfferInv
<1>12. CASE User \/ UNCHANGED vars
  BY <1>12 DEF User, PushOrRelease, vars, gestureVars, taskVars, historyVars, OfferInv
<1>. QED
  BY <1>1, <1>2, <1>3, <1>4, <1>5, <1>6, <1>7, <1>8, <1>9, <1>10, <1>11, <1>12
     DEF Next, PairingTask, BleTask

\* A device that restored no bond has offered a window, however the page came
\* to be empty and whichever of the two tasks read it first
\* (should_auto_open_pairing_window, restore_ble_auth_records).
THEOREM EmptyDeviceOffers == ASSUME ThresholdsApart PROVE Spec => []OfferedWhenEmpty
<1>1. Init => TypeInv /\ PressInv /\ RestoresForce /\ OfferInv
  BY TypesInit, PressInit, RestoresInit, OfferInit
<1>2. TypeInv /\ PressInv /\ RestoresForce /\ OfferInv /\ [Next]_vars =>
        TypeInv' /\ PressInv' /\ RestoresForce' /\ OfferInv'
  BY TypesStep, PressStep, RestoresStep, OfferStep
<1>3. OfferInv => OfferedWhenEmpty
  BY DEF OfferInv, OfferedWhenEmpty
<1>. QED
  BY <1>1, <1>2, <1>3, PTL DEF Spec

-----------------------------------------------------------------------------
(* Usable records.                                                         *)

\* A peer has one record.
OnePerPeer(bonds) == \A i, j \in DOMAIN bonds : bonds[i].peer = bonds[j].peer => i = j

\* Every record is the latest bond of its peer, but that of a bond being made.
Latest(bonds) ==
    \A i \in DOMAIN bonds :
        ~(Unsaved /\ bonds[i].peer = link[1].peer) => bonds[i].key = held[bonds[i].peer]

KnownToHost ==
    \A i \in DOMAIN saved :
        ~(Unsaved /\ saved[i].peer = link[1].peer) => saved[i] \in host

UsableInv ==
    /\ OnePerPeer(saved) /\ OnePerPeer(page.bonds)
    /\ Unsaved => held[link[1].peer] = link[1].bond /\ BondToSave \in host
    /\ faults = 0 =>
          Latest(saved) /\ Latest(page.bonds) /\ ("ble" \in started => KnownToHost)

LEMMA NoneUsable == OnePerPeer(<<>>) /\ Latest(<<>>)
BY DEF OnePerPeer, Latest

\* A new record takes the place of its peer's, of the first one or the next.
LEMMA UpsertedOne ==
    ASSUME NEW bonds, IsBonds(bonds), NEW b \in Bond, OnePerPeer(bonds)
    PROVE  /\ OnePerPeer(Upsert(bonds, b))
           /\ \A i \in DOMAIN Upsert(bonds, b) :
                 \/ Upsert(bonds, b)[i] = b
                 \/ /\ i \in DOMAIN bonds /\ Upsert(bonds, b)[i] = bonds[i]
                    /\ bonds[i].peer # b.peer
<1>. bonds \in Seq(Bond) /\ Len(bonds) \in Nat /\ DOMAIN bonds = 1 .. Len(bonds)
  BY DEF IsBonds
<1>1. CASE b.peer \in PeersOf(bonds)
  <2>. DEFINE updated == [i \in DOMAIN bonds |-> IF bonds[i].peer = b.peer THEN b ELSE bonds[i]]
  <2>1. Upsert(bonds, b) = updated
    BY <1>1 DEF Upsert
  <2>2. \A i \in DOMAIN bonds : updated[i].peer = bonds[i].peer
    OBVIOUS
  <2>3. OnePerPeer(updated)
    BY <2>2 DEF OnePerPeer
  <2>4. \A i \in DOMAIN updated :
           updated[i] = b \/ (updated[i] = bonds[i] /\ bonds[i].peer # b.peer)
    OBVIOUS
  <2>5. DOMAIN updated = DOMAIN bonds
    OBVIOUS
  <2>. HIDE DEF updated
  <2>. QED BY <2>1, <2>3, <2>4, <2>5
<1>2. CASE b.peer \notin PeersOf(bonds) /\ Len(bonds) < Capacity
  <2>1. Upsert(bonds, b) = Append(bonds, b)
    BY <1>2 DEF Upsert
  <2>2. /\ DOMAIN Append(bonds, b) = 1 .. Len(bonds) + 1
        /\ \A i \in 1 .. Len(bonds) + 1 :
              Append(bonds, b)[i] = IF i \in DOMAIN bonds THEN bonds[i] ELSE b
    OBVIOUS
  <2>3. \A i \in DOMAIN bonds : bonds[i].peer # b.peer
    BY <1>2 DEF PeersOf
  <2>4. \A i \in 1 .. Len(bonds) + 1 : i \in DOMAIN bonds \/ i = Len(bonds) + 1
    OBVIOUS
  <2>5. \A i, j \in 1 .. Len(bonds) + 1 :
           Append(bonds, b)[i].peer = Append(bonds, b)[j].peer => i = j
    <3>1. Len(bonds) + 1 \notin DOMAIN bonds
      OBVIOUS
    <3>. QED BY <2>2, <2>3, <2>4, <3>1 DEF OnePerPeer
  <2>. QED BY <2>1, <2>2, <2>3, <2>5 DEF OnePerPeer
<1>3. CASE b.peer \notin PeersOf(bonds) /\ ~(Len(bonds) < Capacity)
  <2>1. Upsert(bonds, b) = [bonds EXCEPT ![1] = b]
    BY <1>3 DEF Upsert
  <2>2. \A i \in DOMAIN bonds : bonds[i].peer # b.peer
    BY <1>3 DEF PeersOf
  <2>3. /\ DOMAIN [bonds EXCEPT ![1] = b] = DOMAIN bonds
        /\ \A i \in DOMAIN bonds :
              [bonds EXCEPT ![1] = b][i] = IF i = 1 THEN b ELSE bonds[i]
    OBVIOUS
  <2>. QED BY <2>1, <2>2, <2>3 DEF OnePerPeer
<1>. QED BY <1>1, <1>2, <1>3

LEMMA UsableInit == Init => UsableInv
BY NoneUsable DEF Init, Erased, UsableInv, Unsaved

\* What the steps that save and bond nothing do, as far as it matters here.
Harmless ==
    /\ saved' \in {saved, <<>>} /\ page' \in {page, Erased, Torn} /\ held' = held
    /\ faults' = 0 =>
          /\ faults = 0
          /\ Unsaved' <=> Unsaved
          /\ Unsaved => link'[1].peer = link[1].peer
          /\ "ble" \in started' /\ saved' # <<>> => "ble" \in started /\ host' = host
    /\ Unsaved' =>
          /\ Unsaved /\ host' = host
          /\ link'[1].peer = link[1].peer /\ link'[1].bond = link[1].bond

LEMMA UsableKept == ASSUME UsableInv, Harmless PROVE UsableInv'
<1>1. saved' \in {saved, <<>>} /\ page'.bonds \in {page.bonds, <<>>} /\ held' = held
  BY DEF Harmless, Erased, Torn
<1>2. OnePerPeer(saved)' /\ OnePerPeer(page.bonds)'
  BY <1>1, NoneUsable DEF UsableInv, OnePerPeer
<1>3. Unsaved' => (held[link[1].peer] = link[1].bond)' /\ (BondToSave \in host)'
  BY <1>1 DEF Harmless, UsableInv, BondToSave
<1>4. ASSUME faults' = 0
      PROVE  /\ Latest(saved)' /\ Latest(page.bonds)'
             /\ "ble" \in started' => KnownToHost'
  <2>1. /\ faults = 0 /\ (Unsaved' <=> Unsaved)
        /\ Unsaved => link'[1].peer = link[1].peer
        /\ "ble" \in started' /\ saved' # <<>> => "ble" \in started /\ host' = host
    BY <1>4 DEF Harmless
  <2>2. Latest(saved) /\ Latest(page.bonds) /\ ("ble" \in started => KnownToHost)
    BY <2>1 DEF UsableInv
  <2>3. Latest(saved)'
    BY <1>1, <2>1, <2>2 DEF Latest
  <2>4. Latest(page.bonds)'
    BY <1>1, <2>1, <2>2 DEF Latest
  <2>5. "ble" \in started' => KnownToHost'
    BY <1>1, <2>1, <2>2 DEF KnownToHost
  <2>. QED
    BY <2>3, <2>4, <2>5
<1>. QED
  BY <1>2, <1>3, <1>4 DEF UsableInv

LEMMA UsableStep ==
    ASSUME TypeInv, UsableInv, [Next]_vars
    PROVE  UsableInv'
<1>0. TypeOK /\ faults \in Nat
  BY DEF TypeInv, TypeOK
<1>1. CASE StartPairing \/ Poll \/ User \/ UNCHANGED vars
  <2>1. UNCHANGED <<page, saved, host, link, held, faults>>
        /\ ("ble" \in started' => "ble" \in started)
    BY <1>1 DEF StartPairing, Poll, User, vars, taskVars, historyVars
  <2>. QED
    BY <2>1, UsableKept DEF Harmless, Unsaved
<1>2. CASE StartPairingMisread
  BY <1>0, <1>2, UsableKept DEF StartPairingMisread, Fault, Harmless, Unsaved
<1>3. CASE ClearRecords
  BY <1>3, UsableKept DEF ClearRecords, Harmless, Unsaved
<1>4. CASE ClearFails
  BY <1>0, <1>4, UsableKept DEF ClearFails, Fault, taskVars, Harmless, Unsaved
<1>5. CASE StartBle
  <2>1. /\ saved' = page.bonds /\ page' = page /\ held' = held /\ link' = link /\ faults' = faults
        /\ host' = {page.bonds[i] : i \in DOMAIN page.bonds}
    BY <1>5 DEF StartBle, Loaded, historyVars
  <2>2. ~Unsaved /\ ~Unsaved'
    BY <1>5, <2>1 DEF StartBle, TypeInv, BeforeStart, Unsaved
  <2>3. KnownToHost'
    BY <2>1 DEF KnownToHost
  <2>4. OnePerPeer(saved)' /\ OnePerPeer(page.bonds)'
    BY <2>1 DEF UsableInv, OnePerPeer
  <2>5. faults' = 0 => Latest(saved)' /\ Latest(page.bonds)'
    BY <2>1, <2>2 DEF UsableInv, Latest
  <2>. QED
    BY <2>2, <2>3, <2>4, <2>5 DEF UsableInv
<1>6. CASE StartBleMisread
  BY <1>0, <1>6, UsableKept DEF StartBleMisread, Fault, Harmless, Unsaved
<1>7. ASSUME NEW p \in Peers, Connect(p) PROVE UsableInv'
  <2>1. ~Unsaved /\ ~Unsaved'
    BY <1>7 DEF Connect, Unsaved
  <2>. QED
    BY <1>7, <2>1, UsableKept DEF Connect, Harmless
<1>8. CASE Encrypt \/ PairUnbonded
  <2>1. /\ link # <<>> /\ link' = [link EXCEPT ![1].secured = TRUE]
        /\ UNCHANGED <<page, saved, host, started, held, faults>>
    BY <1>8 DEF Encrypt, PairUnbonded, historyVars
  <2>2. link' # <<>> /\ link'[1].peer = link[1].peer /\ link'[1].bond = link[1].bond
    BY <1>0, <2>1, LinkFields, LinkChanged
  <2>. QED
    BY <2>1, <2>2, UsableKept DEF Harmless, Unsaved
<1>9. CASE PairBonded
  <2>. DEFINE p == link[1].peer
  <2>0. /\ link # <<>> /\ link' = [link EXCEPT ![1].secured = TRUE, ![1].bond = pairings']
        /\ pairings' \in 1 .. MaxPairings /\ ~Unsaved
        /\ held' = [held EXCEPT ![p] = pairings']
        /\ host' = {b \in host : b.peer # p} \cup {[peer |-> p, key |-> pairings']}
        /\ UNCHANGED <<page, saved, started, faults>>
    <3>1. pairings' \in 1 .. MaxPairings
      <4>1. pairings \in Nat /\ pairings < MaxPairings /\ pairings' = pairings + 1
        BY <1>0, <1>9 DEF PairBonded, TypeOK
      <4>. QED
        BY <4>1, AuthorizationAssumption
    <3>2. ~Unsaved
      BY <1>9 DEF PairBonded, Unsaved
    <3>3. UNCHANGED <<page, saved, started, faults>>
      BY <1>9, Zenon DEF PairBonded
    <3>. QED
      BY <1>9, <3>1, <3>2, <3>3, Zenon DEF PairBonded
  <2>1. link' # <<>> /\ link'[1].peer = p /\ link'[1].bond = pairings'
    <3>1. pairings' \in 0 .. MaxPairings
      BY <2>0
    <3>2. (\E l \in Link : link' = <<l>>) /\ link'[1].peer = p /\ link'[1].bond = pairings'
      BY <1>0, <2>0, <3>1, LinkChanged
    <3>. QED
      BY <3>2
  <2>2. p \in Peers /\ held \in [Peers -> 0 .. MaxPairings] /\ IsBonds(saved) /\ IsBonds(page.bonds)
    BY <1>0, <2>0, LinkFields DEF TypeOK
  <2>3. Unsaved' /\ held'[p] = pairings' /\ BondToSave' \in host'
    <3>1. pairings' # 0 /\ held'[p] = pairings'
      BY <2>0, <2>2
    <3>2. BondToSave' = [peer |-> p, key |-> pairings']
      BY <2>1 DEF BondToSave
    <3>3. BondToSave' \in host'
      BY <2>0, <3>2
    <3>. QED
      BY <2>1, <3>1, <3>3 DEF Unsaved
  <2>4. ASSUME NEW bonds, IsBonds(bonds), NEW i \in DOMAIN bonds, bonds[i].peer # p
        PROVE  /\ held'[bonds[i].peer] = held[bonds[i].peer]
               /\ bonds[i] \in host => bonds[i] \in host'
    <3>1. bonds[i].peer \in Peers
      <4>1. bonds[i] \in Bond
        BY <2>4 DEF IsBonds
      <4>. QED
        BY <4>1 DEF Bond
    <3>. QED
      BY <2>0, <2>2, <2>4, <3>1
  <2>. HIDE DEF p
  <2>5. OnePerPeer(saved)' /\ OnePerPeer(page.bonds)'
    BY <2>0 DEF UsableInv, OnePerPeer
  <2>6. ASSUME faults' = 0
        PROVE  /\ Latest(saved)' /\ Latest(page.bonds)'
               /\ "ble" \in started' => KnownToHost'
    <3>1. Latest(saved) /\ Latest(page.bonds) /\ ("ble" \in started => KnownToHost)
      BY <2>0, <2>6 DEF UsableInv
    <3>2. Latest(saved)'
      BY <2>0, <2>1, <2>2, <2>3, <2>4, <3>1 DEF Latest
    <3>3. Latest(page.bonds)'
      BY <2>0, <2>1, <2>2, <2>3, <2>4, <3>1 DEF Latest
    <3>4. "ble" \in started' => KnownToHost'
      BY <2>0, <2>1, <2>2, <2>3, <2>4, <3>1 DEF KnownToHost
    <3>. QED
      BY <3>2, <3>3, <3>4
  <2>. QED
    BY <2>1, <2>3, <2>5, <2>6 DEF UsableInv
<1>10. CASE PersistBond
  <2>0. /\ Unsaved /\ saved' = Upsert(saved, BondToSave) /\ page' = Stored(saved')
        /\ link' = [link EXCEPT ![1].bond = 0]
        /\ UNCHANGED <<host, started, held, faults>>
    BY <1>10 DEF PersistBond, historyVars
  <2>1. BondToSave \in Bond /\ IsBonds(saved) /\ page'.bonds = saved'
    BY <1>0, <2>0, BondSaved DEF TypeOK, Stored
  <2>2. link # <<>> /\ 0 \in 0 .. MaxPairings
    BY <2>0, AuthorizationAssumption DEF Unsaved
  <2>3. link'[1].bond = 0
    BY <1>0, <2>0, <2>2, LinkFields, LinkChanged
  <2>4. ~Unsaved'
    BY <2>3 DEF Unsaved
  <2>5. /\ OnePerPeer(saved')
        /\ \A i \in DOMAIN saved' :
              \/ saved'[i] = BondToSave
              \/ i \in DOMAIN saved /\ saved'[i] = saved[i] /\ saved[i].peer # BondToSave.peer
    BY <2>0, <2>1, UpsertedOne DEF UsableInv
  <2>6. /\ BondToSave.peer = link[1].peer /\ BondToSave.key = held[link[1].peer]
        /\ BondToSave \in host
    BY <2>0 DEF UsableInv, BondToSave
  <2>7. ASSUME faults' = 0, NEW i \in DOMAIN saved'
        PROVE  /\ saved'[i].key = held[saved'[i].peer]
               /\ "ble" \in started => saved'[i] \in host
    <3>1. Latest(saved) /\ ("ble" \in started => KnownToHost)
      BY <2>0, <2>7 DEF UsableInv
    <3>. QED
      BY <2>5, <2>6, <2>7, <3>1 DEF Latest, KnownToHost
  <2>8. faults' = 0 => Latest(saved)' /\ Latest(page.bonds)' /\ ("ble" \in started' => KnownToHost')
    BY <2>0, <2>1, <2>7 DEF Latest, KnownToHost
  <2>9. OnePerPeer(saved)' /\ OnePerPeer(page.bonds)'
    BY <2>1, <2>5 DEF OnePerPeer
  <2>. QED
    BY <2>4, <2>8, <2>9 DEF UsableInv
<1>11. CASE PersistFails
  <2>0. /\ Unsaved /\ page' \in {page, Erased, Torn} /\ link' = [link EXCEPT ![1].bond = 0]
        /\ UNCHANGED <<saved, host, started, held>> /\ faults' = faults + 1
    BY <1>11 DEF PersistFails, Fault
  <2>1. link # <<>> /\ 0 \in 0 .. MaxPairings
    BY <2>0, AuthorizationAssumption DEF Unsaved
  <2>2. link'[1].bond = 0
    BY <1>0, <2>0, <2>1, LinkFields, LinkChanged
  <2>. QED
    BY <1>0, <2>0, <2>2, UsableKept DEF Harmless, Unsaved
<1>12. CASE Disconnect
  <2>1. ~Unsaved /\ ~Unsaved'
    BY <1>12 DEF Disconnect, Unsaved
  <2>. QED
    BY <1>12, <2>1, UsableKept DEF Disconnect, historyVars, Harmless
<1>13. CASE Reset \/ ResetUnsaved \/ ResetInClear
  <2>1. /\ saved' = <<>> /\ ~Unsaved' /\ page' \in {page, Erased, Torn} /\ held' = held
        /\ faults' = 0 => faults = 0 /\ ~Unsaved
    BY <1>0, <1>13 DEF Reset, ResetUnsaved, ResetInClear, Restart, Fault, Unsaved
  <2>. QED
    BY <2>1, UsableKept DEF Harmless
<1>. QED
  BY <1>1, <1>2, <1>3, <1>4, <1>5, <1>6, <1>7, <1>8, <1>9, <1>10, <1>11, <1>12, <1>13
     DEF Next, PairingTask, BleTask

\* A saved record is its peer's latest bond, one per peer, and known to the
\* BLE host, through replacements, clears, resets and bonds made again
\* (upsert_auth_record, restore_ble_auth_records).
THEOREM SavedRecordsUsable == Spec => []SavedUsable
<1>1. Init => TypeInv /\ UsableInv
  BY TypesInit, UsableInit
<1>2. TypeInv /\ UsableInv /\ [Next]_vars => TypeInv' /\ UsableInv'
  BY TypesStep, UsableStep
<1>3. UsableInv => SavedUsable
  BY DEF UsableInv, OnePerPeer, Latest, KnownToHost, SavedUsable
<1>. QED
  BY <1>1, <1>2, <1>3, PTL DEF Spec

================================================================================
