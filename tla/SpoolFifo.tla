------------------------------ MODULE SpoolFifo ------------------------------
(***************************************************************************)
(* What the storage layer promises its clients: a bounded first-in         *)
(* first-out log of measurements.  An append adds the newest record and    *)
(* gives up only the oldest ones, as many as it takes for the rest to fit; *)
(* an acknowledgement removes exactly the oldest; a restart loses nothing. *)
(*                                                                         *)
(* FlashSpool, the flash log the firmware keeps, is checked to implement   *)
(* this specification (FlashSpool!Fifo).                                   *)
(***************************************************************************)
EXTENDS SpoolRecords

VARIABLES
    queue,   \* the pending records, oldest first
    next     \* the sequence number the next record gets

vars == <<queue, next>>

Init == queue = <<>> /\ next = 0

AppendRecord(p) ==
    /\ queue' = Fitting(Push(queue, [sequence |-> next, payload |-> p]))
    /\ next' = NextOf(next)

AcknowledgeOldest ==
    /\ queue # <<>>
    /\ queue' = Tail(queue)
    /\ UNCHANGED next

\* After a restart the numbering may go on from another number, as long as it
\* is above every record still pending.
Restart ==
    /\ next' \in Sequence
    /\ \A i \in DOMAIN queue : queue[i].sequence < next'
    /\ UNCHANGED queue

Next == (\E p \in Payloads : AppendRecord(p)) \/ AcknowledgeOldest \/ Restart

Spec == Init /\ [][Next]_vars
=============================================================================
