--------------------------- MODULE OneshotProofs ---------------------------
(***************************************************************************)
(* Proofs about the channel of inputs/tokio_59c0044.  The model has no     *)
(* constants: what the proofs add to the run, which visits every state, is *)
(* the reason.  In a channel that was open at first, the bits say at every *)
(* moment which end the cell belongs to.                                   *)
(***************************************************************************)
EXTENDS Oneshot, TLAPS

\* Where the sender is once it has completed the channel, and once it has
\* found it closed.
Completed == {"sleep", "take_read", "take_write", "ok", "err", "panicked", "dropped"}
TakingBack == {"sleep", "take_read", "take_write", "err", "panicked"}

\* Where the receiver is when it has the channel in hand, and when it is at the cell.
Polling == {"state", "take_read", "take_write"}
Taking == {"take_read", "take_write"}

\* VALUE_SENT is set by the sender's last access to the state word.
SentInv == "VALUE_SENT" \in bits <=> tx \in Completed

\* The sender only takes back a value in a closed channel.
ClosedInv == tx \in TakingBack => "CLOSED" \in bits

\* The receiver only goes to the cell when the value was sent, and gives the
\* channel up when it leaves the cell.
PollInv ==
  /\ rx \in Polling => inner
  /\ rx = "got" => ~inner
  /\ rx \in Taking \cup {"got"} \/ last = "consume failed" => "VALUE_SENT" \in bits
  /\ last # "none" => ~inner

\* In a channel that was open at first, CLOSED means that the receiver was
\* dropped before it had polled.
DroppedInv ==
  ~preclosed /\ "CLOSED" \in bits => rx = "dropped" /\ last = "none"

\* The value is in the cell until its owner takes it.
ValueInv ==
  /\ tx = "complete" => value
  /\ ~preclosed /\ tx \in {"sleep", "take_read"} => value
  /\ ~preclosed /\ tx = "take_write" => txSeen
  /\ tx = "ok" => (value <=> rx # "got")
  /\ tx = "ok" /\ rx = "take_write" => rxSeen

\* What was consumed in vain was never sent, and the sender keeps its value.
OutcomeInv ==
  ~preclosed =>
    /\ tx # "panicked"
    /\ last = "consume failed" => tx = "dropped"

Inv == TypeOK /\ SentInv /\ ClosedInv /\ PollInv /\ DroppedInv /\ ValueInv /\ OutcomeInv

-----------------------------------------------------------------------------
LEMMA InvInit == Init => Inv
BY DEF Init, Inv, TypeOK, SentInv, ClosedInv, PollInv, DroppedInv, ValueInv, OutcomeInv,
       TxStatements, TxOutcomes, RxStatements, RxOutcomes, Errors,
       Completed, TakingBack, Polling, Taking

\* Every statement of the three threads keeps the invariant.
LEMMA InvStep == Inv /\ [Next]_vars => Inv'
<1> SUFFICES ASSUME Inv, [Next]_vars PROVE Inv'
  OBVIOUS
<1>0. CASE UNCHANGED vars
  <2>1. /\ preclosed' = preclosed /\ bits' = bits /\ value' = value
        /\ tx' = tx /\ rx' = rx /\ inner' = inner
        /\ txSeen' = txSeen /\ rxSeen' = rxSeen /\ last' = last
    BY <1>0 DEF vars
  <2>2. TypeOK' /\ SentInv' /\ ClosedInv'
    BY <2>1 DEF Inv, TypeOK, SentInv, ClosedInv
  <2>3. PollInv' /\ DroppedInv'
    BY <2>1 DEF Inv, PollInv, DroppedInv
  <2>4. ValueInv' /\ OutcomeInv'
    BY <2>1 DEF Inv, ValueInv, OutcomeInv
  <2> QED
    BY <2>2, <2>3, <2>4 DEF Inv
<1> USE DEF Inv, TypeOK, SentInv, ClosedInv, PollInv, DroppedInv, ValueInv, OutcomeInv,
            TxStatements, TxOutcomes, RxStatements, RxOutcomes, Errors,
            Completed, TakingBack, Polling, Taking
<1>1. CASE Close
  BY <1>1 DEF Close
<1>2. CASE SpawnSender
  BY <1>2 DEF SpawnSender
<1>3. CASE SpawnReceiver
  BY <1>3 DEF SpawnReceiver
<1>4. CASE Send
  BY <1>4 DEF Send
<1>5. CASE SendStore
  BY <1>5 DEF SendStore
<1>6. CASE SendComplete
  BY <1>6 DEF SendComplete, WasClosed
<1>7. CASE SendSleep
  BY <1>7 DEF SendSleep
<1>8. CASE SendTakeRead
  BY <1>8 DEF SendTakeRead
<1>9. CASE SendTakeWrite
  BY <1>9 DEF SendTakeWrite
<1>10. CASE SenderDrop
  BY <1>10 DEF SenderDrop
<1>11. CASE TryRecv
  BY <1>11 DEF TryRecv
<1>12. CASE TryRecvGone
  BY <1>12 DEF TryRecvGone
<1>13. CASE TryRecvState
  BY <1>13 DEF TryRecvState
<1>14. CASE TryRecvTakeRead
  BY <1>14 DEF TryRecvTakeRead
<1>15. CASE TryRecvTakeWrite
  BY <1>15 DEF TryRecvTakeWrite
<1>16. CASE ReceiverDrop
  BY <1>16 DEF ReceiverDrop
<1> HIDE DEF Inv, TypeOK, SentInv, ClosedInv, PollInv, DroppedInv, ValueInv, OutcomeInv,
             TxStatements, TxOutcomes, RxStatements, RxOutcomes, Errors,
             Completed, TakingBack, Polling, Taking
<1> QED
  BY <1>1, <1>2, <1>3, <1>4, <1>5, <1>6, <1>7, <1>8, <1>9, <1>10, <1>11,
     <1>12, <1>13, <1>14, <1>15, <1>16, <1>0
     DEF Next, Main, Sender, Receiver, Ended

\* The invariant holds at every moment.
LEMMA InvAlways == Spec => []Inv
BY InvInit, InvStep, PTL DEF Spec

\* The variables keep their types: no statement leaves the program texts of the
\* two ends.
THEOREM TypeInvariant == Spec => []TypeOK
<1>1. Inv => TypeOK
  BY DEF Inv
<1> QED
  BY <1>1, InvAlways, PTL

\* A value sent through a channel that was open at first never goes to both
\* ends: a sender that has its value back has found the channel closed, by a
\* receiver that was dropped without having polled.  What send says it has sent
\* is with the receiver or in the cell, even if the receiver gave up too early.
THEOREM OneOwnerAlways == Spec => []OneOwner
<1>1. Inv => OneOwner
  BY DEF Inv, ClosedInv, DroppedInv, ValueInv, TakingBack, OneOwner
<1> QED
  BY <1>1, InvAlways, PTL

\* In such a channel the two ends are never at the cell together, the unwrap in
\* send does not fail, and the receiver consumes in vain only if the sender was
\* dropped.
THEOREM CellNeverShared == Spec => []CellNotShared
<1>1. Inv => CellNotShared
  BY DEF Inv, SentInv, ClosedInv, PollInv, DroppedInv, OutcomeInv, Completed, TakingBack,
         Taking, CellNotShared
<1> QED
  BY <1>1, InvAlways, PTL
=============================================================================
