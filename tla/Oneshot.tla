------------------------------- MODULE Oneshot -------------------------------
(***************************************************************************)
(* inputs/tokio_59c0044: a program to be traced.  A channel for one value, *)
(* between a sender and a receiver that share an atomic state word and a   *)
(* cell that no lock protects.  The cell is written before the bit         *)
(* VALUE_SENT is set, and taken by whoever the bits say it belongs to.     *)
(*                                                                         *)
(* The two ends are used as their interface allows: the sender sends or is *)
(* dropped, the receiver polls and is dropped.  Polling gives the channel  *)
(* up, whatever the outcome.  A channel is open at first (channel), but    *)
(* main closes the one it makes before it starts the two threads; both     *)
(* kinds of start are taken here.                                          *)
(*                                                                         *)
(* Option::take reads the cell and then writes it, in two steps; two       *)
(* threads that are at it both are a data race.  Each then gets what it    *)
(* has read itself, as with the machine words of this program.             *)
(***************************************************************************)

VARIABLES
  preclosed,  \* has main closed the channel before it started the threads?
  bits,       \* state: the subset of {"VALUE_SENT", "CLOSED"} that is set
  value,      \* the cell: TRUE stands for Some(t)
  tx,         \* the statement the sender is at, or its outcome
  rx,         \* the statement the receiver is at, or its outcome
  inner,      \* does the receiver still have the channel?
  txSeen,     \* what the sender has read from the cell
  rxSeen,     \* what the receiver has read from the cell
  last        \* the error the receiver's last poll returned

vars == <<preclosed, bits, value, tx, rx, inner, txSeen, rxSeen, last>>

TxOutcomes == {"ok", "err", "panicked", "dropped"}
TxStatements == {"unborn", "start", "store", "complete", "sleep", "take_read", "take_write"}
RxOutcomes == {"got", "dropped"}
RxStatements == {"unborn", "idle", "state", "take_read", "take_write"}
Errors == {"none", "closed", "not complete not closed", "consume failed"}

Init ==
  /\ preclosed = FALSE
  /\ bits = {}
  /\ value = FALSE
  /\ tx = "unborn" /\ rx = "unborn"
  /\ inner = TRUE
  /\ txSeen = FALSE /\ rxSeen = FALSE
  /\ last = "none"

-----------------------------------------------------------------------------
(* main *)

Close ==
  /\ tx = "unborn" /\ ~preclosed
  /\ preclosed' = TRUE
  /\ bits' = bits \cup {"CLOSED"}
  /\ UNCHANGED <<value, tx, rx, inner, txSeen, rxSeen, last>>

SpawnSender ==
  /\ tx = "unborn" /\ tx' = "start"
  /\ UNCHANGED <<preclosed, bits, value, rx, inner, txSeen, rxSeen, last>>

SpawnReceiver ==
  /\ tx # "unborn" /\ rx = "unborn" /\ rx' = "idle"
  /\ UNCHANGED <<preclosed, bits, value, tx, inner, txSeen, rxSeen, last>>

-----------------------------------------------------------------------------
(* Sender *)

\* Mutant: the channel is completed before the cell is written.
SendCompletesFirst ==
  /\ tx = "start" /\ tx' = "store"
  /\ bits' = bits \cup {"VALUE_SENT"}
  /\ UNCHANGED <<preclosed, value, rx, inner, txSeen, rxSeen, last>>

\* send takes the channel out of self, so that drop will find none.
Send ==
  /\ tx = "start" /\ tx' = "store"
  /\ UNCHANGED <<preclosed, bits, value, rx, inner, txSeen, rxSeen, last>>

SendStore ==
  /\ tx = "store" /\ tx' = "complete"
  /\ value' = TRUE
  /\ UNCHANGED <<preclosed, bits, rx, inner, txSeen, rxSeen, last>>

\* Mutant: the sender takes its value back when the channel was not closed.
WasClosedNegated == "CLOSED" \notin bits

\* complete: what fetch_or returned has the bit CLOSED.
WasClosed == "CLOSED" \in bits

SendComplete ==
  /\ tx = "complete" /\ tx' = IF WasClosed THEN "sleep" ELSE "ok"
  /\ bits' = bits \cup {"VALUE_SENT"}
  /\ UNCHANGED <<preclosed, value, rx, inner, txSeen, rxSeen, last>>

SendSleep ==
  /\ tx = "sleep" /\ tx' = "take_read"
  /\ UNCHANGED <<preclosed, bits, value, rx, inner, txSeen, rxSeen, last>>

SendTakeRead ==
  /\ tx = "take_read" /\ tx' = "take_write"
  /\ txSeen' = value
  /\ UNCHANGED <<preclosed, bits, value, rx, inner, rxSeen, last>>

\* Mutant: the option is returned as it is.
SendTakeWriteNoUnwrap ==
  /\ tx = "take_write" /\ tx' = IF txSeen THEN "err" ELSE "none"
  /\ value' = FALSE
  /\ UNCHANGED <<preclosed, bits, rx, inner, txSeen, rxSeen, last>>

\* Err(consume_value().unwrap())
SendTakeWrite ==
  /\ tx = "take_write" /\ tx' = IF txSeen THEN "err" ELSE "panicked"
  /\ value' = FALSE
  /\ UNCHANGED <<preclosed, bits, rx, inner, txSeen, rxSeen, last>>

\* A sender that is dropped without having sent completes the channel, too.
SenderDrop ==
  /\ tx = "start" /\ tx' = "dropped"
  /\ bits' = bits \cup {"VALUE_SENT"}
  /\ UNCHANGED <<preclosed, value, rx, inner, txSeen, rxSeen, last>>

-----------------------------------------------------------------------------
(* Receiver *)

\* try_recv: nothing to be had once the channel has been given up.
TryRecv ==
  /\ rx = "idle" /\ inner /\ rx' = "state"
  /\ UNCHANGED <<preclosed, bits, value, tx, inner, txSeen, rxSeen, last>>

TryRecvGone ==
  /\ rx = "idle" /\ ~inner /\ rx' = "dropped"
  /\ UNCHANGED <<preclosed, bits, value, tx, inner, txSeen, rxSeen, last>>

\* Complete is tested before closed; both errors give up the channel.
TryRecvState ==
  /\ rx = "state"
  /\ IF "VALUE_SENT" \in bits
       THEN rx' = "take_read" /\ UNCHANGED <<inner, last>>
       ELSE /\ rx' = "idle" /\ inner' = FALSE
            /\ last' = IF "CLOSED" \in bits THEN "closed" ELSE "not complete not closed"
  /\ UNCHANGED <<preclosed, bits, value, tx, txSeen, rxSeen>>

TryRecvTakeRead ==
  /\ rx = "take_read" /\ rx' = "take_write"
  /\ rxSeen' = value
  /\ UNCHANGED <<preclosed, bits, value, tx, inner, txSeen, last>>

\* Mutant: a poll that found the cell empty keeps the channel, and polls again.
TryRecvTakeWriteKeeps ==
  /\ rx = "take_write" /\ rx' = IF rxSeen THEN "got" ELSE "idle"
  /\ value' = FALSE
  /\ inner' = ~rxSeen
  /\ last' = IF rxSeen THEN last ELSE "consume failed"
  /\ UNCHANGED <<preclosed, bits, tx, txSeen, rxSeen>>

TryRecvTakeWrite ==
  /\ rx = "take_write" /\ rx' = IF rxSeen THEN "got" ELSE "idle"
  /\ value' = FALSE
  /\ inner' = FALSE
  /\ last' = IF rxSeen THEN last ELSE "consume failed"
  /\ UNCHANGED <<preclosed, bits, tx, txSeen, rxSeen>>

\* A receiver that is dropped without having polled closes the channel.
ReceiverDrop ==
  /\ rx = "idle" /\ rx' = "dropped"
  /\ bits' = IF inner THEN bits \cup {"CLOSED"} ELSE bits
  /\ inner' = FALSE
  /\ UNCHANGED <<preclosed, value, tx, txSeen, rxSeen, last>>

Ended == tx \in TxOutcomes /\ rx \in RxOutcomes /\ UNCHANGED vars

-----------------------------------------------------------------------------
Main == Close \/ SpawnSender \/ SpawnReceiver

Sender ==
  \/ Send \/ SendStore \/ SendComplete \/ SendSleep \/ SendTakeRead \/ SendTakeWrite
  \/ SenderDrop

Receiver ==
  \/ TryRecv \/ TryRecvGone \/ TryRecvState \/ TryRecvTakeRead \/ TryRecvTakeWrite
  \/ ReceiverDrop

Next == Main \/ Sender \/ Receiver \/ Ended

Spec == Init /\ [][Next]_vars

\* All three threads run; main need not close the channel.
FairSpec == Spec /\ WF_vars(SpawnSender \/ SpawnReceiver) /\ WF_vars(Sender) /\ WF_vars(Receiver)

-----------------------------------------------------------------------------
TypeOK ==
  /\ preclosed \in BOOLEAN
  /\ bits \subseteq {"VALUE_SENT", "CLOSED"}
  /\ value \in BOOLEAN
  /\ tx \in TxStatements \cup TxOutcomes
  /\ rx \in RxStatements \cup RxOutcomes
  /\ inner \in BOOLEAN /\ txSeen \in BOOLEAN /\ rxSeen \in BOOLEAN
  /\ last \in Errors

(***************************************************************************)
(* In a channel that is open when its ends are handed out, the value goes  *)
(* to one of them at most: back to the sender only if the receiver dropped *)
(* the channel, and then the receiver does not have it.  In any channel, a *)
(* value of which send has said that it was sent is with the receiver or   *)
(* still in the cell.  It stays there for ever if the receiver has given   *)
(* the channel up without closing it: send is wrong about that, but the    *)
(* value is not lost before the channel is.                                *)
(***************************************************************************)
OneOwner ==
  /\ ~preclosed => ~(tx = "err" /\ rx = "got")
  /\ tx = "ok" => (value <=> rx # "got")

(***************************************************************************)
(* In such a channel the two ends are never at the cell together.  So the  *)
(* unwrap in send never fails, and the receiver only fails to consume a    *)
(* value if none was sent.                                                 *)
(***************************************************************************)
CellNotShared ==
  ~preclosed =>
    /\ ~(tx \in {"store", "take_read", "take_write"} /\ rx \in {"take_read", "take_write"})
    /\ tx # "panicked"
    /\ last = "consume failed" => tx = "dropped"

(***************************************************************************)
(* Neither end waits for the other: the receiver's loop ends, and send     *)
(* returns, whatever the other end does.                                   *)
(***************************************************************************)
BothEnd == <>(tx \in TxOutcomes /\ rx \in RxOutcomes)

(***************************************************************************)
(* consume_value().unwrap() in send: a sender that finds its channel       *)
(* closed still has its value.                                             *)
(***************************************************************************)
SenderHasValue == tx # "panicked"
=============================================================================
