------------------------------ MODULE Transfer ------------------------------
(***************************************************************************)
(* The handlers of a client together with the peer they answer.            *)
(*                                                                         *)
(* The peer is outside src/; it is what the protocol asks of a sender.  It *)
(* sends a new packet only inside the window of the last ACK it took, and  *)
(* sends the oldest packet that is not acknowledged again.  The network    *)
(* loses, repeats, delays and reorders both directions: any packet sent so *)
(* far may arrive, and the peer hears one ACK of an answer or none.  The   *)
(* window field of a NACK is not used.                                     *)
(***************************************************************************)
EXTENDS Handler

VARIABLES
  sent,   \* the packets 0, ..., sent - 1 have been sent at least once
  acked,  \* those before acked are acknowledged
  edge    \* a packet from edge on is outside the window of the last ACK

peer == <<sent, acked, edge>>

\* A sender may send one packet before it has heard of a window.
TransferInit ==
  /\ Init
  /\ sent = 0
  /\ acked = 0
  /\ edge = 1

SendNew ==
  /\ sent <= LastPacket
  /\ sent < edge
  /\ sent' = sent + 1
  /\ UNCHANGED <<vars, acked, edge>>

\* An ACK older than one already taken is dropped.
Hear(r) ==
  /\ r.type = "ACK"
  /\ r.upto >= acked
  /\ acked' = r.upto
  /\ edge' = r.upto + r.window
  /\ UNCHANGED sent

Arrival(h) ==
  /\ \E n \in Deliverable : n < sent /\ Arrive(h, n)
  /\ UNCHANGED peer

Answer(h) ==
  /\ Send(h)
  /\ (\E r \in replies[h] : Hear(r)) \/ UNCHANGED peer

HandlerStep(h) == (Local(h) /\ UNCHANGED peer) \/ Arrival(h) \/ Answer(h)

Request(h) == (Pop(h) \/ PopStop(h)) /\ UNCHANGED peer

TransferNext == SendNew \/ \E h \in Handlers : Request(h) \/ HandlerStep(h)

TransferVars == <<vars, peer>>

-----------------------------------------------------------------------------
(* Fairness *)

\* Requests with packets keep coming.
PopPackets(h) == Pop(h) /\ todo'[h] > 0 /\ UNCHANGED peer

\* The packet the timer of the peer has sent again gets through.
Resent ==
  /\ acked < sent
  /\ \E h \in Handlers : \/ AckOutOfWindow(h, acked)
                         \/ AckDuplicate(h, acked)
                         \/ Store(h, acked)
  /\ UNCHANGED peer

\* The newest ACK of an answer gets through.
Heard(h) ==
  /\ Send(h)
  /\ \E r \in replies[h] : /\ \A q \in replies[h] : q.upto <= r.upto
                           /\ Hear(r)

\* A handler that has a request keeps running, and nothing is assumed about
\* which handler a free mutex goes to.  The peer sends what it may send, and
\* the network does not lose every copy of a packet or every ACK.
TransferSpec ==
  /\ TransferInit /\ [][TransferNext]_TransferVars
  /\ WF_TransferVars(SendNew)
  /\ SF_TransferVars(Resent)
  /\ \A h \in Handlers : /\ WF_TransferVars(HandlerStep(h))
                         /\ SF_TransferVars(PopPackets(h))
                         /\ SF_TransferVars(Heard(h))

-----------------------------------------------------------------------------
(* Properties *)

\* The places a short write lost: its nodes were released by the drain, and
\* the early return of hd_run_once skips the subtraction from length.
Forgotten == window.length - (Cardinality(Occupied(window)) + Drained)

\* With a peer that obeys the window, the transfer makes progress through
\* every loss, repetition and reordering of packets and ACKs, and through
\* short writes: the client becomes inactive, unless the handlers are stopped
\* first, or short writes have lost the places of a whole window, after which
\* hd_run_once advertises no place (MAX_WINDOW_SIZE - window->length).
TransferEnds ==
  <>(\/ ~active
     \/ \A h \in Handlers : pc[h] = "exit"
     \/ Forgotten >= MAX_WINDOW_SIZE)
=============================================================================
