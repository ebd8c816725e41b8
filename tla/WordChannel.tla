---------------------------- MODULE WordChannel ----------------------------
(***************************************************************************)
(* What the mailbox promises its user: a lossless FIFO channel of payload  *)
(* words that a reset empties.  The k-th word sent since the last reset is *)
(* the number k, so the channel is described by the number of words sent   *)
(* and the sequence of words received.                                     *)
(***************************************************************************)
EXTENDS Naturals, Sequences

VARIABLES session, sent, received

chanVars == <<session, sent, received>>

ChanInit == session = 0 /\ sent = 0 /\ received = <<>>

Send == sent' = sent + 1 /\ UNCHANGED <<session, received>>

Receive ==
    /\ Len(received) < sent
    /\ received' = Append(received, Len(received) + 1)
    /\ UNCHANGED <<session, sent>>

Reset == session' = session + 1 /\ sent' = 0 /\ received' = <<>>

ChanNext == Send \/ Receive \/ Reset

ChanSpec == ChanInit /\ [][ChanNext]_chanVars
=============================================================================
