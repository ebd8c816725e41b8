------------------------------ MODULE Mailbox ------------------------------
(***************************************************************************)
(* The PULP-to-host mailbox: the hardware FIFO of axi_lite_mailbox.sv with *)
(* its latched read interrupt, the interrupt handler pulp_mbox_intr(), the *)
(* read() entry point pulp_mbox_read() and the reset path of               *)
(* support/pulp-driver.  The accelerator sends transfers: a TO_RUNTIME     *)
(* header that carries the number of payload words, then the payload; or a *)
(* single RAB request word that the driver serves itself.  The driver      *)
(* strips the headers and buffers the payload in the ring mbox_fifo, from  *)
(* which one user thread reads.                                            *)
(*                                                                         *)
(* The accelerator, the interrupt handler, the reading thread and the      *)
(* thread that issues ioctls are four concurrent actors.  A section under  *)
(* mbox_fifo_mtx that contains no call which could sleep or drop the lock  *)
(* is one step; a loop over the hardware FIFO is one step per word.        *)
(***************************************************************************)
EXTENDS Integers, Sequences

CONSTANTS
    HwDepth,          \* MailboxDepth of the hardware FIFO
    RingSize,         \* 2 * MBOX_FIFO_DEPTH, the length of mbox_fifo
    MaxTransfer,      \* bound: payload words of one transfer
    MaxMsgs,          \* bound: transfers and RAB requests of one session
    MaxResets,        \* bound: CTRL_RESET ioctls
    MaxRead,          \* bound: words asked for by one read()
    ConcurrentReset,  \* may another thread reset while a read() is in flight?
    LateService       \* may the handler still serve a request when, 100 ms
                      \* after MBOX_OFF, CTRL_RESET clears the mailbox?

ASSUME MailboxAssumption ==
    /\ HwDepth \in Nat \ {0}
    /\ RingSize \in Nat \ {0}
    /\ MaxTransfer \in Nat \ {0}
    /\ MaxRead \in Nat \ {0}
    /\ MaxMsgs \in Nat
    /\ MaxResets \in Nat
    /\ ConcurrentReset \in BOOLEAN /\ LateService \in BOOLEAN

VARIABLES
    \* hardware mailbox, host read side
    hw,        \* the FIFO from the accelerator to the host
    irqs,      \* latched read-threshold interrupt status
    irqen,     \* read-threshold interrupt enabled
    \* driver state
    mode,      \* mbox_mode
    ring,      \* mbox_fifo
    wr, rd,    \* mbox_fifo_wr, mbox_fifo_rd as indices
    full,      \* mbox_fifo_full
    nwritten,  \* n_words_written
    nto,       \* n_words_to_write
    lock,      \* holder of mbox_fifo_mtx across steps
    \* interrupt handler
    ipc,       \* where pulp_mbox_intr stands
    istored,   \* n_words_written_tmp > 0
    ireq,      \* the request it serves outside the lock
    \* reading thread
    rpc,       \* where pulp_mbox_read stands
    count,     \* words it will copy
    src,       \* ring index it copies from
    copied,    \* words copied so far
    rreq,      \* the request it serves outside the lock
    \* ioctl thread
    cpc,       \* where CTRL_RESET stands
    \* accelerator
    dleft,     \* payload words of the current transfer still to be sent
    dwait,     \* waits for HOST_READY after a RAB request
    \* history
    sess,      \* number of resets so far
    nmsg,      \* transfers and requests started in this session
    nsent,     \* payload words sent in this session
    got        \* words copied to user space in this session

hwVars     == <<hw, irqs, irqen>>
fifoVars   == <<ring, wr, rd, full>>
frameVars  == <<nwritten, nto>>
isrVars    == <<ipc, istored, ireq>>
readerVars == <<rpc, count, src, copied, rreq>>
devVars    == <<dleft, dwait, nmsg, nsent>>
vars == <<hwVars, mode, fifoVars, frameVars, lock, isrVars, readerVars, cpc,
          devVars, sess, got>>
----------------------------------------------------------------------------
(***************************************************************************)
(* A word on the mailbox.  For a header, n is its word count; for a        *)
(* payload word n is the number of payload words that follow it in its     *)
(* transfer.  seq numbers the payload of a session: it is the number of    *)
(* payload words sent up to and including this word.                       *)
(***************************************************************************)
Kinds == {"TO_RUNTIME", "RAB", "PAYLOAD"}
Word  == [kind : Kinds, n : Nat, sess : Nat, seq : Nat]

NoWord == [kind |-> "PAYLOAD", n |-> 0, sess |-> 0, seq |-> 0]
NoReq  == "none"
Ring   == 0 .. RingSize - 1

\* Mutant: the wrap-around test is off by one.
IncOffByOne(p) == IF p + 1 > RingSize THEN 0 ELSE p + 1

Inc(p)  == IF p + 1 >= RingSize THEN 0 ELSE p + 1
RingEmpty == wr = rd /\ ~full

Init ==
    /\ hw = <<>> /\ irqs = FALSE /\ irqen = TRUE
    /\ mode = "DRIVER"
    /\ ring = [p \in Ring |-> NoWord]
    /\ wr = 0 /\ rd = 0 /\ full = FALSE
    /\ nwritten = 0 /\ nto = 0
    /\ lock = "none"
    /\ ipc = "idle" /\ istored = FALSE /\ ireq = NoReq
    /\ rpc = "idle" /\ count = 0 /\ src = 0 /\ copied = 0 /\ rreq = NoReq
    /\ cpc = "running"
    /\ dleft = 0 /\ dwait = FALSE
    /\ sess = 0 /\ nmsg = 0 /\ nsent = 0 /\ got = <<>>
----------------------------------------------------------------------------
(***************************************************************************)
(* Accelerator.  mailbox_write() waits until the FIFO is not full, then    *)
(* writes one word.                                                        *)
(***************************************************************************)
DevWrite(w) ==
    /\ cpc \in {"running", "off"}
    /\ Len(hw) < HwDepth
    /\ hw' = Append(hw, w)
    /\ UNCHANGED <<irqs, irqen, mode, fifoVars, frameVars, lock, isrVars,
                   readerVars, cpc, sess, got>>

\* Starts a transfer of n payload words to the host runtime.
DevHeader(n) ==
    /\ dleft = 0 /\ ~dwait
    /\ nmsg < MaxMsgs
    /\ DevWrite([kind |-> "TO_RUNTIME", n |-> n, sess |-> sess, seq |-> nsent])
    /\ dleft' = n
    /\ nmsg' = nmsg + 1
    /\ UNCHANGED <<dwait, nsent>>

DevPayload ==
    /\ dleft > 0
    /\ DevWrite([kind |-> "PAYLOAD", n |-> dleft - 1, sess |-> sess,
                 seq |-> nsent + 1])
    /\ dleft' = dleft - 1
    /\ nsent' = nsent + 1
    /\ UNCHANGED <<dwait, nmsg>>

\* Asks the driver to update or switch the RAB and waits for HOST_READY.
DevRab ==
    /\ dleft = 0 /\ ~dwait
    /\ nmsg < MaxMsgs
    /\ DevWrite([kind |-> "RAB", n |-> 0, sess |-> sess, seq |-> nsent])
    /\ dwait' = TRUE
    /\ nmsg' = nmsg + 1
    /\ UNCHANGED <<dleft, nsent>>

\* The read-interrupt status is set again in every cycle in which the FIFO
\* holds more words than the threshold, whose reset value 0 nobody changes.
HwLatch ==
    /\ ~irqs /\ hw # <<>>
    /\ irqs' = TRUE
    /\ UNCHANGED <<hw, irqen, mode, fifoVars, frameVars, lock, isrVars,
                   readerVars, cpc, devVars, sess, got>>
----------------------------------------------------------------------------
(***************************************************************************)
(* One iteration of the loop that moves words from the hardware FIFO into  *)
(* mbox_fifo; pulp_mbox_intr and pulp_mbox_read have a copy of it each.    *)
(***************************************************************************)
LoopCond == hw # <<>> /\ ~full
NewTransfer == nwritten = nto

PopHeader ==
    /\ LoopCond /\ NewTransfer
    /\ Head(hw).kind = "TO_RUNTIME"
    /\ hw' = Tail(hw)
    /\ nto' = Head(hw).n
    /\ nwritten' = 0
    /\ UNCHANGED fifoVars

\* Any other request type is served after the lock has been dropped.
PopRequest ==
    /\ LoopCond /\ NewTransfer
    /\ Head(hw).kind # "TO_RUNTIME"
    /\ hw' = Tail(hw)
    /\ UNCHANGED <<fifoVars, frameVars>>

\* Mutant: forgets to set mbox_fifo_full.
PopPayloadNeverFull ==
    /\ LoopCond /\ ~NewTransfer
    /\ hw' = Tail(hw)
    /\ ring' = [ring EXCEPT ![wr] = Head(hw)]
    /\ wr' = Inc(wr)
    /\ nwritten' = nwritten + 1
    /\ UNCHANGED <<rd, nto, full>>

PopPayload ==
    /\ LoopCond /\ ~NewTransfer
    /\ hw' = Tail(hw)
    /\ ring' = [ring EXCEPT ![wr] = Head(hw)]
    /\ wr' = Inc(wr)
    /\ full' = (Inc(wr) = rd)
    /\ nwritten' = nwritten + 1
    /\ UNCHANGED <<rd, nto>>

\* pulp_rab_update and pulp_rab_switch end by writing HOST_READY.
ServeRequest(req) == dwait' = (IF req = "RAB" THEN FALSE ELSE dwait)
----------------------------------------------------------------------------
(***************************************************************************)
(* pulp_mbox_intr, entered while the interrupt line is high.               *)
(***************************************************************************)
IsrEnter ==
    /\ ipc = "idle" /\ irqs /\ irqen
    /\ ipc' = "entered"
    /\ UNCHANGED <<hwVars, mode, fifoVars, frameVars, lock, istored, ireq,
                   readerVars, cpc, devVars, sess, got>>

IsrCheckMode ==
    /\ ipc = "entered"
    /\ ipc' = (IF mode = "OFF" THEN "turnoff" ELSE "status")
    /\ UNCHANGED <<hwVars, mode, fifoVars, frameVars, lock, istored, ireq,
                   readerVars, cpc, devVars, sess, got>>

\* pulp_mbox_set_mode(MBOX_OFF) from the handler.
IsrTurnOff ==
    /\ ipc = "turnoff"
    /\ mode' = "OFF" /\ irqen' = FALSE
    /\ ipc' = "idle"
    /\ UNCHANGED <<hw, irqs, fifoVars, frameVars, lock, istored, ireq,
                   readerVars, cpc, devVars, sess, got>>

\* Reads the status register; without a read interrupt only an error or
\* write interrupt is acknowledged.
IsrStatus ==
    /\ ipc = "status"
    /\ ipc' = (IF irqs THEN "lock" ELSE "idle")
    /\ istored' = FALSE
    /\ UNCHANGED <<hwVars, mode, fifoVars, frameVars, lock, ireq, readerVars,
                   cpc, devVars, sess, got>>

IsrLock ==
    /\ ipc = "lock" /\ lock = "none"
    /\ lock' = "isr" /\ ipc' = "loop"
    /\ UNCHANGED <<hwVars, mode, fifoVars, frameVars, istored, ireq,
                   readerVars, cpc, devVars, sess, got>>

IsrLoop ==
    /\ ipc = "loop"
    /\ \/ /\ PopHeader
          /\ UNCHANGED <<lock, isrVars>>
       \/ /\ PopRequest
          /\ ireq' = Head(hw).kind /\ ipc' = "rab" /\ lock' = "none"
          /\ UNCHANGED istored
       \/ /\ PopPayload
          /\ istored' = TRUE
          /\ UNCHANGED <<lock, ipc, ireq>>
    /\ UNCHANGED <<irqs, irqen, mode, readerVars, cpc, devVars, sess, got>>

IsrRab ==
    /\ ipc = "rab"
    /\ ServeRequest(ireq)
    /\ ireq' = NoReq /\ ipc' = "lock"
    /\ UNCHANGED <<hwVars, mode, fifoVars, frameVars, lock, istored,
                   readerVars, cpc, dleft, nmsg, nsent, sess, got>>

IsrLoopExit ==
    /\ ipc = "loop" /\ ~LoopCond
    /\ lock' = "none" /\ ipc' = "ack"
    /\ UNCHANGED <<hwVars, mode, fifoVars, frameVars, istored, ireq,
                   readerVars, cpc, devVars, sess, got>>

IsrAck ==
    /\ ipc = "ack"
    /\ irqs' = FALSE
    /\ ipc' = (IF istored THEN "wake" ELSE "idle")
    /\ UNCHANGED <<hw, irqen, mode, fifoVars, frameVars, lock, istored, ireq,
                   readerVars, cpc, devVars, sess, got>>

\* Mutant: the handler returns without waking the reader.
IsrWakeNobody ==
    /\ ipc = "wake"
    /\ ipc' = "idle"
    /\ UNCHANGED <<hwVars, mode, fifoVars, frameVars, lock, istored, ireq,
                   readerVars, cpc, devVars, sess, got>>

\* wake_up_interruptible: a sleeping reader evaluates its condition again.
IsrWake ==
    /\ ipc = "wake"
    /\ ipc' = "idle"
    /\ rpc' = (IF rpc = "asleep" THEN "wait" ELSE rpc)
    /\ UNCHANGED <<hwVars, mode, fifoVars, frameVars, lock, istored, ireq,
                   count, src, copied, rreq, cpc, devVars, sess, got>>

Isr == \/ IsrEnter \/ IsrCheckMode \/ IsrTurnOff \/ IsrStatus \/ IsrLock
       \/ IsrLoop \/ IsrRab \/ IsrLoopExit \/ IsrAck \/ IsrWake
----------------------------------------------------------------------------
(***************************************************************************)
(* pulp_mbox_read.                                                         *)
(***************************************************************************)
\* The user thread calls read() for c words.
ReadCall(c) ==
    /\ rpc = "idle" /\ cpc = "running"
    /\ rpc' = "enter" /\ count' = c /\ copied' = 0
    /\ UNCHANGED <<hwVars, mode, fifoVars, frameVars, lock, isrVars, src,
                   rreq, cpc, devVars, sess, got>>

\* Words between rd and wr, or between rd and the end of the ring.
Contiguous == IF wr > rd THEN wr - rd ELSE RingSize - rd
MinOf(a, b) == IF a <= b THEN a ELSE b

\* O_NONBLOCK makes an empty buffer an error (-EAGAIN).
ReadEnter(nonblock) ==
    /\ rpc = "enter" /\ lock = "none"
    /\ IF RingEmpty
       THEN /\ rpc' = (IF nonblock THEN "err" ELSE "wait")
            /\ UNCHANGED count
       ELSE /\ rpc' = "copystart"
            /\ count' = MinOf(count, Contiguous)
    /\ UNCHANGED <<hwVars, mode, fifoVars, frameVars, lock, isrVars, src,
                   copied, rreq, cpc, devVars, sess, got>>

\* wait_event_interruptible evaluates its condition without the lock.
ReadWait ==
    /\ rpc = "wait"
    /\ rpc' = (IF RingEmpty THEN "asleep" ELSE "enter")
    /\ UNCHANGED <<hwVars, mode, fifoVars, frameVars, lock, isrVars, count,
                   src, copied, rreq, cpc, devVars, sess, got>>

\* A signal ends the wait with -ERESTARTSYS.
ReadSignal ==
    /\ rpc = "asleep"
    /\ rpc' = "err"
    /\ UNCHANGED <<hwVars, mode, fifoVars, frameVars, lock, isrVars, count,
                   src, copied, rreq, cpc, devVars, sess, got>>

\* copy_to_user(buf, mbox_fifo_rd, count), outside the lock, word by word.
ReadCopyStart ==
    /\ rpc = "copystart"
    /\ src' = rd /\ rpc' = "copy"
    /\ UNCHANGED <<hwVars, mode, fifoVars, frameVars, lock, isrVars, count,
                   copied, rreq, cpc, devVars, sess, got>>

ReadCopyWord ==
    /\ rpc = "copy" /\ copied < count
    /\ got' = Append(got, ring[src + copied])
    /\ copied' = copied + 1
    /\ UNCHANGED <<hwVars, mode, fifoVars, frameVars, lock, isrVars, rpc,
                   count, src, rreq, cpc, devVars, sess>>

\* A fault leaves words uncopied: only the copied ones are consumed.
ReadCopyFault ==
    /\ rpc = "copy" /\ copied < count
    /\ rpc' = "update"
    /\ UNCHANGED <<hwVars, mode, fifoVars, frameVars, lock, isrVars, count,
                   src, copied, rreq, cpc, devVars, sess, got>>

ReadCopyDone ==
    /\ rpc = "copy" /\ copied = count
    /\ rpc' = "update"
    /\ UNCHANGED <<hwVars, mode, fifoVars, frameVars, lock, isrVars, count,
                   src, copied, rreq, cpc, devVars, sess, got>>

\* Mutant: after a fault the words that were not copied are consumed too.
ReadUpdateCount ==
    /\ rpc = "update" /\ lock = "none"
    /\ rd' = (IF rd + count >= RingSize THEN 0 ELSE rd + count)
    /\ IF full
       THEN full' = FALSE /\ rpc' = "drain" /\ lock' = "reader"
       ELSE rpc' = "ret" /\ UNCHANGED <<full, lock>>
    /\ UNCHANGED <<hwVars, mode, ring, wr, frameVars, isrVars, count, src,
                   copied, rreq, cpc, devVars, sess, got>>

\* Advances rd; a buffer that was full is refilled from the hardware FIFO
\* before the lock is released.
ReadUpdate ==
    /\ rpc = "update" /\ lock = "none"
    /\ rd' = (IF rd + copied >= RingSize THEN 0 ELSE rd + copied)
    /\ IF full /\ copied > 0
       THEN full' = FALSE /\ rpc' = "drain" /\ lock' = "reader"
       ELSE rpc' = "ret" /\ UNCHANGED <<full, lock>>
    /\ UNCHANGED <<hwVars, mode, ring, wr, frameVars, isrVars, count, src,
                   copied, rreq, cpc, devVars, sess, got>>

\* Mutant: HOST_READY is written before the request is served.
ReadDrainEarlyReady ==
    /\ rpc = "drain"
    /\ \/ /\ PopHeader
          /\ UNCHANGED <<lock, rpc, rreq, dwait>>
       \/ /\ PopRequest
          /\ rreq' = Head(hw).kind /\ rpc' = "rab" /\ lock' = "none"
          /\ dwait' = FALSE
       \/ /\ PopPayload
          /\ UNCHANGED <<lock, rpc, rreq, dwait>>
    /\ UNCHANGED <<irqs, irqen, mode, isrVars, count, src, copied, cpc,
                   dleft, nmsg, nsent, sess, got>>

ReadDrain ==
    /\ rpc = "drain"
    /\ \/ /\ PopHeader
          /\ UNCHANGED <<lock, rpc, rreq>>
       \/ /\ PopRequest
          /\ rreq' = Head(hw).kind /\ rpc' = "rab" /\ lock' = "none"
       \/ /\ PopPayload
          /\ UNCHANGED <<lock, rpc, rreq>>
    /\ UNCHANGED <<irqs, irqen, mode, isrVars, count, src, copied, cpc,
                   devVars, sess, got>>

ReadRab ==
    /\ rpc = "rab"
    /\ ServeRequest(rreq)
    /\ rreq' = NoReq /\ rpc' = "relock"
    /\ UNCHANGED <<hwVars, mode, fifoVars, frameVars, lock, isrVars, count,
                   src, copied, cpc, dleft, nmsg, nsent, sess, got>>

ReadRelock ==
    /\ rpc = "relock" /\ lock = "none"
    /\ lock' = "reader" /\ rpc' = "drain"
    /\ UNCHANGED <<hwVars, mode, fifoVars, frameVars, isrVars, count, src,
                   copied, rreq, cpc, devVars, sess, got>>

ReadDrainExit ==
    /\ rpc = "drain" /\ ~LoopCond
    /\ lock' = "none" /\ rpc' = "ret"
    /\ UNCHANGED <<hwVars, mode, fifoVars, frameVars, isrVars, count, src,
                   copied, rreq, cpc, devVars, sess, got>>

\* Returns count, or an error if the wait failed or words were not copied.
ReadReturn ==
    /\ rpc \in {"ret", "err"}
    /\ rpc' = "idle"
    /\ UNCHANGED <<hwVars, mode, fifoVars, frameVars, lock, isrVars, count,
                   src, copied, rreq, cpc, devVars, sess, got>>

ReaderStep ==
    \/ \E nonblock \in BOOLEAN : ReadEnter(nonblock)
    \/ ReadWait \/ ReadCopyStart \/ ReadCopyWord \/ ReadCopyDone
    \/ ReadUpdate \/ ReadDrain \/ ReadRab \/ ReadRelock \/ ReadDrainExit

Reader == \/ \E c \in 1 .. MaxRead : ReadCall(c)
          \/ ReaderStep \/ ReadSignal \/ ReadCopyFault \/ ReadReturn
----------------------------------------------------------------------------
(***************************************************************************)
(* CTRL_RESET and the MBOX_SET_MODE ioctl that follows it in pulp_init():  *)
(* mailbox off, accelerator reset, pulp_mbox_init, mailbox on, restart.    *)
(***************************************************************************)
SetModeOff ==
    /\ cpc = "running" /\ sess < MaxResets
    /\ ConcurrentReset \/ rpc = "idle"
    /\ mode' = "OFF" /\ irqen' = FALSE
    /\ cpc' = "off"
    /\ UNCHANGED <<hw, irqs, fifoVars, frameVars, lock, isrVars, readerVars,
                   devVars, sess, got>>

\* The reset line stops the accelerator wherever it stands.
PulpReset ==
    /\ cpc = "off"
    /\ cpc' = "reset"
    /\ dleft' = 0 /\ dwait' = FALSE
    /\ UNCHANGED <<hwVars, mode, fifoVars, frameVars, lock, isrVars,
                   readerVars, nmsg, nsent, sess, got>>

\* pulp_mbox_init clears the full flag without the lock ...
MboxInit ==
    /\ cpc = "reset"
    /\ mode' = "OFF" /\ full' = FALSE
    /\ cpc' = "clearing"
    /\ UNCHANGED <<hwVars, ring, wr, rd, frameVars, lock, isrVars, readerVars,
                   devVars, sess, got>>

\* Mutants: the transfer counters survive the reset; the hardware FIFO is
\* not flushed.
MboxClearKeepsFrame ==
    /\ cpc = "clearing" /\ lock = "none"
    /\ LateService \/ ipc # "rab"
    /\ wr' = 0 /\ rd' = 0 /\ full' = FALSE
    /\ hw' = <<>> /\ irqs' = FALSE
    /\ cpc' = "cleared"
    /\ sess' = sess + 1 /\ nmsg' = 0 /\ nsent' = 0 /\ got' = <<>>
    /\ UNCHANGED <<mode, irqen, ring, frameVars, lock, isrVars, readerVars,
                   dleft, dwait>>

MboxClearNoFlush ==
    /\ cpc = "clearing" /\ lock = "none"
    /\ LateService \/ ipc # "rab"
    /\ wr' = 0 /\ rd' = 0 /\ full' = FALSE
    /\ nwritten' = 0 /\ nto' = 0
    /\ irqs' = FALSE
    /\ cpc' = "cleared"
    /\ sess' = sess + 1 /\ nmsg' = 0 /\ nsent' = 0 /\ got' = <<>>
    /\ UNCHANGED <<hw, mode, irqen, ring, lock, isrVars, readerVars, dleft,
                   dwait>>

\* ... and calls pulp_mbox_clear, which empties both FIFOs under the lock.
MboxClear ==
    /\ cpc = "clearing" /\ lock = "none"
    /\ LateService \/ ipc # "rab"
    /\ wr' = 0 /\ rd' = 0 /\ full' = FALSE
    /\ nwritten' = 0 /\ nto' = 0
    /\ hw' = <<>> /\ irqs' = FALSE
    /\ cpc' = "cleared"
    /\ sess' = sess + 1 /\ nmsg' = 0 /\ nsent' = 0 /\ got' = <<>>
    /\ UNCHANGED <<mode, irqen, ring, lock, isrVars, readerVars, dleft,
                   dwait>>

SetModeDriver ==
    /\ cpc = "cleared"
    /\ mode' = "DRIVER" /\ irqen' = TRUE
    /\ cpc' = "running"
    /\ UNCHANGED <<hw, irqs, fifoVars, frameVars, lock, isrVars, readerVars,
                   devVars, sess, got>>

Ioctl == SetModeOff \/ PulpReset \/ MboxInit \/ MboxClear \/ SetModeDriver

Device == \/ \E n \in 0 .. MaxTransfer : DevHeader(n)
          \/ DevPayload \/ DevRab

Next == Device \/ HwLatch \/ Isr \/ Reader \/ Ioctl

Spec == Init /\ [][Next]_vars

(***************************************************************************)
(* Fairness: the accelerator finishes a transfer it has started, the       *)
(* hardware latches, the interrupt handler and the reading thread run (on  *)
(* different CPUs), a kernel spinlock is granted to a waiter that keeps    *)
(* asking (strong fairness of the steps that take it), and the user thread *)
(* keeps calling read() with buffers that do not fault for ever.           *)
(***************************************************************************)
Fairness ==
    /\ WF_vars(DevPayload) /\ WF_vars(HwLatch)
    /\ WF_vars(Isr) /\ SF_vars(IsrLock)
    /\ WF_vars(ReaderStep) /\ WF_vars(ReadReturn)
    /\ SF_vars(\E b \in BOOLEAN : ReadEnter(b)) /\ SF_vars(ReadUpdate)
    /\ SF_vars(ReadRelock) /\ SF_vars(ReadCopyWord)
    /\ WF_vars(\E c \in 1 .. MaxRead : ReadCall(c))
    /\ WF_vars(Ioctl)

FairSpec == Spec /\ Fairness

(***************************************************************************)
(* The mailbox implements the channel: sending is DevPayload, receiving is *)
(* one word copied by copy_to_user, and a reset is pulp_mbox_clear.        *)
(***************************************************************************)
SeqOf(w) == IF w.kind = "PAYLOAD" /\ w.sess = sess THEN w.seq ELSE 0

Channel == INSTANCE WordChannel WITH
              session <- sess, sent <- nsent,
              received <- [i \in 1 .. Len(got) |-> SeqOf(got[i])]

\* The user sees a FIFO channel, whatever the handler, the reader, the
\* accelerator and a reset do concurrently.
ImplementsChannel == Channel!ChanSpec
----------------------------------------------------------------------------
\* The flags of the hardware, the driver and the accelerator.
FlagsOK == /\ irqs \in BOOLEAN /\ irqen \in BOOLEAN /\ full \in BOOLEAN
           /\ istored \in BOOLEAN /\ dwait \in BOOLEAN

DataOK ==
    /\ hw \in Seq(Word) /\ Len(hw) <= HwDepth
    /\ mode \in {"OFF", "DRIVER"}
    /\ ring \in [Ring -> Word]
    /\ wr \in Ring /\ rd \in Ring
    /\ nwritten \in Nat /\ nto \in Nat
    /\ lock \in {"none", "isr", "reader"}
    /\ ipc \in {"idle", "entered", "turnoff", "status", "lock", "loop", "rab",
                "ack", "wake"}
    /\ ireq \in Kinds \cup {NoReq}
    /\ rpc \in {"idle", "enter", "wait", "asleep", "copystart", "copy",
                "update", "drain", "rab", "relock", "ret", "err"}
    /\ count \in Nat /\ src \in Ring /\ copied \in 0 .. count
    /\ rreq \in Kinds \cup {NoReq}
    /\ cpc \in {"running", "off", "reset", "clearing", "cleared"}
    /\ dleft \in Nat
    /\ sess \in Nat /\ nmsg \in Nat /\ nsent \in Nat /\ got \in Seq(Word)

(***************************************************************************)
(* Types of the state; in particular both pointers into mbox_fifo stay     *)
(* inside it and the hardware FIFO never holds more than HwDepth words.    *)
(***************************************************************************)
TypeOK == DataOK /\ FlagsOK

\* Words buffered in mbox_fifo, and words copied to the user but not yet
\* consumed from it.
Occupied == IF full THEN RingSize
            ELSE IF wr >= rd THEN wr - rd ELSE RingSize - rd + wr
Pending == IF rpc \in {"copy", "update"} THEN copied ELSE 0

(***************************************************************************)
(* What the user thread reads is the payload of this session, without a    *)
(* header, a gap, a repetition or a word of an earlier session: the        *)
(* handler and the reader that refills a full buffer never reorder or      *)
(* overwrite what copy_to_user reads outside the lock.                     *)
(***************************************************************************)
InOrder == \A i \in 1 .. Len(got) :
              /\ got[i].kind = "PAYLOAD"
              /\ got[i].sess = sess
              /\ got[i].seq = i

(***************************************************************************)
(* No payload word is lost: once both FIFOs are empty and no copy is in    *)
(* progress every word sent has reached the user, even if reads were       *)
(* interrupted by signals or faults.                                       *)
(***************************************************************************)
NoLoss == (hw = <<>> /\ RingEmpty /\ Pending = 0 /\ cpc = "running")
              => Len(got) = nsent

(***************************************************************************)
(* The driver takes a word for a header exactly if it is not payload: its  *)
(* counters n_words_written and n_words_to_write stay in step with the     *)
(* transfers the accelerator sends, across refills and resets.             *)
(***************************************************************************)
FramingInSync == hw # <<>>
                     => (NewTransfer <=> Head(hw).kind # "PAYLOAD")

(***************************************************************************)
(* The interrupt handler and a reader that drains the mailbox never serve  *)
(* two RAB requests at once: pulp_rab_update and pulp_rab_switch take no   *)
(* lock and rely on the accelerator waiting for HOST_READY.  A request     *)
(* that outlives CTRL_RESET would break this: its HOST_READY answers the   *)
(* first request of the next session (LateService).                        *)
(***************************************************************************)
RabSerial == ~(ipc = "rab" /\ rpc = "rab")

(***************************************************************************)
(* Every payload word reaches the user: no word is stranded in the         *)
(* hardware FIFO behind an acknowledged interrupt, in a buffer that was    *)
(* full, or behind a reader that went to sleep too late to be woken.       *)
(***************************************************************************)
Delivery == \A k \in 1 .. MaxMsgs * MaxTransfer : (nsent >= k) ~> (Len(got) >= k)
=============================================================================
