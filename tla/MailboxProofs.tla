--------------------------- MODULE MailboxProofs ---------------------------
(***************************************************************************)
(* Proofs about Mailbox for every FIFO depth, ring size and bound: the     *)
(* type invariant, and, when no thread resets the accelerator during a     *)
(* read(), that the user sees the payload in order and loses none of it.   *)
(***************************************************************************)
EXTENDS LibMailbox, TLAPS

(***************************************************************************)
(* The inductive invariant, in parts.  The k-th buffered word is the word  *)
(* at ring index Slot(k); Consumed words have left the ring.               *)
(***************************************************************************)
Slot(k)  == IF rd + k >= RingSize THEN rd + k - RingSize ELSE rd + k
Consumed == Len(got) - Pending

\* A copy in progress stays inside mbox_fifo.
CopyInRange ==
    /\ rpc \in {"enter", "wait", "asleep", "copystart"} => copied = 0
    /\ rpc = "copystart" => rd + count <= RingSize
    /\ rpc = "copy" => src + count <= RingSize

TypeInv == DataOK /\ CopyInRange /\ FlagsOK

\* mbox_fifo_mtx is held exactly in the two drain loops.
LockInv == /\ lock = "isr" <=> ipc = "loop"
           /\ lock = "reader" <=> rpc = "drain"

\* No read() is in flight while the accelerator is being reset, and the
\* reset ends the transfer it was sending.
QuietReset == /\ cpc # "running" => rpc = "idle"
              /\ cpc \in {"reset", "clearing"} => dleft = 0

\* What the reader copies outside the lock is, and stays, buffered.
CopyOwned ==
    /\ rpc \in {"copystart", "copy", "update"}
          => count <= Occupied /\ rd + count <= RingSize
    /\ rpc = "copy" => src = rd
    /\ rpc \in {"copy", "update"} => copied <= Len(got)

RingShape == full => wr = rd

RingContent ==
    \A k \in 0 .. Occupied - 1 :
        /\ ring[Slot(k)].kind = "PAYLOAD"
        /\ ring[Slot(k)].sess = sess
        /\ ring[Slot(k)].seq = Consumed + k + 1

(***************************************************************************)
(* The stream: Prev(i) is what the i-th word in the hardware FIFO follows, *)
(* the number of payload words its predecessor announces and the payload   *)
(* words sent before it.  The first word follows the driver's own state.   *)
(***************************************************************************)
Prev(i) == IF i = 1 THEN [n |-> nto - nwritten, seq |-> Consumed + Occupied]
                    ELSE [n |-> hw[i - 1].n, seq |-> hw[i - 1].seq]

Follows(w, p) ==
    /\ w.kind = "RAB" => w.n = 0
    /\ IF p.n = 0
       THEN w.kind # "PAYLOAD" /\ w.seq = p.seq
       ELSE w.kind = "PAYLOAD" /\ w.n = p.n - 1 /\ w.seq = p.seq + 1

Stream ==
    /\ nwritten <= nto
    /\ \A i \in 1 .. Len(hw) : Follows(hw[i], Prev(i)) /\ hw[i].sess = sess
    /\ \A i \in 1 .. Len(hw) : hw[i].seq <= nsent
    /\ Consumed + Occupied <= nsent

\* The last word leads to the state of the accelerator.
StreamEnd ==
    /\ Prev(Len(hw) + 1).seq = nsent
    /\ cpc # "reset" => Prev(Len(hw) + 1).n = dleft

Settled == cpc # "clearing" => RingShape /\ RingContent /\ Stream /\ StreamEnd

IInv == TypeInv /\ LockInv /\ QuietReset /\ CopyOwned /\ Settled /\ InOrder
----------------------------------------------------------------------------
\* Type correctness.

USE MailboxAssumption

\* Popping a word from the hardware FIFO preserves the types of what the
\* drain loops of pulp_mbox_intr and pulp_mbox_read change.
LEMMA PopTypes ==
    ASSUME DataOK, PopHeader \/ PopRequest \/ PopPayload
    PROVE  /\ hw' \in Seq(Word) /\ Len(hw') <= HwDepth
           /\ Head(hw).kind \in Kinds
           /\ ring' \in [Ring -> Word]
           /\ wr' \in Ring /\ rd' = rd
           /\ nwritten' \in Nat /\ nto' \in Nat
<1>1. /\ hw \in Seq(Word) /\ hw # <<>>
      /\ hw' = Tail(hw)
  BY DEF PopHeader, PopRequest, PopPayload, LoopCond, DataOK
<1>2. Head(hw) \in Word /\ Tail(hw) \in Seq(Word) /\ Len(Tail(hw)) <= Len(hw)
  BY <1>1
<1>3. Head(hw).kind \in Kinds /\ Head(hw).n \in Nat
  BY <1>2 DEF Word
<1>4. CASE PopHeader
  BY <1>1, <1>2, <1>3, <1>4 DEF PopHeader, DataOK, fifoVars
<1>5. CASE PopRequest
  BY <1>1, <1>2, <1>3, <1>5 DEF PopRequest, DataOK, fifoVars, frameVars
<1>6. CASE PopPayload
  <2>1. Inc(wr) \in Ring
    BY DEF DataOK, Ring, Inc
  <2> QED
    BY <1>1, <1>2, <1>3, <1>6, <2>1 DEF PopPayload, DataOK
<1> QED
  BY <1>4, <1>5, <1>6

\* The data types and the bounds of a copy are preserved by every step.
LEMMA DataStep == DataOK /\ CopyInRange /\ [Next]_vars => DataOK' /\ CopyInRange'
<1> SUFFICES ASSUME DataOK, CopyInRange, [Next]_vars
             PROVE  DataOK' /\ CopyInRange'
  OBVIOUS
<1> USE DEF CopyInRange, NoReq
<1>1. ASSUME NEW n \in 0 .. MaxTransfer, DevHeader(n)
           PROVE  DataOK' /\ CopyInRange'
  <2>1. [kind |-> "TO_RUNTIME", n |-> n, sess |-> sess, seq |-> nsent] \in Word
    BY DEF DataOK, Word, Kinds
  <2> QED
    BY <1>1, <2>1 DEF DataOK, DevHeader, DevWrite, fifoVars, frameVars,
                      isrVars, readerVars
<1>2. CASE DevPayload
  <2>1. [kind |-> "PAYLOAD", n |-> dleft - 1, sess |-> sess, seq |-> nsent + 1]
            \in Word
    BY <1>2 DEF DataOK, Word, Kinds, DevPayload
  <2> QED
    BY <1>2, <2>1 DEF DataOK, DevPayload, DevWrite, fifoVars, frameVars,
                      isrVars, readerVars
<1>3. CASE DevRab
  <2>1. [kind |-> "RAB", n |-> 0, sess |-> sess, seq |-> nsent] \in Word
    BY DEF DataOK, Word, Kinds
  <2> QED
    BY <1>3, <2>1 DEF DataOK, DevRab, DevWrite, fifoVars, frameVars,
                      isrVars, readerVars
<1>4. CASE HwLatch
  BY <1>4 DEF DataOK, HwLatch, fifoVars, frameVars, isrVars, readerVars, devVars
<1>5. CASE IsrEnter
  BY <1>5 DEF DataOK, IsrEnter, hwVars, fifoVars, frameVars,
               readerVars, devVars
<1>6. CASE IsrCheckMode
  BY <1>6 DEF DataOK, IsrCheckMode, hwVars, fifoVars, frameVars,
               readerVars, devVars
<1>7. CASE IsrTurnOff
  BY <1>7 DEF DataOK, IsrTurnOff, hwVars, fifoVars, frameVars,
               readerVars, devVars
<1>8. CASE IsrStatus
  BY <1>8 DEF DataOK, IsrStatus, hwVars, fifoVars, frameVars,
               readerVars, devVars
<1>9. CASE IsrLock
  BY <1>9 DEF DataOK, IsrLock, hwVars, fifoVars, frameVars,
               readerVars, devVars
<1>10. CASE IsrRab
  BY <1>10 DEF DataOK, IsrRab, ServeRequest, hwVars, fifoVars, frameVars,
               readerVars, devVars
<1>11. CASE IsrLoopExit
  BY <1>11 DEF DataOK, IsrLoopExit, hwVars, fifoVars, frameVars,
               readerVars, devVars
<1>12. CASE IsrAck
  BY <1>12 DEF DataOK, IsrAck, hwVars, fifoVars, frameVars,
               readerVars, devVars
<1>13. CASE IsrWake
  BY <1>13 DEF DataOK, IsrWake, hwVars, fifoVars, frameVars,
               readerVars, devVars
<1>14. CASE IsrLoop
  <2>1. PopHeader \/ PopRequest \/ PopPayload
    BY <1>14 DEF IsrLoop
  <2> QED
    BY <1>14, <2>1, PopTypes DEF DataOK, IsrLoop, isrVars, readerVars, devVars
<1>15. ASSUME NEW c \in 1 .. MaxRead, ReadCall(c)
           PROVE  DataOK' /\ CopyInRange'
  BY <1>15 DEF DataOK, ReadCall, hwVars, fifoVars, frameVars, isrVars, devVars
<1>16. ASSUME NEW b \in BOOLEAN, ReadEnter(b)
           PROVE  DataOK' /\ CopyInRange'
  BY <1>16 DEF DataOK, ReadEnter, hwVars, fifoVars, frameVars, isrVars, devVars,
               MinOf, Contiguous, Ring
<1>17. CASE ReadCopyWord
  <2>1. ring[src + copied] \in Word
    BY <1>17 DEF DataOK, ReadCopyWord, Ring
  <2> QED
    BY <1>17, <2>1 DEF DataOK, ReadCopyWord, hwVars, fifoVars, frameVars,
                     isrVars, devVars
<1>18. CASE ReadDrain
  <2>1. PopHeader \/ PopRequest \/ PopPayload
    BY <1>18 DEF ReadDrain
  <2> QED
    BY <1>18, <2>1, PopTypes DEF DataOK, ReadDrain, isrVars, devVars
<1>19. CASE ReadWait
  BY <1>19 DEF DataOK, ReadWait, hwVars, fifoVars, frameVars,
               isrVars, devVars
<1>20. CASE ReadSignal
  BY <1>20 DEF DataOK, ReadSignal, hwVars, fifoVars, frameVars,
               isrVars, devVars
<1>21. CASE ReadCopyStart
  BY <1>21 DEF DataOK, ReadCopyStart, Ring, hwVars, fifoVars, frameVars,
               isrVars, devVars
<1>22. CASE ReadCopyFault
  BY <1>22 DEF DataOK, ReadCopyFault, hwVars, fifoVars, frameVars,
               isrVars, devVars
<1>23. CASE ReadCopyDone
  BY <1>23 DEF DataOK, ReadCopyDone, hwVars, fifoVars, frameVars,
               isrVars, devVars
<1>24. CASE ReadUpdate
  BY <1>24 DEF DataOK, ReadUpdate, Ring, hwVars, fifoVars, frameVars,
               isrVars, devVars
<1>25. CASE ReadRab
  BY <1>25 DEF DataOK, ReadRab, ServeRequest, hwVars, fifoVars, frameVars,
               isrVars, devVars
<1>26. CASE ReadRelock
  BY <1>26 DEF DataOK, ReadRelock, hwVars, fifoVars, frameVars,
               isrVars, devVars
<1>27. CASE ReadDrainExit
  BY <1>27 DEF DataOK, ReadDrainExit, hwVars, fifoVars, frameVars,
               isrVars, devVars
<1>28. CASE ReadReturn
  BY <1>28 DEF DataOK, ReadReturn, hwVars, fifoVars, frameVars,
               isrVars, devVars
<1>29. CASE SetModeOff
  BY <1>29 DEF DataOK, SetModeOff, hwVars, fifoVars, frameVars, isrVars,
               readerVars, devVars
<1>30. CASE PulpReset
  BY <1>30 DEF DataOK, PulpReset, hwVars, fifoVars, frameVars, isrVars,
               readerVars, devVars
<1>31. CASE MboxInit
  BY <1>31 DEF DataOK, MboxInit, hwVars, fifoVars, frameVars, isrVars,
               readerVars, devVars
<1>32. CASE MboxClear
  BY <1>32 DEF DataOK, MboxClear, Ring, hwVars, fifoVars, frameVars, isrVars,
               readerVars, devVars
<1>33. CASE SetModeDriver
  BY <1>33 DEF DataOK, SetModeDriver, hwVars, fifoVars, frameVars, isrVars,
               readerVars, devVars
<1>34. CASE UNCHANGED vars
  BY <1>34 DEF DataOK, vars, hwVars, fifoVars, frameVars, isrVars, readerVars, devVars
<1> QED
  BY <1>1, <1>2, <1>3, <1>4, <1>5, <1>6, <1>7, <1>8, <1>9, <1>10, <1>11, <1>12, <1>13, <1>14, <1>15, <1>16, <1>17, <1>18, <1>19, <1>20, <1>21, <1>22, <1>23, <1>24, <1>25, <1>26, <1>27, <1>28, <1>29, <1>30, <1>31, <1>32, <1>33, <1>34
     DEF Next, Device, Isr, Reader, ReaderStep, Ioctl

\* The flags stay Boolean.
LEMMA FlagsStep == FlagsOK /\ [Next]_vars => FlagsOK'
<1> SUFFICES ASSUME FlagsOK, [Next]_vars PROVE FlagsOK'
  OBVIOUS
<1> USE DEF FlagsOK, hwVars, fifoVars, isrVars, devVars
<1>1. ASSUME PopHeader \/ PopRequest \/ PopPayload PROVE full' \in BOOLEAN
  BY <1>1, Zenon DEF PopHeader, PopRequest, PopPayload
<1>2. CASE Device \/ HwLatch
  BY <1>2, Zenon DEF Device, DevHeader, DevPayload, DevRab, DevWrite, HwLatch
<1>3. CASE IsrEnter \/ IsrCheckMode \/ IsrTurnOff \/ IsrStatus \/ IsrLock
  BY <1>3, Zenon DEF IsrEnter, IsrCheckMode, IsrTurnOff, IsrStatus, IsrLock
<1>4. CASE IsrLoop
  BY <1>1, <1>4, Zenon DEF IsrLoop
<1>5. CASE IsrRab \/ IsrLoopExit \/ IsrAck \/ IsrWake
  BY <1>5, Zenon DEF IsrRab, IsrLoopExit, IsrAck, IsrWake, ServeRequest
<1>6. ASSUME NEW c, ReadCall(c) PROVE FlagsOK'
  BY <1>6, Zenon DEF ReadCall
<1>7. ASSUME NEW b, ReadEnter(b) PROVE FlagsOK'
  BY <1>7, Zenon DEF ReadEnter
<1>8. CASE ReadWait \/ ReadSignal \/ ReadCopyStart \/ ReadCopyWord
           \/ ReadCopyFault \/ ReadCopyDone
  BY <1>8, Zenon DEF ReadWait, ReadSignal, ReadCopyStart, ReadCopyWord,
                     ReadCopyFault, ReadCopyDone
<1>9. CASE ReadUpdate
  BY <1>9, Zenon DEF ReadUpdate
<1>10. CASE ReadDrain
  BY <1>1, <1>10, Zenon DEF ReadDrain
<1>11. CASE ReadRab \/ ReadRelock \/ ReadDrainExit \/ ReadReturn
  BY <1>11, Zenon DEF ReadRab, ReadRelock, ReadDrainExit, ReadReturn, ServeRequest
<1>12. CASE Ioctl
  BY <1>12, Zenon DEF Ioctl, SetModeOff, PulpReset, MboxInit, MboxClear,
                      SetModeDriver
<1>13. CASE UNCHANGED vars
  BY <1>13, Zenon DEF vars
<1> QED
  BY <1>2, <1>3, <1>4, <1>5, <1>6, <1>7, <1>8, <1>9, <1>10, <1>11, <1>12,
     <1>13, Zenon DEF Next, Isr, Reader, ReaderStep

(***************************************************************************)
(* The state stays well typed, both ring pointers stay inside mbox_fifo    *)
(* and a copy to user space never reads past its end, even if resets race  *)
(* with read().                                                            *)
(***************************************************************************)
THEOREM TypeCorrect == Spec => []TypeOK
<1>1. Init => TypeInv
  <2> SUFFICES ASSUME Init PROVE TypeInv
    OBVIOUS
  <2>1. NoWord \in Word
    BY DEF NoWord, Word, Kinds
  <2>2. DataOK /\ CopyInRange
    BY <2>1 DEF Init, DataOK, CopyInRange, Ring, Kinds, NoReq
  <2>3. FlagsOK
    BY Zenon DEF Init, FlagsOK
  <2> QED
    BY <2>2, <2>3 DEF TypeInv
<1>2. TypeInv => TypeOK
  BY DEF TypeInv, TypeOK
<1>3. TypeInv /\ [Next]_vars => TypeInv'
  BY DataStep, FlagsStep DEF TypeInv
<1> QED
  BY <1>1, <1>2, <1>3, PTL DEF Spec
----------------------------------------------------------------------------
\* In-order, lossless delivery.

\* mbox_fifo_mtx stays with the loop that took it.
LEMMA LockStep == LockInv /\ [Next]_vars => LockInv'
<1> SUFFICES ASSUME LockInv, [Next]_vars PROVE LockInv'
  OBVIOUS
<1> USE DEF LockInv, isrVars, readerVars
<1>1. CASE Device \/ HwLatch
  BY <1>1 DEF Device, DevHeader, DevPayload, DevRab, DevWrite, HwLatch
<1>2. CASE Isr
  BY <1>2 DEF Isr, IsrEnter, IsrCheckMode, IsrTurnOff, IsrStatus, IsrLock,
              IsrLoop, IsrRab, IsrLoopExit, IsrAck, IsrWake
<1>3. CASE Reader
  BY <1>3 DEF Reader, ReaderStep, ReadCall, ReadEnter, ReadWait, ReadSignal,
              ReadCopyStart, ReadCopyWord, ReadCopyFault, ReadCopyDone,
              ReadUpdate, ReadDrain, ReadRab, ReadRelock, ReadDrainExit,
              ReadReturn
<1>4. CASE Ioctl
  BY <1>4 DEF Ioctl, SetModeOff, PulpReset, MboxInit, MboxClear, SetModeDriver
<1>5. CASE UNCHANGED vars
  BY <1>5 DEF vars
<1> QED
  BY <1>1, <1>2, <1>3, <1>4, <1>5 DEF Next

\* No read() starts during a reset and no reset starts during a read().
LEMMA QuietStep ==
    ASSUME ~ConcurrentReset, QuietReset, [Next]_vars
    PROVE  QuietReset'
<1> USE DEF QuietReset, isrVars, readerVars, devVars
<1>1. CASE Device \/ HwLatch
  BY <1>1 DEF Device, DevHeader, DevPayload, DevRab, DevWrite, HwLatch
<1>2. CASE Isr
  BY <1>2 DEF Isr, IsrEnter, IsrCheckMode, IsrTurnOff, IsrStatus, IsrLock,
              IsrLoop, IsrRab, IsrLoopExit, IsrAck, IsrWake
<1>3. CASE Reader
  BY <1>3 DEF Reader, ReaderStep, ReadCall, ReadEnter, ReadWait, ReadSignal,
              ReadCopyStart, ReadCopyWord, ReadCopyFault, ReadCopyDone,
              ReadUpdate, ReadDrain, ReadRab, ReadRelock, ReadDrainExit,
              ReadReturn
<1>4. CASE Ioctl
  BY <1>4 DEF Ioctl, SetModeOff, PulpReset, MboxInit, MboxClear, SetModeDriver
<1>5. CASE UNCHANGED vars
  BY <1>5 DEF vars
<1> QED
  BY <1>1, <1>2, <1>3, <1>4, <1>5 DEF Next

\* The fill level of mbox_fifo is a number of its cells.
LEMMA OccupiedType ==
    ASSUME DataOK, RingShape
    PROVE  /\ Occupied \in 0 .. RingSize
           /\ wr # rd => ~full
           /\ RingEmpty => Occupied = 0
BY DEF DataOK, RingShape, Occupied, RingEmpty, Ring

\* Storing a payload word adds it at the end of what is buffered.
LEMMA PushWord ==
    ASSUME DataOK, RingShape, PopPayload
    PROVE  /\ RingShape' /\ Occupied' = Occupied + 1
           /\ Occupied \in 0 .. RingSize - 1
           /\ Slot(Occupied) = wr
           /\ \A k \in 0 .. Occupied - 1 : Slot(k) \in Ring /\ Slot(k) # wr
           /\ \A k \in 0 .. Occupied : Slot(k)' = Slot(k)
<1>1. /\ ~full /\ wr' = Inc(wr) /\ rd' = rd
      /\ wr \in 0 .. RingSize - 1 /\ rd \in 0 .. RingSize - 1
  BY DEF PopPayload, LoopCond, DataOK, Ring
<1>2. /\ Inc(wr) = rd => full'
      /\ Inc(wr) # rd => ~full'
  BY Zenon DEF PopPayload
<1>3. RingShape' /\ Occupied' = Occupied + 1
  BY <1>1, <1>2 DEF RingShape, Occupied, Inc
<1> QED
  BY <1>1, <1>3 DEF Occupied, Slot, Ring

\* The fields of a mailbox word.
LEMMA WordFields ==
    \A w \in Word : w.kind \in Kinds /\ w.n \in Nat /\ w.seq \in Nat
BY DEF Word

\* Moving one word out of the hardware FIFO, in either drain loop, keeps the
\* ring and the stream in step with what the accelerator sent.
LEMMA PopKeepsStream ==
    ASSUME DataOK, RingShape, RingContent, Stream, StreamEnd, Consumed \in Nat,
           PopHeader \/ PopRequest \/ PopPayload,
           Consumed' = Consumed, UNCHANGED <<sess, nsent, dleft, cpc>>
    PROVE  /\ RingShape' /\ RingContent' /\ Stream' /\ StreamEnd'
           /\ Occupied' >= Occupied
<1>1. /\ hw \in Seq(Word) /\ Len(hw) > 0 /\ Head(hw) = hw[1]
      /\ hw' \in Seq(Word) /\ Len(hw') = Len(hw) - 1
      /\ \A i \in 1 .. Len(hw') : hw'[i] = hw[i + 1]
  <2>1. hw \in Seq(Word) /\ hw # <<>> /\ hw' = Tail(hw)
    BY DEF PopHeader, PopRequest, PopPayload, LoopCond, DataOK
  <2> QED
    BY <2>1
<1>2. /\ Occupied \in 0 .. RingSize
      /\ nto \in Nat /\ nwritten \in Nat /\ nsent \in Nat /\ dleft \in Nat
  <2>1. nto \in Nat /\ nwritten \in Nat /\ nsent \in Nat /\ dleft \in Nat
    BY DEF DataOK
  <2> QED
    BY <2>1, OccupiedType
<1>3. \A i \in 1 .. Len(hw) : hw[i] \in Word /\ hw[i].n \in Nat /\ hw[i].seq \in Nat
  BY <1>1, WordFields
<1>4. Follows(hw[1], [n |-> nto - nwritten, seq |-> Consumed + Occupied])
  BY <1>1 DEF Stream, Prev, Follows
<1>5. /\ RingShape' /\ RingContent' /\ Occupied' >= Occupied
      /\ nwritten' <= nto'
      /\ nto' - nwritten' = hw[1].n
      /\ Consumed' + Occupied' = hw[1].seq
  <2>1. CASE PopHeader
    <3>1. UNCHANGED <<ring, wr, rd, full>> /\ hw[1].kind = "TO_RUNTIME"
      BY <1>1, <2>1 DEF PopHeader, fifoVars
    <3>2. Occupied' = Occupied /\ RingShape' /\ RingContent'
      BY <3>1 DEF RingShape, RingContent, Occupied, Slot
    <3> QED
      BY <1>1, <1>2, <1>3, <1>4, <2>1, <3>1, <3>2
         DEF PopHeader, NewTransfer, Follows
  <2>2. CASE PopRequest
    <3>1. UNCHANGED <<ring, wr, rd, full>> /\ hw[1].kind # "TO_RUNTIME"
      BY <1>1, <2>2 DEF PopRequest, fifoVars
    <3>2. Occupied' = Occupied /\ RingShape' /\ RingContent'
      BY <3>1 DEF RingShape, RingContent, Occupied, Slot
    <3>3. hw[1].kind \in Kinds
      BY <1>1, <1>3 DEF Word
    <3> QED
      BY <1>1, <1>2, <1>3, <1>4, <2>2, <3>1, <3>2, <3>3
         DEF PopRequest, NewTransfer, Follows, Kinds, Stream, frameVars
  <2>3. CASE PopPayload
    <3>1. /\ hw[1].kind = "PAYLOAD" /\ hw[1].n = nto - nwritten - 1
          /\ hw[1].seq = Consumed + Occupied + 1
          /\ nto' = nto /\ nwritten' = nwritten + 1 /\ nwritten < nto
      BY <1>2, <1>4, <2>3 DEF PopPayload, NewTransfer, Follows, Stream
    <3>2. /\ ring' = [ring EXCEPT ![wr] = hw[1]] /\ ring \in [Ring -> Word]
          /\ wr \in Ring /\ rd' = rd
      BY <1>1, <2>3 DEF PopPayload, DataOK
    <3>3. RingContent'
      <4> SUFFICES ASSUME NEW k \in 0 .. Occupied
                   PROVE  /\ ring'[Slot(k)].kind = "PAYLOAD"
                          /\ ring'[Slot(k)].sess = sess
                          /\ ring'[Slot(k)].seq = Consumed + k + 1
        BY <2>3, PushWord, <1>2 DEF RingContent
      <4>1. CASE k = Occupied
        <5>1. hw[1].sess = sess
          BY <1>1 DEF Stream
        <5> QED
          BY <2>3, <3>1, <3>2, <4>1, <5>1, PushWord
      <4>2. CASE k # Occupied
        BY <1>2, <2>3, <3>2, <4>2, PushWord DEF RingContent
      <4> QED
        BY <4>1, <4>2
    <3> QED
      BY <1>2, <2>3, <3>1, <3>3, PushWord
  <2> QED
    BY <2>1, <2>2, <2>3
<1> DEFINE P(i) == IF i = 1
                   THEN [n |-> nto' - nwritten', seq |-> Consumed' + Occupied']
                   ELSE [n |-> hw'[i - 1].n, seq |-> hw'[i - 1].seq]
<1>6. \A i \in 1 .. Len(hw) : P(i) = [n |-> hw[i].n, seq |-> hw[i].seq]
  <2> SUFFICES ASSUME NEW i \in 1 .. Len(hw)
               PROVE  P(i) = [n |-> hw[i].n, seq |-> hw[i].seq]
    OBVIOUS
  <2>1. CASE i = 1
    BY <1>5, <2>1
  <2>2. CASE i # 1
    <3>1. i - 1 \in 1 .. Len(hw') /\ (i - 1) + 1 = i
      BY <1>1, <2>2
    <3> QED
      BY <1>1, <2>2, <3>1
  <2> QED
    BY <2>1, <2>2
<1>7. \A i \in 1 .. Len(hw) : [n |-> hw[i].n, seq |-> hw[i].seq] = Prev(i + 1)
  BY DEF Prev
<1>8. Stream'
  <2>1. \A i \in 1 .. Len(hw') : Follows(hw'[i], P(i)) /\ hw'[i].sess = sess
    <3> SUFFICES ASSUME NEW i \in 1 .. Len(hw')
                 PROVE  Follows(hw'[i], P(i)) /\ hw'[i].sess = sess
      OBVIOUS
    <3>1. i \in 1 .. Len(hw) /\ i + 1 \in 1 .. Len(hw) /\ hw'[i] = hw[i + 1]
      BY <1>1
    <3>2. Follows(hw[i + 1], Prev(i + 1)) /\ hw[i + 1].sess = sess
      BY <3>1 DEF Stream
    <3>3. P(i) = Prev(i + 1)
      BY <1>6, <1>7, <3>1
    <3> HIDE DEF P
    <3> QED
      BY <3>1, <3>2, <3>3
  <2>2. \A i \in 1 .. Len(hw') : hw'[i].seq <= nsent
    BY <1>1 DEF Stream
  <2>3. Consumed' + Occupied' <= nsent
    BY <1>1, <1>5 DEF Stream
  <2> QED
    BY <1>5, <2>1, <2>2, <2>3 DEF Stream, Prev
<1>9. StreamEnd'
  <2>1. P(Len(hw') + 1) = Prev(Len(hw) + 1)
    <3> HIDE DEF P
    <3>1. Len(hw) \in 1 .. Len(hw) /\ Len(hw') + 1 = Len(hw)
      BY <1>1
    <3>2. P(Len(hw)) = Prev(Len(hw) + 1)
      BY <1>6, <1>7, <3>1
    <3> QED
      BY <3>1, <3>2
  <2>2. /\ P(Len(hw') + 1).seq = nsent
        /\ cpc # "reset" => P(Len(hw') + 1).n = dleft
    <3> HIDE DEF P
    <3> QED
      BY <2>1 DEF StreamEnd
  <2> QED
    BY <2>2, Zenon DEF StreamEnd, Prev
<1> QED
  BY <1>5, <1>8, <1>9

\* Steps that touch neither FIFO nor the counters keep both in step.
LEMMA SettledFrame ==
    ASSUME Settled, Consumed' = Consumed,
           UNCHANGED <<hw, fifoVars, frameVars, sess, nsent, dleft, cpc>>
    PROVE  Settled' /\ Occupied' = Occupied
<1>1. Occupied' = Occupied /\ (\A k : Slot(k)' = Slot(k)) /\ (\A i : Prev(i)' = Prev(i))
  BY DEF Occupied, Slot, Prev, fifoVars, frameVars
<1> QED
  BY <1>1 DEF Settled, RingShape, RingContent, Stream, StreamEnd, fifoVars,
              frameVars

\* The accelerator appends a word that follows the last one it sent.
LEMMA SendKeepsStream ==
    ASSUME DataOK, RingShape, RingContent, Stream, StreamEnd, Consumed \in Nat,
           NEW w \in Word, Follows(w, [n |-> dleft, seq |-> nsent]),
           w.sess = sess, cpc # "reset",
           hw' = Append(hw, w), Consumed' = Consumed,
           UNCHANGED <<fifoVars, frameVars, sess, cpc>>,
           dleft' = w.n, nsent' = w.seq
    PROVE  /\ RingShape' /\ RingContent' /\ Stream' /\ StreamEnd'
           /\ Occupied' = Occupied
<1>1. /\ hw \in Seq(Word) /\ Len(hw) \in Nat /\ nsent \in Nat
      /\ Len(hw') = Len(hw) + 1 /\ hw'[Len(hw) + 1] = w
      /\ \A i \in 1 .. Len(hw) : hw'[i] = hw[i]
  BY DEF DataOK
<1>2. Occupied' = Occupied /\ RingShape' /\ RingContent'
  BY DEF Occupied, RingShape, RingContent, Slot, fifoVars
<1>3. w.seq \in Nat /\ nsent <= w.seq /\ w.n \in Nat
  <2>1. w.seq \in Nat /\ w.n \in Nat
    BY DEF Word
  <2> QED
    BY <1>1, <2>1 DEF Follows
<1> DEFINE P(i) == IF i = 1
                   THEN [n |-> nto' - nwritten', seq |-> Consumed' + Occupied']
                   ELSE [n |-> hw'[i - 1].n, seq |-> hw'[i - 1].seq]
<1>4. \A i \in 1 .. Len(hw) + 1 : P(i) = Prev(i)
  <2> SUFFICES ASSUME NEW i \in 1 .. Len(hw) + 1 PROVE P(i) = Prev(i)
    OBVIOUS
  <2>1. CASE i = 1
    BY <1>2, <2>1 DEF Prev, frameVars
  <2>2. CASE i # 1
    <3>1. i - 1 \in 1 .. Len(hw)
      BY <1>1, <2>2
    <3> QED
      BY <1>1, <2>2, <3>1 DEF Prev
  <2> QED
    BY <2>1, <2>2
<1>5. Prev(Len(hw) + 1).n = dleft /\ Prev(Len(hw) + 1).seq = nsent
  BY DEF StreamEnd
<1>6. \A i \in 1 .. Len(hw') : Follows(hw'[i], P(i)) /\ hw'[i].sess = sess
  <2> SUFFICES ASSUME NEW i \in 1 .. Len(hw')
               PROVE  Follows(hw'[i], P(i)) /\ hw'[i].sess = sess
    OBVIOUS
  <2> HIDE DEF P
  <2>1. CASE i = Len(hw) + 1
    BY <1>1, <1>4, <1>5, <2>1 DEF Follows
  <2>2. CASE i # Len(hw) + 1
    <3>1. i \in 1 .. Len(hw)
      BY <1>1, <2>2
    <3> QED
      BY <1>1, <1>4, <3>1 DEF Stream
  <2> QED
    BY <2>1, <2>2
<1>7. \A i \in 1 .. Len(hw') : hw'[i].seq <= nsent'
  <2> SUFFICES ASSUME NEW i \in 1 .. Len(hw') PROVE hw'[i].seq <= nsent'
    OBVIOUS
  <2>1. CASE i = Len(hw) + 1
    BY <1>1, <1>3, <2>1
  <2>2. CASE i # Len(hw) + 1
    <3>1. i \in 1 .. Len(hw)
      BY <1>1, <2>2
    <3>2. hw[i].seq \in Nat
      BY <1>1, <3>1, WordFields
    <3> QED
      BY <1>1, <1>3, <3>1, <3>2 DEF Stream
  <2> QED
    BY <2>1, <2>2
<1>8. Consumed' + Occupied' <= nsent'
  <2>1. Occupied \in Nat
    BY OccupiedType
  <2> QED
    BY <1>1, <1>2, <1>3, <2>1 DEF Stream
<1>9. Stream'
  <2>1. nwritten' <= nto'
    BY DEF Stream, frameVars
  <2> QED
    BY <1>6, <1>7, <1>8, <2>1 DEF Stream, Prev
<1>10. StreamEnd'
  <2>1. P(Len(hw') + 1) = [n |-> w.n, seq |-> w.seq]
    BY <1>1
  <2>2. P(Len(hw') + 1).seq = nsent' /\ P(Len(hw') + 1).n = dleft'
    <3> HIDE DEF P
    <3> QED
      BY <2>1
  <2> QED
    BY <2>2, Zenon DEF StreamEnd, Prev
<1> QED
  BY <1>2, <1>9, <1>10

\* pulp_mbox_read consumes exactly the words that were copied.
LEMMA UpdateKeepsStream ==
    ASSUME DataOK, RingShape, RingContent, Stream, StreamEnd, CopyOwned,
           ReadUpdate
    PROVE  /\ RingShape' /\ RingContent' /\ Stream' /\ StreamEnd'
<1>1. /\ rd \in 0 .. RingSize - 1 /\ wr \in 0 .. RingSize - 1
      /\ count \in Nat /\ copied \in 0 .. count
      /\ wr' = wr /\ ring' = ring /\ Len(got) \in Nat
      /\ UNCHANGED <<hw, nwritten, nto, sess, nsent, dleft, cpc>>
      /\ got' = got
      /\ rd' = IF rd + copied >= RingSize THEN 0 ELSE rd + copied
      /\ full /\ copied > 0 => ~full'
      /\ ~(full /\ copied > 0) => full' = full
      /\ rpc = "update" /\ rpc' \in {"drain", "ret"}
  BY DEF ReadUpdate, DataOK, Ring, frameVars, hwVars, devVars
<1>2. /\ Occupied \in 0 .. RingSize
      /\ copied <= Occupied /\ rd + copied <= RingSize
      /\ copied <= Len(got)
  <2>1. Occupied \in 0 .. RingSize
    BY OccupiedType
  <2> QED
    BY <1>1, <2>1 DEF CopyOwned
<1>3. Occupied' = Occupied - copied /\ RingShape'
  BY <1>1, <1>2 DEF Occupied, RingShape
<1>4. Consumed' = Consumed + copied /\ Consumed \in Nat
  BY <1>1, <1>2 DEF Consumed, Pending
<1>5. RingContent'
  <2>1. \A k \in 0 .. (Occupied - copied) - 1 : Slot(k)' = Slot(k + copied)
    BY <1>1, <1>2 DEF Slot
  <2> SUFFICES ASSUME NEW k \in 0 .. (Occupied - copied) - 1
               PROVE  /\ ring[Slot(k + copied)].kind = "PAYLOAD"
                      /\ ring[Slot(k + copied)].sess = sess
                      /\ ring[Slot(k + copied)].seq = Consumed + copied + k + 1
    BY <1>1, <1>3, <1>4, <2>1 DEF RingContent
  <2>2. k + copied \in 0 .. Occupied - 1
    BY <1>1, <1>2
  <2> QED
    BY <1>1, <1>2, <1>4, <2>2 DEF RingContent
<1>6. Consumed' + Occupied' = Consumed + Occupied
  BY <1>1, <1>2, <1>3, <1>4
<1>7. Stream' /\ StreamEnd'
  BY <1>1, <1>6 DEF Stream, StreamEnd, Prev, Follows
<1> QED
  BY <1>3, <1>5, <1>7

\* Steps of the hardware and of the handler outside its loop: they change
\* nothing the reader, the ring or the stream depend on.
LEMMA FrameStep ==
    ASSUME CopyOwned, Settled, InOrder,
           UNCHANGED <<hw, fifoVars, frameVars, sess, nsent, dleft, cpc, got,
                       count, src, copied>>,
           rpc' = rpc \/ (rpc = "asleep" /\ rpc' = "wait")
    PROVE  CopyOwned' /\ Settled' /\ InOrder'
<1>1. Consumed' = Consumed
  BY DEF Consumed, Pending
<1>2. Settled' /\ Occupied' = Occupied
  BY <1>1, SettledFrame
<1>3. InOrder'
  BY DEF InOrder
<1>4. CopyOwned'
  BY <1>2 DEF CopyOwned, fifoVars
<1> QED
  BY <1>2, <1>3, <1>4

\* Steps of the reader that move no word into or out of the ring.
LEMMA ReaderFrame ==
    ASSUME TypeInv, QuietReset, CopyOwned, Settled, InOrder,
           \/ \E c \in 1 .. MaxRead : ReadCall(c)
           \/ \E b \in BOOLEAN : ReadEnter(b)
           \/ ReadWait \/ ReadSignal \/ ReadCopyStart \/ ReadCopyFault
           \/ ReadCopyDone \/ ReadRab \/ ReadRelock \/ ReadDrainExit \/ ReadReturn
    PROVE  CopyOwned' /\ Settled' /\ InOrder'
<1> USE DEF TypeInv
<1>1. /\ UNCHANGED <<hw, fifoVars, frameVars, sess, nsent, dleft, cpc, got>>
      /\ UNCHANGED <<wr, rd, full>>
      /\ Pending' = Pending
  BY DEF ReadCall, ReadEnter, ReadWait, ReadSignal, ReadCopyStart,
         ReadCopyFault, ReadCopyDone, ReadRab, ReadRelock, ReadDrainExit,
         ReadReturn, hwVars, fifoVars, devVars, Pending, CopyInRange
<1>2. Settled' /\ Occupied' = Occupied
  <2>1. Consumed' = Consumed
    BY <1>1 DEF Consumed
  <2> QED
    BY <1>1, <2>1, SettledFrame
<1>3. InOrder'
  BY <1>1 DEF InOrder
<1>4. CopyOwned'
  <2>1. ASSUME NEW b \in BOOLEAN, ReadEnter(b) PROVE CopyOwned'
    <3>1. CASE RingEmpty
      BY <2>1, <3>1 DEF CopyOwned, ReadEnter
    <3>2. CASE ~RingEmpty
      <4>1. RingShape
        BY <2>1 DEF QuietReset, ReadEnter, Settled
      <4>2. count' <= Occupied /\ rd + count' <= RingSize
        BY <2>1, <3>2, <4>1 DEF ReadEnter, MinOf, Contiguous, Occupied, RingEmpty,
                                RingShape, DataOK, Ring
      <4> QED
        BY <1>1, <1>2, <2>1, <3>2, <4>2 DEF CopyOwned, ReadEnter
    <3> QED
      BY <3>1, <3>2
  <2>2. CASE ReadCopyStart
    BY <1>1, <1>2, <2>2 DEF CopyOwned, ReadCopyStart, CopyInRange, DataOK
  <2>3. CASE ReadCopyFault \/ ReadCopyDone
    BY <1>1, <1>2, <2>3 DEF CopyOwned, ReadCopyFault, ReadCopyDone
  <2>4. CASE \/ \E c \in 1 .. MaxRead : ReadCall(c)
             \/ ReadWait \/ ReadSignal
             \/ ReadRab \/ ReadRelock \/ ReadDrainExit \/ ReadReturn
    <3>1. rpc' \notin {"copystart", "copy", "update"}
      BY <2>4 DEF ReadCall, ReadWait, ReadSignal, ReadRab, ReadRelock,
                  ReadDrainExit, ReadReturn
    <3> QED
      BY <3>1 DEF CopyOwned
  <2> QED
    BY <2>1, <2>2, <2>3, <2>4
<1> QED
  BY <1>2, <1>3, <1>4

\* copy_to_user moves the next word of the stream to the user.
LEMMA CopyWordStep ==
    ASSUME TypeInv, QuietReset, CopyOwned, Settled, InOrder, ReadCopyWord
    PROVE  /\ CopyOwned' /\ Settled' /\ InOrder'
           /\ Len(got) < nsent
           /\ ring[src + copied].kind = "PAYLOAD"
           /\ ring[src + copied].sess = sess
           /\ ring[src + copied].seq = Len(got) + 1
<1>1. /\ rpc = "copy" /\ cpc = "running" /\ copied < count
      /\ got' = Append(got, ring[src + copied]) /\ copied' = copied + 1
      /\ UNCHANGED <<hw, fifoVars, frameVars, sess, nsent, dleft, cpc>>
      /\ UNCHANGED <<wr, rd, full, count, src, rpc>>
  BY DEF ReadCopyWord, hwVars, fifoVars, devVars, QuietReset
<1>2. /\ count \in Nat /\ copied \in Nat /\ got \in Seq(Word) /\ Len(got) \in Nat
      /\ rd \in 0 .. RingSize - 1 /\ nsent \in Nat
  BY DEF TypeInv, DataOK, Ring
<1>3. /\ RingShape /\ RingContent /\ Stream
      /\ src = rd /\ count <= Occupied /\ rd + count <= RingSize
      /\ copied <= Len(got)
  BY <1>1 DEF Settled, CopyOwned
<1>4. Occupied \in 0 .. RingSize
  BY <1>3, OccupiedType DEF TypeInv
<1>5. Consumed = Len(got) - copied /\ Consumed + Occupied <= nsent
  BY <1>1, <1>3 DEF Consumed, Pending, Stream
<1>6. /\ ring[src + copied].kind = "PAYLOAD"
      /\ ring[src + copied].sess = sess
      /\ ring[src + copied].seq = Len(got) + 1
  <2>1. copied \in 0 .. Occupied - 1 /\ Slot(copied) = src + copied
    BY <1>1, <1>2, <1>3, <1>4 DEF Slot
  <2> QED
    BY <1>2, <1>3, <1>5, <2>1 DEF RingContent
<1>7. Len(got') = Len(got) + 1 /\ got'[Len(got) + 1] = ring[src + copied]
      /\ \A i \in 1 .. Len(got) : got'[i] = got[i]
  BY <1>1, <1>2
<1>8. InOrder'
  BY <1>1, <1>2, <1>6, <1>7 DEF InOrder
<1>9. Consumed' = Consumed
  BY <1>1, <1>2, <1>7 DEF Consumed, Pending
<1>10. Settled' /\ Occupied' = Occupied
  BY <1>1, <1>9, SettledFrame
<1>11. CopyOwned'
  BY <1>1, <1>2, <1>3, <1>7, <1>10 DEF CopyOwned
<1> QED
  BY <1>1, <1>2, <1>3, <1>4, <1>5, <1>6, <1>8, <1>10, <1>11

\* Both drain loops, whatever the reader is doing meanwhile.
LEMMA DrainStep ==
    ASSUME TypeInv, LockInv, QuietReset, CopyOwned, Settled, InOrder,
           IsrLoop \/ ReadDrain
    PROVE  CopyOwned' /\ Settled' /\ InOrder'
<1>1. /\ PopHeader \/ PopRequest \/ PopPayload
      /\ UNCHANGED <<sess, nsent, dleft, cpc, got, count, src, copied>>
      /\ rpc' = rpc \/ (rpc = "drain" /\ rpc' = "rab")
  BY DEF IsrLoop, ReadDrain, readerVars, devVars
<1>2. rd' = rd
  BY <1>1 DEF PopHeader, PopRequest, PopPayload, fifoVars
<1>3. /\ Consumed' = Consumed
      /\ Len(got) \in Nat /\ count \in Nat /\ copied \in 0 .. count
  BY <1>1 DEF Consumed, Pending, TypeInv, DataOK
<1>4. Consumed \in Nat
  BY <1>3 DEF Consumed, Pending, CopyOwned
<1>5. ASSUME cpc # "clearing"
      PROVE  Settled' /\ Occupied' >= Occupied /\ Occupied \in Nat /\ Occupied' \in Nat
  <2>1. RingShape /\ RingContent /\ Stream /\ StreamEnd /\ DataOK
    BY <1>5 DEF Settled, TypeInv
  <2>2. RingShape' /\ RingContent' /\ Stream' /\ StreamEnd' /\ Occupied' >= Occupied
    BY <1>1, <1>3, <1>4, <2>1, PopKeepsStream
  <2>3. Occupied \in Nat
    BY <2>1, OccupiedType
  <2>4. CASE PopPayload
    BY <2>1, <2>2, <2>3, <2>4, PushWord DEF Settled
  <2>5. CASE PopHeader \/ PopRequest
    <3>1. UNCHANGED <<wr, rd, full>>
      BY <2>5 DEF PopHeader, PopRequest, fifoVars
    <3>2. Occupied' = Occupied
      BY <3>1 DEF Occupied
    <3> QED
      BY <2>2, <2>3, <3>2 DEF Settled
  <2> QED
    BY <1>1, <2>4, <2>5
<1>6. Settled'
  BY <1>1, <1>5 DEF Settled
<1>7. CopyOwned'
  <2>1. CASE rpc = "idle"
    BY <1>1, <2>1 DEF CopyOwned
  <2>2. CASE rpc # "idle"
    <3>1. cpc # "clearing"
      BY <2>2 DEF QuietReset
    <3> QED
      BY <1>1, <1>2, <1>3, <1>5, <3>1 DEF CopyOwned
  <2> QED
    BY <2>1, <2>2
<1>8. InOrder'
  BY <1>1 DEF InOrder
<1> QED
  BY <1>6, <1>7, <1>8

\* Every word the accelerator writes continues the stream.
LEMMA DeviceStep ==
    ASSUME TypeInv, QuietReset, CopyOwned, Settled, InOrder, Device
    PROVE  CopyOwned' /\ Settled' /\ InOrder'
<1>1. /\ cpc \in {"running", "off"} /\ cpc' = cpc
      /\ UNCHANGED <<fifoVars, frameVars, sess, got>>
      /\ UNCHANGED <<rpc, count, src, copied, wr, rd, full>>
  BY DEF Device, DevHeader, DevPayload, DevRab, DevWrite, fifoVars, readerVars
<1>2. /\ DataOK /\ RingShape /\ RingContent /\ Stream /\ StreamEnd
      /\ Consumed' = Consumed
  BY <1>1 DEF Settled, TypeInv, Consumed, Pending
<1>3. Consumed \in Nat
  BY DEF Consumed, Pending, CopyOwned, TypeInv, DataOK
<1>4. /\ dleft \in Nat /\ nsent \in Nat /\ sess \in Nat
  BY DEF TypeInv, DataOK
<1>5. PICK w \in Word :
         /\ Follows(w, [n |-> dleft, seq |-> nsent]) /\ w.sess = sess
         /\ hw' = Append(hw, w) /\ dleft' = w.n /\ nsent' = w.seq
  <2>1. ASSUME NEW n \in 0 .. MaxTransfer, DevHeader(n)
        PROVE  \E w \in Word :
                  /\ Follows(w, [n |-> dleft, seq |-> nsent]) /\ w.sess = sess
                  /\ hw' = Append(hw, w) /\ dleft' = w.n /\ nsent' = w.seq
    <3> DEFINE w == [kind |-> "TO_RUNTIME", n |-> n, sess |-> sess, seq |-> nsent]
    <3>1. w \in Word
      BY <1>4 DEF Word, Kinds
    <3> WITNESS w \in Word
    <3> QED
      BY <2>1 DEF DevHeader, DevWrite, Follows
  <2>2. CASE DevPayload
    <3> DEFINE w == [kind |-> "PAYLOAD", n |-> dleft - 1, sess |-> sess,
                     seq |-> nsent + 1]
    <3>1. w \in Word
      BY <1>4, <2>2 DEF Word, Kinds, DevPayload
    <3> WITNESS w \in Word
    <3> QED
      BY <1>4, <2>2 DEF DevPayload, DevWrite, Follows
  <2>3. CASE DevRab
    <3> DEFINE w == [kind |-> "RAB", n |-> 0, sess |-> sess, seq |-> nsent]
    <3>1. w \in Word
      BY <1>4 DEF Word, Kinds
    <3> WITNESS w \in Word
    <3> QED
      BY <2>3 DEF DevRab, DevWrite, Follows
  <2> QED
    BY <2>1, <2>2, <2>3 DEF Device
<1>6. /\ RingShape' /\ RingContent' /\ Stream' /\ StreamEnd'
      /\ Occupied' = Occupied
  BY <1>1, <1>2, <1>3, <1>5, SendKeepsStream
<1>7. Settled' /\ InOrder'
  BY <1>1, <1>6 DEF Settled, InOrder
<1>8. CopyOwned'
  BY <1>1, <1>6 DEF CopyOwned
<1> QED
  BY <1>7, <1>8

\* The ioctls: a reset restarts the stream with both FIFOs empty.
LEMMA IoctlStep ==
    ASSUME ~ConcurrentReset, TypeInv, QuietReset, CopyOwned, Settled, InOrder,
           Ioctl
    PROVE  CopyOwned' /\ Settled' /\ InOrder'
<1>1. /\ rpc = "idle" /\ rpc' = "idle"
      /\ Pending = 0 /\ Pending' = 0
  BY DEF Ioctl, SetModeOff, PulpReset, MboxInit, MboxClear, SetModeDriver,
         QuietReset, readerVars, Pending
<1>2. CopyOwned'
  BY <1>1 DEF CopyOwned
<1>3. CASE MboxClear
  <2>1. /\ wr' = 0 /\ rd' = 0 /\ ~full' /\ nwritten' = 0 /\ nto' = 0
        /\ hw' = <<>> /\ nsent' = 0 /\ got' = <<>> /\ dleft' = dleft
        /\ cpc = "clearing" /\ cpc' = "cleared" /\ dleft = 0
    BY <1>3 DEF MboxClear, QuietReset
  <2>2. Len(hw') = 0 /\ Len(got') = 0
    BY <2>1
  <2>3. Occupied' = 0 /\ Consumed' = 0 /\ RingShape'
    BY <1>1, <2>1, <2>2 DEF Occupied, Consumed, RingShape
  <2>4. RingContent' /\ InOrder' /\ Stream'
    BY <2>1, <2>2, <2>3 DEF RingContent, InOrder, Stream
  <2>5. StreamEnd'
    BY <2>1, <2>2, <2>3 DEF StreamEnd, Prev
  <2> QED
    BY <1>2, <2>3, <2>4, <2>5 DEF Settled
<1>4. CASE MboxInit
  BY <1>2, <1>4 DEF MboxInit, Settled, InOrder
<1>5. CASE SetModeOff \/ SetModeDriver \/ PulpReset
  <2>1. /\ UNCHANGED <<hw, fifoVars, frameVars, sess, nsent, got>>
        /\ UNCHANGED <<wr, rd, full, ring, nwritten, nto>>
        /\ cpc \in {"running", "cleared", "off"}
        /\ cpc' = "reset" \/ dleft' = dleft
    BY <1>5 DEF SetModeOff, SetModeDriver, PulpReset, hwVars, fifoVars,
                frameVars, devVars
  <2>2. /\ Consumed' = Consumed /\ Occupied' = Occupied
        /\ \A k : Slot(k)' = Slot(k)
    BY <1>1, <2>1 DEF Consumed, Occupied, Slot
  <2>3. RingShape' /\ RingContent' /\ InOrder'
    BY <2>1, <2>2 DEF Settled, RingShape, RingContent, InOrder
  <2>4. Stream' /\ StreamEnd'
    BY <2>1, <2>2 DEF Settled, Stream, StreamEnd, Prev, Follows
  <2> QED
    BY <1>2, <2>3, <2>4 DEF Settled
<1> QED
  BY <1>3, <1>4, <1>5 DEF Ioctl

\* Every step preserves the invariant.
LEMMA InvStep ==
    ASSUME ~ConcurrentReset, IInv, [Next]_vars
    PROVE  IInv'
<1>1. TypeInv /\ LockInv /\ QuietReset /\ CopyOwned /\ Settled /\ InOrder
  BY DEF IInv
<1>2. TypeInv'
  BY <1>1, DataStep, FlagsStep DEF TypeInv
<1>3. LockInv' /\ QuietReset'
  BY <1>1, LockStep, QuietStep
<1> SUFFICES CopyOwned' /\ Settled' /\ InOrder'
  BY <1>2, <1>3 DEF IInv
<1>4. CASE Device
  BY <1>1, <1>4, DeviceStep
<1>5. CASE HwLatch
  BY <1>1, <1>5, FrameStep DEF HwLatch, readerVars, devVars
<1>6. CASE IsrLoop \/ ReadDrain
  BY <1>1, <1>6, DrainStep
<1>7. CASE \/ IsrEnter \/ IsrCheckMode \/ IsrTurnOff \/ IsrStatus \/ IsrLock
           \/ IsrRab \/ IsrLoopExit \/ IsrAck \/ IsrWake
  <2>1. /\ UNCHANGED <<hw, fifoVars, frameVars, sess, nsent, dleft, cpc, got,
                       count, src, copied>>
        /\ rpc' = rpc \/ (rpc = "asleep" /\ rpc' = "wait")
    BY <1>7 DEF IsrEnter, IsrCheckMode, IsrTurnOff, IsrStatus, IsrLock, IsrRab,
                IsrLoopExit, IsrAck, IsrWake, hwVars, readerVars, devVars
  <2> QED
    BY <1>1, <2>1, FrameStep
<1>8. CASE ReadCopyWord
  BY <1>1, <1>8, CopyWordStep
<1>9. CASE ReadUpdate
  <2>1. cpc = "running" /\ cpc' = cpc /\ UNCHANGED <<sess, got>>
        /\ rpc' \notin {"copystart", "copy", "update"}
    BY <1>1, <1>9 DEF ReadUpdate, QuietReset
  <2>2. DataOK /\ RingShape /\ RingContent /\ Stream /\ StreamEnd
    BY <1>1, <2>1 DEF Settled, TypeInv
  <2>3. RingShape' /\ RingContent' /\ Stream' /\ StreamEnd'
    BY <1>1, <1>9, <2>2, UpdateKeepsStream
  <2>4. CopyOwned' /\ InOrder'
    BY <1>1, <2>1 DEF CopyOwned, InOrder
  <2> QED
    BY <2>3, <2>4 DEF Settled
<1>10. CASE \/ \E c \in 1 .. MaxRead : ReadCall(c)
            \/ \E b \in BOOLEAN : ReadEnter(b)
            \/ ReadWait \/ ReadSignal \/ ReadCopyStart \/ ReadCopyFault
            \/ ReadCopyDone \/ ReadRab \/ ReadRelock \/ ReadDrainExit \/ ReadReturn
  BY <1>1, <1>10, ReaderFrame
<1>11. CASE Ioctl
  BY <1>1, <1>11, IoctlStep
<1>12. CASE UNCHANGED vars
  BY <1>1, <1>12, FrameStep DEF vars, hwVars, readerVars, devVars
<1> QED
  BY <1>4, <1>5, <1>6, <1>7, <1>8, <1>9, <1>10, <1>11, <1>12
     DEF Next, Isr, Reader, ReaderStep

\* The initial state satisfies the invariant.
LEMMA InvInit == Init => IInv
<1> SUFFICES ASSUME Init PROVE IInv
  OBVIOUS
<1>1. NoWord \in Word
  BY DEF NoWord, Word, Kinds
<1>2. DataOK /\ CopyInRange
  BY <1>1 DEF Init, DataOK, CopyInRange, Ring, Kinds, NoReq
<1>3. FlagsOK
  BY Zenon DEF Init, FlagsOK
<1>4. LockInv /\ QuietReset /\ CopyOwned
  BY DEF Init, LockInv, QuietReset, CopyOwned
<1>5. /\ Len(hw) = 0 /\ Len(got) = 0 /\ Occupied = 0 /\ Consumed = 0
      /\ RingShape
  BY DEF Init, Occupied, Consumed, Pending, RingShape
<1>6. RingContent /\ Stream /\ InOrder
  BY <1>5 DEF Init, RingContent, Stream, InOrder
<1>7. StreamEnd
  BY <1>5 DEF Init, StreamEnd, Prev
<1> QED
  BY <1>2, <1>3, <1>4, <1>5, <1>6, <1>7 DEF IInv, TypeInv, Settled

\* The invariant holds throughout, for every value of the constants.
LEMMA Invariant == ASSUME ~ConcurrentReset PROVE Spec => []IInv
<1>1. IInv /\ [Next]_vars => IInv'
  BY InvStep
<1> QED
  BY InvInit, <1>1, PTL DEF Spec

(***************************************************************************)
(* If no thread resets the accelerator during a read(), what pulp_mbox_read *)
(* hands to the user is the payload of the session in the order in which   *)
(* the accelerator sent it: neither the interrupt handler nor a refill     *)
(* reorders, repeats or overwrites a word that copy_to_user still reads.   *)
(***************************************************************************)
THEOREM ReadInOrder == ASSUME ~ConcurrentReset PROVE Spec => []InOrder
<1>1. IInv => InOrder
  BY DEF IInv
<1> QED
  BY <1>1, Invariant, PTL

(***************************************************************************)
(* Under the same condition no payload word is lost: when both FIFOs have  *)
(* been drained the user has all the words sent, whatever signals and      *)
(* faults interrupted pulp_mbox_read.                                      *)
(***************************************************************************)
THEOREM ReadLosesNothing == ASSUME ~ConcurrentReset PROVE Spec => []NoLoss
<1>1. IInv => NoLoss
  <2> SUFFICES ASSUME IInv, hw = <<>>, RingEmpty, Pending = 0, cpc = "running"
               PROVE  Len(got) = nsent
    BY DEF NoLoss
  <2>1. DataOK /\ RingShape /\ StreamEnd
    BY DEF IInv, TypeInv, Settled
  <2>2. Occupied = 0 /\ Len(hw) = 0 /\ Len(got) \in Nat
    <3>1. Len(got) \in Nat
      BY <2>1 DEF DataOK
    <3> QED
      BY <2>1, <3>1, OccupiedType
  <2> QED
    BY <2>1, <2>2 DEF StreamEnd, Prev, Consumed
<1> QED
  BY <1>1, Invariant, PTL

----------------------------------------------------------------------------
(***************************************************************************)
(* Framing does not depend on the ring: Left(i) is the number of payload   *)
(* words still due before the i-th word of the hardware FIFO, and          *)
(* FrameChain is inductive even if resets race with read().                *)
(***************************************************************************)
Left(i) == IF i = 1 THEN nto - nwritten ELSE hw[i - 1].n

Framed(w, due) ==
    /\ w.kind = "RAB" => w.n = 0
    /\ IF due = 0 THEN w.kind # "PAYLOAD"
                  ELSE w.kind = "PAYLOAD" /\ w.n = due - 1

FrameChain ==
    /\ nwritten <= nto
    /\ \A i \in 1 .. Len(hw) : Framed(hw[i], Left(i))
    /\ IF cpc \in {"reset", "clearing"} THEN dleft = 0
                                       ELSE Left(Len(hw) + 1) = dleft

\* Every step keeps the counters in step with the words in flight.
LEMMA FrameChainStep ==
    ASSUME DataOK, FrameChain, [Next]_vars
    PROVE  FrameChain'
<1>1. /\ hw \in Seq(Word) /\ Len(hw) \in Nat
      /\ nto \in Nat /\ nwritten \in Nat /\ dleft \in Nat /\ nsent \in Nat
      /\ \A i \in 1 .. Len(hw) : hw[i].kind \in Kinds /\ hw[i].n \in Nat
  BY WordFields DEF DataOK
<1> DEFINE F(i) == IF i = 1 THEN nto' - nwritten' ELSE hw'[i - 1].n
<1>2. CASE Device
  <2>1. PICK w : /\ hw' = Append(hw, w) /\ Framed(w, dleft) /\ dleft' = w.n
                 /\ cpc \in {"running", "off"} /\ cpc' = cpc
                 /\ UNCHANGED <<nto, nwritten>>
    <3> DEFINE Goal(w) == /\ hw' = Append(hw, w) /\ Framed(w, dleft) /\ dleft' = w.n
                          /\ cpc \in {"running", "off"} /\ cpc' = cpc
                          /\ UNCHANGED <<nto, nwritten>>
    <3>1. ASSUME NEW n \in 0 .. MaxTransfer, DevHeader(n) PROVE \E w : Goal(w)
      <4>1. Goal([kind |-> "TO_RUNTIME", n |-> n, sess |-> sess, seq |-> nsent])
        BY <3>1 DEF DevHeader, DevWrite, Framed, frameVars
      <4> QED
        BY <4>1
    <3>2. ASSUME DevPayload PROVE \E w : Goal(w)
      <4>1. Goal([kind |-> "PAYLOAD", n |-> dleft - 1, sess |-> sess, seq |-> nsent + 1])
        BY <1>1, <3>2 DEF DevPayload, DevWrite, Framed, frameVars
      <4> QED
        BY <4>1
    <3>3. ASSUME DevRab PROVE \E w : Goal(w)
      <4>1. Goal([kind |-> "RAB", n |-> 0, sess |-> sess, seq |-> nsent])
        BY <3>3 DEF DevRab, DevWrite, Framed, frameVars
      <4> QED
        BY <4>1
    <3> HIDE DEF Goal
    <3>4. \E w : Goal(w)
      BY <1>2, <3>1, <3>2, <3>3 DEF Device
    <3> QED
      BY <3>4 DEF Goal
  <2>2. /\ Len(hw') = Len(hw) + 1 /\ hw'[Len(hw) + 1] = w
        /\ \A i \in 1 .. Len(hw) : hw'[i] = hw[i]
    BY <1>1, <2>1
  <2>3. \A i \in 1 .. Len(hw) + 1 : F(i) = Left(i)
    <3> SUFFICES ASSUME NEW i \in 1 .. Len(hw) + 1 PROVE F(i) = Left(i)
      OBVIOUS
    <3>1. i = 1 \/ i - 1 \in 1 .. Len(hw)
      BY <1>1
    <3> QED
      BY <2>1, <2>2, <3>1 DEF Left
  <2>4. \A i \in 1 .. Len(hw') : Framed(hw'[i], F(i))
    <3> HIDE DEF F
    <3> SUFFICES ASSUME NEW i \in 1 .. Len(hw') PROVE Framed(hw'[i], F(i))
      OBVIOUS
    <3>1. i = Len(hw) + 1 \/ i \in 1 .. Len(hw)
      BY <1>1, <2>2
    <3>2. Left(Len(hw) + 1) = dleft
      BY <2>1 DEF FrameChain
    <3> QED
      BY <2>1, <2>2, <2>3, <3>1, <3>2 DEF FrameChain
  <2>5. F(Len(hw') + 1) = dleft'
    BY <1>1, <2>1, <2>2
  <2> QED
    BY <2>1, <2>4, <2>5 DEF FrameChain, Left
<1>3. CASE IsrLoop \/ ReadDrain
  <2>1. UNCHANGED <<dleft, cpc>> /\ (PopHeader \/ PopRequest \/ PopPayload)
    BY <1>3 DEF IsrLoop, ReadDrain, devVars
  <2>2. hw # <<>> /\ hw' = Tail(hw)
    BY <2>1 DEF PopHeader, PopRequest, PopPayload, LoopCond
  <2>3. /\ Len(hw) > 0 /\ Head(hw) = hw[1] /\ Len(hw') = Len(hw) - 1
        /\ \A i \in 1 .. Len(hw') : hw'[i] = hw[i + 1]
    BY <1>1, <2>2
  <2>4. Framed(hw[1], nto - nwritten)
    BY <1>1, <2>3 DEF FrameChain, Left, Framed
  <2>5. nwritten' <= nto' /\ nto' - nwritten' = hw[1].n
    <3>1. hw[1].n \in Nat /\ hw[1].kind \in Kinds
      BY <1>1, <2>3
    <3>2. CASE PopHeader
      BY <2>3, <3>1, <3>2 DEF PopHeader
    <3>3. CASE PopRequest
      BY <1>1, <2>3, <2>4, <3>1, <3>3
         DEF PopRequest, NewTransfer, Framed, Kinds, FrameChain, frameVars
    <3>4. CASE PopPayload
      BY <1>1, <2>3, <2>4, <3>4 DEF PopPayload, NewTransfer, Framed, FrameChain
    <3> QED
      BY <2>1, <3>2, <3>3, <3>4
  <2>6. \A i \in 1 .. Len(hw) : F(i) = hw[i].n
    <3> SUFFICES ASSUME NEW i \in 1 .. Len(hw) PROVE F(i) = hw[i].n
      OBVIOUS
    <3>1. i = 1 \/ (i - 1 \in 1 .. Len(hw') /\ (i - 1) + 1 = i)
      BY <1>1, <2>3
    <3> QED
      BY <2>3, <2>5, <3>1
  <2>7. \A i \in 1 .. Len(hw) : Left(i + 1) = hw[i].n
    BY <1>1 DEF Left
  <2> HIDE DEF F
  <2>8. \A i \in 1 .. Len(hw') : Framed(hw'[i], F(i))
    <3> SUFFICES ASSUME NEW i \in 1 .. Len(hw') PROVE Framed(hw'[i], F(i))
      OBVIOUS
    <3>1. i \in 1 .. Len(hw) /\ i + 1 \in 1 .. Len(hw)
      BY <1>1, <2>3
    <3>2. F(i) = Left(i + 1) /\ hw'[i] = hw[i + 1]
      BY <2>3, <2>6, <2>7, <3>1
    <3>3. Framed(hw[i + 1], Left(i + 1))
      BY <3>1 DEF FrameChain
    <3> QED
      BY <3>2, <3>3
  <2>9. F(Len(hw') + 1) = Left(Len(hw) + 1)
    <3>1. Len(hw) \in 1 .. Len(hw) /\ Len(hw') + 1 = Len(hw)
      BY <1>1, <2>3
    <3> QED
      BY <2>6, <2>7, <3>1
  <2>10. IF cpc \in {"reset", "clearing"} THEN dleft = 0
                                        ELSE F(Len(hw') + 1) = dleft
    BY <2>9 DEF FrameChain
  <2> QED
    BY <2>1, <2>5, <2>8, <2>10 DEF FrameChain, Left, F
<1>4. CASE MboxClear
  <2>1. /\ hw' = <<>> /\ nto' = 0 /\ nwritten' = 0 /\ dleft' = dleft
        /\ cpc = "clearing" /\ cpc' = "cleared"
    BY <1>4 DEF MboxClear
  <2>2. Len(hw') = 0 /\ dleft = 0
    BY <2>1 DEF FrameChain
  <2> QED
    BY <2>1, <2>2 DEF FrameChain, Left
<1>5. CASE PulpReset \/ MboxInit \/ SetModeOff \/ SetModeDriver
  <2>1. /\ UNCHANGED <<hw, nto, nwritten>>
        /\ \/ cpc' \in {"reset", "clearing"} /\ dleft' = 0
           \/ /\ cpc \notin {"reset", "clearing"}
              /\ cpc' \notin {"reset", "clearing"} /\ dleft' = dleft
    BY <1>5 DEF PulpReset, MboxInit, SetModeOff, SetModeDriver, hwVars,
                frameVars, devVars, FrameChain
  <2> QED
    BY <2>1 DEF FrameChain, Left
<1>6. ASSUME UNCHANGED <<hw, nto, nwritten, dleft, cpc>> PROVE FrameChain'
  BY <1>6 DEF FrameChain, Left
<1>7. CASE HwLatch \/ UNCHANGED vars
  BY <1>6, <1>7 DEF HwLatch, vars, hwVars, frameVars, devVars
<1>8. CASE \/ IsrEnter \/ IsrCheckMode \/ IsrTurnOff \/ IsrStatus \/ IsrLock
           \/ IsrRab \/ IsrLoopExit \/ IsrAck \/ IsrWake
  BY <1>6, <1>8 DEF IsrEnter, IsrCheckMode, IsrTurnOff, IsrStatus, IsrLock,
                    IsrRab, IsrLoopExit, IsrAck, IsrWake, hwVars, frameVars,
                    devVars
<1>9. CASE Reader /\ ~ReadDrain
  BY <1>6, <1>9 DEF Reader, ReaderStep, ReadCall, ReadEnter, ReadWait,
       ReadSignal, ReadCopyStart, ReadCopyWord, ReadCopyFault, ReadCopyDone,
       ReadUpdate, ReadRab, ReadRelock, ReadDrainExit, ReadReturn, hwVars,
       frameVars, devVars
<1> QED
  BY <1>2, <1>3, <1>4, <1>5, <1>7, <1>8, <1>9
     DEF Next, Isr, Reader, ReaderStep, Ioctl

(***************************************************************************)
(* The driver never mistakes payload for a header or a header for payload, *)
(* even if resets race with read(): n_words_written and n_words_to_write   *)
(* stay in step with the transfers of the accelerator.                     *)
(***************************************************************************)
THEOREM FramingKept == Spec => []FramingInSync
<1>1. Init => TypeInv /\ FrameChain
  <2> SUFFICES ASSUME Init PROVE TypeInv /\ FrameChain
    OBVIOUS
  <2>1. Len(hw) = 0
    BY DEF Init
  <2>2. FrameChain
    BY <2>1 DEF Init, FrameChain, Left
  <2> QED
    BY <2>2, InvInit DEF IInv
<1>2. TypeInv /\ FrameChain /\ [Next]_vars => TypeInv' /\ FrameChain'
  BY DataStep, FlagsStep, FrameChainStep DEF TypeInv
<1>3. TypeInv /\ FrameChain => FramingInSync
  <2> SUFFICES ASSUME TypeInv, FrameChain, hw # <<>>
               PROVE  NewTransfer <=> Head(hw).kind # "PAYLOAD"
    BY DEF FramingInSync
  <2>1. hw \in Seq(Word) /\ nto \in Nat /\ nwritten \in Nat
    BY DEF TypeInv, DataOK
  <2>2. 1 \in 1 .. Len(hw) /\ Head(hw) = hw[1]
    BY <2>1
  <2>3. Framed(hw[1], nto - nwritten)
    BY <2>2 DEF FrameChain, Left, Framed
  <2> QED
    BY <2>1, <2>2, <2>3 DEF Framed, NewTransfer
<1> QED
  BY <1>1, <1>2, <1>3, PTL DEF Spec
----------------------------------------------------------------------------
(***************************************************************************)
(* The mailbox implements WordChannel: DevPayload is Send, a word copied   *)
(* by copy_to_user is Receive, pulp_mbox_clear is Reset and every other    *)
(* step is a stutter.                                                      *)
(***************************************************************************)
Received == [i \in 1 .. Len(got) |-> SeqOf(got[i])]

\* What the user has received are the numbers 1 to Len(got).
LEMMA ReceivedPrefix ==
    ASSUME InOrder PROVE Received = [i \in 1 .. Len(got) |-> i]
BY DEF Received, SeqOf, InOrder

\* Every step of the mailbox is a step of the channel or a stutter.
LEMMA ChannelStep ==
    ASSUME IInv, IInv', [Next]_vars
    PROVE  [Channel!ChanNext]_(Channel!chanVars)
<1>1. /\ TypeInv /\ QuietReset /\ CopyOwned /\ Settled /\ InOrder /\ InOrder'
      /\ got \in Seq(Word) /\ Len(got) \in Nat
  <2>1. TypeInv /\ QuietReset /\ CopyOwned /\ Settled /\ InOrder /\ InOrder'
    BY Zenon DEF IInv
  <2>2. got \in Seq(Word)
    BY <2>1, Zenon DEF TypeInv, DataOK
  <2>3. Len(got) \in Nat
    BY <2>2
  <2> QED
    BY <2>1, <2>2, <2>3, Zenon
<1>2. /\ Received = [i \in 1 .. Len(got) |-> i]
      /\ Received' = [i \in 1 .. Len(got') |-> i]
  BY <1>1, ReceivedPrefix DEF Received, SeqOf, InOrder
<1>3. CASE DevPayload
  <2>1. nsent' = nsent + 1 /\ UNCHANGED <<sess, got>>
    BY <1>3 DEF DevPayload, DevWrite
  <2>2. Received' = Received
    BY <1>2, <2>1
  <2> QED
    BY <2>1, <2>2 DEF Channel!ChanNext, Channel!Send, Received
<1>4. CASE ReadCopyWord
  <2>1. /\ got' = Append(got, ring[src + copied])
        /\ UNCHANGED <<sess, nsent>>
        /\ Len(got) < nsent
    BY <1>1, <1>4, CopyWordStep DEF ReadCopyWord, devVars
  <2>2. Len(got') = Len(got) + 1
    BY <1>1, <2>1
  <2>3. Received \in Seq(Nat) /\ Len(Received) = Len(got)
    BY <1>1, <1>2
  <2>4. Received' = Append(Received, Len(Received) + 1)
    BY <1>1, <1>2, <2>2, <2>3
  <2> QED
    BY <2>1, <2>3, <2>4 DEF Channel!ChanNext, Channel!Receive, Received
<1>5. CASE MboxClear
  <2>1. sess' = sess + 1 /\ nsent' = 0 /\ got' = <<>>
    BY <1>5 DEF MboxClear
  <2>2. Len(got') = 0
    BY <2>1
  <2>3. Received' = <<>>
    BY <1>2, <2>2
  <2> QED
    BY <2>1, <2>3 DEF Channel!ChanNext, Channel!Reset, Received
<1>6. ASSUME UNCHANGED <<sess, nsent, got>>
      PROVE  [Channel!ChanNext]_(Channel!chanVars)
  <2>1. Received' = Received
    BY <1>2, <1>6
  <2> QED
    BY <1>6, <2>1 DEF Channel!chanVars, Received
<1>7. CASE (\E n \in 0 .. MaxTransfer : DevHeader(n)) \/ DevRab \/ HwLatch
  BY <1>6, <1>7 DEF DevHeader, DevRab, DevWrite, HwLatch, devVars
<1>8. CASE Isr
  BY <1>6, <1>8 DEF Isr, IsrEnter, IsrCheckMode, IsrTurnOff, IsrStatus, IsrLock,
              IsrLoop, IsrRab, IsrLoopExit, IsrAck, IsrWake, devVars
<1>9. CASE Reader /\ ~ReadCopyWord
  BY <1>6, <1>9 DEF Reader, ReaderStep, ReadCall, ReadEnter, ReadWait,
       ReadSignal, ReadCopyStart, ReadCopyFault, ReadCopyDone, ReadUpdate,
       ReadDrain, ReadRab, ReadRelock, ReadDrainExit, ReadReturn, devVars
<1>10. CASE SetModeOff \/ PulpReset \/ MboxInit \/ SetModeDriver
  BY <1>6, <1>10 DEF SetModeOff, PulpReset, MboxInit, SetModeDriver, devVars
<1>11. CASE UNCHANGED vars
  BY <1>6, <1>11 DEF vars, devVars
<1> QED
  BY <1>3, <1>4, <1>5, <1>7, <1>8, <1>9, <1>10, <1>11
     DEF Next, Device, Reader, ReaderStep, Ioctl

(***************************************************************************)
(* If no thread resets the accelerator during a read(), the mailbox of the *)
(* driver implements the channel: a lossless FIFO of payload words that    *)
(* CTRL_RESET empties.                                                     *)
(***************************************************************************)
THEOREM MailboxIsChannel == ASSUME ~ConcurrentReset PROVE Spec => ImplementsChannel
<1>1. Init => Channel!ChanInit
  BY DEF Init, Channel!ChanInit
<1>2. IInv /\ IInv' /\ [Next]_vars => [Channel!ChanNext]_(Channel!chanVars)
  BY ChannelStep
<1> QED
  BY <1>1, <1>2, Invariant, PTL DEF Spec, ImplementsChannel, Channel!ChanSpec
----------------------------------------------------------------------------
(***************************************************************************)
(* RAB requests.  From a request of the accelerator to its HOST_READY the  *)
(* request is in one place: the hardware FIFO, the handler or the reader;  *)
(* RabOnce says so for the time outside of a reset.                        *)
(***************************************************************************)
NoRabInHw == \A i \in 1 .. Len(hw) : hw[i].kind # "RAB"

RabOnce ==
    cpc \notin {"reset", "clearing"} =>
        /\ ipc = "rab" => dwait /\ rpc # "rab" /\ NoRabInHw
        /\ rpc = "rab" => dwait /\ NoRabInHw
        /\ \A i \in 1 .. Len(hw) :
              hw[i].kind = "RAB"
                 => dwait /\ \A j \in 1 .. Len(hw) : hw[j].kind = "RAB" => j = i

\* Every step keeps a request in one place if none is still served when
\* pulp_mbox_clear runs.
LEMMA RabOnceStep ==
    ASSUME ~LateService, DataOK, QuietReset, FramingInSync, RabOnce, [Next]_vars
    PROVE  RabOnce'
<1>1. /\ hw \in Seq(Word) /\ Len(hw) \in Nat
      /\ \A i \in 1 .. Len(hw) : hw[i].kind \in Kinds
  BY WordFields DEF DataOK
<1>2. CASE Device
  <2>1. PICK w : /\ hw' = Append(hw, w)
                 /\ w.kind = "RAB" => ~dwait /\ dwait'
                 /\ w.kind # "RAB" => dwait' = dwait
                 /\ UNCHANGED <<cpc, ipc, rpc>>
                 /\ cpc \in {"running", "off"}
    <3> DEFINE Goal(w) == /\ hw' = Append(hw, w)
                          /\ w.kind = "RAB" => ~dwait /\ dwait'
                          /\ w.kind # "RAB" => dwait' = dwait
                          /\ UNCHANGED <<cpc, ipc, rpc>>
                          /\ cpc \in {"running", "off"}
    <3>1. ASSUME NEW n \in 0 .. MaxTransfer, DevHeader(n) PROVE \E w : Goal(w)
      <4>1. Goal([kind |-> "TO_RUNTIME", n |-> n, sess |-> sess, seq |-> nsent])
        BY <3>1 DEF DevHeader, DevWrite, isrVars, readerVars
      <4> QED
        BY <4>1
    <3>2. ASSUME DevPayload PROVE \E w : Goal(w)
      <4>1. Goal([kind |-> "PAYLOAD", n |-> dleft - 1, sess |-> sess, seq |-> nsent + 1])
        BY <3>2 DEF DevPayload, DevWrite, isrVars, readerVars
      <4> QED
        BY <4>1
    <3>3. ASSUME DevRab PROVE \E w : Goal(w)
      <4>1. Goal([kind |-> "RAB", n |-> 0, sess |-> sess, seq |-> nsent])
        BY <3>3 DEF DevRab, DevWrite, isrVars, readerVars
      <4> QED
        BY <4>1
    <3> HIDE DEF Goal
    <3>4. \E w : Goal(w)
      BY <1>2, <3>1, <3>2, <3>3 DEF Device
    <3> QED
      BY <3>4 DEF Goal
  <2>2. /\ Len(hw') = Len(hw) + 1 /\ hw'[Len(hw) + 1] = w
        /\ \A i \in 1 .. Len(hw) : hw'[i] = hw[i]
    BY <1>1, <2>1
  <2>3. \A i \in 1 .. Len(hw') : i \in 1 .. Len(hw) \/ i = Len(hw) + 1
    BY <1>1, <2>2
  <2> QED
    BY <2>1, <2>2, <2>3 DEF RabOnce, NoRabInHw
<1>3. CASE IsrLoop \/ ReadDrain
  <2>1. /\ UNCHANGED <<dwait, cpc>>
        /\ hw # <<>> /\ hw' = Tail(hw)
    BY <1>3 DEF IsrLoop, ReadDrain, devVars, PopHeader, PopRequest, PopPayload,
                LoopCond
  <2>2. /\ Len(hw) > 0 /\ Head(hw) = hw[1] /\ Len(hw') = Len(hw) - 1
        /\ \A i \in 1 .. Len(hw') : hw'[i] = hw[i + 1]
        /\ \A i \in 1 .. Len(hw') : i + 1 \in 1 .. Len(hw)
        /\ 1 \in 1 .. Len(hw)
        /\ \A i \in 1 .. Len(hw') : i + 1 # 1
    BY <1>1, <2>1
  <2>3. \A i, j \in 1 .. Len(hw') : i + 1 = j + 1 => i = j
    OBVIOUS
  <2>4. CASE PopRequest
    <3>1. hw[1].kind = "RAB"
      BY <1>1, <2>1, <2>2, <2>4 DEF PopRequest, FramingInSync, Kinds
    <3>2. CASE cpc \in {"reset", "clearing"}
      BY <2>1, <3>2 DEF RabOnce
    <3>3. CASE cpc \notin {"reset", "clearing"}
      <4>1. dwait /\ ipc # "rab" /\ rpc # "rab" /\ NoRabInHw'
        BY <2>2, <3>1, <3>3 DEF RabOnce, NoRabInHw
      <4>2. (ipc' = "rab" /\ rpc' = rpc) \/ (rpc' = "rab" /\ ipc' = ipc)
        BY <1>3, <2>4 DEF IsrLoop, ReadDrain, PopRequest, PopHeader, PopPayload,
                          isrVars, readerVars
      <4> QED
        BY <2>1, <4>1, <4>2 DEF RabOnce, NoRabInHw
    <3> QED
      BY <3>2, <3>3
  <2>5. CASE ~PopRequest
    <3>1. UNCHANGED <<ipc, rpc>>
      BY <1>3, <2>5 DEF IsrLoop, ReadDrain, isrVars, readerVars
    <3> QED
      BY <2>1, <2>2, <2>3, <3>1 DEF RabOnce, NoRabInHw
  <2> QED
    BY <2>4, <2>5
<1>4. CASE IsrRab \/ ReadRab
  <2>1. UNCHANGED <<hw, cpc>>
    BY <1>4 DEF IsrRab, ReadRab, hwVars
  <2>2. CASE IsrRab
    BY <2>1, <2>2 DEF IsrRab, ServeRequest, readerVars, RabOnce, NoRabInHw
  <2>3. CASE ReadRab
    BY <2>1, <2>3 DEF ReadRab, ServeRequest, isrVars, RabOnce, NoRabInHw
  <2> QED
    BY <1>4, <2>2, <2>3
<1>5. CASE MboxClear
  <2>1. /\ hw' = <<>> /\ ipc' = ipc /\ ipc # "rab" /\ rpc' = rpc /\ rpc = "idle"
    BY <1>5 DEF MboxClear, isrVars, readerVars, QuietReset
  <2> QED
    BY <2>1 DEF RabOnce, NoRabInHw
<1>6. CASE PulpReset \/ MboxInit
  BY <1>6 DEF PulpReset, MboxInit, RabOnce
<1>7. ASSUME /\ UNCHANGED <<hw, dwait>>
             /\ ipc' = ipc \/ ipc' # "rab"
             /\ rpc' = rpc \/ rpc' # "rab"
             /\ cpc' = cpc \/ cpc \notin {"reset", "clearing"}
      PROVE  RabOnce'
  BY <1>7 DEF RabOnce, NoRabInHw
<1>8. CASE SetModeOff \/ SetModeDriver
  BY <1>7, <1>8 DEF SetModeOff, SetModeDriver, hwVars, isrVars, readerVars, devVars
<1>9. CASE HwLatch \/ UNCHANGED vars
  BY <1>7, <1>9 DEF HwLatch, vars, hwVars, isrVars, readerVars, devVars
<1>10. CASE \/ IsrEnter \/ IsrCheckMode \/ IsrTurnOff \/ IsrStatus \/ IsrLock
            \/ IsrLoopExit \/ IsrAck \/ IsrWake
  BY <1>7, <1>10 DEF IsrEnter, IsrCheckMode, IsrTurnOff, IsrStatus, IsrLock,
                     IsrLoopExit, IsrAck, IsrWake, hwVars, readerVars, devVars
<1>11. CASE Reader /\ ~ReadDrain /\ ~ReadRab
  BY <1>7, <1>11 DEF Reader, ReaderStep, ReadCall, ReadEnter, ReadWait,
       ReadSignal, ReadCopyStart, ReadCopyWord, ReadCopyFault, ReadCopyDone,
       ReadUpdate, ReadRelock, ReadDrainExit, ReadReturn, hwVars, isrVars,
       devVars
<1> QED
  BY <1>2, <1>3, <1>4, <1>5, <1>6, <1>8, <1>9, <1>10, <1>11
     DEF Next, Isr, Reader, ReaderStep, Ioctl

(***************************************************************************)
(* If no read() and no RAB request is in progress across a CTRL_RESET, the *)
(* interrupt handler and a draining reader never serve two RAB requests at *)
(* once, although both drop mbox_fifo_mtx to serve one: pulp_rab_update    *)
(* and pulp_rab_switch need no lock of their own against each other.       *)
(***************************************************************************)
THEOREM RabRequestsSerial ==
    ASSUME ~ConcurrentReset, ~LateService PROVE Spec => []RabSerial
<1>1. Init => RabOnce
  <2> SUFFICES ASSUME Init PROVE RabOnce
    OBVIOUS
  <2>1. Len(hw) = 0
    BY DEF Init
  <2> QED
    BY <2>1 DEF Init, RabOnce, NoRabInHw
<1>2. IInv /\ FramingInSync /\ RabOnce /\ [Next]_vars => RabOnce'
  BY RabOnceStep DEF IInv, TypeInv
<1>3. IInv /\ RabOnce => RabSerial
  BY DEF IInv, QuietReset, RabOnce, RabSerial
<1> QED
  BY <1>1, <1>2, <1>3, Invariant, FramingKept, PTL DEF Spec
----------------------------------------------------------------------------
(***************************************************************************)
(* pulp_mbox_read of libpulp.  It counts in bytes what the driver counts   *)
(* in words.                                                               *)
(***************************************************************************)
Bytes(k) == k * WordBytes

\* Bytes is strictly monotonic, additive, and undone by \div.
LEMMA BytesFacts ==
    /\ \A a \in Nat : Bytes(a) \in Nat /\ (Bytes(a) = 0 <=> a = 0)
    /\ \A a, b \in Nat : Bytes(a + b) = Bytes(a) + Bytes(b)
    /\ \A a \in Nat : Bytes(a) \div WordBytes = a
<1>1. WordBytes \in Nat /\ WordBytes > 0
  BY LibAssumption
<1>2. \A a \in Nat : Bytes(a) \in Nat /\ (Bytes(a) = 0 <=> a = 0)
  BY <1>1 DEF Bytes
<1>3. \A a, b \in Nat : Bytes(a + b) = Bytes(a) + Bytes(b)
  BY <1>1 DEF Bytes
<1>4. \A a \in Nat : Bytes(a) \div WordBytes = a
  BY <1>1 DEF Bytes
<1> QED
  BY <1>2, <1>3, <1>4

(***************************************************************************)
(* LibCount(k): k words of the call have been read by completed read()s;   *)
(* the read() in flight, if there is one, asks for no more than the rest   *)
(* and has copied Taken words so far.                                      *)
(***************************************************************************)
Taken == IF lpc = "read" THEN copied ELSE 0

LibCount(k) ==
    /\ nchar = Bytes(k)
    /\ left = Bytes(nwords - k)
    /\ Len(got) = start + k + Taken
    /\ lpc = "read" => count <= nwords - k

LibInv ==
    /\ TypeInv /\ cpc = "running"
    /\ lpc \in {"idle", "loop", "read", "done"}
    /\ nwords \in 0 .. MaxRead /\ start \in Nat
    /\ lpc = "read" <=> rpc # "idle"
    /\ lpc # "idle" => \E k \in 0 .. nwords : LibCount(k)
    /\ lpc = "done" => left = 0

\* A call of read() by the library asks for at least one word and at most
\* for those its caller wants.
LEMMA LibReadCalls ==
    ASSUME LibInv, LibRead
    PROVE  \E k \in 0 .. nwords :
              /\ LibCount(k)
              /\ left \div WordBytes = nwords - k
              /\ nwords - k \in 1 .. MaxRead
<1>1. PICK k \in 0 .. nwords : LibCount(k)
  BY DEF LibInv, LibRead
<1>2. nwords - k \in Nat /\ nwords \in 0 .. MaxRead /\ MaxRead \in Nat
  BY DEF LibInv
<1>3. left = Bytes(nwords - k) /\ left > 0
  BY <1>1 DEF LibCount, LibRead
<1>4. left \div WordBytes = nwords - k /\ nwords - k # 0
  BY <1>2, <1>3, BytesFacts
<1> QED
  BY <1>1, <1>2, <1>4

\* A step below read() keeps LibCount: only copy_to_user changes what has
\* been received, and it counts what it copies.
LEMMA BelowStep ==
    ASSUME TypeInv, lpc = "read" <=> rpc # "idle", cpc = "running", Below
    PROVE  /\ cpc' = cpc
           /\ rpc' = "idle" <=> rpc = "idle"
           /\ rpc # "idle" => /\ Len(got') - copied' = Len(got) - copied
                              /\ count' <= count
           /\ rpc = "idle" => got' = got
<1>1. /\ got \in Seq(Word) /\ Len(got) \in Nat
      /\ count \in Nat /\ copied \in Nat /\ wr \in Ring /\ rd \in Ring
  <2>1. got \in Seq(Word) /\ count \in Nat /\ copied \in 0 .. count
        /\ wr \in Ring /\ rd \in Ring
    BY DEF TypeInv, DataOK
  <2> QED
    BY <2>1
<1>2. ASSUME UNCHANGED <<cpc, rpc, got, copied, count>>
      PROVE  /\ cpc' = cpc
             /\ rpc' = "idle" <=> rpc = "idle"
             /\ rpc # "idle" => /\ Len(got') - copied' = Len(got) - copied
                                /\ count' <= count
             /\ rpc = "idle" => got' = got
  BY <1>1, <1>2
<1>3. CASE Device \/ HwLatch
  BY <1>2, <1>3 DEF Device, DevHeader, DevPayload, DevRab, DevWrite, HwLatch,
                    readerVars
<1>4. CASE Isr /\ ~IsrWake
  BY <1>2, <1>4 DEF Isr, IsrEnter, IsrCheckMode, IsrTurnOff, IsrStatus, IsrLock,
                    IsrLoop, IsrRab, IsrLoopExit, IsrAck, readerVars
<1>5. CASE IsrWake
  BY <1>1, <1>5 DEF IsrWake
<1>6. CASE ReadCopyWord
  <2>1. Len(got') = Len(got) + 1 /\ copied' = copied + 1
    BY <1>1, <1>6 DEF ReadCopyWord
  <2> QED
    BY <1>1, <1>6, <2>1 DEF ReadCopyWord
<1>7. ASSUME NEW b \in BOOLEAN, ReadEnter(b)
      PROVE  /\ cpc' = cpc
             /\ rpc' = "idle" <=> rpc = "idle"
             /\ rpc # "idle" => /\ Len(got') - copied' = Len(got) - copied
                                /\ count' <= count
             /\ rpc = "idle" => got' = got
  BY <1>1, <1>7 DEF ReadEnter, MinOf, Contiguous, Ring
<1>8. CASE ReaderStep /\ ~ReadCopyWord /\ ~(\E b \in BOOLEAN : ReadEnter(b))
  BY <1>1, <1>8 DEF ReaderStep, ReadWait, ReadCopyStart, ReadCopyDone,
       ReadUpdate, ReadDrain, ReadRab, ReadRelock, ReadDrainExit
<1>9. CASE ReadSignal \/ ReadCopyFault
  BY <1>1, <1>9 DEF ReadSignal, ReadCopyFault
<1> QED
  BY <1>3, <1>4, <1>5, <1>6, <1>7, <1>8, <1>9 DEF Below

\* Every step of the library and the driver under it is a step of the
\* driver or leaves the driver alone.
LEMMA LibStepDrives == ASSUME LibInv, [LibNext]_allVars PROVE [Next]_vars
<1>1. CASE LibRead
  <2>1. PICK k \in 0 .. nwords : /\ left \div WordBytes = nwords - k
                                 /\ nwords - k \in 1 .. MaxRead
    BY <1>1, LibReadCalls
  <2>2. ReadCall(nwords - k)
    BY <1>1, <2>1 DEF LibRead
  <2> QED
    BY <2>1, <2>2 DEF Next, Reader
<1>2. CASE LibReadReturn
  BY <1>2 DEF LibReadReturn, Next, Reader
<1>3. CASE Below
  BY <1>3 DEF Below, Next, Reader
<1>4. CASE (\E n \in 1 .. MaxRead : LibCall(n)) \/ LibDone
  BY <1>4 DEF LibCall, LibDone
<1>5. CASE UNCHANGED allVars
  BY <1>5 DEF allVars
<1> QED
  BY <1>1, <1>2, <1>3, <1>4, <1>5 DEF LibNext

\* The invariant of the library is preserved.
LEMMA LibInvStep == ASSUME LibInv, [LibNext]_allVars PROVE LibInv'
<1>1. TypeInv'
  BY LibStepDrives, DataStep, FlagsStep DEF LibInv, TypeInv
<1>2. /\ TypeInv /\ cpc = "running" /\ nwords \in Nat /\ nwords <= MaxRead
      /\ start \in Nat /\ MaxRead \in Nat
      /\ lpc = "read" <=> rpc # "idle"
      /\ Len(got) \in Nat /\ count \in Nat /\ copied \in Nat /\ copied <= count
  <2>1. TypeInv /\ got \in Seq(Word) /\ count \in Nat /\ copied \in 0 .. count
    BY DEF LibInv, TypeInv, DataOK
  <2> QED
    BY <2>1 DEF LibInv
<1>3. ASSUME NEW n \in 1 .. MaxRead, LibCall(n) PROVE LibInv'
  <2>1. LibCount(0)'
    <3>1. Bytes(0) = 0 /\ n - 0 = n
      BY LibAssumption DEF Bytes
    <3>2. nchar' = Bytes(0) /\ left' = Bytes(nwords' - 0)
      BY <1>3, <3>1 DEF LibCall, Bytes
    <3>3. lpc' = "loop" /\ Len(got') = Len(got) /\ start' = Len(got)
      BY <1>3 DEF LibCall, vars
    <3> QED
      BY <1>2, <3>2, <3>3 DEF LibCount, Taken
  <2>2. /\ UNCHANGED vars /\ lpc' = "loop" /\ nwords' = n /\ start' = Len(got)
        /\ lpc # "read"
    BY <1>3 DEF LibCall
  <2>3. rpc' = "idle" /\ cpc' = "running"
    BY <1>2, <2>2 DEF vars, readerVars
  <2>4. 0 \in 0 .. nwords'
    BY <2>2
  <2> QED
    BY <1>1, <1>2, <2>1, <2>2, <2>3, <2>4 DEF LibInv
<1>4. CASE LibRead
  <2>1. PICK k \in 0 .. nwords : /\ LibCount(k)
                                 /\ left \div WordBytes = nwords - k
    BY <1>4, LibReadCalls
  <2>2. /\ lpc = "loop" /\ lpc' = "read" /\ rpc' = "enter" /\ cpc' = "running"
        /\ count' = nwords - k /\ copied' = 0
        /\ UNCHANGED <<got, nwords, nchar, left, start>>
    BY <1>2, <1>4, <2>1 DEF LibRead, ReadCall
  <2>3. LibCount(k)'
    BY <1>2, <2>1, <2>2 DEF LibCount, Taken
  <2> QED
    BY <1>1, <1>2, <2>2, <2>3 DEF LibInv
<1>5. CASE LibReadReturn
  <2>1. /\ lpc = "read" /\ rpc \in {"ret", "err"} /\ rpc' = "idle" /\ cpc' = "running"
        /\ UNCHANGED <<got, nwords, start>>
    BY <1>2, <1>5 DEF LibReadReturn, ReadReturn
  <2>2. CASE rpc = "ret" /\ copied = count
    <3>1. PICK k \in 0 .. nwords : LibCount(k)
      BY <2>1 DEF LibInv
    <3>2. /\ lpc' = "loop"
          /\ nchar' = nchar + Bytes(count) /\ left' = left - Bytes(count)
      BY <1>5, <2>2 DEF LibReadReturn, Bytes
    <3>3. /\ nchar = Bytes(k) /\ left = Bytes(nwords - k)
          /\ Len(got) = start + k + count /\ count <= nwords - k
      BY <2>1, <2>2, <3>1 DEF LibCount, Taken
    <3>4. /\ k \in Nat /\ nwords - k \in Nat /\ nwords - (k + count) \in Nat
          /\ (nwords - (k + count)) + count = nwords - k
          /\ k + count \in 0 .. nwords
      BY <1>2, <3>3
    <3>5. nchar' = Bytes(k + count)
      BY <1>2, <3>2, <3>3, <3>4, BytesFacts
    <3>6. left' = Bytes(nwords - (k + count))
      <4> DEFINE r == nwords - (k + count)
      <4>1. Bytes(r + count) = Bytes(r) + Bytes(count)
        BY <1>2, <3>4, BytesFacts
      <4>2. Bytes(r) \in Nat /\ Bytes(count) \in Nat
        BY <1>2, <3>4, BytesFacts
      <4>3. left = Bytes(r + count)
        BY <3>3, <3>4
      <4> HIDE DEF r
      <4>4. left' = Bytes(r)
        BY <3>2, <4>1, <4>2, <4>3
      <4> QED
        BY <4>4 DEF r
    <3>7. PICK m \in 0 .. nwords : m = k + count
      BY <3>4
    <3>8. LibCount(m)'
      BY <1>2, <2>1, <3>2, <3>3, <3>4, <3>5, <3>6, <3>7 DEF LibCount, Taken
    <3> QED
      BY <1>1, <1>2, <2>1, <3>2, <3>8 DEF LibInv
  <2>3. CASE ~(rpc = "ret" /\ copied = count)
    <3>1. lpc' = "idle"
      BY <1>5, <2>3 DEF LibReadReturn
    <3> QED
      BY <1>1, <1>2, <2>1, <3>1 DEF LibInv
  <2> QED
    BY <2>2, <2>3
<1>6. CASE LibDone
  <2>1. /\ lpc = "loop" /\ left = 0 /\ lpc' = "done"
        /\ UNCHANGED <<vars, nwords, nchar, left, start>>
    BY <1>6 DEF LibDone
  <2>2. UNCHANGED <<got, cpc, rpc, count, copied>>
    BY <2>1 DEF vars, readerVars
  <2>3. PICK k \in 0 .. nwords : LibCount(k)
    BY <2>1 DEF LibInv
  <2>4. LibCount(k)'
    BY <2>1, <2>2, <2>3 DEF LibCount, Taken
  <2> QED
    BY <1>1, <1>2, <2>1, <2>2, <2>3, <2>4 DEF LibInv
<1>7. CASE Below
  <2>1. UNCHANGED <<lpc, nwords, nchar, left, start>>
    BY <1>7 DEF Below, libVars
  <2>2. /\ cpc' = cpc
        /\ rpc' = "idle" <=> rpc = "idle"
        /\ rpc # "idle" => /\ Len(got') - copied' = Len(got) - copied
                           /\ count' <= count
        /\ rpc = "idle" => got' = got
    BY <1>2, <1>7, BelowStep
  <2>3. Len(got') \in Nat /\ copied' \in Nat /\ count' \in Nat
    <3>1. got' \in Seq(Word) /\ count' \in Nat /\ copied' \in 0 .. count'
      BY <1>1 DEF TypeInv, DataOK
    <3> QED
      BY <3>1
  <2>4. ASSUME NEW k \in 0 .. nwords, LibCount(k) PROVE LibCount(k)'
    <3>1. k \in Nat
      BY <1>2
    <3>2. CASE lpc = "read"
      <4>1. Len(got) = start + k + copied /\ count <= nwords - k
        BY <2>4, <3>2 DEF LibCount, Taken
      <4>2. Len(got') - copied' = Len(got) - copied /\ count' <= count
        BY <1>2, <2>2, <3>2
      <4>3. Len(got') = start + k + copied'
        <5>1. \A g, h, c, d \in Nat :
                 g - d = h - c /\ h = start + k + c => g = start + k + d
          BY <1>2, <3>1
        <5>2. PICK g \in Nat, h \in Nat, c \in Nat, d \in Nat :
                 g = Len(got') /\ h = Len(got) /\ c = copied /\ d = copied'
          BY <1>2, <2>3
        <5>3. g - d = h - c
          BY <4>2, <5>2
        <5>4. h = start + k + c
          BY <4>1, <5>2
        <5>5. g = start + k + d
          BY <5>1, <5>3, <5>4
        <5> QED
          BY <5>2, <5>5
      <4>4. count' <= nwords - k
        BY <1>2, <2>3, <3>1, <4>1, <4>2
      <4> QED
        BY <2>1, <2>4, <3>2, <4>3, <4>4 DEF LibCount, Taken
    <3>3. CASE lpc # "read"
      BY <1>2, <2>1, <2>2, <2>4, <3>3 DEF LibCount, Taken
    <3> QED
      BY <3>2, <3>3
  <2> QED
    BY <1>1, <1>2, <2>1, <2>2, <2>4 DEF LibInv
<1>8. CASE UNCHANGED allVars
  BY <1>1, <1>8 DEF allVars, vars, libVars, readerVars, LibInv, LibCount, Taken
<1> QED
  BY <1>3, <1>4, <1>5, <1>6, <1>7, <1>8 DEF LibNext

\* The library starts in its invariant.
LEMMA LibInvInit == LibInit => LibInv
<1> SUFFICES ASSUME LibInit PROVE LibInv
  OBVIOUS
<1>1. TypeInv
  BY InvInit DEF LibInit, IInv
<1> QED
  BY <1>1 DEF LibInit, Init, LibInv

(***************************************************************************)
(* A successful pulp_mbox_read of libpulp has taken exactly the words its  *)
(* caller asked for, for every ring, transfer and word size and however    *)
(* the driver splits them over read() calls.                               *)
(***************************************************************************)
THEOREM LibTakesExactly == LibSpec => []ReadTakesExactly
<1>1. LibInv /\ [LibNext]_allVars => LibInv'
  BY LibInvStep
<1>2. LibInv => ReadTakesExactly
  <2> SUFFICES ASSUME LibInv, lpc = "done" PROVE Len(got) = start + nwords
    BY DEF ReadTakesExactly
  <2>1. PICK k \in 0 .. nwords : LibCount(k)
    BY DEF LibInv
  <2>2. left = 0 /\ left = Bytes(nwords - k) /\ Len(got) = start + k
    <3>1. nwords \in Nat /\ start \in Nat
      BY DEF LibInv
    <3> QED
      BY <2>1, <3>1 DEF LibInv, LibCount, Taken
  <2>3. nwords - k \in Nat /\ nwords \in Nat
    BY DEF LibInv
  <2>4. nwords - k = 0
    BY <2>2, <2>3, BytesFacts
  <2> QED
    BY <2>2, <2>3, <2>4
<1> QED
  BY LibInvInit, <1>1, <1>2, PTL DEF LibSpec

(***************************************************************************)
(* The library drives the driver as Mailbox says a user does: each of its  *)
(* read() calls asks for 1 to MaxRead words, so every result about the     *)
(* driver holds under the library.                                         *)
(***************************************************************************)
THEOREM LibUsesMailbox == LibSpec => Spec
<1>1. LibInit => Init
  BY DEF LibInit
<1>2. LibInv /\ [LibNext]_allVars => LibInv'
  BY LibInvStep
<1>3. LibInv /\ [LibNext]_allVars => [Next]_vars
  BY LibStepDrives
<1> QED
  BY LibInvInit, <1>1, <1>2, <1>3, PTL DEF LibSpec, Spec
=============================================================================
