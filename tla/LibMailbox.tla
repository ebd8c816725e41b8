---------------------------- MODULE LibMailbox ----------------------------
(***************************************************************************)
(* pulp_mbox_read() of libpulp on top of the driver: it calls read() until *)
(* n_words words have arrived.  The driver returns fewer words than asked  *)
(* for when the rest has not arrived yet or lies behind the end of the     *)
(* ring, so the loop body runs more than once.                             *)
(***************************************************************************)
EXTENDS Mailbox

CONSTANT WordBytes   \* sizeof(uint32_t), the stride of buffer[]

ASSUME LibAssumption == WordBytes \in Nat \ {0}

VARIABLES
    lpc,      \* "idle", "loop", "read" or "done"
    nwords,   \* words asked for by the caller
    nchar,    \* n_char: bytes read so far
    left,     \* n_char_left
    start,    \* words received before this call
    buffer    \* the caller's memory, as words from &buffer[0] on

libVars == <<lpc, nwords, nchar, left, start, buffer>>
allVars == <<vars, libVars>>

Cells == 0 .. WordBytes * MaxRead

LibInit ==
    /\ Init
    /\ lpc = "idle" /\ nwords = 0 /\ nchar = 0 /\ left = 0 /\ start = 0
    /\ buffer = [c \in Cells |-> NoWord]

LibCall(n) ==
    /\ lpc \in {"idle", "done"}
    /\ lpc' = "loop" /\ nwords' = n
    /\ nchar' = 0 /\ left' = n * WordBytes
    /\ start' = Len(got)
    /\ buffer' = [c \in Cells |-> NoWord]
    /\ UNCHANGED vars

\* read(fd, (char *)&buffer[n_char], n_char_left)
LibRead ==
    /\ lpc = "loop" /\ left > 0
    /\ ReadCall(left \div WordBytes)
    /\ lpc' = "read"
    /\ UNCHANGED <<nwords, nchar, left, start, buffer>>

\* Mutant: an error of read() is retried.
LibReadReturnRetries ==
    /\ lpc = "read"
    /\ ReadReturn
    /\ lpc' = "loop"
    /\ IF rpc = "ret" /\ copied = count
       THEN /\ nchar' = nchar + count * WordBytes
            /\ left' = left - count * WordBytes
       ELSE UNCHANGED <<nchar, left>>
    /\ UNCHANGED <<nwords, start, buffer>>

\* The words of a successful read() are stored from element n_char on; an
\* error ends the call.
LibReadReturn ==
    /\ lpc = "read"
    /\ ReadReturn
    /\ IF rpc = "ret" /\ copied = count
       THEN /\ buffer' = [c \in Cells |->
                   IF c \in nchar .. nchar + count - 1
                   THEN got[Len(got) - count + 1 + (c - nchar)]
                   ELSE buffer[c]]
            /\ nchar' = nchar + count * WordBytes
            /\ left' = left - count * WordBytes
            /\ lpc' = "loop"
       ELSE lpc' = "idle" /\ UNCHANGED <<nchar, left, buffer>>
    /\ UNCHANGED <<nwords, start>>

LibDone ==
    /\ lpc = "loop" /\ left = 0
    /\ lpc' = "done"
    /\ UNCHANGED <<vars, nwords, nchar, left, start, buffer>>

\* Everything below read(): driver, hardware and accelerator.
Below == /\ Device \/ HwLatch \/ Isr \/ ReaderStep \/ ReadSignal \/ ReadCopyFault
         /\ UNCHANGED libVars

LibNext == \/ \E n \in 1 .. MaxRead : LibCall(n)
           \/ LibRead \/ LibReadReturn \/ LibDone \/ Below

LibSpec == LibInit /\ [][LibNext]_allVars

\* The fairness of the driver, whose read() is now called by the library.
LibFairSpec == LibSpec /\ Fairness
----------------------------------------------------------------------------
(***************************************************************************)
(* "Read one or multiple words from the mailbox": a successful call leaves *)
(* the next nwords words of the mailbox in buffer[0] to buffer[nwords-1].  *)
(***************************************************************************)
ReadFillsBuffer ==
    lpc = "done" => \A i \in 0 .. nwords - 1 : buffer[i] = got[start + 1 + i]

(***************************************************************************)
(* A call takes no more and no fewer words from the driver than its caller *)
(* asked for, however the driver splits them over read() calls.            *)
(***************************************************************************)
ReadTakesExactly == lpc = "done" => Len(got) = start + nwords
=============================================================================
