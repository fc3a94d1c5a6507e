----------------------------- MODULE RingBuffer -----------------------------
(***************************************************************************)
(* The ring buffer class rb_base of src/lib/ringbuffer, which queues the   *)
(* commands of the telegram bot.  Every member function is an action; what *)
(* it returns, and what it copies to its argument, is result.              *)
(*                                                                         *)
(* Full and empty are flags beside the two indices, so an index pair with  *)
(* equal values can mean either.                                           *)
(***************************************************************************)
EXTENDS Sequences, Integers

CONSTANTS N,          \* _num_elements
          Elements,   \* the elements clients write
          Zero,       \* what calloc fills the memory with
          Nothing     \* an output argument that was not written

ASSUME RingAssumption ==
    /\ N \in Nat /\ N > 0
    /\ Zero \in Elements /\ Nothing \notin Elements

VARIABLES rbData,     \* _rb_data
          readNdx,    \* _read_ndx
          writeNdx,   \* _write_ndx
          full,       \* _full
          empty,      \* _empty
          memOk,      \* _mem_ok: calloc succeeded
          peakAllNdx, \* _peak_all_ndx
          peakStart,  \* _peak_start
          result,     \* of the last call
          stale       \* history: the content changed since peak_all_start

dataVars == <<rbData, readNdx, writeNdx, full, empty>>
peakVars == <<peakAllNdx, peakStart>>
vars == <<dataVars, memOk, peakVars, result, stale>>

Slots == 0 .. N - 1

Result(ok, value) == [ok |-> ok, value |-> value]

Init ==
    /\ rbData = [i \in Slots |-> Zero]
    /\ readNdx = 0 /\ writeNdx = 0
    /\ full = FALSE /\ empty = TRUE
    /\ memOk \in BOOLEAN
    /\ peakAllNdx = 0 /\ peakStart = FALSE
    /\ result = Result(FALSE, Nothing)
    /\ stale = FALSE

\* Mutant: the wrap comes one index too late.
LateWrap(ndx) == IF ndx + 1 > N THEN 0 ELSE ndx + 1

\* an index after an increment
Advance(ndx) == IF ndx + 1 >= N THEN 0 ELSE ndx + 1

\* remaining_elm()
RemainingElm ==
    IF empty THEN 0
    ELSE IF full THEN N
    ELSE IF writeNdx >= readNdx THEN writeNdx - readNdx
    ELSE N - readNdx + writeNdx

Refuse == result' = Result(FALSE, Nothing) /\ UNCHANGED <<dataVars, stale>>

\* increment_wr_ndx() after the copy of the element, where rd is _read_ndx
Store(e, rd) ==
    /\ rbData' = [rbData EXCEPT ![writeNdx] = e]
    /\ writeNdx' = Advance(writeNdx)
    /\ readNdx' = rd
    /\ empty' = FALSE
    /\ result' = Result(TRUE, Nothing)
    /\ stale' = TRUE

Write(e) ==
    /\ IF full \/ ~memOk THEN Refuse
       ELSE /\ Store(e, readNdx)
            /\ full' = (Advance(writeNdx) = readNdx)
    /\ UNCHANGED <<memOk, peakVars>>

\* Mutant: the oldest element is overwritten, yet stays the next to read.
OverwriteOldest(e) ==
    /\ IF ~memOk THEN Refuse
       ELSE /\ Store(e, readNdx)
            /\ full' = (full \/ Advance(writeNdx) = readNdx)
    /\ UNCHANGED <<memOk, peakVars>>

\* increment_rd_ndx() first, if the buffer is full; it clears _full
WriteLossy(e) ==
    /\ IF ~memOk THEN Refuse
       ELSE LET rd == IF full THEN Advance(readNdx) ELSE readNdx
            IN  /\ Store(e, rd)
                /\ full' = (Advance(writeNdx) = rd)
    /\ UNCHANGED <<memOk, peakVars>>

Peak ==
    /\ result' = IF empty \/ ~memOk THEN Result(FALSE, Nothing)
                 ELSE Result(TRUE, rbData[readNdx])
    /\ UNCHANGED <<dataVars, memOk, peakVars, stale>>

Read ==
    /\ IF empty \/ ~memOk THEN Refuse
       ELSE /\ result' = Result(TRUE, rbData[readNdx])
            /\ readNdx' = Advance(readNdx)
            /\ full' = FALSE
            /\ empty' = (Advance(readNdx) = writeNdx)
            /\ stale' = TRUE
            /\ UNCHANGED <<rbData, writeNdx>>
    /\ UNCHANGED <<memOk, peakVars>>

Clear ==
    /\ readNdx' = 0 /\ writeNdx' = 0
    /\ full' = FALSE /\ empty' = TRUE
    /\ result' = Result(TRUE, Nothing)
    /\ stale' = TRUE
    /\ UNCHANGED <<rbData, memOk, peakVars>>

PeakAllStart ==
    /\ peakAllNdx' = readNdx /\ peakStart' = TRUE
    /\ result' = Result(TRUE, RemainingElm)
    /\ stale' = FALSE
    /\ UNCHANGED <<dataVars, memOk>>

PeakDone == ~memOk \/ empty \/ (~peakStart /\ peakAllNdx = writeNdx)

PeakAllNext ==
    /\ IF PeakDone
       THEN result' = Result(FALSE, Nothing) /\ UNCHANGED peakVars
       ELSE /\ result' = Result(TRUE, rbData[peakAllNdx])
            /\ peakStart' = FALSE
            /\ peakAllNdx' = Advance(peakAllNdx)
    /\ UNCHANGED <<dataVars, memOk, stale>>

Next ==
    \/ \E e \in Elements : Write(e) \/ WriteLossy(e)
    \/ Read \/ Peak \/ Clear \/ PeakAllStart \/ PeakAllNext

Spec == Init /\ [][Next]_vars

-----------------------------------------------------------------------------
(* Properties.                                                             *)

\* Every variable keeps its type; in particular both indices stay inside the
\* allocated memory.
TypeOK ==
    /\ rbData \in [Slots -> Elements]
    /\ readNdx \in Slots /\ writeNdx \in Slots /\ peakAllNdx \in Slots
    /\ full \in BOOLEAN /\ empty \in BOOLEAN /\ memOk \in BOOLEAN
    /\ peakStart \in BOOLEAN /\ stale \in BOOLEAN
    /\ result \in [ok : BOOLEAN, value : Elements \cup {Nothing} \cup 0 .. N]

\* The flags resolve the ambiguity of equal indices: they are equal exactly
\* if one flag is set, never both are, and no element is ever claimed in a
\* buffer without memory.
FlagsMatchIndices ==
    /\ ~(full /\ empty)
    /\ (full \/ empty) <=> readNdx = writeNdx
    /\ ~memOk => empty

\* the slot k places after ndx
Slot(ndx, k) == IF ndx + k < N THEN ndx + k ELSE ndx + k - N

\* k elements from ndx on
Stored(ndx, k) == [i \in 1 .. k |-> rbData[Slot(ndx, i - 1)]]

\* how many slots the walk has left
Unpeaked ==
    IF PeakDone THEN 0
    ELSE IF peakStart THEN RemainingElm
    ELSE IF writeNdx >= peakAllNdx THEN writeNdx - peakAllNdx
    ELSE N - peakAllNdx + writeNdx

\* The buffer is a bounded first-in first-out queue: nothing is lost,
\* duplicated or reordered, a lossy write loses the oldest element only, and
\* a walk over unchanged content shows every unread element once, in order.
Fifo == INSTANCE BoundedFifo WITH
            queue    <- Stored(readNdx, RemainingElm),
            room     <- IF memOk THEN N ELSE 0,
            unpeaked <- IF stale THEN << >> ELSE Stored(peakAllNdx, Unpeaked)
ImplementsFifo == Fifo!Spec
=============================================================================
