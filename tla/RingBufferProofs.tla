-------------------------- MODULE RingBufferProofs --------------------------
(***************************************************************************)
(* The ring buffer implements the bounded queue, for every capacity.       *)
(***************************************************************************)
EXTENDS RingBuffer, TLAPS

USE RingAssumption

LEMMA AdvanceType == \A ndx \in Slots : Advance(ndx) \in Slots
BY DEF Advance, Slots

(* TypeOK in three parts: truth values for Zenon, memory and indices, and  *)
(* the result of the last call.                                            *)

Flags == /\ full \in BOOLEAN /\ empty \in BOOLEAN /\ memOk \in BOOLEAN
         /\ peakStart \in BOOLEAN /\ stale \in BOOLEAN
Indices == /\ rbData \in [Slots -> Elements]
           /\ readNdx \in Slots /\ writeNdx \in Slots /\ peakAllNdx \in Slots
Values == Elements \cup {Nothing} \cup 0 .. N
ResultOK == result \in [ok : BOOLEAN, value : Values]

LEMMA TypeParts == TypeOK <=> Flags /\ Indices /\ ResultOK
BY DEF TypeOK, Flags, Indices, ResultOK, Values

LEMMA FlagsType == Flags /\ [Next]_vars => Flags'
<1> SUFFICES ASSUME Flags, [Next]_vars PROVE Flags'
  OBVIOUS
<1> USE DEF Flags, dataVars, peakVars
<1>1. ASSUME NEW e \in Elements, Write(e) PROVE Flags'
  BY <1>1 DEF Write, Refuse, Store
<1>2. ASSUME NEW e \in Elements, WriteLossy(e) PROVE Flags'
  BY <1>2 DEF WriteLossy, Refuse, Store
<1>3. CASE Read
  BY <1>3 DEF Read, Refuse
<1>4. CASE Peak \/ Clear \/ PeakAllStart \/ UNCHANGED vars
  BY <1>4 DEF Peak, Clear, PeakAllStart, vars
<1>5. CASE PeakAllNext
  BY <1>5 DEF PeakAllNext
<1>6. QED
  BY <1>1, <1>2, <1>3, <1>4, <1>5 DEF Next

LEMMA IndicesType == Indices /\ [Next]_vars => Indices'
<1> SUFFICES ASSUME Indices, [Next]_vars PROVE Indices'
  OBVIOUS
<1> USE DEF Indices, dataVars, peakVars
<1>1. /\ Advance(readNdx) \in Slots /\ Advance(writeNdx) \in Slots
      /\ Advance(peakAllNdx) \in Slots /\ 0 \in Slots
  BY AdvanceType DEF Slots
<1>2. \A e \in Elements : [rbData EXCEPT ![writeNdx] = e]
                             \in [Slots -> Elements]
  OBVIOUS
<1>3. ASSUME NEW e \in Elements, Write(e) PROVE Indices'
  BY <1>1, <1>2, <1>3 DEF Write, Refuse, Store
<1>4. ASSUME NEW e \in Elements, WriteLossy(e) PROVE Indices'
  BY <1>1, <1>2, <1>4 DEF WriteLossy, Refuse, Store
<1>5. CASE Read
  BY <1>1, <1>5 DEF Read, Refuse
<1>6. CASE Peak \/ Clear \/ PeakAllStart \/ UNCHANGED vars
  BY <1>1, <1>6 DEF Peak, Clear, PeakAllStart, vars
<1>7. CASE PeakAllNext
  BY <1>1, <1>7 DEF PeakAllNext
<1>8. QED
  BY <1>3, <1>4, <1>5, <1>6, <1>7 DEF Next

LEMMA ResultType == Indices /\ ResultOK /\ [Next]_vars => ResultOK'
<1> SUFFICES ASSUME Indices, ResultOK, [Next]_vars PROVE ResultOK'
  OBVIOUS
<1>1. \/ \E ok \in BOOLEAN, v \in Values : result' = Result(ok, v)
      \/ result' = result
  <2>1. RemainingElm \in Values
    BY DEF RemainingElm, Values, Indices, Slots
  <2>2. /\ rbData[readNdx] \in Values /\ rbData[peakAllNdx] \in Values
        /\ Nothing \in Values
    BY DEF Indices, Values
  <2>3. QED
    BY <2>1, <2>2
    DEF Next, vars, Write, WriteLossy, Refuse, Store, Read, Peak, Clear,
        PeakAllStart, PeakAllNext
<1>2. QED
  BY <1>1 DEF Result, ResultOK

LEMMA TypeNext == TypeOK /\ [Next]_vars => TypeOK'
<1>1. TypeOK' <=> Flags' /\ Indices' /\ ResultOK'
  BY DEF TypeOK, Flags, Indices, ResultOK, Values
<1>2. QED
  BY <1>1, TypeParts, FlagsType, IndicesType, ResultType

LEMMA FlagsNext == TypeOK /\ FlagsMatchIndices /\ [Next]_vars
                      => FlagsMatchIndices'
<1> SUFFICES ASSUME TypeOK, FlagsMatchIndices, [Next]_vars
             PROVE  FlagsMatchIndices'
  OBVIOUS
<1> USE DEF TypeOK, FlagsMatchIndices
<1>1. ASSUME NEW e \in Elements, Write(e) PROVE FlagsMatchIndices'
  BY <1>1 DEF Write, Refuse, Store, dataVars
<1>2. ASSUME NEW e \in Elements, WriteLossy(e) PROVE FlagsMatchIndices'
  BY <1>2 DEF WriteLossy, Refuse, Store, dataVars
<1>3. CASE Read
  BY <1>3 DEF Read, Refuse, dataVars
<1>4. CASE Clear
  BY <1>4 DEF Clear
<1>5. CASE UNCHANGED <<dataVars, memOk>>
  BY <1>5 DEF dataVars
<1>6. Peak \/ PeakAllStart \/ PeakAllNext \/ UNCHANGED vars
        => UNCHANGED <<dataVars, memOk>>
  BY DEF Peak, PeakAllStart, PeakAllNext, vars
<1>7. QED
  BY <1>1, <1>2, <1>3, <1>4, <1>5, <1>6 DEF Next

\* A walk that was started and has shown nothing yet stands at the oldest
\* element, unless the content has changed since.
WalkStart == peakStart /\ ~stale => peakAllNdx = readNdx

LEMMA WalkNext == WalkStart /\ [Next]_vars => WalkStart'
BY DEF WalkStart, Next, vars, dataVars, peakVars, Write, WriteLossy, Refuse,
       Store, Read, Peak, Clear, PeakAllStart, PeakAllNext

RingInv == TypeOK /\ FlagsMatchIndices /\ WalkStart

LEMMA RingInit == Init => RingInv
<1> SUFFICES ASSUME Init PROVE RingInv
  OBVIOUS
<1>1. TypeOK
  <2>1. Flags
    BY DEF Init, Flags
  <2>2. Indices
    BY DEF Init, Indices, Slots
  <2>3. ResultOK
    BY DEF Init, ResultOK, Result, Values
  <2>4. QED
    BY <2>1, <2>2, <2>3, TypeParts
<1>2. FlagsMatchIndices /\ WalkStart
  BY DEF Init, FlagsMatchIndices, WalkStart
<1>3. QED
  BY <1>1, <1>2 DEF RingInv

LEMMA RingNext == RingInv /\ [Next]_vars => RingInv'
BY TypeNext, FlagsNext, WalkNext DEF RingInv

\* The indices never leave the allocated memory.
THEOREM TypeCorrect == Spec => []TypeOK
<1>1. RingInv => TypeOK
  BY DEF RingInv
<1>2. QED
  BY <1>1, RingInit, RingNext, PTL DEF Spec

\* The two flags always resolve the ambiguity of equal indices.
THEOREM FlagsCorrect == Spec => []FlagsMatchIndices
<1>1. RingInv => FlagsMatchIndices
  BY DEF RingInv
<1>2. QED
  BY <1>1, RingInit, RingNext, PTL DEF Spec

-----------------------------------------------------------------------------
(* The refinement.  First how the slots are counted.                       *)

LEMMA SlotFacts ==
    ASSUME NEW ndx \in Slots
    PROVE  /\ Slot(ndx, 0) = ndx /\ Slot(ndx, N) = ndx
           /\ \A k \in 0 .. N : Slot(ndx, k) \in Slots
           /\ \A k \in 0 .. N - 1 :
                 /\ Slot(ndx, k + 1) = Advance(Slot(ndx, k))
                 /\ Slot(Advance(ndx), k) = Slot(ndx, k + 1)
           /\ \A j, k \in 0 .. N - 1 : Slot(ndx, j) = Slot(ndx, k) => j = k
BY DEF Slot, Slots, Advance

\* remaining_elm() is the distance from the read to the write index, the
\* whole way round if the buffer is full.
LEMMA CountFacts ==
    ASSUME Indices, Flags, FlagsMatchIndices
    PROVE  /\ RemainingElm \in 0 .. N
           /\ writeNdx = Slot(readNdx, RemainingElm)
           /\ RemainingElm = 0 <=> empty
           /\ RemainingElm = N <=> full
BY DEF Indices, Flags, FlagsMatchIndices, RemainingElm, Slot, Slots

LEMMA StoredSeq ==
    ASSUME Indices, NEW ndx \in Slots, NEW k \in 0 .. N
    PROVE  /\ Stored(ndx, k) \in Seq(Elements)
           /\ Len(Stored(ndx, k)) = k
           /\ \A i \in 1 .. k : Stored(ndx, k)[i] = rbData[Slot(ndx, i - 1)]
<1>1. \A i \in 1 .. k : Slot(ndx, i - 1) \in Slots
  BY SlotFacts
<1>2. \A i \in 1 .. k : rbData[Slot(ndx, i - 1)] \in Elements
  BY <1>1 DEF Indices
<1>3. QED
  BY <1>2 DEF Stored

\* Two sequences with the same elements are the same sequence.
LEMMA SeqEq ==
    ASSUME NEW S, NEW s \in Seq(S), NEW t \in Seq(S), Len(s) = Len(t),
           \A i \in 1 .. Len(s) : s[i] = t[i]
    PROVE  s = t
OBVIOUS

\* Leaving out the first slot is leaving out the oldest element.
LEMMA StoredTail ==
    ASSUME Indices, NEW ndx \in Slots, NEW k \in 1 .. N
    PROVE  /\ Stored(ndx, k) # << >>
           /\ Head(Stored(ndx, k)) = rbData[ndx]
           /\ Tail(Stored(ndx, k)) = Stored(Advance(ndx), k - 1)
<1>1. /\ Stored(ndx, k) \in Seq(Elements)
      /\ Len(Stored(ndx, k)) = k
      /\ \A i \in 1 .. k : Stored(ndx, k)[i] = rbData[Slot(ndx, i - 1)]
  BY StoredSeq
<1>2. /\ Stored(Advance(ndx), k - 1) \in Seq(Elements)
      /\ Len(Stored(Advance(ndx), k - 1)) = k - 1
      /\ \A i \in 1 .. k - 1 : Stored(Advance(ndx), k - 1)[i]
                                   = rbData[Slot(Advance(ndx), i - 1)]
  <2>1. Advance(ndx) \in Slots /\ k - 1 \in 0 .. N
    BY AdvanceType
  <2>2. QED
    BY <2>1, StoredSeq
<1>3. \A i \in 1 .. k - 1 : Slot(Advance(ndx), i - 1) = Slot(ndx, i)
  <2> TAKE i \in 1 .. k - 1
  <2>1. i - 1 \in 0 .. N - 1 /\ (i - 1) + 1 = i
    OBVIOUS
  <2>2. QED
    BY <2>1, SlotFacts
<1>4. /\ Tail(Stored(ndx, k)) \in Seq(Elements)
      /\ Len(Tail(Stored(ndx, k))) = k - 1
      /\ \A i \in 1 .. k - 1 : Tail(Stored(ndx, k))[i] = rbData[Slot(ndx, i)]
  BY <1>1
<1>5. Tail(Stored(ndx, k)) = Stored(Advance(ndx), k - 1)
  <2>1. \A i \in 1 .. k - 1 :
           Tail(Stored(ndx, k))[i] = Stored(Advance(ndx), k - 1)[i]
    BY <1>2, <1>3, <1>4
  <2> HIDE DEF Stored
  <2>2. QED
    BY <1>2, <1>4, <2>1, SeqEq
<1>6. QED
  BY <1>1, <1>5, SlotFacts

\* Writing the next free slot appends.
LEMMA StoredAppend ==
    ASSUME Indices, NEW ndx \in Slots, NEW k \in 0 .. N - 1,
           NEW e \in Elements, writeNdx = Slot(ndx, k),
           rbData' = [rbData EXCEPT ![writeNdx] = e]
    PROVE  [i \in 1 .. k + 1 |-> rbData'[Slot(ndx, i - 1)]]
               = Append(Stored(ndx, k), e)
<1> DEFINE new == [i \in 1 .. k + 1 |-> rbData'[Slot(ndx, i - 1)]]
<1>1. /\ Stored(ndx, k) \in Seq(Elements)
      /\ Len(Stored(ndx, k)) = k
      /\ \A i \in 1 .. k : Stored(ndx, k)[i] = rbData[Slot(ndx, i - 1)]
  BY StoredSeq
<1>2. \A i \in 1 .. k + 1 : Slot(ndx, i - 1) \in Slots
  BY SlotFacts
<1>3. rbData' \in [Slots -> Elements] /\ writeNdx \in Slots
  BY DEF Indices
<1>4. new \in Seq(Elements) /\ Len(new) = k + 1
  BY <1>2, <1>3
<1>5. \A i \in 1 .. k : rbData'[Slot(ndx, i - 1)] = rbData[Slot(ndx, i - 1)]
  BY <1>2, SlotFacts DEF Indices
<1>6. rbData'[Slot(ndx, k)] = e
  BY DEF Indices
<1>7. \A i \in 1 .. k + 1 : new[i] = Append(Stored(ndx, k), e)[i]
  BY <1>1, <1>5, <1>6
<1>8. Append(Stored(ndx, k), e) \in Seq(Elements)
      /\ Len(Append(Stored(ndx, k), e)) = k + 1
  BY <1>1
<1>9. QED
  BY <1>4, <1>7, <1>8, SeqEq

-----------------------------------------------------------------------------
(* Every operation of the buffer is the operation of the queue.            *)

LEMMA RingFacts ==
    ASSUME RingInv
    PROVE  /\ Indices /\ Flags /\ FlagsMatchIndices /\ WalkStart
           /\ RemainingElm \in 0 .. N
           /\ writeNdx = Slot(readNdx, RemainingElm)
           /\ RemainingElm = 0 <=> empty
           /\ RemainingElm = N <=> full
           /\ Len(Stored(readNdx, RemainingElm)) = RemainingElm
           /\ Stored(readNdx, RemainingElm) = << >> <=> empty
<1>1. Indices /\ Flags /\ FlagsMatchIndices /\ WalkStart
  BY TypeParts DEF RingInv
<1>2. /\ RemainingElm \in 0 .. N
      /\ writeNdx = Slot(readNdx, RemainingElm)
      /\ RemainingElm = 0 <=> empty
      /\ RemainingElm = N <=> full
  BY <1>1, CountFacts
<1>3. /\ Stored(readNdx, RemainingElm) \in Seq(Elements)
      /\ Len(Stored(readNdx, RemainingElm)) = RemainingElm
  BY <1>1, <1>2, StoredSeq DEF Indices
<1>4. QED
  BY <1>1, <1>2, <1>3

LEMMA RefuseRefines ==
    Refuse /\ UNCHANGED <<memOk, peakVars>> => Fifo!Refuse
BY DEF Refuse, dataVars, peakVars, Fifo!Refuse, Stored, RemainingElm,
       Unpeaked, PeakDone, Result, Fifo!Result

\* A stored element is appended to the unread ones, from rd on.
LEMMA StoreRefines ==
    ASSUME Indices, NEW rd \in Slots, NEW k \in 0 .. N - 1, NEW e \in Elements,
           Store(e, rd), full' = (Advance(writeNdx) = rd),
           writeNdx = Slot(rd, k)
    PROVE  Stored(readNdx, RemainingElm)' = Append(Stored(rd, k), e)
<1>1. RemainingElm' = k + 1
  <2>1. ~empty' /\ readNdx' = rd /\ writeNdx' = Advance(Slot(rd, k))
    BY DEF Store
  <2>2. full' <=> Advance(Slot(rd, k)) = rd
    OBVIOUS
  <2>3. CASE k + 1 = N
    <3>1. Advance(Slot(rd, k)) = rd
      BY <2>3 DEF Advance, Slot, Slots
    <3>2. QED
      BY <2>1, <2>2, <2>3, <3>1 DEF RemainingElm
  <2>4. CASE k + 1 < N
    <3>1. Advance(Slot(rd, k)) # rd
      BY <2>4 DEF Advance, Slot, Slots
    <3>2. RemainingElm' = IF Advance(Slot(rd, k)) >= rd
                          THEN Advance(Slot(rd, k)) - rd
                          ELSE N - rd + Advance(Slot(rd, k))
      BY <2>1, <2>2, <3>1 DEF RemainingElm
    <3>3. QED
      BY <2>4, <3>2 DEF Advance, Slot, Slots
  <2>5. QED
    BY <2>3, <2>4
<1>2. [i \in 1 .. k + 1 |-> rbData'[Slot(rd, i - 1)]]
          = Append(Stored(rd, k), e)
  BY StoredAppend DEF Store
<1>3. QED
  BY <1>1, <1>2 DEF Store, Stored

LEMMA WriteRefines ==
    ASSUME RingInv, NEW e \in Elements, Write(e) PROVE Fifo!Write(e)
<1>1. CASE full \/ ~memOk
  <2>1. ~(Len(Stored(readNdx, RemainingElm)) < IF memOk THEN N ELSE 0)
    BY <1>1, RingFacts
  <2>2. QED
    BY <1>1, <2>1, RefuseRefines DEF Write, Fifo!Write
<1>2. CASE ~(full \/ ~memOk)
  <2>1. Len(Stored(readNdx, RemainingElm)) < IF memOk THEN N ELSE 0
    BY <1>2, RingFacts
  <2>2. /\ RemainingElm \in 0 .. N - 1 /\ readNdx \in Slots
        /\ writeNdx = Slot(readNdx, RemainingElm) /\ Indices
    BY <1>2, RingFacts DEF Indices
  <2>3. Stored(readNdx, RemainingElm)'
            = Append(Stored(readNdx, RemainingElm), e)
    BY <1>2, <2>2, StoreRefines DEF Write
  <2>4. QED
    BY <1>2, <2>1, <2>3
    DEF Write, Store, Fifo!Write, Fifo!Changed, Result, Fifo!Result
<1>3. QED
  BY <1>1, <1>2

LEMMA WriteLossyRefines ==
    ASSUME RingInv, NEW e \in Elements, WriteLossy(e) PROVE Fifo!WriteLossy(e)
<1>1. CASE ~memOk
  BY <1>1, RefuseRefines DEF WriteLossy, Fifo!WriteLossy
<1>2. CASE memOk /\ ~full
  <2>1. Len(Stored(readNdx, RemainingElm)) < N
    BY <1>2, RingFacts
  <2>2. /\ RemainingElm \in 0 .. N - 1 /\ readNdx \in Slots
        /\ writeNdx = Slot(readNdx, RemainingElm) /\ Indices
    BY <1>2, RingFacts DEF Indices
  <2>3. Store(e, readNdx) /\ full' = (Advance(writeNdx) = readNdx)
    BY <1>2 DEF WriteLossy
  <2>4. Stored(readNdx, RemainingElm)'
            = Append(Stored(readNdx, RemainingElm), e)
    BY <2>2, <2>3, StoreRefines
  <2>5. QED
    BY <1>2, <2>1, <2>3, <2>4
    DEF WriteLossy, Store, Fifo!WriteLossy, Fifo!Changed, Result, Fifo!Result
<1>3. CASE memOk /\ full
  <2>1. /\ RemainingElm = N /\ writeNdx = readNdx
        /\ readNdx \in Slots /\ Indices /\ FlagsMatchIndices
        /\ Len(Stored(readNdx, RemainingElm)) = N
    BY <1>3, RingFacts DEF Indices, FlagsMatchIndices
  <2>2. Store(e, Advance(readNdx))
        /\ full' = (Advance(writeNdx) = Advance(readNdx))
    BY <1>3 DEF WriteLossy
  <2>3. Advance(readNdx) \in Slots
    BY <2>1, AdvanceType
  <2>4. writeNdx = Slot(Advance(readNdx), N - 1)
    BY <2>1 DEF Slot, Advance, Slots
  <2>5. Stored(readNdx, RemainingElm)'
            = Append(Stored(Advance(readNdx), N - 1), e)
    <3>1. N - 1 \in 0 .. N - 1
      OBVIOUS
    <3>2. QED
      BY <2>1, <2>2, <2>3, <2>4, <3>1, StoreRefines
  <2>6. Stored(Advance(readNdx), N - 1) = Tail(Stored(readNdx, RemainingElm))
    <3>1. N \in 1 .. N
      OBVIOUS
    <3>2. QED
      BY <2>1, <3>1, StoredTail
  <2>7. QED
    BY <1>3, <2>1, <2>2, <2>5, <2>6
    DEF WriteLossy, Store, Fifo!WriteLossy, Fifo!Changed, Result, Fifo!Result
<1>4. QED
  BY <1>1, <1>2, <1>3

LEMMA ReadRefines == ASSUME RingInv, Read PROVE Fifo!Read
<1>1. CASE empty \/ ~memOk
  <2>1. Stored(readNdx, RemainingElm) = << >>
    BY <1>1, RingFacts DEF FlagsMatchIndices
  <2>2. QED
    BY <1>1, <2>1, RefuseRefines DEF Read, Fifo!Read
<1>2. CASE ~(empty \/ ~memOk)
  <2>1. RemainingElm \in 1 .. N /\ readNdx \in Slots /\ Indices
    BY <1>2, RingFacts DEF Indices
  <2>2. /\ Stored(readNdx, RemainingElm) # << >>
        /\ Head(Stored(readNdx, RemainingElm)) = rbData[readNdx]
        /\ Tail(Stored(readNdx, RemainingElm))
               = Stored(Advance(readNdx), RemainingElm - 1)
    BY <2>1, StoredTail
  <2>3. RemainingElm' = RemainingElm - 1
    BY <1>2, <2>1, RingFacts
    DEF Read, RemainingElm, Advance, Slots, Indices, Flags, FlagsMatchIndices
  <2>4. Stored(readNdx, RemainingElm)'
            = Stored(Advance(readNdx), RemainingElm - 1)
    BY <1>2, <2>3 DEF Read, Stored
  <2>5. QED
    BY <1>2, <2>2, <2>4
    DEF Read, Fifo!Read, Fifo!Changed, Result, Fifo!Result
<1>3. QED
  BY <1>1, <1>2

\* Nothing the queue is made of has changed.
LEMMA SameContent ==
    UNCHANGED <<dataVars, memOk>>
        => UNCHANGED <<Stored(readNdx, RemainingElm), IF memOk THEN N ELSE 0>>
BY DEF dataVars, Stored, RemainingElm

LEMMA SameWalk ==
    UNCHANGED <<dataVars, memOk, peakVars, stale>>
        => UNCHANGED (IF stale THEN << >> ELSE Stored(peakAllNdx, Unpeaked))
BY DEF dataVars, peakVars, Stored, Unpeaked, PeakDone, RemainingElm

LEMMA PeakRefines == ASSUME RingInv, Peak PROVE Fifo!Peak
<1>1. empty \/ ~memOk <=> Stored(readNdx, RemainingElm) = << >>
  BY RingFacts DEF FlagsMatchIndices
<1>2. ~empty => Head(Stored(readNdx, RemainingElm)) = rbData[readNdx]
  <2> SUFFICES ASSUME ~empty
               PROVE  Head(Stored(readNdx, RemainingElm)) = rbData[readNdx]
    OBVIOUS
  <2>1. RemainingElm \in 1 .. N /\ readNdx \in Slots /\ Indices
    BY RingFacts DEF Indices
  <2>2. QED
    BY <2>1, StoredTail
<1>3. UNCHANGED <<Stored(readNdx, RemainingElm), IF memOk THEN N ELSE 0,
                  IF stale THEN << >> ELSE Stored(peakAllNdx, Unpeaked), stale>>
  BY SameContent, SameWalk DEF Peak
<1>4. QED
  BY <1>1, <1>2, <1>3
  DEF Peak, Fifo!Peak, Fifo!Refuse, Result, Fifo!Result

LEMMA ClearRefines == ASSUME RingInv, Clear PROVE Fifo!Clear
<1>1. Stored(readNdx, RemainingElm)' = << >>
  BY DEF Clear, Stored, RemainingElm
<1>2. QED
  BY <1>1 DEF Clear, Fifo!Clear, Fifo!Changed, Result, Fifo!Result

LEMMA PeakAllStartRefines ==
    ASSUME RingInv, PeakAllStart PROVE Fifo!PeakAllStart
<1>1. UNCHANGED <<Stored(readNdx, RemainingElm), IF memOk THEN N ELSE 0>>
  BY SameContent DEF PeakAllStart
<1>2. Unpeaked' = RemainingElm
  <2>1. RemainingElm' = RemainingElm
    BY DEF PeakAllStart, dataVars, RemainingElm
  <2>2. CASE ~memOk \/ empty
    BY <2>2, RingFacts
    DEF PeakAllStart, dataVars, Unpeaked, PeakDone, FlagsMatchIndices
  <2>3. CASE memOk /\ ~empty
    BY <2>1, <2>3 DEF PeakAllStart, dataVars, Unpeaked, PeakDone
  <2>4. QED
    BY <2>2, <2>3 DEF RingInv, TypeOK
<1>3. Stored(peakAllNdx, Unpeaked)' = Stored(readNdx, RemainingElm)
  BY <1>2 DEF PeakAllStart, dataVars, Stored
<1>4. QED
  BY <1>1, <1>3, RingFacts
  DEF PeakAllStart, Fifo!PeakAllStart, Result, Fifo!Result

\* What the walk still has to show.
LEMMA UnpeakedFacts ==
    ASSUME RingInv
    PROVE  /\ Unpeaked \in 0 .. N
           /\ Unpeaked = 0 <=> PeakDone
           /\ ~stale /\ ~PeakDone /\ Unpeaked = 1
                 => Advance(peakAllNdx) = writeNdx
           /\ ~stale /\ ~PeakDone /\ Unpeaked # 1
                 => /\ Advance(peakAllNdx) # writeNdx
                    /\ Unpeaked - 1 = IF writeNdx >= Advance(peakAllNdx)
                                      THEN writeNdx - Advance(peakAllNdx)
                                      ELSE N - Advance(peakAllNdx) + writeNdx
<1>1. /\ readNdx \in Slots /\ writeNdx \in Slots /\ peakAllNdx \in Slots
      /\ RemainingElm \in 0 .. N /\ (RemainingElm = 0 <=> empty)
      /\ writeNdx = Slot(readNdx, RemainingElm)
      /\ peakStart /\ ~stale => peakAllNdx = readNdx
  BY RingFacts DEF Indices, WalkStart
<1>2. CASE PeakDone
  BY <1>2 DEF Unpeaked
<1>3. CASE ~PeakDone /\ peakStart
  <2>1. Unpeaked = RemainingElm /\ RemainingElm # 0
    BY <1>1, <1>3 DEF Unpeaked, PeakDone
  <2>2. QED
    BY <1>1, <1>3, <2>1 DEF Advance, Slot, Slots
<1>4. CASE ~PeakDone /\ ~peakStart
  <2>1. peakAllNdx # writeNdx
    BY <1>4 DEF PeakDone
  <2>2. Unpeaked = IF writeNdx >= peakAllNdx THEN writeNdx - peakAllNdx
                   ELSE N - peakAllNdx + writeNdx
    BY <1>4 DEF Unpeaked
  <2>3. QED
    BY <1>1, <1>4, <2>1, <2>2 DEF Advance, Slots
<1>5. QED
  BY <1>2, <1>3, <1>4

LEMMA PeakAllNextRefines ==
    ASSUME RingInv, PeakAllNext PROVE Fifo!PeakAllNext
<1>1. UNCHANGED <<Stored(readNdx, RemainingElm), IF memOk THEN N ELSE 0, stale>>
  BY SameContent DEF PeakAllNext
<1>2. peakAllNdx \in Slots /\ rbData[peakAllNdx] \in Elements /\ Indices
  BY RingFacts DEF Indices
<1>3. CASE stale
  <2>1. \E ok \in BOOLEAN, e \in Elements \cup {Nothing} :
           result' = Fifo!Result(ok, e)
    BY <1>2 DEF PeakAllNext, Result, Fifo!Result
  <2>2. QED
    BY <1>1, <1>3, <2>1 DEF PeakAllNext, Fifo!PeakAllNext
<1>4. CASE ~stale /\ PeakDone
  <2>1. Stored(peakAllNdx, Unpeaked) = << >>
    BY <1>4 DEF Stored, Unpeaked
  <2>2. UNCHANGED <<dataVars, memOk, peakVars, stale>>
    BY <1>4 DEF PeakAllNext
  <2>3. QED
    BY <1>1, <1>4, <2>1, <2>2, SameWalk
    DEF PeakAllNext, Fifo!PeakAllNext, Result, Fifo!Result
<1>5. CASE ~stale /\ ~PeakDone
  <2>1. Unpeaked \in 1 .. N
    BY <1>5, UnpeakedFacts
  <2>2. /\ Stored(peakAllNdx, Unpeaked) # << >>
        /\ Head(Stored(peakAllNdx, Unpeaked)) = rbData[peakAllNdx]
        /\ Tail(Stored(peakAllNdx, Unpeaked))
               = Stored(Advance(peakAllNdx), Unpeaked - 1)
    BY <1>2, <2>1, StoredTail
  <2>3. /\ ~peakStart' /\ peakAllNdx' = Advance(peakAllNdx)
        /\ UNCHANGED <<dataVars, memOk, stale>>
        /\ result' = Result(TRUE, rbData[peakAllNdx])
    BY <1>5 DEF PeakAllNext
  <2>4. Unpeaked' = Unpeaked - 1
    <3>1. ~(~memOk \/ empty)
      BY <1>5 DEF PeakDone
    <3>2. PeakDone' <=> Advance(peakAllNdx) = writeNdx
      BY <2>3, <3>1 DEF PeakDone, dataVars
    <3>3. CASE Unpeaked = 1
      BY <1>5, <2>3, <3>2, <3>3, UnpeakedFacts DEF Unpeaked
    <3>4. CASE Unpeaked # 1
      <4>1. /\ ~PeakDone'
            /\ Unpeaked - 1 = IF writeNdx >= Advance(peakAllNdx)
                              THEN writeNdx - Advance(peakAllNdx)
                              ELSE N - Advance(peakAllNdx) + writeNdx
        BY <1>5, <3>2, <3>4, UnpeakedFacts
      <4>2. Unpeaked' = IF writeNdx >= Advance(peakAllNdx)
                        THEN writeNdx - Advance(peakAllNdx)
                        ELSE N - Advance(peakAllNdx) + writeNdx
        BY <2>3, <4>1 DEF Unpeaked, dataVars
      <4>3. QED
        BY <4>1, <4>2
    <3>5. QED
      BY <3>3, <3>4
  <2>5. Stored(peakAllNdx, Unpeaked)'
            = Stored(Advance(peakAllNdx), Unpeaked - 1)
    BY <2>3, <2>4 DEF Stored, dataVars
  <2>6. /\ (IF stale THEN << >> ELSE Stored(peakAllNdx, Unpeaked))
               = Stored(peakAllNdx, Unpeaked)
        /\ (IF stale THEN << >> ELSE Stored(peakAllNdx, Unpeaked))'
               = Stored(peakAllNdx, Unpeaked)'
    BY <1>5, <2>3
  <2>7. result' = Fifo!Result(TRUE, Head(IF stale THEN << >>
                                 ELSE Stored(peakAllNdx, Unpeaked)))
    BY <2>2, <2>3, <2>6 DEF Result, Fifo!Result
  <2>8. (IF stale THEN << >> ELSE Stored(peakAllNdx, Unpeaked))'
            = Tail(IF stale THEN << >> ELSE Stored(peakAllNdx, Unpeaked))
    BY <2>2, <2>5, <2>6
  <2>9. (IF stale THEN << >> ELSE Stored(peakAllNdx, Unpeaked)) # << >>
    BY <2>2, <2>6
  <2>10. QED
    BY <1>1, <1>5, <2>7, <2>8, <2>9 DEF Fifo!PeakAllNext
<1>6. QED
  BY <1>3, <1>4, <1>5

\* The ring buffer is a first-in first-out queue of N elements, of none if
\* its memory could not be allocated, for every N and every set of elements:
\* no call loses, duplicates or reorders an element, but for the oldest one
\* that a lossy write into a full buffer drops.
THEOREM RingIsFifo == Spec => ImplementsFifo
<1>1. Init => Fifo!Init
  <2> SUFFICES ASSUME Init PROVE Fifo!Init
    OBVIOUS
  <2>1. Stored(readNdx, RemainingElm) = << >>
    BY DEF Init, Stored, RemainingElm
  <2>2. Stored(peakAllNdx, Unpeaked) = << >>
    BY DEF Init, Stored, Unpeaked, PeakDone
  <2>3. QED
    BY <2>1, <2>2 DEF Init, Fifo!Init, Result, Fifo!Result
<1>2. RingInv /\ [Next]_vars
        => [Fifo!Next]_<<Stored(readNdx, RemainingElm),
                         IF memOk THEN N ELSE 0,
                         IF stale THEN << >> ELSE Stored(peakAllNdx, Unpeaked),
                         stale, result>>
  <2>1. RingInv /\ Next => Fifo!Next
    BY WriteRefines, WriteLossyRefines, ReadRefines, PeakRefines,
       ClearRefines, PeakAllStartRefines, PeakAllNextRefines
    DEF Next, Fifo!Next
  <2>2. UNCHANGED vars
          => UNCHANGED <<Stored(readNdx, RemainingElm),
                         IF memOk THEN N ELSE 0,
                         IF stale THEN << >> ELSE Stored(peakAllNdx, Unpeaked),
                         stale, result>>
    BY SameContent, SameWalk DEF vars
  <2>3. QED
    BY <2>1, <2>2
<1>3. QED
  BY <1>1, <1>2, RingInit, RingNext, PTL DEF Spec, ImplementsFifo, Fifo!Spec
=============================================================================
