----------------------------- MODULE BoundedFifo ----------------------------
(***************************************************************************)
(* What the ring buffer of src/lib/ringbuffer promises, as rb.h words it:  *)
(* a first-in first-out queue of bounded length.  It says nothing of       *)
(* indices or of memory, except that a buffer without memory has no room.  *)
(***************************************************************************)
EXTENDS Sequences, Naturals

CONSTANTS Elements,   \* what is stored
          Nothing     \* an output argument that was not written

VARIABLES queue,      \* the unread elements, oldest first
          room,       \* how many fit
          unpeaked,   \* what the walk with peak_all_next has not shown yet
          stale,      \* the content changed since the walk was started
          result       \* what the last call returned, and wrote

Result(ok, value) == [ok |-> ok, value |-> value]

Init ==
    /\ queue = << >> /\ room \in Nat
    /\ unpeaked = << >> /\ stale = FALSE
    /\ result = Result(FALSE, Nothing)

Changed == stale' = TRUE /\ unpeaked' = << >> /\ UNCHANGED room

Refuse == /\ result' = Result(FALSE, Nothing)
          /\ UNCHANGED <<queue, room, unpeaked, stale>>

Write(e) ==
    IF Len(queue) < room
    THEN queue' = Append(queue, e) /\ result' = Result(TRUE, Nothing) /\ Changed
    ELSE Refuse

\* the oldest element makes room
WriteLossy(e) ==
    IF room = 0 THEN Refuse
    ELSE /\ queue' = Append(IF Len(queue) < room THEN queue ELSE Tail(queue), e)
         /\ result' = Result(TRUE, Nothing) /\ Changed

Read ==
    IF queue = << >> THEN Refuse
    ELSE queue' = Tail(queue) /\ result' = Result(TRUE, Head(queue)) /\ Changed

Peak ==
    IF queue = << >> THEN Refuse
    ELSE /\ result' = Result(TRUE, Head(queue))
         /\ UNCHANGED <<queue, room, unpeaked, stale>>

Clear == queue' = << >> /\ result' = Result(TRUE, Nothing) /\ Changed

PeakAllStart ==
    /\ unpeaked' = queue /\ stale' = FALSE
    /\ result' = Result(TRUE, Len(queue))
    /\ UNCHANGED <<queue, room>>

\* "Only works if the content of the ring buffer is not changed during
\* peaking" (rb.h line 65): a stale walk may return anything
PeakAllNext ==
    /\ \/ /\ ~stale /\ unpeaked # << >>
          /\ result' = Result(TRUE, Head(unpeaked))
          /\ unpeaked' = Tail(unpeaked)
       \/ /\ ~stale /\ unpeaked = << >>
          /\ result' = Result(FALSE, Nothing)
          /\ UNCHANGED unpeaked
       \/ /\ stale
          /\ \E ok \in BOOLEAN, e \in Elements \cup {Nothing} :
                result' = Result(ok, e)
          /\ UNCHANGED unpeaked
    /\ UNCHANGED <<queue, room, stale>>

Next ==
    \/ \E e \in Elements : Write(e) \/ WriteLossy(e)
    \/ Read \/ Peak \/ Clear \/ PeakAllStart \/ PeakAllNext

Spec == Init /\ [][Next]_<<queue, room, unpeaked, stale, result>>
=============================================================================
