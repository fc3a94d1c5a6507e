---------------------------- MODULE MillisProofs ----------------------------
(* Facts about the wrapping clock that every proof about a timeout uses.   *)
EXTENDS Millis, TLAPS

\* A millis() value stays within its width.
LEMMA NextMsType == \A t \in Time : NextMs(t) \in Time
BY TimeModAssumption DEF Time, NextMs

\* The difference of two millis() values is a millis() value.
LEMMA ElapsedType == \A t, since \in Time : Elapsed(t, since) \in Time
BY TimeModAssumption DEF Time, Elapsed

\* A timeout that has just been started measures nothing.
LEMMA ElapsedSelf == \A t \in Time : Elapsed(t, t) = 0
BY DEF Time, Elapsed

\* One tick later a timeout measures one tick more, unless it wraps to zero.
LEMMA ElapsedTick ==
    \A t, since \in Time :
        Elapsed(NextMs(t), since) =
            IF Elapsed(t, since) = TimeMod - 1 THEN 0
                                               ELSE Elapsed(t, since) + 1
BY TimeModAssumption DEF Time, Elapsed, NextMs

\* Going back over an intermediate time never shortens the difference.
LEMMA ElapsedTriangle ==
    \A t, s, since \in Time :
        Elapsed(t, since) <= Elapsed(s, since) + Elapsed(t, s)
BY TimeModAssumption DEF Time, Elapsed

(***************************************************************************)
(* since is the time of an event that is age ticks old: the difference     *)
(* never exceeds the age, and is the age as long as the clock has not been *)
(* around once.                                                            *)
(***************************************************************************)
Dates(t, since, age) ==
    /\ Elapsed(t, since) <= age
    /\ age < TimeMod => Elapsed(t, since) = age

\* An event dates itself.
LEMMA DatesNow == \A t \in Time : Dates(t, t, 0)
BY ElapsedSelf, TimeModAssumption DEF Dates

\* A dated event stays dated while time passes.
LEMMA DatesTick ==
    \A t, since \in Time, age \in Age :
        Dates(t, since, age) => Dates(NextMs(t), since, Older(age))
<1> SUFFICES ASSUME NEW t \in Time, NEW since \in Time, NEW age \in Age,
                    Dates(t, since, age)
             PROVE  Dates(NextMs(t), since, Older(age))
  OBVIOUS
<1>1. Elapsed(t, since) \in 0 .. TimeMod - 1
  BY ElapsedType DEF Time
<1>2. Elapsed(NextMs(t), since) =
        IF Elapsed(t, since) = TimeMod - 1 THEN 0
                                           ELSE Elapsed(t, since) + 1
  BY ElapsedTick
<1>3. QED
  BY <1>1, <1>2, TimeModAssumption DEF Dates, Age, Older

\* An age stays an age.
LEMMA OlderType == \A age \in Age : Older(age) \in Age
BY TimeModAssumption DEF Age, Older
=============================================================================
