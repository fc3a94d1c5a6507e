------------------------------- MODULE Millis -------------------------------
(***************************************************************************)
(* The millisecond clock of the firmware.  millis() is an uint32_t that    *)
(* wraps, and every timeout of the program is a subtraction of two such    *)
(* values, so "elapsed" is a difference modulo TimeMod (2^32 on the        *)
(* device, a small number in the model-checked instances).                 *)
(***************************************************************************)
EXTENDS Integers

CONSTANT TimeMod          \* number of distinct values of millis(): 2^32

ASSUME TimeModAssumption == TimeMod \in Nat /\ TimeMod > 1

Time == 0 .. TimeMod - 1

\* millis() - since, in uint32_t arithmetic
Elapsed(t, since) == IF t >= since THEN t - since ELSE t - since + TimeMod

\* millis() one tick later
NextMs(t) == IF t = TimeMod - 1 THEN 0 ELSE t + 1

(***************************************************************************)
(* History only, no code: the true number of ticks since an event, which   *)
(* no wrap shortens.  It saturates at TimeMod, one more than any value     *)
(* Elapsed can take.                                                       *)
(***************************************************************************)
Age == 0 .. TimeMod
Older(age) == IF age = TimeMod THEN TimeMod ELSE age + 1
=============================================================================
