-------------------------- MODULE MCTimerManager --------------------------
(***************************************************************************)
(* TimerManager on small wheels: the code's five wheels of 2^8 and 2^6     *)
(* slots become a few of 2 to 4 slots, so that a handful of ticks turns    *)
(* every wheel, cascades through all of them and reaches past the span of  *)
(* the coarsest one.                                                       *)
(***************************************************************************)
EXTENDS TimerManager

TwoWheels == <<4, 2>>
TwoSpans == <<1, 4>>
ThreeWheels == <<4, 2, 2>>
ThreeSpans == <<1, 4, 8>>
=============================================================================
