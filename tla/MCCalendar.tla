----------------------------- MODULE MCCalendar -----------------------------
(***************************************************************************)
(* Calendar for TLC: a 4-bit unsigned year, so that going back from year  *)
(* 0 wraps to the largest year, and a clock that reads January of year 1 *)
(* or December of the largest year, or either side of the new year      *)
(* between years 1 and 2.                                                 *)
(***************************************************************************)
EXTENDS Calendar

MCNows == {<<1, 1>>, <<1, 12>>, <<2, 1>>, <<2^YearBits - 1, 12>>}
====
