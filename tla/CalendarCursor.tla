--------------------------- MODULE CalendarCursor ---------------------------
(***************************************************************************)
(* What the Calendar's navigation promises: the view is a cursor on a     *)
(* cycle of Positions months (the years an unsigned int counts, twelve    *)
(* months each).  In month view back and forward move it one month, in    *)
(* year view twelve; "today" moves it to one of Todays; picking a month  *)
(* of the viewed year in year view moves to it in month view.  Nows are   *)
(* the months the clock can read.  Todays are the months "today" can     *)
(* show: a clock month, or, when it reads the clock twice across a year  *)
(* boundary, the year of one read with the month of the other.           *)
(***************************************************************************)
EXTENDS Naturals

CONSTANTS Positions, Nows, Todays

VARIABLES pos, mode

Stride == IF mode = "Month" THEN 1 ELSE 12

Init == pos \in Nows /\ mode = "Month"

Back == pos' = (pos + Positions - Stride) % Positions /\ UNCHANGED mode

Forward == pos' = (pos + Stride) % Positions /\ UNCHANGED mode

Today == pos' \in Todays /\ UNCHANGED mode

SetMode(m) == mode' = m /\ UNCHANGED pos

PickMonth ==
    /\ mode = "Year" /\ mode' = "Month"
    /\ pos' \in {pos - (pos % 12) + k : k \in 0..11}

Next == Back \/ Forward \/ Today \/ PickMonth \/ \E m \in {"Month", "Year"} : SetMode(m)

Spec == Init /\ [][Next]_<<pos, mode>>
=============================================================================
