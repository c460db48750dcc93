------------------------------ MODULE Calendar ------------------------------
(***************************************************************************)
(* The Calendar application's navigation (src/UserLand/Applications/      *)
(* Calendar/main.cpp): the toolbar actions back, forward, "Jump to Today", *)
(* "Month View" and "Year View", and the widget's on_month_click callback. *)
(* view_year and view_month are the GUI::Calendar's view, mode its mode,  *)
(* checked the action of the exclusive view group that is checked.        *)
(*                                                                         *)
(* GUI::Calendar and GUI::Action are LibGUI classes, not in this          *)
(* repository: update_tiles(year, month) makes (year, month) the view,    *)
(* toggle_mode switches between month and year view, clicking a month    *)
(* tile in year view shows that month in month view and then calls       *)
(* on_month_click, and activating a checkable action of an exclusive      *)
(* group checks it and unchecks the others before its callback runs.      *)
(*                                                                         *)
(* unsigned is YearBits wide: the year arithmetic wraps modulo            *)
(* 2^YearBits.  Nows is the set of dates Core::DateTime::now() can give.  *)
(*                                                                         *)
(* Before the event loop, main narrows the process's sandbox: pledge,     *)
(* GUI::Application::construct, a narrower pledge, unveil of /res and the *)
(* unveil lock, then the window and its actions, whose icons are read     *)
(* from /res.  The kernel's pledge and unveil are not in this repository: *)
(* pledge(p) fails when p adds a promise the process does not hold, a     *)
(* call outside the held promises kills the process, unveil fails once   *)
(* locked or when the path does not exist, and a read of a path that is  *)
(* not unveiled fails.  AddEventDialog is modal: while it is open the     *)
(* main window takes no input.                                            *)
(***************************************************************************)
EXTENDS Naturals, Sequences

CONSTANTS YearBits, Nows

VARIABLES view_year, view_month, mode, checked,
          phase,      \* "start", "running", "exited" (returned) or "killed"
          promises,   \* the promises the process holds
          unveiled,   \* the <<path, permissions>> unveiled
          locked,     \* unveil(nullptr, nullptr) has been called
          icons,      \* the toolbar icons were read from /res
          dialog      \* the modal AddEventDialog is open

sandbox == <<phase, promises, unveiled, locked, icons, dialog>>
vars == <<view_year, view_month, mode, checked, phase, promises, unveiled, locked, icons, dialog>>

(* A process that has not pledged holds every promise. *)
AllPromises == {"stdio", "recvfd", "sendfd", "rpath", "wpath", "cpath", "fattr",
                "accept", "unix", "proc", "exec"}

Years == 0..(2^YearBits - 1)
Months == 1..12

(* The year as if unsigned did not wrap. *)
ToU32Unwrapped(v) == v

(* Unsigned arithmetic on the year. *)
ToU32(v) == v % 2^YearBits

(* GUI::Calendar::update_tiles(year, month). *)
update_tiles(y, m) == view_year' = y /\ view_month' = m

(* GUI::Calendar::toggle_mode. *)
toggle_mode == mode' = IF mode = "Month" THEN "Year" ELSE "Month"

(***************************************************************************)
(* main up to app->exec() (18-51 and the set-up of 52-146), as the        *)
(* sequence of its calls that meet the sandbox.  Each step maps the       *)
(* process record p to the next one; a failed pledge or unveil prints and *)
(* returns 1.                                                              *)
(***************************************************************************)
Step(p, s) ==
    IF p.outcome # "running" THEN p
    ELSE CASE s[1] = "pledge" ->
                IF s[2] \subseteq p.promises THEN [p EXCEPT !.promises = s[2]]
                ELSE [p EXCEPT !.outcome = "exited"]
           [] s[1] = "construct" ->
                IF "unix" \in p.promises THEN p ELSE [p EXCEPT !.outcome = "killed"]
           [] s[1] = "unveil" ->
                IF p.locked \/ ~p.res THEN [p EXCEPT !.outcome = "exited"]
                ELSE [p EXCEPT !.unveiled = @ \cup {s[2]}]
           [] s[1] = "unveil_lock" -> [p EXCEPT !.locked = TRUE]
           [] s[1] = "load_icons" ->
                IF "rpath" \notin p.promises THEN [p EXCEPT !.outcome = "killed"]
                ELSE [p EXCEPT !.icons = <<"/res", "r">> \in p.unveiled]

RECURSIVE RunSteps(_, _)
RunSteps(p, ss) == IF ss = <<>> THEN p ELSE RunSteps(Step(p, Head(ss)), Tail(ss))

FirstPledge  == {"stdio", "recvfd", "sendfd", "rpath", "accept", "unix", "cpath", "fattr"}
SecondPledge == {"stdio", "recvfd", "sendfd", "rpath", "accept"}

(* The same calls with the second pledge before the Application. *)
MainStepsNarrowFirst ==
    << <<"pledge", FirstPledge>>, <<"pledge", SecondPledge>>, <<"construct">>,
       <<"unveil", <<"/res", "r">> >>, <<"unveil_lock">>, <<"load_icons">> >>

MainSteps ==
    << <<"pledge", FirstPledge>>, <<"construct">>, <<"pledge", SecondPledge>>,
       <<"unveil", <<"/res", "r">> >>, <<"unveil_lock">>, <<"load_icons">> >>

(* main's prologue; res is whether /res exists. *)
Startup ==
    /\ phase = "start"
    /\ \E res \in BOOLEAN :
          LET p == RunSteps([outcome |-> "running", promises |-> AllPromises,
                             unveiled |-> {}, locked |-> FALSE, icons |-> FALSE,
                             res |-> res], MainSteps)
          IN  /\ phase' = p.outcome /\ promises' = p.promises
              /\ unveiled' = p.unveiled /\ locked' = p.locked /\ icons' = p.icons
    /\ UNCHANGED <<view_year, view_month, mode, checked, dialog>>

(* The widget starts on today's month in month view; "Month View" is      *)
(* checked (line 95).                                                      *)
Init ==
    /\ \E d \in Nows : view_year = d[1] /\ view_month = d[2]
    /\ mode = "Month" /\ checked = "month"
    /\ phase = "start" /\ promises = AllPromises /\ unveiled = {}
    /\ locked = FALSE /\ icons = FALSE /\ dialog = FALSE

(***************************************************************************)
(* prev_date_action (52-65): the locals are decremented, and the month    *)
(* wraps to December of the year before when the widget's month is 1.    *)
(***************************************************************************)
PrevView ==
    IF mode = "Month"
    THEN IF view_month = 1 THEN update_tiles(ToU32(view_year - 1), 12)
         ELSE update_tiles(view_year, view_month - 1)
    ELSE update_tiles(ToU32(view_year - 1), view_month)

PrevDate == PrevView /\ UNCHANGED <<mode, checked>>

(* next_date_action (67-80). *)
NextViewSameYear ==
    IF mode = "Month"
    THEN IF view_month = 12 THEN update_tiles(view_year, 1)
         ELSE update_tiles(view_year, view_month + 1)
    ELSE update_tiles(ToU32(view_year + 1), view_month)

NextView ==
    IF mode = "Month"
    THEN IF view_month = 12 THEN update_tiles(ToU32(view_year + 1), 1)
         ELSE update_tiles(view_year, view_month + 1)
    ELSE update_tiles(ToU32(view_year + 1), view_month)

NextDate == NextView /\ UNCHANGED <<mode, checked>>

(* The date a month after d, as Core::DateTime counts. *)
NextMonth(d) == IF d[2] = 12 THEN <<d[1] + 1, 1>> ELSE <<d[1], d[2] + 1>>

(* Two reads of Core::DateTime::now() made moments apart: the same date, *)
(* or dates on either side of one month boundary.                        *)
ClockReads ==
    {r \in Nows \X Nows : r[1] = r[2] \/ NextMonth(r[1]) = r[2] \/ NextMonth(r[2]) = r[1]}

(* jump_to_action (86-89): update_tiles(now().year(), now().month()) reads *)
(* the clock once for each argument, in an order C++ leaves unspecified:  *)
(* the year comes from one read r[1] and the month from the other r[2].   *)
JumpToday ==
    /\ \E r \in ClockReads : update_tiles(r[1][1], r[2][2])
    /\ UNCHANGED <<mode, checked>>

(* view_month_action (91-94), checked by its group before the callback. *)
ViewMonth ==
    /\ checked' = "month"
    /\ IF mode = "Year" THEN toggle_mode ELSE UNCHANGED mode
    /\ UNCHANGED <<view_year, view_month>>

(* view_year_action (97-100). *)
ViewYear ==
    /\ checked' = "year"
    /\ IF mode = "Month" THEN toggle_mode ELSE UNCHANGED mode
    /\ UNCHANGED <<view_year, view_month>>

(* on_month_click (120-122). *)
OnMonthClickUnset == UNCHANGED checked

OnMonthClick == checked' = "month"

(* A click on month tile m in year view: the widget shows m in month     *)
(* view, then calls on_month_click.                                       *)
MonthClick(m) ==
    /\ mode = "Year"
    /\ update_tiles(view_year, m) /\ toggle_mode
    /\ OnMonthClick

(* add_event_action (82-84), the File menu's Add Event (126-130) and     *)
(* on_tile_doubleclick (116-118): AddEventDialog::show runs the modal    *)
(* dialog, which the user closes.                                         *)
AddEvent == dialog' = TRUE /\ UNCHANGED <<view_year, view_month, mode, checked>>

CloseDialog ==
    /\ phase = "running" /\ dialog /\ dialog' = FALSE
    /\ UNCHANGED <<view_year, view_month, mode, checked, phase, promises, unveiled, locked, icons>>

(* The quit action (134-136): the event loop ends and main returns. *)
Quit == phase' = "exited" /\ UNCHANGED <<view_year, view_month, mode, checked>>

(* The event loop delivers input to the main window only while it runs   *)
(* and no modal dialog is open.                                           *)
MainWindowInput ==
    /\ phase = "running" /\ ~dialog
    /\ \/ /\ UNCHANGED sandbox
          /\ \/ PrevDate \/ NextDate \/ JumpToday \/ ViewMonth \/ ViewYear
             \/ \E m \in Months : MonthClick(m)
       \/ AddEvent /\ UNCHANGED <<phase, promises, unveiled, locked, icons>>
       \/ Quit /\ UNCHANGED <<promises, unveiled, locked, icons, dialog>>

Next == Startup \/ MainWindowInput \/ CloseDialog

Spec == Init /\ [][Next]_vars

(***************************************************************************)
(* Properties.                                                            *)
(***************************************************************************)
TypeOK ==
    /\ view_year \in Years /\ view_month \in Months
    /\ mode \in {"Month", "Year"} /\ checked \in {"month", "year"}
    /\ phase \in {"start", "running", "exited", "killed"}
    /\ promises \subseteq AllPromises /\ unveiled \subseteq {<<"/res", "r">>}
    /\ {locked, icons, dialog} \subseteq BOOLEAN

(* main never makes a call its pledge forbids, so the kernel never kills *)
(* it; and while the event loop runs the process holds only the second  *)
(* pledge's promises, sees only /res, read-only, with unveil locked, and *)
(* the toolbar has its icons.  Breaking it takes a reordering of the     *)
(* prologue's pledge, construct and unveil calls.                        *)
Sandboxed ==
    /\ phase # "killed"
    /\ phase = "running" =>
          /\ promises = SecondPledge /\ locked /\ icons
          /\ unveiled = {<<"/res", "r">>}

(* The checked view action always names the mode the calendar is in,    *)
(* whichever of the toolbar, the View menu, the shortcuts or a click on  *)
(* a month tile changed it last.                                          *)
ActionMatchesMode == (checked = "month") <=> (mode = "Month")

Cursor == INSTANCE CalendarCursor
    WITH Positions <- 12 * 2^YearBits,
         Nows <- {12 * d[1] + d[2] - 1 : d \in Nows},
         Todays <- {12 * r[1][1] + r[2][2] - 1 : r \in ClockReads},
         pos <- 12 * view_year + view_month - 1

(* Back and forward move the view exactly one month (month view) or one  *)
(* year (year view), across December/January and across the wrap of the *)
(* unsigned year, and no sequence of actions skips or repeats a month.   *)
ImplementsCalendarCursor == Cursor!Spec
=============================================================================
