----------------------------- MODULE CashShifts -----------------------------
(***************************************************************************)
(* The shifts of the cash desks (app/services/cash_service.py, and the     *)
(* till of app/web/trade.py).  The till opens and closes shifts without a  *)
(* lock: a request reads what is open, and writes later.  A shift has the  *)
(* money of its desk from the day it was opened to the day it was closed.  *)
(***************************************************************************)
EXTENDS Books

CONSTANTS
  Kassy,      \* cash desks
  Requests,
  MaxShifts, MaxDay   \* bounds of the model

ASSUME ShiftsAssumption ==
  /\ MaxShifts \in Nat /\ MaxDay \in Nat
  /\ NoOne \notin Kassy \cup Requests \cup Nat

VARIABLES
  shifts,     \* cash_shifts, in the order of their id
  req,        \* what requests are doing, and what they remember
  today,
  overlapped, \* history: two openings at a time
  reclosed    \* history: shifts closed after they had been closed

till == <<shifts, req, today, overlapped, reclosed>>

Idle == [pc |-> "idle"]
Shift == [kassa : Kassy \cup {NoOne}, status : {"open", "closed"}, opened : Nat, closed : Nat \cup {NoOne}]
RequestState ==
  {Idle} \cup [pc : {"check", "insert"}, kassa : Kassy \cup {NoOne}] \cup [pc : {"close"}, shift : Nat]

ShiftsInit ==
  /\ shifts = <<>>
  /\ req = [r \in Requests |-> Idle]
  /\ today = 0
  /\ overlapped = FALSE
  /\ reclosed = {}

-----------------------------------------------------------------------------
\* get_open_shift: of the desk, or of any when none is named.
OpenShifts(kassa) ==
  {i \in DOMAIN shifts : shifts[i].status = "open" /\ kassa \in {NoOne, shifts[i].kassa}}

\* rmk_shift_open looks for any open shift.
BeginOpen(r, kassa) ==
  /\ req[r] = Idle
  /\ OpenShifts(NoOne) = {}
  /\ req' = [req EXCEPT ![r] = [pc |-> "check", kassa |-> kassa]]
  /\ overlapped' = (overlapped \/ \E q \in Requests : req[q].pc \in {"check", "insert"})
  /\ UNCHANGED <<shifts, today, reclosed>>

\* open_shift looks for an open one of the desk, and returns it.
CheckOpen(r) ==
  /\ req[r].pc = "check"
  /\ req' = [req EXCEPT ![r] = IF OpenShifts(req[r].kassa) # {} THEN Idle ELSE [@ EXCEPT !.pc = "insert"]]
  /\ UNCHANGED <<shifts, today, overlapped, reclosed>>

InsertShift(r) ==
  /\ req[r].pc = "insert"
  /\ Len(shifts) < MaxShifts
  /\ shifts' = Append(shifts, [kassa |-> req[r].kassa, status |-> "open", opened |-> today, closed |-> NoOne])
  /\ req' = [req EXCEPT ![r] = Idle]
  /\ UNCHANGED <<today, overlapped, reclosed>>

\* rmk_shift_close closes one of the open shifts, whichever comes first.
BeginClose(r) ==
  /\ req[r] = Idle
  /\ \E i \in OpenShifts(NoOne) : req' = [req EXCEPT ![r] = [pc |-> "close", shift |-> i]]
  /\ UNCHANGED <<shifts, today, overlapped, reclosed>>

\* close_shift does not look whether the shift is open still.
CloseShift(r) ==
  /\ req[r].pc = "close"
  /\ shifts' = [shifts EXCEPT ![req[r].shift].status = "closed", ![req[r].shift].closed = today]
  /\ reclosed' = IF shifts[req[r].shift].status = "closed" THEN reclosed \cup {req[r].shift} ELSE reclosed
  /\ req' = [req EXCEPT ![r] = Idle]
  /\ UNCHANGED <<today, overlapped>>

FailRequest(r) ==
  /\ req[r] # Idle
  /\ req' = [req EXCEPT ![r] = Idle]
  /\ UNCHANGED <<shifts, today, overlapped, reclosed>>

NextDay ==
  /\ today < MaxDay /\ today' = today + 1
  /\ UNCHANGED <<shifts, req, overlapped, reclosed>>

ShiftsNext ==
  \/ \E r \in Requests :
       \/ \E kassa \in Kassy \cup {NoOne} : BeginOpen(r, kassa)
       \/ CheckOpen(r) \/ InsertShift(r)
       \/ BeginClose(r) \/ CloseShift(r)
       \/ FailRequest(r)
  \/ NextDay

\* The till beside the books.
TillNext ==
  \/ BooksNext /\ UNCHANGED till
  \/ ShiftsNext /\ UNCHANGED <<vars, registers>>

TillSpec == BooksInit /\ ShiftsInit /\ [][TillNext]_<<vars, registers, till>>

-----------------------------------------------------------------------------
\* Mutant of InWindow: a shift has no end.
InWindowOpenEnded(s, m) ==
  /\ m.date >= s.opened
  /\ s.kassa = NoOne \/ m.kassa = s.kassa

\* _shift_window: days, not hours; a shift of no desk has the money of all.
InWindow(s, m) ==
  /\ m.date >= s.opened
  /\ s.kassa = NoOne \/ m.kassa = s.kassa
  /\ s.closed = NoOne \/ m.date <= s.closed

ShiftRevenue(s) == SumIn(money, LAMBDA m : InWindow(s, m) /\ m.amount > 0)
ShiftExpenses(s) == -SumIn(money, LAMBDA m : InWindow(s, m) /\ m.amount < 0)

\* Shifts follow one another unless two requests opened them at a time: the
\* check of open_shift and its insert are not one step.  Then what a shift has
\* taken in and paid out is counted again by another only if it is of the day
\* on which the one was closed and the other opened, or the one was closed a
\* second time (_shift_window, close_shift).
ShiftsCountOnce ==
  ~ overlapped =>
    /\ Cardinality(OpenShifts(NoOne)) <= 1
    /\ \A i, j \in DOMAIN shifts :
         i < j /\ i \notin reclosed =>
           \A r \in RowsIn(money) :
             LET m == money[r[1]][r[2]] IN
             InWindow(shifts[i], m) /\ InWindow(shifts[j], m) =>
               m.date = shifts[i].closed /\ m.date = shifts[j].opened

=============================================================================
