------------------------------ MODULE OpeningHours ------------------------------
(***************************************************************************)
(* What a page says of a shop's hours (frontend/src/lib/opening-hours.ts), *)
(* computed from the weekly schedule, the clock on the shop's wall and the *)
(* owner's switch, against the hours the schedule stands for.  A schedule  *)
(* has one entry per day, or none; a window that closes no later than it   *)
(* opens runs past midnight.  A day has DayLength minutes, the first of    *)
(* them 0; the code's constants are 7 and 1440.                            *)
(***************************************************************************)
EXTENDS Integers

CONSTANTS DaysInWeek, DayLength

ASSUME OpeningHoursAssumption == DaysInWeek \in Nat \ {0} /\ DayLength \in Nat \ {0}

Days    == 0 .. DaysInWeek - 1
Minutes == 0 .. DayLength - 1
Week    == DaysInWeek * DayLength

(* A day without an entry is as good as one marked closed. *)
Entry ==
  [isClosed : {FALSE}, openTime : Minutes, closeTime : Minutes]
    \cup {[isClosed |-> TRUE, openTime |-> 0, closeTime |-> 0]}

VARIABLES
  openingHours,     \* for each day
  isOpen,           \* the owner's switch
  clock             \* minutes since the week began, on the shop's wall

hoursVars == <<openingHours, isOpen, clock>>

OpeningHoursTypeOK ==
  /\ openingHours \in [Days -> Entry]
  /\ isOpen \in BOOLEAN
  /\ clock \in 0 .. Week - 1

OpeningHoursInit == openingHours \in [Days -> Entry] /\ isOpen = TRUE /\ clock = 0

-----------------------------------------------------------------------------
(* getOpenStatus *)

Usable(day) == ~ openingHours[day].isClosed

dayOfWeek == clock \div DayLength
minutes   == clock % DayLength

DayAfter(i) == (dayOfWeek + i) % DaysInWeek

(* Mutant: a window of exactly a day is taken for one of no length. *)
ClosesBefore(day) == openingHours[day].closeTime < openingHours[day].openTime

Overnight(day) == openingHours[day].closeTime <= openingHours[day].openTime

StillOpen ==
  LET yesterday == DayAfter(DaysInWeek - 1) IN
  Usable(yesterday) /\ Overnight(yesterday) /\ minutes < openingHours[yesterday].closeTime

OpenedToday ==
  /\ Usable(dayOfWeek)
  /\ minutes >= openingHours[dayOfWeek].openTime
  /\ Overnight(dayOfWeek) \/ minutes < openingHours[dayOfWeek].closeTime

NextDays == {i \in 1 .. DaysInWeek : Usable(DayAfter(i))}

(* What it answers; `in' is the number of days it says the shop stays shut, *)
(* which "closedUntilTomorrow" and "closedUntilDay" give by the day's name. *)
getOpenStatus ==
  IF \A day \in Days : ~ Usable(day)
    THEN [kind |-> "unknown", in |-> 0]
  ELSE IF StillOpen \/ OpenedToday
    THEN [kind |-> "open", in |-> 0]
  ELSE IF Usable(dayOfWeek) /\ minutes < openingHours[dayOfWeek].openTime
    THEN [kind |-> "opensLaterToday", in |-> 0]
  ELSE LET i == CHOOSE n \in NextDays : \A m \in NextDays : n <= m IN
       [kind |-> IF i = 1 THEN "closedUntilTomorrow" ELSE "closedUntilDay", in |-> i]

(* The owner's switch wins when it says closed. *)
isOpenNow == isOpen /\ getOpenStatus.kind \in {"open", "unknown"}

-----------------------------------------------------------------------------
toggleOpen == isOpen' = ~ isOpen /\ UNCHANGED <<openingHours, clock>>

(* The clock on the wall (external). *)
TickClock == clock' = (clock + 1) % Week /\ UNCHANGED <<openingHours, isOpen>>

OpeningHoursNext == toggleOpen \/ TickClock

OpeningHoursSpec == OpeningHoursInit /\ [][OpeningHoursNext]_hoursVars

-----------------------------------------------------------------------------
(* Properties *)

(* What a schedule stands for: each entry opens the shop at its time, for   *)
(* as long as it takes the clock to reach its closing time, up to a day.    *)
OpensAt(day) == day * DayLength + openingHours[day].openTime

LengthOf(day) ==
  LET d == openingHours[day].closeTime - openingHours[day].openTime IN
  IF d > 0 THEN d ELSE d + DayLength

InHours(t) == \E day \in Days : Usable(day) /\ (t - OpensAt(day)) % Week < LengthOf(day)

NextOpening ==
  CHOOSE t \in clock + 1 .. clock + Week :
    LET Opening(n) == \E day \in Days : Usable(day) /\ OpensAt(day) = n % Week IN
    Opening(t) /\ \A n \in clock + 1 .. t - 1 : ~ Opening(n)

(* A shop is shown as open exactly in its hours, those that began the day   *)
(* before included (opening-hours.ts:40-47), unless its owner closed it or  *)
(* it has no schedule; and one that is shown as closed opens on the day the *)
(* page names, and not earlier.                                             *)
HoursShownAreTheShops ==
  LET s == getOpenStatus IN
  IF \A day \in Days : ~ Usable(day)
    THEN isOpenNow = isOpen
    ELSE /\ isOpenNow <=> isOpen /\ InHours(clock)
         /\ ~ InHours(clock) => NextOpening \div DayLength = dayOfWeek + s.in
=============================================================================
