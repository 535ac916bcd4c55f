------------------------------ MODULE StudyDays ------------------------------
(***************************************************************************)
(* Days as the user lives them: the streak, the cards due today, and the   *)
(* plan made today (services/progress.py, services/plan.py).  Instants are *)
(* kept in UTC; the date of an instant is computed again on every request  *)
(* in the zone the user has at that time, with the offset the zone has at  *)
(* that instant.  Deleting a deck takes its sessions, and with them their  *)
(* answers, along.                                                         *)
(***************************************************************************)
EXTENDS StudyPlan, FiniteSets

CONSTANTS Decks,       \* one card each
          Zones,       \* the zones of the user's country
          Home,        \* the zone the user starts with
          Offset,      \* [Zones -> [Instants -> offset from UTC]]
          Day,         \* ticks in a day
          Intervals,   \* after how long a card can be due again
          Never,
          MaxTime,     \* bound on the clock
          MaxAnswers   \* bound on the answers

Horizon == MaxTime + Day + CHOOSE i \in Intervals : \A j \in Intervals : j <= i
Instants == 0..Horizon

ASSUME DayAssumption == Day \in Nat \ {0}
ASSUME BoundsAssumption == MaxTime \in Nat /\ MaxAnswers \in Nat
ASSUME IntervalsAssumption ==
  Intervals \subseteq Nat /\ \E i \in Intervals : \A j \in Intervals : j <= i
ASSUME ZonesAssumption == Home \in Zones /\ Offset \in [Zones -> [Instants -> Nat]]
ASSUME NeverAssumption == Never \notin Nat

VARIABLES now,       \* the clock
          zone,      \* the user's time zone
          decks,     \* the decks there are
          answered,  \* [Decks -> when its cards were answered]
          due,       \* [Decks -> when its card is due]
          run, last, \* a diary kept day by day: days in a row, the latest day
                     \* (history)
          altered    \* have answers been deleted, or dates been moved by a change
                     \* of the zone or of its offset? (history)

days == <<now, zone, decks, answered, due, run, last, altered>>
vars == <<plan, days>>

-----------------------------------------------------------------------------
Date(t) == (t + Offset[zone][t]) \div Day
Today == Date(now)

Answers == UNION {answered[d] : d \in Decks}
Dates == {Date(t) : t \in Answers}
Latest == CHOOSE d \in Dates : \A e \in Dates : e <= d

(* MUTANT of DaysInRow: the walk back starts from today.                    *)
DaysInRowFromToday ==
  Cardinality({n \in 0..Today : \A i \in 0..n : Today - i \in Dates})

(* The loop that walks back from the latest date while there is an answer.  *)
DaysInRow == Cardinality({n \in 0..Latest : \A i \in 0..n : Latest - i \in Dates})

(* compute_streak_from_datetimes                                            *)
Streak == IF Dates = {} \/ Today - Latest > 1 THEN 0 ELSE DaysInRow

(* MUTANT of EndOfToday: the end of the day in UTC.                         *)
EndOfTodayInUtc == (now \div Day + 1) * Day - 1

(* _end_of_today_utc: the last instant of today by the offset there is now. *)
EndOfToday == (Today + 1) * Day - 1 - Offset[zone][now]

(* _count_due_today                                                         *)
DueToday == {d \in decks : due[d] # Never /\ due[d] <= EndOfToday}

-----------------------------------------------------------------------------
Init ==
  /\ PlanInit
  /\ now = 0 /\ zone = Home /\ decks = Decks
  /\ answered = [d \in Decks |-> {}] /\ due = [d \in Decks |-> Never]
  /\ run = 0 /\ last = 0 /\ altered = FALSE

Free == plan.at = "idle" /\ UNCHANGED plan

Tick ==
  /\ Free /\ now < MaxTime
  /\ now' = now + 1
  /\ altered' = (altered \/ Offset[zone][now'] # Offset[zone][now])
  /\ UNCHANGED <<zone, decks, answered, due, run, last>>

(* An answer in a session: answered_at is now, the card comes back later.   *)
Study(d, interval) ==
  /\ Free /\ d \in decks
  /\ Cardinality(Answers) < MaxAnswers \/ now \in Answers
  /\ answered' = [answered EXCEPT ![d] = @ \cup {now}]
  /\ due' = [due EXCEPT ![d] = now + interval]
  /\ run' = IF run > 0 /\ Today = last THEN run
            ELSE IF run > 0 /\ Today = last + 1 THEN run + 1 ELSE 1
  /\ last' = Today
  /\ UNCHANGED <<now, zone, decks, altered>>

(* POST /v1/cards/{id}/answer moves the card only: it is no answer of a     *)
(* session.                                                                 *)
Review(d, interval) ==
  /\ Free /\ d \in decks
  /\ due' = [due EXCEPT ![d] = now + interval]
  /\ UNCHANGED <<now, zone, decks, answered, run, last, altered>>

(* update_user: only in a country with several zones.                       *)
MoveTo(z) ==
  /\ Free /\ Cardinality(Zones) > 1 /\ z # zone
  /\ zone' = z /\ altered' = TRUE
  /\ UNCHANGED <<now, decks, answered, due, run, last>>

DeleteDeck(d) ==
  /\ Free /\ d \in decks
  /\ decks' = decks \ {d}
  /\ answered' = [answered EXCEPT ![d] = {}] /\ due' = [due EXCEPT ![d] = Never]
  /\ altered' = TRUE
  /\ UNCHANGED <<now, zone, run, last>>

AskPlanNow(d) ==
  /\ d \in decks
  /\ \E total \in Totals, length \in Lengths, minutes \in Minutes : AskPlan(total, length, minutes)
  /\ UNCHANGED <<now, zone, decks, answered, due, run, last, altered>>

Planning == (PlanDay \/ PlanMade \/ PlanRead) /\ UNCHANGED days

Next ==
  \/ Tick
  \/ \E d \in Decks, i \in Intervals : Study(d, i) \/ Review(d, i)
  \/ \E z \in Zones : MoveTo(z)
  \/ \E d \in Decks : DeleteDeck(d) \/ AskPlanNow(d)
  \/ Planning

Spec == Init /\ [][Next]_vars

-----------------------------------------------------------------------------
Apart(a, b) == MaxOf(a, b) - MinOf(a, b)

TypeOK ==
  /\ PlanTypeOK
  /\ now \in 0..MaxTime /\ zone \in Zones /\ decks \subseteq Decks
  /\ answered \in [Decks -> SUBSET (0..MaxTime)]
  /\ due \in [Decks -> Instants \cup {Never}]
  /\ run \in Nat /\ last \in Nat /\ altered \in BOOLEAN

(* The streak that is computed from the instants of all answers is the one  *)
(* a diary kept day by day shows, as long as nothing moved the dates of     *)
(* past answers or deleted them (progress.py:72-86).                        *)
StreakOfDiary ==
  ~altered => Streak = IF run = 0 \/ Today - last > 1 THEN 0 ELSE run

(* Which cards count as due today, when the end of the day is taken by the  *)
(* offset of now and a due date by the offset of its own instant            *)
(* (progress.py:114-130).  Wherever the user has moved and whatever the     *)
(* clocks do, a card that is due already is counted, and none that is due a *)
(* whole day from now is.  In between a card is counted exactly if its date *)
(* is no later than today's, unless it is due as near to midnight as the    *)
(* two offsets are apart.                                                   *)
DueTodayByDate ==
  \A d \in decks : due[d] # Never =>
    LET here == Offset[zone][now]
        there == Offset[zone][due[d]]
        local == due[d] + there
        midnight == (Today + 1) * Day
    IN /\ due[d] <= now => d \in DueToday
       /\ d \in DueToday => due[d] < now + Day
       /\ \/ d \in DueToday <=> Date(due[d]) <= Today
          \/ Apart(local, midnight) <= Apart(here, there)
=============================================================================
