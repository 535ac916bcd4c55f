------------------------------ MODULE StudyPlan ------------------------------
(***************************************************************************)
(* How a study plan is made (services/plan.py): from the cards of a deck,  *)
(* the days there are and the minutes of a day, the new cards of each day  *)
(* and the reviews added to them.  One step is one turn of the loop in     *)
(* generate_schedule.                                                      *)
(***************************************************************************)
EXTENDS Integers, Sequences

CONSTANTS Totals,   \* card counts of the deck
          Lengths,  \* days asked for
          Minutes   \* minutes a day asked for

ASSUME TotalsAssumption == Totals \subseteq Nat
ASSUME LengthsAssumption == Lengths \subseteq Nat \ {0}
ASSUME MinutesAssumption == Minutes \subseteq Nat \ {0}

VARIABLE plan  \* the request in progress

(* target: new cards a day; most: cards a day; remaining: cards not yet     *)
(* introduced; studied: those introduced; schedule: the days so far.        *)
NoPlan == [at |-> "idle", total |-> 0, days |-> 1, target |-> 1, most |-> 0,
           remaining |-> 0, studied |-> 0, schedule |-> <<>>]

PlanInit == plan = NoPlan

-----------------------------------------------------------------------------
MinOf(a, b) == IF a <= b THEN a ELSE b
MaxOf(a, b) == IF a >= b THEN a ELSE b

MinutesPerCard == 2

(* At least one card a day, if there are any.                               *)
MaxByTime(total, minutes) ==
  IF total > 0 THEN MaxOf(1, minutes \div MinutesPerCard) ELSE minutes \div MinutesPerCard

(* MUTANT of TargetByCoverage: rounded down.                                *)
TargetRoundedDown(total, days) == IF total > 0 THEN total \div days ELSE 1

(* ceil(total / days)                                                       *)
TargetByCoverage(total, days) == IF total > 0 THEN (total + days - 1) \div days ELSE 1

(* MUTANT of DailyTarget: the time there is does not matter.                *)
TargetWithoutBudget(total, days, minutes) == MaxOf(TargetByCoverage(total, days), 1)

DailyTarget(total, days, minutes) ==
  MaxOf(MinOf(TargetByCoverage(total, days), MaxByTime(total, minutes)), 1)

(* create_plan, up to the loop.                                             *)
AskPlan(total, days, minutes) ==
  /\ plan.at = "idle"
  /\ plan' = [at |-> "planning", total |-> total, days |-> days,
              target |-> DailyTarget(total, days, minutes), most |-> MaxByTime(total, minutes),
              remaining |-> total, studied |-> 0, schedule |-> <<>>]

(* MUTANT of Reviews: those of today come back on the same day.             *)
ReviewsOfToday(studied, new) == (studied + new) \div 4

(* A quarter of the cards introduced before today comes back today.         *)
Reviews(studied, new) == studied \div 4

LastDay == Len(plan.schedule) = plan.days

PlanDay ==
  LET new == MinOf(plan.target, plan.remaining)
      cards == MinOf(new + Reviews(plan.studied, new), plan.most)
  IN /\ plan.at = "planning" /\ ~LastDay
     /\ plan' = [plan EXCEPT !.remaining = @ - new, !.studied = @ + new,
                   !.schedule = Append(@, [new |-> new, before |-> plan.studied,
                                           cards |-> cards])]

(* The plan is stored and returned.                                         *)
PlanMade ==
  /\ plan.at = "planning" /\ LastDay
  /\ plan' = [plan EXCEPT !.at = "made"]

PlanRead == plan.at = "made" /\ plan' = NoPlan

PlanNext ==
  \/ \E total \in Totals, days \in Lengths, minutes \in Minutes : AskPlan(total, days, minutes)
  \/ PlanDay \/ PlanMade \/ PlanRead

PlanSpec == PlanInit /\ [][PlanNext]_plan

-----------------------------------------------------------------------------
Entries == [new : Nat, before : Nat, cards : Nat]

PlanTypeOK ==
  plan \in [at : {"idle", "planning", "made"}, total : Nat, days : Nat \ {0},
            target : Nat \ {0}, most : Nat, remaining : Nat, studied : Nat,
            schedule : Seq(Entries)]

(* The plan covers the whole deck whenever the days and the minutes suffice *)
(* for all its cards, one day at a time (plan.py:140-147).                  *)
CoversDeck ==
  plan.at = "made" /\ plan.total <= plan.days * plan.most => plan.remaining = 0

(* No day asks for more cards than its minutes allow, and reviews never     *)
(* displace the new cards of a day (plan.py:144-146).                       *)
DaysWithinBudget ==
  \A i \in DOMAIN plan.schedule : LET day == plan.schedule[i]
                                  IN day.new <= day.cards /\ day.cards <= plan.most

(* A day reviews no more than a quarter of the cards that the days before   *)
(* it have introduced: the count of cards studied agrees, on every day,     *)
(* with the cards that are still to come.                                   *)
ReviewsEarned ==
  /\ \A i \in DOMAIN plan.schedule :
       LET day == plan.schedule[i]
           next == IF i = Len(plan.schedule) THEN plan.total - plan.remaining
                                             ELSE plan.schedule[i + 1].before
       IN 4 * (day.cards - day.new) <= day.before /\ next = day.before + day.new
  /\ plan.studied = plan.total - plan.remaining

(* A plan covers the deck if it can, within the time of every day, and its  *)
(* reviews are of cards it has introduced.                                  *)
PlanFits == CoversDeck /\ DaysWithinBudget /\ ReviewsEarned
=============================================================================
