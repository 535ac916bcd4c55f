--------------------------- MODULE StudyDaysProofs ---------------------------
(***************************************************************************)
(* What StudyPlan and StudyDays promise, for any totals, lengths, minutes, *)
(* decks, zones and offsets, days of any length and any number of answers; *)
(* and what SpacedRepetition promises of the days a card comes back on.    *)
(***************************************************************************)
EXTENDS StudyDays, SpacedRepetition, FiniteSetTheorems, TLAPS

-----------------------------------------------------------------------------
(* Facts about division.                                                    *)

LEMMA DivInt ==
  ASSUME NEW x \in Int, NEW d \in Nat \ {0}
  PROVE  x \div d \in Int
  BY SMT

(* The quotient is the one k with d*k <= x < d*(k+1).                       *)
LEMMA DivBounds ==
  ASSUME NEW x \in Int, NEW d \in Nat \ {0}
  PROVE  d * (x \div d) <= x /\ x < d * (x \div d) + d
  BY SMT

(* A quotient is at most k exactly below d*(k+1).                           *)
LEMMA DivAtMost ==
  ASSUME NEW x \in Int, NEW d \in Nat \ {0}, NEW k \in Int
  PROVE  x \div d <= k <=> x < (k + 1) * d
  BY DivInt, DivBounds, SMT

LEMMA DivMonotone ==
  ASSUME NEW x \in Int, NEW y \in Int, NEW d \in Nat \ {0}, x <= y
  PROVE  x \div d <= y \div d
  BY DivInt, DivBounds, SMT

LEMMA DivNat ==
  ASSUME NEW x \in Nat, NEW d \in Nat \ {0}
  PROVE  x \div d \in Nat
  BY DivInt, DivBounds, SMT

LEMMA OneMore ==
  ASSUME NEW a \in Nat, NEW b \in Nat
  PROVE  a * b \in Nat /\ (a + 1) * b = a * b + b
  BY SMT

(* Rounded up, the quotient covers the dividend.                            *)
LEMMA CeilingCovers ==
  ASSUME NEW x \in Nat, NEW d \in Nat \ {0}
  PROVE  (x + d - 1) \div d \in Nat /\ d * ((x + d - 1) \div d) >= x
  BY DivInt, DivBounds, SMT

-----------------------------------------------------------------------------
(* What a new plan is made of.                                              *)

LEMMA TimeTyped ==
  ASSUME NEW total \in Nat, NEW minutes \in Nat
  PROVE  /\ MaxByTime(total, minutes) \in Nat
         /\ total > 0 => MaxByTime(total, minutes) >= 1
<1>1. minutes \div 2 \in Nat
  BY SMT
<1>2. QED
  BY <1>1, SMT DEF MaxByTime, MaxOf, MinutesPerCard

(* The target is a positive number, fits in a day, and covers the deck if   *)
(* full days do.                                                            *)
LEMMA TargetEnough ==
  ASSUME NEW total \in Nat, NEW length \in Nat \ {0}, NEW minutes \in Nat
  PROVE  LET target == DailyTarget(total, length, minutes)
             most == MaxByTime(total, minutes)
         IN /\ target \in Nat \ {0}
            /\ total > 0 => target <= most
            /\ total <= length * most => total <= length * target
<1> DEFINE most == MaxByTime(total, minutes)
           ceiling == TargetByCoverage(total, length)
<1>1. most \in Nat /\ (total > 0 => most >= 1)
  BY TimeTyped
<1>2. ceiling \in Nat /\ length * ceiling >= total
  BY CeilingCovers, SMT DEF TargetByCoverage
<1> HIDE DEF most, ceiling
<1> DEFINE target == MaxOf(MinOf(ceiling, most), 1)
<1>3. target \in Nat \ {0} /\ (total > 0 => target <= most)
  BY <1>1, <1>2, SMT DEF MaxOf, MinOf
<1>4. target >= ceiling \/ target >= most
  BY <1>1, <1>2, SMT DEF MaxOf, MinOf
<1>5. total <= length * most => total <= length * target
  <2> HIDE DEF target
  <2>1. CASE target >= ceiling
    BY <2>1, <1>2, <1>3, SMT
  <2>2. CASE target >= most
    BY <2>2, <1>1, <1>3, SMT
  <2>3. QED
    BY <2>1, <2>2, <1>4
<1>6. QED
  BY <1>3, <1>5 DEF DailyTarget, most, ceiling

-----------------------------------------------------------------------------
(* Until the deck is used up, every day has introduced its target.          *)
OnTarget ==
  /\ plan.remaining <= plan.total
  /\ plan.total > 0 => plan.target <= plan.most
  /\ plan.total <= plan.days * plan.most => plan.total <= plan.days * plan.target
  /\ plan.remaining = 0 \/ plan.remaining = plan.total - Len(plan.schedule) * plan.target
  /\ plan.at = "made" => Len(plan.schedule) = plan.days

PlanInv == PlanTypeOK /\ OnTarget /\ DaysWithinBudget /\ ReviewsEarned

LEMMA PlanInvFits == PlanInv => PlanFits
<1> SUFFICES ASSUME PlanInv PROVE CoversDeck
  BY DEF PlanInv, PlanFits
<1>1. /\ plan.total \in Nat /\ plan.days \in Nat /\ plan.most \in Nat /\ plan.target \in Nat
      /\ plan.remaining \in Nat
  BY DEF PlanInv, PlanTypeOK
<1>2. QED
  BY <1>1, SMT DEF PlanInv, OnTarget, CoversDeck

LEMMA EmptyPlan ==
  ASSUME plan' = NoPlan
  PROVE  PlanInv'
  BY SMT DEF NoPlan, PlanInv, PlanTypeOK, OnTarget, DaysWithinBudget, ReviewsEarned, Entries

LEMMA AskPlanKeeps ==
  ASSUME NEW total \in Nat, NEW length \in Nat \ {0}, NEW minutes \in Nat,
         AskPlan(total, length, minutes)
  PROVE  PlanInv'
<1> DEFINE target == DailyTarget(total, length, minutes)
           most == MaxByTime(total, minutes)
<1>1. most \in Nat
  BY TimeTyped
<1>2. /\ target \in Nat \ {0}
      /\ total > 0 => target <= most
      /\ total <= length * most => total <= length * target
  BY TargetEnough
<1>3. plan' = [at |-> "planning", total |-> total, days |-> length, target |-> target,
               most |-> most, remaining |-> total, studied |-> 0, schedule |-> <<>>]
  BY DEF AskPlan
<1> HIDE DEF target, most
<1>4. PlanTypeOK'
  BY <1>1, <1>2, <1>3, SMT DEF PlanTypeOK, Entries
<1>5. OnTarget'
  BY <1>1, <1>2, <1>3, SMT DEF OnTarget
<1>6. DaysWithinBudget' /\ ReviewsEarned'
  BY <1>3, SMT DEF DaysWithinBudget, ReviewsEarned
<1>7. QED
  BY <1>4, <1>5, <1>6 DEF PlanInv

(* Reviews fill the time the new cards leave, and no more.                  *)
LEMMA TimeLeft ==
  ASSUME NEW new \in Nat, NEW reviews \in Nat, NEW most \in Nat, NEW studied \in Nat,
         new <= most, 4 * reviews <= studied
  PROVE  LET cards == MinOf(new + reviews, most)
         IN /\ cards \in Nat /\ new <= cards /\ cards <= most
            /\ 4 * (cards - new) <= studied
  BY SMT DEF MinOf

(* One day is added: its new cards, and reviews in what time is left.       *)
LEMMA PlanDayKeeps ==
  ASSUME PlanInv, PlanDay
  PROVE  PlanInv'
<1> DEFINE new == MinOf(plan.target, plan.remaining)
           studied == plan.studied
           cards == MinOf(new + Reviews(studied, new), plan.most)
           entry == [new |-> new, before |-> studied, cards |-> cards]
           n == Len(plan.schedule)
<1>1. /\ plan.total \in Nat /\ plan.days \in Nat \ {0} /\ plan.most \in Nat
      /\ plan.target \in Nat \ {0} /\ plan.remaining \in Nat /\ plan.studied \in Nat
      /\ plan.schedule \in Seq(Entries) /\ n \in Nat
  BY DEF PlanInv, PlanTypeOK
<1>2. plan.at = "planning" /\ n # plan.days
  BY DEF PlanDay, LastDay
<1>3. plan' = [plan EXCEPT !.remaining = @ - new, !.studied = @ + new,
                           !.schedule = Append(@, entry)]
  BY DEF PlanDay
<1>4. studied \in Nat /\ studied = plan.total - plan.remaining
  BY <1>1 DEF PlanInv, ReviewsEarned
<1>5. Reviews(studied, new) \in Nat /\ 4 * Reviews(studied, new) <= studied
  BY <1>4, SMT DEF Reviews
<1>6. /\ new \in Nat /\ new <= plan.remaining
      /\ new = plan.target \/ new = plan.remaining
      /\ new <= plan.most
  BY <1>1, SMT DEF MinOf, PlanInv, OnTarget
<1> HIDE DEF new, studied
<1> DEFINE reviews == Reviews(studied, new)
<1>r. reviews \in Nat /\ 4 * reviews <= studied
  BY <1>5
<1> HIDE DEF reviews
<1>7. cards \in Nat /\ new <= cards /\ cards <= plan.most /\ 4 * (cards - new) <= studied
  <2>1. LET left == MinOf(new + reviews, plan.most)
        IN left \in Nat /\ new <= left /\ left <= plan.most /\ 4 * (left - new) <= studied
    BY <1>1, <1>4, <1>r, <1>6, SMT DEF MinOf
  <2>2. QED
    BY <2>1 DEF reviews
<1> HIDE DEF cards
<1>8. entry \in Entries
  BY <1>4, <1>6, <1>7 DEF Entries
<1> HIDE DEF entry
<1>9. /\ plan'.at = plan.at /\ plan'.total = plan.total /\ plan'.days = plan.days
      /\ plan'.target = plan.target /\ plan'.most = plan.most
      /\ plan'.remaining = plan.remaining - new /\ plan'.studied = studied + new
      /\ plan'.schedule = Append(plan.schedule, entry)
  <2>1. PlanTypeOK
    BY DEF PlanInv
  <2>2. /\ plan'.at = plan.at /\ plan'.total = plan.total /\ plan'.days = plan.days
        /\ plan'.target = plan.target /\ plan'.most = plan.most
    BY <2>1, <1>3, Zenon DEF PlanTypeOK
  <2>3. plan'.remaining = plan.remaining - new
    BY <2>1, <1>3, Zenon DEF PlanTypeOK
  <2>4. plan'.studied = plan.studied + new
    BY <2>1, <1>3, Zenon DEF PlanTypeOK
  <2>5. plan'.schedule = Append(plan.schedule, entry)
    BY <2>1, <1>3, Zenon DEF PlanTypeOK
  <2>6. QED
    BY <2>2, <2>3, <2>4, <2>5 DEF studied
<1>10. PlanTypeOK'
  <2>1. plan.remaining - new \in Nat /\ plan.studied + new \in Nat
    BY <1>1, <1>6, SMT
  <2>2. Append(plan.schedule, entry) \in Seq(Entries)
    BY <1>1, <1>8
  <2>3. QED
    BY <2>1, <2>2, <1>3 DEF PlanInv, PlanTypeOK
<1>11. /\ Len(plan'.schedule) = n + 1
       /\ \A i \in 1..n : plan'.schedule[i] = plan.schedule[i]
       /\ plan'.schedule[n + 1] = entry
       /\ DOMAIN plan'.schedule = 1..(n + 1) /\ DOMAIN plan.schedule = 1..n
  BY <1>1, <1>8, <1>9, SMT
<1>12. OnTarget'
  <2>1. plan'.remaining = 0 \/ plan'.remaining = plan.total - (n + 1) * plan.target
    <3>1. CASE plan.remaining = 0
      BY <3>1, <1>1, <1>6, <1>9, SMT
    <3>2. CASE new = plan.remaining
      BY <3>2, <1>1, <1>6, <1>9, SMT
    <3>3. CASE plan.remaining = plan.total - n * plan.target /\ new = plan.target
      <4>1. (n + 1) * plan.target = n * plan.target + plan.target /\ n * plan.target \in Nat
        BY <1>1, OneMore
      <4> DEFINE before == n * plan.target
                 after == (n + 1) * plan.target
      <4>2. /\ before \in Nat /\ after = before + plan.target
            /\ plan'.remaining = plan.remaining - new /\ new = plan.target
            /\ plan.remaining = plan.total - before
        BY <4>1, <3>3, <1>9
      <4> HIDE DEF before, after
      <4>3. plan'.remaining = plan.total - after
        BY <4>2, <1>1, SMT
      <4>4. QED
        BY <4>3 DEF after
    <3>4. plan.remaining = 0 \/ plan.remaining = plan.total - n * plan.target
      BY DEF PlanInv, OnTarget
    <3>5. QED
      BY <3>1, <3>2, <3>3, <3>4, <1>6
  <2>2. plan'.remaining <= plan'.total
    BY <1>1, <1>6, <1>9, SMT DEF PlanInv, OnTarget
  <2>3. QED
    BY <2>1, <2>2, <1>2, <1>9, <1>11 DEF PlanInv, OnTarget
<1>13. DaysWithinBudget'
  <2> SUFFICES ASSUME NEW i \in 1..(n + 1)
               PROVE  /\ plan'.schedule[i].new <= plan'.schedule[i].cards
                      /\ plan'.schedule[i].cards <= plan'.most
    BY <1>11 DEF DaysWithinBudget
  <2>1. CASE i \in 1..n
    BY <2>1, <1>9, <1>11 DEF PlanInv, DaysWithinBudget
  <2>2. CASE i = n + 1
    BY <2>2, <1>7, <1>9, <1>11 DEF entry
  <2>3. QED
    BY <2>1, <2>2, <1>1, SMT
<1>14. ReviewsEarned'
  <2> DEFINE follows(p, i) == IF i = Len(p.schedule) THEN p.total - p.remaining
                              ELSE p.schedule[i + 1].before
  <2> SUFFICES ASSUME NEW i \in 1..(n + 1)
               PROVE  LET day == plan'.schedule[i]
                      IN /\ 4 * (day.cards - day.new) <= day.before
                         /\ follows(plan', i) = day.before + day.new
    <3>1. plan'.studied = plan'.total - plan'.remaining
      BY <1>1, <1>4, <1>6, <1>9, SMT
    <3>2. QED
      BY <3>1, <1>11 DEF ReviewsEarned
  <2>1. CASE i \in 1..n
    <3>1. LET day == plan.schedule[i]
          IN /\ 4 * (day.cards - day.new) <= day.before
             /\ follows(plan, i) = day.before + day.new
      BY <2>1, <1>11 DEF PlanInv, ReviewsEarned
    <3>2. follows(plan', i) = follows(plan, i)
      <4>1. CASE i = n
        BY <4>1, <1>1, <1>4, <1>11, SMT DEF entry
      <4>2. CASE i # n
        <5>1. i + 1 \in 1..n /\ i # n + 1
          BY <4>2, <2>1, <1>1, SMT
        <5>2. QED
          BY <5>1, <4>2, <1>1, <1>11
      <4>3. QED
        BY <4>1, <4>2
    <3>3. QED
      BY <3>1, <3>2, <2>1, <1>11
  <2>2. CASE i = n + 1
    <3>1. follows(plan', i) = plan.total - (plan.remaining - new)
      BY <2>2, <1>9, <1>11
    <3>2. plan'.schedule[i] = entry
      BY <2>2, <1>11
    <3>3. plan.total - (plan.remaining - new) = studied + new
      BY <1>1, <1>4, <1>6, SMT
    <3>4. QED
      BY <3>1, <3>2, <3>3, <1>7 DEF entry
  <2>3. QED
    BY <2>1, <2>2, <1>1, SMT
<1>15. QED
  BY <1>10, <1>12, <1>13, <1>14 DEF PlanInv

LEMMA PlanMadeKeeps ==
  ASSUME PlanInv, PlanMade
  PROVE  PlanInv'
<1>1. plan' = [plan EXCEPT !.at = "made"]
  BY DEF PlanMade
<1>2. /\ plan'.at = "made" /\ plan'.total = plan.total /\ plan'.days = plan.days
      /\ plan'.target = plan.target /\ plan'.most = plan.most
      /\ plan'.remaining = plan.remaining /\ plan'.studied = plan.studied
      /\ plan'.schedule = plan.schedule
  BY <1>1 DEF PlanInv, PlanTypeOK
<1>3. PlanTypeOK'
  BY <1>1 DEF PlanInv, PlanTypeOK
<1>4. OnTarget'
  BY <1>2 DEF PlanInv, OnTarget, PlanMade, LastDay
<1>5. DaysWithinBudget' /\ ReviewsEarned'
  BY <1>2 DEF PlanInv, DaysWithinBudget, ReviewsEarned
<1>6. QED
  BY <1>3, <1>4, <1>5 DEF PlanInv

LEMMA PlanStepKeeps ==
  ASSUME PlanInv, [PlanNext]_plan
  PROVE  PlanInv'
<1>1. CASE \E total \in Totals, length \in Lengths, minutes \in Minutes :
             AskPlan(total, length, minutes)
  BY <1>1, AskPlanKeeps, TotalsAssumption, LengthsAssumption, MinutesAssumption
<1>2. CASE PlanDay
  BY <1>2, PlanDayKeeps
<1>3. CASE PlanMade
  BY <1>3, PlanMadeKeeps
<1>4. CASE PlanRead
  BY <1>4, EmptyPlan DEF PlanRead
<1>5. CASE UNCHANGED plan
  BY <1>5 DEF PlanInv, PlanTypeOK, OnTarget, DaysWithinBudget, ReviewsEarned
<1>6. QED
  BY <1>1, <1>2, <1>3, <1>4, <1>5 DEF PlanNext

-----------------------------------------------------------------------------
(* Days.                                                                    *)

(* The clock, and every due date it can lead to, is an instant.             *)
LEMMA ClockInTable ==
  /\ Horizon \in Nat /\ 0..MaxTime \subseteq Instants /\ Instants \subseteq Nat
  /\ \A t \in 0..MaxTime, i \in Intervals : t + i \in Instants
<1> DEFINE longest == CHOOSE i \in Intervals : \A j \in Intervals : j <= i
<1>1. longest \in Nat /\ \A i \in Intervals : i \in Nat /\ i <= longest
  BY IntervalsAssumption
<1>2. Horizon = MaxTime + Day + longest
  BY DEF Horizon
<1> HIDE DEF longest
<1>3. Horizon \in Nat /\ MaxTime <= Horizon
  BY <1>1, <1>2, DayAssumption, BoundsAssumption, SMT
<1>4. ASSUME NEW t \in 0..MaxTime, NEW i \in Intervals PROVE t + i \in 0..Horizon
  BY <1>1, <1>2, DayAssumption, BoundsAssumption, SMT
<1>5. QED
  BY <1>3, <1>4, BoundsAssumption, SMT DEF Instants

DaysTypeOK ==
  /\ now \in 0..MaxTime /\ zone \in Zones /\ decks \subseteq Decks
  /\ answered \in [Decks -> SUBSET (0..MaxTime)]
  /\ due \in [Decks -> Instants \cup {Never}]
  /\ run \in Nat /\ last \in Nat /\ altered \in BOOLEAN

(* Dates are numbers.                                                       *)
LEMMA DateTyped ==
  ASSUME zone \in Zones, NEW t \in Instants
  PROVE  Offset[zone][t] \in Nat /\ Date(t) \in Nat
<1>1. Offset[zone][t] \in Nat
  BY ZonesAssumption
<1>2. t \in Nat
  BY ClockInTable, SMT DEF Instants
<1>3. t + Offset[zone][t] \in Nat
  BY <1>1, <1>2, SMT
<1>4. QED
  BY <1>1, <1>3, DayAssumption, DivNat DEF Date

LEMMA DatesTyped ==
  ASSUME DaysTypeOK
  PROVE  /\ Today \in Nat /\ Offset[zone][now] \in Nat
         /\ Answers \subseteq 0..MaxTime /\ Dates \subseteq Nat
<1>1. Answers \subseteq 0..MaxTime
  BY DEF DaysTypeOK, Answers
<1>2. Today \in Nat /\ Offset[zone][now] \in Nat
  BY DateTyped, ClockInTable DEF DaysTypeOK, Today
<1>3. Dates \subseteq Nat
  BY <1>1, DateTyped, ClockInTable DEF DaysTypeOK, Dates
<1>4. QED
  BY <1>1, <1>2, <1>3

LEMMA DaysTyped ==
  ASSUME DaysTypeOK, [Next]_vars
  PROVE  DaysTypeOK'
<1>1. CASE Tick
  BY <1>1, BoundsAssumption, SMT DEF DaysTypeOK, Tick
<1>2. ASSUME NEW d \in Decks, NEW i \in Intervals, Study(d, i)
      PROVE  DaysTypeOK'
  <2>1. now + i \in Instants /\ run + 1 \in Nat /\ Today \in Nat
    BY ClockInTable, DatesTyped DEF DaysTypeOK
  <2>2. run' \in Nat /\ last' \in Nat
    BY <1>2, <2>1 DEF Study, DaysTypeOK
  <2>3. answered' \in [Decks -> SUBSET (0..MaxTime)]
    BY <1>2 DEF Study, DaysTypeOK
  <2>4. due' \in [Decks -> Instants \cup {Never}]
    BY <1>2, <2>1 DEF Study, DaysTypeOK
  <2>5. QED
    BY <1>2, <2>2, <2>3, <2>4 DEF Study, DaysTypeOK
<1>3. ASSUME NEW d \in Decks, NEW i \in Intervals, Review(d, i)
      PROVE  DaysTypeOK'
  <2>1. now + i \in Instants
    BY ClockInTable DEF DaysTypeOK
  <2>2. due' \in [Decks -> Instants \cup {Never}]
    BY <1>3, <2>1 DEF Review, DaysTypeOK
  <2>3. QED
    BY <1>3, <2>2 DEF Review, DaysTypeOK
<1>4. ASSUME NEW z \in Zones, MoveTo(z)
      PROVE  DaysTypeOK'
  BY <1>4 DEF MoveTo, DaysTypeOK
<1>5. ASSUME NEW d \in Decks, DeleteDeck(d)
      PROVE  DaysTypeOK'
  BY <1>5 DEF DeleteDeck, DaysTypeOK
<1>6. ASSUME NEW d \in Decks, AskPlanNow(d)
      PROVE  DaysTypeOK'
  BY <1>6 DEF AskPlanNow, DaysTypeOK
<1>7. CASE Planning \/ UNCHANGED vars
  BY <1>7 DEF Planning, vars, days, DaysTypeOK
<1>8. QED
  BY <1>1, <1>2, <1>3, <1>4, <1>5, <1>6, <1>7 DEF Next

(* The diary agrees with the answers as long as their dates stay.           *)
Diary ==
  ~altered =>
    \/ run = 0 /\ Dates = {}
    \/ /\ run > 0 /\ last \in Dates /\ last <= Today
       /\ \A e \in Dates : e <= last
       /\ \A i \in 0..(run - 1) : last - i \in Dates
       /\ last - run \notin Dates

(* What the dates and today are made of does not change.                    *)
LEMMA DatesKept ==
  ASSUME UNCHANGED <<zone, answered>>
  PROVE  Dates' = Dates
  BY DEF Dates, Date, Answers

(* As time passes without a change of the offset, today moves on only.      *)
LEMMA TickKeepsDiary ==
  ASSUME DaysTypeOK, Diary, Tick
  PROVE  Diary'
<1> SUFFICES ASSUME ~altered'
             PROVE  Diary'
  BY DEF Diary
<1>1. ~altered /\ Offset[zone][now'] = Offset[zone][now]
  BY DEF Tick
<1>2. /\ now \in Nat /\ now' = now + 1 /\ zone' = zone
      /\ Offset[zone][now] \in Nat
  BY DatesTyped, SMT DEF Tick, DaysTypeOK
<1> DEFINE here == now + Offset[zone][now]
           there == now' + Offset[zone][now']
<1>3. here \in Int /\ there \in Int /\ here <= there
  BY <1>1, <1>2, SMT
<1>4. Today = here \div Day /\ Today' = there \div Day
  BY <1>2 DEF Today, Date
<1> HIDE DEF here, there
<1>5. Today \in Int /\ Today' \in Int /\ Today <= Today'
  BY <1>3, <1>4, DayAssumption, DivInt, DivMonotone
<1>6. Dates' = Dates /\ run' = run /\ last' = last
  BY DatesKept DEF Tick
<1>7. last <= Today => last <= Today'
  BY <1>5, SMT DEF DaysTypeOK
<1>8. QED
  BY <1>1, <1>6, <1>7 DEF Diary

(* An answer adds today to the dates.                                       *)
LEMMA StudyAddsToday ==
  ASSUME DaysTypeOK, NEW d \in Decks, NEW i \in Intervals, Study(d, i)
  PROVE  Dates' = Dates \cup {Today} /\ Today' = Today
<1>1. /\ answered' = [answered EXCEPT ![d] = @ \cup {now}]
      /\ zone' = zone /\ now' = now
  BY DEF Study
<1>2. answered'[d] = answered[d] \cup {now}
      /\ \A e \in Decks \ {d} : answered'[e] = answered[e]
  BY <1>1 DEF DaysTypeOK
<1>3. Answers' = Answers \cup {now}
  BY <1>2 DEF Answers
<1>4. QED
  BY <1>1, <1>3 DEF Dates, Today, Date

LEMMA StudyKeepsDiary ==
  ASSUME DaysTypeOK, Diary, NEW d \in Decks, NEW i \in Intervals, Study(d, i)
  PROVE  Diary'
<1> SUFFICES ASSUME ~altered'
             PROVE  Diary'
  BY DEF Diary
<1>1. /\ ~altered /\ last' = Today /\ Today' = Today /\ Dates' = Dates \cup {Today}
      /\ run' = IF run > 0 /\ Today = last THEN run
                ELSE IF run > 0 /\ Today = last + 1 THEN run + 1 ELSE 1
  BY StudyAddsToday DEF Study
<1>2. Today \in Nat /\ Dates \subseteq Nat /\ run \in Nat /\ last \in Nat
  BY DatesTyped DEF DaysTypeOK
<1> DEFINE Kept == /\ run > 0 /\ last \in Dates /\ last <= Today
                   /\ \A e \in Dates : e <= last
                   /\ \A k \in 0..(run - 1) : last - k \in Dates
                   /\ last - run \notin Dates
<1>3. (run = 0 /\ Dates = {}) \/ Kept
  BY <1>1 DEF Diary
<1>4. ASSUME run' > 0, \A e \in Dates : e <= Today,
             \A k \in 0..(run' - 1) : Today - k \in Dates \cup {Today},
             Today - run' \notin Dates \cup {Today}
      PROVE  Diary'
  <2>1. last' \in Dates' /\ last' <= Today' /\ \A e \in Dates' : e <= last'
    BY <1>1, <1>2, <1>4, SMT
  <2>2. (\A k \in 0..(run' - 1) : last' - k \in Dates') /\ last' - run' \notin Dates'
    BY <1>1, <1>4
  <2>3. QED
    BY <2>1, <2>2, <1>4 DEF Diary
<1>5. ASSUME run' = 1, \A e \in Dates : e < Today, Today - 1 \notin Dates
      PROVE  Diary'
  BY <1>2, <1>4, <1>5, SMT
<1>6. CASE run = 0 /\ Dates = {}
  BY <1>1, <1>2, <1>5, <1>6, SMT
<1>7. CASE Kept /\ Today = last
  BY <1>1, <1>2, <1>4, <1>7, SMT
<1>8. CASE Kept /\ Today = last + 1
  <2>1. run' = run + 1 /\ run' > 0 /\ Today - run' = last - run
    BY <1>1, <1>2, <1>8, SMT
  <2>2. \A k \in 0..(run' - 1) : Today - k \in Dates \cup {Today}
    <3> SUFFICES ASSUME NEW k \in 0..run, k # 0
                 PROVE  Today - k \in Dates
      BY <1>2, <2>1, SMT
    <3>1. k - 1 \in 0..(run - 1) /\ Today - k = last - (k - 1)
      BY <1>2, <1>8, SMT
    <3>2. QED
      BY <3>1, <1>8
  <2>3. Today - run' # Today /\ \A e \in Dates : e <= Today
    BY <1>2, <1>8, <2>1, SMT
  <2>4. QED
    BY <1>4, <1>8, <2>1, <2>2, <2>3
<1>9. CASE Kept /\ Today > last + 1
  <2>1. run' = 1 /\ \A e \in Dates : e < Today
    BY <1>1, <1>2, <1>9, SMT
  <2>2. Today - 1 \notin Dates
    BY <1>2, <1>9, SMT
  <2>3. QED
    BY <1>5, <2>1, <2>2
<1>10. QED
  BY <1>2, <1>3, <1>6, <1>7, <1>8, <1>9, SMT

LEMMA DiaryKept ==
  ASSUME DaysTypeOK, Diary, [Next]_vars
  PROVE  Diary'
<1>1. CASE Tick
  BY <1>1, TickKeepsDiary
<1>2. CASE \E d \in Decks, i \in Intervals : Study(d, i)
  BY <1>2, StudyKeepsDiary
<1>3. CASE UNCHANGED <<now, zone, answered, run, last, altered>>
  <2>1. Dates' = Dates /\ Today' = Today
    BY <1>3, DatesKept DEF Today, Date
  <2>2. QED
    BY <1>3, <2>1 DEF Diary
<1>4. CASE altered'
  BY <1>4 DEF Diary
<1>5. QED
  BY <1>1, <1>2, <1>3, <1>4
     DEF Next, Review, MoveTo, DeleteDeck, AskPlanNow, Planning, vars, days

(* Walking back from the latest date finds as many days as the diary has.   *)
LEMMA WalkFindsDiary ==
  ASSUME DaysTypeOK, ~altered, Diary, run > 0
  PROVE  Dates # {} /\ Latest = last /\ DaysInRow = run
<1>1. /\ last \in Dates /\ \A e \in Dates : e <= last
      /\ \A i \in 0..(run - 1) : last - i \in Dates
      /\ last - run \notin Dates
  BY SMT DEF Diary
<1>2. run \in Nat /\ last \in Nat /\ Dates \subseteq Nat
  BY DatesTyped DEF DaysTypeOK
<1>3. Latest = last
  <2>1. Latest \in Dates /\ \A e \in Dates : e <= Latest
    BY <1>1 DEF Latest
  <2>2. QED
    BY <1>1, <1>2, <2>1, SMT
<1>4. {n \in 0..last : \A i \in 0..n : last - i \in Dates} = 0..(run - 1)
  <2>1. ASSUME NEW n \in 0..last, \A i \in 0..n : last - i \in Dates
        PROVE  n \in 0..(run - 1)
    <3>1. run \notin 0..n
      BY <1>1, <2>1
    <3>2. QED
      BY <1>2, <3>1, SMT
  <2>2. ASSUME NEW n \in 0..(run - 1)
        PROVE  n \in 0..last /\ \A i \in 0..n : last - i \in Dates
    <3>1. last - n \in Nat
      BY <1>1, <1>2
    <3>2. n \in 0..last
      BY <1>2, <3>1, SMT
    <3>3. 0..n \subseteq 0..(run - 1)
      BY <1>2, SMT
    <3>4. QED
      BY <1>1, <3>2, <3>3
  <2>3. QED
    BY <2>1, <2>2
<1>5. Cardinality(0..(run - 1)) = run
  <2>1. Cardinality(0..(run - 1)) = IF 0 > run - 1 THEN 0 ELSE (run - 1) - 0 + 1
    BY <1>2, FS_Interval, SMT
  <2>2. QED
    BY <1>2, <2>1, SMT
<1>6. QED
  BY <1>1, <1>3, <1>4, <1>5 DEF DaysInRow

LEMMA DiaryIsStreak ==
  ASSUME DaysTypeOK, Diary
  PROVE  StreakOfDiary
<1> SUFFICES ASSUME ~altered
             PROVE  Streak = IF run = 0 \/ Today - last > 1 THEN 0 ELSE run
  BY DEF StreakOfDiary
<1>1. CASE run = 0
  BY <1>1, SMT DEF Diary, Streak
<1>2. CASE run > 0
  BY <1>2, WalkFindsDiary, SMT DEF Streak
<1>3. QED
  BY <1>1, <1>2, SMT DEF DaysTypeOK

(* Two sums a + x and a + y on different sides of m are as far apart as x   *)
(* and y are, and m is between them.                                        *)
LEMMA BetweenOffsets ==
  ASSUME NEW a \in Nat, NEW x \in Nat, NEW y \in Nat, NEW m \in Nat,
         ~(a + x < m <=> a + y < m)
  PROVE  Apart(a + y, m) <= Apart(x, y)
  BY SMT DEF Apart, MaxOf, MinOf

(* The cutoff is midnight by the offset of now.                             *)
LEMMA EndOfTodayRight ==
  ASSUME DaysTypeOK
  PROVE  DueTodayByDate
<1> SUFFICES ASSUME NEW d \in decks, due[d] # Never
             PROVE  LET here == Offset[zone][now]
                        there == Offset[zone][due[d]]
                        local == due[d] + there
                        midnight == (Today + 1) * Day
                    IN /\ due[d] <= now => d \in DueToday
                       /\ d \in DueToday => due[d] < now + Day
                       /\ \/ d \in DueToday <=> Date(due[d]) <= Today
                          \/ Apart(local, midnight) <= Apart(here, there)
  BY DEF DueTodayByDate
<1> DEFINE at == due[d]
           here == Offset[zone][now]
           there == Offset[zone][at]
           midnight == (Today + 1) * Day
<1>1. at \in Nat /\ here \in Nat /\ there \in Nat /\ Today \in Nat /\ now \in Nat
  <2>1. at \in Instants
    BY DEF DaysTypeOK
  <2>2. QED
    BY <2>1, DateTyped, DatesTyped, ClockInTable DEF DaysTypeOK
<1>2. d \in DueToday <=> at <= midnight - 1 - here
  BY DEF DueToday, EndOfToday
<1>3. Date(at) = (at + there) \div Day /\ Today = (now + here) \div Day
  BY DEF Date, Today
<1>4. midnight \in Nat /\ midnight = Today * Day + Day
  BY <1>1, OneMore, DayAssumption, SMT
<1> HIDE DEF at, here, there
<1>5. now + here < midnight /\ midnight <= now + here + Day
  <2>1. now + here \in Int
    BY <1>1
  <2>2. Day * Today <= now + here /\ now + here < Day * Today + Day
    BY <1>3, <2>1, DayAssumption, DivBounds
  <2>3. Day * Today = Today * Day /\ Today * Day \in Int
    BY <1>1, DayAssumption, SMT
  <2> DEFINE begun == Today * Day
  <2>4. /\ begun \in Int /\ begun <= now + here /\ now + here < begun + Day
        /\ midnight = begun + Day
    BY <1>4, <2>2, <2>3
  <2> HIDE DEF midnight, begun
  <2>5. QED
    BY <1>1, <2>4, DayAssumption, SMT
<1>6. Date(at) <= Today <=> at + there < midnight
  BY <1>1, <1>3, DayAssumption, DivAtMost
<1> HIDE DEF midnight
<1>7. d \in DueToday <=> at + here < midnight
  BY <1>1, <1>2, <1>4, SMT
<1>8. /\ at <= now => d \in DueToday
      /\ d \in DueToday => at < now + Day
  BY <1>1, <1>4, <1>5, <1>7, DayAssumption, SMT
<1>9. \/ d \in DueToday <=> Date(at) <= Today
      \/ Apart(at + there, midnight) <= Apart(here, there)
  BY <1>1, <1>4, <1>6, <1>7, BetweenOffsets
<1>10. QED
  BY <1>8, <1>9 DEF at, here, there, midnight

-----------------------------------------------------------------------------
Inv == PlanInv /\ DaysTypeOK /\ Diary

LEMMA InitInv == Init => Inv
<1> SUFFICES ASSUME Init PROVE Inv
  OBVIOUS
<1>1. DaysTypeOK
  <2>1. now \in 0..MaxTime /\ run \in Nat /\ last \in Nat
    BY BoundsAssumption, SMT DEF Init
  <2>2. answered \in [Decks -> SUBSET (0..MaxTime)] /\ due \in [Decks -> Instants \cup {Never}]
    BY Zenon DEF Init
  <2>3. QED
    BY <2>1, <2>2, ZonesAssumption DEF Init, DaysTypeOK
<1>2. Diary
  BY DEF Init, Diary, Dates, Answers
<1>3. PlanInv
  BY SMT DEF Init, PlanInit, NoPlan, PlanInv, PlanTypeOK, OnTarget, DaysWithinBudget,
             ReviewsEarned, Entries
<1>4. QED
  BY <1>1, <1>2, <1>3 DEF Inv

LEMMA StepInv == Inv /\ [Next]_vars => Inv'
<1> SUFFICES ASSUME Inv, [Next]_vars PROVE Inv'
  OBVIOUS
<1>1. [PlanNext]_plan
  <2>1. CASE Planning
    BY <2>1 DEF Planning, PlanNext
  <2>2. ASSUME NEW d \in Decks, AskPlanNow(d)
        PROVE  PlanNext
    BY <2>2 DEF AskPlanNow, PlanNext
  <2>3. CASE Free \/ UNCHANGED vars
    BY <2>3 DEF Free, vars
  <2>4. QED
    BY <2>1, <2>2, <2>3 DEF Next, Tick, Study, Review, MoveTo, DeleteDeck
<1>2. QED
  BY <1>1, PlanStepKeeps, DaysTyped, DiaryKept DEF Inv

(* The invariant of plans and days.                                         *)
LEMMA Invariance == Spec => []Inv
  BY InitInv, StepInv, PTL DEF Spec

(* Whatever cards, days and minutes are asked for, a plan covers the deck   *)
(* if full days can, keeps to the time of each day, and reviews only what   *)
(* earlier days have introduced (services/plan.py, generate_schedule).      *)
THEOREM PlansFit == Spec => []PlanFits
<1>1. Inv => PlanFits
  BY PlanInvFits DEF Inv
<1>2. QED
  BY <1>1, Invariance, PTL

(* In any zone, with days of any length, the streak computed from the       *)
(* instants of all answers is that of a diary kept day by day, as long as   *)
(* no answer is deleted and no date moves (services/progress.py).           *)
THEOREM StreakAlwaysOfDiary == Spec => []StreakOfDiary
<1>1. Inv => StreakOfDiary
  BY DiaryIsStreak DEF Inv
<1>2. QED
  BY <1>1, Invariance, PTL

(* For any zones and offsets, wherever the user moves and whatever the      *)
(* clocks do: a card that is due already is counted as due today, none that *)
(* is due a whole day from now is, and in between the count follows the     *)
(* dates but for cards due as near to midnight as the offsets of now and of *)
(* the due date are apart (services/progress.py, _end_of_today_utc).        *)
THEOREM DueTodayAlwaysByDate == Spec => []DueTodayByDate
<1>1. Inv => DueTodayByDate
  BY EndOfTodayRight DEF Inv
<1>2. QED
  BY <1>1, Invariance, PTL

-----------------------------------------------------------------------------
(***************************************************************************)
(* The days a card comes back on: SpacedRepetition, for any horizon and    *)
(* any bound on the ease.  No sequence of scores, however long, breaks the *)
(* schedule.                                                               *)
(*                                                                         *)
(* The inductive invariant is its type and IntervalEarned: that an         *)
(* interval grows needs the ease to be at least 130 and the interval to be *)
(* at least one day, and the latter is known from the number of            *)
(* repetitions.                                                            *)
(***************************************************************************)
MemoryInv == MemoryTypeOK /\ IntervalEarned

-----------------------------------------------------------------------------
(* What each score does to the ease, in hundredths.                         *)
LEMMA EaseDeltas ==
  /\ EaseDelta(0) = -80 /\ EaseDelta(1) = -54 /\ EaseDelta(2) = -32
  /\ EaseDelta(3) = -14 /\ EaseDelta(4) = 0 /\ EaseDelta(5) = 10
  BY DEF EaseDelta

(* The new ease is a number, and the lower bound is respected.              *)
LEMMA NewEaseBounded ==
  ASSUME MemoryTypeOK, NEW score \in 0..5
  PROVE  NewEase(score) \in Nat /\ NewEase(score) >= MinEase
  <1>1. EaseDelta(score) \in Int
    BY DEF EaseDelta
  <1> QED BY <1>1 DEF NewEase, MemoryTypeOK, MinEase

(* Multiplication is monotonic.                                             *)
LEMMA Product ==
  ASSUME NEW i \in Nat, NEW a \in Nat, NEW b \in Nat, a <= b
  PROVE  i * a \in Nat /\ i * a <= i * b
  OBVIOUS

(* Rounding up preserves the order of products.                             *)
LEMMA CeilMonotonic ==
  ASSUME NEW x \in Nat, NEW y \in Nat, x <= y
  PROVE  Ceil(x) \in Nat /\ Ceil(x) <= Ceil(y)
  BY DEF Ceil

(* An ease of at least 1.3 lengthens every interval of a day or more.       *)
LEMMA Lengthens ==
  ASSUME NEW i \in Nat, i >= 1, NEW e \in Nat, e >= MinEase
  PROVE  Ceil(i * e) \in Nat /\ Ceil(i * e) > i
  <1>1. i * 130 \in Nat /\ i * e \in Nat /\ i * 130 <= i * e
    BY Product DEF MinEase
  <1>2. Ceil(i * 130) > i
    BY DEF Ceil
  <1> QED BY <1>1, <1>2, CeilMonotonic

(* What a correct answer makes of the interval.                             *)
LEMMA CorrectLengthens ==
  ASSUME MemoryInv, NEW score \in 0..5, Correct(score)
  PROVE  /\ interval' \in Nat
         /\ repetitions = 0 => interval' = 1
         /\ repetitions = 1 => interval' = 6
         /\ repetitions > 1 => interval' > interval
  <1>1. NewEase(score) \in Nat /\ NewEase(score) >= MinEase
    BY NewEaseBounded DEF MemoryInv
  <1>2. PICK extra \in {0, 1} : /\ extra = 1 => RoundedUp(score)
                                /\ interval' = CorrectInterval(score) + extra
    BY DEF Correct, NextInterval, PassingScore
  <1>3. repetitions \in Nat /\ interval \in Nat
    BY DEF MemoryInv, MemoryTypeOK
  <1>4. CASE repetitions \in {0, 1}
    BY <1>2, <1>4 DEF RoundedUp, CorrectInterval
  <1>5. CASE repetitions > 1
    <2>1. interval >= 1
      BY <1>3, <1>5 DEF MemoryInv, IntervalEarned
    <2>2. CorrectInterval(score) = Ceil(interval * NewEase(score))
      BY <1>3, <1>5 DEF CorrectInterval
    <2> QED BY <1>1, <1>2, <1>3, <1>5, <2>1, <2>2, Lengthens
  <1> QED BY <1>3, <1>4, <1>5

-----------------------------------------------------------------------------
(* No answer breaks the types or the schedule.                              *)
LEMMA MemoryInvStep == MemoryInv /\ [MemoryNext]_memory => MemoryInv'
  <1> SUFFICES ASSUME MemoryInv, [MemoryNext]_memory PROVE MemoryInv'
    OBVIOUS
  <1>1. ASSUME NEW score \in Scores, Incorrect(score) PROVE MemoryInv'
    <2>1. ease' \in Nat /\ ease' >= MinEase
      BY <1>1, ScoresAssumption, NewEaseBounded DEF MemoryInv, Incorrect
    <2>2. interval' \in 0..LongestInterval
      BY <1>1, HorizonAssumption DEF Incorrect
    <2> QED BY <1>1, <2>1, <2>2 DEF MemoryInv, MemoryTypeOK, IntervalEarned, Incorrect
  <1>2. ASSUME NEW score \in Scores, Correct(score) PROVE MemoryInv'
    <2>1. ease' \in Nat /\ ease' >= MinEase
      BY <1>2, ScoresAssumption, NewEaseBounded DEF MemoryInv, Correct
    <2>2. /\ interval' \in Nat /\ interval' <= LongestInterval
          /\ repetitions = 0 => interval' = 1
          /\ repetitions = 1 => interval' = 6
          /\ repetitions > 1 => interval' > interval
      BY <1>2, ScoresAssumption, CorrectLengthens DEF Correct
    <2>3. interval' \in 0..LongestInterval
      BY <2>2, HorizonAssumption
    <2>4. repetitions \in Nat /\ repetitions' = repetitions + 1 /\ streak' = repetitions'
      BY <1>2 DEF MemoryInv, MemoryTypeOK, Correct
    <2>5. IntervalEarned'
      BY <2>2, <2>4 DEF MemoryInv, MemoryTypeOK, IntervalEarned
    <2> QED BY <2>1, <2>3, <2>4, <2>5 DEF MemoryInv, MemoryTypeOK
  <1>3. CASE UNCHANGED memory
    BY <1>3 DEF MemoryInv, MemoryTypeOK, IntervalEarned, memory
  <1> QED BY <1>1, <1>2, <1>3 DEF MemoryNext, BeyondHorizon

(* The inductive invariant holds after every sequence of answers.           *)
LEMMA MemoryInvHolds == MemorySpec => []MemoryInv
  <1>1. MemoryInit => MemoryInv
    BY HorizonAssumption
    DEF MemoryInit, MemoryInv, MemoryTypeOK, IntervalEarned, DefaultEase, MinEase
  <1> QED BY <1>1, MemoryInvStep, PTL DEF MemorySpec

(* After any sequence of answers the ease is at least its minimum and the   *)
(* interval is one a due date exists for.                                   *)
THEOREM MemoryTypeCorrect == MemorySpec => []MemoryTypeOK
  <1>1. MemoryInv => MemoryTypeOK
    BY DEF MemoryInv
  <1> QED BY <1>1, MemoryInvHolds, PTL

(* After any sequence of answers the interval is the one its run of correct *)
(* answers has earned: a lapse always costs the whole schedule.             *)
THEOREM IntervalAlwaysEarned == MemorySpec => []IntervalEarned
  <1>1. MemoryInv => IntervalEarned
    BY DEF MemoryInv
  <1> QED BY <1>1, MemoryInvHolds, PTL

(* Whatever the answers were, each further correct one lengthens the        *)
(* interval.                                                                *)
THEOREM IntervalAlwaysGrows == MemorySpec => IntervalGrows
  <1>1. MemoryInv /\ [MemoryNext]_memory
          => [repetitions' > repetitions /\ repetitions > 0 => interval' > interval]_memory
    <2> SUFFICES ASSUME MemoryInv, NEW score \in Scores, repetitions' > repetitions,
                        repetitions > 0,
                        Incorrect(score) \/ Correct(score) \/ BeyondHorizon(score)
                 PROVE  interval' > interval
      BY DEF MemoryNext
    <2>1. repetitions \in Nat /\ interval \in Nat
      BY DEF MemoryInv, MemoryTypeOK
    <2>2. Correct(score)
      BY <2>1 DEF Incorrect, BeyondHorizon, memory
    <2>3. repetitions = 1 => interval = 1
      BY DEF MemoryInv, IntervalEarned
    <2> QED BY <2>1, <2>2, <2>3, ScoresAssumption, CorrectLengthens
  <1> QED BY <1>1, MemoryInvHolds, PTL DEF MemorySpec, IntervalGrows

-----------------------------------------------------------------------------
(* In every reachable state a better answer gives a card at least the ease  *)
(* and the interval a worse one would.                                      *)
THEOREM BetterAnswersLater == MemorySpec => []BetterIsLater
  <1>1. ASSUME MemoryInv, NEW s \in 0..5, NEW t \in 0..5, s <= t
        PROVE  NextInterval(s) <= NextInterval(t) /\ NewEase(s) <= NewEase(t)
    <2>1. ease \in Nat /\ interval \in Nat /\ repetitions \in Nat
      BY <1>1, HorizonAssumption DEF MemoryInv, MemoryTypeOK
    <2>2. EaseDelta(s) \in Int /\ EaseDelta(t) \in Int /\ EaseDelta(s) <= EaseDelta(t)
      BY <1>1, EaseDeltas
    <2>3. NewEase(s) <= NewEase(t)
      BY <2>1, <2>2 DEF NewEase, MinEase
    <2>4. /\ NewEase(s) \in Nat /\ NewEase(s) >= MinEase
          /\ NewEase(t) \in Nat /\ NewEase(t) >= MinEase
      BY <1>1, NewEaseBounded DEF MemoryInv
    <2>5. repetitions > 1 =>
            /\ Ceil(interval * NewEase(s)) <= Ceil(interval * NewEase(t))
            /\ Ceil(interval * NewEase(t)) > 1
      <3> SUFFICES ASSUME repetitions > 1
                   PROVE  /\ Ceil(interval * NewEase(s)) <= Ceil(interval * NewEase(t))
                          /\ Ceil(interval * NewEase(t)) > 1
        OBVIOUS
      <3>1. interval >= 1
        BY <1>1, <2>1 DEF MemoryInv, IntervalEarned
      <3>2. /\ interval * NewEase(s) \in Nat /\ interval * NewEase(t) \in Nat
            /\ interval * NewEase(s) <= interval * NewEase(t)
        BY <2>1, <2>3, <2>4, Product
      <3>3. Ceil(interval * NewEase(t)) \in Nat /\ Ceil(interval * NewEase(t)) > interval
        BY <2>1, <2>4, <3>1, Lengthens
      <3> QED BY <2>1, <3>1, <3>2, <3>3, CeilMonotonic
    <2>6. repetitions = 0 \/ repetitions = 1 \/ repetitions > 1
      BY <2>1
    <2>7. CorrectInterval(s) <= CorrectInterval(t) /\ CorrectInterval(t) >= 1
      <3>1. CASE repetitions \in {0, 1}
        BY <3>1 DEF CorrectInterval
      <3>2. CASE repetitions > 1
        BY <2>1, <2>4, <2>5, <3>2, Product, CeilMonotonic DEF CorrectInterval
      <3> QED BY <2>6, <3>1, <3>2
    <2> QED BY <1>1, <2>3, <2>7 DEF NextInterval, PassingScore
  <1>2. MemoryInv => BetterIsLater
    BY <1>1 DEF BetterIsLater
  <1> QED BY <1>2, MemoryInvHolds, PTL
=============================================================================
