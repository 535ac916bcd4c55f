-------------------------- MODULE SpacedRepetition --------------------------
(***************************************************************************)
(* The memory state of one card and what a sequence of answers makes of it *)
(* (update_memory_state_after_answer in services/spaced_repetition.py).    *)
(*                                                                         *)
(* The ease factor is kept in hundredths: every change is a multiple of    *)
(* 0.01, so the model is exact where the code has floats.  The float shows *)
(* in one place: a product that should be a whole number of days may come  *)
(* out just above it, and math.ceil then adds a day.                       *)
(***************************************************************************)
EXTENDS Integers

CONSTANTS Scores,          \* the scores that are submitted
          LongestInterval, \* days until datetime.max, the last due_at there is
          MaxEase          \* bound: no answer that raises the ease above this

ASSUME ScoresAssumption == Scores \subseteq 0..5
ASSUME HorizonAssumption == LongestInterval \in Nat \ {0} /\ MaxEase \in Nat

DefaultEase == 250
MinEase == 130
PassingScore == 3

VARIABLES ease, repetitions, interval, streak

memory == <<ease, repetitions, interval, streak>>

(* get_or_create_memory_state.                                              *)
MemoryInit == ease = DefaultEase /\ repetitions = 0 /\ interval = 0 /\ streak = 0

(* MUTANT of EaseDelta: the penalty is added.                               *)
EaseDeltaAdded(score) == 10 + (5 - score) * (8 + (5 - score) * 2)

EaseDelta(score) == 10 - (5 - score) * (8 + (5 - score) * 2)

(* MUTANT of NewEase: no lower bound.                                       *)
NewEaseUnbounded(score) == ease + EaseDelta(score)

NewEase(score) ==
  IF ease + EaseDelta(score) < MinEase THEN MinEase ELSE ease + EaseDelta(score)

Ceil(hundredths) == (hundredths + 99) \div 100

(* The interval of a correct answer: repetitions as before the answer, the  *)
(* ease as after it.                                                        *)
CorrectInterval(score) ==
  CASE repetitions = 0 -> 1
    [] repetitions = 1 -> 6
    [] OTHER -> Ceil(interval * NewEase(score))

NextInterval(score) == IF score < PassingScore THEN 1 ELSE CorrectInterval(score)

(* A float product just above a whole number.                               *)
RoundedUp(score) ==
  /\ score >= PassingScore /\ repetitions >= 2
  /\ interval * NewEase(score) % 100 = 0

Answerable(score) == score \in Scores /\ NewEase(score) <= MaxEase

(* MUTANT of Incorrect: the run of correct answers is not broken.           *)
IncorrectKeepsRepetitions(score) ==
  /\ Answerable(score) /\ score < PassingScore
  /\ ease' = NewEase(score)
  /\ interval' = 1 /\ streak' = 0
  /\ UNCHANGED repetitions

Incorrect(score) ==
  /\ Answerable(score) /\ score < PassingScore
  /\ ease' = NewEase(score)
  /\ repetitions' = 0 /\ interval' = 1 /\ streak' = 0

Correct(score) ==
  /\ Answerable(score) /\ score >= PassingScore
  /\ \E extra \in {0, 1} : /\ extra = 1 => RoundedUp(score)
                           /\ interval' = NextInterval(score) + extra
  /\ interval' <= LongestInterval
  /\ ease' = NewEase(score)
  /\ repetitions' = repetitions + 1 /\ streak' = streak + 1

(* now + timedelta raises OverflowError: the request fails with 500 and the *)
(* transaction is rolled back.                                              *)
BeyondHorizon(score) ==
  /\ Answerable(score) /\ score >= PassingScore
  /\ \E extra \in {0, 1} : /\ extra = 1 => RoundedUp(score)
                           /\ NextInterval(score) + extra > LongestInterval
  /\ UNCHANGED memory

MemoryNext == \E score \in Scores : Incorrect(score) \/ Correct(score) \/ BeyondHorizon(score)

MemorySpec == MemoryInit /\ [][MemoryNext]_memory

-----------------------------------------------------------------------------
(* The ease never falls below its minimum, the streak counts the same run   *)
(* of correct answers as repetitions does.                                  *)
MemoryTypeOK ==
  /\ ease \in Nat /\ ease >= MinEase
  /\ repetitions \in Nat /\ streak = repetitions
  /\ interval \in 0..LongestInterval

(* The schedule of a card is earned again from the start after every lapse: *)
(* one day, six days, and only the third correct answer in a row goes       *)
(* beyond.  No sequence of answers reaches another combination.             *)
IntervalEarned ==
  /\ repetitions = 0 => interval \in {0, 1}
  /\ repetitions = 1 => interval = 1
  /\ repetitions = 2 => interval = 6
  /\ repetitions > 2 => interval > 6

(* Each correct answer in a row, the first one apart, moves the card        *)
(* further into the future, however low its ease has fallen by then.        *)
IntervalGrows ==
  [][repetitions' > repetitions /\ repetitions > 0 => interval' > interval]_memory

(* In any state, a better answer never brings the card back sooner than a   *)
(* worse one would have, and leaves it no harder.                           *)
BetterIsLater ==
  \A s, t \in 0..5 : s <= t => /\ NextInterval(s) <= NextInterval(t)
                               /\ NewEase(s) <= NewEase(t)
=============================================================================
