------------------------------ MODULE Leveling ------------------------------
(***************************************************************************)
(* The pure computation of the engine: core/leveling.py and                *)
(* core/scheduling.py.  A set of attempts and a cut date go in, the state  *)
(* of the objective comes out.  Nothing is stored.                         *)
(*                                                                         *)
(* Time is a number of ticks, TicksPerDay of them to a (UTC) calendar day. *)
(* Scores and thresholds are integers in units of 1/Scale, so rounding to  *)
(* SCORE_PRECISION decimals is rounding to an integer.  The exponential    *)
(* 0.5 ** (gap / half-life) is the CONSTANT operator Retention, of which   *)
(* only what RetentionAssumption states is used.                           *)
(*                                                                         *)
(* An attempt is a record [attempt_id, at, correct, ...].                  *)
(***************************************************************************)
EXTENDS Integers, FiniteSets, Sequences, FiniteSetsExt

CONSTANTS
  Horizon,            \* the last instant considered; dates are 0..Horizon
  TicksPerDay,        \* clock ticks in a calendar day
  Scale,              \* the integer that stands for a score of 1.0
  Window,             \* WINDOW
  MinAttempts,        \* MIN_ATTEMPTS
  Learning,           \* THRESHOLD_LEARNING
  Competent,          \* THRESHOLD_COMPETENT
  MasteryMinRaw,      \* MASTERY_MIN_RAW
  MasteryMinDays,     \* MASTERY_MIN_DAYS
  MasteryMinSpan,     \* MASTERY_MIN_SPAN_DAYS
  Schedule,           \* SCHEDULE_DAYS, the ladder of review intervals
  Multiplier,         \* MASTERY_INTERVAL_MULTIPLIER
  MaxInterval,        \* MAX_INTERVAL_DAYS
  RetentionFloor,     \* RETENTION_FLOOR
  Retention(_),       \* the decay factor after a gap of so many ticks
  None                \* Python's None

ASSUME CountAssumption ==
  /\ TicksPerDay \in Nat \ {0} /\ Scale \in Nat \ {0}
  /\ Window \in Nat \ {0}      /\ MinAttempts \in Nat \ {0}
  /\ MasteryMinDays \in Nat    /\ MasteryMinSpan \in Nat

ASSUME ThresholdAssumption ==
  /\ Learning \in 0..Scale /\ Competent \in Learning..Scale
  /\ MasteryMinRaw \in 0..Scale

\* A rung of the ladder never exceeds the ceiling, so multiplying by at least
\* one and capping never shortens an interval.
ASSUME ScheduleAssumption ==
  /\ Schedule \in Seq(Nat \ {0}) /\ Len(Schedule) > 0
  /\ MaxInterval \in Nat /\ Multiplier \in Nat \ {0}
  /\ \A i \in 1..Len(Schedule) : Schedule[i] <= MaxInterval

\* Between the floor and 1, and longer gaps are never remembered better.
ASSUME RetentionAssumption ==
  /\ Horizon \in Nat
  /\ RetentionFloor \in 0..Scale
  /\ \A g \in 1..Horizon : Retention(g) \in RetentionFloor..Scale
  /\ \A g, h \in 1..Horizon : g <= h => Retention(h) <= Retention(g)

ASSUME NoneAssumption == None \notin Int

-----------------------------------------------------------------------------
Time == 0..Horizon

(* The levels are ordered, as the IntEnum of core/models.py is. *)
UNASSESSED == 0
WEAK == 1
LEARNING == 2
COMPETENT == 3
MASTERED == 4
Level == UNASSESSED..MASTERED

(* The sorted list of a set: the i-th element has i - 1 before it.  SubSeq  *)
(* of the whole only makes TLC evaluate each element once.                  *)
ByRank(S, Less(_, _)) ==
  SubSeq([i \in 1..Cardinality(S) |->
            CHOOSE x \in S : Cardinality({y \in S : Less(y, x)}) = i - 1],
         1, Cardinality(S))

(* order_attempts: by date, ties broken by id, never by order of arrival. *)
Before(a, b) ==
  \/ a.at < b.at
  \/ a.at = b.at /\ a.attempt_id < b.attempt_id

OrderAttempts(attempts) == ByRank(attempts, Before)

(* The attempts that count at a date, and their order. *)
InForce(attempts, as_of) == {a \in attempts : a.at <= as_of}

AttemptsUntil(attempts, as_of) == OrderAttempts(InForce(attempts, as_of))

(* Mutant: the window keeps the oldest attempts. *)
OldestWindow(ordered) ==
  SubSeq([i \in DOMAIN ordered |-> ordered[i].correct], 1, Min({Window, Len(ordered)}))

RecentWindow(ordered) ==
  LET skipped == Max({0, Len(ordered) - Window})
  IN  SubSeq([i \in DOMAIN ordered |-> ordered[i].correct], skipped + 1, Len(ordered))

(* Mutant: the weights run the wrong way. *)
HitWeightReversed(window) == SumSet({Len(window) + 1 - i : i \in {j \in DOMAIN window : window[j]}})

(* The raw score is a fraction: positions of the hits over all positions. *)
HitWeight(window) == SumSet({i \in DOMAIN window : window[i]})

TotalWeight(window) == (Len(window) * (Len(window) + 1)) \div 2

AtLeast(window, threshold) ==
  Len(window) > 0 /\ HitWeight(window) * Scale >= threshold * TotalWeight(window)

(* Mutant: the sign of the exponent is lost, memory grows with the gap. *)
RetentionGrowing(last_at, as_of) ==
  IF as_of <= last_at THEN Scale ELSE 2 * Scale - Retention(as_of - last_at)

RetentionFactor(last_at, as_of) ==
  IF as_of <= last_at THEN Scale ELSE Retention(as_of - last_at)

(* round(raw * retention, SCORE_PRECISION), half way cases upwards. *)
Rounded(hit, total, retention) == (2 * hit * retention + total) \div (2 * total)

ScoreOf(ordered, as_of) ==
  LET window == RecentWindow(ordered)
  IN  IF Len(ordered) < MinAttempts
        THEN 0
        ELSE Rounded(HitWeight(window), TotalWeight(window),
                     RetentionFactor(ordered[Len(ordered)].at, as_of))

Day(at) == at \div TicksPerDay

DistinctAttemptDays(ordered) ==
  Cardinality({Day(ordered[i].at) : i \in DOMAIN ordered})

IsSustained(ordered) ==
  /\ DistinctAttemptDays(ordered) >= MasteryMinDays
  /\ ordered[Len(ordered)].at - ordered[1].at >= MasteryMinSpan * TicksPerDay
  /\ AtLeast(RecentWindow(ordered), MasteryMinRaw)

LevelOf(score, ordered) ==
  CASE Len(ordered) < MinAttempts -> UNASSESSED
    [] Len(ordered) >= MinAttempts /\ score < Learning -> WEAK
    [] Len(ordered) >= MinAttempts /\ score \in Learning..(Competent - 1) -> LEARNING
    [] Len(ordered) >= MinAttempts /\ score >= Competent ->
         IF IsSustained(ordered) THEN MASTERED ELSE COMPETENT

-----------------------------------------------------------------------------
(* core/scheduling.py *)

TrailingSuccessRun(ordered) ==
  Len(ordered) - Max({0} \cup {i \in DOMAIN ordered : ~ordered[i].correct})

(* Mutant: every level but MASTERED has its interval stretched. *)
IntervalDaysSwapped(success_run, level) ==
  LET index == IF success_run = 0 THEN 1 ELSE Min({success_run, Len(Schedule)})
      days  == Schedule[index]
  IN  IF level = MASTERED THEN days ELSE Min({days * Multiplier, MaxInterval})

IntervalDays(success_run, level) ==
  LET index == IF success_run = 0 THEN 1 ELSE Min({success_run, Len(Schedule)})
      days  == Schedule[index]
  IN  IF level = MASTERED THEN Min({days * Multiplier, MaxInterval}) ELSE days

ComputeNextReview(ordered, level) ==
  IF Len(ordered) = 0
    THEN None
    ELSE ordered[Len(ordered)].at
           + TicksPerDay * IntervalDays(TrailingSuccessRun(ordered), level)

(* Mutant: not due on the date itself. *)
IsDueAfter(next_review_at, as_of) == next_review_at # None /\ next_review_at < as_of

IsDue(next_review_at, as_of) == next_review_at # None /\ next_review_at <= as_of

-----------------------------------------------------------------------------
(* compute_state: every field is derived from the attempts and the date. *)

StateOf(ordered, as_of) ==
  LET score == ScoreOf(ordered, as_of)
      level == LevelOf(score, ordered)
      next  == ComputeNextReview(ordered, level)
      total == Len(ordered)
  IN  [as_of            |-> as_of,
       level            |-> level,
       score            |-> score,
       total_attempts   |-> total,
       correct_attempts |-> Cardinality({i \in 1..total : ordered[i].correct}),
       recent_window    |-> RecentWindow(ordered),
       last_attempt_at  |-> IF total = 0 THEN None ELSE ordered[total].at,
       next_review_at   |-> next,
       is_due           |-> IsDue(next, as_of)]

ComputeState(attempts, as_of) == StateOf(AttemptsUntil(attempts, as_of), as_of)
=============================================================================
