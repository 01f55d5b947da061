-------------------------- MODULE ObjectiveHistory --------------------------
(***************************************************************************)
(* The history of one objective as a learner builds it: attempts are       *)
(* recorded, some of them late (SPEC C4), time passes, and the state is    *)
(* recomputed on every query (core/leveling.py, core/scheduling.py).       *)
(* Tracker models how an attempt reaches the history; here it is one step. *)
(***************************************************************************)
EXTENDS Clock

CONSTANTS
  Lateness,      \* how long before the clock's date an attempt may be dated
  MaxAnswers     \* bound on the attempts recorded

ASSUME InputAssumption == Lateness \subseteq Nat /\ MaxAnswers \in Nat

VARIABLE attempts   \* what list_for_objective returns, without a cut

historyVars == <<attempts, now>>

HistoryInit == attempts = {} /\ now = 0

(* record_attempt, of an attempt dated at. *)
Record(at, correct) ==
  /\ Cardinality(attempts) < MaxAnswers
  /\ attempts' = attempts \cup
       {[attempt_id |-> Cardinality(attempts) + 1, at |-> at, correct |-> correct]}
  /\ UNCHANGED now

Wait(step) == Advanced(step) /\ UNCHANGED attempts

HistoryNext ==
  \/ \E late \in Lateness, correct \in BOOLEAN :
       now - late >= 0 /\ Record(now - late, correct)
  \/ \E step \in Steps : Wait(step)

HistorySpec == HistoryInit /\ [][HistoryNext]_historyVars

(* The state as of any date, past or future. *)
State(as_of) == ComputeState(attempts, as_of)

-----------------------------------------------------------------------------
(* Two dates with the same attempts in force, one right after the other:    *)
(* what the learner sees changes only by forgetting.  Every longer stretch  *)
(* of time without attempts is made of such steps.                          *)
Waits == {t \in 0..(Horizon - 1) : InForce(attempts, t) = InForce(attempts, t + 1)}

(* SPEC 4: what is due stays due, however long the learner waits, until     *)
(* another attempt counts.  The interval is derived on every query and the  *)
(* level that stretches it decays meanwhile, so this is not immediate.      *)
DueUntilAnswered ==
  \A t \in Waits : State(t).is_due => State(t + 1).is_due

(* SPEC 3.2: time without attempts only lowers score and level, and never   *)
(* below the floor of retention.                                            *)
ForgettingOnlyLowers ==
  \A t \in Waits :
    LET before == State(t)
        after  == State(t + 1)
        window == after.recent_window
    IN  /\ after.score <= before.score
        /\ after.level <= before.level
        /\ after.total_attempts >= MinAttempts
             => after.score >= Rounded(HitWeight(window), TotalWeight(window), RetentionFloor)

(* Steps 3 and 4 of SPEC 2.2: a hit that is the latest attempt never lowers *)
(* the raw score and a miss never raises it, while the window grows and     *)
(* once it evicts.  Raw scores are compared as fractions.                   *)
LatestAnswerCounts ==
  \A a \in attempts :
    LET before == ComputeState(attempts \ {a}, Horizon).recent_window
        after  == State(Horizon).recent_window
        gained == HitWeight(after) * TotalWeight(before)
                    - HitWeight(before) * TotalWeight(after)
    IN  before # <<>> /\ (\A b \in attempts \ {a} : Before(b, a))
          => IF a.correct THEN gained >= 0 ELSE gained <= 0

(* SPEC 3.2, "nothing is irreversible": whatever the past, Window hits in a *)
(* row recover a perfect score, and MASTERED if the history is long enough. *)
FreshHits ==
  {[attempt_id |-> MaxAnswers + i, at |-> Horizon, correct |-> TRUE] : i \in 1..Window}

NothingIsIrreversible ==
  LET after == ComputeState(attempts \cup FreshHits, Horizon)
      span  == MasteryMinSpan * TicksPerDay
  IN  /\ after.score = Scale
      /\ (\E a \in attempts : Horizon - a.at >= span) => after.level = MASTERED

=============================================================================
