------------------------------ MODULE MCTracker ------------------------------
(* A small Tracker for TLC: two callers race in two profiles on two dates,   *)
(* and a query reads, call by call, while one of them goes on in one of the  *)
(* profiles.  Intervals are of one day, so that an answer lapses.            *)
EXTENDS TrackerQueries, TLC

CONSTANTS c1, c2, p1, p2

DailySchedule == <<1, 1>>
LinearRetention(gap) == Max({400, 1000 - 100 * gap})

(* A hit of the first date and a miss of the last. *)
HitAndMiss == {[at |-> 0, correct |-> TRUE], [at |-> 1, correct |-> FALSE]}
HitThenMiss == {<<TRUE, FALSE>>}

(* The bound on what goes on at once: the second profile has one objective,  *)
(* and the first then no more; a query is followed where only c1 and p1 are  *)
(* in use and every append was told of, and begins while c1 is between two   *)
(* calls.                                                                    *)
FewAtATime ==
  /\ \A o \in registered[p1], r \in registered[p2] : {o, r} = {1}
  /\ query # None =>
       /\ query.profile_id = p1 /\ objectives[p2] = None
       /\ call[c2] = Idle /\ log \subseteq returned[c1]
       /\ query.got = <<>> => call[c1] = Idle
=============================================================================
