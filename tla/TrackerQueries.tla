--------------------------- MODULE TrackerQueries ---------------------------
(***************************************************************************)
(* The queries of core/tracker.py that read the stores more than once, and *)
(* next_question of web/routers/practice.py, which makes two queries of    *)
(* one date.  Every store call is a step, and the writes of Tracker fall   *)
(* between them.  One query is followed at a time: queries change nothing, *)
(* so no other query can make a difference to it.                          *)
(***************************************************************************)
EXTENDS Tracker

VARIABLES
  query,         \* the query under way: its store calls, and their answers
  since          \* history: what the profile held since the query began

queriesVars == <<vars, query, since>>

(* What each profile holds at this moment. *)
Moment == [p \in Profile |->
             [attempts |-> {a \in log : a.profile_id = p}, catalog |-> Listed(p)]]

QueriesInit == Init /\ query = None /\ since = {}

(* since grows with every moment, from the one at which the query begins. *)
Remember == since' = IF query' = None THEN {} ELSE since \cup {Moment'[query'.profile_id]}

-----------------------------------------------------------------------------
(* The store calls of the queries, in their order.                         *)

Reading == [read : {"get_objective", "list_for_objective", "list_all", "list_objectives"},
            until : Time \cup {None}]

Plain(read) == [read |-> read, until |-> None]
Until(read, as_of) == [read |-> read, until |-> as_of]

CompareReads(earlier, later) ==
  <<Plain("get_objective"), Until("list_for_objective", earlier),
    Plain("get_objective"), Until("list_for_objective", later)>>

TimelineReads(start, end, step) ==
  <<Plain("get_objective")>>
    \o [i \in 1..((end - start) \div step + 1) |->
          Until("list_for_objective", start + step * (i - 1))]

(* Mutant: _all_states is not given the list that the total is taken from. *)
AllStatesReadsApart(as_of) ==
  <<Until("list_all", as_of), Until("list_all", as_of), Plain("list_objectives")>>

(* get_all_states, and with it get_due, get_unstarted, get_summary. *)
AllStatesReads(as_of) == <<Until("list_all", as_of), Plain("list_objectives")>>

NextReads(moment) == AllStatesReads(moment) \o AllStatesReads(moment)

Asks(name, p, o, reads) ==
  /\ query = None
  /\ query' = [name |-> name, profile_id |-> p, objective_id |-> o, reads |-> reads, got |-> <<>>]
  /\ UNCHANGED vars

(* InvalidRangeError unless earlier <= later; unless start <= end, 0 < step *)
AskComparison(p, o, earlier, later) ==
  earlier <= later /\ Asks("compare_states", p, o, CompareReads(earlier, later))

AskTimeline(p, o, start, end, step) ==
  start <= end /\ Asks("get_timeline", p, o, TimelineReads(start, end, step))

AskSummary(p, as_of) == Asks("get_summary", p, None, AllStatesReads(as_of))

AskNext(p) == Asks("next_question", p, None, NextReads(now))

(* A store call of the query is answered. *)
Answered(read, answer) ==
  /\ query # None /\ Len(query.got) < Len(query.reads)
  /\ query.reads[Len(query.got) + 1].read = read
  /\ query' = [query EXCEPT !.got = Append(@, answer)]
  /\ UNCHANGED vars

GetObjective ==
  /\ query # None /\ query.objective_id \in Listed(query.profile_id)
  /\ Answered("get_objective", {})

ListForObjective ==
  /\ query # None /\ Len(query.got) < Len(query.reads)
  /\ Answered("list_for_objective",
              InForce(History(query.profile_id, query.objective_id),
                      query.reads[Len(query.got) + 1].until))

ListAll ==
  /\ query # None /\ Len(query.got) < Len(query.reads)
  /\ Answered("list_all", InForce(Moment[query.profile_id].attempts,
                                  query.reads[Len(query.got) + 1].until))

ListObjectives ==
  /\ query # None /\ objectives[query.profile_id] # None
  /\ Answered("list_objectives", Listed(query.profile_id))

(* It returns, or one of its store calls raises. *)
Ends == query # None /\ query' = None /\ UNCHANGED vars

(* A query that has all its answers returns: its result is made of them. *)
Reads == query # None => Len(query.got) < Len(query.reads)

QueriesNext ==
  /\ \/ Reads /\ Next /\ UNCHANGED query
     \/ \E p \in Profile, o \in Objective, i, j \in Time :
          \/ AskComparison(p, o, i, j)
          \/ \E step \in Steps : AskTimeline(p, o, i, j, step)
     \/ \E p \in Profile, as_of \in Time : AskSummary(p, as_of)
     \/ \E p \in Profile : AskNext(p)
     \/ GetObjective \/ ListForObjective \/ ListAll \/ ListObjectives
     \/ Ends
  /\ Remember

QueriesSpec == QueriesInit /\ [][QueriesNext]_queriesVars

-----------------------------------------------------------------------------
(* What the query makes of the answers.                                    *)

(* The state that compute_state derives from the k-th answer. *)
StateRead(k) == ComputeState(query.got[k], query.reads[k].until)

(* Mutant: the two states change places. *)
CompareStatesSwapped ==
  [improved  |-> StateRead(2).score > StateRead(4).score,
   regressed |-> StateRead(2).score < StateRead(4).score]

CompareStates ==
  LET score_delta == StateRead(4).score - StateRead(2).score
  IN  [improved |-> score_delta > 0, regressed |-> score_delta < 0]

GetTimeline == [i \in 1..(Len(query.reads) - 1) |-> StateRead(i + 1)]

(* The attempts are grouped by objective, and each group computed. *)
StateIn(listed, o, as_of) == ComputeState({a \in listed : a.objective_id = o}, as_of)

AllStates(listed, catalog, as_of) ==
  {[state |-> StateIn(listed, o, as_of), objective_id |-> o] : o \in catalog}

MoreUrgent(s, r) ==
  \/ s.next_review_at < r.next_review_at
  \/ s.next_review_at = r.next_review_at /\ s.score < r.score
  \/ s.next_review_at = r.next_review_at /\ s.score = r.score /\ s.objective_id < r.objective_id

GetDue(listed, catalog, as_of) ==
  ByRank({[next_review_at |-> s.state.next_review_at, score |-> s.state.score,
           objective_id |-> s.objective_id] :
             s \in {q \in AllStates(listed, catalog, as_of) : q.state.is_due}},
         MoreUrgent)

GetUnstarted(listed, catalog, as_of) ==
  {s.objective_id : s \in {q \in AllStates(listed, catalog, as_of) : q.state.total_attempts = 0}}

(* Mutant: what is unstarted is asked before what is due. *)
NextQuestionUnstartedFirst ==
  LET moment == query.reads[1].until
  IN  [due       |-> GetDue(query.got[3], query.got[4], moment),
       unstarted |-> GetUnstarted(query.got[1], query.got[2], moment)]

(* next_question offers what is due, in its order, and then what is unstarted. *)
NextQuestion ==
  LET moment == query.reads[1].until
  IN  [due       |-> GetDue(query.got[1], query.got[2], moment),
       unstarted |-> GetUnstarted(query.got[3], query.got[4], moment)]

(* The total is of the one list of attempts that the states are made from, *)
(* which is the one before the catalog.                                     *)
GetSummary ==
  LET n      == Len(query.got)
      states == AllStates(query.got[n - 1], query.got[n], query.reads[n - 1].until)
      total  == Cardinality(states)
  IN  [total_objectives     |-> total,
       assessed_objectives  |-> total - Cardinality({s \in states : s.state.level = UNASSESSED}),
       unstarted_objectives |-> Cardinality({s \in states : s.state.total_attempts = 0}),
       due_objectives       |-> Cardinality({s \in states : s.state.is_due}),
       total_attempts       |-> Cardinality(query.got[1])]

-----------------------------------------------------------------------------
(* What a query promises although the stores are written to while it reads. *)

Has(name) == query # None /\ query.name = name /\ Len(query.got) = Len(query.reads)

QueriesTypeOK ==
  /\ TypeOK
  /\ query # None =>
       query \in [name : {"compare_states", "get_timeline", "get_summary", "next_question"},
                  profile_id : Profile, objective_id : Objective \cup {None},
                  reads : Seq(Reading), got : Seq((SUBSET Attempt) \cup (SUBSET Objective))]
  /\ since \subseteq [attempts : SUBSET Attempt, catalog : SUBSET Objective]

(* An attempt of the objective stored after the query began. *)
Meanwhile(a) == \E m \in since : a \notin m.attempts

(* SPEC 5.1 and 5.3: an objective is better at a later date only if it was  *)
(* answered between the two dates, although an answer also renews the       *)
(* memory of older ones; or an answer of an earlier date was recorded while *)
(* compare_states or get_timeline was reading the one date and the other.   *)
EarnedBetween(i, j) ==
  \E a \in History(query.profile_id, query.objective_id) :
    a.at <= j /\ (i < a.at \/ Meanwhile(a))

ImprovementIsEarned ==
  /\ Has("compare_states") /\ CompareStates.improved =>
       EarnedBetween(query.reads[2].until, query.reads[4].until)
  /\ Has("get_timeline") =>
       \A i, j \in DOMAIN GetTimeline :
         i < j /\ GetTimeline[j].score > GetTimeline[i].score =>
           EarnedBetween(GetTimeline[i].as_of, GetTimeline[j].as_of)

(* SPEC 5.2 and C5: next_question offers no objective twice, although it    *)
(* may be answered between the two queries.  One that was listed all along  *)
(* and is not offered has its review ahead, after an answer more recent     *)
(* than the longest interval, or had its first answer between the queries.  *)
NothingDropsOut ==
  Has("next_question") =>
    LET moment      == query.reads[1].until
        about(m, o) == {a \in m.attempts : a.objective_id = o /\ a.at <= moment}
        due         == {NextQuestion.due[i].objective_id : i \in DOMAIN NextQuestion.due}
        unstarted   == NextQuestion.unstarted
    IN  /\ due \cap unstarted = {}
        /\ \A o \in Objective :
             (\A m \in since : o \in m.catalog) =>
               \/ o \in due \cup unstarted
               \/ \E m \in since :
                    /\ \E a \in about(m, o) : a.at + TicksPerDay * MaxInterval > moment
                    /\ ComputeState(about(m, o), moment).next_review_at > moment
               \/ \E m, n \in since : about(m, o) = {} /\ about(n, o) # {}

(* SPEC 9.4 and I5: the counts of a summary are those of the attempts of    *)
(* one moment over the catalog of one moment, perhaps a later one: attempts *)
(* of objectives dropped by a save stay in the total, and no attempt that   *)
(* arrives while it is reading is counted in one figure and not in another. *)
SummaryAddsUp ==
  Has("get_summary") =>
    \E m, n \in since :
      LET as_of     == query.reads[1].until
          counted   == {a \in m.attempts : a.at <= as_of}
          state(o)  == ComputeState({a \in counted : a.objective_id = o}, as_of)
          orphans   == {a \in counted : a.objective_id \notin n.catalog}
          summary   == GetSummary
      IN  /\ summary.total_attempts = Cardinality(counted)
          /\ Cardinality(counted) = Cardinality(orphans)
               + MapThenSumSet(LAMBDA o : state(o).total_attempts, n.catalog)
          /\ summary.total_objectives = Cardinality(n.catalog)
          /\ summary.due_objectives = Cardinality({o \in n.catalog : state(o).is_due})
          /\ summary.unstarted_objectives =
               Cardinality({o \in n.catalog : \A a \in counted : a.objective_id # o})
          /\ summary.assessed_objectives =
               Cardinality({o \in n.catalog : state(o).total_attempts >= MinAttempts})
=============================================================================
