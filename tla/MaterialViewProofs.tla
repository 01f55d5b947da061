------------------------- MODULE MaterialViewProofs -------------------------
(***************************************************************************)
(* Proofs about the material view, for any number of pages, requests and   *)
(* generations.  The argument: the tracker marks a material exactly while  *)
(* one promise for it is pending, so whatever else replaces its questions  *)
(* meanwhile, or after, is a generation that nobody waits for; and every   *)
(* write of the tracker repaints the article it is about.                  *)
(***************************************************************************)
EXTENDS MaterialView, WellFoundedInduction, TLAPS

Steps == {"unsent", "list", "model", "upsert", "replace", "insert", "ok", "error"}

Domains ==
  /\ step \in [Gen -> Steps]
  /\ material \in [Gen -> Material \cup {None}]
  /\ promise \in [Gen -> {"none", "pending", "settled", "abandoned"}]
  /\ DOMAIN tracker = Material /\ DOMAIN bank = Material
  /\ DOMAIN result = Gen /\ DOMAIN seen = Gen
  /\ \A m \in Material : \A b \in bank[m] : b.by \in Gen
  /\ shown # None => shown.material \in Material

Requests ==
  /\ pages \subseteq Material
  /\ wire \subseteq Request
  /\ \A q \in wire : q.kind = "detail" => q.material \in Material

(* A generation has a promise once it is sent, and a material with it; a    *)
(* promise that was settled has had the response.                           *)
PromisesAreOfSteps ==
  \A g \in Gen :
    /\ promise[g] = "none" <=> step[g] = "unsent"
    /\ step[g] # "unsent" => material[g] \in Material
    /\ promise[g] = "settled" => step[g] \in {"ok", "error"}

(* What the DELETE of a generation that is waited for has not found is of   *)
(* generations that nobody waits for: no other one runs meanwhile.          *)
MissesTheAbandoned ==
  \A g \in Gen :
    promise[g] = "pending" /\ step[g] = "insert" =>
      \A b \in bank[material[g]] : b \notin seen[g] => promise[b.by] = "abandoned"

(* What SummaryIsTrue will say when the response of g arrives               *)
ResponseIsTrue ==
  \A g \in Gen :
    promise[g] = "pending" /\ step[g] = "ok" =>
      Holds(material[g], g, Len(result[g].questions))

IInv ==
  /\ Domains
  /\ Requests
  /\ PromisesAreOfSteps
  /\ RunningIsPending
  /\ ArticleIsTrue
  /\ SummaryIsTrue
  /\ ResponseIsTrue
  /\ MissesTheAbandoned

-----------------------------------------------------------------------------
LEMMA TrackedStates ==
  /\ Untracked.state = "none" /\ Failure.state = "error"
  /\ \A g \in Gen : Running(g).state = "running" /\ Running(g).of = g
  /\ \A g, n : /\ Success(g, n).state = "ok" /\ Success(g, n).of = g
               /\ Success(g, n).questions = n
BY DEF Untracked, Failure, Running, Success

LEMMA IInvInitially == MaterialInit => IInv
<1> SUFFICES ASSUME MaterialInit PROVE IInv
  OBVIOUS
<1>1. Domains
  BY TrackedStates DEF MaterialInit, GenInit, Domains, Steps
<1>2. Requests /\ PromisesAreOfSteps /\ ResponseIsTrue /\ MissesTheAbandoned
  BY ViewAssumption
  DEF MaterialInit, GenInit, Requests, PromisesAreOfSteps, ResponseIsTrue, MissesTheAbandoned
<1>3. RunningIsPending /\ ArticleIsTrue /\ SummaryIsTrue
  BY TrackedStates DEF MaterialInit, GenInit, RunningIsPending, Pending, ArticleIsTrue, SummaryIsTrue
<1> QED BY <1>1, <1>2, <1>3 DEF IInv

-----------------------------------------------------------------------------
(* The steps that no generation takes part in: they leave the article as it *)
(* is, take it away, or paint it anew from the tracker.                     *)
LEMMA BrowsingKeeps ==
  ASSUME IInv, Requests', UNCHANGED <<genVars, tracker, promise>>,
         \/ UNCHANGED <<shown, openMaterialId>>
         \/ shown' = None
         \/ /\ openMaterialId' = openMaterialId /\ openMaterialId \in Material
            /\ shown' = Article(openMaterialId, tracker[openMaterialId])
  PROVE  IInv'
<1>1. UNCHANGED <<step, material, result, bank, seen>>
  BY DEF genVars
<1>2. Domains'
  BY <1>1 DEF IInv, Domains, Article
<1>3. PromisesAreOfSteps' /\ ResponseIsTrue' /\ MissesTheAbandoned'
  BY <1>1 DEF IInv, PromisesAreOfSteps, ResponseIsTrue, Holds, MissesTheAbandoned
<1>4. RunningIsPending' /\ SummaryIsTrue'
  BY <1>1 DEF IInv, RunningIsPending, Pending, SummaryIsTrue, Holds
<1>5. ArticleIsTrue'
  BY DEF IInv, ArticleIsTrue, Article
<1> QED BY <1>2, <1>3, <1>4, <1>5 DEF IInv

(* What is sent, handled and taken are requests. *)
LEMMA SendsRequests ==
  ASSUME Requests, NEW kind \in {"list", "relist", "detail", "upload"},
         NEW m \in Material \cup {None}, kind = "detail" => m \in Material,
         NEW others \in SUBSET wire, Sends(kind, m, others), pages' = pages
  PROVE  Requests'
<1>1. PICK n \in 1..MaxRequests :
        wire' = others \cup {[n |-> n, kind |-> kind, material |-> m,
                             handled |-> FALSE, pages |-> {}]}
  BY DEF Sends
<1>2. PICK new \in Request : new.kind = kind /\ new.material = m /\ wire' = others \cup {new}
  BY <1>1 DEF Request
<1>3. wire' \subseteq Request
  BY <1>2 DEF Requests
<1>4. \A q \in wire' : q.kind = "detail" => q.material \in Material
  BY <1>2 DEF Requests
<1> QED BY <1>3, <1>4 DEF Requests

LEMMA HandledRequests ==
  ASSUME Requests, NEW q \in wire, q.kind # "detail", NEW read \in SUBSET Material,
         wire' = (wire \ {q}) \cup {[q EXCEPT !.handled = TRUE, !.pages = read]},
         pages' \subseteq Material
  PROVE  Requests'
BY DEF Requests, Request

LEMMA FewerRequests ==
  ASSUME Requests, wire' \subseteq wire, pages' = pages
  PROVE  Requests'
BY DEF Requests

LEMMA PageKeeps ==
  ASSUME IInv,
         \/ Render \/ Leave \/ Submit \/ UploadUnheard \/ UNCHANGED vars
         \/ \E m \in Material : Open(m)
         \/ Network
  PROVE  IInv'
<1>0. Requests
  BY DEF IInv
<1>1. CASE Render
  <2>1. Requests'
    BY <1>0, <1>1, SendsRequests DEF Render
  <2> QED BY <1>1, <2>1, BrowsingKeeps DEF Render, Blank
<1>2. CASE Leave
  <2>1. Requests'
    BY <1>0, <1>2, FewerRequests DEF Leave
  <2> QED BY <1>2, <2>1, BrowsingKeeps DEF Leave, Blank
<1>3. CASE Submit
  <2>1. Requests'
    BY <1>0, <1>3, SendsRequests DEF Submit
  <2> QED BY <1>3, <2>1, BrowsingKeeps DEF Submit
<1>4. CASE UNCHANGED vars
  <2>1. Requests'
    BY <1>0, <1>4 DEF Requests, vars, pageVars
  <2> QED BY <1>4, <2>1, BrowsingKeeps DEF vars, pageVars, viewVars
<1>5. ASSUME NEW m \in Material, Open(m) PROVE IInv'
  <2>1. Requests'
    BY <1>0, <1>5, SendsRequests DEF Open
  <2> QED BY <1>5, <2>1, BrowsingKeeps DEF Open
<1>6. ASSUME NEW q \in wire, ListMaterial(q) PROVE IInv'
  <2>1. pages \subseteq Material /\ q.kind # "detail"
    BY <1>0, <1>6 DEF ListMaterial, Requests
  <2>2. Requests'
    BY <1>0, <1>6, <2>1, HandledRequests DEF ListMaterial
  <2> QED BY <1>6, <2>2, BrowsingKeeps DEF ListMaterial, viewVars
<1>7. ASSUME NEW q \in wire, UploadMaterial(q) PROVE IInv'
  <2>1. PICK m \in Material \ pages :
          /\ pages' = pages \cup {m}
          /\ wire' = (wire \ {q}) \cup {[q EXCEPT !.handled = TRUE, !.pages = {m}]}
    BY <1>7 DEF UploadMaterial
  <2>2. pages' \subseteq Material /\ q.kind # "detail" /\ {m} \in SUBSET Material
    BY <1>0, <1>7, <2>1 DEF UploadMaterial, Requests
  <2>3. Requests'
    BY <1>0, <2>1, <2>2, HandledRequests
  <2> QED BY <1>7, <2>3, BrowsingKeeps DEF UploadMaterial, viewVars
<1>8. ASSUME NEW q \in wire, Listed(q) \/ Opened(q) \/ UploadFailed(q) PROVE IInv'
  <2>1. Requests'
    BY <1>0, <1>8, FewerRequests DEF Listed, Opened, UploadFailed
  <2>2. CASE Listed(q) \/ UploadFailed(q)
    BY <2>1, <2>2, BrowsingKeeps DEF Listed, UploadFailed
  <2>3. CASE Opened(q)
    <3>1. q.material \in Material
      BY <1>0, <2>3 DEF Opened, Requests
    <3> QED BY <2>1, <2>3, <3>1, BrowsingKeeps DEF Opened
  <2> QED BY <1>8, <2>2, <2>3
<1>9. ASSUME NEW q \in wire, Uploaded(q) PROVE IInv'
  <2>1. PICK m \in q.pages : Sends("relist", m, wire \ {q})
    BY <1>9 DEF Uploaded
  <2>2. m \in Material
    BY <1>0, <2>1 DEF Requests, Request
  <2>3. Requests'
    BY <1>0, <1>9, <2>1, <2>2, SendsRequests DEF Uploaded
  <2> QED BY <1>9, <2>3, BrowsingKeeps DEF Uploaded
<1>10. CASE UploadUnheard
  <2>1. Requests'
    BY <1>0, <1>10 DEF UploadUnheard, Requests
  <2> QED BY <1>10, <2>1, BrowsingKeeps DEF UploadUnheard, viewVars
<1> QED
  BY <1>1, <1>2, <1>3, <1>4, <1>5, <1>6, <1>7, <1>8, <1>9, <1>10 DEF Network

-----------------------------------------------------------------------------
(* A generation goes on, or fails, and the questions are as they were.      *)
LEMMA WorkingKeeps ==
  ASSUME IInv, NEW g \in Gen, NEW s \in {"model", "upsert", "replace", "insert", "error"},
         step[g] \in {"list", "model", "upsert", "replace", "insert"},
         step' = [step EXCEPT ![g] = s],
         DOMAIN result' = Gen, \A h \in Gen \ {g} : result'[h] = result[h],
         DOMAIN seen' = Gen, \A h \in Gen \ {g} : seen'[h] = seen[h],
         s = "insert" => seen'[g] = bank[material[g]],
         UNCHANGED <<bank, material, pageVars>>
  PROVE  IInv'
<1>1. UNCHANGED <<tracker, promise, shown, openMaterialId, pages, wire>>
  BY DEF pageVars, viewVars
<1>2. Domains' /\ Requests'
  BY <1>1 DEF IInv, Domains, Requests, Steps
<1>3. PromisesAreOfSteps'
  BY <1>1 DEF IInv, Domains, PromisesAreOfSteps
<1>4. RunningIsPending' /\ SummaryIsTrue' /\ ArticleIsTrue'
  BY <1>1 DEF IInv, RunningIsPending, Pending, SummaryIsTrue, Holds, ArticleIsTrue
<1>5. ResponseIsTrue'
  BY <1>1 DEF IInv, Domains, ResponseIsTrue, Holds
<1>6. MissesTheAbandoned'
  BY <1>1 DEF IInv, Domains, MissesTheAbandoned
<1> QED BY <1>2, <1>3, <1>4, <1>5, <1>6 DEF IInv

(* The questions of the material are replaced: by the generation that it    *)
(* waits for, or by one that was abandoned.                                 *)
LEMMA ReplaceKeeps ==
  ASSUME IInv, NEW g \in Gen, ReplaceQuestions(g), UNCHANGED pageVars
  PROVE  IInv'
<1> DEFINE m == material[g]
           own == Batch(g, result[g].questions)
<1>1. UNCHANGED <<tracker, promise, shown, openMaterialId, pages, wire>>
  BY DEF pageVars, viewVars
<1>2. PICK response \in {"ok", "error"} :
        step[g] = "insert" /\ step' = [step EXCEPT ![g] = response] /\ material' = material
  BY DEF ReplaceQuestions, Goto
<1>3. m \in Material /\ promise[g] \in {"pending", "abandoned"}
  BY <1>2 DEF IInv, Domains, PromisesAreOfSteps
<1>4. /\ bank'[m] = (bank[m] \ seen[g]) \cup {own}
      /\ DOMAIN bank' = Material
      /\ \A k \in Material \ {m} : bank'[k] = bank[k]
      /\ own.by = g /\ own.questions = result[g].questions
  BY <1>3 DEF ReplaceQuestions, IInv, Domains, Batch
<1>5. /\ DOMAIN result' = Gen /\ DOMAIN seen' = Gen
      /\ \A h \in Gen : result'[h].questions = result[h].questions
      /\ \A h \in Gen \ {g} : seen'[h] = seen[h]
  BY DEF ReplaceQuestions, IInv, Domains
<1> HIDE DEF own
<1>6. Domains' /\ Requests'
  <2>1. \A k \in Material : \A b \in bank'[k] : b.by \in Gen
    BY <1>4 DEF IInv, Domains
  <2> QED BY <1>1, <1>2, <1>4, <1>5, <2>1 DEF IInv, Domains, Requests, Steps
<1>7. PromisesAreOfSteps'
  BY <1>1, <1>2 DEF IInv, Domains, PromisesAreOfSteps
<1>8. RunningIsPending' /\ ArticleIsTrue'
  BY <1>1, <1>2 DEF IInv, RunningIsPending, Pending, ArticleIsTrue
<1>9. ASSUME NEW k \in Material, NEW h, NEW n, Holds(k, h, n),
             k = m => promise[g] = "abandoned"
      PROVE  Holds(k, h, n)'
  <2>1. CASE k = m
    <3>1. \A b \in bank'[m] :
            (b.by = h /\ Len(b.questions) = n) \/ promise[b.by] = "abandoned"
      BY <1>4, <1>9, <2>1 DEF Holds
    <3>2. own \in bank'[m] /\ promise[own.by] = "abandoned"
      BY <1>4, <1>9, <2>1
    <3> QED BY <1>1, <2>1, <3>1, <3>2 DEF Holds
  <2>2. CASE k # m
    BY <1>1, <1>4, <1>9, <2>2 DEF Holds
  <2> QED BY <2>1, <2>2
<1>10. ASSUME g \notin Pending(m) PROVE promise[g] = "abandoned"
  BY <1>3, <1>10 DEF Pending
<1>11. SummaryIsTrue'
  <2> SUFFICES ASSUME NEW k \in Material, tracker[k].state = "ok"
               PROVE  Holds(k, tracker[k].of, tracker[k].questions)'
    BY <1>1 DEF SummaryIsTrue
  <2>1. Holds(k, tracker[k].of, tracker[k].questions) /\ Pending(k) = {}
    BY DEF IInv, SummaryIsTrue, RunningIsPending
  <2>2. PICK h, n : h = tracker[k].of /\ n = tracker[k].questions
    OBVIOUS
  <2>3. k = m => promise[g] = "abandoned"
    BY <1>10, <2>1
  <2>4. Holds(k, h, n)'
    BY <1>9, <2>1, <2>2, <2>3
  <2> QED BY <1>1, <2>2, <2>4
<1>12. ResponseIsTrue'
  <2> SUFFICES ASSUME NEW h \in Gen, promise[h] = "pending", step'[h] = "ok"
               PROVE  Holds(material[h], h, Len(result[h].questions))'
    BY <1>1, <1>2, <1>5 DEF ResponseIsTrue
  <2>1. CASE h = g
    <3>1. \A b \in bank'[m] : b = own \/ promise[b.by] = "abandoned"
      BY <1>2, <1>4, <2>1 DEF IInv, MissesTheAbandoned
    <3> QED BY <1>1, <1>2, <1>4, <1>5, <2>1, <3>1 DEF Holds
  <2>2. CASE h # g
    <3>1. step[h] = "ok" /\ material[h] \in Material
      BY <1>2, <2>2 DEF IInv, Domains, PromisesAreOfSteps
    <3>2. material[h] = m => g \notin Pending(m)
      BY <2>2, <1>3 DEF IInv, RunningIsPending, Pending
    <3>3. Holds(material[h], h, Len(result[h].questions))
      BY <3>1 DEF IInv, ResponseIsTrue
    <3>4. PICK k, n : k = material[h] /\ k \in Material /\ n = Len(result[h].questions)
      BY <3>1
    <3>5. Holds(k, h, n)'
      BY <1>9, <1>10, <2>2, <3>2, <3>3, <3>4
    <3> QED BY <1>2, <1>5, <3>4, <3>5
  <2> QED BY <2>1, <2>2
<1>13. MissesTheAbandoned'
  <2> SUFFICES ASSUME NEW h \in Gen, promise[h] = "pending", step'[h] = "insert",
                      NEW b \in bank'[material[h]], b \notin seen'[h]
               PROVE  promise[b.by] = "abandoned"
    BY <1>1, <1>2 DEF MissesTheAbandoned
  <2>1. h # g /\ step[h] = "insert" /\ material[h] \in Material
    BY <1>2 DEF IInv, Domains, PromisesAreOfSteps
  <2>2. CASE b \in bank[material[h]]
    BY <1>5, <2>1, <2>2 DEF IInv, MissesTheAbandoned
  <2>3. CASE b = own /\ material[h] = m
    <3>1. g \notin Pending(m)
      BY <2>1, <2>3, <1>3 DEF IInv, RunningIsPending, Pending
    <3> QED BY <1>4, <1>10, <2>3, <3>1
  <2> QED BY <1>4, <2>1, <2>2, <2>3
<1> QED BY <1>6, <1>7, <1>8, <1>11, <1>12, <1>13 DEF IInv

LEMMA GeneratingKeeps ==
  ASSUME IInv, NEW g \in Gen, Generating(g)
  PROVE  IInv'
<1>0. DOMAIN result = Gen /\ DOMAIN seen = Gen /\ UNCHANGED pageVars
  BY DEF IInv, Domains, Generating
<1>1. CASE ListObjectives(g)
  BY <1>0, <1>1, WorkingKeeps DEF ListObjectives, Goto
<1>2. CASE ModelFails(g)
  BY <1>0, <1>2, WorkingKeeps DEF ModelFails, Errs, Goto
<1>3. CASE ModelAnswers(g)
  <2>1. \/ step' = [step EXCEPT ![g] = "replace"]
        \/ step' = [step EXCEPT ![g] = "upsert"]
        \/ step' = [step EXCEPT ![g] = "error"]
    BY <1>3 DEF ModelAnswers, Errs, Goto
  <2>2. DOMAIN result' = Gen /\ \A h \in Gen \ {g} : result'[h] = result[h]
    BY <1>0, <1>3 DEF ModelAnswers, Errs
  <2> QED BY <1>0, <1>3, <2>1, <2>2, WorkingKeeps DEF ModelAnswers
<1>4. CASE UpsertObjectives(g)
  BY <1>0, <1>4, WorkingKeeps DEF UpsertObjectives, Goto
<1>5. CASE Unavailable(g)
  BY <1>0, <1>5, WorkingKeeps DEF Unavailable, Errs, Goto
<1>6. CASE DeleteSees(g)
  BY <1>0, <1>6, WorkingKeeps DEF DeleteSees, Goto
<1>7. CASE ReplaceQuestions(g)
  BY <1>0, <1>7, ReplaceKeeps
<1> QED BY <1>1, <1>2, <1>3, <1>4, <1>5, <1>6, <1>7 DEF Generating, Serve

-----------------------------------------------------------------------------
(* A click on an article whose material is not marked: it is, for the one   *)
(* promise that there then is.                                              *)
LEMMA GenerateKeeps ==
  ASSUME IInv, NEW g \in Gen, Generate(g)
  PROVE  IInv'
<1>0. PICK m \in Material : m = shown.material
  BY DEF IInv, Domains, Generate
<1>1. /\ tracker[m].state # "running"
      /\ shown # None
      /\ step[g] = "unsent" /\ promise[g] = "none"
  BY <1>0 DEF IInv, Domains, PromisesAreOfSteps, Generate, Ask, Goto
<1>2. /\ step' = [step EXCEPT ![g] = "list"]
      /\ material' = [material EXCEPT ![g] = m]
      /\ promise' = [promise EXCEPT ![g] = "pending"]
      /\ tracker' = [tracker EXCEPT ![m] = Running(g)]
      /\ shown' = Article(m, Running(g))
      /\ UNCHANGED <<bank, seen, result, openMaterialId, pages, wire>>
  BY <1>0, <1>1 DEF Generate, Ask, Goto, Tracks, Painted
<1>3. Domains' /\ Requests'
  BY <1>1, <1>2 DEF IInv, Domains, Requests, Steps, Article
<1>4. PromisesAreOfSteps'
  BY <1>1, <1>2 DEF IInv, Domains, PromisesAreOfSteps
<1>5. RunningIsPending'
  <2>1. Pending(m) = {}
    BY <1>1 DEF IInv, RunningIsPending
  <2>2. Pending(m)' = {g}
    BY <1>2, <2>1 DEF IInv, Domains, Pending
  <2>3. \A k \in Material \ {m} : Pending(k)' = Pending(k)
    BY <1>1, <1>2 DEF IInv, Domains, Pending
  <2>4. tracker'[m].state = "running" /\ tracker'[m].of = g
    BY <1>1, <1>2, TrackedStates DEF IInv, Domains
  <2>5. \A k \in Material \ {m} : tracker'[k] = tracker[k]
    BY <1>2 DEF IInv, Domains
  <2> QED BY <2>2, <2>3, <2>4, <2>5 DEF IInv, RunningIsPending
<1>6. ArticleIsTrue'
  BY <1>0, <1>1, <1>2 DEF IInv, Domains, ArticleIsTrue, Article
<1>7. \A h \in Gen : promise[h] = "abandoned" => promise'[h] = "abandoned"
  BY <1>1, <1>2 DEF IInv, Domains
<1>8. SummaryIsTrue'
  <2>1. \A k \in Material : tracker'[k].state = "ok" => tracker'[k] = tracker[k]
    BY <1>1, <1>2, TrackedStates DEF IInv, Domains
  <2> QED BY <1>2, <1>7, <2>1 DEF IInv, Domains, SummaryIsTrue, Holds
<1>9. \A h \in Gen : step'[h] # "list" => h # g /\ step'[h] = step[h] /\ promise'[h] = promise[h]
                                        /\ material'[h] = material[h]
  BY <1>2 DEF IInv, Domains
<1>10. ResponseIsTrue'
  <2> SUFFICES ASSUME NEW h \in Gen, promise'[h] = "pending", step'[h] = "ok"
               PROVE  Holds(material[h], h, Len(result[h].questions))'
    BY DEF ResponseIsTrue
  <2>1. material[h] \in Material /\ Holds(material[h], h, Len(result[h].questions))
    BY <1>9 DEF IInv, ResponseIsTrue, PromisesAreOfSteps
  <2> QED BY <1>2, <1>7, <1>9, <2>1 DEF IInv, Domains, Holds
<1>11. MissesTheAbandoned'
  <2> SUFFICES ASSUME NEW h \in Gen, promise'[h] = "pending", step'[h] = "insert",
                      NEW b \in bank'[material'[h]], b \notin seen'[h]
               PROVE  promise'[b.by] = "abandoned"
    BY DEF MissesTheAbandoned
  <2>1. /\ step[h] = "insert" /\ promise[h] = "pending" /\ material[h] \in Material
        /\ b \in bank[material[h]] /\ b \notin seen[h]
    BY <1>2, <1>9 DEF IInv, PromisesAreOfSteps
  <2> QED BY <1>7, <2>1 DEF IInv, Domains, MissesTheAbandoned
<1> QED BY <1>3, <1>4, <1>5, <1>6, <1>8, <1>10, <1>11 DEF IInv

(* The promise of g comes to an end, and the tracker says so.               *)
LEMMA HearingKeeps ==
  ASSUME IInv, NEW g \in Gen, NEW state, promise[g] = "pending",
         Hears(g, state), NEW end \in {"settled", "abandoned"},
         promise' = [promise EXCEPT ![g] = end],
         end = "settled" => step[g] \in {"ok", "error"},
         \/ state.state \notin {"running", "ok"}
         \/ /\ step[g] = "ok" /\ state.state = "ok"
            /\ state.of = g /\ state.questions = Len(result[g].questions)
  PROVE  IInv'
<1>0. PICK m \in Material : m = material[g]
  BY DEF IInv, PromisesAreOfSteps
<1>1. step[g] # "unsent"
  BY DEF IInv, PromisesAreOfSteps
<1>2. /\ tracker' = [tracker EXCEPT ![m] = state]
      /\ shown' = Painted(m, state)
      /\ UNCHANGED <<step, material, bank, seen, result, openMaterialId, pages, wire>>
  BY <1>0 DEF Hears, Tracks, genVars
<1>3. tracker'[m] = state /\ \A k \in Material \ {m} : tracker'[k] = tracker[k]
  BY <1>1, <1>2 DEF IInv, Domains
<1>4. Domains' /\ Requests'
  BY <1>1, <1>2 DEF IInv, Domains, Requests, Painted, Article
<1>5. PromisesAreOfSteps'
  BY <1>1, <1>2 DEF IInv, Domains, PromisesAreOfSteps
<1>6. RunningIsPending'
  <2>1. Pending(m) = {g}
    BY <1>0 DEF IInv, RunningIsPending, Pending
  <2>2. Pending(m)' = {}
    BY <1>2, <2>1 DEF IInv, Domains, Pending
  <2>3. \A k \in Material \ {m} : Pending(k)' = Pending(k)
    BY <1>0, <1>2 DEF IInv, Domains, Pending
  <2> QED BY <1>3, <2>2, <2>3 DEF IInv, RunningIsPending
<1>7. ArticleIsTrue'
  BY <1>2, <1>3 DEF IInv, Domains, ArticleIsTrue, Painted, Article
<1>8. \A h \in Gen : promise[h] = "abandoned" => promise'[h] = "abandoned"
  BY DEF IInv, Domains
<1>9. SummaryIsTrue'
  <2> SUFFICES ASSUME NEW k \in Material, tracker'[k].state = "ok"
               PROVE  Holds(k, tracker[k].of, tracker[k].questions)'
    BY DEF SummaryIsTrue
  <2>1. CASE k # m
    BY <1>2, <1>3, <1>8, <2>1 DEF IInv, Domains, SummaryIsTrue, Holds
  <2>2. CASE k = m
    <3>1. Holds(m, g, Len(result[g].questions))
      BY <1>0, <1>3, <2>2 DEF IInv, ResponseIsTrue
    <3> QED BY <1>2, <1>3, <1>8, <2>2, <3>1 DEF IInv, Domains, Holds
  <2> QED BY <2>1, <2>2
<1>10. \A h \in Gen : promise'[h] = "pending" => promise[h] = "pending"
  BY DEF IInv, Domains
<1>11. ResponseIsTrue'
  <2> SUFFICES ASSUME NEW h \in Gen, promise'[h] = "pending", step'[h] = "ok"
               PROVE  Holds(material[h], h, Len(result[h].questions))'
    BY DEF ResponseIsTrue
  <2>1. material[h] \in Material /\ Holds(material[h], h, Len(result[h].questions))
    BY <1>2, <1>10 DEF IInv, ResponseIsTrue, PromisesAreOfSteps
  <2> QED BY <1>2, <1>8, <2>1 DEF IInv, Domains, Holds
<1>12. MissesTheAbandoned'
  <2> SUFFICES ASSUME NEW h \in Gen, promise'[h] = "pending", step'[h] = "insert",
                      NEW b \in bank'[material'[h]], b \notin seen'[h]
               PROVE  promise'[b.by] = "abandoned"
    BY DEF MissesTheAbandoned
  <2>1. /\ step[h] = "insert" /\ promise[h] = "pending" /\ material[h] \in Material
        /\ b \in bank[material[h]] /\ b \notin seen[h]
    BY <1>2, <1>10 DEF IInv, PromisesAreOfSteps
  <2> QED BY <1>8, <2>1 DEF IInv, Domains, MissesTheAbandoned
<1> QED BY <1>4, <1>5, <1>6, <1>7, <1>9, <1>11, <1>12 DEF IInv

(* A reload forgets what the tracker knew, and abandons what was pending.   *)
LEMMA ReloadKeeps == ASSUME IInv, Reload PROVE IInv'
<1>1. /\ UNCHANGED <<step, material, bank, seen, result, pages>>
      /\ wire' = {} /\ shown' = None
      /\ tracker' = [k \in Material |-> Untracked]
      /\ promise' = [g \in Gen |-> IF promise[g] = "pending" THEN "abandoned" ELSE promise[g]]
  BY DEF Reload, Blank, genVars
<1>2. Domains' /\ Requests'
  BY <1>1 DEF IInv, Domains, Requests
<1>3. PromisesAreOfSteps'
  BY <1>1 DEF IInv, Domains, PromisesAreOfSteps
<1>4. /\ RunningIsPending' /\ SummaryIsTrue' /\ ArticleIsTrue' /\ ResponseIsTrue'
      /\ MissesTheAbandoned'
  BY <1>1, TrackedStates
  DEF RunningIsPending, Pending, SummaryIsTrue, ArticleIsTrue, ResponseIsTrue, MissesTheAbandoned
<1> QED BY <1>2, <1>3, <1>4 DEF IInv

-----------------------------------------------------------------------------
LEMMA IInvInductive == IInv /\ [Next]_vars => IInv'
<1> SUFFICES ASSUME IInv, [Next]_vars PROVE IInv'
  OBVIOUS
<1>1. CASE \/ Render \/ Leave \/ Submit \/ UploadUnheard \/ UNCHANGED vars
           \/ \E m \in Material : Open(m)
           \/ Network
  BY <1>1, PageKeeps
<1>2. CASE Reload
  BY <1>2, ReloadKeeps
<1>3. ASSUME NEW g \in Gen, Generate(g) PROVE IInv'
  BY <1>3, GenerateKeeps
<1>4. ASSUME NEW g \in Gen, Generating(g) PROVE IInv'
  BY <1>4, GeneratingKeeps
<1>5. ASSUME NEW g \in Gen, GenerationSucceeds(g) PROVE IInv'
  <2> DEFINE state == Success(g, Len(result[g].questions))
  <2>1. Hears(g, state) /\ promise[g] = "pending" /\ step[g] = "ok"
    BY <1>5 DEF GenerationSucceeds
  <2>2. promise' = [promise EXCEPT ![g] = "settled"]
    BY <1>5 DEF GenerationSucceeds
  <2>3. state.state = "ok" /\ state.of = g /\ state.questions = Len(result[g].questions)
    BY DEF Success
  <2> HIDE DEF state
  <2> QED BY <2>1, <2>2, <2>3, HearingKeeps
<1>6. ASSUME NEW g \in Gen, GenerationFails(g) PROVE IInv'
  BY <1>6, HearingKeeps, TrackedStates DEF GenerationFails
<1> QED BY <1>1, <1>2, <1>3, <1>4, <1>5, <1>6 DEF Next, Page, Reports

LEMMA IInvAlways == MaterialSpec => []IInv
BY IInvInitially, IInvInductive, PTL DEF MaterialSpec

(* material-state.js: one tracker for every render keeps one generation of  *)
(* a material to the page, and its button disabled as long, through any     *)
(* number of visits, reloads and lost responses.                            *)
THEOREM RunningIsWaitedFor == MaterialSpec => []RunningIsPending
BY IInvAlways, PTL DEF IInv

(* views/material.js: what the article says is what the tracker says, and   *)
(* it is the page clicked last, whatever order the responses come in.       *)
THEOREM ArticleSaysWhatIsTracked == MaterialSpec => []ArticleIsTrue
BY IInvAlways, PTL DEF IInv

(* web/routers/material.py, generate_from_material, as the page reports it: *)
(* a summary counts the questions that the material has, unless a           *)
(* generation that nobody waited for has replaced them.                     *)
THEOREM SummaryCountsTheBank == MaterialSpec => []SummaryIsTrue
BY IInvAlways, PTL DEF IInv

-----------------------------------------------------------------------------
(* The upload form and the list.  What is on the wire after a submit        *)
UploadsIn(requests) == {q \in requests : q.kind \in {"upload", "relist"}}

(* The form waits for one request; the server has the page that the form    *)
(* is to be shown, and the list that has been read since has it too.        *)
Uploads ==
  /\ uploading <=> UploadsIn(wire) # {}
  /\ \A q, r \in UploadsIn(wire) : q = r
  /\ \A q \in wire :
       /\ q.kind = "upload" /\ q.handled => q.pages \subseteq pages
       /\ q.kind = "relist" => q.material \in pages
       /\ q.kind = "relist" /\ q.handled => q.material \in q.pages

LEMMA UploadsInitially == MaterialInit => Uploads
BY DEF MaterialInit, Uploads, UploadsIn

(* A request is sent while the form waits for none of the others.           *)
LEMMA SendsUploads ==
  ASSUME Uploads, NEW kind, NEW m, NEW others \in SUBSET wire, Sends(kind, m, others),
         pages' = pages, kind = "relist" => m \in pages,
         \/ kind \in {"upload", "relist"} /\ UploadsIn(others) = {} /\ uploading'
         \/ kind \notin {"upload", "relist"} /\ UploadsIn(others) = {} /\ ~uploading'
         \/ kind \notin {"upload", "relist"} /\ others = wire /\ uploading' = uploading
  PROVE  Uploads'
<1>1. PICK n \in 1..MaxRequests :
        wire' = others \cup {[n |-> n, kind |-> kind, material |-> m,
                             handled |-> FALSE, pages |-> {}]}
  BY DEF Sends
<1>2. PICK new : /\ new = [n |-> n, kind |-> kind, material |-> m, handled |-> FALSE, pages |-> {}]
                 /\ wire' = others \cup {new}
  BY <1>1
<1>3. new.kind = kind /\ new.material = m /\ new.handled = FALSE
  BY <1>2
<1>4. UploadsIn(wire') = UploadsIn(others) \cup {q \in {new} : kind \in {"upload", "relist"}}
  BY <1>2, <1>3 DEF UploadsIn
<1>5. (uploading' <=> UploadsIn(wire') # {}) /\ \A q, r \in UploadsIn(wire') : q = r
  BY <1>4 DEF Uploads
<1>6. \A q \in wire' :
        /\ q.kind = "upload" /\ q.handled => q.pages \subseteq pages'
        /\ q.kind = "relist" => q.material \in pages'
        /\ q.kind = "relist" /\ q.handled => q.material \in q.pages
  BY <1>2, <1>3 DEF Uploads
<1> QED BY <1>5, <1>6 DEF Uploads

LEMMA HandledUploads ==
  ASSUME Uploads, Requests, NEW q \in wire, NEW read,
         wire' = (wire \ {q}) \cup {[q EXCEPT !.handled = TRUE, !.pages = read]},
         pages \subseteq pages', q.kind = "upload" => read \subseteq pages',
         q.kind = "relist" => pages \subseteq read, uploading' = uploading
  PROVE  Uploads'
<1>1. PICK new : new = [q EXCEPT !.handled = TRUE, !.pages = read]
  OBVIOUS
<1>2. /\ wire' = (wire \ {q}) \cup {new} /\ new.kind = q.kind /\ new.material = q.material
      /\ new.handled = TRUE /\ new.pages = read
  BY <1>1 DEF Requests, Request
<1>3. UploadsIn(wire') = IF q \in UploadsIn(wire) THEN {new} ELSE UploadsIn(wire)
  BY <1>2 DEF Uploads, UploadsIn
<1>4. (uploading' <=> UploadsIn(wire') # {}) /\ \A p, r \in UploadsIn(wire') : p = r
  BY <1>3 DEF Uploads
<1>5. \A r \in wire' :
        /\ r.kind = "upload" /\ r.handled => r.pages \subseteq pages'
        /\ r.kind = "relist" => r.material \in pages'
        /\ r.kind = "relist" /\ r.handled => r.material \in r.pages
  BY <1>2 DEF Uploads
<1> QED BY <1>4, <1>5 DEF Uploads

LEMMA FewerUploads ==
  ASSUME Uploads, wire' \subseteq wire, pages \subseteq pages',
         \/ UploadsIn(wire') = UploadsIn(wire) /\ (uploading' <=> uploading)
         \/ UploadsIn(wire') = {} /\ ~uploading'
  PROVE  Uploads'
<1>1. (uploading' <=> UploadsIn(wire') # {}) /\ \A q, r \in UploadsIn(wire') : q = r
  BY DEF Uploads
<1>2. \A q \in wire' :
        /\ q.kind = "upload" /\ q.handled => q.pages \subseteq pages'
        /\ q.kind = "relist" => q.material \in pages'
        /\ q.kind = "relist" /\ q.handled => q.material \in q.pages
  BY DEF Uploads
<1> QED BY <1>1, <1>2 DEF Uploads

LEMMA UploadsStep == IInv /\ Uploads /\ [Next]_vars => Uploads'
<1> SUFFICES ASSUME IInv, Uploads, [Next]_vars PROVE Uploads'
  OBVIOUS
<1>0. Requests
  BY DEF IInv
<1>1. CASE Render
  BY <1>1, SendsUploads DEF Render, Blank, UploadsIn
<1>2. CASE Leave \/ Reload
  BY <1>2, FewerUploads DEF Leave, Reload, Blank, UploadsIn
<1>3. CASE Submit
  <2>1. UploadsIn(wire) = {}
    BY <1>3 DEF Submit, Uploads
  <2> QED BY <1>3, <2>1, SendsUploads DEF Submit
<1>4. ASSUME NEW m \in Material, Open(m) PROVE Uploads'
  BY <1>4, SendsUploads DEF Open
<1>5. ASSUME NEW q \in wire, ListMaterial(q) PROVE Uploads'
  BY <1>0, <1>5, HandledUploads DEF ListMaterial, viewVars
<1>6. ASSUME NEW q \in wire, UploadMaterial(q) PROVE Uploads'
  <2>1. PICK m \in Material \ pages :
          /\ pages' = pages \cup {m}
          /\ wire' = (wire \ {q}) \cup {[q EXCEPT !.handled = TRUE, !.pages = {m}]}
    BY <1>6 DEF UploadMaterial
  <2>2. q.kind = "upload" /\ uploading' = uploading
    BY <1>6 DEF UploadMaterial, viewVars
  <2> QED BY <1>0, <2>1, <2>2, HandledUploads
<1>7. ASSUME NEW q \in wire, Listed(q) \/ Opened(q) \/ UploadFailed(q) PROVE Uploads'
  <2>1. wire' = wire \ {q} /\ pages' = pages
    BY <1>7 DEF Listed, Opened, UploadFailed
  <2>2. CASE q \in UploadsIn(wire)
    <3>1. UploadsIn(wire') = {}
      BY <2>1, <2>2 DEF Uploads, UploadsIn
    <3>2. ~uploading'
      BY <1>7, <2>2 DEF Listed, Opened, UploadFailed, UploadsIn
    <3> QED BY <2>1, <3>1, <3>2, FewerUploads
  <2>3. CASE q \notin UploadsIn(wire)
    <3>1. UploadsIn(wire') = UploadsIn(wire)
      BY <2>1, <2>3 DEF UploadsIn
    <3>2. q.kind \notin {"upload", "relist"}
      BY <2>3 DEF UploadsIn
    <3>3. CASE Listed(q)
      <4>1. uploading' = (uploading /\ q.kind # "relist")
        BY <3>3 DEF Listed
      <4>2. q.kind # "relist"
        BY <3>2
      <4>3. uploading' <=> uploading
        BY <4>1, <4>2, Zenon
      <4> QED BY <2>1, <3>1, <4>3, FewerUploads
    <3>4. CASE Opened(q)
      BY <2>1, <3>1, <3>4, FewerUploads DEF Opened
    <3>5. CASE UploadFailed(q)
      BY <3>2, <3>5 DEF UploadFailed
    <3> QED BY <1>7, <3>3, <3>4, <3>5
  <2> QED BY <2>2, <2>3
<1>8. ASSUME NEW q \in wire, Uploaded(q) PROVE Uploads'
  <2>1. PICK m \in q.pages : Sends("relist", m, wire \ {q})
    BY <1>8 DEF Uploaded
  <2>2. m \in pages /\ UploadsIn(wire \ {q}) = {} /\ uploading
    BY <1>8, <2>1 DEF Uploaded, Uploads, UploadsIn
  <2> QED BY <1>8, <2>1, <2>2, SendsUploads DEF Uploaded
<1>9. CASE UploadUnheard
  <2>1. wire' = wire /\ pages \subseteq pages' /\ uploading' = uploading
    BY <1>9 DEF UploadUnheard, viewVars
  <2> QED BY <2>1, FewerUploads
<1>10. CASE UNCHANGED <<pages, wire, uploading>>
  BY <1>10, FewerUploads
<1>11. ASSUME NEW g \in Gen, Generate(g) \/ Generating(g) \/ Reports(g)
       PROVE  UNCHANGED <<pages, wire, uploading>>
  BY <1>11 DEF Generate, Generating, Reports, GenerationSucceeds, GenerationFails, Hears, pageVars,
     viewVars
<1>12. UNCHANGED vars => UNCHANGED <<pages, wire, uploading>>
  BY DEF vars, pageVars, viewVars
<1> QED
  BY <1>1, <1>2, <1>3, <1>4, <1>5, <1>6, <1>7, <1>8, <1>9, <1>10, <1>11, <1>12 DEF Next, Page, Network

(* The form comes back with an error, or with the list that it waited for.  *)
LEMMA FormStep ==
  ASSUME IInv, Uploads, Next, uploading, ~uploading', list' # None
  PROVE  \E q \in UploadsIn(wire) :
           q.kind = "upload" \/ (q.kind = "relist" /\ q.material \in list')
<1>1. PICK q \in wire : Listed(q) \/ UploadFailed(q)
  BY DEF Next, Page, Network, Render, Leave, Reload, Blank, Submit, Open, Generate, ListMaterial,
     UploadMaterial, Opened, Uploaded, UploadUnheard, Generating, Reports,
     GenerationSucceeds, GenerationFails, Hears, pageVars, viewVars
<1>2. CASE Listed(q)
  <2>1. q.kind = "relist" /\ q.handled /\ list' = q.pages
    BY <1>2 DEF Listed
  <2> QED BY <2>1 DEF Uploads, UploadsIn
<1>3. CASE UploadFailed(q)
  BY <1>3 DEF UploadFailed, UploadsIn
<1> QED BY <1>1, <1>2, <1>3

(* views/material.js: the form comes back with the list that has the page,  *)
(* or with an error, whichever lists cross.                                 *)
THEOREM UploadsAreListed == MaterialSpec => UploadIsListed
<1> DEFINE after(requests) == {q \in requests : q.kind \in {"upload", "relist"}}
           Action ==
             /\ uploading' <=> after(wire') # {}
             /\ \A q, r \in after(wire') : q = r
             /\ uploading /\ ~uploading' /\ list' # None =>
                  \E q \in after(wire) :
                    q.kind = "upload" \/ (q.kind = "relist" /\ q.material \in list')
<1>1. IInv /\ Uploads /\ [Next]_vars => [Action]_vars
  <2> SUFFICES ASSUME IInv, Uploads, Next PROVE Action
    OBVIOUS
  <2>1. after(wire) = UploadsIn(wire) /\ after(wire') = UploadsIn(wire')
    BY DEF UploadsIn
  <2>2. (uploading' <=> UploadsIn(wire') # {}) /\ \A q, r \in UploadsIn(wire') : q = r
    BY UploadsStep DEF Uploads
  <2> QED BY <2>1, <2>2, FormStep
<1>2. MaterialSpec => []Uploads
  BY UploadsInitially, UploadsStep, IInvAlways, PTL DEF MaterialSpec
<1> QED BY <1>1, <1>2, IInvAlways, PTL DEF MaterialSpec, UploadIsListed

-----------------------------------------------------------------------------
(* The units.  Least and greatest numbers, for what DomainsOf and Upserted  *)
(* choose.                                                                  *)
LEMMA LeastOf ==
  ASSUME NEW T, T \subseteq Nat, T # {}
  PROVE  \E x \in T : \A y \in T : x <= y
<1> DEFINE R == OpToRel(<, Nat)
<1>1. IsWellFoundedOn(R, Nat)
  BY NatLessThanWellFounded
<1>2. \A x, y \in Nat : x < y => <<x, y>> \in R
  BY DEF OpToRel
<1> HIDE DEF R
<1>3. PICK x \in T : \A y \in T : ~(<<y, x>> \in R)
  BY <1>1, WFMin
<1>4. \A y \in T : ~(y < x)
  BY <1>2, <1>3
<1>5. ASSUME NEW y \in T PROVE x <= y
  <2>1. x \in Nat /\ y \in Nat /\ ~(y < x)
    BY <1>4
  <2> QED BY <2>1
<1> QED BY <1>5

LEMMA GreatestOf ==
  ASSUME NEW n \in Nat, NEW T, T \subseteq 1..n, T # {}
  PROVE  \E x \in T : \A y \in T : y <= x
<1> DEFINE U == {n - x : x \in T}
<1>1. U \subseteq Nat /\ U # {}
  <2>1. ASSUME NEW x \in T PROVE n - x \in Nat /\ n - x \in U
    <3>1. x \in 1..n
      OBVIOUS
    <3> QED BY <3>1
  <2> QED BY <2>1
<1>2. PICK u \in U : \A v \in U : u <= v
  BY <1>1, LeastOf
<1>3. PICK x \in T : u = n - x
  OBVIOUS
<1>4. ASSUME NEW y \in T PROVE y <= x
  <2>1. n - x <= n - y /\ x \in 1..n /\ y \in 1..n
    BY <1>2, <1>3
  <2> QED BY <2>1
<1> QED BY <1>4

Domain == Spelling \cup {NoUnit}

(* domains_of and _reconciled_domain, for a unit d that one of the          *)
(* objectives is in, spelled as it is stripped: what is not in the spelling *)
(* of d is in the spelling of another objective that was known.             *)
LEMMA ReconciledIsKnown ==
  ASSUME NEW objectives \in Catalog, NEW domain \in Domain, NEW p \in Objective,
         objectives[p] \in Spelling, Stripped[objectives[p]] = objectives[p],
         Reconciled(domain, DomainsOf(objectives)) \in Spelling,
         Folded[Reconciled(domain, DomainsOf(objectives))] = Folded[objectives[p]],
         Reconciled(domain, DomainsOf(objectives)) # objectives[p]
  PROVE  \E k \in Objective : Apart(objectives, k, p)
<1> DEFINE domains == DomainsOf(objectives)
           same == {o \in DOMAIN domains : Folded[domains[o]] = Folded[domain]}
           least == CHOOSE o \in same : \A q \in same : o <= q
<1>1. /\ DOMAIN domains = {k \in Objective : objectives[k] \in Spelling}
      /\ \A k \in DOMAIN domains : domains[k] = Stripped[objectives[k]]
  BY GenerationAssumption DEF DomainsOf, Catalog
<1>2. domain \in Spelling
  BY GenerationAssumption DEF Domain, Reconciled
<1>3. CASE same = {}
  <2>1. Reconciled(domain, domains) = Stripped[domain]
    BY <1>2, <1>3, GenerationAssumption DEF Reconciled
  <2>2. p \in same
    BY <1>1, <1>2, <2>1, GenerationAssumption
  <2> QED BY <1>3, <2>2
<1>4. CASE same # {}
  <2>1. Reconciled(domain, domains) = domains[least]
    BY <1>2, <1>4, GenerationAssumption DEF Reconciled
  <2>2. same \subseteq Nat
    BY <1>1 DEF Objective
  <2>3. \E o \in same : \A q \in same : o <= q
    BY <1>4, <2>2, LeastOf
  <2>4. least \in same
    BY <2>3
  <2> HIDE DEF least
  <2>5. PICK k \in Objective : k = least
    BY <1>1, <2>4
  <2>6. objectives[k] \in Spelling /\ domains[k] = Stripped[objectives[k]]
    BY <1>1, <2>4, <2>5
  <2>7. Folded[objectives[k]] = Folded[objectives[p]]
    BY <2>1, <2>5, <2>6, GenerationAssumption
  <2>8. objectives[k] # objectives[p]
    BY <2>1, <2>5, <2>6
  <2> QED BY <2>6, <2>7, <2>8 DEF Apart
<1> QED BY <1>3, <1>4

(* What a generation is to upsert is spelled as it was reconciled with the  *)
(* catalog that it has read.                                                *)
Reconciling(g) ==
  \A i \in DOMAIN result[g].objectives :
    /\ result[g].objectives[i].objective_id \in Objective
    /\ \E domain \in Domain :
         result[g].objectives[i].domain = Reconciled(domain, DomainsOf(existing[g]))

Units ==
  /\ catalog \in Catalog
  /\ existing \in [Gen -> Catalog]
  /\ \A g \in Gen :
       /\ \E n \in Nat : DOMAIN result[g].objectives = 1..n
       /\ step[g] = "upsert" => Reconciling(g)

LEMMA UnreadIsCatalog == Unread \in Catalog
BY DEF Unread, Catalog

LEMMA ReconciledIsDomain ==
  ASSUME NEW objectives \in Catalog, NEW domain \in Domain
  PROVE  Reconciled(domain, DomainsOf(objectives)) \in Domain
<1> DEFINE domains == DomainsOf(objectives)
           same == {o \in DOMAIN domains : Folded[domains[o]] = Folded[domain]}
           least == CHOOSE o \in same : \A q \in same : o <= q
<1>1. /\ DOMAIN domains = {k \in Objective : objectives[k] \in Spelling}
      /\ \A k \in DOMAIN domains : domains[k] \in Spelling
  BY GenerationAssumption DEF DomainsOf, Catalog
<1>2. CASE domain = NoUnit
  BY <1>2 DEF Reconciled, Domain
<1>3. CASE domain \in Spelling /\ same = {}
  BY <1>3, GenerationAssumption DEF Reconciled, Domain
<1>4. CASE domain \in Spelling /\ same # {}
  <2>1. Reconciled(domain, domains) = domains[least]
    BY <1>4, GenerationAssumption DEF Reconciled
  <2>2. same \subseteq Nat
    BY <1>1 DEF Objective
  <2>3. least \in same
    BY <1>4, <2>2, LeastOf
  <2> HIDE DEF least
  <2> QED BY <1>1, <2>1, <2>3 DEF Domain
<1> QED BY <1>2, <1>3, <1>4 DEF Domain

(* The upsert of a result: an objective is as it was, or as the last one    *)
(* of that id in the result has it.                                         *)
LEMMA UpsertedFrom ==
  ASSUME Units, NEW g \in Gen, NEW o \in Objective
  PROVE  \/ Upserted(result[g].objectives)[o] = catalog[o]
         \/ \E i \in DOMAIN result[g].objectives :
              Upserted(result[g].objectives)[o] = result[g].objectives[i].domain
<1> DEFINE objectives == result[g].objectives
           named == {i \in DOMAIN objectives : objectives[i].objective_id = o}
           last == CHOOSE i \in named : \A j \in named : j <= i
<1>1. Upserted(objectives)[o] = IF named = {} THEN catalog[o] ELSE objectives[last].domain
  BY DEF Upserted
<1>2. ASSUME named # {} PROVE last \in DOMAIN objectives
  <2>1. PICK n \in Nat : DOMAIN objectives = 1..n
    BY DEF Units
  <2>2. named \subseteq 1..n
    BY <2>1
  <2>3. \E i \in named : \A j \in named : j <= i
    BY <1>2, <2>2, GreatestOf
  <2> QED BY <2>3
<1> HIDE DEF last
<1> QED BY <1>1, <1>2

LEMMA UnitsInitially == MaterialInit => Units
<1> SUFFICES ASSUME MaterialInit PROVE Units
  OBVIOUS
<1>1. catalog \in Catalog /\ existing \in [Gen -> Catalog]
  BY AnswerAssumption, UnreadIsCatalog DEF MaterialInit, GenInit
<1>2. ASSUME NEW g \in Gen PROVE DOMAIN result[g].objectives = 1..0 /\ step[g] # "upsert"
  BY DEF MaterialInit, GenInit, NoResult
<1> QED BY <1>1, <1>2 DEF Units

(* One generation goes on, and what the others have stays as it is.         *)
LEMMA UnitsOfOne ==
  ASSUME Units, NEW g \in Gen, catalog' \in Catalog,
         NEW read \in Catalog, existing' = [existing EXCEPT ![g] = read],
         \A h \in Gen \ {g} : result'[h] = result[h] /\ step'[h] = step[h],
         \E n \in Nat : DOMAIN result'[g].objectives = 1..n,
         step'[g] = "upsert" => Reconciling(g)'
  PROVE  Units'
<1>1. existing' \in [Gen -> Catalog]
  BY DEF Units
<1>2. ASSUME NEW h \in Gen \ {g}
      PROVE  /\ \E n \in Nat : DOMAIN result'[h].objectives = 1..n
             /\ step'[h] = "upsert" => Reconciling(h)'
  <2>1. existing'[h] = existing[h] /\ result'[h] = result[h] /\ step'[h] = step[h]
    BY DEF Units
  <2> QED BY <2>1 DEF Units, Reconciling
<1> QED BY <1>1, <1>2 DEF Units

LEMMA UpsertKeepsCatalog ==
  ASSUME Units, NEW g \in Gen, UpsertObjectives(g)
  PROVE  catalog' \in Catalog
<1>1. catalog' = Upserted(result[g].objectives) /\ Reconciling(g)
  BY DEF UpsertObjectives, Goto, Units
<1>2. ASSUME NEW o \in Objective
      PROVE  Upserted(result[g].objectives)[o] \in Spelling \cup {NoUnit, None}
  <2>1. CASE Upserted(result[g].objectives)[o] = catalog[o]
    BY <2>1 DEF Units, Catalog
  <2>2. ASSUME NEW i \in DOMAIN result[g].objectives,
               Upserted(result[g].objectives)[o] = result[g].objectives[i].domain
        PROVE  Upserted(result[g].objectives)[o] \in Spelling \cup {NoUnit, None}
    <3>1. PICK domain \in Domain :
            result[g].objectives[i].domain = Reconciled(domain, DomainsOf(existing[g]))
      BY <1>1 DEF Reconciling
    <3>2. Reconciled(domain, DomainsOf(existing[g])) \in Domain
      BY ReconciledIsDomain DEF Units
    <3> QED BY <2>2, <3>1, <3>2 DEF Domain
  <2> QED BY <2>1, <2>2, UpsertedFrom
<1>3. Upserted(result[g].objectives) = [o \in Objective |-> Upserted(result[g].objectives)[o]]
  BY DEF Upserted
<1> QED BY <1>1, <1>2, <1>3 DEF Catalog

LEMMA ServingKeepsUnits ==
  ASSUME Domains, Units, NEW g \in Gen, Serve(g)
  PROVE  Units'
<1>1. /\ DOMAIN result = Gen /\ step \in [Gen -> Steps]
      /\ catalog \in Catalog /\ existing \in [Gen -> Catalog]
      /\ \E n \in Nat : DOMAIN result[g].objectives = 1..n
  BY DEF Domains, Units
<1>2. DOMAIN <<>> = 1..0 /\ 0 \in Nat
  OBVIOUS
<1>3. CASE ListObjectives(g)
  <2>1. \A h \in Gen \ {g} : result'[h] = result[h] /\ step'[h] = step[h]
    BY <1>1, <1>3 DEF ListObjectives, Goto
  <2>2. step'[g] = "model" /\ result'[g] = result[g]
    BY <1>1, <1>3 DEF ListObjectives, Goto
  <2> QED BY <1>1, <1>3, <2>1, <2>2, UnitsOfOne DEF ListObjectives
<1>4. ASSUME NEW from, Errs(g, from), catalog' = catalog PROVE Units'
  <2>1. \A h \in Gen \ {g} : result'[h] = result[h] /\ step'[h] = step[h]
    BY <1>1, <1>4 DEF Errs, Goto
  <2>2. step'[g] = "error" /\ result'[g].objectives = <<>>
    BY <1>1, <1>4 DEF Errs, Goto, NoResult
  <2> QED BY <1>1, <1>2, <1>4, <2>1, <2>2, UnitsOfOne, UnreadIsCatalog DEF Errs, Forgets
<1>5. CASE ModelAnswers(g)
  <2>1. PICK answer \in Answers :
          IF IsValid(answer, existing[g], {})
          THEN LET built == BuildResult(answer, existing[g], DomainsOf(existing[g]), {}) IN
               /\ result' = [result EXCEPT ![g] =
                    [objectives |-> built.objectives, questions |-> built.questions]]
               /\ Goto(g, "model", IF built.objectives = <<>> THEN "replace" ELSE "upsert")
               /\ UNCHANGED existing
          ELSE Errs(g, "model")
    BY <1>5 DEF ModelAnswers
  <2>2. catalog' = catalog
    BY <1>5 DEF ModelAnswers
  <2>3. CASE ~IsValid(answer, existing[g], {})
    BY <1>4, <2>1, <2>2, <2>3
  <2>4. CASE IsValid(answer, existing[g], {})
    <3> DEFINE objectives == ProposedBy(answer, DomainsOf(existing[g]), {})
    <3>1. /\ result'[g].objectives = objectives
          /\ \A h \in Gen \ {g} : result'[h] = result[h] /\ step'[h] = step[h]
          /\ existing' = existing
      BY <1>1, <2>1, <2>4 DEF BuildResult, Goto
    <3>2. answer.objectives \in Seq(Proposed)
      BY AnswerAssumption
    <3>3. /\ DOMAIN objectives = 1..Len(answer.objectives) /\ Len(answer.objectives) \in Nat
          /\ \A i \in DOMAIN objectives :
               /\ answer.objectives[i] \in Proposed
               /\ objectives[i] = [answer.objectives[i] EXCEPT
                                     !.domain = Reconciled(@, DomainsOf(existing[g]))]
      BY <3>2 DEF ProposedBy
    <3>4. ASSUME NEW i \in DOMAIN objectives
          PROVE  /\ objectives[i].objective_id \in Objective
                 /\ \E domain \in Domain :
                      objectives[i].domain = Reconciled(domain, DomainsOf(existing[g]))
      <4>1. /\ answer.objectives[i].objective_id \in Objective
            /\ answer.objectives[i].domain \in Domain
            /\ objectives[i].objective_id = answer.objectives[i].objective_id
            /\ objectives[i].domain = Reconciled(answer.objectives[i].domain, DomainsOf(existing[g]))
        BY <3>3 DEF Proposed, Domain
      <4> QED BY <4>1
    <3> HIDE DEF objectives
    <3>5. Reconciling(g)'
      BY <3>1, <3>4 DEF Reconciling, DomainsOf
    <3>6. \E n \in Nat : DOMAIN result'[g].objectives = 1..n
      BY <3>1, <3>3
    <3>7. existing' = [existing EXCEPT ![g] = existing[g]] /\ existing[g] \in Catalog
      BY <1>1, <3>1
    <3> QED BY <1>1, <2>2, <3>1, <3>5, <3>6, <3>7, UnitsOfOne
  <2> QED BY <2>3, <2>4
<1>6. CASE UpsertObjectives(g)
  <2>1. \A h \in Gen \ {g} : result'[h] = result[h] /\ step'[h] = step[h]
    BY <1>1, <1>6 DEF UpsertObjectives, Goto
  <2>2. step'[g] = "replace" /\ result'[g] = result[g]
    BY <1>1, <1>6 DEF UpsertObjectives, Goto
  <2>3. catalog' \in Catalog
    BY <1>6, UpsertKeepsCatalog
  <2> QED BY <1>1, <1>6, <2>1, <2>2, <2>3, UnitsOfOne, UnreadIsCatalog DEF UpsertObjectives, Forgets
<1>7. CASE ReplaceQuestions(g)
  <2>1. \A h \in Gen \ {g} : result'[h] = result[h] /\ step'[h] = step[h]
    BY <1>1, <1>7 DEF ReplaceQuestions, Goto
  <2>2. step'[g] # "upsert" /\ result'[g].objectives = <<>>
    BY <1>1, <1>7 DEF ReplaceQuestions, Goto
  <2> QED BY <1>1, <1>2, <1>7, <2>1, <2>2, UnitsOfOne, UnreadIsCatalog DEF ReplaceQuestions, Forgets
<1>8. CASE DeleteSees(g)
  <2>1. \A h \in Gen : step'[h] = step[h] \/ step'[h] = "insert"
    BY <1>1, <1>8 DEF DeleteSees, Goto
  <2> QED BY <1>8, <2>1 DEF DeleteSees, Units, Reconciling
<1> QED BY <1>3, <1>4, <1>5, <1>6, <1>7, <1>8 DEF Serve, ModelFails, Unavailable

LEMMA UnitsStep == IInv /\ Units /\ [Next]_vars => Units'
<1> SUFFICES ASSUME IInv, Units, [Next]_vars PROVE Units'
  OBVIOUS
<1>0. Domains
  BY DEF IInv
<1>1. ASSUME NEW g \in Gen, Generating(g) PROVE Units'
  BY <1>0, <1>1, ServingKeepsUnits DEF Generating
<1>2. ASSUME NEW g \in Gen, Generate(g) PROVE Units'
  <2>1. /\ UNCHANGED <<catalog, existing, result>>
        /\ \A h \in Gen : step'[h] = step[h] \/ step'[h] = "list"
    BY <1>0, <1>2 DEF Generate, Ask, Goto, Domains
  <2> QED BY <2>1 DEF Units, Reconciling
<1>3. CASE UNCHANGED genVars
  BY <1>3 DEF Units, Reconciling, genVars
<1>4. \/ UNCHANGED genVars
      \/ \E g \in Gen : Generating(g) \/ Generate(g)
  BY DEF Next, Page, Network, Render, Leave, Reload, Submit, Open, ListMaterial, UploadMaterial, Listed,
     Opened, Uploaded, UploadFailed, UploadUnheard, Reports, GenerationSucceeds, GenerationFails, Hears,
     vars
<1> QED BY <1>1, <1>2, <1>3, <1>4

(* The upsert of a generation is the only step that changes a unit.         *)
LEMMA UnitStep ==
  ASSUME IInv, Units, Next, NEW o \in Objective, NEW p \in Objective,
         Apart(catalog', o, p), ~Apart(catalog, o, p), catalog'[o] # catalog[o]
  PROVE  \E g \in Gen :
           /\ step[g] = "upsert" /\ step'[g] = "replace"
           /\ \/ existing[g][p] # catalog'[p]
              \/ Stripped[catalog'[p]] # catalog'[p]
              \/ \E k \in Objective : Apart(existing[g], k, p)
<1>1. PICK g \in Gen : UpsertObjectives(g)
  BY DEF Next, Page, Network, Render, Leave, Reload, Submit, Open, ListMaterial, UploadMaterial, Listed,
     Opened, Uploaded, UploadFailed, UploadUnheard, Reports, GenerationSucceeds, GenerationFails, Hears,
     Generate, Ask, Generating, Serve, ListObjectives, ModelFails, ModelAnswers, DeleteSees,
     ReplaceQuestions, Unavailable, genVars
<1>2. /\ step[g] = "upsert" /\ step'[g] = "replace" /\ Reconciling(g)
      /\ catalog' = Upserted(result[g].objectives) /\ existing[g] \in Catalog
  BY <1>1 DEF UpsertObjectives, Goto, Units, IInv, Domains
<1>3. PICK i \in DOMAIN result[g].objectives : catalog'[o] = result[g].objectives[i].domain
  BY <1>2, UpsertedFrom
<1>4. PICK domain \in Domain : catalog'[o] = Reconciled(domain, DomainsOf(existing[g]))
  BY <1>2, <1>3 DEF Reconciling
<1>5. ASSUME existing[g][p] = catalog'[p], Stripped[catalog'[p]] = catalog'[p]
      PROVE  \E k \in Objective : Apart(existing[g], k, p)
  <2>1. /\ existing[g][p] \in Spelling /\ catalog'[o] \in Spelling
        /\ catalog'[o] # existing[g][p] /\ Folded[catalog'[o]] = Folded[existing[g][p]]
    BY <1>5 DEF Apart
  <2> QED BY <1>2, <1>4, <1>5, <2>1, ReconciledIsKnown
<1> QED BY <1>2, <1>5

(* generate/prompting.py, _reconciled_domain: a generation that was told of *)
(* a unit does not found it a second time in another spelling.              *)
THEOREM NoUnitIsFoundedTwice == MaterialSpec => UnitsAreKept
<1> DEFINE Action ==
      \A o, p \in Objective :
        Apart(catalog', o, p) /\ ~Apart(catalog, o, p) /\ catalog'[o] # catalog[o] =>
          \E g \in Gen :
            /\ step[g] = "upsert" /\ step'[g] = "replace"
            /\ \/ existing[g][p] # catalog'[p]
               \/ Stripped[catalog'[p]] # catalog'[p]
               \/ \E k \in Objective : Apart(existing[g], k, p)
<1>1. IInv /\ Units /\ [Next]_vars => [Action]_vars
  BY UnitStep
<1>2. MaterialSpec => []Units
  BY UnitsInitially, UnitsStep, IInvAlways, PTL DEF MaterialSpec
<1> QED BY <1>1, <1>2, IInvAlways, PTL DEF MaterialSpec, UnitsAreKept
=============================================================================
