---------------------------- MODULE MaterialView ----------------------------
(***************************************************************************)
(* webui/js/views/material.js, and the tracker of material-state.js: the   *)
(* pages of notes of one topic in one browser tab, over the server.  Every *)
(* call of renderMaterial begins with an empty view and leaves the         *)
(* promises of the one before it to write into elements that are gone;     *)
(* a generation alone is heard of in whatever view there is by then.       *)
(* A reload begins again with an empty tracker too.                        *)
(***************************************************************************)
EXTENDS Generation

CONSTANTS
  OldPages,      \* what may be stored at first
  MaxRequests    \* bound on the reads and uploads under way at a time

ASSUME ViewAssumption == MaxRequests \in Nat /\ OldPages \subseteq SUBSET Material

VARIABLES
  pages,           \* the material stored
  rendered,        \* the material view is on screen
  list,            \* the pages in #material-list; None while it loads, and for an error
  shown,           \* the article in #material-detail; None likewise
  openMaterialId,  \* the last page that was clicked in this render
  uploading,       \* the upload button is disabled
  wire,            \* the reads and uploads under way
  tracker,         \* generationTracker
  promise          \* what has become of the promise of each generation

viewVars == <<rendered, list, shown, openMaterialId, uploading>>

pageVars == <<pages, viewVars, wire, tracker, promise>>

vars == <<genVars, pageVars>>

(* What the tracker knows of a material, and what the feedback then says *)
Untracked == [state |-> "none", of |-> 0, questions |-> 0]
Running(g) == [state |-> "running", of |-> g, questions |-> 0]
Success(g, n) == [state |-> "ok", of |-> g, questions |-> n]
Failure == [state |-> "error", of |-> 0, questions |-> 0]

Tracked ==
  {Untracked, Failure} \cup {Running(g) : g \in Gen}
    \cup [state : {"ok"}, of : Gen, questions : Nat]

(* The article of a material, with the feedback and the button painted for  *)
(* what the tracker said.                                                   *)
Article(m, painted) == [material |-> m, painted |-> painted]

(* The reads of the list at first and after an upload, of a page, and the   *)
(* uploads.  n tells two of them apart.  handled: the server has, and read  *)
(* or stored these pages.  material is what is to be read, or was uploaded. *)
(* A request that nobody waits for any more is gone from the wire.          *)
Request ==
  [n : 1..MaxRequests, kind : {"list", "relist", "detail", "upload"},
   material : Material \cup {None}, handled : BOOLEAN, pages : SUBSET Material]

MaterialInit ==
  /\ GenInit
  /\ pages \in OldPages
  /\ rendered = FALSE
  /\ list = None /\ shown = None /\ openMaterialId = None /\ uploading = FALSE
  /\ wire = {}
  /\ tracker = [m \in Material |-> Untracked]
  /\ promise = [g \in Gen |-> "none"]

-----------------------------------------------------------------------------
(* A request of api.js joins others on the wire. *)
Sends(kind, m, others) ==
  \E n \in 1..MaxRequests :
    /\ \A q \in others : q.n # n
    /\ \A k \in 1..(n - 1) : \E q \in others : q.n = k
    /\ wire' = others \cup {[n |-> n, kind |-> kind, material |-> m,
                            handled |-> FALSE, pages |-> {}]}

(* The view as its markup is, before anything arrives *)
Blank ==
  /\ list' = None /\ shown' = None /\ openMaterialId' = None /\ uploading' = FALSE

(* Mutant: the tracker belongs to the render. *)
RenderTrackingAnew ==
  /\ rendered' = TRUE /\ Blank
  /\ Sends("list", None, {})
  /\ tracker' = [m \in Material |-> Untracked]
  /\ UNCHANGED <<genVars, pages, promise>>

(* renderMaterial: on the way in, or over itself when the sign-in changes. *)
Render ==
  /\ rendered' = TRUE /\ Blank
  /\ Sends("list", None, {})
  /\ UNCHANGED <<genVars, pages, tracker, promise>>

(* On to another view *)
Leave ==
  /\ rendered
  /\ rendered' = FALSE /\ Blank
  /\ wire' = {}
  /\ UNCHANGED <<genVars, pages, tracker, promise>>

(* The tab is reloaded, or closed and opened again. *)
Reload ==
  /\ rendered' = FALSE /\ Blank
  /\ wire' = {}
  /\ tracker' = [m \in Material |-> Untracked]
  /\ promise' = [g \in Gen |-> IF promise[g] = "pending" THEN "abandoned" ELSE promise[g]]
  /\ UNCHANGED <<genVars, pages>>

-----------------------------------------------------------------------------
(* Mutant: a list is answered as it was before, from a cache. *)
ListMaterialCached(q) ==
  /\ q.kind \in {"list", "relist"} /\ ~q.handled
  /\ \E kept \in SUBSET pages :
       wire' = (wire \ {q}) \cup {[q EXCEPT !.handled = TRUE, !.pages = kept]}
  /\ UNCHANGED <<genVars, viewVars, pages, tracker, promise>>

(* The server: list_material reads the pages, upload_material adds one.     *)
ListMaterial(q) ==
  /\ q.kind \in {"list", "relist"} /\ ~q.handled
  /\ wire' = (wire \ {q}) \cup {[q EXCEPT !.handled = TRUE, !.pages = pages]}
  /\ UNCHANGED <<genVars, viewVars, pages, tracker, promise>>

UploadMaterial(q) ==
  /\ q.kind = "upload" /\ ~q.handled
  /\ \E m \in Material \ pages :
       /\ pages' = pages \cup {m}
       /\ wire' = (wire \ {q}) \cup {[q EXCEPT !.handled = TRUE, !.pages = {m}]}
  /\ UNCHANGED <<genVars, viewVars, tracker, promise>>

(* An upload whose view is gone is stored all the same, or another tab's.   *)
UploadUnheard ==
  /\ \E m \in Material \ pages : pages' = pages \cup {m}
  /\ UNCHANGED <<genVars, viewVars, wire, tracker, promise>>

-----------------------------------------------------------------------------
(* loadList goes on; after an upload, the form comes back with it.          *)
Listed(q) ==
  /\ q.kind \in {"list", "relist"}
  /\ \/ q.handled /\ list' = q.pages
     \/ list' = None
  /\ uploading' = (uploading /\ q.kind # "relist")
  /\ wire' = wire \ {q}
  /\ UNCHANGED <<genVars, pages, rendered, shown, openMaterialId, tracker, promise>>

(* A click on a page of the list: openMaterial *)
Open(m) ==
  /\ list # None /\ m \in list
  /\ openMaterialId' = m
  /\ shown' = None
  /\ Sends("detail", m, wire)
  /\ UNCHANGED <<genVars, pages, rendered, list, uploading, tracker, promise>>

(* Mutant: whatever arrives is shown. *)
OpenedAnyhow(q) ==
  /\ q.kind = "detail"
  /\ shown' \in {Article(q.material, tracker[q.material]), None}
  /\ wire' = wire \ {q}
  /\ UNCHANGED <<genVars, pages, rendered, list, openMaterialId, uploading, tracker,
                 promise>>

(* ... goes on: a page that is no longer the one last clicked is dropped.   *)
Opened(q) ==
  /\ q.kind = "detail"
  /\ IF q.material = openMaterialId
     THEN shown' \in {Article(q.material, tracker[q.material]), None}
     ELSE shown' = shown
  /\ wire' = wire \ {q}
  /\ UNCHANGED <<genVars, pages, rendered, list, openMaterialId, uploading, tracker,
                 promise>>

-----------------------------------------------------------------------------
(* The submit handler of the form *)
Submit ==
  /\ rendered /\ ~uploading
  /\ uploading' = TRUE
  /\ Sends("upload", None, wire)
  /\ UNCHANGED <<genVars, pages, rendered, list, shown, openMaterialId, tracker, promise>>

UploadFailed(q) ==
  /\ q.kind = "upload"
  /\ uploading' = FALSE
  /\ wire' = wire \ {q}
  /\ UNCHANGED <<genVars, pages, rendered, list, shown, openMaterialId, tracker,
                 promise>>

(* Mutant: the form comes back before the list does. *)
UploadedWithoutWaiting(q) ==
  /\ q.kind = "upload" /\ q.handled
  /\ list' = None
  /\ uploading' = FALSE
  /\ \E m \in q.pages : Sends("relist", m, wire \ {q})
  /\ UNCHANGED <<genVars, pages, rendered, shown, openMaterialId, tracker, promise>>

Uploaded(q) ==
  /\ q.kind = "upload" /\ q.handled
  /\ list' = None
  /\ \E m \in q.pages : Sends("relist", m, wire \ {q})
  /\ UNCHANGED <<genVars, pages, rendered, shown, openMaterialId, uploading, tracker,
                 promise>>

-----------------------------------------------------------------------------
(* paintGeneration: in the article on screen, whatever render asked for it  *)
Painted(m, state) ==
  IF shown # None /\ shown.material = m THEN Article(m, state) ELSE shown

Tracks(m, state) ==
  /\ tracker' = [tracker EXCEPT ![m] = state]
  /\ shown' = Painted(m, state)

(* generate: the tracker knows of the one that runs, in any render.         *)
Generate(g) ==
  /\ shown # None /\ shown.painted.state # "running"
  /\ tracker[shown.material].state # "running"
  /\ Ask(g, shown.material)
  /\ promise' = [promise EXCEPT ![g] = "pending"]
  /\ Tracks(shown.material, Running(g))
  /\ UNCHANGED <<pages, rendered, list, openMaterialId, uploading, wire>>

Hears(g, state) ==
  /\ Tracks(material[g], state)
  /\ UNCHANGED <<genVars, pages, rendered, list, openMaterialId, uploading, wire>>

GenerationSucceeds(g) ==
  /\ promise[g] = "pending" /\ step[g] = "ok"
  /\ promise' = [promise EXCEPT ![g] = "settled"]
  /\ Hears(g, Success(g, Len(result[g].questions)))

(* An error response, or none: then the server may still be at it.          *)
GenerationFails(g) ==
  /\ promise[g] = "pending"
  /\ promise' = [promise EXCEPT ![g] =
       IF step[g] = "error" THEN "settled" ELSE "abandoned"]
  /\ Hears(g, Failure)

-----------------------------------------------------------------------------
Page ==
  \/ Render \/ Leave \/ Reload \/ Submit
  \/ \E m \in Material : Open(m)
  \/ \E g \in Gen : Generate(g)

Network ==
  \E q \in wire :
    \/ ListMaterial(q) \/ UploadMaterial(q)
    \/ Listed(q) \/ Opened(q) \/ Uploaded(q) \/ UploadFailed(q)

Generating(g) == Serve(g) /\ UNCHANGED pageVars

Reports(g) == GenerationSucceeds(g) \/ GenerationFails(g)

Next ==
  \/ Page
  \/ Network
  \/ UploadUnheard
  \/ \E g \in Gen : Generating(g) \/ Reports(g)

MaterialSpec == MaterialInit /\ [][Next]_vars

-----------------------------------------------------------------------------
(* A material is marked as running exactly while its one generation is      *)
(* waited for: leaving the view and coming back neither starts a second one *)
(* nor leaves the button disabled for good.                                 *)
Pending(m) == {g \in Gen : promise[g] = "pending" /\ material[g] = m}

RunningIsPending ==
  \A m \in Material :
    Pending(m) = IF tracker[m].state = "running" THEN {tracker[m].of} ELSE {}

(* The article on screen says what the tracker knows, whichever render the  *)
(* generation was started in, and it is the page that was clicked last.     *)
ArticleIsTrue ==
  shown # None =>
    /\ shown.painted = tracker[shown.material]
    /\ shown.material = openMaterialId

(* Generation g and its n questions are what m has, all else that it has    *)
(* being of generations that nobody waits for.                              *)
Holds(m, g, n) ==
  /\ \A b \in bank[m] :
       (b.by = g /\ Len(b.questions) = n) \/ promise[b.by] = "abandoned"
  /\ \E b \in bank[m] : b.by = g \/ promise[b.by] = "abandoned"

(* The questions counted in a summary are those of the material, all of     *)
(* them, unless a generation that nobody waited for any more has replaced   *)
(* them since, or overlapped with the one counted and left its own beside   *)
(* them: nothing that was counted before comes on top.                      *)
SummaryIsTrue ==
  \A m \in Material :
    tracker[m].state = "ok" => Holds(m, tracker[m].of, tracker[m].questions)

(* The form is disabled from the submit until the list that is read after   *)
(* it is there.  It comes back with the page of this upload in the list on  *)
(* screen, whatever other list arrived meanwhile, or with an error: that of *)
(* the upload, or that of the list in the place of the list.                *)
UploadIsListed ==
  [][LET after(requests) == {q \in requests : q.kind \in {"upload", "relist"}} IN
     /\ uploading' <=> after(wire') # {}
     /\ \A q, r \in after(wire') : q = r
     /\ uploading /\ ~uploading' /\ list' # None =>
          \E q \in after(wire) :
            q.kind = "upload" \/ (q.kind = "relist" /\ q.material \in list')]_vars

(* Two objectives in units that differ only in case or in spaces            *)
Apart(objectives, o, p) ==
  /\ {objectives[o], objectives[p]} \subseteq Spelling
  /\ objectives[o] # objectives[p]
  /\ Folded[objectives[o]] = Folded[objectives[p]]

(* A generation that knows of a unit does not found it again in another     *)
(* spelling (generate/prompting.py: _reconciled_domain).  It may when the   *)
(* other objective is not as the model was told: it came since, or in the   *)
(* same answer; when the topic had the unit in two spellings already; and   *)
(* when it was spelled with spaces, of which domains_of tells it nothing.   *)
UnitsAreKept ==
  [][\A o, p \in Objective :
       Apart(catalog', o, p) /\ ~Apart(catalog, o, p) /\ catalog'[o] # catalog[o] =>
         \E g \in Gen :
           /\ step[g] = "upsert" /\ step'[g] = "replace"
           /\ \/ existing[g][p] # catalog'[p]
              \/ Stripped[catalog'[p]] # catalog'[p]
              \/ \E k \in Objective : Apart(existing[g], k, p)]_vars
=============================================================================
