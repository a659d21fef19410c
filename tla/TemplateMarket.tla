--------------------------- MODULE TemplateMarket ---------------------------
(* Workflow templates, their recorder and their marketplace                  *)
(* (internal/template).  The template repository gives out the stored        *)
(* pointers, so services write live templates without a lock; the listings   *)
(* are given out as copies, so two writers of a listing overwrite each other *)
(* whole.  Of a template's content the model keeps two fields, `name` and    *)
(* `steps`, each holding the mark of the write it comes from.                *)
EXTENDS Naturals, Sequences, Functions

CONSTANTS Id,         \* the ids templates get, each once
          User,       \* authors and installers
          Client,     \* concurrent callers, whose names mark what they write
          Rating,     \* grades of a review
          Fields,     \* what an update may give: sets of "name" and "steps"
          MaxReviews, \* bound: reviews of a template
          MaxInstalls \* bound: installs of a listing

\* What stands for the recorder among the ids.
Recorder == 0

VARIABLES templates, \* MemoryRepository.data
          listings,  \* InMemoryMarketplaceRepo.data, by template id
          reviews,   \* InMemoryReviewRepo.data, by template id
          recorder,  \* InMemoryRecorder
          op,        \* what each caller is in
          used,      \* history: ids given so far
          installs,  \* history: installs of each listing since it was published
          clashed,   \* history: templates, listings (and the recorder) with two writers at once
          given      \* history: the marks of the last calls that gave each field of a template

vars == <<templates, listings, reviews, recorder, op, used, installs, clashed, given>>

Idle == [call |-> "idle"]
Begin(c, call) == op' = [op EXCEPT ![c] = call]
Go(c, call) == op' = [op EXCEPT ![c].call = call]
Done(c) == op' = [op EXCEPT ![c] = Idle]

\* Another caller is in the middle of something on id (or on the recorder).
OnIt(id) == \E d \in Client : op[d] # Idle /\ op[d].id = id
Meet(id) == clashed' = IF OnIt(id) THEN clashed \cup {id} ELSE clashed

Live(id) == id \in DOMAIN templates
Listed(id) == id \in DOMAIN listings
With(f, id, value) == [j \in DOMAIN f \cup {id} |-> IF j = id THEN value ELSE f[j]]
Minus(f, id) == [j \in DOMAIN f \ {id} |-> f[j]]
\* Writing a field of a template that is gone by now is seen by nobody.
Assign(id, field, value) ==
  templates' = IF Live(id) THEN [templates EXCEPT ![id][field] = value] ELSE templates

Fresh(id) == id \in Id \ used /\ \A j \in Id \ used : id <= j
Template(author, name, steps) ==
  [author |-> author, name |-> name, steps |-> steps, public |-> FALSE, rating |-> <<0, 1>>]
Listing(c) == [version |-> c, featured |-> FALSE, installs |-> 0]

Init ==
  /\ templates = <<>> /\ listings = <<>> /\ used = {} /\ clashed = {}
  /\ reviews = [i \in Id |-> <<>>] /\ installs = [i \in Id |-> 0]
  /\ recorder = [on |-> FALSE, agent |-> "none", name |-> "none", steps |-> "none"]
  /\ op = [c \in Client |-> Idle]
  /\ given = [i \in Id |-> [name |-> "none", steps |-> "none"]]

\* service.Create.
Create(c, user) ==
  /\ op[c] = Idle
  /\ \E id \in Id :
       /\ Fresh(id) /\ used' = used \cup {id}
       /\ templates' = With(templates, id, Template(user, c, c))
       /\ given' = [given EXCEPT ![id] = [name |-> c, steps |-> c]]
  /\ UNCHANGED <<listings, reviews, recorder, op, installs, clashed>>

\* service.Update: the pointer, then those of its fields that are given; `public`
\* always is.
BeginUpdate(c, id, fields) ==
  /\ op[c] = Idle /\ Live(id)
  /\ Begin(c, [call |-> "updateName", id |-> id, fields |-> fields]) /\ Meet(id)
  /\ UNCHANGED <<templates, listings, reviews, recorder, used, installs, given>>
UpdateName(c) ==
  /\ op[c].call = "updateName"
  /\ IF "name" \in op[c].fields THEN Assign(op[c].id, "name", c) ELSE UNCHANGED templates
  /\ Go(c, "updateSteps")
  /\ UNCHANGED <<listings, reviews, recorder, used, installs, clashed, given>>
UpdateSteps(c, public) ==
  /\ op[c].call = "updateSteps"
  /\ LET id == op[c].id
         Mark(field, old) == IF field \in op[c].fields THEN c ELSE old
     IN /\ templates' = IF Live(id)
                        THEN [templates EXCEPT ![id].steps = Mark("steps", @), ![id].public = public]
                        ELSE templates
        /\ given' = [given EXCEPT ![id] = [name |-> Mark("name", @.name), steps |-> Mark("steps", @.steps)]]
  /\ Done(c)
  /\ UNCHANGED <<listings, reviews, recorder, used, installs, clashed>>

\* service.Delete: the listing and the reviews stay.
Delete(c, id) ==
  /\ op[c] = Idle /\ Live(id)
  /\ templates' = Minus(templates, id)
  /\ UNCHANGED <<listings, reviews, recorder, op, used, installs, clashed, given>>

\* Publish: the template, no listing yet, public, then the listing, which
\* another Publish may have made by now.
BeginPublish(c, id) ==
  /\ op[c] = Idle /\ Live(id) /\ ~Listed(id)
  /\ Begin(c, [call |-> "publish", id |-> id]) /\ Meet(id)
  /\ UNCHANGED <<templates, listings, reviews, recorder, used, installs, given>>
MakePublic(c) ==
  /\ op[c].call = "publish"
  /\ Assign(op[c].id, "public", TRUE)
  /\ IF Live(op[c].id) THEN Go(c, "list") ELSE Done(c)
  /\ UNCHANGED <<listings, reviews, recorder, used, installs, clashed, given>>
List(c) ==
  /\ op[c].call = "list"
  /\ LET id == op[c].id IN
       IF Listed(id) THEN UNCHANGED <<listings, installs>>
       ELSE listings' = With(listings, id, Listing(c)) /\ installs' = [installs EXCEPT ![id] = 0]
  /\ Done(c)
  /\ UNCHANGED <<templates, reviews, recorder, used, clashed, given>>

\* Unpublish: the template stays public.
Unpublish(c, id) ==
  /\ op[c] = Idle /\ Listed(id)
  /\ listings' = Minus(listings, id)
  /\ clashed' = IF OnIt(id) THEN clashed \cup {id} ELSE clashed
  /\ UNCHANGED <<templates, reviews, recorder, op, used, installs, given>>

\* UpdateListing and SetFeatured: a copy is changed and put back whole, if the
\* id is still listed.
BeginEdit(c, id, field) ==
  /\ op[c] = Idle /\ Listed(id)
  /\ Begin(c, [call |-> "edit", id |-> id,
               copy |-> [listings[id] EXCEPT ![field] = IF field = "version" THEN c ELSE ~@]])
  /\ Meet(id)
  /\ UNCHANGED <<templates, listings, reviews, recorder, used, installs, given>>
PutBack(id, copy) == listings' = IF Listed(id) THEN [listings EXCEPT ![id] = copy] ELSE listings
Edit(c) ==
  /\ op[c].call = "edit"
  /\ PutBack(op[c].id, op[c].copy) /\ Done(c)
  /\ UNCHANGED <<templates, reviews, recorder, used, installs, clashed, given>>

\* Install: a copy of the listing; the original, unless it is the installer's
\* own, copied field by field into a private template; one install more.
BeginInstall(c, id, user) ==
  /\ op[c] = Idle /\ Listed(id) /\ installs[id] < MaxInstalls
  /\ Begin(c, [call |-> "original", id |-> id, user |-> user, copy |-> listings[id]]) /\ Meet(id)
  /\ UNCHANGED <<templates, listings, reviews, recorder, used, installs, given>>
Original(c) ==
  /\ op[c].call = "original"
  /\ LET id == op[c].id IN
       IF Live(id) /\ templates[id].author # op[c].user
       THEN op' = [op EXCEPT ![c] = [call |-> "fork", id |-> id, user |-> op[c].user,
                                     copy |-> op[c].copy, name |-> templates[id].name,
                                     steps |-> templates[id].steps]]
       ELSE Done(c)
  /\ UNCHANGED <<templates, listings, reviews, recorder, used, installs, clashed, given>>
\* The steps are copied after the name; a template deleted meanwhile still has
\* its own.
Fork(c) ==
  /\ op[c].call = "fork"
  /\ \E id \in Id :
       /\ Fresh(id) /\ used' = used \cup {id}
       /\ templates' = With(templates, id, Template(op[c].user, op[c].name,
            IF Live(op[c].id) THEN templates[op[c].id].steps ELSE op[c].steps))
       /\ given' = [given EXCEPT ![id] = [name |-> op[c].name, steps |-> op[c].steps]]
       \* A torn copy is the clash of its original.
       /\ clashed' = IF op[c].id \in clashed THEN clashed \cup {id} ELSE clashed
  /\ Go(c, "count")
  /\ UNCHANGED <<listings, reviews, recorder, installs>>
Count(c) ==
  /\ op[c].call = "count"
  /\ PutBack(op[c].id, [op[c].copy EXCEPT !.installs = @ + 1])
  /\ installs' = IF Listed(op[c].id) THEN [installs EXCEPT ![op[c].id] = @ + 1] ELSE installs
  /\ Done(c)
  /\ UNCHANGED <<templates, reviews, recorder, used, clashed, given>>

\* AddReview: of a listed template; the review, then the average of all.
AddReview(c, id, rating) ==
  /\ op[c] = Idle /\ Listed(id) /\ Len(reviews[id]) < MaxReviews
  /\ reviews' = [reviews EXCEPT ![id] = Append(@, rating)]
  /\ Begin(c, [call |-> "average", id |-> id]) /\ Meet(id)
  /\ UNCHANGED <<templates, listings, recorder, used, installs, given>>
Total(grades) == FoldFunction(+, 0, grades)
Averaged(id) == <<Total(reviews[id]), Len(reviews[id])>>
Average(c) ==
  /\ op[c].call = "average"
  /\ IF Live(op[c].id)
     THEN op' = [op EXCEPT ![c] = [call |-> "rate", id |-> op[c].id, rating |-> Averaged(op[c].id)]]
     ELSE Done(c)
  /\ UNCHANGED <<templates, listings, reviews, recorder, used, installs, clashed, given>>
SetRating(c) ==
  /\ op[c].call = "rate"
  /\ Assign(op[c].id, "rating", op[c].rating) /\ Done(c)
  /\ UNCHANGED <<listings, reviews, recorder, used, installs, clashed, given>>

\* The one recorder of the program.  The steps carry the recording's mark.
StartRecording(c, user) ==
  /\ op[c] = Idle /\ ~recorder.on
  /\ recorder' = [on |-> TRUE, agent |-> user, name |-> c, steps |-> c]
  /\ clashed' = IF OnIt(Recorder) THEN clashed \cup {Recorder} ELSE clashed
  /\ UNCHANGED <<templates, listings, reviews, op, used, installs, given>>
\* StopRecording copies the steps under the lock and the name after it.
StopRecording(c) ==
  /\ op[c] = Idle /\ recorder.on
  /\ Begin(c, [call |-> "recorded", id |-> Recorder, steps |-> recorder.steps])
  /\ recorder' = [recorder EXCEPT !.on = FALSE]
  /\ UNCHANGED <<templates, listings, reviews, used, installs, clashed, given>>
Recorded(c) ==
  /\ op[c].call = "recorded"
  /\ \E id \in Id :
       /\ Fresh(id) /\ used' = used \cup {id}
       /\ templates' = With(templates, id, Template(recorder.agent, recorder.name, op[c].steps))
       /\ given' = [given EXCEPT ![id] = [name |-> op[c].steps, steps |-> op[c].steps]]
       /\ clashed' = IF Recorder \in clashed THEN clashed \cup {id} ELSE clashed
  /\ Done(c)
  /\ UNCHANGED <<listings, reviews, recorder, installs>>

Next ==
  \E c \in Client :
    \/ \E user \in User : Create(c, user) \/ StartRecording(c, user)
    \/ \E id \in Id : \/ Delete(c, id) \/ BeginPublish(c, id) \/ Unpublish(c, id)
                      \/ \E field \in {"version", "featured"} : BeginEdit(c, id, field)
                      \/ \E fields \in Fields : BeginUpdate(c, id, fields)
                      \/ \E user \in User : BeginInstall(c, id, user)
                      \/ \E rating \in Rating : AddReview(c, id, rating)
    \/ UpdateName(c) \/ (\E public \in BOOLEAN : UpdateSteps(c, public)) \/ MakePublic(c) \/ List(c) \/ Edit(c)
    \/ Original(c) \/ Fork(c) \/ Count(c) \/ Average(c) \/ SetRating(c)
    \/ StopRecording(c) \/ Recorded(c)

Spec == Init /\ [][Next]_vars

-----------------------------------------------------------------------------
Settled(id) == id \notin clashed /\ ~OnIt(id)

TypeOK ==
  /\ used \subseteq Id /\ DOMAIN templates \subseteq used /\ DOMAIN listings \subseteq used
  /\ \A id \in DOMAIN templates : templates[id].author \in User /\ templates[id].public \in BOOLEAN
  /\ clashed \subseteq used \cup {Recorder}

\* A listing counts the installs there were since it was published, unless two
\* callers had a copy of it in hand at once.
InstallsExact ==
  \A id \in DOMAIN listings : Settled(id) => listings[id].installs = installs[id]

\* The rating of a template is the average of all its reviews, whichever order
\* they came in, unless two callers wrote the template at once.
RatingExact ==
  \A id \in DOMAIN templates :
    Settled(id) /\ reviews[id] # <<>> => templates[id].rating = Averaged(id)

\* A template is never torn: each field is of the last call that gave it, a fork
\* is what its original was at one time, and a recording has the name and the
\* steps of one recording, unless writers clashed.
TemplateWhole ==
  \A id \in DOMAIN templates :
    Settled(id) => templates[id].name = given[id].name /\ templates[id].steps = given[id].steps
=============================================================================
