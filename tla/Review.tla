------------------------------- MODULE Review -------------------------------
(***************************************************************************)
(* The review: messages are filed as a scan reads them, grouped into       *)
(* candidates, corrected by the user, selected into an immutable plan and  *)
(* confirmed.  (backend/app/pipeline.py, candidates/grouper.py, actions/   *)
(* planner.py, api/candidates.py, api/action_plans.py.)                    *)
(*                                                                         *)
(* All of it is in the memory of one process and lost when that restarts;  *)
(* the browser tabs, and what the user has read in them, remain.  What a   *)
(* confirmed plan does is the subject of Execution.                        *)
(***************************************************************************)
EXTENDS MailReading

CONSTANTS
  Mail,            \* Gmail message ids
  Content,         \* the message behind each id
  Answer,          \* answers of the model
  Tab,             \* open browser tabs
  Plan,            \* plan ids, never reused
  Verdict,         \* categories that the user corrects to
  MaxItems,        \* bound: items of a plan
  MaxRevision,     \* bound: revisions of a candidate
  MaxRestarts      \* bound: process restarts

VARIABLES
  filed,           \* InMemoryCandidateCatalog._messages: category of each message
  correction,      \* _corrections, and revision 1 for a candidate without one
  request,         \* per tab: the plan being created
  plans,           \* ActionPlanService._plans
  \* what the user has seen
  view,            \* per tab: the candidate list as last loaded
  shown,           \* the plans presented for confirmation
  \* history
  consents,        \* confirmations that were accepted
  life             \* number of this process

memory == <<filed, correction, request, plans>>
vars   == <<memory, view, shown, consents, life>>

Offers     == [m \in Mail |-> Discover(Content[m])]
KeyOf      == [m \in {n \in Mail : Offers[n] # <<>>} |-> GroupKey(Content[m], Offers[m])]
Candidate  == {KeyOf[m] : m \in DOMAIN KeyOf}
Categories == [m \in Mail |-> {Classify(Content[m], AskModel(first, second)) :
                                 first, second \in Answer \cup {None}}]

(* Messages are dated, and no two have the same date; what is read of them *)
(* are sequences, of offers with one of the three methods.                 *)
ASSUME ReviewConstants ==
  /\ Verdict \subseteq Category
  /\ Answer \subseteq [category : Category, sure : BOOLEAN, quote : Kind]
  /\ MaxRevision \in Nat \ {0} /\ MaxItems \in Nat /\ MaxRestarts \in Nat
  /\ \A m \in Mail : /\ Content[m].sent \in Nat
                     /\ Content[m].subject \in Seq(Kind) /\ OwnText(Content[m]) \in Seq(Kind)
                     /\ Offers[m] \in Seq(Range(Offers[m]))
                     /\ \A o \in Range(Offers[m]) : o.method \in DOMAIN Priority
  /\ Opening \in Nat /\ Window \in Nat \ {0} /\ Footer \in Nat
  /\ \A m, n \in Mail : Content[m].sent = Content[n].sent => m = n
  /\ None \notin Category /\ None \notin Candidate

Correction  == [revision : 1..MaxRevision, category : Verdict \cup {None}]
Uncorrected == [revision |-> 1, category |-> None]
Selection   == UNION {[1..n -> Candidate] : n \in 1..MaxItems}

-----------------------------------------------------------------------------
(* Grouping, computed anew at every use.                                   *)
Members(k) == {m \in DOMAIN KeyOf : KeyOf[m] = k /\ filed[m] # None}
Listed(k)  == Members(k) # {}

GroupCategory(k) ==
  LET cs == {filed[m] : m \in Members(k)}
  IN  IF \E c \in cs : cs = {c} THEN CHOOSE c \in cs : TRUE ELSE "unclear"

CategoryOf(k) ==
  IF correction[k].category # None THEN correction[k].category ELSE GroupCategory(k)

Precedes(o, p) ==
  LET rank(q) == Priority[Offers[q[1]][q[2]].method]
  IN  \/ rank(o) < rank(p)
      \/ /\ rank(o) = rank(p)
         /\ \/ Content[o[1]].sent < Content[p[1]].sent
            \/ o[1] = p[1] /\ o[2] <= p[2]

(* The first offer of the best method, oldest message first.               *)
OffersIn(mails) == UNION {{m} \X DOMAIN Offers[m] : m \in mails}
Best(offers) ==
  LET best == CHOOSE o \in offers : \A p \in offers : Precedes(o, p)
  IN  Offers[best[1]][best[2]]
MethodOf(k) == Best(OffersIn(Members(k)))

(* What a candidate looks like to the requests made about it.              *)
Card(k) == IF Listed(k) THEN correction[k] ELSE None

-----------------------------------------------------------------------------
(* A plan item; basis, a history field, is the correction it was made under. *)
ItemOf(k) ==
  [id |-> k, revision |-> correction[k].revision, method |-> MethodOf(k).method,
   target |-> MethodOf(k).target, basis |-> correction[k]]

(* Variant: the digest covers the destination but not the query, which     *)
(* says whose subscription ends.                                           *)
DigestWithoutToken(items) ==
  [i \in DOMAIN items |-> <<items[i].id, items[i].revision, items[i].method,
                             [items[i].target EXCEPT !.token = "none"]>>]

(* SHA-256 over candidate, revision, method, target and mail draft; the    *)
(* draft is a function of the target.  Modelled as what is hashed.         *)
Digest(items) ==
  [i \in DOMAIN items |-> <<items[i].id, items[i].revision, items[i].method, items[i].target>>]

-----------------------------------------------------------------------------
Init ==
  /\ filed = [m \in Mail |-> None]
  /\ correction = [k \in Candidate |-> Uncorrected]
  /\ request = [t \in Tab |-> None]
  /\ plans = [p \in Plan |-> None]
  /\ view = [t \in Tab |-> [life |-> 0, cards |-> [k \in Candidate |-> None]]]
  /\ shown = {} /\ consents = {} /\ life = 0

(* The coroutines that create plans give up the event loop only while a    *)
(* host name is resolved.                                                  *)
LoopIdle == \A t \in Tab : request[t] # None => request[t].waiting

(* ProcessingPipeline.process: also a message that is filed already, when  *)
(* another scan reads it.                                                  *)
File(m) ==
  /\ LoopIdle
  /\ \E c \in Categories[m] : filed' = [filed EXCEPT ![m] = c]
  /\ UNCHANGED <<correction, request, plans, view, shown, consents, life>>

(* The list is refused as a whole when one destination has no display form. *)
Displayable(k) == MethodOf(k).method = "mailto" => MethodOf(k).target.sound

List(t) ==
  /\ LoopIdle
  /\ \A k \in Candidate : Listed(k) => Displayable(k)
  /\ view' = [view EXCEPT ![t] = [life |-> life, cards |-> [k \in Candidate |-> Card(k)]]]
  /\ UNCHANGED <<memory, shown, consents, life>>

(* The page puts the answer in the place of the old card; the answer has   *)
(* the display form of the destination, and there may be none.             *)
Answered(t, k) ==
  view' = IF Displayable(k) THEN [view EXCEPT ![t].cards[k] = correction'[k]] ELSE view

(* Variant: the expected revision is not compared.                         *)
CorrectUnchecked(t, k, c) ==
  /\ LoopIdle
  /\ view[t].cards[k] # None /\ Listed(k)
  /\ correction[k].revision < MaxRevision
  /\ correction' = [correction EXCEPT ![k] = [revision |-> @.revision + 1, category |-> c]]
  /\ Answered(t, k)
  /\ UNCHANGED <<filed, request, plans, shown, consents, life>>

(* PATCH /api/candidates/{id} with the revision that the tab shows.        *)
Correct(t, k, c) ==
  /\ LoopIdle
  /\ view[t].cards[k] # None /\ Listed(k)
  /\ view[t].cards[k].revision = correction[k].revision
  /\ correction[k].revision < MaxRevision
  /\ correction' = [correction EXCEPT ![k] = [revision |-> @.revision + 1, category |-> c]]
  /\ Answered(t, k)
  /\ UNCHANGED <<filed, request, plans, shown, consents, life>>

-----------------------------------------------------------------------------
(* POST /api/action-plans with the selected candidates of the tab.  The    *)
(* plan's id is drawn when it is complete; being unique, it may be drawn   *)
(* here.                                                                   *)
Select(t, ids, p) ==
  /\ LoopIdle /\ request[t] = None
  /\ \A s \in shown : s.plan # p
  /\ \A u \in Tab : request[u] # None => request[u].plan # p
  /\ \A i, j \in DOMAIN ids : ids[i] = ids[j] => i = j
  /\ \A i \in DOMAIN ids : view[t].cards[ids[i]] # None
  /\ request' = [request EXCEPT ![t] =
       [todo |-> [i \in DOMAIN ids |-> <<ids[i], view[t].cards[ids[i]].revision>>],
        items |-> <<>>, waiting |-> FALSE, plan |-> p]]
  /\ UNCHANGED <<filed, correction, plans, view, shown, consents, life>>

Running(t) == request[t] # None /\ ~request[t].waiting

(* Not found, stale, or a mail draft that cannot be sent: 404, 409, 422.   *)
Refused(k, revision) ==
  ~Listed(k) \/ correction[k].revision # revision \/ ~Displayable(k)

(* One selection; then a web address waits for validate_at_plan_time.      *)
Resolve(t) ==
  /\ Running(t) /\ request[t].todo # <<>>
  /\ LET k == Head(request[t].todo)[1]
     IN  request' = [request EXCEPT ![t] =
           IF Refused(k, Head(request[t].todo)[2]) THEN None
           ELSE [todo |-> Tail(@.todo), items |-> Append(@.items, ItemOf(k)),
                 waiting |-> MethodOf(k).method # "mailto", plan |-> @.plan]]
  /\ UNCHANGED <<filed, correction, plans, view, shown, consents, life>>

(* The policy admits only targets of a sound form, and of those only the   *)
(* ones whose host has public addresses at this moment.                    *)
Validated(t) ==
  /\ LoopIdle /\ request[t] # None
  /\ \/ /\ Last(request[t].items).target.sound
        /\ request' = [request EXCEPT ![t].waiting = FALSE]
     \/ request' = [request EXCEPT ![t] = None]
  /\ UNCHANGED <<filed, correction, plans, view, shown, consents, life>>

(* A plan as it was handed to a page, with its digest.                     *)
Presented(p, items, digest) ==
  [plan |-> p, digest |-> digest,
   items |-> [i \in DOMAIN items |->
                <<items[i].id, items[i].revision, items[i].method, items[i].target>>]]

Recorded(t) ==
  /\ plans' = [plans EXCEPT ![request[t].plan] =
       [items |-> request[t].items, digest |-> Digest(request[t].items), confirmed |-> FALSE]]
  /\ shown' = shown \cup {Presented(request[t].plan, request[t].items, Digest(request[t].items))}
  /\ request' = [request EXCEPT ![t] = None]
  /\ UNCHANGED <<filed, correction, view, consents, life>>

(* Variant: the plan is created of the items resolved so far.              *)
CreateIncomplete(t) == Running(t) /\ Recorded(t)

Create(t) == Running(t) /\ request[t].todo = <<>> /\ Recorded(t)

-----------------------------------------------------------------------------
Current(item) == Listed(item.id) /\ correction[item.id].revision = item.revision

(* Variant: the revisions of the items are not compared again.             *)
ConfirmStale(p, digest) ==
  /\ LoopIdle
  /\ plans[p] # None /\ plans[p].digest = digest /\ ~plans[p].confirmed
  /\ plans' = [plans EXCEPT ![p].confirmed = TRUE]
  /\ consents' = consents \cup {Presented(p, plans[p].items, digest)}
  /\ UNCHANGED <<filed, correction, request, view, shown, life>>

(* ActionPlanService.confirm with a digest the user has been shown.        *)
Confirm(p, digest) ==
  /\ LoopIdle
  /\ plans[p] # None /\ plans[p].digest = digest
  /\ \A i \in DOMAIN plans[p].items : Current(plans[p].items[i])
  /\ ~plans[p].confirmed
  /\ plans' = [plans EXCEPT ![p].confirmed = TRUE]
  /\ consents' = consents \cup {Presented(p, plans[p].items, digest)}
  /\ UNCHANGED <<filed, correction, request, view, shown, life>>

(* The process ends at any moment and another one starts with nothing.     *)
Restart ==
  /\ life < MaxRestarts /\ life' = life + 1
  /\ filed' = [m \in Mail |-> None]
  /\ correction' = [k \in Candidate |-> Uncorrected]
  /\ request' = [t \in Tab |-> None]
  /\ plans' = [p \in Plan |-> None]
  /\ UNCHANGED <<view, shown, consents>>

Next ==
  \/ \E m \in Mail : File(m)
  \/ \E t \in Tab :
       \/ List(t) \/ Resolve(t) \/ Validated(t) \/ Create(t)
       \/ \E k \in Candidate, c \in Verdict : Correct(t, k, c)
       \/ \E ids \in Selection, p \in Plan : Select(t, ids, p)
  \/ \E p \in Plan, s \in shown : Confirm(p, s.digest)
  \/ Restart

Spec == Init /\ [][Next]_vars
-----------------------------------------------------------------------------
Method   == {Best(S) : S \in (SUBSET OffersIn(Mail)) \ {{}}}
Item     == [id : Candidate, revision : 1..MaxRevision, method : {x.method : x \in Method},
             target : {x.target : x \in Method}, basis : Correction]
Digested == Candidate \X (1..MaxRevision) \X {x.method : x \in Method} \X {x.target : x \in Method}
Request  == [todo : Seq(Candidate \X (1..MaxRevision)), items : Seq(Item),
             waiting : BOOLEAN, plan : Plan]

TypeOK ==
  /\ filed \in [Mail -> Category \cup {None}]
  /\ correction \in [Candidate -> Correction]
  /\ request \in [Tab -> Request \cup {None}]
  /\ \A t \in Tab : request[t] # None => request[t].items # <<>> \/ request[t].todo # <<>>
  /\ plans \in [Plan -> [items : Seq(Item) \ {<<>>}, digest : Seq(Digested),
                         confirmed : BOOLEAN] \cup {None}]
  /\ view \in [Tab -> [life : 0..life, cards : [Candidate -> Correction \cup {None}]]]
  /\ shown \cup consents \subseteq [plan : Plan, digest : Seq(Digested), items : Seq(Digested)]
  /\ life \in 0..MaxRestarts

(* A digest that a page was given stands for one list of candidates,       *)
(* revisions, methods and full destinations: whatever was filed, corrected *)
(* or restarted in between, the plan confirmed under it does what the plan *)
(* on the page lists (digest_item, confirm).                               *)
ConsentIsInformed ==
  \A c \in consents, s \in shown : s.digest = c.digest => s.items = c.items

(* No plan is confirmed over a correction that its author had not seen:    *)
(* neither one made between plan and confirmation, nor one made while the  *)
(* plan was being created and waited for a host name (create, confirm).    *)
PlanOutlivesNoCorrection ==
  [][\A p \in Plan :
       plans[p] # None /\ plans'[p] # None /\ ~plans[p].confirmed /\ plans'[p].confirmed =>
         \A i \in DOMAIN plans[p].items :
           plans[p].items[i].basis = correction[plans[p].items[i].id]]_vars

(* Within one life of the process a tab replaces only the correction it    *)
(* displays: of two tabs that correct one candidate, the second is refused *)
(* until it has loaded the first one's work (expected_revision).           *)
NoBlindOverwrite ==
  [][\A t \in Tab, k \in Candidate :
       /\ life' = life /\ view[t].life = life
       /\ correction'[k] # correction[k] /\ view'[t] # view[t]
       => view[t].cards[k] = correction[k]]_vars

(* The words of a text that the extract for rules and model never leaves   *)
(* out: the opening, the end and the first signal.                         *)
Prominent(text) ==
  {i \in DOMAIN text : \/ i <= Opening
                       \/ i > Len(text) - Footer
                       \/ /\ text[i] \in Signal
                          /\ \A j \in 1..(i - 1) : text[j] \notin Signal}

(* A candidate the user did not correct is offered as marketing only if    *)
(* every message of it was opened, has no protected phrase in its subject  *)
(* or among the prominent words of its text, and was called marketing by a *)
(* sure answer of the model that quotes it (ClassificationService.classify, *)
(* EmailNormalizer._model_budget, CandidateGrouper.group).                 *)
MarketingNeedsEvidence ==
  \A k \in Candidate : \A m \in Members(k) :
    correction[k].category = None /\ CategoryOf(k) = "marketing" =>
      LET content == Content[m]
          text    == OwnText(content)
      IN  /\ ~Oversized(content)
          /\ \A i \in DOMAIN content.subject : content.subject[i] \notin Protected
          /\ \A i \in Prominent(text) : text[i] \notin Protected
          /\ \E a \in Answer : a.category = "marketing" /\ a.sure
                               /\ \E i \in DOMAIN Haystack(content) : Haystack(content)[i] = a.quote

-----------------------------------------------------------------------------
(* The inductive invariant.                                                *)

(* A correction seen earlier is the present one or has a lower revision.   *)
SeenBefore(old, present) ==
  /\ old.revision <= present.revision
  /\ old.revision = present.revision => old = present

ItemsAreBased(items, present) ==
  \A i \in DOMAIN items : /\ items[i].basis.revision = items[i].revision
                          /\ SeenBefore(items[i].basis, present[items[i].id])

RequestsAreBased ==
  \A t \in Tab : request[t] # None => ItemsAreBased(request[t].items, correction)

PlansAreShown ==
  \A p \in Plan : plans[p] # None =>
    /\ ItemsAreBased(plans[p].items, correction)
    /\ plans[p].digest = Digest(plans[p].items)

CardsAreCurrent ==
  \A t \in Tab, k \in Candidate :
    view[t].life = life /\ view[t].cards[k] # None => SeenBefore(view[t].cards[k], correction[k])

DigestsAreExact == \A s \in shown \cup consents : s.digest = s.items

FiledByRule == \A m \in Mail : filed[m] # None => filed[m] \in Categories[m]

(* Whatever is to be contacted was named, for the method it is contacted   *)
(* by, in a message of the candidate that this process has read.           *)
ItemsAreOffered(items, present) ==
  \A i \in DOMAIN items : \E m \in DOMAIN KeyOf :
    /\ KeyOf[m] = items[i].id /\ present[m] # None
    /\ \E o \in Range(Offers[m]) : o.method = items[i].method /\ o.target = items[i].target

NothingInvented ==
  /\ \A t \in Tab : request[t] # None => ItemsAreOffered(request[t].items, filed)
  /\ \A p \in Plan : plans[p] # None => ItemsAreOffered(plans[p].items, filed)

(* Requests, plans and open pages hold corrections of the past; digests    *)
(* and categories were computed by the code's rules; and no item of a plan *)
(* was invented.                                                           *)
IInv == TypeOK /\ RequestsAreBased /\ PlansAreShown /\ CardsAreCurrent
        /\ DigestsAreExact /\ FiledByRule /\ NothingInvented
-----------------------------------------------------------------------------
(* "A rescan/regroup invalidates stale confirmation": a plan is confirmed  *)
(* only while its candidates still resolve to the methods and destinations *)
(* it lists.                                                               *)
RegroupInvalidates ==
  [][\A p \in Plan :
       plans[p] # None /\ plans'[p] # None /\ ~plans[p].confirmed /\ plans'[p].confirmed =>
         \A i \in DOMAIN plans[p].items :
           LET item == plans[p].items[i]
           IN  MethodOf(item.id) = [method |-> item.method, target |-> item.target]]_vars
=============================================================================
