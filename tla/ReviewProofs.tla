---------------------------- MODULE ReviewProofs ----------------------------
(***************************************************************************)
(* The safety properties of Review, for every mailbox, every number of     *)
(* tabs, plans and items, every bound and every answer of the model.       *)
(***************************************************************************)
EXTENDS Review, SequenceTheorems, WellFoundedInduction, TLAPS

(* A non-empty set of natural numbers has a least element.                 *)
LEMMA LeastNumber ==
  ASSUME NEW S \in SUBSET Nat, S # {}
  PROVE  Min(S) \in S /\ \A y \in S : Min(S) <= y
<1> DEFINE less == {p \in Nat \X Nat : p[1] < p[2]}
<1>1. IsWellFoundedOn(less, Nat)
  BY NatLessThanWellFounded DEF OpToRel
<1> HIDE DEF less
<1>2. PICK x \in S : \A y \in S : <<y, x>> \notin less
  BY <1>1, WFMin
<1>3. ASSUME NEW y \in S PROVE x <= y
  <2>1. x \in Nat /\ y \in Nat
    OBVIOUS
  <2>2. y < x => <<y, x>> \in less
    BY <2>1, Zenon DEF less
  <2> QED BY <1>2, <2>1, <2>2
<1> QED BY <1>3 DEF Min

(* Of some offers one precedes all: first by method, then by the date of   *)
(* the message, which tells messages apart, then by the place in it.       *)
LEMMA FirstOffer ==
  ASSUME NEW S \in SUBSET OffersIn(Mail), S # {}
  PROVE  \E o \in S : \A p \in S : Precedes(o, p)
<1> DEFINE rank(q) == Priority[Offers[q[1]][q[2]].method]
           sent(q) == Content[q[1]].sent
<1>1. \A q \in S : q[1] \in Mail /\ q[2] \in DOMAIN Offers[q[1]]
  BY DEF OffersIn
<1>2. \A q \in S : rank(q) \in Nat /\ sent(q) \in Nat /\ q[2] \in Nat
  <2> SUFFICES ASSUME NEW q \in S
               PROVE  rank(q) \in Nat /\ sent(q) \in Nat /\ q[2] \in Nat
    OBVIOUS
  <2>1. Offers[q[1]][q[2]] \in Range(Offers[q[1]]) /\ Offers[q[1]] \in Seq(Range(Offers[q[1]]))
    BY <1>1, ReviewConstants DEF Range
  <2>2. Offers[q[1]][q[2]].method \in DOMAIN Priority
    BY <1>1, <2>1, ReviewConstants
  <2>3. rank(q) \in Nat
    BY <2>2 DEF Priority
  <2>4. q[2] \in Nat
    BY <1>1, <2>1
  <2> QED BY <1>1, <2>3, <2>4, ReviewConstants
<1> HIDE DEF rank, sent
<1> DEFINE R  == {rank(q) : q \in S}
           S1 == {q \in S : rank(q) = Min(R)}
           T  == {sent(q) : q \in S1}
           S2 == {q \in S1 : sent(q) = Min(T)}
           P  == {q[2] : q \in S2}
<1>3. S1 # {} /\ \A q \in S : Min(R) <= rank(q)
  <2>1. R \in SUBSET Nat /\ R # {}
    BY <1>2
  <2>2. Min(R) \in R /\ \A y \in R : Min(R) <= y
    <3> HIDE DEF R
    <3> QED BY <2>1, LeastNumber
  <2> QED BY <2>2
<1>4. S2 # {} /\ \A q \in S1 : Min(T) <= sent(q)
  <2>1. T \in SUBSET Nat /\ T # {}
    BY <1>2, <1>3
  <2>2. Min(T) \in T /\ \A y \in T : Min(T) <= y
    <3> HIDE DEF T
    <3> QED BY <2>1, LeastNumber
  <2> QED BY <2>2
<1>5. \E o \in S2 : \A q \in S2 : o[2] <= q[2]
  <2>1. P \in SUBSET Nat /\ P # {}
    BY <1>2, <1>4
  <2>2. Min(P) \in P /\ \A y \in P : Min(P) <= y
    <3> HIDE DEF P
    <3> QED BY <2>1, LeastNumber
  <2> QED BY <2>2
<1>6. PICK o \in S2 : \A q \in S2 : o[2] <= q[2]
  BY <1>5
<1>7. \A q \in S2 : q[1] = o[1]
  <2>1. \A q \in S2 : q \in S /\ sent(q) = sent(o)
    OBVIOUS
  <2> QED BY <1>1, <2>1, ReviewConstants DEF sent
<1>8. ASSUME NEW p \in S
      PROVE  \/ rank(o) < rank(p)
             \/ /\ rank(o) = rank(p)
                /\ \/ sent(o) < sent(p)
                   \/ o[1] = p[1] /\ o[2] <= p[2]
  <2>1. o \in S /\ rank(o) = Min(R) /\ rank(o) \in Nat /\ rank(p) \in Nat
    BY <1>2
  <2>2. rank(o) < rank(p) \/ rank(o) = rank(p)
    BY <1>3, <2>1
  <2>3. ASSUME rank(o) = rank(p) PROVE sent(o) < sent(p) \/ sent(o) = sent(p)
    <3>1. p \in S1 /\ o \in S1 /\ sent(o) = Min(T)
      BY <2>1, <2>3
    <3>2. Min(T) <= sent(p) /\ sent(o) \in Nat /\ sent(p) \in Nat
      BY <1>2, <1>4, <2>1, <3>1
    <3> HIDE DEF T
    <3> QED BY <3>1, <3>2
  <2>4. ASSUME rank(o) = rank(p), sent(o) = sent(p) PROVE o[1] = p[1] /\ o[2] <= p[2]
    <3>1. p \in S2
      BY <2>1, <2>4
    <3> QED BY <1>6, <1>7, <3>1
  <2> QED BY <2>2, <2>3, <2>4
<1> QED BY <1>8, Zenon DEF Precedes, rank, sent

(* A listed candidate is contacted by a method that a filed message of it  *)
(* offers, and none of its filed messages offers a better one: if any      *)
(* names a one-click address, it is one-click (CandidateGrouper.group,     *)
(* grouper.py 59-76).                                                      *)
THEOREM BestMethodIsChosen ==
  ASSUME NEW k \in Candidate, Listed(k)
  PROVE  /\ \E m \in Members(k) : MethodOf(k) \in Range(Offers[m])
         /\ MethodOf(k).method \in DOMAIN Priority
         /\ \A m \in Members(k) : \A o \in Range(Offers[m]) :
              /\ Priority[MethodOf(k).method] <= Priority[o.method]
              /\ o.method = "rfc8058" => MethodOf(k).method = "rfc8058"
<1> DEFINE S == OffersIn(Members(k))
           best == CHOOSE o \in S : \A p \in S : Precedes(o, p)
<1>1. \A m \in Members(k) : m \in Mail /\ Offers[m] # <<>> /\ Offers[m] \in Seq(Range(Offers[m]))
  BY ReviewConstants DEF Members, KeyOf
<1>2. S \in SUBSET OffersIn(Mail)
  BY <1>1 DEF OffersIn
<1>3. S # {}
  <2>1. PICK m \in Members(k) : TRUE
    BY DEF Listed
  <2>2. 1 \in DOMAIN Offers[m]
    <3>1. Len(Offers[m]) \in Nat \ {0}
      BY <1>1, EmptySeq
    <3> QED BY <1>1, <3>1
  <2>3. <<m, 1>> \in {m} \X DOMAIN Offers[m]
    BY <2>2
  <2> QED BY <2>3 DEF OffersIn
<1>4. \E o \in S : \A p \in S : Precedes(o, p)
  <2> HIDE DEF S
  <2> QED BY <1>2, <1>3, FirstOffer
<1>5. best \in S /\ \A p \in S : Precedes(best, p)
  BY <1>4
<1>6. MethodOf(k) = Offers[best[1]][best[2]]
  BY DEF MethodOf, Best
<1> HIDE DEF best
<1>7. best[1] \in Members(k) /\ best[2] \in DOMAIN Offers[best[1]]
  BY <1>5 DEF OffersIn
<1>8. MethodOf(k) \in Range(Offers[best[1]])
  BY <1>6, <1>7, Zenon DEF Range
<1>9. \A m \in Members(k) : \A o \in Range(Offers[m]) : o.method \in DOMAIN Priority
  BY <1>1, ReviewConstants
<1>10. ASSUME NEW m \in Members(k), NEW o \in Range(Offers[m])
       PROVE  /\ Priority[MethodOf(k).method] <= Priority[o.method]
              /\ o.method = "rfc8058" => MethodOf(k).method = "rfc8058"
  <2>1. PICK i \in DOMAIN Offers[m] : o = Offers[m][i]
    BY DEF Range
  <2>2. <<m, i>> \in S
    BY <2>1 DEF OffersIn
  <2>3. Precedes(best, <<m, i>>)
    BY <1>5, <2>2
  <2>4. \/ Priority[MethodOf(k).method] < Priority[o.method]
        \/ Priority[MethodOf(k).method] = Priority[o.method]
    BY <1>6, <2>1, <2>3 DEF Precedes
  <2>5. o.method \in DOMAIN Priority /\ MethodOf(k).method \in DOMAIN Priority
    BY <1>7, <1>8, <1>9
  <2>6. \A x \in DOMAIN Priority : Priority[x] \in Nat /\ (Priority[x] = 0 <=> x = "rfc8058")
    BY DEF Priority
  <2> QED BY <2>4, <2>5, <2>6
<1> QED BY <1>7, <1>8, <1>9, <1>10

(* A listed candidate has a method, so an item can be made of it.          *)
LEMMA ItemType ==
  ASSUME TypeOK, NEW k \in Candidate, Listed(k)
  PROVE  ItemOf(k) \in Item
<1>1. PICK m \in Mail : m \in Members(k) /\ Offers[m] # <<>>
  BY DEF Listed, Members, KeyOf
<1>2. 1 \in DOMAIN Offers[m]
  <2>1. Offers[m] \in Seq(Range(Offers[m]))
    BY ReviewConstants
  <2>2. Len(Offers[m]) \in Nat \ {0}
    BY <1>1, <2>1, EmptySeq
  <2> QED BY <2>1, <2>2
<1>3. OffersIn(Members(k)) # {}
  <2>1. <<m, 1>> \in {m} \X DOMAIN Offers[m]
    BY <1>2
  <2> QED BY <1>1, <2>1 DEF OffersIn
<1>4. OffersIn(Members(k)) \subseteq OffersIn(Mail)
  BY DEF OffersIn, Members, KeyOf
<1>5. MethodOf(k) \in Method
  BY <1>3, <1>4 DEF MethodOf, Method
<1>6. correction[k] \in Correction /\ correction[k].revision \in 1..MaxRevision
  BY DEF TypeOK, Correction
<1> QED BY <1>5, <1>6 DEF ItemOf, Item

(* The digest of items has the type of a digest.                           *)
LEMMA DigestType ==
  ASSUME NEW items \in Seq(Item)
  PROVE  /\ Digest(items) \in Seq(Digested)
         /\ \A p \in Plan, digest \in Seq(Digested) :
              Presented(p, items, digest) \in
                [plan : Plan, digest : Seq(Digested), items : Seq(Digested)]
         /\ \A p, digest : /\ Presented(p, items, digest).items = Digest(items)
                           /\ Presented(p, items, digest).digest = digest
<1>1. \A i \in 1..Len(items) :
         <<items[i].id, items[i].revision, items[i].method, items[i].target>> \in Digested
  <2> SUFFICES ASSUME NEW i \in 1..Len(items)
               PROVE  <<items[i].id, items[i].revision, items[i].method, items[i].target>> \in Digested
    OBVIOUS
  <2> DEFINE Ms == {x.method : x \in Method}
             Ts == {x.target : x \in Method}
  <2>1. items[i] \in Item
    OBVIOUS
  <2> HIDE DEF Ms, Ts
  <2>2. Item = [id : Candidate, revision : 1..MaxRevision, method : Ms, target : Ts, basis : Correction]
    BY DEF Item, Ms, Ts
  <2>3. <<items[i].id, items[i].revision, items[i].method, items[i].target>> \in
          Candidate \X (1..MaxRevision) \X Ms \X Ts
    BY <2>1, <2>2
  <2> QED BY <2>3 DEF Digested, Ms, Ts
<1>2. Digest(items) \in Seq(Digested)
  BY <1>1 DEF Digest
<1> QED BY <1>2 DEF Presented, Digest

(* The rules make a category of every answer.                              *)
LEMMA CategoriesType == \A m \in Mail : Categories[m] \subseteq Category
<1> SUFFICES ASSUME NEW m \in Mail, NEW c \in Categories[m] PROVE c \in Category
  OBVIOUS
<1>0. PICK first \in Answer \cup {None}, second \in Answer \cup {None} :
        c = Classify(Content[m], AskModel(first, second))
  BY DEF Categories
<1>1. AskModel(first, second) \in Answer \cup {None}
  BY DEF AskModel
<1>2. \A a \in Answer : a.category \in Category
  BY ReviewConstants
<1> QED BY <1>0, <1>1, <1>2 DEF Classify, Category

-----------------------------------------------------------------------------
(* Every step keeps the types.                                             *)
LEMMA TypeStep == TypeOK /\ [Next]_vars => TypeOK'
<1> SUFFICES ASSUME TypeOK, [Next]_vars PROVE TypeOK'
  OBVIOUS
<1>0. MaxRevision \in Nat \ {0} /\ MaxRestarts \in Nat /\ Verdict \subseteq Category
  BY ReviewConstants
<1>1. CASE UNCHANGED vars
  BY <1>1 DEF TypeOK, vars, memory
<1>2. ASSUME NEW m \in Mail, File(m) PROVE TypeOK'
  BY <1>2, CategoriesType DEF TypeOK, File
<1>3. ASSUME NEW t \in Tab, List(t) PROVE TypeOK'
  <2>1. \A k \in Candidate : Card(k) \in Correction \cup {None}
    BY DEF Card, TypeOK
  <2>2. view' \in [Tab -> [life : 0..life, cards : [Candidate -> Correction \cup {None}]]]
    BY <1>3, <1>0, <2>1 DEF TypeOK, List
  <2> QED BY <1>3, <2>2 DEF TypeOK, List, memory
<1>4. ASSUME NEW t \in Tab, NEW k \in Candidate, NEW c \in Verdict, Correct(t, k, c) PROVE TypeOK'
  <2>1. correction' \in [Candidate -> Correction]
    BY <1>4, <1>0 DEF TypeOK, Correct, Correction
  <2>2. view' \in [Tab -> [life : 0..life, cards : [Candidate -> Correction \cup {None}]]]
    <3> DEFINE Cards == [Candidate -> Correction \cup {None}]
    <3>1. view \in [Tab -> [life : 0..life, cards : Cards]] /\ correction'[k] \in Correction
      BY <2>1 DEF TypeOK
    <3>2. [view[t].cards EXCEPT ![k] = correction'[k]] \in Cards
      BY <3>1
    <3> HIDE DEF Cards
    <3>3. [view EXCEPT ![t].cards = [view[t].cards EXCEPT ![k] = correction'[k]]]
            \in [Tab -> [life : 0..life, cards : Cards]]
      BY <3>1, <3>2
    <3>4. view' = view \/ view' = [view EXCEPT ![t].cards = [view[t].cards EXCEPT ![k] = correction'[k]]]
      BY <1>4 DEF Correct, Answered
    <3> QED BY <3>1, <3>3, <3>4 DEF Cards
  <2> QED BY <1>4, <2>1, <2>2 DEF TypeOK, Correct
<1>5. ASSUME NEW t \in Tab, NEW ids \in Selection, NEW p \in Plan, Select(t, ids, p) PROVE TypeOK'
  <2>1. PICK n \in 1..MaxItems : ids \in [1..n -> Candidate]
    BY DEF Selection
  <2> DEFINE todo == [i \in DOMAIN ids |-> <<ids[i], view[t].cards[ids[i]].revision>>]
  <2>2. \A i \in 1..n : ids[i] \in Candidate /\ view[t].cards[ids[i]].revision \in 1..MaxRevision
    BY <1>5, <2>1 DEF TypeOK, Select, Correction
  <2>3. todo \in Seq(Candidate \X (1..MaxRevision)) /\ todo # <<>>
    BY <2>1, <2>2, ReviewConstants
  <2> DEFINE r == [todo |-> todo, items |-> <<>>, waiting |-> FALSE, plan |-> p]
  <2>4. r \in Request
    BY <2>3 DEF Request
  <2>5. request' = [request EXCEPT ![t] = r]
    BY <1>5 DEF Select
  <2>6. r.todo # <<>>
    BY <2>3
  <2> HIDE DEF r
  <2>7. request' \in [Tab -> Request \cup {None}]
        /\ \A u \in Tab : request'[u] # None => request'[u].items # <<>> \/ request'[u].todo # <<>>
    BY <2>4, <2>5, <2>6 DEF TypeOK
  <2> QED BY <1>5, <2>7 DEF TypeOK, Select
<1>6. ASSUME NEW t \in Tab, Resolve(t) PROVE TypeOK'
  <2> DEFINE k == Head(request[t].todo)[1]
             r == [todo |-> Tail(request[t].todo), items |-> Append(request[t].items, ItemOf(k)),
                   waiting |-> MethodOf(k).method # "mailto", plan |-> request[t].plan]
  <2>1. request[t] \in Request /\ request[t].todo # <<>>
    BY <1>6 DEF TypeOK, Resolve, Running
  <2>2. k \in Candidate
    BY <2>1 DEF Request
  <2>3. request'[t] = None \/ (Listed(k) /\ request'[t] = r)
    BY <1>6 DEF TypeOK, Resolve, Refused
  <2>4. ASSUME Listed(k) PROVE r \in Request /\ r.items # <<>>
    <3>1. ItemOf(k) \in Item
      BY <2>2, <2>4, ItemType
    <3>2. Tail(request[t].todo) \in Seq(Candidate \X (1..MaxRevision)) /\ request[t].plan \in Plan
      BY <2>1 DEF Request
    <3>3. Append(request[t].items, ItemOf(k)) \in Seq(Item) /\ Append(request[t].items, ItemOf(k)) # <<>>
      <4>1. request[t].items \in Seq(Item)
        BY <2>1 DEF Request
      <4> HIDE DEF k
      <4> QED BY <3>1, <4>1
    <3> HIDE DEF k
    <3> QED BY <3>2, <3>3 DEF Request
  <2>5. \A u \in Tab : u # t => request'[u] = request[u]
    BY <1>6 DEF TypeOK, Resolve
  <2>6. request' \in [Tab -> Request \cup {None}]
        /\ \A u \in Tab : request'[u] # None => request'[u].items # <<>> \/ request'[u].todo # <<>>
    <3> HIDE DEF k, r
    <3>1. request' = [u \in Tab |-> request'[u]]
      BY <1>6 DEF TypeOK, Resolve
    <3> QED BY <2>3, <2>4, <2>5, <3>1 DEF TypeOK
  <2> QED BY <1>6, <2>6 DEF TypeOK, Resolve
<1>7. ASSUME NEW t \in Tab, Validated(t) PROVE TypeOK'
  <2>1. request[t] \in Request /\ (request[t].items # <<>> \/ request[t].todo # <<>>)
    BY <1>7 DEF TypeOK, Validated
  <2>2. CASE request' = [request EXCEPT ![t] = None]
    BY <1>7, <2>2 DEF TypeOK, Validated
  <2>3. CASE request' = [request EXCEPT ![t].waiting = FALSE]
    <3>1. request' \in [Tab -> Request \cup {None}]
          /\ \A u \in Tab : request'[u] # None => request'[u].items # <<>> \/ request'[u].todo # <<>>
      BY <2>1, <2>3 DEF TypeOK, Request
    <3> QED BY <1>7, <3>1 DEF TypeOK, Validated
  <2> QED BY <1>7, <2>2, <2>3 DEF Validated
<1>8. ASSUME NEW t \in Tab, Create(t) PROVE TypeOK'
  <2> DEFINE items == request[t].items
             plan  == [items |-> items, digest |-> Digest(items), confirmed |-> FALSE]
  <2>1. items \in Seq(Item) /\ items # <<>> /\ request[t].plan \in Plan
    BY <1>8 DEF TypeOK, Create, Running, Request
  <2>2. plan \in [items : Seq(Item) \ {<<>>}, digest : Seq(Digested), confirmed : BOOLEAN]
    BY <2>1, DigestType
  <2>3. Presented(request[t].plan, items, Digest(items)) \in
          [plan : Plan, digest : Seq(Digested), items : Seq(Digested)]
    BY <2>1, DigestType
  <2>4. plans' = [plans EXCEPT ![request[t].plan] = plan]
    BY <1>8 DEF Create, Recorded
  <2>5. shown' = shown \cup {Presented(request[t].plan, items, Digest(items))}
    BY <1>8 DEF Create, Recorded
  <2>6. request' = [request EXCEPT ![t] = None]
        /\ UNCHANGED <<filed, correction, view, consents, life>>
    BY <1>8 DEF Create, Recorded
  <2> HIDE DEF items, plan
  <2> QED BY <2>2, <2>3, <2>4, <2>5, <2>6 DEF TypeOK
<1>9. ASSUME NEW p \in Plan, NEW s \in shown, Confirm(p, s.digest) PROVE TypeOK'
  <2>1. plans[p] \in [items : Seq(Item) \ {<<>>}, digest : Seq(Digested), confirmed : BOOLEAN]
    BY <1>9 DEF TypeOK, Confirm
  <2>2. plans' \in [Plan -> [items : Seq(Item) \ {<<>>}, digest : Seq(Digested),
                              confirmed : BOOLEAN] \cup {None}]
    BY <1>9, <2>1 DEF TypeOK, Confirm
  <2>3. Presented(p, plans[p].items, s.digest) \in
          [plan : Plan, digest : Seq(Digested), items : Seq(Digested)]
    BY <1>9, <2>1, DigestType DEF Confirm
  <2>4. consents' = consents \cup {Presented(p, plans[p].items, s.digest)}
        /\ UNCHANGED <<filed, correction, request, view, shown, life>>
    BY <1>9 DEF Confirm
  <2> QED BY <2>2, <2>3, <2>4 DEF TypeOK
<1>10. CASE Restart
  BY <1>10, <1>0 DEF TypeOK, Restart, Uncorrected, Correction
<1> QED BY <1>1, <1>2, <1>3, <1>4, <1>5, <1>6, <1>7, <1>8, <1>9, <1>10 DEF Next
-----------------------------------------------------------------------------
(* What was seen of a correction stays seen while revisions grow.          *)
LEMMA SeenStays ==
  ASSUME TypeOK, NEW old \in Correction, NEW k \in Candidate, SeenBefore(old, correction[k]),
         correction'[k] = correction[k] \/ correction'[k].revision = correction[k].revision + 1
  PROVE  SeenBefore(old, correction'[k])
<1>1. old.revision \in Int /\ correction[k].revision \in Int
  BY ReviewConstants DEF TypeOK, Correction
<1> QED BY <1>1 DEF SeenBefore

(* What is current was seen.                                               *)
LEMMA SeenNow ==
  ASSUME TypeOK, NEW k \in Candidate
  PROVE  SeenBefore(correction[k], correction[k])
BY ReviewConstants DEF SeenBefore, TypeOK, Correction

(* Within a life a correction stays or gets the next revision.             *)
LEMMA CorrectionStep ==
  ASSUME TypeOK, [Next]_vars, ~Restart, NEW k \in Candidate
  PROVE  correction'[k] = correction[k] \/ correction'[k].revision = correction[k].revision + 1
<1>1. ASSUME NEW t \in Tab, NEW j \in Candidate, NEW c \in Verdict, Correct(t, j, c)
      PROVE  correction'[k] = correction[k] \/ correction'[k].revision = correction[k].revision + 1
  BY <1>1 DEF Correct, TypeOK
<1>2. ASSUME ~ \E t \in Tab, j \in Candidate, c \in Verdict : Correct(t, j, c)
      PROVE  UNCHANGED correction
  BY <1>2 DEF Next, File, List, Select, Resolve, Validated, Create, Recorded, Confirm, vars, memory
<1> QED BY <1>1, <1>2

(* Items stay based on what was seen.                                      *)
LEMMA ItemsStay ==
  ASSUME TypeOK, [Next]_vars, ~Restart, NEW items \in Seq(Item),
         ItemsAreBased(items, correction)
  PROVE  ItemsAreBased(items, correction')
<1> SUFFICES ASSUME NEW i \in DOMAIN items
             PROVE  /\ items[i].basis.revision = items[i].revision
                    /\ SeenBefore(items[i].basis, correction'[items[i].id])
  BY DEF ItemsAreBased
<1>1. items[i] \in Item
  OBVIOUS
<1>2. items[i].basis \in Correction /\ items[i].id \in Candidate
  BY <1>1 DEF Item
<1>3. /\ items[i].basis.revision = items[i].revision
      /\ SeenBefore(items[i].basis, correction[items[i].id])
  BY DEF ItemsAreBased
<1> QED BY <1>2, <1>3, SeenStays, CorrectionStep

-----------------------------------------------------------------------------
(* What changes the request of a tab.                                      *)
LEMMA RequestChanges ==
  ASSUME TypeOK, [Next]_vars, NEW t \in Tab, request'[t] # None, request'[t] # request[t], ~Restart
  PROVE  \/ Resolve(t) \/ Validated(t)
         \/ \E ids \in Selection, p \in Plan : Select(t, ids, p)
<1>0. request \in [Tab -> Request \cup {None}]
  BY DEF TypeOK
<1>1. ASSUME NEW u \in Tab, Resolve(u) \/ Validated(u) \/ Create(u)
             \/ \E ids \in Selection, p \in Plan : Select(u, ids, p)
      PROVE  u = t /\ ~Create(u)
  <2>1. u = t
    BY <1>0, <1>1 DEF Resolve, Validated, Create, Recorded, Select
  <2>2. ~Create(t)
    BY <1>0 DEF Create, Recorded
  <2> QED BY <2>1, <2>2
<1>2. ~ UNCHANGED request
  OBVIOUS
<1>3. \E u \in Tab : \/ Resolve(u) \/ Validated(u) \/ Create(u)
                   \/ \E ids \in Selection, p \in Plan : Select(u, ids, p)
  BY <1>2 DEF Next, File, List, Correct, Confirm, vars, memory
<1> QED BY <1>1, <1>3

(* Requests hold corrections of the past.                                  *)
LEMMA RequestStep == IInv /\ [Next]_vars => RequestsAreBased'
<1> SUFFICES ASSUME IInv, [Next]_vars, NEW t \in Tab, request'[t] # None
             PROVE  ItemsAreBased(request'[t].items, correction')
  BY DEF RequestsAreBased
<1>0. TypeOK /\ request \in [Tab -> Request \cup {None}]
  BY DEF IInv, TypeOK
<1>1. CASE Restart
  BY <1>1 DEF Restart
<1>2. CASE ~Restart /\ request'[t] = request[t]
  <2>1. request[t].items \in Seq(Item) /\ ItemsAreBased(request[t].items, correction)
    BY <1>0, <1>2 DEF IInv, RequestsAreBased, Request
  <2> QED BY <1>0, <1>2, <2>1, ItemsStay
<1>3. ASSUME NEW u \in Tab, NEW ids \in Selection, NEW p \in Plan, Select(u, ids, p), u = t
      PROVE  ItemsAreBased(request'[t].items, correction')
  <2>1. request'[t].items = <<>>
    BY <1>0, <1>3 DEF Select
  <2> QED BY <2>1 DEF ItemsAreBased
<1>4. ASSUME Resolve(t) PROVE ItemsAreBased(request'[t].items, correction')
  <2> DEFINE k     == Head(request[t].todo)[1]
             items == request[t].items
  <2>1. request[t] \in Request /\ request[t].todo # <<>> /\ request[t] # None
    BY <1>0, <1>4 DEF Resolve, Running
  <2>2. k \in Candidate /\ items \in Seq(Item) /\ ItemsAreBased(items, correction)
    BY <2>1 DEF Request, IInv, RequestsAreBased
  <2>3. Listed(k) /\ request'[t].items = Append(items, ItemOf(k)) /\ correction' = correction
    BY <1>0, <1>4 DEF Resolve, Refused
  <2>4. ItemOf(k) \in Item
    BY <1>0, <2>2, <2>3, ItemType
  <2>5. ItemOf(k).basis.revision = ItemOf(k).revision
        /\ ItemOf(k).basis = correction[k] /\ ItemOf(k).id = k
    BY DEF ItemOf
  <2>6. SeenBefore(ItemOf(k).basis, correction[k])
    BY <1>0, <2>2, <2>5, SeenNow
  <2> HIDE DEF k, items
  <2>7. ItemsAreBased(Append(items, ItemOf(k)), correction)
    BY <2>2, <2>4, <2>5, <2>6 DEF ItemsAreBased
  <2> QED BY <2>3, <2>7 DEF ItemsAreBased, SeenBefore
<1>5. ASSUME Validated(t) PROVE ItemsAreBased(request'[t].items, correction')
  <2>1. request[t] \in Request /\ correction' = correction /\ request[t] # None
    BY <1>0, <1>5 DEF Validated
  <2>2. request'[t].items = request[t].items
    BY <1>0, <1>5, <2>1 DEF Validated, Request
  <2> QED BY <2>1, <2>2 DEF IInv, RequestsAreBased, ItemsAreBased, SeenBefore
<1> QED BY <1>0, <1>1, <1>2, <1>3, <1>4, <1>5, RequestChanges

(* The items of plans stay based on corrections of the past.               *)
LEMMA PlanStep == IInv /\ [Next]_vars => PlansAreShown'
<1> SUFFICES ASSUME IInv, [Next]_vars, NEW p \in Plan, plans'[p] # None
             PROVE  ItemsAreBased(plans'[p].items, correction') /\ plans'[p].digest = Digest(plans'[p].items)
  BY DEF PlansAreShown, Digest
<1>0. TypeOK /\ plans \in [Plan -> [items : Seq(Item) \ {<<>>}, digest : Seq(Digested),
                                   confirmed : BOOLEAN] \cup {None}]
  BY DEF IInv, TypeOK
<1>1. CASE Restart
  BY <1>1 DEF Restart
<1>2. ASSUME ~Restart, plans'[p].items = plans[p].items, plans'[p].digest = plans[p].digest,
             plans[p] # None
      PROVE  ItemsAreBased(plans'[p].items, correction') /\ plans'[p].digest = Digest(plans'[p].items)
  <2>1. plans[p].items \in Seq(Item) /\ ItemsAreBased(plans[p].items, correction)
        /\ plans[p].digest = Digest(plans[p].items)
    BY <1>0, <1>2 DEF IInv, PlansAreShown
  <2> QED BY <1>0, <1>2, <2>1, ItemsStay
<1>3. ASSUME NEW t \in Tab, Create(t), request[t].plan = p
      PROVE  ItemsAreBased(plans'[p].items, correction') /\ plans'[p].digest = Digest(plans'[p].items)
  <2>1. request[t] # None /\ correction' = correction
        /\ plans'[p].items = request[t].items /\ plans'[p].digest = Digest(request[t].items)
    BY <1>0, <1>3 DEF Create, Recorded, Running
  <2> QED BY <2>1 DEF IInv, RequestsAreBased, ItemsAreBased, SeenBefore
<1>4. ASSUME NEW s \in shown, Confirm(p, s.digest)
      PROVE  plans[p] # None /\ plans'[p].items = plans[p].items /\ plans'[p].digest = plans[p].digest
  BY <1>0, <1>4 DEF Confirm
<1>5. ASSUME plans'[p] # plans[p], ~Restart
      PROVE  \/ \E t \in Tab : Create(t) /\ request[t].plan = p
             \/ \E s \in shown : Confirm(p, s.digest)
  BY <1>0, <1>5 DEF Next, File, List, Correct, Select, Resolve, Validated, Create, Recorded, Confirm,
     vars, memory
<1>6. Restart \/ ~Restart
  OBVIOUS
<1>7. CASE ~Restart /\ plans'[p] = plans[p]
  BY <1>2, <1>7
<1>8. CASE ~Restart /\ plans'[p] # plans[p]
  <2>1. CASE \E t \in Tab : Create(t) /\ request[t].plan = p
    BY <1>3, <2>1
  <2>2. CASE \E s \in shown : Confirm(p, s.digest)
    BY <1>2, <1>4, <1>8, <2>2
  <2> QED BY <1>5, <1>8, <2>1, <2>2
<1> QED BY <1>1, <1>7, <1>8

(* What a page of this life displays is a correction of the past.          *)
LEMMA CardStep == IInv /\ [Next]_vars => CardsAreCurrent'
<1> SUFFICES ASSUME IInv, [Next]_vars, NEW t \in Tab, NEW k \in Candidate,
                    view'[t].life = life', view'[t].cards[k] # None
             PROVE  SeenBefore(view'[t].cards[k], correction'[k])
  BY DEF CardsAreCurrent
<1>0. TypeOK /\ TypeOK'
  BY TypeStep DEF IInv
<1>1. view[t].life \in 0..life /\ life \in Int
  BY <1>0 DEF TypeOK
<1>2. CASE Restart
  BY <1>1, <1>2 DEF Restart
<1>3. ASSUME ~Restart, view'[t] = view[t] PROVE SeenBefore(view'[t].cards[k], correction'[k])
  <2>1. life' = life
    BY <1>3 DEF Next, File, List, Correct, Select, Resolve, Validated, Create, Recorded, Confirm,
       vars, memory
  <2>2. SeenBefore(view[t].cards[k], correction[k]) /\ view[t].cards[k] \in Correction
    BY <1>0, <1>3, <2>1 DEF IInv, CardsAreCurrent, TypeOK
  <2> QED BY <1>0, <1>3, <2>2, SeenStays, CorrectionStep
<1>4. ASSUME List(t) PROVE SeenBefore(view'[t].cards[k], correction'[k])
  <2>1. view'[t].cards[k] = correction[k] /\ correction' = correction
    BY <1>0, <1>4 DEF List, Card, memory, TypeOK
  <2> QED BY <1>0, <2>1, SeenNow
<1>5. ASSUME NEW j \in Candidate, NEW c \in Verdict, Correct(t, j, c), ~Restart,
             view'[t] # view[t]
      PROVE  SeenBefore(view'[t].cards[k], correction'[k])
  <2>1. view' = [view EXCEPT ![t].cards[j] = correction'[j]] /\ life' = life
    BY <1>5 DEF Correct, Answered
  <2>2. CASE k = j
    <3>1. view'[t].cards[k] = correction'[k] /\ correction'[k] \in Correction
      BY <1>0, <2>1, <2>2 DEF TypeOK
    <3> QED BY <3>1, ReviewConstants DEF SeenBefore, Correction
  <2>3. CASE k # j
    <3>1. view'[t].cards[k] = view[t].cards[k] /\ view[t].life = life
      BY <1>0, <2>1, <2>3 DEF TypeOK
    <3>2. SeenBefore(view[t].cards[k], correction[k]) /\ view[t].cards[k] \in Correction
      BY <1>0, <3>1 DEF IInv, CardsAreCurrent, TypeOK
    <3> QED BY <1>0, <1>5, <3>1, <3>2, SeenStays, CorrectionStep
  <2> QED BY <2>2, <2>3
<1>6. ASSUME view'[t] # view[t], ~Restart
      PROVE  List(t) \/ \E j \in Candidate, c \in Verdict : Correct(t, j, c)
  <2>1. \E u \in Tab : List(u) \/ \E j \in Candidate, c \in Verdict : Correct(u, j, c)
    BY <1>6 DEF Next, File, Select, Resolve, Validated, Create, Recorded, Confirm, vars, memory
  <2>2. ASSUME NEW u \in Tab, List(u) \/ \E j \in Candidate, c \in Verdict : Correct(u, j, c)
        PROVE  u = t
    BY <1>0, <1>6, <2>2 DEF List, Correct, Answered, TypeOK
  <2> QED BY <2>1, <2>2
<1> QED BY <1>2, <1>3, <1>4, <1>5, <1>6

(* Digests are computed of what is handed out, and compared.               *)
LEMMA DigestStep == IInv /\ [Next]_vars => DigestsAreExact'
<1> SUFFICES ASSUME IInv, [Next]_vars PROVE DigestsAreExact'
  OBVIOUS
<1>1. ASSUME NEW t \in Tab, Create(t) PROVE DigestsAreExact'
  <2>1. request[t].items \in Seq(Item)
    BY <1>1 DEF IInv, TypeOK, Create, Running, Request
  <2>2. shown' = shown \cup {Presented(request[t].plan, request[t].items, Digest(request[t].items))}
        /\ consents' = consents
    BY <1>1 DEF Create, Recorded
  <2> DEFINE n == Presented(request[t].plan, request[t].items, Digest(request[t].items))
  <2>3. n.digest = n.items
    BY <2>1, DigestType
  <2> HIDE DEF n
  <2> QED BY <2>2, <2>3 DEF IInv, DigestsAreExact, n
<1>2. ASSUME NEW p \in Plan, NEW s \in shown, Confirm(p, s.digest) PROVE DigestsAreExact'
  <2>1. plans[p].items \in Seq(Item) /\ plans[p].digest = Digest(plans[p].items)
        /\ plans[p].digest = s.digest
    BY <1>2 DEF IInv, TypeOK, PlansAreShown, Confirm
  <2>2. consents' = consents \cup {Presented(p, plans[p].items, s.digest)} /\ shown' = shown
    BY <1>2 DEF Confirm
  <2> DEFINE n == Presented(p, plans[p].items, s.digest)
  <2>3. n.digest = s.digest /\ n.items = Digest(plans[p].items)
    BY <2>1, DigestType DEF Presented
  <2> HIDE DEF n
  <2> QED BY <2>1, <2>2, <2>3 DEF IInv, DigestsAreExact, n
<1>3. ASSUME UNCHANGED <<shown, consents>> PROVE DigestsAreExact'
  BY <1>3 DEF IInv, DigestsAreExact
<1> QED BY <1>1, <1>2, <1>3 DEF Next, File, List, Correct, Select, Resolve, Validated, Restart,
     vars, memory

(* Messages are filed under a category that the rules give them.           *)
LEMMA FileStep == IInv /\ [Next]_vars => FiledByRule'
<1> SUFFICES ASSUME IInv, [Next]_vars PROVE FiledByRule'
  OBVIOUS
<1>1. ASSUME NEW m \in Mail, File(m) PROVE FiledByRule'
  BY <1>1 DEF IInv, TypeOK, FiledByRule, File
<1>2. CASE Restart
  BY <1>2 DEF FiledByRule, Restart
<1>3. ASSUME UNCHANGED filed PROVE FiledByRule'
  BY <1>3 DEF IInv, FiledByRule
<1> QED BY <1>1, <1>2, <1>3 DEF Next, List, Correct, Select, Resolve, Validated, Create, Recorded,
     Confirm, vars, memory

(* What is offered stays offered as long as filed messages stay filed.     *)
LEMMA OffersStay ==
  ASSUME NEW items, ItemsAreOffered(items, filed), \A m \in Mail : filed[m] # None => filed'[m] # None
  PROVE  ItemsAreOffered(items, filed')
BY DEF ItemsAreOffered, KeyOf

(* Within a life of the process no message is taken out of the catalog.    *)
LEMMA FiledStays ==
  ASSUME TypeOK, [Next]_vars, ~Restart, NEW m \in Mail, filed[m] # None
  PROVE  filed'[m] # None
<1>1. CASE filed' = filed
  BY <1>1
<1>2. ASSUME NEW n \in Mail, File(n)
      PROVE  filed'[m] # None
  <2>1. PICK c \in Categories[n] : filed' = [filed EXCEPT ![n] = c]
    BY <1>2 DEF File
  <2>2. c \in Category
    BY CategoriesType
  <2> QED BY <2>1, <2>2, ReviewConstants DEF TypeOK
<1> QED BY <1>1, <1>2 DEF Next, List, Correct, Select, Resolve, Validated, Create, Recorded,
     Confirm, vars, memory

(* A new item has the method of its candidate, which a message offers.     *)
LEMMA ItemIsOffered ==
  ASSUME TypeOK, NEW k \in Candidate, Listed(k), NEW items \in Seq(Item),
         ItemsAreOffered(items, filed)
  PROVE  ItemsAreOffered(Append(items, ItemOf(k)), filed)
<1>1. PICK m \in Members(k) : MethodOf(k) \in Range(Offers[m])
  BY BestMethodIsChosen
<1>2. m \in DOMAIN KeyOf /\ KeyOf[m] = k /\ filed[m] # None
  BY DEF Members
<1>3. ItemOf(k).id = k /\ ItemOf(k).method = MethodOf(k).method /\ ItemOf(k).target = MethodOf(k).target
  BY DEF ItemOf
<1>4. ItemOf(k) \in Item
  BY ItemType
<1> DEFINE more == Append(items, ItemOf(k))
           n == Len(items)
<1>5. /\ n \in Nat /\ DOMAIN items = 1..n /\ DOMAIN more = 1..(n + 1)
      /\ \A i \in 1..n : more[i] = items[i]
      /\ more[n + 1] = ItemOf(k)
  BY <1>4
<1> HIDE DEF more, n
<1> SUFFICES ASSUME NEW i \in DOMAIN more
             PROVE  \E x \in DOMAIN KeyOf :
                      /\ KeyOf[x] = more[i].id /\ filed[x] # None
                      /\ \E o \in Range(Offers[x]) :
                           o.method = more[i].method /\ o.target = more[i].target
  BY DEF ItemsAreOffered, more
<1>6. CASE i = n + 1
  BY <1>1, <1>2, <1>3, <1>5, <1>6
<1>7. CASE i \in 1..n
  BY <1>5, <1>7 DEF ItemsAreOffered
<1> QED BY <1>5, <1>6, <1>7

(* No step invents an item.                                                *)
LEMMA OfferedStep == IInv /\ [Next]_vars => NothingInvented'
<1> SUFFICES ASSUME IInv, [Next]_vars
             PROVE  /\ \A t \in Tab : request'[t] # None => ItemsAreOffered(request'[t].items, filed')
                    /\ \A p \in Plan : plans'[p] # None => ItemsAreOffered(plans'[p].items, filed')
  BY DEF NothingInvented, ItemsAreOffered
<1>0. /\ TypeOK /\ request \in [Tab -> Request \cup {None}]
      /\ plans \in [Plan -> [items : Seq(Item) \ {<<>>}, digest : Seq(Digested),
                             confirmed : BOOLEAN] \cup {None}]
      /\ \A t \in Tab : request[t] # None => ItemsAreOffered(request[t].items, filed)
      /\ \A p \in Plan : plans[p] # None => ItemsAreOffered(plans[p].items, filed)
  BY DEF IInv, TypeOK, NothingInvented
<1>1. CASE Restart
  BY <1>1 DEF Restart
<1>2. CASE ~Restart
  <2>0. \A items : ItemsAreOffered(items, filed) => ItemsAreOffered(items, filed')
    BY <1>0, <1>2, FiledStays, OffersStay
  <2>1. ASSUME NEW t \in Tab, request'[t] # None
        PROVE  ItemsAreOffered(request'[t].items, filed')
    <3>1. CASE request'[t] = request[t]
      BY <1>0, <2>0, <2>1, <3>1
    <3>2. ASSUME NEW ids \in Selection, NEW p \in Plan, Select(t, ids, p)
          PROVE  ItemsAreOffered(request'[t].items, filed')
      <4>1. request'[t].items = <<>>
        BY <1>0, <3>2 DEF Select
      <4> QED BY <4>1 DEF ItemsAreOffered
    <3>3. CASE Resolve(t)
      <4>1. request[t] \in Request /\ request[t].todo # <<>> /\ request[t] # None
        BY <1>0, <3>3 DEF Resolve, Running
      <4> DEFINE k == Head(request[t].todo)[1]
      <4>2. k \in Candidate /\ request[t].items \in Seq(Item)
        BY <4>1 DEF Request
      <4>3. Listed(k) /\ request'[t].items = Append(request[t].items, ItemOf(k)) /\ filed' = filed
        BY <1>0, <2>1, <3>3 DEF Resolve, Refused
      <4> HIDE DEF k
      <4>4. ItemsAreOffered(Append(request[t].items, ItemOf(k)), filed)
        BY <1>0, <4>1, <4>2, <4>3, ItemIsOffered
      <4> QED BY <4>3, <4>4
    <3>4. CASE Validated(t)
      <4>1. request[t] \in Request /\ request[t] # None
        BY <1>0, <3>4 DEF Validated
      <4>2. request'[t].items = request[t].items
        BY <1>0, <2>1, <3>4, <4>1 DEF Validated, Request
      <4> QED BY <1>0, <2>0, <4>1, <4>2
    <3> QED BY <1>0, <1>2, <2>1, <3>1, <3>2, <3>3, <3>4, RequestChanges
  <2>2. ASSUME NEW p \in Plan, plans'[p] # None
        PROVE  ItemsAreOffered(plans'[p].items, filed')
    <3>1. CASE plans'[p] = plans[p]
      BY <1>0, <2>0, <2>2, <3>1
    <3>2. ASSUME NEW t \in Tab, Create(t), request[t].plan = p
          PROVE  ItemsAreOffered(plans'[p].items, filed')
      <4>1. request[t] # None /\ plans'[p].items = request[t].items
        BY <1>0, <3>2 DEF Create, Recorded, Running
      <4> QED BY <1>0, <2>0, <4>1
    <3>3. ASSUME NEW s \in shown, Confirm(p, s.digest)
          PROVE  ItemsAreOffered(plans'[p].items, filed')
      <4>1. plans[p] # None /\ plans'[p].items = plans[p].items
        BY <1>0, <3>3 DEF Confirm
      <4> QED BY <1>0, <2>0, <4>1
    <3>4. ASSUME plans'[p] # plans[p]
          PROVE  \/ \E t \in Tab : Create(t) /\ request[t].plan = p
                 \/ \E s \in shown : Confirm(p, s.digest)
      BY <1>0, <1>2, <3>4 DEF Next, File, List, Correct, Select, Resolve, Validated, Create, Recorded,
         Confirm, vars, memory
    <3> QED BY <3>1, <3>2, <3>3, <3>4
  <2> QED BY <2>1, <2>2
<1> QED BY <1>1, <1>2

-----------------------------------------------------------------------------
(* The types hold, requests, plans and pages hold corrections of the past, *)
(* and every digest is that of the items it was handed out with.           *)
THEOREM ReviewInvariant == Spec => []IInv
<1>1. Init => IInv
  <2> SUFFICES ASSUME Init PROVE IInv
    OBVIOUS
  <2>1. TypeOK
    BY ReviewConstants DEF Init, TypeOK, Uncorrected, Correction
  <2>2. /\ RequestsAreBased /\ PlansAreShown /\ CardsAreCurrent /\ DigestsAreExact /\ FiledByRule
        /\ NothingInvented
    BY DEF Init, RequestsAreBased, PlansAreShown, CardsAreCurrent, DigestsAreExact, FiledByRule,
           NothingInvented
  <2> QED BY <2>1, <2>2 DEF IInv
<1>2. IInv /\ [Next]_vars => IInv'
  BY TypeStep, RequestStep, PlanStep, CardStep, DigestStep, FileStep, OfferedStep DEF IInv
<1> QED BY <1>1, <1>2, PTL DEF Spec

(* What is confirmed under a digest is what every page with that digest    *)
(* was given.                                                              *)
THEOREM ConsentInformed == Spec => []ConsentIsInformed
<1>1. IInv => ConsentIsInformed
  BY DEF IInv, DigestsAreExact, ConsentIsInformed
<1> QED BY <1>1, ReviewInvariant, PTL

(* A plan is confirmed only over the corrections it was made under.        *)
THEOREM PlanUnderCorrection == Spec => PlanOutlivesNoCorrection
<1> DEFINE A == \A p \in Plan :
       plans[p] # None /\ plans'[p] # None /\ ~plans[p].confirmed /\ plans'[p].confirmed =>
         \A i \in DOMAIN plans[p].items :
           plans[p].items[i].basis = correction[plans[p].items[i].id]
<1>1. IInv /\ [Next]_vars => [A]_vars
  <2> SUFFICES ASSUME IInv, Next, NEW p \in Plan, plans[p] # None, plans'[p] # None,
                      ~plans[p].confirmed, plans'[p].confirmed, NEW i \in DOMAIN plans[p].items
               PROVE  plans[p].items[i].basis = correction[plans[p].items[i].id]
    OBVIOUS
  <2>0. plans \in [Plan -> [items : Seq(Item) \ {<<>>}, digest : Seq(Digested),
                           confirmed : BOOLEAN] \cup {None}]
    BY DEF IInv, TypeOK
  <2>1. CASE Restart
    BY <2>1 DEF Restart
  <2>2. ASSUME NEW t \in Tab, Create(t) PROVE FALSE
    BY <2>0, <2>2 DEF Create, Recorded
  <2>3. ASSUME NEW q \in Plan, NEW s \in shown, Confirm(q, s.digest)
        PROVE  plans[p].items[i].basis = correction[plans[p].items[i].id]
    <3>1. q = p
      BY <2>0, <2>3 DEF Confirm
    <3>2. correction[plans[p].items[i].id].revision = plans[p].items[i].revision
      BY <2>3, <3>1 DEF Confirm, Current
    <3>3. /\ plans[p].items[i].basis.revision = plans[p].items[i].revision
          /\ SeenBefore(plans[p].items[i].basis, correction[plans[p].items[i].id])
      BY DEF IInv, PlansAreShown, ItemsAreBased
    <3> QED BY <3>2, <3>3 DEF SeenBefore
  <2>4. ASSUME UNCHANGED plans PROVE FALSE
    BY <2>4
  <2> QED BY <2>1, <2>2, <2>3, <2>4 DEF Next, File, List, Correct, Select, Resolve, Validated, memory
<1>2. Spec => [][A]_vars
  BY <1>1, ReviewInvariant, PTL DEF Spec
<1> QED BY <1>2 DEF PlanOutlivesNoCorrection

(* A tab replaces only the correction it displays.                         *)
THEOREM OverwriteSeen == Spec => NoBlindOverwrite
<1> DEFINE A == \A t \in Tab, k \in Candidate :
       /\ life' = life /\ view[t].life = life
       /\ correction'[k] # correction[k] /\ view'[t] # view[t]
       => view[t].cards[k] = correction[k]
<1>1. IInv /\ [Next]_vars => [A]_vars
  <2> SUFFICES ASSUME IInv, Next, NEW t \in Tab, NEW k \in Candidate, life' = life,
                      view[t].life = life, correction'[k] # correction[k], view'[t] # view[t]
               PROVE  view[t].cards[k] = correction[k]
    OBVIOUS
  <2>0. TypeOK /\ life \in Int
    BY ReviewConstants DEF IInv, TypeOK
  <2>1. ~ UNCHANGED correction /\ ~ UNCHANGED view /\ ~Restart
    BY <2>0 DEF Restart
  <2>2. PICK u \in Tab, j \in Candidate, c \in Verdict : Correct(u, j, c)
    BY <2>1 DEF Next, File, List, Select, Resolve, Validated, Create, Recorded, Confirm, memory
  <2>3. u = t /\ j = k
    BY <2>0, <2>2 DEF Correct, Answered, TypeOK
  <2>4. view[t].cards[k] # None /\ view[t].cards[k].revision = correction[k].revision
    BY <2>2, <2>3 DEF Correct
  <2> QED BY <2>4 DEF IInv, CardsAreCurrent, SeenBefore
<1>2. Spec => [][A]_vars
  BY <1>1, ReviewInvariant, PTL DEF Spec
<1> QED BY <1>2 DEF NoBlindOverwrite

-----------------------------------------------------------------------------
(* The first signal of a text, if it has one.                              *)
LEMMA FirstSignal ==
  ASSUME NEW text \in Seq(Kind), NEW i \in DOMAIN text, text[i] \in Signal,
         \A j \in 1..(i - 1) : text[j] \notin Signal
  PROVE  Min({j \in DOMAIN text : text[j] \in Signal}) = i
<1> DEFINE signals == {j \in DOMAIN text : text[j] \in Signal}
<1>1. signals \in SUBSET Nat /\ i \in signals /\ \A j \in signals : ~(j < i)
  OBVIOUS
<1> HIDE DEF signals
<1>2. Min(signals) \in signals /\ Min(signals) <= i
  BY <1>1, LeastNumber
<1>3. Min(signals) \in Nat /\ i \in Nat /\ ~(Min(signals) < i)
  BY <1>1, <1>2
<1>4. Min(signals) = i
  BY <1>2, <1>3
<1> QED BY <1>4 DEF signals

(* Where the words of three texts are when these are put together.         *)
LEMMA ThreeParts ==
  ASSUME NEW a \in Seq(Kind), NEW b \in Seq(Kind), NEW c \in Seq(Kind)
  PROVE  /\ (a \o b) \o c \in Seq(Kind)
         /\ Len((a \o b) \o c) = Len(a) + Len(b) + Len(c)
         /\ \A j \in 1..Len(a) : ((a \o b) \o c)[j] = a[j]
         /\ \A j \in 1..Len(b) : ((a \o b) \o c)[Len(a) + j] = b[j]
         /\ \A j \in 1..Len(c) : ((a \o b) \o c)[Len(a) + Len(b) + j] = c[j]
<1> DEFINE d == a \o b
<1>1. /\ d \in Seq(Kind) /\ Len(d) = Len(a) + Len(b) /\ Len(a) \in Nat /\ Len(b) \in Nat
      /\ \A j \in 1..Len(a) : d[j] = a[j]
      /\ \A j \in 1..Len(b) : d[Len(a) + j] = b[j]
  OBVIOUS
<1> HIDE DEF d
<1>2. /\ d \o c \in Seq(Kind) /\ Len(d \o c) = Len(d) + Len(c) /\ Len(c) \in Nat
      /\ \A j \in 1..Len(d) : (d \o c)[j] = d[j]
      /\ \A j \in 1..Len(c) : (d \o c)[Len(d) + j] = c[j]
  <2>1. d \in Seq(Kind)
    BY <1>1
  <2> QED BY <2>1
<1>3. /\ \A j \in 1..Len(a) : j \in 1..Len(d)
      /\ \A j \in 1..Len(b) : Len(a) + j \in 1..Len(d)
  BY <1>1
<1>4. \A j \in 1..Len(a) : (d \o c)[j] = a[j]
  BY <1>1, <1>2, <1>3
<1>5. \A j \in 1..Len(b) : (d \o c)[Len(a) + j] = b[j]
  BY <1>1, <1>2, <1>3
<1>6. \A j \in 1..Len(c) : (d \o c)[Len(a) + Len(b) + j] = c[j]
  BY <1>1, <1>2
<1> QED BY <1>1, <1>2, <1>4, <1>5, <1>6 DEF d

(* The extract of a text is no longer than three parts together, consists  *)
(* of words of the text, and leaves out neither the opening nor the end    *)
(* nor the first signal (EmailNormalizer._model_budget,                    *)
(* normalizer.py 139-151).                                                 *)
THEOREM ExtractKeepsProminent ==
  ASSUME NEW text \in Seq(Kind)
  PROVE  /\ ModelBudget(text) \in Seq(Kind)
         /\ Len(ModelBudget(text)) <= Opening + Window + Footer
         /\ \A j \in DOMAIN ModelBudget(text) :
              \E i \in DOMAIN text : ModelBudget(text)[j] = text[i]
         /\ \A i \in Prominent(text) :
              \E j \in DOMAIN ModelBudget(text) : ModelBudget(text)[j] = text[i]
<1> DEFINE signals == {i \in DOMAIN text : text[i] \in Signal}
           centre  == IF signals = {} THEN Len(text) \div 2 ELSE Min(signals) - 1
           half    == Window \div 2
           offset  == centre - half
           start   == Max({0, offset})
           end     == Min({start + Window, Len(text)})
           opening == SubSeq(text, 1, Opening)
           window  == SubSeq(text, start + 1, end)
           footer  == SubSeq(text, Len(text) - Footer + 1, Len(text))
<1>0. Opening \in Nat /\ Window \in Nat \ {0} /\ Footer \in Nat /\ Len(text) \in Nat
      /\ DOMAIN text = 1..Len(text) /\ \A i \in 1..Len(text) : text[i] \in Kind
  BY ReviewConstants
<1>1. centre \in Int
  <2>1. CASE signals # {}
    <3>1. signals \in SUBSET Nat
      BY <1>0
    <3>2. centre = Min(signals) - 1
      BY <2>1
    <3> HIDE DEF signals, centre
    <3>3. Min(signals) \in signals
      BY <2>1, <3>1, LeastNumber
    <3> QED BY <3>1, <3>2, <3>3
  <2>2. Len(text) \div 2 \in Int
    BY <1>0
  <2> QED BY <2>1, <2>2
<1>2. \A i \in DOMAIN text :
        text[i] \in Signal /\ (\A j \in 1..(i - 1) : text[j] \notin Signal) => centre = i - 1
  <2> SUFFICES ASSUME NEW i \in DOMAIN text, text[i] \in Signal,
                      \A j \in 1..(i - 1) : text[j] \notin Signal
               PROVE  centre = i - 1
    OBVIOUS
  <2>1. Min(signals) = i
    BY FirstSignal
  <2>2. i \in signals
    OBVIOUS
  <2> HIDE DEF signals
  <2> QED BY <2>1, <2>2
<1> HIDE DEF centre
<1>3. half \in Nat /\ half < Window
  BY <1>0
<1> HIDE DEF half
<1>4. offset \in Int /\ offset <= centre /\ centre < offset + Window
  BY <1>0, <1>1, <1>3
<1> HIDE DEF offset
<1>5. start \in Nat /\ offset <= start /\ (start = 0 \/ start = offset)
  <2>1. \E x \in {0, offset} : \A y \in {0, offset} : x >= y
    BY <1>4
  <2>2. start \in {0, offset} /\ \A y \in {0, offset} : start >= y
    BY <2>1 DEF Max
  <2> QED BY <1>4, <2>2
<1> HIDE DEF start
<1> DEFINE total == Len(text)
<1> HIDE DEF total
<1>6. total = Len(text) /\ total \in Nat /\ DOMAIN text = 1..total
  BY <1>0 DEF total
<1>7. end \in Int /\ end <= total /\ end <= start + Window
      /\ (end = total \/ end = start + Window)
  <2> DEFINE S == {start + Window, total}
  <2>1. \E x \in S : \A y \in S : x <= y
    BY <1>0, <1>5, <1>6
  <2>2. end = Min(S)
    BY <1>6
  <2> HIDE DEF S, end
  <2>3. Min(S) \in S /\ \A y \in S : Min(S) <= y
    BY <2>1 DEF Min
  <2> QED BY <1>0, <1>5, <1>6, <2>2, <2>3 DEF S
<1> HIDE DEF end
<1>8. \A i \in DOMAIN text : centre = i - 1 => start < i /\ i <= end
  <2> SUFFICES ASSUME NEW i \in DOMAIN text, centre = i - 1 PROVE start < i /\ i <= end
    OBVIOUS
  <2>1. i \in Int /\ 1 <= i /\ i <= total /\ Window \in Int /\ start \in Int
    BY <1>0, <1>5, <1>6
  <2>2. start < i
    BY <1>4, <1>5, <2>1
  <2>3. i <= start + Window
    BY <1>4, <1>5, <2>1
  <2> QED BY <1>7, <2>1, <2>2, <2>3
<1>9. /\ window \in Seq(Kind) /\ Len(window) <= Window
      /\ \A j \in 1..Len(window) : j + start \in DOMAIN text /\ window[j] = text[j + start]
      /\ \A i \in Int : start < i /\ i <= end =>
           i - start \in 1..Len(window) /\ window[i - start] = text[i]
  <2> DEFINE first == start + 1
             size  == IF first <= end THEN end - first + 1 ELSE 0
  <2>0. first \in Int /\ end \in Int /\ start \in Int /\ Window \in Nat
    BY <1>0, <1>5, <1>7
  <2>1. \A i \in first..end : i \in DOMAIN text
    BY <1>5, <1>7, <1>6
  <2>2. /\ window \in Seq(Kind) /\ Len(window) = size
        /\ \A j \in 1..(end - first + 1) : window[j] = text[first + j - 1]
    <3>1. \A i \in first..end : text[i] \in Kind
      BY <1>0, <2>1
    <3> HIDE DEF first
    <3> QED BY <2>0, <3>1, SubSeqProperties DEF first
  <2> HIDE DEF window
  <2>3. size <= Window /\ size \in Nat
    BY <1>7, <2>0
  <2>4. \A j \in 1..size : j \in 1..(end - first + 1) /\ first + j - 1 = j + start
                          /\ j + start \in first..end
    BY <2>0
  <2>5. \A i \in Int : start < i /\ i <= end => i - start \in 1..size /\ (i - start) + start = i
    BY <2>0
  <2> HIDE DEF size, first
  <2>6. \A j \in 1..size : j + start \in DOMAIN text /\ window[j] = text[j + start]
    BY <2>1, <2>2, <2>4
  <2>7. \A i \in Int : start < i /\ i <= end => window[i - start] = text[i]
    BY <2>5, <2>6
  <2> QED BY <2>2, <2>3, <2>5, <2>6, <2>7
<1>10. CASE Len(text) <= Opening + Window + Footer
  BY <1>0, <1>10 DEF ModelBudget, Prominent
<1>11. CASE ~(Len(text) <= Opening + Window + Footer)
  <2>1. ModelBudget(text) = (opening \o window) \o footer
    BY <1>11 DEF ModelBudget, window, end, start, offset, half, centre
  <2>2. /\ opening \in Seq(Kind) /\ Len(opening) = Opening
        /\ \A i \in 1..Opening : i \in DOMAIN text /\ opening[i] = text[i]
    <3>1. \A i \in 1..Opening : text[i] \in Kind /\ i \in DOMAIN text
      BY <1>0, <1>11
    <3> QED BY <1>0, <3>1, SubSeqProperties
  <2>3. /\ footer \in Seq(Kind) /\ Len(footer) = Footer
        /\ \A j \in 1..Footer : Len(text) - Footer + j \in DOMAIN text
                                /\ footer[j] = text[Len(text) - Footer + j]
    <3> DEFINE first == Len(text) - Footer + 1
    <3>0. first \in Int /\ first >= 1
      BY <1>0, <1>11
    <3>1. \A i \in first..Len(text) : text[i] \in Kind
      BY <1>0, <3>0
    <3>2. /\ footer \in Seq(Kind)
          /\ Len(footer) = IF first <= Len(text) THEN Len(text) - first + 1 ELSE 0
          /\ \A j \in 1..(Len(text) - first + 1) : footer[j] = text[first + j - 1]
      BY <1>0, <3>0, <3>1, SubSeqProperties
    <3> HIDE DEF footer
    <3>3. Len(footer) = Footer
      BY <1>0, <3>2
    <3>4. ASSUME NEW j \in 1..Footer
          PROVE  Len(text) - Footer + j \in DOMAIN text /\ footer[j] = text[Len(text) - Footer + j]
      <4>1. j \in 1..(Len(text) - first + 1) /\ first + j - 1 = Len(text) - Footer + j
        BY <1>0, <3>4
      <4>2. Len(text) - Footer + j \in DOMAIN text
        BY <1>0, <1>11, <3>4
      <4> HIDE DEF first
      <4> QED BY <3>2, <4>1, <4>2
    <3> QED BY <3>2, <3>3, <3>4
  <2> DEFINE n == Len(window)
             b == (opening \o window) \o footer
  <2> HIDE DEF opening, window, footer
  <2>4. n \in Nat /\ n <= Window
    BY <1>9
  <2>5. /\ b \in Seq(Kind) /\ Len(b) = Len(opening) + n + Len(footer)
        /\ \A j \in 1..Len(opening) : b[j] = opening[j]
        /\ \A j \in 1..n : b[Len(opening) + j] = window[j]
        /\ \A j \in 1..Len(footer) : b[Len(opening) + n + j] = footer[j]
    <3>1. opening \in Seq(Kind) /\ window \in Seq(Kind) /\ footer \in Seq(Kind)
      BY <1>9, <2>2, <2>3
    <3> QED BY <3>1, ThreeParts
  <2> HIDE DEF b, n
  <2>6. /\ Len(b) = Opening + n + Footer
        /\ \A j \in 1..Opening : b[j] = opening[j]
        /\ \A j \in 1..n : b[Opening + j] = window[j]
        /\ \A j \in 1..Footer : b[Opening + n + j] = footer[j]
    BY <2>2, <2>3, <2>5, Zenon
  <2>7. /\ DOMAIN b = 1..(Opening + n + Footer)
        /\ \A j \in 1..Opening : j \in DOMAIN b
        /\ \A j \in 1..n : Opening + j \in DOMAIN b
        /\ \A j \in 1..Footer : Opening + n + j \in DOMAIN b
    <3>1. DOMAIN b = 1..(Opening + n + Footer)
      BY <2>5, <2>6
    <3> QED BY <1>0, <2>4, <3>1
  <2>8. ASSUME NEW j \in DOMAIN b PROVE \E i \in DOMAIN text : b[j] = text[i]
    <3>1. \/ j \in 1..Opening \/ j - Opening \in 1..n \/ j - Opening - n \in 1..Footer
      BY <1>0, <2>4, <2>7, <2>8
    <3>2. CASE j \in 1..Opening
      BY <2>2, <2>6, <3>2
    <3>3. CASE j - Opening \in 1..n
      <4>1. PICK x \in 1..n : j = Opening + x
        <5>1. j \in Int /\ j = Opening + (j - Opening)
          BY <1>0, <2>4, <2>7
        <5> QED BY <5>1, <3>3
      <4> QED BY <1>9, <2>6, <4>1 DEF n
    <3>4. CASE j - Opening - n \in 1..Footer
      <4>1. PICK x \in 1..Footer : j = Opening + n + x
        <5>1. j \in Int /\ j = Opening + n + (j - Opening - n)
          BY <1>0, <2>4, <2>7
        <5> QED BY <5>1, <3>4
      <4> QED BY <2>3, <2>6, <4>1
    <3> QED BY <3>1, <3>2, <3>3, <3>4
  <2>9. ASSUME NEW i \in Prominent(text) PROVE \E j \in DOMAIN b : b[j] = text[i]
    <3>0. i \in DOMAIN text
      BY DEF Prominent
    <3>1. CASE i <= Opening
      <4>1. i \in 1..Opening
        BY <1>0, <3>0, <3>1
      <4> QED BY <2>2, <2>6, <2>7, <4>1
    <3>2. CASE i > Len(text) - Footer
      <4>1. PICK x \in 1..Footer : i = Len(text) - Footer + x
        <5>1. i - (Len(text) - Footer) \in 1..Footer
              /\ i = Len(text) - Footer + (i - (Len(text) - Footer))
          BY <1>0, <3>0, <3>2
        <5> QED BY <5>1
      <4> QED BY <2>3, <2>6, <2>7, <4>1
    <3>3. CASE text[i] \in Signal /\ \A j \in 1..(i - 1) : text[j] \notin Signal
      <4>1. start < i /\ i <= end /\ i \in Int
        BY <1>0, <1>2, <1>8, <3>0, <3>3
      <4>2. PICK x \in 1..n : window[x] = text[i]
        BY <1>9, <4>1 DEF n
      <4> QED BY <2>6, <2>7, <4>2
    <3> QED BY <3>1, <3>2, <3>3 DEF Prominent
  <2>10. Len(b) <= Opening + Window + Footer
    BY <1>0, <2>4, <2>6
  <2>11. ModelBudget(text) = b
    BY <2>1 DEF b
  <2> QED BY <2>5, <2>8, <2>9, <2>10, <2>11
<1> QED BY <1>10, <1>11

(* What rules and model read has all words of the subject and the          *)
(* prominent words of the text.                                            *)
LEMMA HaystackKeepsProminent ==
  ASSUME NEW m \in Mail
  PROVE  /\ \A i \in DOMAIN Content[m].subject : \E j \in DOMAIN Haystack(Content[m]) :
              Haystack(Content[m])[j] = Content[m].subject[i]
         /\ \A i \in Prominent(OwnText(Content[m])) : \E j \in DOMAIN Haystack(Content[m]) :
              Haystack(Content[m])[j] = OwnText(Content[m])[i]
<1> DEFINE subject == Content[m].subject
           text    == OwnText(Content[m])
           read    == ModelBudget(text)
<1>1. subject \in Seq(Kind) /\ text \in Seq(Kind)
  BY ReviewConstants
<1>2. Haystack(Content[m]) = subject \o read
  BY DEF Haystack
<1>3. /\ read \in Seq(Kind)
      /\ \A i \in Prominent(text) : \E j \in DOMAIN read : read[j] = text[i]
  BY <1>1, ExtractKeepsProminent
<1> HIDE DEF subject, text, read
<1>4. \A i \in DOMAIN subject : i \in DOMAIN (subject \o read) /\ (subject \o read)[i] = subject[i]
  BY <1>1, <1>3
<1>5. \A i \in DOMAIN read : Len(subject) + i \in DOMAIN (subject \o read)
                           /\ (subject \o read)[Len(subject) + i] = read[i]
  BY <1>1, <1>3
<1>6. \A i \in Prominent(text) : \E j \in DOMAIN (subject \o read) : (subject \o read)[j] = text[i]
  BY <1>3, <1>5
<1> QED BY <1>2, <1>4, <1>6 DEF subject, text

(* A candidate the user did not correct is marketing only by a sure,       *)
(* quoted answer about each of its messages, none of which has a protected *)
(* phrase in its subject or where the reader of the text looks first.      *)
THEOREM MarketingByEvidence == Spec => []MarketingNeedsEvidence
<1>1. IInv => MarketingNeedsEvidence
  <2> SUFFICES ASSUME IInv, NEW k \in Candidate, NEW m \in Members(k),
                      correction[k].category = None, CategoryOf(k) = "marketing"
               PROVE  /\ ~Oversized(Content[m])
                      /\ \A i \in DOMAIN Content[m].subject : Content[m].subject[i] \notin Protected
                      /\ \A i \in Prominent(OwnText(Content[m])) :
                           OwnText(Content[m])[i] \notin Protected
                      /\ \E a \in Answer : a.category = "marketing" /\ a.sure
                           /\ \E i \in DOMAIN Haystack(Content[m]) : Haystack(Content[m])[i] = a.quote
    BY DEF MarketingNeedsEvidence
  <2>1. m \in Mail /\ filed[m] # None
    BY DEF Members, KeyOf
  <2>2. filed[m] = "marketing"
    <3> DEFINE cs == {filed[n] : n \in Members(k)}
    <3>1. GroupCategory(k) = "marketing"
      BY DEF CategoryOf
    <3>2. filed[m] \in cs
      OBVIOUS
    <3>3. PICK c \in cs : cs = {c} /\ GroupCategory(k) = c
      <4> HIDE DEF cs
      <4>1. GroupCategory(k) = IF \E c \in cs : cs = {c} THEN CHOOSE c \in cs : TRUE ELSE "unclear"
        BY DEF GroupCategory, cs
      <4> QED BY <3>1, <4>1
    <3> HIDE DEF cs
    <3> QED BY <3>1, <3>2, <3>3
  <2>3. "marketing" \in Categories[m]
    BY <2>1, <2>2 DEF IInv, FiledByRule
  <2>4. PICK first \in Answer \cup {None}, second \in Answer \cup {None} :
          "marketing" = Classify(Content[m], AskModel(first, second))
    BY <2>1, <2>3 DEF Categories
  <2> DEFINE a == AskModel(first, second)
  <2>5. a \in Answer \cup {None}
    BY DEF AskModel
  <2>6. Classify(Content[m], a) = "marketing"
    BY <2>4
  <2> HIDE DEF a
  <2>7. /\ ~Oversized(Content[m]) /\ ~ProtectedByRule(Content[m])
        /\ a # None /\ Verified(Content[m], a) /\ a.category = "marketing"
    BY <2>6 DEF Classify
  <2>8. \A j \in DOMAIN Haystack(Content[m]) : Haystack(Content[m])[j] \notin Protected
    BY <2>7 DEF ProtectedByRule
  <2> QED BY <2>1, <2>5, <2>7, <2>8, HaystackKeepsProminent DEF Verified
<1> QED BY <1>1, ReviewInvariant, PTL
=============================================================================
