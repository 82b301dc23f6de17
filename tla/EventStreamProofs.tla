------------------------- MODULE EventStreamProofs --------------------------
(***************************************************************************)
(* The safety properties of the upgrade of the database and of the event   *)
(* stream, for every plan, action, page, old log and number of faults.     *)
(***************************************************************************)
EXTENDS StreamInvariant, FiniteSetTheorems, SequenceTheorems, TLAPS

(* Earlier is a strict total order on events.                              *)
LEMMA EarlierOrder ==
  /\ \A e \in Event : ~Earlier(e, e)
  /\ \A e, f \in Event : e # f => Earlier(e, f) \/ Earlier(f, e)
  /\ \A e, f, g \in Event : Earlier(e, f) /\ Earlier(f, g) => Earlier(e, g)
<1>1. \A e \in Event : e.action \in Action /\ e.sequence \in Nat /\ e.at \in Nat
  BY DEF Event
<1>2. \A e, f \in Event : e.action = f.action /\ e.sequence = f.sequence /\ e.at = f.at => e = f
  BY DEF Event
<1>3. \A e \in Event : ~Earlier(e, e)
  BY <1>1, DatabaseAssumption DEF Earlier
<1>4. \A e, f \in Event : e # f => Earlier(e, f) \/ Earlier(f, e)
  BY <1>1, <1>2, DatabaseAssumption DEF Earlier
<1>5. \A e, f, g \in Event : Earlier(e, f) /\ Earlier(f, g) => Earlier(e, g)
  BY <1>1, DatabaseAssumption DEF Earlier
<1> QED BY <1>3, <1>4, <1>5

(* In a finite set of events every rank is taken by one event.             *)
LEMMA Ranks ==
  ASSUME NEW S \in SUBSET Event, IsFiniteSet(S),
         NEW k \in 0..(Cardinality(S) - 1)
  PROVE  \E e \in S : Cardinality({f \in S : Earlier(f, e)}) = k
<1> DEFINE P(e) == {f \in S : Earlier(f, e)}
           n == Cardinality(S)
           rank == [e \in S |-> Cardinality(P(e))]
<1>1. n \in Nat
  BY FS_CardinalityType
<1>2. \A e \in S : IsFiniteSet(P(e)) /\ Cardinality(P(e)) \in Nat /\ Cardinality(P(e)) < n
  <2> SUFFICES ASSUME NEW e \in S
               PROVE  IsFiniteSet(P(e)) /\ Cardinality(P(e)) \in Nat /\ Cardinality(P(e)) < n
    OBVIOUS
  <2>1. P(e) \in SUBSET S /\ e \notin P(e)
    BY EarlierOrder
  <2> HIDE DEF P
  <2> QED BY <2>1, FS_Subset, FS_CardinalityType
<1>3. \A e, f \in S : Earlier(e, f) => Cardinality(P(e)) < Cardinality(P(f))
  <2> SUFFICES ASSUME NEW e \in S, NEW f \in S, Earlier(e, f)
               PROVE  Cardinality(P(e)) < Cardinality(P(f))
    OBVIOUS
  <2>1. P(e) \in SUBSET P(f) /\ e \in P(f) /\ e \notin P(e)
    BY EarlierOrder
  <2>2. IsFiniteSet(P(f)) /\ Cardinality(P(f)) \in Nat
    BY <1>2
  <2> HIDE DEF P
  <2> QED BY <2>1, <2>2, FS_Subset, FS_CardinalityType
<1> HIDE DEF P
<1>4. rank \in Injection(S, 0..(n - 1))
  <2>1. rank \in [S -> 0..(n - 1)]
    BY <1>1, <1>2
  <2>2. IsInjective(rank)
    <3> SUFFICES ASSUME NEW e \in S, NEW f \in S, rank[e] = rank[f], e # f
                 PROVE  FALSE
      BY DEF IsInjective
    <3>1. Earlier(e, f) \/ Earlier(f, e)
      BY EarlierOrder
    <3> QED BY <1>2, <1>3, <3>1
  <2> QED BY <2>1, <2>2 DEF Injection
<1>5. IsFiniteSet(0..(n - 1)) /\ Cardinality(0..(n - 1)) = n
  BY <1>1, FS_Interval
<1>6. rank \in Surjection(S, 0..(n - 1))
  <2> HIDE DEF rank
  <2> QED BY <1>4, <1>5, FS_Injection
<1>7. \E e \in S : rank[e] = k
  BY <1>6, <1>1 DEF Surjection
<1> QED BY <1>7 DEF P

(* A sequence without repetition has as many elements as places.           *)
LEMMA PlacesOf ==
  ASSUME NEW T, NEW s \in Seq(T), IsInjective(s)
  PROVE  IsFiniteSet(Range(s)) /\ Cardinality(Range(s)) = Len(s)
<1>1. Len(s) \in Nat /\ DOMAIN s = 1..Len(s)
  OBVIOUS
<1>2. s \in Injection(1..Len(s), Range(s)) /\ s \in Surjection(1..Len(s), Range(s))
  BY <1>1 DEF Injection, Surjection, Range, IsInjective
<1>3. IsFiniteSet(1..Len(s)) /\ Cardinality(1..Len(s)) = Len(s)
  BY <1>1, FS_Interval
<1> QED BY <1>2, <1>3, FS_Surjection

(* A function on 1..n is a sequence of length n.                           *)
LEMMA SequenceOfLength ==
  ASSUME NEW T, NEW n \in Nat, NEW f, f = [i \in 1..n |-> f[i]], \A i \in 1..n : f[i] \in T
  PROVE  f \in Seq(T) /\ Len(f) = n /\ DOMAIN f = 1..n
<1>1. f \in [1..n -> T]
  OBVIOUS
<1>2. f \in Seq(T)
  BY <1>1
<1> QED BY <1>1, <1>2

(* Revision 3 copies every event once, in the order of Earlier.            *)
THEOREM UpgradeKeepsEvents ==
  ASSUME NEW s \in Seq(Event), IsInjective(s)
  PROVE  /\ Copied(s) \in Seq(Event) /\ Len(Copied(s)) = Len(s)
         /\ IsInjective(Copied(s))
         /\ Range(Copied(s)) = Range(s)
         /\ \A i, j \in DOMAIN Copied(s) : i < j => Earlier(Copied(s)[i], Copied(s)[j])
<1> DEFINE S == Range(s)
           n == Len(s)
           c == Copied(s)
           R(e) == Cardinality({f \in S : Earlier(f, e)})
<1>1. n \in Nat /\ DOMAIN s = 1..n /\ S \in SUBSET Event
  BY DEF Range
<1>2. IsFiniteSet(S) /\ Cardinality(S) = n
  BY PlacesOf
<1>3. \A i \in 1..n : c[i] \in S /\ R(c[i]) = i - 1
  <2> SUFFICES ASSUME NEW i \in 1..n
               PROVE  c[i] \in S /\ R(c[i]) = i - 1
    OBVIOUS
  <2>1. i - 1 \in 0..(Cardinality(S) - 1)
    BY <1>1, <1>2
  <2> HIDE DEF S
  <2>2. \E e \in S : R(e) = i - 1
    BY <1>1, <1>2, <2>1, Ranks
  <2> USE DEF S
  <2>3. c[i] = CHOOSE e \in S : R(e) = i - 1
    BY <1>1 DEF Copied
  <2> QED BY <2>2, <2>3
<1> HIDE DEF R
<1>4. c \in Seq(Event) /\ Len(c) = n /\ DOMAIN c = 1..n
  <2> DEFINE G(i) == CHOOSE e \in Range(s) : Cardinality({f \in Range(s) : Earlier(f, e)}) = i - 1
  <2>0. c = [i \in 1..n |-> G(i)]
    BY <1>1, Zenon DEF Copied
  <2>1. c = [i \in 1..n |-> c[i]]
    <3> HIDE DEF c, G, n
    <3> QED BY <2>0
  <2> HIDE DEF c, S
  <2>2. \A i \in 1..n : c[i] \in Event
    BY <1>1, <1>3
  <2> HIDE DEF n
  <2> QED BY <1>1, <2>1, <2>2, SequenceOfLength
<1> HIDE DEF c, S, n
<1>5. IsInjective(c)
  BY <1>1, <1>3, <1>4 DEF IsInjective
<1>6. Range(c) = S
  <2>1. Range(c) \in SUBSET S
    BY <1>3, <1>4 DEF Range
  <2>2. IsFiniteSet(Range(c)) /\ Cardinality(Range(c)) = n
    BY <1>4, <1>5, PlacesOf
  <2> QED BY <1>2, <2>1, <2>2, FS_Subset
<1>7. \A i, j \in 1..n : i < j => Earlier(c[i], c[j])
  <2> SUFFICES ASSUME NEW i \in 1..n, NEW j \in 1..n, i < j
               PROVE  Earlier(c[i], c[j])
    OBVIOUS
  <2> DEFINE P(e) == {f \in S : Earlier(f, e)}
  <2>1. c[i] \in Event /\ c[j] \in Event /\ c[i] # c[j]
    BY <1>1, <1>3
  <2>2. CASE Earlier(c[j], c[i])
    <3>1. P(c[j]) \in SUBSET P(c[i]) /\ P(c[i]) \in SUBSET S
      BY <1>1, <2>1, <2>2, EarlierOrder
    <3>2. Cardinality(P(c[j])) <= Cardinality(P(c[i]))
      <4> HIDE DEF P
      <4> QED BY <1>2, <3>1, FS_Subset
    <3>3. Cardinality(P(c[i])) = i - 1 /\ Cardinality(P(c[j])) = j - 1
      BY <1>3 DEF R
    <3> QED BY <1>1, <3>2, <3>3
  <2> QED BY <2>1, <2>2, EarlierOrder
<1> QED BY <1>4, <1>5, <1>6, <1>7 DEF c, S, n

-----------------------------------------------------------------------------
(* The names of tables and columns, and what the statements leave.         *)
LEMMA Names ==
  /\ Core = {"accounts", "scan_jobs", "messages", "classifications",
             "subscription_candidates", "candidate_messages", "action_plans",
             "unsubscribe_actions", "action_events"}
  /\ Range(ActivityColumns) = {"display_sender", "display_subject", "target_display"}
  /\ Shape[1] = Core
  /\ Shape[2] = Core \cup {"scan_checkpoints"}
  /\ Shape[3] = Shape[2] \cup {"days", "max_messages", "stream_sequence"}
  /\ Shape[4] = Shape[3] \cup {"display_sender", "display_subject", "target_display"}
  /\ Range(Shape) = {Shape[1], Shape[2], Shape[3], Shape[4]}
<1>1. DOMAIN CoreTables = 1..9 /\ DOMAIN ActivityColumns = 1..3 /\ DOMAIN Shape = 1..4
  BY DEF CoreTables, ActivityColumns, Shape
<1>2. Core = {"accounts", "scan_jobs", "messages", "classifications",
              "subscription_candidates", "candidate_messages", "action_plans",
              "unsubscribe_actions", "action_events"}
  <2>1. Core = {CoreTables[i] : i \in {1, 2, 3, 4, 5, 6, 7, 8, 9}}
    BY <1>1 DEF Core, Range
  <2> QED BY <2>1 DEF CoreTables
<1>3. Range(ActivityColumns) = {"display_sender", "display_subject", "target_display"}
  <2>1. Range(ActivityColumns) = {ActivityColumns[i] : i \in {1, 2, 3}}
    BY <1>1 DEF Range
  <2> QED BY <2>1 DEF ActivityColumns
<1>4. /\ Shape[1] = Core
      /\ Shape[2] = Core \cup {"scan_checkpoints"}
      /\ Shape[3] = Core \cup {"scan_checkpoints", "days", "max_messages", "stream_sequence"}
      /\ Shape[4] = Core \cup {"scan_checkpoints", "days", "max_messages", "stream_sequence"}
                         \cup Range(ActivityColumns)
  BY DEF Shape
<1>5. Range(Shape) = {Shape[1], Shape[2], Shape[3], Shape[4]}
  <2> HIDE DEF Shape
  <2>1. Range(Shape) = {Shape[i] : i \in {1, 2, 3, 4}}
    BY <1>1 DEF Range
  <2> QED BY <2>1
<1>6. Shape[3] = Shape[2] \cup {"days", "max_messages", "stream_sequence"}
  BY <1>4
<1>7. Shape[4] = Shape[3] \cup {"display_sender", "display_subject", "target_display"}
  BY <1>3, <1>4
<1> QED BY <1>2, <1>3, <1>4, <1>5, <1>6, <1>7

(* The first statements of a list, one at a time.                          *)
LEMMA PrefixSteps ==
  ASSUME NEW s, NEW n \in Nat, DOMAIN s = 1..n
  PROVE  /\ Prefix(s, 0) = {}
         /\ \A d \in Nat : d < n => Prefix(s, d + 1) = Prefix(s, d) \cup {s[d + 1]}
         /\ Prefix(s, n) = Range(s)
<1>1. DOMAIN s = 1..n /\ n \in Nat
  OBVIOUS
<1>2. Prefix(s, 0) = {}
  BY <1>1 DEF Prefix
<1>3. ASSUME NEW d \in Nat, d < n
      PROVE  Prefix(s, d + 1) = Prefix(s, d) \cup {s[d + 1]}
  <2>1. {j \in DOMAIN s : j <= d + 1} = {j \in DOMAIN s : j <= d} \cup {d + 1}
    BY <1>1, <1>3
  <2> QED BY <2>1 DEF Prefix
<1>4. Prefix(s, n) = Range(s)
  BY <1>1 DEF Prefix, Range
<1> QED BY <1>2, <1>3, <1>4

(* The statements of the four revisions.                                   *)
LEMMA Lengths ==
  /\ DOMAIN CoreTables = 1..9 /\ DOMAIN ActivityColumns = 1..3
  /\ Len(Revision1) = 9 /\ \A d \in 0..8 : Revision1[d + 1] = Adding(CoreTables[d + 1])
  /\ Len(Revision2) = 1 /\ Revision2[1] = Adding("scan_checkpoints")
  /\ Len(Revision3) = 5
  /\ Revision3[1] = Adding("days") /\ Revision3[2] = Adding("max_messages")
  /\ Revision3[3] = Renaming /\ Revision3[4] = Recreating /\ Revision3[5] = Copying
  /\ Len(Revision4) = 3 /\ \A d \in 0..2 : Revision4[d + 1] = Adding(ActivityColumns[d + 1])
  /\ Revisions[1] = Revision1 /\ Revisions[2] = Revision2
  /\ Revisions[3] = Revision3 /\ Revisions[4] = Revision4
  /\ CoreTables[1] = "accounts" /\ ActivityColumns[1] = "display_sender"
<1>1. DOMAIN CoreTables = 1..9 /\ CoreTables[1] = "accounts"
  BY DEF CoreTables
<1>2. DOMAIN ActivityColumns = 1..3 /\ ActivityColumns[1] = "display_sender"
  BY DEF ActivityColumns
<1>3. Revision1 = [i \in 1..9 |-> Adding(CoreTables[i])]
  BY <1>1 DEF Revision1
<1>4. Revision4 = [i \in 1..3 |-> Adding(ActivityColumns[i])]
  BY <1>2 DEF Revision4
<1>5. Len(Revision1) = 9 /\ Len(Revision4) = 3
  <2> DEFINE T == {Adding(CoreTables[i]) : i \in 1..9} \cup {Adding(ActivityColumns[i]) : i \in 1..3}
  <2>1. /\ Revision1 = [i \in 1..9 |-> Revision1[i]] /\ \A i \in 1..9 : Revision1[i] \in T
        /\ Revision4 = [i \in 1..3 |-> Revision4[i]] /\ \A i \in 1..3 : Revision4[i] \in T
    BY <1>3, <1>4
  <2> HIDE DEF T
  <2> QED BY <2>1, SequenceOfLength
<1>6. /\ Len(Revision2) = 1 /\ Revision2[1] = Adding("scan_checkpoints")
      /\ Len(Revision3) = 5
      /\ Revision3[1] = Adding("days") /\ Revision3[2] = Adding("max_messages")
      /\ Revision3[3] = Renaming /\ Revision3[4] = Recreating /\ Revision3[5] = Copying
  BY DEF Revision2, Revision3
<1>7. /\ Revisions[1] = Revision1 /\ Revisions[2] = Revision2
      /\ Revisions[3] = Revision3 /\ Revisions[4] = Revision4
  BY DEF Revisions
<1> QED BY <1>1, <1>2, <1>3, <1>4, <1>5, <1>6, <1>7

(* What each number of statements of a revision leaves.                    *)
LEMMA Executions ==
  /\ Executed(0, 0) = {} /\ Executed(0, 9) = Shape[1]
  /\ Executed(1, 0) = Shape[1] /\ Executed(1, 1) = Shape[2]
  /\ Executed(2, 0) = Shape[2]
  /\ Executed(2, 1) = Shape[2] \cup {"days"}
  /\ Executed(2, 2) = Shape[2] \cup {"days", "max_messages"}
  /\ Executed(2, 3) = (Shape[2] \ {"action_events"}) \cup {"days", "max_messages", Before3}
  /\ Executed(2, 4) = Shape[2] \cup {"days", "max_messages", Before3, "stream_sequence"}
  /\ Executed(3, 0) = Shape[3] /\ Executed(3, 3) = Shape[4]
  /\ \A d \in Nat : Executed(4, d) = Shape[4]
  /\ \A d \in 0..8 : Executed(0, d + 1) = Executed(0, d) \cup {CoreTables[d + 1]}
  /\ \A d \in 0..2 : Executed(3, d + 1) = Executed(3, d) \cup {ActivityColumns[d + 1]}
  /\ \A d \in 0..9 : Executed(0, d) \subseteq Core
  /\ \A k \in 0..3, d \in 1..9 : First(k) \in Executed(k, d)
  /\ \A k \in 0..4 : Executed(k, 0) = IF k = 0 THEN {} ELSE Shape[k]
<1> DEFINE one == <<"scan_checkpoints">>
           four == <<"days", "max_messages", Before3, "stream_sequence">>
<1>1. /\ DOMAIN one = 1..1 /\ one[1] = "scan_checkpoints"
      /\ DOMAIN four = 1..4 /\ four[1] = "days" /\ four[2] = "max_messages"
      /\ four[3] = Before3 /\ four[4] = "stream_sequence"
  OBVIOUS
<1>2. /\ \A d \in Nat : Executed(0, d) = Prefix(CoreTables, d)
      /\ \A d \in Nat : Executed(1, d) = Core \cup Prefix(one, d)
      /\ \A d \in Nat : Executed(2, d) = (IF d = 3 THEN Shape[2] \ {"action_events"} ELSE Shape[2])
                                            \cup Prefix(four, d)
      /\ \A d \in Nat : Executed(3, d) = Shape[3] \cup Prefix(ActivityColumns, d)
      /\ \A d \in Nat : Executed(4, d) = Shape[4]
  BY DEF Executed
<1> HIDE DEF one, four
<1>3. /\ Prefix(one, 0) = {} /\ Prefix(one, 1) = {"scan_checkpoints"}
      /\ Prefix(four, 0) = {} /\ Prefix(four, 1) = {"days"}
      /\ Prefix(four, 2) = {"days", "max_messages"}
      /\ Prefix(four, 3) = {"days", "max_messages", Before3}
      /\ Prefix(four, 4) = {"days", "max_messages", Before3, "stream_sequence"}
  <2>1. Prefix(one, 0) = {} /\ Prefix(one, 0 + 1) = Prefix(one, 0) \cup {one[0 + 1]}
    <3>1. \A d \in Nat : d < 1 => Prefix(one, d + 1) = Prefix(one, d) \cup {one[d + 1]}
      BY <1>1, PrefixSteps
    <3>2. Prefix(one, 0) = {}
      BY <1>1, PrefixSteps
    <3>3. 0 \in Nat /\ 0 < 1
      OBVIOUS
    <3> QED BY <3>1, <3>2, <3>3
  <2>2. /\ Prefix(four, 0) = {} /\ Prefix(four, 0 + 1) = Prefix(four, 0) \cup {four[0 + 1]}
        /\ Prefix(four, 1 + 1) = Prefix(four, 1) \cup {four[1 + 1]}
        /\ Prefix(four, 2 + 1) = Prefix(four, 2) \cup {four[2 + 1]}
        /\ Prefix(four, 3 + 1) = Prefix(four, 3) \cup {four[3 + 1]}
    <3>1. \A d \in Nat : d < 4 => Prefix(four, d + 1) = Prefix(four, d) \cup {four[d + 1]}
      BY <1>1, PrefixSteps
    <3>2. Prefix(four, 0) = {}
      BY <1>1, PrefixSteps
    <3>3. 0 \in Nat /\ 0 < 4 /\ 1 \in Nat /\ 1 < 4 /\ 2 \in Nat /\ 2 < 4 /\ 3 \in Nat /\ 3 < 4
      OBVIOUS
    <3> QED BY <3>1, <3>2, <3>3
  <2> QED BY <1>1, <2>1, <2>2
<1>4. /\ Prefix(CoreTables, 0) = {} /\ Prefix(CoreTables, 9) = Core
      /\ \A d \in 0..8 : Prefix(CoreTables, d + 1) = Prefix(CoreTables, d) \cup {CoreTables[d + 1]}
      /\ Prefix(ActivityColumns, 0) = {} /\ Prefix(ActivityColumns, 3) = Range(ActivityColumns)
      /\ \A d \in 0..2 : Prefix(ActivityColumns, d + 1) = Prefix(ActivityColumns, d) \cup {ActivityColumns[d + 1]}
  <2>1. DOMAIN CoreTables = 1..9 /\ DOMAIN ActivityColumns = 1..3
    BY Lengths
  <2>2. \A d \in 0..8 : Prefix(CoreTables, d + 1) = Prefix(CoreTables, d) \cup {CoreTables[d + 1]}
    <3>1. \A d \in Nat : d < 9 => Prefix(CoreTables, d + 1) = Prefix(CoreTables, d) \cup {CoreTables[d + 1]}
      BY <2>1, PrefixSteps
    <3> QED BY <3>1
  <2>3. \A d \in 0..2 : Prefix(ActivityColumns, d + 1) = Prefix(ActivityColumns, d) \cup {ActivityColumns[d + 1]}
    <3>1. \A d \in Nat : d < 3 => Prefix(ActivityColumns, d + 1) = Prefix(ActivityColumns, d) \cup {ActivityColumns[d + 1]}
      BY <2>1, PrefixSteps
    <3> QED BY <3>1
  <2>4. /\ Prefix(CoreTables, 0) = {} /\ Prefix(CoreTables, 9) = Range(CoreTables)
        /\ Prefix(ActivityColumns, 0) = {} /\ Prefix(ActivityColumns, 3) = Range(ActivityColumns)
    BY <2>1, PrefixSteps
  <2> QED BY <2>2, <2>3, <2>4 DEF Core
<1>5. \A d \in 0..9 : Prefix(CoreTables, d) \subseteq Core
  BY DEF Prefix, Core, Range
<1>6. \A s, d : d \in 1..9 /\ 1 \in DOMAIN s => s[1] \in Prefix(s, d)
  BY DEF Prefix
<1>7. \A k \in 0..3, d \in 1..9 : First(k) \in Executed(k, d)
  <2>1. /\ "accounts" = CoreTables[1] /\ 1 \in DOMAIN CoreTables
        /\ "display_sender" = ActivityColumns[1] /\ 1 \in DOMAIN ActivityColumns
        /\ 1 \in DOMAIN one /\ 1 \in DOMAIN four
    BY <1>1, Lengths
  <2>2. First(0) = "accounts" /\ First(1) = "scan_checkpoints" /\ First(2) = "days"
        /\ First(3) = "display_sender"
    BY DEF First
  <2>3. \A d \in 1..9 : /\ First(0) \in Prefix(CoreTables, d) /\ First(1) \in Prefix(one, d)
                        /\ First(2) \in Prefix(four, d) /\ First(3) \in Prefix(ActivityColumns, d)
    BY <1>1, <1>6, <2>1, <2>2
  <2> QED BY <1>2, <2>3
<1>8. \A k \in 0..4 : Executed(k, 0) = IF k = 0 THEN {} ELSE Shape[k]
  <2>1. \A k \in 0..4 : k = 0 \/ k = 1 \/ k = 2 \/ k = 3 \/ k = 4
    OBVIOUS
  <2>2. /\ Executed(0, 0) = {} /\ Executed(1, 0) = Shape[1] /\ Executed(2, 0) = Shape[2]
        /\ Executed(3, 0) = Shape[3] /\ Executed(4, 0) = Shape[4]
    BY <1>2, <1>3, <1>4, Names
  <2> QED BY <2>1, <2>2
<1>9. /\ Executed(0, 9) = Shape[1] /\ Executed(1, 1) = Shape[2] /\ Executed(3, 3) = Shape[4]
  BY <1>2, <1>3, <1>4, Names
<1>10. /\ Executed(2, 1) = Shape[2] \cup {"days"}
       /\ Executed(2, 2) = Shape[2] \cup {"days", "max_messages"}
       /\ Executed(2, 3) = (Shape[2] \ {"action_events"}) \cup {"days", "max_messages", Before3}
       /\ Executed(2, 4) = Shape[2] \cup {"days", "max_messages", Before3, "stream_sequence"}
  BY <1>2, <1>3
<1>11. /\ \A d \in 0..8 : Executed(0, d + 1) = Executed(0, d) \cup {CoreTables[d + 1]}
       /\ \A d \in 0..2 : Executed(3, d + 1) = Executed(3, d) \cup {ActivityColumns[d + 1]}
       /\ \A d \in 0..9 : Executed(0, d) \subseteq Core
  BY <1>2, <1>4, <1>5
<1> QED BY <1>2, <1>7, <1>8, <1>9, <1>10, <1>11, Names
-----------------------------------------------------------------------------
(* The statements are told apart by what they add and drop.                *)
LEMMA Kinds ==
  /\ \A x : /\ Adding(x).adds = {x} /\ Adding(x).drops = {}
            /\ Adding(x) # Renaming /\ Adding(x) # Recreating /\ Adding(x) # Copying
  /\ Renaming # Recreating /\ Renaming # Copying /\ Recreating # Copying
  /\ Renaming.adds = {Before3} /\ Renaming.drops = {"action_events"}
  /\ Recreating.adds = {"action_events", "stream_sequence"} /\ Recreating.drops = {}
  /\ Copying.adds = {} /\ Copying.drops = {Before3}
<1>1. /\ \A x : Adding(x).adds = {x} /\ Adding(x).drops = {}
      /\ Renaming.adds = {Before3} /\ Renaming.drops = {"action_events"}
      /\ Recreating.adds = {"action_events", "stream_sequence"} /\ Recreating.drops = {}
      /\ Copying.adds = {} /\ Copying.drops = {Before3}
  BY DEF Adding, Renaming, Recreating, Copying, Before3
<1>2. "action_events" # "stream_sequence" /\ Before3 # "action_events"
  BY DEF Before3
<1> QED BY <1>1, <1>2

(* What the next statement of the upgrade is, and the schema before and    *)
(* after it.                                                               *)
Step == Current[done + 1]
LEMMA NextStatement ==
  ASSUME TypeOK, Fits, Renamed, Upgrading, done < Len(Current), Step.adds \cap schema = {}
  PROVE  /\ schema = Executed(version, done) \cup {"alembic_version"}
         /\ \/ /\ Step = Copying /\ version = 2 /\ done = 4
               /\ (schema \ Step.drops) \cup Step.adds = Executed(3, 0) \cup {"alembic_version"}
            \/ /\ Step # Copying /\ (version = 2 => done + 1 <= 4)
               /\ (schema \ Step.drops) \cup Step.adds
                    = Executed(version, done + 1) \cup {"alembic_version"}
         /\ Step = Renaming => version = 2 /\ done = 2
         /\ Step = Recreating => version = 2 /\ done = 3
         /\ Step = Copying => version = 2 /\ done = 4
         /\ (\E x : Step = Adding(x)) => ~(version = 2 /\ done \in {2, 3, 4})
<1>1. version \in 0..3 /\ done \in 0..9
  <2>1. Len(CoreTables) = 9
    BY DEF CoreTables
  <2> QED BY <2>1 DEF TypeOK, Upgrading, HeadRevision
<1>2. \/ schema = Executed(version, done) \cup {"alembic_version"}
      \/ done = 0 /\ First(version) \in schema
  BY DEF Fits, Upgrading
<1>3. done = 0 => First(version) \in Step.adds
  <2>1. version = 0 => Current[1] = Adding("accounts") /\ First(0) = "accounts"
    <3>1. Revision1[0 + 1] = Adding(CoreTables[0 + 1])
      BY Lengths
    <3> QED BY <3>1, Lengths DEF Current, First
  <2>2. version = 1 => Current[1] = Adding("scan_checkpoints") /\ First(1) = "scan_checkpoints"
    BY Lengths DEF Current, First
  <2>3. version = 2 => Current[1] = Adding("days") /\ First(2) = "days"
    BY Lengths DEF Current, First
  <2>4. version = 3 => Current[1] = Adding("display_sender") /\ First(3) = "display_sender"
    <3>1. Revision4[0 + 1] = Adding(ActivityColumns[0 + 1])
      BY Lengths
    <3> QED BY <3>1, Lengths DEF Current, First
  <2> QED BY <1>1, <2>1, <2>2, <2>3, <2>4, Kinds DEF Step
<1>4. schema = Executed(version, done) \cup {"alembic_version"}
  BY <1>2, <1>3
<1>5. CASE version = 0
  <2>1. Current = Revision1 /\ done \in 0..8
    <3>1. version + 1 = 1
      BY <1>5
    <3>2. Current = Revision1
      BY <3>1, Lengths DEF Current
    <3> QED BY <1>1, <3>2, Lengths
  <2>2. Step = Adding(CoreTables[done + 1])
    BY <2>1, Lengths DEF Step
  <2>3. Executed(0, done + 1) = Executed(0, done) \cup {CoreTables[done + 1]}
    BY <2>1, Executions
  <2> QED BY <1>4, <1>5, <2>2, <2>3, Kinds
<1>6. CASE version = 1
  <2>1. Current = Revision2 /\ done = 0
    <3>1. version + 1 = 2
      BY <1>6
    <3>2. Current = Revision2
      BY <3>1, Lengths DEF Current
    <3> QED BY <1>1, <3>2, Lengths
  <2>2. Step = Adding("scan_checkpoints")
    BY <2>1, Lengths DEF Step
  <2>3. Executed(1, 0 + 1) = Executed(1, 0) \cup {"scan_checkpoints"}
    BY Executions, Names
  <2> QED BY <1>4, <1>6, <2>1, <2>2, <2>3, Kinds
<1>7. CASE version = 2
  <2>1. Current = Revision3 /\ done \in 0..4
    <3>1. version + 1 = 3
      BY <1>7
    <3>2. Current = Revision3
      BY <3>1, Lengths DEF Current
    <3> QED BY <1>1, <3>2, Lengths
  <2>2. done = 0 \/ done = 1 \/ done = 2 \/ done = 3 \/ done = 4
    BY <2>1
  <2>a. /\ "action_events" \in Shape[2] /\ Before3 \notin Shape[2] /\ Before3 # "alembic_version"
        /\ "alembic_version" # "action_events"
        /\ Before3 \notin {"days", "max_messages", "stream_sequence", "action_events"}
        /\ "action_events" \notin {"days", "max_messages", "stream_sequence"}
    BY Names DEF Before3
  <2>3. CASE done = 0
    <3>1. Step = Adding("days") /\ Executed(2, 0 + 1) = Executed(2, 0) \cup {"days"}
      BY <2>1, <2>3, Lengths, Executions DEF Step
    <3> QED BY <1>4, <1>7, <2>3, <3>1, Kinds
  <2>4. CASE done = 1
    <3>1. Step = Adding("max_messages") /\ Executed(2, 1 + 1) = Executed(2, 1) \cup {"max_messages"}
      BY <2>1, <2>4, Lengths, Executions DEF Step
    <3> QED BY <1>4, <1>7, <2>4, <3>1, Kinds
  <2>5. CASE done = 2
    <3>1. Step = Renaming
      BY <2>1, <2>5, Lengths DEF Step
    <3>2. /\ Executed(2, 2) = Shape[2] \cup {"days", "max_messages"}
          /\ Executed(2, 2 + 1) = (Shape[2] \ {"action_events"}) \cup {"days", "max_messages", Before3}
      BY Executions
    <3>3. (schema \ {"action_events"}) \cup {Before3} = Executed(2, 2 + 1) \cup {"alembic_version"}
      BY <1>4, <1>7, <2>5, <2>a, <3>2
    <3> QED BY <1>4, <1>7, <2>5, <3>1, <3>3, Kinds
  <2>6. CASE done = 3
    <3>1. Step = Recreating
      BY <2>1, <2>6, Lengths DEF Step
    <3>2. /\ Executed(2, 3) = (Shape[2] \ {"action_events"}) \cup {"days", "max_messages", Before3}
          /\ Executed(2, 3 + 1) = Shape[2] \cup {"days", "max_messages", Before3, "stream_sequence"}
      BY Executions
    <3>3. schema \cup {"action_events", "stream_sequence"} = Executed(2, 3 + 1) \cup {"alembic_version"}
      BY <1>4, <1>7, <2>6, <2>a, <3>2
    <3> QED BY <1>4, <1>7, <2>6, <3>1, <3>3, Kinds
  <2>7. CASE done = 4
    <3>1. Step = Copying
      BY <2>1, <2>7, Lengths DEF Step
    <3>2. /\ Executed(2, 4) = Shape[2] \cup {"days", "max_messages", Before3, "stream_sequence"}
          /\ Executed(3, 0) = Shape[2] \cup {"days", "max_messages", "stream_sequence"}
      BY Executions, Names
    <3>3. schema \ {Before3} = Executed(3, 0) \cup {"alembic_version"}
      BY <1>4, <1>7, <2>7, <2>a, <3>2
    <3> QED BY <1>4, <1>7, <2>7, <3>1, <3>3, Kinds
  <2> QED BY <2>2, <2>3, <2>4, <2>5, <2>6, <2>7
<1>8. CASE version = 3
  <2>1. Current = Revision4 /\ done \in 0..2
    <3>1. version + 1 = 4
      BY <1>8
    <3>2. Current = Revision4
      BY <3>1, Lengths DEF Current
    <3> QED BY <1>1, <3>2, Lengths
  <2>2. Step = Adding(ActivityColumns[done + 1])
    BY <2>1, Lengths DEF Step
  <2>3. Executed(3, done + 1) = Executed(3, done) \cup {ActivityColumns[done + 1]}
    BY <2>1, Executions
  <2> QED BY <1>4, <1>8, <2>2, <2>3, Kinds
<1> QED BY <1>1, <1>4, <1>5, <1>6, <1>7, <1>8

(* A database that is stamped has the schema of the release it is taken    *)
(* for (run_migrations, database.py 78-103).                               *)
LEMMA StampedShape ==
  ASSUME schema \in Range(Shape) \cup ForeignShapes, LegacyRevision # 0
  PROVE  LegacyRevision \in 1..4 /\ schema = Shape[LegacyRevision]
<1>1. /\ Core # {} /\ "scan_checkpoints" \notin Core /\ "days" \notin Core
      /\ "max_messages" \notin Core /\ "stream_sequence" \notin Core
      /\ ~(Core \subseteq {"accounts"})
      /\ Range(ActivityColumns) = {"display_sender", "display_subject", "target_display"}
      /\ Core \cap Range(ActivityColumns) = {}
      /\ Shape[1] = Core
      /\ Shape[2] = Core \cup {"scan_checkpoints"}
      /\ Shape[3] = Core \cup {"scan_checkpoints", "days", "max_messages", "stream_sequence"}
      /\ Shape[4] = Core \cup {"scan_checkpoints", "days", "max_messages", "stream_sequence"}
                         \cup {"display_sender", "display_subject", "target_display"}
  BY Names
<1> DEFINE A == Core \subseteq schema
           B == "scan_checkpoints" \in schema
           C == {"days", "max_messages"} \cap schema = {}
           D == Shape[3] \subseteq schema
           E == Range(ActivityColumns) \subseteq schema
           F == Range(ActivityColumns) \cap schema = {}
           G == Shape[2] \subseteq schema
<1>2. LegacyRevision = CASE ~A -> 0 [] A /\ ~B -> 1 [] G /\ C -> 2 [] D /\ E -> 4 [] D /\ F -> 3 [] OTHER -> 0
  BY Zenon DEF LegacyRevision
<1>3. ASSUME schema = Shape[1]
      PROVE  A /\ ~B /\ ~G /\ ~D
  BY <1>1, <1>3
<1>4. ASSUME schema = Shape[2]
      PROVE  A /\ B /\ G /\ C /\ ~D
  BY <1>1, <1>4
<1>5. ASSUME schema = Shape[3]
      PROVE  A /\ B /\ ~C /\ D /\ F /\ ~E
  BY <1>1, <1>5
<1>6. ASSUME schema = Shape[4]
      PROVE  A /\ B /\ ~C /\ D /\ E /\ ~F
  BY <1>1, <1>6
<1>7. ASSUME schema = {"accounts"}
      PROVE  ~A /\ ~G /\ ~D
  BY <1>1, <1>7
<1>8. ASSUME schema = Shape[2] \cup {"days"}
      PROVE  A /\ B /\ ~C /\ ~D
  BY <1>1, <1>8
<1>9. ASSUME schema = Shape[2] \cup {"days", "max_messages"}
      PROVE  A /\ B /\ ~C /\ ~D
  BY <1>1, <1>9
<1>10. ASSUME schema = Shape[3] \cup {"display_sender"}
       PROVE  A /\ B /\ ~C /\ D /\ ~E /\ ~F
  BY <1>1, <1>10
<1> HIDE DEF A, B, C, D, E, F, G
<1>11. \/ schema = Shape[1] \/ schema = Shape[2] \/ schema = Shape[3] \/ schema = Shape[4]
       \/ schema = {"accounts"} \/ schema = Shape[2] \cup {"days"}
       \/ schema = Shape[2] \cup {"days", "max_messages"} \/ schema = Shape[3] \cup {"display_sender"}
  BY Names DEF ForeignShapes
<1> QED BY <1>2, <1>3, <1>4, <1>5, <1>6, <1>7, <1>8, <1>9, <1>10, <1>11
-----------------------------------------------------------------------------
(* Schema and revision through every step of every process.                *)
Frame ==
  /\ schema \subseteq Shape[4] \cup {"alembic_version", Before3}
  /\ version \in 0..4 /\ stamp \in 0..4 /\ done \in 0..9
  /\ mode \in {"down", "stamping", "upgrading", "recovering", "up", "refused", "broken"}
  /\ faults \in 0..MaxFaults
DbOK == Frame /\ Fits /\ Renamed

(* The part of the type invariant about the schema.                        *)
LEMMA FrameOfType == TypeOK => Frame
<1>1. Len(CoreTables) = 9
  BY DEF CoreTables
<1> QED BY <1>1 DEF TypeOK, Frame, HeadRevision, Before3

(* A revision that was cut short fails at its first statement.             *)
LEMMA StartsAnew ==
  ASSUME Frame,
         \/ schema = Executed(version, done) \cup {"alembic_version"}
         \/ version < HeadRevision /\ done = 0 /\ First(version) \in schema
  PROVE  \/ schema = Executed(version, 0) \cup {"alembic_version"}
         \/ version < HeadRevision /\ First(version) \in schema
<1>1. CASE done = 0
  BY <1>1
<1>2. CASE done # 0 /\ version = 4
  BY <1>2, Executions DEF Frame, HeadRevision
<1>3. CASE done # 0 /\ version # 4
  <2>1. version \in 0..3 /\ done \in 1..9
    BY <1>3 DEF Frame
  <2> QED BY <1>3, <2>1, Executions DEF HeadRevision
<1> QED BY <1>1, <1>2, <1>3

(* How many statements the next revision has.                              *)
LEMMA LengthOfCurrent ==
  /\ version = 0 => Len(Current) = 9
  /\ version = 1 => Len(Current) = 1
  /\ version = 2 => Len(Current) = 5
  /\ version = 3 => Len(Current) = 3
<1>1. ASSUME version = 0 PROVE Current = Revision1
  <2>1. version + 1 = 1
    BY <1>1
  <2> QED BY <2>1, Lengths DEF Current
<1>2. ASSUME version = 1 PROVE Current = Revision2
  <2>1. version + 1 = 2
    BY <1>2
  <2> QED BY <2>1, Lengths DEF Current
<1>3. ASSUME version = 2 PROVE Current = Revision3
  <2>1. version + 1 = 3
    BY <1>3
  <2> QED BY <2>1, Lengths DEF Current
<1>4. ASSUME version = 3 PROVE Current = Revision4
  <2>1. version + 1 = 4
    BY <1>4
  <2> QED BY <2>1, Lengths DEF Current
<1> QED BY <1>1, <1>2, <1>3, <1>4, Lengths

(* An unversioned database is refused, or stamped as the release it is.    *)
LEMMA StartStep ==
  ASSUME DbOK, Start
  PROVE  DbOK'
<1>1. CASE schema # {} /\ "alembic_version" \notin schema
  <2>1. version = 0 /\ done = 0 /\ schema \in Range(Shape) \cup ForeignShapes
    BY <1>1 DEF DbOK, Fits, Start, Starting
  <2>2. LegacyRevision = 0 \/ (LegacyRevision \in 1..4 /\ schema = Shape[LegacyRevision])
    <3>1. ASSUME LegacyRevision # 0
          PROVE  LegacyRevision \in 1..4 /\ schema = Shape[LegacyRevision]
      BY <2>1, <3>1, StampedShape, Zenon
    <3> QED BY <3>1
  <2>3. /\ mode' = IF LegacyRevision = 0 THEN "refused" ELSE "stamping"
        /\ stamp' = LegacyRevision /\ done' = 0
        /\ schema' = schema /\ version' = version /\ rows' = rows /\ kept' = kept /\ faults' = faults
    BY <1>1 DEF Start, durable
  <2>4. Frame'
    BY <2>2, <2>3 DEF DbOK, Frame
  <2>5. Fits'
    BY <1>1, <2>1, <2>2, <2>3 DEF Fits
  <2>6. Renamed'
    BY <2>1, <2>3 DEF DbOK, Renamed, Running
  <2> QED BY <2>4, <2>5, <2>6 DEF DbOK
<1>2. CASE ~(schema # {} /\ "alembic_version" \notin schema)
  <2>1. /\ mode' = "upgrading" /\ stamp' = stamp /\ done' = 0
        /\ schema' = schema /\ version' = version /\ rows' = rows /\ kept' = kept /\ faults' = faults
    BY <1>2 DEF Start, durable
  <2>2. Frame'
    BY <2>1 DEF DbOK, Frame
  <2>3. ASSUME "alembic_version" \notin schema PROVE Fits'
    BY <1>2, <2>1, <2>3 DEF DbOK, Fits
  <2>4. ASSUME "alembic_version" \in schema PROVE Fits'
    <3>1. \/ schema = Executed(version, done) \cup {"alembic_version"}
          \/ version < HeadRevision /\ done = 0 /\ First(version) \in schema
      BY <2>4 DEF DbOK, Fits, Start, Starting
    <3>2. \/ schema = Executed(version, 0) \cup {"alembic_version"}
          \/ version < HeadRevision /\ First(version) \in schema
      BY <3>1, StartsAnew DEF DbOK
    <3> QED BY <2>1, <2>4, <3>2 DEF Fits
  <2>5. Renamed'
    BY <2>1 DEF DbOK, Renamed, Running
  <2>6. Fits'
    BY <2>3, <2>4
  <2> QED BY <2>2, <2>5, <2>6 DEF DbOK
<1> QED BY <1>1, <1>2

(* The two steps of a stamp, or of an empty database's first upgrade.      *)
LEMMA VersionTableStep ==
  ASSUME DbOK, EnsureVersionTable \/ Stamp
  PROVE  DbOK'
<1>1. CASE EnsureVersionTable
  <2>1. /\ "alembic_version" \notin schema /\ schema' = schema \cup {"alembic_version"}
        /\ version' = version /\ rows' = rows /\ kept' = kept /\ mode' = mode /\ stamp' = stamp
        /\ done' = done /\ faults' = faults /\ Starting
    BY <1>1 DEF EnsureVersionTable
  <2>2. Frame'
    BY <2>1 DEF DbOK, Frame
  <2>3. version = 0 /\ done = 0
    BY <2>1 DEF DbOK, Fits
  <2>4. ASSUME mode = "stamping" PROVE Fits'
    BY <2>1, <2>3, <2>4 DEF DbOK, Fits
  <2>5. ASSUME mode = "upgrading" PROVE Fits'
    <3>1. schema' = Executed(0, 0) \cup {"alembic_version"}
      BY <2>1, <2>5, Executions DEF DbOK, Fits
    <3> QED BY <2>1, <2>3, <2>5, <3>1 DEF Fits
  <2>6. Fits'
    BY <2>1, <2>4, <2>5 DEF Starting
  <2>7. Renamed'
    <3>1. Before3 # "alembic_version"
      BY DEF Before3
    <3> QED BY <2>1, <2>3, <3>1 DEF DbOK, Renamed, Running, Starting
  <2> QED BY <2>2, <2>6, <2>7 DEF DbOK
<1>2. CASE Stamp
  <2>1. /\ mode = "stamping" /\ "alembic_version" \in schema /\ version' = stamp
        /\ mode' = "upgrading" /\ schema' = schema /\ rows' = rows /\ kept' = kept
        /\ stamp' = stamp /\ done' = done /\ faults' = faults
    BY <1>2 DEF Stamp
  <2>2. version = 0 /\ done = 0 /\ stamp \in 1..4 /\ schema = Shape[stamp] \cup {"alembic_version"}
    BY <2>1 DEF DbOK, Fits
  <2>3. Executed(stamp, 0) = Shape[stamp]
    BY <2>2, Executions
  <2>4. Fits'
    BY <2>1, <2>2, <2>3 DEF Fits
  <2>5. Renamed' /\ Frame'
    BY <2>1, <2>2 DEF DbOK, Renamed, Running, Frame
  <2> QED BY <2>4, <2>5 DEF DbOK
<1> QED BY <1>1, <1>2

(* A statement of a revision, on a schema that fits it.                    *)
LEMMA StatementStep ==
  ASSUME TypeOK, DbOK, Add \/ Rename \/ Recreate \/ Copy
  PROVE  /\ DbOK'
         /\ Rename => version = 2 /\ version' = 2 /\ kept = <<>> /\ rows' = <<>> /\ kept' = rows
         /\ Copy => version = 2 /\ version' = 3 /\ rows = <<>> /\ rows' = rows \o Copied(kept) /\ kept' = <<>>
         /\ Add \/ Recreate => version' = version /\ rows' = rows /\ kept' = kept
<1> USE DEF Step
<1>1. /\ Upgrading /\ done < Len(Current) /\ Step.adds \cap schema = {}
      /\ schema' = (schema \ Step.drops) \cup Step.adds
      /\ mode' = mode /\ stamp' = stamp /\ faults' = faults
  BY DEF Add, Rename, Recreate, Copy, Statement
<1>2. /\ mode = "upgrading" /\ "alembic_version" \in schema
  BY <1>1 DEF Upgrading
<1>3. /\ schema = Executed(version, done) \cup {"alembic_version"}
      /\ \/ /\ Step = Copying /\ version = 2 /\ done = 4
            /\ schema' = Executed(3, 0) \cup {"alembic_version"}
         \/ /\ Step # Copying /\ (version = 2 => done + 1 <= 4)
            /\ schema' = Executed(version, done + 1) \cup {"alembic_version"}
      /\ Step = Renaming => version = 2 /\ done = 2
      /\ Step = Recreating => version = 2 /\ done = 3
      /\ Step = Copying => version = 2 /\ done = 4
      /\ (\E x : Step = Adding(x)) => ~(version = 2 /\ done \in {2, 3, 4})
  BY <1>1, NextStatement DEF DbOK
<1>4. version \in 0..4 /\ done \in 0..9
  BY DEF DbOK, Frame
<1>5. version < 4 /\ done + 1 <= 9
  <2>1. version = 0 \/ version = 1 \/ version = 2 \/ version = 3
    BY <1>1, <1>4 DEF Upgrading, HeadRevision
  <2>2. done < Len(Current)
    BY <1>1
  <2>3. Len(Current) \in {9, 1, 5, 3}
    BY <2>1, LengthOfCurrent
  <2>4. done < 9
    <3> DEFINE n == Len(Current)
    <3>1. n \in {9, 1, 5, 3} /\ done < n
      BY <2>2, <2>3
    <3> HIDE DEF n, Step
    <3> QED BY <1>4, <3>1
  <2> QED BY <1>4, <2>1, <2>4
<1> HIDE DEF Step
<1>6. ASSUME NEW d \in 0..9, NEW k \in 0..4
      PROVE  Executed(k, d) \subseteq Shape[4] \cup {Before3}
             /\ (Before3 \in Executed(k, d) => k = 2)
             /\ (k = 2 /\ d <= 2 => Before3 \notin Executed(k, d))
  <2>1. /\ Before3 \notin Shape[4] /\ Before3 \notin Core /\ Core \subseteq Shape[4]
        /\ Shape[3] \subseteq Shape[4] /\ Shape[2] \subseteq Shape[4]
        /\ {"days", "max_messages", "stream_sequence", "scan_checkpoints"} \subseteq Shape[4]
        /\ Range(ActivityColumns) \subseteq Shape[4]
        /\ Before3 \notin {"days", "max_messages", "stream_sequence", "scan_checkpoints"}
    BY Names DEF Before3
  <2>2. CASE k = 0
    BY <2>1, <2>2, Executions
  <2>3. CASE k = 1
    <3>1. Prefix(<<"scan_checkpoints">>, d) \subseteq {"scan_checkpoints"}
      BY DEF Prefix
    <3> QED BY <2>1, <2>3, <3>1 DEF Executed
  <2>4. CASE k = 2
    <3>1. Prefix(<<"days", "max_messages", Before3, "stream_sequence">>, d)
            \subseteq {"days", "max_messages", Before3, "stream_sequence"}
      BY DEF Prefix
    <3>2. d = 0 \/ d = 1 \/ d = 2 \/ d > 2
      OBVIOUS
    <3>3. /\ Before3 \notin Executed(2, 0) /\ Before3 \notin Executed(2, 1)
          /\ Before3 \notin Executed(2, 2)
      BY <2>1, Executions
    <3>4. Executed(2, d) \subseteq Shape[4] \cup {Before3}
      BY <2>1, <3>1 DEF Executed
    <3> QED BY <2>4, <3>2, <3>3, <3>4
  <2>5. CASE k = 3
    <3>1. Prefix(ActivityColumns, d) \subseteq Range(ActivityColumns)
      BY DEF Prefix, Range
    <3>2. Before3 \notin Range(ActivityColumns) /\ Before3 \notin Shape[3]
      BY <2>1
    <3> QED BY <2>1, <2>5, <3>1, <3>2 DEF Executed
  <2>6. CASE k = 4
    BY <2>1, <2>6, Executions
  <2> QED BY <2>2, <2>3, <2>4, <2>5, <2>6
<1>7. Before3 # "alembic_version"
  BY DEF Before3
<1>8. CASE Copy
  <2>1. /\ Step = Copying /\ rows' = rows \o Copied(kept) /\ kept' = <<>>
        /\ version' = version + 1 /\ done' = 0
    BY <1>8 DEF Copy, Statement, Step
  <2>2. version = 2 /\ done = 4 /\ schema' = Executed(3, 0) \cup {"alembic_version"}
    BY <1>3, <2>1
  <2>3. Before3 \in schema
    BY <1>3, <2>2, Executions
  <2>4. rows = <<>>
    BY <2>3 DEF DbOK, Renamed
  <2>5. Before3 \notin schema' /\ schema' \subseteq Shape[4] \cup {"alembic_version", Before3}
    BY <1>6, <1>7, <2>2
  <2>6. Frame'
    BY <1>1, <2>1, <2>2, <2>5 DEF DbOK, Frame
  <2>7. Fits'
    BY <1>1, <1>2, <2>1, <2>2 DEF Fits
  <2>8. Renamed'
    BY <1>1, <1>2, <2>1, <2>2, <2>5 DEF Renamed, Running
  <2>9. ~Add /\ ~Rename /\ ~Recreate
    BY <2>1, Kinds DEF Add, Rename, Recreate, Statement, Step
  <2> QED BY <2>1, <2>2, <2>4, <2>6, <2>7, <2>8, <2>9 DEF DbOK
<1>9. CASE Add \/ Rename \/ Recreate
  <2>1. Step # Copying /\ version' = version /\ done' = done + 1
    BY <1>9, Kinds DEF Add, Rename, Recreate, Statement, Step
  <2>2. (version = 2 => done + 1 <= 4) /\ schema' = Executed(version, done + 1) \cup {"alembic_version"}
    BY <1>3, <2>1
  <2>3. schema' \subseteq Shape[4] \cup {"alembic_version", Before3}
        /\ (Before3 \in schema' => version = 2)
        /\ (version = 2 /\ done + 1 <= 2 => Before3 \notin schema')
        /\ (Before3 \in schema => version = 2)
        /\ (version = 2 /\ done <= 2 => Before3 \notin schema)
    BY <1>3, <1>4, <1>5, <1>6, <1>7, <2>2
  <2>4. Frame'
    BY <1>1, <1>4, <1>5, <2>1, <2>3 DEF DbOK, Frame
  <2>5. Fits'
    BY <1>1, <1>2, <2>1, <2>2 DEF Fits
  <2>6. ~Copy
    BY <2>1 DEF Copy, Statement, Step
  <2>7. CASE Rename
    <3>1. Step = Renaming /\ kept' = rows /\ rows' = <<>>
      BY <2>7 DEF Rename, Statement, Step
    <3>2. version = 2 /\ done = 2 /\ Before3 \notin schema
      BY <1>3, <2>3, <3>1
    <3>3. kept = <<>>
      BY <3>2 DEF DbOK, Renamed
    <3>4. Before3 \in schema'
      BY <2>2, <3>2, Executions
    <3>5. Renamed'
      BY <1>1, <1>2, <2>1, <2>2, <3>1, <3>2, <3>4 DEF Renamed, Running
    <3>6. ~Add /\ ~Recreate
      BY <3>1, Kinds DEF Add, Recreate, Statement, Step
    <3> QED BY <2>1, <2>4, <2>5, <2>6, <3>1, <3>2, <3>3, <3>5, <3>6 DEF DbOK
  <2>8. CASE Recreate
    <3>1. Step = Recreating /\ rows' = rows /\ kept' = kept
      BY <2>8 DEF Recreate, Statement, Step
    <3>2. version = 2 /\ done = 3
      BY <1>3, <3>1
    <3>3. Before3 \in schema /\ Before3 \in schema'
      BY <1>3, <2>2, <3>2, Executions
    <3>4. Renamed'
      BY <1>1, <1>2, <2>1, <2>2, <3>1, <3>2, <3>3, <1>7 DEF DbOK, Renamed, Running
    <3>5. ~Rename
      BY <3>1, Kinds DEF Rename, Statement, Step
    <3> QED BY <2>1, <2>4, <2>5, <2>6, <3>1, <3>4, <3>5 DEF DbOK
  <2>9. CASE Add
    <3>1. rows' = rows /\ kept' = kept /\ \E x : Step = Adding(x)
      BY <2>9 DEF Add, Statement, Step
    <3>2. ~(version = 2 /\ done \in {2, 3, 4})
      BY <1>3, <3>1
    <3>3. Before3 \notin schema /\ Before3 \notin schema'
      BY <1>4, <2>2, <2>3, <3>2
    <3>4. Renamed'
      BY <1>1, <1>2, <2>1, <2>2, <3>1, <3>3 DEF DbOK, Renamed, Running
    <3>5. ~Rename
      BY <3>1, Kinds DEF Rename, Statement, Step
    <3> QED BY <2>1, <2>4, <2>5, <2>6, <3>1, <3>4, <3>5 DEF DbOK
  <2> QED BY <1>9, <2>7, <2>8, <2>9
<1> QED BY <1>8, <1>9

(* A revision recorded, one that fails, and the end of the start.          *)
LEMMA RevisionStep ==
  ASSUME DbOK, Fail \/ RecordRevision \/ Upgraded \/ Serve
  PROVE  DbOK' /\ rows' = rows /\ kept' = kept
<1>1. CASE Fail \/ Upgraded \/ Serve
  <2>1. /\ schema' = schema /\ version' = version /\ rows' = rows /\ kept' = kept
        /\ stamp' = stamp /\ done' = done /\ faults' = faults
        /\ mode' \in {"broken", "recovering", "up"}
        /\ mode \in {"upgrading", "recovering"}
        /\ mode' # "broken" => version = 4
    BY <1>1 DEF Fail, Upgraded, Serve, durable, Upgrading, DbOK, Renamed, Running, HeadRevision
  <2>2. "alembic_version" \in schema
    BY <1>1 DEF Fail, Upgraded, Serve, Upgrading, DbOK, Fits, Renamed, Running, HeadRevision
  <2>3. Frame'
    BY <2>1 DEF DbOK, Frame
  <2>4. Fits'
    BY <2>1, <2>2 DEF DbOK, Fits
  <2>5. Renamed'
    BY <2>1 DEF DbOK, Renamed, Running, HeadRevision
  <2> QED BY <2>1, <2>3, <2>4, <2>5 DEF DbOK
<1>2. CASE RecordRevision
  <2>1. /\ mode = "upgrading" /\ "alembic_version" \in schema /\ version \in 0..3
        /\ done = Len(Current) /\ version' = version + 1 /\ done' = 0
        /\ schema' = schema /\ rows' = rows /\ kept' = kept
        /\ mode' = mode /\ stamp' = stamp /\ faults' = faults
    BY <1>2 DEF RecordRevision, Upgrading, HeadRevision, DbOK, Frame
  <2>2. version = 0 \/ version = 1 \/ version = 2 \/ version = 3
    BY <2>1
  <2>3. /\ version = 0 => done = 9
        /\ version = 1 => done = 1
        /\ version = 2 => done = 5
        /\ version = 3 => done = 3
    BY <2>1, LengthOfCurrent
  <2>4. done \in 0..9 /\ (version = 2 => done <= 4)
    BY DEF DbOK, Frame, Renamed
  <2>5. version # 2
    BY <2>3, <2>4
  <2>6. done # 0
    BY <2>1, <2>2, <2>3, <2>4
  <2>7. schema = Executed(version, done) \cup {"alembic_version"}
    BY <2>1, <2>6 DEF DbOK, Fits
  <2>8. schema = Executed(version + 1, 0) \cup {"alembic_version"}
    <3>1. /\ Executed(0, 9) = Executed(0 + 1, 0) /\ Executed(1, 1) = Executed(1 + 1, 0)
          /\ Executed(3, 3) = Executed(3 + 1, 0)
      BY Executions
    <3>2. version = 0 \/ version = 1 \/ version = 3
      BY <2>2, <2>5
    <3> QED BY <2>3, <2>7, <3>1, <3>2
  <2>9. Before3 \notin schema
    BY <2>5 DEF DbOK, Renamed
  <2>10. Frame'
    BY <2>1 DEF DbOK, Frame
  <2>11. Fits'
    BY <2>1, <2>8 DEF Fits
  <2>12. Renamed'
    BY <2>1, <2>9 DEF DbOK, Renamed, Running
  <2> QED BY <2>1, <2>10, <2>11, <2>12 DEF DbOK
<1> QED BY <1>1, <1>2

(* A kill leaves a schema that the next start can judge.                   *)
LEMMA StopStep ==
  ASSUME DbOK, Stop
  PROVE  DbOK' /\ rows' = rows /\ kept' = kept /\ version' = version
<1>1. /\ mode' = "down" /\ done' = 0 /\ faults' = faults + 1 /\ faults < MaxFaults
      /\ schema' = schema /\ version' = version /\ rows' = rows /\ kept' = kept /\ stamp' = stamp
      /\ Starting \/ Running
  BY DEF Stop, durable
<1>2. Frame'
  BY <1>1, DatabaseAssumption DEF DbOK, Frame
<1>3. Renamed'
  BY <1>1 DEF DbOK, Renamed, Running
<1>4. ASSUME "alembic_version" \notin schema PROVE Fits'
  <2>1. version = 0 /\ ~Running
    BY <1>4 DEF DbOK, Fits, Renamed, HeadRevision
  <2>2. CASE mode = "stamping"
    BY <1>1, <1>4, <2>2, Names DEF DbOK, Fits
  <2>3. CASE mode = "upgrading"
    BY <1>1, <1>4, <2>3 DEF DbOK, Fits
  <2> QED BY <1>1, <2>1, <2>2, <2>3 DEF Starting
<1>5. ASSUME "alembic_version" \in schema, mode = "stamping" PROVE Fits'
  <2>1. "accounts" \in Shape[1] /\ "accounts" \in Shape[2] /\ "accounts" \in Shape[3] /\ "accounts" \in Shape[4]
    BY Names
  <2>2. First(0) = "accounts"
    BY DEF First
  <2>3. stamp \in 1..4 /\ schema = Shape[stamp] \cup {"alembic_version"} /\ version = 0
    BY <1>5 DEF DbOK, Fits
  <2>4. stamp = 1 \/ stamp = 2 \/ stamp = 3 \/ stamp = 4
    BY <2>3
  <2>5. First(version) \in schema
    BY <2>1, <2>2, <2>3, <2>4
  <2> QED BY <1>1, <1>5, <2>3, <2>5 DEF Fits, HeadRevision
<1>6. ASSUME "alembic_version" \in schema, mode # "stamping" PROVE Fits'
  <2>1. \/ schema = Executed(version, done) \cup {"alembic_version"}
        \/ version < HeadRevision /\ done = 0 /\ First(version) \in schema
    BY <1>6 DEF DbOK, Fits
  <2>2. \/ schema = Executed(version, 0) \cup {"alembic_version"}
        \/ version < HeadRevision /\ First(version) \in schema
    BY <2>1, StartsAnew DEF DbOK
  <2> QED BY <1>1, <1>6, <2>2 DEF Fits
<1> QED BY <1>1, <1>2, <1>3, <1>4, <1>5, <1>6 DEF DbOK
-----------------------------------------------------------------------------
(* The events, and the states they are recorded with.                      *)
RowsOK ==
  /\ rows \in Seq(Event) /\ kept \in Seq(Event)
  /\ current \in [Action -> Nat]
  /\ Numbered

(* A bounded set of numbers has a greatest one.                            *)
LEMMA GreatestNumber ==
  ASSUME NEW n \in Nat, NEW S \in SUBSET (1..n), S # {}
  PROVE  \E m \in S : \A k \in S : k <= m
<1> DEFINE T == {n - k : k \in S}
           less == {p \in Nat \X Nat : p[1] < p[2]}
<1>1. T \subseteq Nat /\ T # {}
  <2>1. \A k \in S : k \in Nat /\ n - k \in Nat
    OBVIOUS
  <2> QED BY <2>1
<1>2. IsWellFoundedOn(less, Nat)
  BY NatLessThanWellFounded DEF OpToRel
<1> HIDE DEF less, T
<1>3. PICK t \in T : \A u \in T : <<u, t>> \notin less
  BY <1>1, <1>2, WFMin
<1>4. ASSUME NEW u \in T PROVE t <= u
  <2>1. t \in Nat /\ u \in Nat
    BY <1>1
  <2>2. u < t => <<u, t>> \in less
    BY <2>1, Zenon DEF less
  <2> QED BY <1>3, <2>1, <2>2
<1>5. PICK m \in S : t = n - m
  BY DEF T
<1>6. ASSUME NEW k \in S PROVE k <= m
  <2>1. n - k \in T
    BY DEF T
  <2>2. n - m <= n - k
    BY <1>4, <1>5, <2>1
  <2>3. k \in Nat /\ m \in Nat
    OBVIOUS
  <2> QED BY <2>2, <2>3
<1> QED BY <1>6

(* The places of an action's events in a sequence without repetition are   *)
(* as many as its events.                                                  *)
LEMMA PlacesAndEvents ==
  ASSUME NEW s \in Seq(Event), IsInjective(s), NEW a
  PROVE  LET I == {i \in DOMAIN s : s[i].action = a}
             E == {e \in Range(s) : e.action = a}
         IN  /\ IsFiniteSet(I) /\ IsFiniteSet(E)
             /\ Cardinality(I) = Cardinality(E) /\ Cardinality(E) \in Nat
<1> DEFINE I == {i \in DOMAIN s : s[i].action = a}
           E == {e \in Range(s) : e.action = a}
           f == [i \in I |-> s[i]]
<1>1. IsFiniteSet(DOMAIN s)
  <2>1. DOMAIN s = 1..Len(s) /\ Len(s) \in Nat
    OBVIOUS
  <2> QED BY <2>1, FS_Interval
<1>2. IsFiniteSet(I) /\ I \in SUBSET DOMAIN s
  BY <1>1, FS_Subset
<1>3. f \in Bijection(I, E)
  <2>1. f \in [I -> E]
    BY DEF Range
  <2>2. IsInjective(f)
    BY DEF IsInjective
  <2>3. \A e \in E : \E i \in I : f[i] = e
    BY DEF Range
  <2> QED BY <2>1, <2>2, <2>3 DEF Bijection, Injection, Surjection
<1>4. ExistsBijection(I, E)
  BY <1>3 DEF ExistsBijection
<1> HIDE DEF I, E
<1>5. IsFiniteSet(E) /\ Cardinality(E) = Cardinality(I)
  BY <1>2, <1>4, FS_Bijection
<1>6. Cardinality(E) \in Nat
  BY <1>5, FS_CardinalityType
<1> QED BY <1>2, <1>5, <1>6 DEF I, E

(* Events that a database holds from the start are numbered.               *)
LEMMA RecordedNumbers ==
  ASSUME NEW s \in Seq(Event), Recorded(s)
  PROVE  /\ IsInjective(s)
         /\ \A i, j \in DOMAIN s : i < j /\ s[i].action = s[j].action => s[i].sequence < s[j].sequence
         /\ \A i \in DOMAIN s : s[i].sequence <= Cardinality({j \in DOMAIN s : s[j].action = s[i].action})
         /\ \A a : {i \in DOMAIN s : s[i].action = a} # {} =>
              \E i \in DOMAIN s : /\ s[i].action = a
                                  /\ s[i].sequence = Cardinality({j \in DOMAIN s : s[j].action = a})
<1> DEFINE UpTo(i) == {j \in 1..i : s[j].action = s[i].action}
           All(a) == {j \in DOMAIN s : s[j].action = a}
<1>1. DOMAIN s = 1..Len(s) /\ Len(s) \in Nat
  OBVIOUS
<1>2. \A i \in DOMAIN s : s[i].sequence = Cardinality(UpTo(i))
  BY DEF Recorded
<1>3. \A a : IsFiniteSet(All(a)) /\ Cardinality(All(a)) \in Nat
  <2>1. IsFiniteSet(DOMAIN s)
    BY <1>1, FS_Interval
  <2>2. \A a : All(a) \in SUBSET DOMAIN s
    OBVIOUS
  <2> HIDE DEF All
  <2>3. \A a : IsFiniteSet(All(a))
    BY <2>1, <2>2, FS_Subset
  <2> QED BY <2>3, FS_CardinalityType
<1>4. \A i \in DOMAIN s : /\ IsFiniteSet(UpTo(i)) /\ Cardinality(UpTo(i)) \in Nat
                          /\ UpTo(i) \in SUBSET All(s[i].action)
                          /\ Cardinality(UpTo(i)) <= Cardinality(All(s[i].action))
  <2> SUFFICES ASSUME NEW i \in DOMAIN s
               PROVE  /\ IsFiniteSet(UpTo(i)) /\ Cardinality(UpTo(i)) \in Nat
                      /\ UpTo(i) \in SUBSET All(s[i].action)
                      /\ Cardinality(UpTo(i)) <= Cardinality(All(s[i].action))
    OBVIOUS
  <2>1. UpTo(i) \in SUBSET All(s[i].action)
    BY <1>1
  <2> HIDE DEF UpTo, All
  <2> QED BY <1>3, <2>1, FS_Subset, FS_CardinalityType
<1>5. \A i, j \in DOMAIN s : i < j /\ s[i].action = s[j].action => s[i].sequence < s[j].sequence
  <2> SUFFICES ASSUME NEW i \in DOMAIN s, NEW j \in DOMAIN s, i < j, s[i].action = s[j].action
               PROVE  s[i].sequence < s[j].sequence
    OBVIOUS
  <2>1. UpTo(i) \in SUBSET UpTo(j) /\ j \in UpTo(j) /\ j \notin UpTo(i)
    BY <1>1
  <2>2. IsFiniteSet(UpTo(j)) /\ Cardinality(UpTo(j)) \in Nat /\ Cardinality(UpTo(i)) \in Nat
    BY <1>4
  <2> HIDE DEF UpTo
  <2>3. Cardinality(UpTo(i)) < Cardinality(UpTo(j))
    BY <2>1, <2>2, FS_Subset
  <2> QED BY <1>2, <2>3
<1>6. IsInjective(s)
  <2> SUFFICES ASSUME NEW i \in DOMAIN s, NEW j \in DOMAIN s, s[i] = s[j], i # j
               PROVE  FALSE
    BY DEF IsInjective
  <2>1. s[i].sequence \in Nat
    <3>1. s[i] \in Event
      OBVIOUS
    <3> QED BY <3>1 DEF Event
  <2>2. i < j \/ j < i
    BY <1>1
  <2> QED BY <1>5, <2>1, <2>2
<1>7. ASSUME NEW a, All(a) # {}
      PROVE  \E i \in DOMAIN s : s[i].action = a /\ s[i].sequence = Cardinality(All(a))
  <2>1. All(a) \in SUBSET (1..Len(s))
    BY <1>1
  <2>2. PICK m \in All(a) : \A k \in All(a) : k <= m
    <3> HIDE DEF All
    <3> QED BY <1>1, <1>7, <2>1, GreatestNumber
  <2>3. UpTo(m) = All(a)
    BY <1>1, <2>1, <2>2
  <2> QED BY <1>2, <2>3
<1> QED BY <1>2, <1>4, <1>5, <1>6, <1>7

(* Steps that leave the set of events and the states as they are.          *)
LEMMA SameEvents ==
  ASSUME RowsOK, rows' \in Seq(Event), kept' \in Seq(Event), current' = current,
         AllEvents' = AllEvents, IsInjective(rows' \o kept'), version' < 3 => version < 3,
         \A i, j \in DOMAIN rows' :
           i < j /\ rows'[i].action = rows'[j].action => rows'[i].sequence < rows'[j].sequence
  PROVE  RowsOK'
<1>1. \A a : Mine(a)' = Mine(a)
  BY DEF Mine
<1>2. \A a : {e \in AllEvents' : e.action = a} = Mine(a)
  BY DEF Mine
<1> HIDE DEF AllEvents
<1>3. Numbered'
  BY ZenonT(60), <1>2 DEF RowsOK, Numbered, Mine
<1> QED BY <1>3 DEF RowsOK

(* The empty sequence is neutral.                                          *)
LEMMA SequenceNeutral ==
  ASSUME NEW T, NEW s \in Seq(T)
  PROVE  s \o <<>> = s /\ <<>> \o s = s /\ Range(<<>>) = {} /\ IsInjective(<<>>)
<1>1. s \o <<>> = s /\ <<>> \o s = s
  BY ConcatEmptySeq
<1>2. Range(<<>>) = {}
  BY DEF Range
<1> QED BY <1>1, <1>2 DEF IsInjective

(* Revision 3 moves all events out of the table.                           *)
LEMMA RenameRows ==
  ASSUME RowsOK, rows' = <<>>, kept = <<>>, kept' = rows, current' = current, version' = version
  PROVE  RowsOK'
<1>1. rows' \in Seq(Event) /\ kept' \in Seq(Event)
  BY DEF RowsOK
<1>2. rows \o kept = rows /\ rows' \o kept' = rows /\ Range(<<>>) = {}
  BY SequenceNeutral DEF RowsOK
<1>3. AllEvents' = AllEvents
  BY <1>2 DEF AllEvents
<1>4. IsInjective(rows' \o kept')
  BY <1>2 DEF RowsOK, Numbered
<1>5. DOMAIN rows' = {}
  OBVIOUS
<1>6. \A i, j \in DOMAIN rows' :
        i < j /\ rows'[i].action = rows'[j].action => rows'[i].sequence < rows'[j].sequence
  BY <1>5
<1> QED BY <1>1, <1>3, <1>4, <1>6, SameEvents

(* Revision 3 copies them in an order that keeps the numbers' order.       *)
LEMMA CopyRows ==
  ASSUME RowsOK, rows = <<>>, rows' = rows \o Copied(kept), kept' = <<>>, current' = current,
         version = 2, version' = 3
  PROVE  RowsOK'
<1> DEFINE c == Copied(kept)
<1>1. kept \in Seq(Event) /\ IsInjective(kept)
  <2>1. rows \o kept = kept
    BY SequenceNeutral DEF RowsOK
  <2> QED BY <2>1 DEF RowsOK, Numbered
<1>2. /\ c \in Seq(Event) /\ IsInjective(c) /\ Range(c) = Range(kept)
      /\ \A i, j \in DOMAIN c : i < j => Earlier(c[i], c[j])
  BY <1>1, UpgradeKeepsEvents
<1> HIDE DEF c
<1>3. rows' = c /\ rows' \o kept' = c
  <2>1. <<>> \o c = c /\ c \o <<>> = c
    BY <1>2, SequenceNeutral
  <2> QED BY <2>1 DEF c
<1>4. AllEvents' = AllEvents
  <2>1. Range(<<>>) = {}
    BY <1>2, SequenceNeutral
  <2> QED BY <1>2, <1>3, <2>1 DEF AllEvents
<1>5. ASSUME NEW i \in DOMAIN c, NEW j \in DOMAIN c, i < j, c[i].action = c[j].action
      PROVE  c[i].sequence < c[j].sequence
  <2>1. c[i] \in Event /\ c[j] \in Event /\ c[i] \in AllEvents /\ c[j] \in AllEvents
    BY <1>2 DEF Range, AllEvents
  <2>2. Earlier(c[i], c[j])
    BY <1>2, <1>5
  <2>3. c[i] # c[j]
    BY <2>1, <2>2, EarlierOrder
  <2> DEFINE e == c[i]
             f == c[j]
  <2>4. /\ e.sequence = f.sequence => e = f
        /\ f.sequence < e.sequence => f.at <= e.at
    BY <1>5, <2>1 DEF RowsOK, Numbered
  <2>5. e.at < f.at \/ (e.at = f.at /\ e.sequence < f.sequence)
    <3>1. ~Before(e.action, f.action)
      BY <1>5, <2>1, DatabaseAssumption DEF Event
    <3> QED BY <2>2, <3>1 DEF Earlier
  <2>6. e.at \in Nat /\ f.at \in Nat /\ e.sequence \in Nat /\ f.sequence \in Nat
    BY <2>1 DEF Event
  <2> HIDE DEF e, f
  <2>7. e.sequence < f.sequence
    BY <2>3, <2>4, <2>5, <2>6 DEF e, f
  <2> QED BY <2>7 DEF e, f
<1> QED BY <1>2, <1>3, <1>4, <1>5, SameEvents

(* Steps that do not touch the two tables.                                 *)
LEMMA SameRows ==
  ASSUME RowsOK, rows' = rows, kept' = kept, current' = current, version' < 3 => version < 3
  PROVE  RowsOK'
<1>1. AllEvents' = AllEvents
  BY DEF AllEvents
<1>2. /\ rows' \in Seq(Event) /\ kept' \in Seq(Event) /\ IsInjective(rows' \o kept')
      /\ \A i, j \in DOMAIN rows' :
           i < j /\ rows'[i].action = rows'[j].action => rows'[i].sequence < rows'[j].sequence
  BY DEF RowsOK, Numbered
<1> QED BY <1>1, <1>2, SameEvents

(* New events at the end of the table, at most one of each action, with    *)
(* the number that follows its state: what Confirm and SetState record.    *)
LEMMA AppendRows ==
  ASSUME RowsOK, kept = <<>>, kept' = kept, version = 4, version' = version,
         NEW s \in Seq(Event), rows' = rows \o s,
         \A i \in DOMAIN s : s[i].sequence = current[s[i].action] + 1,
         \A i, j \in DOMAIN s : s[i].action = s[j].action => i = j,
         current' \in [Action -> Nat],
         \A a \in Action :
           current'[a] = IF \E i \in DOMAIN s : s[i].action = a THEN current[a] + 1 ELSE current[a]
  PROVE  RowsOK'
<1>1. rows \in Seq(Event) /\ IsInjective(rows) /\ AllEvents = Range(rows)
  <2>1. rows \o kept = rows /\ Range(<<>>) = {}
    BY SequenceNeutral DEF RowsOK
  <2> QED BY <2>1 DEF RowsOK, Numbered, AllEvents
<1>2. \A f \in AllEvents : f \in Event /\ f.action \in Action /\ f.sequence \in Nat
  <2>1. \A f \in AllEvents : f \in Event
    BY <1>1 DEF Range
  <2> QED BY <2>1 DEF Event
<1>3. \A a \in Action : current[a] \in Nat
  BY DEF RowsOK
<1>4. \A f \in AllEvents : f.sequence <= current[f.action]
  <2>1. \A f \in AllEvents : f \in Mine(f.action) /\ f.action \in Action
    BY <1>2 DEF Mine
  <2> QED BY <2>1 DEF RowsOK, Numbered
<1>5. \A k \in DOMAIN s : /\ s[k] \in Event /\ s[k].action \in Action
                          /\ s[k].sequence = current[s[k].action] + 1
  <2> SUFFICES ASSUME NEW k \in DOMAIN s
               PROVE  /\ s[k] \in Event /\ s[k].action \in Action
                      /\ s[k].sequence = current[s[k].action] + 1
    OBVIOUS
  <2>1. s[k] \in Event
    OBVIOUS
  <2> QED BY <2>1 DEF Event
<1>6. \A f \in AllEvents : \A k \in DOMAIN s :
        f.action = s[k].action => f.sequence < s[k].sequence /\ f # s[k]
  <2> SUFFICES ASSUME NEW f \in AllEvents, NEW k \in DOMAIN s, f.action = s[k].action
               PROVE  f.sequence < s[k].sequence
    BY <1>3, <1>5
  <2> QED BY <1>2, <1>3, <1>4, <1>5
<1>7. \A k \in DOMAIN s : s[k] \notin AllEvents
  BY <1>6
<1>8. /\ rows' \in Seq(Event)
      /\ Len(rows) \in Nat /\ DOMAIN rows = 1..Len(rows)
      /\ Len(s) \in Nat /\ DOMAIN s = 1..Len(s)
      /\ DOMAIN rows' = 1..(Len(rows) + Len(s))
      /\ \A i \in DOMAIN rows : rows'[i] = rows[i]
      /\ \A k \in DOMAIN s : rows'[Len(rows) + k] = s[k]
  BY <1>1
<1>9. \A i \in DOMAIN rows' : \/ i \in DOMAIN rows
                              \/ i - Len(rows) \in DOMAIN s /\ rows'[i] = s[i - Len(rows)] /\ i > Len(rows)
  <2> SUFFICES ASSUME NEW i \in DOMAIN rows', i \notin DOMAIN rows
               PROVE  i - Len(rows) \in DOMAIN s /\ rows'[i] = s[i - Len(rows)] /\ i > Len(rows)
    OBVIOUS
  <2>1. i \in Nat /\ i > Len(rows) /\ i - Len(rows) \in DOMAIN s
    BY <1>8
  <2>2. Len(rows) + (i - Len(rows)) = i
    BY <1>8, <2>1
  <2> QED BY <1>8, <2>1, <2>2
<1>10. AllEvents' = AllEvents \cup Range(s)
  <2>1. Range(rows') = Range(rows) \cup Range(s)
    <3>1. \A i \in DOMAIN rows' : rows'[i] \in Range(rows) \cup Range(s)
      BY <1>8, <1>9 DEF Range
    <3>2. \A i \in DOMAIN rows : i \in DOMAIN rows' /\ rows'[i] = rows[i]
      BY <1>8
    <3>3. \A k \in DOMAIN s : Len(rows) + k \in DOMAIN rows' /\ rows'[Len(rows) + k] = s[k]
      BY <1>8
    <3>4. Range(rows') \subseteq Range(rows) \cup Range(s)
      BY <3>1 DEF Range
    <3>5. Range(rows) \subseteq Range(rows')
      BY <3>2 DEF Range
    <3>6. Range(s) \subseteq Range(rows')
      <4> SUFFICES ASSUME NEW k \in DOMAIN s PROVE s[k] \in Range(rows')
        BY SMTT(30) DEF Range
      <4>1. Len(rows) + k \in DOMAIN rows' /\ rows'[Len(rows) + k] = s[k]
        BY <3>3
      <4> QED BY <4>1, Zenon DEF Range
    <3> QED BY <3>4, <3>5, <3>6
  <2>2. kept' = <<>> /\ Range(<<>>) = {}
    BY SequenceNeutral DEF RowsOK
  <2> QED BY <1>1, <2>1, <2>2 DEF AllEvents
<1>11. \A i, j \in DOMAIN rows' :
         i < j /\ rows'[i].action = rows'[j].action => rows'[i].sequence < rows'[j].sequence
  <2> SUFFICES ASSUME NEW i \in DOMAIN rows', NEW j \in DOMAIN rows', i < j,
                      rows'[i].action = rows'[j].action
               PROVE  rows'[i].sequence < rows'[j].sequence
    OBVIOUS
  <2>1. CASE j \in DOMAIN rows
    <3>1. i \in DOMAIN rows
      BY <1>8, <2>1
    <3> QED BY <1>8, <2>1, <3>1 DEF RowsOK, Numbered
  <2>2. CASE i \in DOMAIN rows /\ j \notin DOMAIN rows
    <3>1. rows'[i] \in AllEvents
      BY <1>1, <1>8, <2>2 DEF Range
    <3> QED BY <1>6, <1>9, <2>2, <3>1
  <2>3. CASE i \notin DOMAIN rows /\ j \notin DOMAIN rows
    <3>1. i - Len(rows) = j - Len(rows)
      BY <1>9, <2>3
    <3>2. i \in Nat /\ j \in Nat
      BY <1>8
    <3> QED BY <1>8, <3>1, <3>2
  <2>4. i \in DOMAIN rows \/ j \notin DOMAIN rows
    BY <1>8
  <2> QED BY <2>1, <2>2, <2>3, <2>4
<1>12. IsInjective(rows' \o kept')
  <2>1. rows' \o kept' = rows'
    BY <1>8, SequenceNeutral
  <2>2. ASSUME NEW i \in DOMAIN rows', NEW j \in DOMAIN rows', i < j
        PROVE  rows'[i] # rows'[j]
    <3>1. rows'[i] \in Event
      BY <1>8
    <3>2. rows'[i].sequence \in Nat
      BY <3>1 DEF Event
    <3>3. ASSUME rows'[i] = rows'[j] PROVE FALSE
      <4>1. rows'[i].action = rows'[j].action /\ rows'[i].sequence = rows'[j].sequence
        BY <3>3
      <4>2. rows'[i].sequence < rows'[j].sequence
        BY <1>11, <2>2, <4>1
      <4> QED BY <3>2, <4>1, <4>2
    <3> QED BY <3>3
  <2>3. \A i, j \in DOMAIN rows' : i < j \/ j < i \/ i = j
    BY <1>8
  <2>4. IsInjective(rows')
    BY <2>2, <2>3 DEF IsInjective
  <2> QED BY <2>1, <2>4
<1>13. \A f, g \in AllEvents' : f.action = g.action =>
         (f.sequence = g.sequence => f = g) /\ (version' < 3 /\ f.sequence < g.sequence => f.at <= g.at)
  <2> SUFFICES ASSUME NEW f \in AllEvents', NEW g \in AllEvents', f.action = g.action,
                      f.sequence = g.sequence
               PROVE  f = g
    OBVIOUS
  <2>1. CASE f \in AllEvents /\ g \in AllEvents
    BY <2>1 DEF RowsOK, Numbered
  <2>2. CASE f \in AllEvents /\ g \in Range(s)
    <3>1. PICK k \in DOMAIN s : g = s[k]
      BY <2>2 DEF Range
    <3> QED BY <1>2, <1>6, <2>2, <3>1
  <2>3. CASE f \in Range(s) /\ g \in AllEvents
    <3>1. PICK k \in DOMAIN s : f = s[k]
      BY <2>3 DEF Range
    <3> QED BY <1>2, <1>6, <2>3, <3>1
  <2>4. CASE f \in Range(s) /\ g \in Range(s)
    BY <2>4 DEF Range
  <2> QED BY <1>10, <2>1, <2>2, <2>3, <2>4
<1>14. \A b \in Action :
         LET mine == {f \in AllEvents' : f.action = b} IN
           /\ current'[b] = Cardinality(mine)
           /\ \A f \in mine : f.sequence <= current'[b]
           /\ current'[b] # 0 => \E f \in mine : f.sequence = current'[b]
  <2> SUFFICES ASSUME NEW b \in Action
               PROVE  LET mine == {f \in AllEvents' : f.action = b} IN
                        /\ current'[b] = Cardinality(mine)
                        /\ \A f \in mine : f.sequence <= current'[b]
                        /\ current'[b] # 0 => \E f \in mine : f.sequence = current'[b]
    OBVIOUS
  <2>1. CASE \E k \in DOMAIN s : s[k].action = b
    <3>1. PICK k \in DOMAIN s : s[k].action = b
      BY <2>1
    <3> DEFINE e == s[k]
    <3>2. e \in Range(s) /\ e.action = b /\ \A f \in Range(s) : f.action = b => f = e
      BY <3>1 DEF Range
    <3>3. e \notin AllEvents /\ e.sequence = current[b] + 1 /\ current'[b] = current[b] + 1
      BY <1>5, <1>7, <3>1
    <3> HIDE DEF e
    <3>4. {f \in AllEvents' : f.action = b} = Mine(b) \cup {e} /\ e \notin Mine(b)
      BY <1>10, <3>2, <3>3 DEF Mine
    <3>5. IsFiniteSet(Mine(b))
      <4>1. IsFiniteSet({f \in Range(rows) : f.action = b})
        BY <1>1, PlacesOf, FS_Subset
      <4>2. Mine(b) = {f \in Range(rows) : f.action = b}
        BY <1>1 DEF Mine
      <4> QED BY <4>1, <4>2
    <3>6. Cardinality(Mine(b) \cup {e}) = Cardinality(Mine(b)) + 1
      BY <3>4, <3>5, FS_AddElement
    <3>7. current[b] = Cardinality(Mine(b))
      BY DEF RowsOK, Numbered
    <3>8. \A f \in Mine(b) : f.sequence <= current[b] /\ f.sequence \in Nat
      BY <1>2, <1>4 DEF Mine
    <3>9. \A f \in Mine(b) \cup {e} : f.sequence <= current'[b]
      BY <1>3, <3>3, <3>8
    <3> QED BY <3>3, <3>4, <3>6, <3>7, <3>9
  <2>2. CASE ~ \E k \in DOMAIN s : s[k].action = b
    <3>1. {f \in AllEvents' : f.action = b} = Mine(b)
      BY <1>10, <2>2 DEF Mine, Range
    <3>2. current'[b] = current[b]
      BY <2>2
    <3> QED BY <3>1, <3>2 DEF RowsOK, Numbered
  <2> QED BY <2>1, <2>2
<1> HIDE DEF AllEvents
<1>15. Numbered'
  BY <1>11, <1>12, <1>13, <1>14 DEF Numbered, Mine
<1>16. kept' \in Seq(Event)
  BY DEF RowsOK
<1> QED BY <1>8, <1>15, <1>16 DEF RowsOK

(* A state has as many events in the table as it counts.                   *)
LEMMA EventsCounted ==
  ASSUME RowsOK, kept = <<>>
  PROVE  \A a \in Action : Cardinality(EventsOf(a)) = current[a]
<1> SUFFICES ASSUME NEW a \in Action
             PROVE  Cardinality(EventsOf(a)) = current[a]
  OBVIOUS
<1>1. rows \in Seq(Event) /\ IsInjective(rows) /\ AllEvents = Range(rows)
  <2>1. rows \o kept = rows /\ Range(<<>>) = {}
    BY SequenceNeutral DEF RowsOK
  <2> QED BY <2>1 DEF RowsOK, Numbered, AllEvents
<1>2. Cardinality({i \in DOMAIN rows : rows[i].action = a})
        = Cardinality({e \in Range(rows) : e.action = a})
  BY <1>1, PlacesAndEvents
<1>3. EventsOf(a) = {i \in DOMAIN rows : rows[i].action = a}
  BY DEF EventsOf
<1>4. Mine(a) = {e \in Range(rows) : e.action = a}
  BY <1>1 DEF Mine
<1>5. current[a] = Cardinality(Mine(a))
  BY DEF RowsOK, Numbered
<1> QED BY <1>2, <1>3, <1>4, <1>5

(* A process that runs has the last revision.                              *)
LEMMA WhileRunning ==
  ASSUME DbOK, Running
  PROVE  version = 4 /\ kept = <<>>
BY DEF DbOK, Renamed, HeadRevision

(* A new state of one action appends its event.                            *)
LEMMA SetStateRows ==
  ASSUME DbOK, RowsOK, NEW a \in Action, SetState(a)
  PROVE  /\ RowsOK'
         /\ \E s \in Seq(Event) : /\ rows' = rows \o s
                               /\ \A i \in DOMAIN s : s[i].action = a
<1> DEFINE e == NewEvent(a, Cardinality(EventsOf(a)) + 1)
           s == <<e>>
<1>1. version = 4 /\ kept = <<>> /\ version' = version /\ kept' = kept
  BY WhileRunning DEF SetState
<1>2. e.action = a /\ e.sequence = current[a] + 1 /\ e \in Event
  <2>1. Cardinality(EventsOf(a)) = current[a] /\ current[a] \in Nat
    BY <1>1, EventsCounted DEF RowsOK
  <2> QED BY <2>1 DEF NewEvent, Event
<1>3. rows' = Append(rows, e) /\ current' = [current EXCEPT ![a] = @ + 1]
  BY DEF SetState
<1> HIDE DEF e
<1>4. s \in Seq(Event) /\ DOMAIN s = {1} /\ s[1] = e
  BY <1>2
<1>5. rows' = rows \o s
  BY <1>2, <1>3, AppendIsConcat DEF RowsOK
<1> HIDE DEF s
<1>6. /\ current' \in [Action -> Nat]
      /\ \A b \in Action :
           current'[b] = IF \E i \in DOMAIN s : s[i].action = b THEN current[b] + 1 ELSE current[b]
  BY <1>2, <1>3, <1>4 DEF RowsOK
<1>7. /\ \A i \in DOMAIN s : s[i].sequence = current[s[i].action] + 1
      /\ \A i, j \in DOMAIN s : s[i].action = s[j].action => i = j
  BY <1>2, <1>4
<1>8. RowsOK'
  BY <1>1, <1>4, <1>5, <1>6, <1>7, AppendRows
<1> QED BY <1>2, <1>4, <1>5, <1>8

(* A confirmation appends the first event of each action of the plan.      *)
LEMMA ConfirmRows ==
  ASSUME DbOK, RowsOK, NEW p \in Plan, Confirm(p)
  PROVE  /\ RowsOK'
         /\ \E s \in Seq(Event) : /\ rows' = rows \o s
                               /\ \A i \in DOMAIN s : PlanOf[s[i].action] = p
<1> DEFINE n == Cardinality(ActionsOf(p))
<1>1. version = 4 /\ kept = <<>> /\ version' = version /\ kept' = kept
  BY WhileRunning DEF Confirm, Running
<1>2. n \in Nat /\ IsFiniteSet(ActionsOf(p)) /\ ActionsOf(p) \subseteq Action
  <2>1. ActionsOf(p) \in SUBSET Action
    BY DEF ActionsOf
  <2> QED BY <2>1, StreamAssumption, FS_Subset, FS_CardinalityType
<1>3. /\ \A a \in ActionsOf(p) : current[a] = 0
      /\ current' = [a \in Action |-> IF a \in ActionsOf(p) THEN 1 ELSE current[a]]
  BY DEF Confirm
<1>4. PICK order \in [1..n -> ActionsOf(p)] :
        IsInjective(order) /\ rows' = rows \o [i \in DOMAIN order |-> NewEvent(order[i], 1)]
  BY DEF Confirm
<1> DEFINE s == [i \in 1..n |-> NewEvent(order[i], 1)]
<1>5. rows' = rows \o s
  BY <1>4
<1>6. \A i \in 1..n : s[i] \in Event /\ s[i].action = order[i] /\ s[i].sequence = 1
                      /\ order[i] \in ActionsOf(p)
  BY <1>2 DEF NewEvent, Event
<1>7. s \in Seq(Event) /\ DOMAIN s = 1..n
  <2>1. s = [i \in 1..n |-> s[i]]
    OBVIOUS
  <2> HIDE DEF s, n
  <2> QED BY <1>2, <1>6, <2>1, SequenceOfLength
<1>8. \A a \in ActionsOf(p) : \E i \in 1..n : order[i] = a
  <2>1. order \in Injection(1..n, ActionsOf(p))
    BY <1>4 DEF Injection
  <2>2. IsFiniteSet(1..n) /\ Cardinality(1..n) = n
    BY <1>2, FS_Interval
  <2>3. order \in Surjection(1..n, ActionsOf(p))
    BY <1>2, <2>1, <2>2, FS_Injection
  <2> QED BY <2>3 DEF Surjection
<1> HIDE DEF s
<1>9. \A a \in Action : (\E i \in DOMAIN s : s[i].action = a) <=> a \in ActionsOf(p)
  <2> HIDE DEF n
  <2> QED BY <1>6, <1>7, <1>8
<1>10. /\ current' \in [Action -> Nat]
       /\ \A b \in Action :
            current'[b] = IF \E i \in DOMAIN s : s[i].action = b THEN current[b] + 1 ELSE current[b]
  BY <1>3, <1>9 DEF RowsOK
<1>11. \A i \in DOMAIN s : s[i].sequence = current[s[i].action] + 1
  BY <1>3, <1>6, <1>7
<1>12. \A i, j \in DOMAIN s : s[i].action = s[j].action => i = j
  BY <1>4, <1>6, <1>7 DEF IsInjective
<1>13. RowsOK'
  BY <1>1, <1>5, <1>7, <1>10, <1>11, <1>12, AppendRows
<1>14. \A i \in DOMAIN s : PlanOf[s[i].action] = p
  BY <1>6, <1>7 DEF ActionsOf
<1> QED BY <1>5, <1>7, <1>13, <1>14

(* A database found by the first process counts its events.                *)
LEMMA InitialRows == Init => RowsOK
<1> SUFFICES ASSUME Init
             PROVE  RowsOK
  OBVIOUS
<1>1. rows \in Seq(Event) /\ Recorded(rows) /\ kept = <<>>
  <2>1. rows \in OldLogs \/ rows = <<>>
    BY DEF Init, DbInit
  <2>2. CASE rows \in OldLogs
    BY <2>2, DatabaseAssumption DEF Init, DbInit
  <2>3. CASE rows = <<>>
    BY <2>3 DEF Recorded, Init, DbInit
  <2> QED BY <2>1, <2>2, <2>3
<1>2. /\ IsInjective(rows)
      /\ \A i, j \in DOMAIN rows :
           i < j /\ rows[i].action = rows[j].action => rows[i].sequence < rows[j].sequence
  BY <1>1, RecordedNumbers
<1>3. rows \o kept = rows /\ AllEvents = Range(rows)
  BY <1>1, SequenceNeutral DEF AllEvents
<1>4. \A a : /\ Cardinality(EventsOf(a)) = Cardinality(Mine(a))
             /\ Cardinality(Mine(a)) \in Nat
  <2> TAKE a
  <2>1. /\ Cardinality({i \in DOMAIN rows : rows[i].action = a})
             = Cardinality({e \in Range(rows) : e.action = a})
        /\ Cardinality({e \in Range(rows) : e.action = a}) \in Nat
    BY <1>1, <1>2, PlacesAndEvents
  <2> QED BY <1>3, <2>1 DEF EventsOf, Mine
<1>5. current = [a \in Action |-> Cardinality(EventsOf(a))]
  BY DEF Init, EventsOf
<1>6. \A i \in DOMAIN rows : rows[i] \in Event /\ rows[i].action \in Action
                             /\ rows[i].sequence \in Nat /\ rows[i].at \in Nat
  <2> TAKE i \in DOMAIN rows
  <2>1. rows[i] \in Event
    BY <1>1
  <2> QED BY <2>1 DEF Event
<1>7. \A a \in Action :
        /\ current[a] = Cardinality(Mine(a))
        /\ \A e \in Mine(a) : e.sequence <= current[a]
        /\ current[a] # 0 => \E e \in Mine(a) : e.sequence = current[a]
  <2> TAKE a \in Action
  <2>1. current[a] = Cardinality(EventsOf(a)) /\ current[a] = Cardinality(Mine(a))
    BY <1>4, <1>5
  <2>2. \A e \in Mine(a) : e.sequence <= current[a]
    <3> SUFFICES ASSUME NEW i \in DOMAIN rows, rows[i].action = a
                 PROVE  rows[i].sequence <= current[a]
      BY <1>3 DEF Mine, Range
    <3>1. rows[i].sequence <= Cardinality({j \in DOMAIN rows : rows[j].action = rows[i].action})
      BY <1>1, RecordedNumbers
    <3> QED BY <2>1, <3>1 DEF EventsOf
  <2>3. ASSUME current[a] # 0 PROVE \E e \in Mine(a) : e.sequence = current[a]
    <3>1. {i \in DOMAIN rows : rows[i].action = a} # {}
      <4>1. EventsOf(a) # {}
        BY <2>1, <2>3, FS_EmptySet
      <4> QED BY <4>1 DEF EventsOf
    <3>2. PICK i \in DOMAIN rows :
            /\ rows[i].action = a
            /\ rows[i].sequence = Cardinality({j \in DOMAIN rows : rows[j].action = a})
      BY <1>1, <3>1, RecordedNumbers
    <3>3. rows[i] \in Mine(a)
      BY <1>3, <3>2 DEF Mine, Range
    <3> QED BY <2>1, <3>2, <3>3 DEF EventsOf
  <2> QED BY <2>1, <2>2, <2>3
<1>8. \A e, f \in AllEvents : e.action = f.action =>
        (e.sequence = f.sequence => e = f) /\ (e.sequence < f.sequence => e.at <= f.at)
  <2> SUFFICES ASSUME NEW i \in DOMAIN rows, NEW j \in DOMAIN rows, rows[i].action = rows[j].action
               PROVE  /\ rows[i].sequence = rows[j].sequence => rows[i] = rows[j]
                      /\ rows[i].sequence < rows[j].sequence => rows[i].at <= rows[j].at
    BY <1>3 DEF Range
  <2>1. i < j \/ j < i \/ i = j
    BY <1>1
  <2>2. i < j => rows[i].at <= rows[j].at
    BY <1>1 DEF Recorded
  <2>3. i < j => rows[i].sequence < rows[j].sequence
    BY <1>2
  <2>4. j < i => rows[j].sequence < rows[i].sequence
    BY <1>2
  <2>5. /\ rows[i].sequence \in Nat /\ rows[j].sequence \in Nat
        /\ rows[i].at \in Nat /\ rows[j].at \in Nat
    BY <1>6
  <2> QED BY <2>1, <2>2, <2>3, <2>4, <2>5
<1>9. current \in [Action -> Nat]
  BY <1>4, <1>5
<1>10. kept \in Seq(Event)
  BY <1>1
<1> HIDE DEF AllEvents, Mine
<1>11. Numbered
  BY <1>2, <1>3, <1>7, <1>8 DEF Numbered
<1> QED BY <1>1, <1>9, <1>10, <1>11 DEF RowsOK

(* A database found by the first process fits its revision.                *)
LEMMA InitialSchema == Init => DbOK
<1> SUFFICES ASSUME Init
             PROVE  DbOK
  OBVIOUS
<1>1. /\ kept = <<>> /\ mode = "down" /\ stamp = 0 /\ done = 0 /\ faults = 0
      /\ \/ schema = {} /\ version = 0
         \/ \E k \in 1..4 : schema = Shape[k] /\ version = 0
         \/ \E k \in 1..4 : schema = Shape[k] \cup {"alembic_version"} /\ version = k
         \/ schema \in ForeignShapes /\ version = 0
  BY DEF Init, DbInit, HeadRevision
<1>2. CASE schema = {} /\ version = 0
  BY <1>1, <1>2, DatabaseAssumption DEF DbOK, Frame, Fits, Renamed, Running, HeadRevision
<1>3. CASE (\E k \in 1..4 : schema = Shape[k] /\ version = 0) \/ (schema \in ForeignShapes /\ version = 0)
  <2>1. schema \in Range(Shape) \cup ForeignShapes
    <3>1. \A k \in 1..4 : k = 1 \/ k = 2 \/ k = 3 \/ k = 4
      OBVIOUS
    <3> QED BY <1>3, <3>1, Names
  <2>2. schema \subseteq Shape[4] /\ "alembic_version" \notin schema /\ Before3 \notin schema
    <3>0. /\ \A x \in Shape[4] : x # "alembic_version" /\ x # Before3
          /\ Shape[1] \subseteq Shape[4] /\ Shape[2] \subseteq Shape[4]
          /\ Shape[3] \subseteq Shape[4]
      BY Names DEF Before3
    <3>1. \A x \in ForeignShapes : x \subseteq Shape[4]
      BY Names DEF ForeignShapes
    <3>2. \A x \in Range(Shape) : x \subseteq Shape[4]
      BY <3>0, Names
    <3> QED BY <2>1, <3>0, <3>1, <3>2
  <2> QED BY <1>1, <1>3, <2>1, <2>2, DatabaseAssumption DEF DbOK, Frame, Fits, Renamed, Running, HeadRevision
<1>4. CASE \E k \in 1..4 : schema = Shape[k] \cup {"alembic_version"} /\ version = k
  <2>1. PICK k \in 1..4 : schema = Shape[k] \cup {"alembic_version"} /\ version = k
    BY <1>4
  <2>2. Executed(k, 0) = Shape[k]
    BY Executions
  <2>3. Shape[k] \subseteq Shape[4] /\ Before3 \notin Shape[k] /\ Before3 # "alembic_version"
    <3>0. /\ \A x \in Shape[4] : x # Before3
          /\ Shape[1] \subseteq Shape[4] /\ Shape[2] \subseteq Shape[4]
          /\ Shape[3] \subseteq Shape[4] /\ Before3 # "alembic_version"
      BY Names DEF Before3
    <3>1. k = 1 \/ k = 2 \/ k = 3 \/ k = 4
      OBVIOUS
    <3> QED BY <3>0, <3>1
  <2> QED BY <1>1, <2>1, <2>2, <2>3, DatabaseAssumption DEF DbOK, Frame, Fits, Renamed, Running, HeadRevision
<1> QED BY <1>1, <1>2, <1>3, <1>4
-----------------------------------------------------------------------------
(* What holds of each page.                                                *)
PageType == [plan : Plan \cup {None}, cursor : Nat, answer : SUBSET Nat,
             got : Seq(Nat), refused : BOOLEAN]
PageOK(pg) ==
  /\ pg \in PageType /\ ~pg.refused
  /\ pg.plan = None => pg = Closed
  /\ pg.plan # None => version = HeadRevision
  /\ pg.cursor # 0 => pg.cursor \in IdsOf(pg.plan)
  /\ pg.cursor = 0 => pg.got = <<>>
  /\ pg.plan # None =>
       /\ InOrder(pg.got)
       /\ Range(pg.got) = {i \in IdsOf(pg.plan) : i <= pg.cursor}
       /\ \A i \in pg.answer : /\ i \in IdsOf(pg.plan) /\ i > pg.cursor
                               /\ \A j \in IdsOf(pg.plan) : pg.cursor < j /\ j < i => j \in pg.answer
PagesOK == /\ page = [c \in Page |-> page[c]]
           /\ \A c \in Page : PageOK(page[c])

(* The invariants of the pages, page by page.                              *)
LEMMA PagesOKMeaning ==
  PagesOK <=> /\ page \in [Page -> PageType]
              /\ PagesOpen /\ ReceivedOnceInOrder /\ CursorIsKnown
BY Zenon DEF PagesOK, PageOK, PagesOpen, ReceivedOnceInOrder, CursorIsKnown

(* A closed page.                                                          *)
LEMMA ClosedIsOK == PageOK(Closed)
BY DEF PageOK, PageType, Closed

(* Ids are places of the table.                                            *)
LEMMA IdsAreNatural ==
  ASSUME rows \in Seq(Event), NEW p
  PROVE  /\ IdsOf(p) \subseteq 1..Len(rows) /\ Len(rows) \in Nat
         /\ \A i \in IdsOf(p) : i \in Nat /\ i > 0
<1>1. DOMAIN rows = 1..Len(rows) /\ Len(rows) \in Nat
  OBVIOUS
<1> QED BY <1>1 DEF IdsOf

(* The pages, when neither the events nor the revision move.               *)
LEMMA PagesOfSameRows ==
  ASSUME rows' = rows, version' = version, page' = [c \in Page |-> page'[c]],
         \A c \in Page : PageOK(page'[c])
  PROVE  PagesOK'
<1> SUFFICES ASSUME NEW c \in Page
             PROVE  PageOK(page[c])'
  BY Zenon DEF PagesOK
<1>1. PICK pg : pg = page'[c]
  OBVIOUS
<1>2. PageOK(pg)
  BY <1>1
<1>3. IdsOf(pg.plan)' = IdsOf(pg.plan)
  BY DEF IdsOf
<1>4. PageType' = PageType /\ Closed' = Closed /\ InOrder(pg.got)' = InOrder(pg.got)
  BY DEF PageType, Closed, InOrder
<1>5. PageOK(pg)'
  <2>1. (pg \in PageType /\ ~pg.refused)' /\ (pg.plan = None => pg = Closed)'
    BY <1>2, <1>4 DEF PageOK
  <2>2. (pg.plan # None => version = HeadRevision)'
    BY <1>2 DEF PageOK
  <2>3. /\ (pg.cursor # 0 => pg.cursor \in IdsOf(pg.plan))'
        /\ (pg.cursor = 0 => pg.got = <<>>)'
    BY <1>2, <1>3 DEF PageOK
  <2>4. (pg.plan # None =>
           /\ InOrder(pg.got)
           /\ Range(pg.got) = {i \in IdsOf(pg.plan) : i <= pg.cursor}
           /\ \A i \in pg.answer :
                /\ i \in IdsOf(pg.plan) /\ i > pg.cursor
                /\ \A j \in IdsOf(pg.plan) : pg.cursor < j /\ j < i => j \in pg.answer)'
    BY <1>2, <1>3, <1>4 DEF PageOK
  <2> QED BY <2>1, <2>2, <2>3, <2>4 DEF PageOK
<1> QED BY <1>1, <1>5

(* The pages of a step that records no events for them to read.            *)
LEMMA PagesOfStartup ==
  ASSUME PagesOK, page' = page, version = HeadRevision => rows' = rows /\ version' = version
  PROVE  PagesOK'
<1>1. CASE version = HeadRevision
  <2>1. \A c \in Page : PageOK(page'[c])
    BY DEF PagesOK
  <2>2. page' = [c \in Page |-> page'[c]]
    BY DEF PagesOK
  <2> QED BY <1>1, <2>1, <2>2, PagesOfSameRows
<1>2. CASE version # HeadRevision
  <2>1. \A c \in Page : page'[c] = Closed
    BY <1>2 DEF PagesOK, PageOK
  <2>2. PageOK(Closed)'
    BY DEF PageOK, PageType, Closed
  <2>3. page' = [c \in Page |-> page'[c]]
    BY DEF PagesOK
  <2> QED BY <2>1, <2>2, <2>3 DEF PagesOK, PageOK, PageType, Closed
<1> QED BY <1>1, <1>2

(* Events recorded after those of an answer.                               *)
LEMMA PagesOfRecording ==
  ASSUME PagesOK, page' = page, version' = version, rows \in Seq(Event),
         NEW s \in Seq(Event), rows' = rows \o s
  PROVE  PagesOK'
<1> SUFFICES ASSUME NEW c \in Page
             PROVE  PageOK(page[c])'
  BY DEF PagesOK
<1> DEFINE pg == page[c]
           p == pg.plan
<1>1. PageOK(pg)
  BY DEF PagesOK
<1>2. /\ Len(rows) \in Nat /\ DOMAIN rows = 1..Len(rows) /\ DOMAIN rows \subseteq DOMAIN rows'
      /\ \A i \in DOMAIN rows : rows'[i] = rows[i]
      /\ \A i \in DOMAIN rows' : i \in Nat /\ i > 0
      /\ \A i \in DOMAIN rows' : i \in DOMAIN rows \/ i > Len(rows)
  OBVIOUS
<1>3. /\ \A i \in IdsOf(p) : i \in IdsOf(p)' /\ i <= Len(rows) /\ i \in Nat
      /\ \A i \in IdsOf(p)' : i \in Nat /\ (i \in IdsOf(p) \/ i > Len(rows))
  BY <1>2 DEF IdsOf
<1>4. pg.cursor \in Nat /\ pg.cursor <= Len(rows)
  BY <1>1, <1>2, <1>3 DEF PageOK, PageType
<1>5. ASSUME p # None
      PROVE  /\ {i \in IdsOf(p)' : i <= pg.cursor} = {i \in IdsOf(p) : i <= pg.cursor}
             /\ \A i \in pg.answer :
                  /\ i \in IdsOf(p)' /\ i > pg.cursor
                  /\ \A j \in IdsOf(p)' : pg.cursor < j /\ j < i => j \in pg.answer
  <2>1. {i \in IdsOf(p)' : i <= pg.cursor} = {i \in IdsOf(p) : i <= pg.cursor}
    BY <1>2, <1>3, <1>4
  <2> SUFFICES ASSUME NEW i \in pg.answer
               PROVE  /\ i \in IdsOf(p)' /\ i > pg.cursor
                      /\ \A j \in IdsOf(p)' : pg.cursor < j /\ j < i => j \in pg.answer
    BY <2>1
  <2>2. /\ i \in IdsOf(p) /\ i > pg.cursor
        /\ \A j \in IdsOf(p) : pg.cursor < j /\ j < i => j \in pg.answer
    BY <1>1, <1>5 DEF PageOK
  <2> QED BY <1>2, <1>3, <2>2
<1>6. pg' = pg
  OBVIOUS
<1>7. version' = version /\ \A x : x \in IdsOf(p) => x \in IdsOf(p)'
  BY <1>3
<1>8. InOrder(pg.got)' <=> InOrder(pg.got)
  BY DEF InOrder
<1> QED BY <1>1, <1>5, <1>6, <1>7, <1>8 DEF PageOK, PageType, Closed

(* A step of one page.                                                     *)
LEMMA PageStep ==
  ASSUME PagesOK, rows' = rows, version' = version, NEW c \in Page, NEW pg, PageOK(pg),
         page' = [page EXCEPT ![c] = pg]
  PROVE  PagesOK'
<1>1. \A d \in Page : PageOK(page'[d])
  BY DEF PagesOK
<1>2. page' = [d \in Page |-> page'[d]]
  BY DEF PagesOK
<1> QED BY <1>1, <1>2, PagesOfSameRows

(* An answer that is cut leaves a page as it is but for the answer.        *)
LEMMA InterruptedIsOK ==
  ASSUME NEW pg, PageOK(pg)
  PROVE  PageOK(Interrupted(pg))
<1>1. pg \in PageType
  BY DEF PageOK
<1>2. /\ Interrupted(pg) \in PageType /\ Interrupted(pg).plan = pg.plan
      /\ Interrupted(pg).cursor = pg.cursor /\ Interrupted(pg).got = pg.got
      /\ Interrupted(pg).answer = {} /\ Interrupted(pg).refused = pg.refused
  BY <1>1 DEF Interrupted, PageType
<1>3. \A x, y \in PageType :
        /\ x.plan = y.plan /\ x.cursor = y.cursor /\ x.answer = y.answer
        /\ x.got = y.got /\ x.refused = y.refused
        => x = y
  BY DEF PageType
<1>4. pg = Closed => pg.answer = {}
  BY DEF Closed
<1>5. pg = Closed => Interrupted(pg) = pg
  BY <1>1, <1>2, <1>3, <1>4
<1> QED BY <1>2, <1>5 DEF PageOK

(* A set of numbers has a least one.                                       *)
LEMMA LeastOf ==
  ASSUME NEW S \in SUBSET Nat, S # {}
  PROVE  Least(S) \in S /\ \A j \in S : Least(S) <= j
<1> DEFINE less == {p \in Nat \X Nat : p[1] < p[2]}
<1>1. IsWellFoundedOn(less, Nat)
  BY NatLessThanWellFounded DEF OpToRel
<1> HIDE DEF less
<1>2. PICK m \in S : \A j \in S : <<j, m>> \notin less
  BY <1>1, WFMin
<1>3. ASSUME NEW j \in S PROVE m <= j
  <2>1. m \in Nat /\ j \in Nat
    OBVIOUS
  <2>2. j < m => <<j, m>> \in less
    BY <2>1, Zenon DEF less
  <2> QED BY <1>2, <2>1, <2>2
<1> QED BY <1>3 DEF Least

(* A page that opens, asks and reads.                                      *)
LEMMA WatchIsOK ==
  ASSUME rows \in Seq(Event), version = HeadRevision, NEW p \in Plan
  PROVE  PageOK([Closed EXCEPT !.plan = p])
<1> DEFINE pg == [Closed EXCEPT !.plan = p]
<1>1. /\ pg \in PageType /\ pg.plan = p /\ pg.cursor = 0 /\ pg.answer = {} /\ pg.got = <<>>
      /\ ~pg.refused /\ p # None
  <2>1. /\ Closed \in PageType /\ Closed.cursor = 0 /\ Closed.answer = {}
        /\ Closed.got = <<>> /\ ~Closed.refused
    BY DEF Closed, PageType
  <2>2. p \in Plan \cup {None} /\ p # None
    BY StreamAssumption
  <2> QED BY <2>1, <2>2 DEF PageType
<1> HIDE DEF pg
<1>2. Range(<<>>) = {} /\ InOrder(<<>>)
  BY DEF Range, InOrder
<1>3. {i \in IdsOf(p) : i <= 0} = {}
  BY IdsAreNatural
<1>4. PageOK(pg)
  BY <1>1, <1>2, <1>3 DEF PageOK
<1> QED BY <1>4 DEF pg

(* An answer begins after the cursor.                                      *)
LEMMA AskIsOK ==
  ASSUME rows \in Seq(Event), NEW pg, PageOK(pg), pg.plan # None
  PROVE  PageOK([pg EXCEPT !.answer = ListEvents(pg.plan, pg.cursor)])
<1> DEFINE S == ListEvents(pg.plan, pg.cursor)
           asked == [pg EXCEPT !.answer = S]
<1>1. pg \in PageType /\ pg.cursor \in Nat
  BY DEF PageOK, PageType
<1>2. S = {i \in IdsOf(pg.plan) : i > pg.cursor} /\ S \in SUBSET Nat
  BY IdsAreNatural DEF ListEvents
<1> HIDE DEF S
<1>3. /\ asked \in PageType /\ asked.plan = pg.plan /\ asked.cursor = pg.cursor
      /\ asked.got = pg.got /\ asked.answer = S /\ asked.refused = pg.refused
  BY <1>1, <1>2 DEF PageType
<1> HIDE DEF asked
<1>4. \A i \in S : /\ i \in IdsOf(pg.plan) /\ i > pg.cursor
                   /\ \A j \in IdsOf(pg.plan) : pg.cursor < j /\ j < i => j \in S
  BY <1>1, <1>2, IdsAreNatural
<1>5. PageOK(asked)
  BY <1>3, <1>4 DEF PageOK
<1> QED BY <1>5 DEF asked, S

(* The next event of an answer moves the cursor to it.                     *)
LEMMA ReadIsOK ==
  ASSUME rows \in Seq(Event), NEW pg, PageOK(pg), pg.answer # {}
  PROVE  LET id == Least(pg.answer)
         IN  PageOK([pg EXCEPT !.answer = @ \ {id}, !.cursor = id, !.got = Append(@, id)])
<1> DEFINE id == Least(pg.answer)
           next == [pg EXCEPT !.answer = @ \ {id}, !.cursor = id, !.got = Append(@, id)]
           I == IdsOf(pg.plan)
<1>1. pg \in PageType /\ pg.cursor \in Nat /\ pg.answer \in SUBSET Nat /\ pg.got \in Seq(Nat)
  BY DEF PageOK, PageType
<1>2. id \in pg.answer /\ id \in Nat /\ \A j \in pg.answer : id <= j
  BY <1>1, LeastOf
<1>3. pg.plan # None
  BY DEF PageOK, Closed
<1>4. /\ InOrder(pg.got) /\ Range(pg.got) = {i \in I : i <= pg.cursor}
      /\ \A i \in pg.answer : /\ i \in I /\ i > pg.cursor
                              /\ \A j \in I : pg.cursor < j /\ j < i => j \in pg.answer
      /\ version = HeadRevision /\ ~pg.refused
  BY <1>3 DEF PageOK
<1>5. \A i \in I : i \in Nat /\ i > 0
  BY IdsAreNatural
<1> HIDE DEF id, I
<1>6. /\ next \in PageType /\ next.plan = pg.plan /\ next.cursor = id
      /\ next.got = Append(pg.got, id) /\ next.answer = pg.answer \ {id}
      /\ next.refused = pg.refused
  <2>1. Append(pg.got, id) \in Seq(Nat) /\ pg.answer \ {id} \in SUBSET Nat
    BY <1>1, <1>2
  <2>2. next = [pg EXCEPT !.answer = pg.answer \ {id}, !.cursor = id, !.got = Append(pg.got, id)]
    OBVIOUS
  <2> HIDE DEF next
  <2> QED BY <1>1, <1>2, <2>1, <2>2 DEF PageType
<1> HIDE DEF next
<1> DEFINE got == pg.got
           more == Append(got, id)
<1>7. /\ Len(got) \in Nat /\ DOMAIN got = 1..Len(got) /\ DOMAIN more = 1..(Len(got) + 1)
      /\ \A k \in DOMAIN got : more[k] = got[k] /\ got[k] \in Nat
      /\ more[Len(got) + 1] = id
  BY SMTT(30), <1>1, <1>2
<1> HIDE DEF more
<1>8. \A k \in DOMAIN got : got[k] <= pg.cursor
  BY <1>4 DEF Range
<1>9. InOrder(more)
  <2> SUFFICES ASSUME NEW i \in DOMAIN more, NEW j \in DOMAIN more, i < j
               PROVE  more[i] < more[j]
    BY DEF InOrder
  <2>1. i \in DOMAIN got
    BY <1>7
  <2>2. CASE j \in DOMAIN got
    BY <1>4, <1>7, <2>1, <2>2 DEF InOrder
  <2>3. CASE j = Len(got) + 1
    BY SMTT(30), <1>1, <1>2, <1>4, <1>7, <1>8, <2>1, <2>3
  <2> QED BY <1>7, <2>2, <2>3
<1>10. Range(more) = Range(got) \cup {id}
  <2>1. \A k \in DOMAIN more : more[k] \in Range(got) \cup {id}
    BY <1>7 DEF Range
  <2>2. Range(more) \subseteq Range(got) \cup {id}
    BY <2>1 DEF Range
  <2>3. \A k \in DOMAIN got : k \in DOMAIN more /\ more[k] = got[k]
    BY <1>7
  <2>4. Range(got) \subseteq Range(more)
    BY <2>3, Zenon DEF Range
  <2>5. Len(got) + 1 \in DOMAIN more
    BY <1>7
  <2>6. id \in Range(more)
    BY <1>7, <2>5, Zenon DEF Range
  <2> QED BY <2>2, <2>4, <2>6
<1>11. {i \in I : i <= id} = {i \in I : i <= pg.cursor} \cup {id}
  <2>1. \A i \in I : i <= id => i <= pg.cursor \/ i = id
    <3> SUFFICES ASSUME NEW i \in I, i <= id, ~(i <= pg.cursor), i # id
                 PROVE  FALSE
      OBVIOUS
    <3>1. i \in pg.answer
      BY <1>1, <1>2, <1>4, <1>5
    <3> QED BY <1>2, <1>5, <3>1
  <2>2. \A i \in I : i <= pg.cursor => i <= id
    BY <1>1, <1>2, <1>4, <1>5
  <2> QED BY <1>2, <1>4, <2>1, <2>2
<1>12. \A i \in pg.answer \ {id} : /\ i \in I /\ i > id
                                   /\ \A j \in I : id < j /\ j < i => j \in pg.answer \ {id}
  BY <1>1, <1>2, <1>4, <1>5
<1>13. id \in I /\ id # 0
  BY <1>2, <1>4, <1>5
<1>14. PageOK(next)
  BY <1>3, <1>4, <1>6, <1>9, <1>10, <1>11, <1>12, <1>13 DEF PageOK, I, more, got
<1> QED BY <1>14 DEF next, id

-----------------------------------------------------------------------------
(* The inductive invariant, taken apart and put together.                  *)
LEMMA InvariantMeaning ==
  IInv <=> TypeOK /\ DbOK /\ RowsOK /\ PagesOK
<1>1. TypeOK => Frame /\ rows \in Seq(Event) /\ kept \in Seq(Event) /\ current \in [Action -> Nat]
                /\ page \in [Page -> PageType]
  BY FrameOfType DEF TypeOK, PageType
<1> QED BY <1>1, PagesOKMeaning DEF IInv, DbOK, RowsOK

(* The parts imply the types.                                              *)
LEMMA TypeOfParts ==
  DbOK /\ RowsOK /\ PagesOK => TypeOK
<1>1. Len(CoreTables) = 9
  BY DEF CoreTables
<1> QED BY <1>1, PagesOKMeaning DEF TypeOK, DbOK, Frame, RowsOK, PageType, HeadRevision, Before3

(* The empty sequence has no element.                                      *)
LEMMA EmptyRange == Range(<<>>) = {}
BY DEF Range

(* The parts imply the invariant.                                          *)
LEMMA InvariantOfParts ==
  DbOK /\ RowsOK /\ PagesOK => IInv
BY TypeOfParts, InvariantMeaning

(* So they do in the next state.                                           *)
LEMMA PartsOfNext ==
  ASSUME DbOK', RowsOK', PagesOK'
  PROVE  IInv'
<1>1. (DbOK /\ RowsOK /\ PagesOK => IInv)'
  BY InvariantOfParts, PTL
<1> QED BY <1>1

(* The invariant holds initially.                                          *)
LEMMA InitialState == Init => IInv
<1> SUFFICES ASSUME Init
             PROVE  IInv
  OBVIOUS
<1>1. DbOK /\ RowsOK
  BY InitialSchema, InitialRows
<1>2. page = [c \in Page |-> Closed]
  BY DEF Init
<1>3. PagesOK
  BY <1>2, ClosedIsOK DEF PagesOK
<1> QED BY <1>1, <1>3, InvariantOfParts

(* The start of a process keeps the invariant.                             *)
LEMMA StartupStep ==
  ASSUME IInv, Startup, UNCHANGED <<current, page>>
  PROVE  IInv'
<1>1. TypeOK /\ DbOK /\ RowsOK /\ PagesOK
  BY InvariantMeaning
<1>2. current' = current /\ page' = page
  OBVIOUS
<1>3. CASE Start \/ EnsureVersionTable \/ Stamp \/ Fail \/ RecordRevision \/ Upgraded \/ Serve
  <2>1. DbOK'
    BY <1>1, <1>3, StartStep, VersionTableStep, RevisionStep
  <2>2. rows' = rows /\ kept' = kept
    BY <1>3 DEF Start, EnsureVersionTable, Stamp, Fail, RecordRevision, Upgraded, Serve, durable
  <2>3. version = HeadRevision => version' = version
    BY <1>1, <1>3 DEF Start, EnsureVersionTable, Stamp, Fail, RecordRevision, Upgraded, Serve, durable,
                     Upgrading, HeadRevision, DbOK, Fits
  <2>4. version' < 3 => version < 3
    BY <1>1, <1>3 DEF Start, EnsureVersionTable, Stamp, Fail, RecordRevision, Upgraded, Serve, durable,
                     Upgrading, DbOK, Frame, Fits
  <2>5. RowsOK'
    BY <1>1, <1>2, <2>2, <2>4, SameRows
  <2>6. PagesOK'
    BY <1>1, <1>2, <2>2, <2>3, PagesOfStartup
  <2> QED BY <2>1, <2>5, <2>6, PartsOfNext
<1>4. CASE Add \/ Rename \/ Recreate \/ Copy
  <2>1. DbOK'
    BY <1>1, <1>4, StatementStep
  <2>2. version # HeadRevision
    BY <1>4 DEF Add, Rename, Recreate, Copy, Statement, Upgrading, HeadRevision
  <2>3. PagesOK'
    BY <1>1, <1>2, <2>2, PagesOfStartup
  <2>4. RowsOK'
    <3>1. CASE Add \/ Recreate
      BY <1>1, <1>2, <3>1, StatementStep, SameRows
    <3>2. CASE Rename
      BY <1>1, <1>2, <3>2, StatementStep, RenameRows
    <3>3. CASE Copy
      BY <1>1, <1>2, <3>3, StatementStep, CopyRows
    <3> QED BY <1>4, <3>1, <3>2, <3>3
  <2> QED BY <2>1, <2>3, <2>4, PartsOfNext
<1> QED BY <1>3, <1>4 DEF Startup

(* Steps that leave schema and revision alone.                             *)
LEMMA DbUnchanged ==
  ASSUME DbOK, schema' = schema, version' = version, kept' = kept, mode' = mode, stamp' = stamp,
         done' = done, faults' \in 0..MaxFaults,
         rows' = rows \/ version # 2
  PROVE  DbOK'
<1>1. Frame' /\ Fits'
  BY DEF DbOK, Frame, Fits, First
<1>2. Renamed'
  BY DEF DbOK, Renamed, Running
<1> QED BY <1>1, <1>2 DEF DbOK

(* A kill keeps the invariant; it cuts every answer.                       *)
LEMMA StopOfPages ==
  ASSUME IInv, Stop, page' = [c \in Page |-> Interrupted(page[c])], current' = current
  PROVE  IInv'
<1>1. TypeOK /\ DbOK /\ RowsOK /\ PagesOK
  BY InvariantMeaning
<1>2. DbOK' /\ rows' = rows /\ kept' = kept /\ version' = version
  BY <1>1, StopStep
<1>3. RowsOK'
  BY <1>1, <1>2, SameRows
<1>4. PagesOK'
  <2>1. \A c \in Page : PageOK(page'[c])
    BY <1>1, InterruptedIsOK DEF PagesOK
  <2>2. page' = [c \in Page |-> page'[c]]
    OBVIOUS
  <2> HIDE DEF Interrupted
  <2> QED BY <1>2, <2>1, <2>2, PagesOfSameRows
<1> QED BY <1>2, <1>3, <1>4, PartsOfNext

(* Recording events keeps the invariant.                                   *)
LEMMA RecordingStep ==
  ASSUME IInv,
         (\E p \in Plan : Confirm(p)) \/ (\E a \in Action : SetState(a))
  PROVE  IInv'
<1>1. TypeOK /\ DbOK /\ RowsOK /\ PagesOK
  BY InvariantMeaning
<1>2. /\ Running /\ schema' = schema /\ version' = version /\ kept' = kept /\ mode' = mode
      /\ stamp' = stamp /\ done' = done /\ faults' = faults /\ page' = page
  BY DEF Confirm, SetState, Running
<1>3. RowsOK' /\ \E s \in Seq(Event) : rows' = rows \o s
  BY <1>1, ConfirmRows, SetStateRows
<1>4. DbOK'
  BY <1>1, <1>2, WhileRunning, DbUnchanged DEF DbOK, Frame
<1>5. PagesOK'
  BY <1>1, <1>2, <1>3, PagesOfRecording DEF RowsOK
<1> QED BY <1>3, <1>4, <1>5, PartsOfNext

(* The steps of a page keep the invariant.                                 *)
LEMMA OnePageStep ==
  ASSUME IInv, NEW c \in Page,
         Leave(c) \/ Ask(c) \/ Read(c) \/ Cut(c) \/ \E p \in Plan : Watch(c, p)
  PROVE  IInv'
<1>1. TypeOK /\ DbOK /\ RowsOK /\ PagesOK
  BY InvariantMeaning
<1>2. PageOK(page[c]) /\ rows \in Seq(Event)
  BY <1>1 DEF PagesOK, RowsOK
<1>3. /\ schema' = schema /\ version' = version /\ rows' = rows /\ kept' = kept /\ mode' = mode
      /\ stamp' = stamp /\ done' = done /\ faults' \in 0..MaxFaults /\ current' = current
  BY <1>1, DatabaseAssumption DEF Leave, Ask, Read, Cut, Watch, dbVars, durable, DbOK, Frame
<1>4. \E pg : PageOK(pg) /\ page' = [page EXCEPT ![c] = pg]
  <2>1. CASE Leave(c)
    BY <2>1, ClosedIsOK DEF Leave
  <2>2. CASE Ask(c)
    <3>1. page[c].cursor # 0 => page[c].cursor \in IdsOf(page[c].plan)
      BY <1>2 DEF PageOK
    <3>2. /\ page[c].plan # None
          /\ page' = [page EXCEPT ![c].answer = ListEvents(page[c].plan, page[c].cursor)]
      BY <2>2, <3>1 DEF Ask
    <3>3. page' = [page EXCEPT ![c] = [page[c] EXCEPT !.answer = ListEvents(page[c].plan, page[c].cursor)]]
      BY <3>2
    <3> QED BY <1>2, <3>2, <3>3, AskIsOK
  <2>3. CASE Read(c)
    <3> DEFINE id == Least(page[c].answer)
    <3>1. /\ page[c].answer # {}
          /\ page' = [page EXCEPT ![c] = [page[c] EXCEPT !.answer = @ \ {id}, !.cursor = id,
                                                         !.got = Append(@, id)]]
      BY <2>3 DEF Read
    <3>2. PageOK([page[c] EXCEPT !.answer = @ \ {id}, !.cursor = id, !.got = Append(@, id)])
      BY <1>2, <3>1, ReadIsOK
    <3> QED BY <3>1, <3>2
  <2>4. CASE Cut(c)
    BY <1>2, <2>4, InterruptedIsOK DEF Cut
  <2>5. CASE \E p \in Plan : Watch(c, p)
    <3>1. PICK p \in Plan : Watch(c, p)
      BY <2>5
    <3>2. version = HeadRevision
      BY <1>1, <3>1, WhileRunning DEF Watch, Running, HeadRevision
    <3>3. page[c] = Closed
      BY <1>2, <3>1 DEF Watch, PageOK
    <3>4. page' = [page EXCEPT ![c] = [Closed EXCEPT !.plan = p]]
      BY <3>1, <3>3 DEF Watch
    <3> QED BY <1>2, <3>2, <3>4, WatchIsOK
  <2> QED BY <2>1, <2>2, <2>3, <2>4, <2>5
<1>5. PICK pg : PageOK(pg) /\ page' = [page EXCEPT ![c] = pg]
  BY <1>4
<1>6. PagesOK'
  BY <1>1, <1>3, <1>5, PageStep
<1>7. RowsOK'
  BY <1>1, <1>3, SameRows
<1>8. DbOK'
  BY <1>1, <1>3, DbUnchanged
<1> QED BY <1>6, <1>7, <1>8, PartsOfNext

(* Every step keeps the invariant.                                         *)
LEMMA InvariantStep ==
  ASSUME IInv, [Next]_vars
  PROVE  IInv'
<1>1. CASE Startup /\ UNCHANGED <<current, page>>
  BY <1>1, StartupStep
<1>2. CASE Stop /\ page' = [c \in Page |-> Interrupted(page[c])] /\ UNCHANGED current
  BY <1>2, StopOfPages
<1>3. CASE (\E p \in Plan : Confirm(p)) \/ (\E a \in Action : SetState(a))
  BY <1>3, RecordingStep
<1>4. CASE \E c \in Page : \/ Leave(c) \/ Ask(c) \/ Read(c) \/ Cut(c)
                           \/ \E p \in Plan : Watch(c, p)
  BY <1>4, OnePageStep
<1>5. CASE UNCHANGED vars
  <2>1. DbOK /\ RowsOK /\ PagesOK
    BY InvariantMeaning
  <2>2. /\ schema' = schema /\ version' = version /\ rows' = rows /\ kept' = kept /\ mode' = mode
        /\ stamp' = stamp /\ done' = done /\ faults' = faults /\ current' = current /\ page' = page
    BY <1>5 DEF vars, dbVars
  <2>3. DbOK'
    BY <2>1, <2>2, DbUnchanged DEF DbOK, Frame
  <2>4. RowsOK'
    BY <2>1, <2>2, SameRows
  <2>5. PagesOK'
    BY <2>1, <2>2, PagesOfStartup
  <2> QED BY <2>3, <2>4, <2>5, PartsOfNext
<1> QED BY <1>1, <1>2, <1>3, <1>4, <1>5 DEF Next

(* The invariant of the upgrade and of the stream.                         *)
THEOREM StreamInvariantHolds == Spec => []IInv
<1>1. Init => IInv
  BY InitialState
<1>2. IInv /\ [Next]_vars => IInv'
  BY InvariantStep
<1> QED BY <1>1, <1>2, PTL DEF Spec

(* A process serves only the schema of the last revision, with all events  *)
(* in the new table (run_migrations, database.py 52-104).                  *)
THEOREM ServedSchemaHolds == Spec => []ServedSchemaIsHead
<1>1. IInv => ServedSchemaIsHead
  <2> SUFFICES ASSUME IInv, Running
               PROVE  /\ version = HeadRevision /\ kept = <<>>
                      /\ schema = Shape[HeadRevision] \cup {"alembic_version"}
    BY DEF ServedSchemaIsHead
  <2>1. version = 4 /\ kept = <<>> /\ done \in Nat /\ mode # "stamping" /\ mode # "upgrading"
    BY WhileRunning, InvariantMeaning DEF DbOK, Frame, Running
  <2>2. schema = Executed(4, done) \cup {"alembic_version"}
    BY <2>1 DEF IInv, Fits, HeadRevision
  <2> QED BY <2>1, <2>2, Executions DEF HeadRevision
<1> QED BY <1>1, StreamInvariantHolds, PTL

(* A page reads each event of its plan once and in order, over every cut   *)
(* and restart (list_events, repositories.py 183-228).                     *)
THEOREM ReceivedOnceInOrderHolds == Spec => []ReceivedOnceInOrder
<1>1. IInv => ReceivedOnceInOrder
  BY DEF IInv
<1> QED BY <1>1, StreamInvariantHolds, PTL

(* The id with which a page asks again is always known to the endpoint     *)
(* (the 404 of list_events, repositories.py 203-214).                      *)
THEOREM CursorIsKnownHolds == Spec => []CursorIsKnown
<1>1. IInv => CursorIsKnown
  BY DEF IInv
<1> QED BY <1>1, StreamInvariantHolds, PTL

(* The last event of an action is the one recorded with its state, also    *)
(* after revision 3 (list_activity, repositories.py 120-151).              *)
THEOREM LatestEventHolds == Spec => []LatestEventIsOfTheState
<1>1. IInv => LatestEventIsOfTheState
  <2> SUFFICES ASSUME IInv, Running, NEW a \in Action, EventsOf(a) # {}
               PROVE  LET last == CHOOSE i \in EventsOf(a) : \A j \in EventsOf(a) : j <= i
                      IN  rows[last].sequence = current[a]
    BY Zenon DEF LatestEventIsOfTheState
  <2> DEFINE last == CHOOSE i \in EventsOf(a) : \A j \in EventsOf(a) : j <= i
  <2>1. DbOK /\ RowsOK
    BY InvariantMeaning
  <2>2. kept = <<>> /\ rows \in Seq(Event) /\ AllEvents = Range(rows)
    BY <2>1, WhileRunning, SequenceNeutral DEF RowsOK, AllEvents
  <2>3. EventsOf(a) \in SUBSET (1..Len(rows)) /\ Len(rows) \in Nat
    BY <2>2 DEF EventsOf
  <2>4. last \in EventsOf(a) /\ \A j \in EventsOf(a) : j <= last
    <3>1. \E i \in EventsOf(a) : \A j \in EventsOf(a) : j <= i
      BY <2>3, GreatestNumber
    <3> QED BY <3>1
  <2> HIDE DEF last
  <2>5. rows[last] \in Mine(a) /\ last \in DOMAIN rows /\ rows[last].action = a
    BY <2>2, <2>4 DEF EventsOf, Mine, Range
  <2>6. /\ current[a] \in Nat /\ rows[last].sequence \in Nat
        /\ rows[last].sequence <= current[a]
        /\ current[a] # 0 => \E e \in Mine(a) : e.sequence = current[a]
    <3>1. rows[last] \in Event
      BY <2>2, <2>5
    <3> QED BY <2>1, <2>5, <3>1 DEF RowsOK, Numbered, Event
  <2>7. current[a] # 0
    <3>1. Cardinality(EventsOf(a)) = current[a]
      BY <2>1, <2>2, EventsCounted
    <3>2. IsFiniteSet(EventsOf(a))
      <4>1. IsFiniteSet(1..Len(rows))
        BY <2>3, FS_Interval
      <4> QED BY <2>3, <4>1, FS_Subset
    <3> QED BY <3>1, <3>2, FS_EmptySet
  <2>8. PICK k \in EventsOf(a) : rows[k].sequence = current[a]
    <3>1. PICK e \in Mine(a) : e.sequence = current[a]
      BY <2>6, <2>7
    <3>2. PICK k \in DOMAIN rows : rows[k] = e
      BY <2>2, <3>1 DEF Mine, Range
    <3> QED BY <3>1, <3>2 DEF EventsOf, Mine
  <2>9. ASSUME k = last PROVE rows[last].sequence = current[a]
    BY <2>8, <2>9
  <2>10. ASSUME k # last PROVE rows[last].sequence = current[a]
    <3>1. k \in DOMAIN rows /\ rows[k].action = a /\ k \in Nat /\ last \in Nat /\ k <= last
      BY <2>3, <2>4, <2>5 DEF EventsOf
    <3>2. k < last
      BY <2>10, <3>1
    <3>3. rows[k].sequence < rows[last].sequence
      BY <2>1, <2>5, <3>1, <3>2 DEF RowsOK, Numbered
    <3> QED BY <2>6, <2>8, <3>3
  <2>11. rows[last].sequence = current[a]
    BY <2>9, <2>10
  <2> QED BY <2>11, Zenon DEF last
<1> QED BY <1>1, StreamInvariantHolds, PTL

(* Whatever is killed and restarted, no event is lost or doubled           *)
(* (0003_recovery_metadata.py 28-54).                                      *)
THEOREM EventsKeptHolds == Spec => EventsKept
<1> DEFINE Step3 == /\ Range(rows) \cup Range(kept) \subseteq Range(rows') \cup Range(kept')
                    /\ IsInjective(rows' \o kept')
<1>1. ASSUME IInv, IInv', [Next]_vars
      PROVE  [Step3]_dbVars
  <2>1. IsInjective(rows' \o kept')
    BY <1>1 DEF IInv, Numbered
  <2>2. DbOK /\ RowsOK /\ TypeOK
    BY <1>1, InvariantMeaning
  <2>3. Range(rows) \cup Range(kept) \subseteq Range(rows') \cup Range(kept')
    <3>1. CASE rows' = rows /\ kept' = kept
      BY <3>1
    <3>2. CASE Rename \/ Copy
      <4>1. IsInjective(kept) \/ ~Copy
        <5>1. ASSUME Copy PROVE IsInjective(kept)
          <6>1. rows \o kept = kept
            BY <2>2, <5>1, StatementStep, SequenceNeutral DEF RowsOK
          <6> QED BY <2>2, <6>1 DEF RowsOK, Numbered
        <5> QED BY <5>1
      <4>2. CASE Copy
        <5>1. rows' = Copied(kept) /\ Range(Copied(kept)) = Range(kept) /\ rows = <<>>
          BY <2>2, <4>1, <4>2, StatementStep, SequenceNeutral, UpgradeKeepsEvents DEF RowsOK
        <5> QED BY <5>1, EmptyRange
      <4>3. CASE Rename
        <5>1. kept = <<>> /\ kept' = rows /\ rows' = <<>>
          BY <2>2, <4>3, StatementStep
        <5>2. Range(kept) = {} /\ Range(rows') = {}
          BY <5>1, EmptyRange
        <5> QED BY <5>1, <5>2
      <4> QED BY <3>2, <4>2, <4>3
    <3>3. CASE (\E p \in Plan : Confirm(p)) \/ (\E a \in Action : SetState(a))
      <4>1. kept' = kept /\ \E s \in Seq(Event) : rows' = rows \o s
        BY <2>2, <3>3, ConfirmRows, SetStateRows DEF Confirm, SetState
      <4>2. PICK s \in Seq(Event) : rows' = rows \o s
        BY <4>1
      <4>3. \A i \in DOMAIN rows : i \in DOMAIN rows' /\ rows'[i] = rows[i]
        BY <2>2, <4>2 DEF RowsOK
      <4>4. Range(rows) \subseteq Range(rows')
        BY <4>3, Zenon DEF Range
      <4> QED BY <4>1, <4>4
    <3>4. (rows' = rows /\ kept' = kept) \/ Rename \/ Copy
            \/ (\E p \in Plan : Confirm(p)) \/ (\E a \in Action : SetState(a))
      BY <1>1 DEF Next, Startup, Start, EnsureVersionTable, Stamp, Add, Recreate, Fail, RecordRevision,
                  Upgraded, Serve, Stop, Leave, Ask, Read, Cut, Watch, vars, dbVars, durable
    <3> QED BY <3>1, <3>2, <3>3, <3>4
  <2> QED BY <2>1, <2>3
<1> QED BY <1>1, StreamInvariantHolds, PTL DEF EventsKept, Spec
-----------------------------------------------------------------------------
(* A finite set of places is counted off by Nth: every rank is taken, by   *)
(* one place.                                                              *)
LEMMA NthOf ==
  ASSUME NEW n \in Nat, NEW S \in SUBSET (1..n)
  PROVE  /\ IsFiniteSet(S) /\ Cardinality(S) \in Nat
         /\ \A i \in S : /\ Cardinality(NotAfter(S, i)) \in 1..Cardinality(S)
                         /\ Nth(S, Cardinality(NotAfter(S, i))) = i
         /\ \A k \in 1..Cardinality(S) :
              Nth(S, k) \in S /\ Cardinality(NotAfter(S, Nth(S, k))) = k
<1> DEFINE m == Cardinality(S)
           R(i) == Cardinality(NotAfter(S, i))
           rank == [i \in S |-> R(i)]
<1>0. \A i \in S : i \in Nat
  OBVIOUS
<1>1. IsFiniteSet(S) /\ m \in Nat
  <2>1. IsFiniteSet(1..n)
    BY FS_Interval
  <2>2. IsFiniteSet(S)
    BY <2>1, FS_Subset
  <2> QED BY <2>2, FS_CardinalityType
<1>2. \A i \in S : IsFiniteSet(NotAfter(S, i)) /\ R(i) \in 1..m
  <2> SUFFICES ASSUME NEW i \in S
               PROVE  IsFiniteSet(NotAfter(S, i)) /\ R(i) \in 1..m
    OBVIOUS
  <2>1. NotAfter(S, i) \in SUBSET S /\ i \in NotAfter(S, i)
    BY DEF NotAfter
  <2>2. IsFiniteSet(NotAfter(S, i)) /\ R(i) \in Nat /\ R(i) <= m
    BY <1>1, <2>1, FS_Subset, FS_CardinalityType
  <2>3. R(i) # 0
    BY <2>1, <2>2, FS_EmptySet
  <2> HIDE DEF R, m
  <2> QED BY <1>1, <2>2, <2>3
<1>3. \A i, j \in S : i < j => R(i) < R(j)
  <2> SUFFICES ASSUME NEW i \in S, NEW j \in S, i < j
               PROVE  R(i) < R(j)
    OBVIOUS
  <2>1. NotAfter(S, i) \in SUBSET NotAfter(S, j) /\ j \in NotAfter(S, j) /\ j \notin NotAfter(S, i)
    <3>1. i \in Nat /\ j \in Nat /\ ~(j <= i) /\ j <= j
      BY <1>0
    <3>2. \A k \in S : k <= i => k <= j
      BY <1>0, <3>1
    <3> QED BY <3>1, <3>2 DEF NotAfter
  <2>2. NotAfter(S, i) # NotAfter(S, j) /\ IsFiniteSet(NotAfter(S, j))
    BY <1>2, <2>1
  <2> QED BY <2>1, <2>2, FS_Subset, FS_CardinalityType
<1>4. \A i, j \in S : R(i) = R(j) => i = j
  <2> SUFFICES ASSUME NEW i \in S, NEW j \in S, R(i) = R(j), i # j
               PROVE  FALSE
    OBVIOUS
  <2>1. i < j \/ j < i
    OBVIOUS
  <2>2. R(i) \in Nat /\ R(j) \in Nat
    BY <1>1, <1>2
  <2> HIDE DEF R
  <2> QED BY <1>3, <2>1, <2>2
<1> HIDE DEF R, m
<1>5. rank \in Injection(S, 1..m)
  BY <1>2, <1>4 DEF Injection, IsInjective
<1>6. IsFiniteSet(1..m) /\ Cardinality(1..m) = m
  BY <1>1, FS_Interval
<1>7. rank \in Surjection(S, 1..m)
  <2> HIDE DEF rank
  <2>1. Cardinality(S) = Cardinality(1..m)
    BY <1>6 DEF m
  <2> QED BY <1>1, <1>5, <1>6, <2>1, FS_Injection
<1>8. \A k \in 1..m : \E i \in S : R(i) = k
  <2> SUFFICES ASSUME NEW k \in 1..m
               PROVE  \E i \in S : R(i) = k
    OBVIOUS
  <2>1. \E i \in S : rank[i] = k
    <3> HIDE DEF rank
    <3> QED BY <1>7 DEF Surjection
  <2> QED BY <2>1
<1>9. \A k \in 1..m : Nth(S, k) \in S /\ R(Nth(S, k)) = k
  BY <1>8 DEF Nth, R
<1>10. \A i \in S : R(i) \in 1..m /\ Nth(S, R(i)) = i
  BY <1>2, <1>4, <1>9
<1> QED BY <1>1, <1>9, <1>10 DEF R, m

(* Later places do not change how the earlier ones are counted.            *)
LEMMA NthOfMore ==
  ASSUME NEW n \in Nat, NEW T \in SUBSET (1..n), NEW S \in SUBSET T,
         \A i \in S, j \in T \ S : i < j
  PROVE  /\ Cardinality(S) <= Cardinality(T)
         /\ \A k \in 1..Cardinality(S) : Nth(T, k) = Nth(S, k)
<1>1. S \in SUBSET (1..n)
  OBVIOUS
<1>2. IsFiniteSet(T) /\ Cardinality(S) <= Cardinality(T)
  BY NthOf, FS_Subset
<1>3. ASSUME NEW k \in 1..Cardinality(S)
      PROVE  Nth(T, k) = Nth(S, k)
  <2> DEFINE i == Nth(S, k)
  <2>1. i \in S /\ Cardinality(NotAfter(S, i)) = k
    BY <1>1, NthOf
  <2> HIDE DEF i
  <2>2. NotAfter(T, i) = NotAfter(S, i)
    <3>1. i \in Nat /\ \A j \in T : j \in Nat
      BY <2>1
    <3>2. \A j \in T : j <= i => j \in S
      BY <2>1, <3>1
    <3> QED BY <3>2 DEF NotAfter
  <2>3. Nth(T, Cardinality(NotAfter(T, i))) = i
    BY <2>1, NthOf
  <2> QED BY <2>1, <2>2, <2>3 DEF i
<1> QED BY <1>2, <1>3

(* The log of a plan holds its events, in the order of the stream.         *)
LEMMA LogIsSequence ==
  ASSUME NEW s \in Seq(Event), NEW p
  PROVE  /\ PlacesIn(s, p) \in SUBSET (1..Len(s)) /\ Len(s) \in Nat
         /\ IsFiniteSet(PlacesIn(s, p)) /\ Cardinality(PlacesIn(s, p)) \in Nat
         /\ OfPlan(s, p) \in Seq(Event)
         /\ Len(OfPlan(s, p)) = Cardinality(PlacesIn(s, p))
         /\ DOMAIN OfPlan(s, p) = 1..Cardinality(PlacesIn(s, p))
<1> DEFINE S == PlacesIn(s, p)
           n == Cardinality(S)
<1>1. S \in SUBSET (1..Len(s)) /\ Len(s) \in Nat
  BY DEF PlacesIn
<1>2. IsFiniteSet(S) /\ n \in Nat
  BY <1>1, NthOf
<1>3. \A k \in 1..n : s[Nth(S, k)] \in Event
  <2>1. \A k \in 1..n : Nth(S, k) \in S
    BY <1>1, NthOf
  <2> HIDE DEF n, S
  <2>2. \A k \in 1..n : Nth(S, k) \in 1..Len(s)
    BY <1>1, <2>1
  <2> QED BY <2>2
<1>4. OfPlan(s, p) = [k \in 1..n |-> s[Nth(S, k)]]
  BY DEF OfPlan
<1> HIDE DEF S, n
<1>5. OfPlan(s, p) = [k \in 1..n |-> OfPlan(s, p)[k]] /\ \A k \in 1..n : OfPlan(s, p)[k] \in Event
  BY <1>3, <1>4
<1>6. OfPlan(s, p) \in Seq(Event) /\ Len(OfPlan(s, p)) = n /\ DOMAIN OfPlan(s, p) = 1..n
  BY <1>2, <1>5, SequenceOfLength
<1> QED BY <1>1, <1>2, <1>6 DEF S, n

(* What is recorded after a stream extends the log of each plan it is      *)
(* about and leaves the others as they are.                                *)
LEMMA LogOfMore ==
  ASSUME NEW s \in Seq(Event), NEW t \in Seq(Event), NEW p
  PROVE  /\ Len(OfPlan(s, p)) <= Len(OfPlan(s \o t, p))
         /\ \A k \in 1..Len(OfPlan(s, p)) : OfPlan(s \o t, p)[k] = OfPlan(s, p)[k]
         /\ (\A i \in DOMAIN t : PlanOf[t[i].action] # p) => OfPlan(s \o t, p) = OfPlan(s, p)
<1> DEFINE u == s \o t
           S == PlacesIn(s, p)
           T == PlacesIn(u, p)
<1>1. /\ u \in Seq(Event) /\ Len(s) \in Nat /\ Len(u) = Len(s) + Len(t) /\ Len(t) \in Nat
      /\ DOMAIN s = 1..Len(s) /\ DOMAIN u = 1..Len(u) /\ DOMAIN t = 1..Len(t)
      /\ \A i \in DOMAIN s : u[i] = s[i]
      /\ \A i \in DOMAIN u : i \notin DOMAIN s => i - Len(s) \in DOMAIN t /\ u[i] = t[i - Len(s)]
  OBVIOUS
<1> HIDE DEF u
<1>2. /\ S \in SUBSET (1..Len(s)) /\ T \in SUBSET (1..Len(u)) /\ Len(u) \in Nat
      /\ S \in SUBSET T
      /\ \A j \in T : j \notin S => j \notin DOMAIN s
  BY <1>1 DEF PlacesIn
<1>3. \A i \in S, j \in T \ S : i < j
  BY <1>1, <1>2
<1>4. /\ Cardinality(S) <= Cardinality(T)
      /\ \A k \in 1..Cardinality(S) : Nth(T, k) = Nth(S, k) /\ Nth(S, k) \in S
  <2> HIDE DEF S, T
  <2>1. \A k \in 1..Cardinality(S) : Nth(S, k) \in S
    BY <1>1, <1>2, NthOf
  <2> QED BY <1>2, <1>3, <2>1, NthOfMore
<1>5. /\ OfPlan(s, p) \in Seq(Event) /\ Len(OfPlan(s, p)) = Cardinality(S)
      /\ OfPlan(u, p) \in Seq(Event) /\ Len(OfPlan(u, p)) = Cardinality(T)
      /\ Cardinality(S) \in Nat /\ Cardinality(T) \in Nat
  BY <1>1, LogIsSequence
<1>6. /\ OfPlan(s, p) = [k \in 1..Cardinality(S) |-> s[Nth(S, k)]]
      /\ OfPlan(u, p) = [k \in 1..Cardinality(T) |-> u[Nth(T, k)]]
  BY DEF OfPlan
<1>7. ASSUME NEW k \in 1..Cardinality(S)
      PROVE  k \in 1..Cardinality(T) /\ u[Nth(T, k)] = s[Nth(S, k)]
  BY <1>1, <1>2, <1>4, <1>5
<1>8. \A k \in 1..Cardinality(S) : OfPlan(u, p)[k] = OfPlan(s, p)[k]
  <2> HIDE DEF S, T
  <2> QED BY <1>6, <1>7
<1>9. ASSUME \A i \in DOMAIN t : PlanOf[t[i].action] # p
      PROVE  OfPlan(u, p) = OfPlan(s, p)
  <2>1. T = S
    BY <1>1, <1>2, <1>9 DEF PlacesIn
  <2> HIDE DEF S, T
  <2> QED BY <1>6, <1>7, <2>1
<1> QED BY <1>4, <1>5, <1>8, <1>9 DEF u

(* On the last revision the stream is the table of events.                 *)
LEMMA StreamOfLast ==
  ASSUME IInv, version = HeadRevision
  PROVE  Stream = rows
<1>1. Before3 \notin schema
  BY DEF IInv, Renamed, HeadRevision
<1>2. "alembic_version" \in schema
  BY DEF IInv, Fits, HeadRevision
<1>3. schema = Executed(4, done) \cup {"alembic_version"}
  BY <1>2 DEF IInv, Fits, HeadRevision
<1>4. "stream_sequence" \in schema
  <2>1. done \in Nat
    BY DEF IInv, TypeOK
  <2>2. Executed(4, done) = Shape[4]
    BY <2>1, Executions
  <2> QED BY <1>3, <2>2, Names
<1> QED BY <1>1, <1>4 DEF Stream, Before3

(* The stream is a sequence of events, whichever table it is in.           *)
LEMMA StreamIsSequence ==
  ASSUME IInv
  PROVE  Stream \in Seq(Event)
<1>1. rows \in Seq(Event) /\ kept \in Seq(Event) /\ IsInjective(rows \o kept)
  BY DEF IInv, TypeOK, Numbered
<1>2. CASE Before3 \in schema
  <2>1. rows \o kept = kept
    BY <1>1, <1>2, SequenceNeutral DEF IInv, Renamed
  <2>2. Copied(kept) \in Seq(Event)
    BY <1>1, <2>1, UpgradeKeepsEvents
  <2> QED BY <1>2, <2>2 DEF Stream, Before3
<1>3. CASE Before3 \notin schema
  <2>1. rows \o kept = rows
    BY <1>1, <1>3, SequenceNeutral DEF IInv, Renamed
  <2>2. Copied(rows) \in Seq(Event)
    BY <1>1, <2>1, UpgradeKeepsEvents
  <2> QED BY <1>1, <1>3, <2>2 DEF Stream, Before3
<1> QED BY <1>2, <1>3

(* No statement of a revision changes what the stream says: revision 3     *)
(* puts the events into the order in which they are read.                  *)
LEMMA StreamOfStartup ==
  ASSUME IInv, Startup
  PROVE  Stream' = Stream
<1>1. TypeOK /\ DbOK /\ RowsOK
  BY InvariantMeaning
<1>2. "alembic_version" # Before3 /\ "alembic_version" # "stream_sequence" /\ Before3 # "stream_sequence"
  BY DEF Before3
<1>3. CASE EnsureVersionTable
  BY <1>2, <1>3 DEF EnsureVersionTable, Stream, Before3
<1>4. CASE Start \/ Stamp \/ Fail \/ RecordRevision \/ Upgraded \/ Serve
  BY <1>4 DEF Start, Stamp, Fail, RecordRevision, Upgraded, Serve, durable, Stream
<1>5. CASE Add
  <2>1. PICK x \in UNION {Range(CoreTables), Range(ActivityColumns),
                          {"scan_checkpoints", "days", "max_messages"}} : Statement(Adding(x))
    BY <1>5 DEF Add
  <2>2. schema' = schema \cup {x} /\ rows' = rows /\ kept' = kept
    BY <1>5, <2>1, Kinds DEF Add, Statement
  <2>3. x # Before3 /\ x # "stream_sequence"
    BY <2>1, Names DEF Core, Before3
  <2> QED BY <2>2, <2>3 DEF Stream, Before3
<1>6. CASE Rename
  <2>1. kept' = rows /\ schema' = (schema \ {"action_events"}) \cup {Before3}
    BY <1>6, Kinds DEF Rename, Statement
  <2>2. Stream' = Copied(rows)
    BY <2>1 DEF Stream, Before3
  <2>3. schema = Executed(2, 2) \cup {"alembic_version"}
    BY <1>1, <1>6, NextStatement DEF Rename, Statement, Step, DbOK
  <2>4. Before3 \notin schema /\ "stream_sequence" \notin schema
    BY <1>2, <2>3, Executions, Names DEF Before3
  <2> QED BY <2>2, <2>4 DEF Stream, Before3
<1>7. CASE Recreate
  <2>1. /\ kept' = kept /\ schema' = schema \cup {"action_events", "stream_sequence"}
        /\ schema = Executed(2, 3) \cup {"alembic_version"}
    BY <1>1, <1>7, Kinds, NextStatement DEF Recreate, Statement, Step, DbOK
  <2>2. Before3 \in schema
    BY <2>1, Executions
  <2> QED BY <2>1, <2>2 DEF Stream, Before3
<1>8. CASE Copy
  <2>1. /\ kept' = <<>> /\ rows' = rows \o Copied(kept) /\ rows = <<>>
        /\ schema' = schema \ {Before3} /\ schema = Executed(2, 4) \cup {"alembic_version"}
    BY <1>1, <1>8, Kinds, NextStatement, StatementStep DEF Copy, Statement, Step, DbOK
  <2>2. Before3 \in schema /\ "stream_sequence" \in schema
    BY <2>1, Executions
  <2>3. Stream = Copied(kept)
    BY <2>2 DEF Stream, Before3
  <2>4. Copied(kept) \in Seq(Event)
    BY <2>3, StreamIsSequence
  <2>5. rows' = Copied(kept)
    BY <2>1, <2>4, SequenceNeutral
  <2>6. Stream' = rows'
    BY <1>2, <2>1, <2>2 DEF Stream, Before3
  <2> QED BY <2>3, <2>5, <2>6
<1> QED BY <1>3, <1>4, <1>5, <1>6, <1>7, <1>8 DEF Startup

(* The log, the watched plans and what has been received, as EventStream   *)
(* gives them to EventLog.                                                 *)
LogOf == [p \in Plan |-> OfPlan(Stream, p)]
Watching == [c \in Page |-> page[c].plan]
Received == [c \in Page |-> Got(page[c])]

(* What a page has received are events of the table.                       *)
LEMMA GotMeaning ==
  ASSUME IInv, NEW c \in Page
  PROVE  LET pg == page[c] IN
         /\ pg \in PageType /\ pg.plan \in Plan \cup {None}
         /\ Len(pg.got) \in Nat /\ DOMAIN pg.got = 1..Len(pg.got)
         /\ Got(pg) = [i \in 1..Len(pg.got) |-> rows[pg.got[i]]]
         /\ pg.plan = None => pg.got = <<>>
         /\ pg.plan # None =>
              \A i \in 1..Len(pg.got) : pg.got[i] \in IdsOf(pg.plan) /\ pg.got[i] \in DOMAIN rows
<1> DEFINE pg == page[c]
<1>1. PageOK(pg)
  BY InvariantMeaning DEF PagesOK
<1>2. pg \in PageType /\ pg.plan \in Plan \cup {None} /\ pg.got \in Seq(Nat)
  BY <1>1 DEF PageOK, PageType
<1>3. Len(pg.got) \in Nat /\ DOMAIN pg.got = 1..Len(pg.got)
  BY <1>2
<1>4. pg.plan = None => pg.got = <<>>
  BY <1>1 DEF PageOK, Closed
<1>5. ASSUME pg.plan # None, NEW i \in 1..Len(pg.got)
      PROVE  pg.got[i] \in IdsOf(pg.plan) /\ pg.got[i] \in DOMAIN rows
  <2>1. pg.got[i] \in Range(pg.got)
    BY <1>3, <1>5, Zenon DEF Range
  <2>2. Range(pg.got) = {j \in IdsOf(pg.plan) : j <= pg.cursor}
    BY <1>1, <1>5 DEF PageOK
  <2> QED BY <2>1, <2>2 DEF IdsOf
<1> QED BY <1>2, <1>3, <1>4, <1>5 DEF Got

(* A page that keeps its ids has received the same events, as long as the  *)
(* table keeps the events with these ids.                                  *)
LEMMA SameReceived ==
  ASSUME IInv, NEW c \in Page, page'[c].got = page[c].got,
         page[c].plan # None =>
           \A i \in 1..Len(page[c].got) : rows'[page[c].got[i]] = rows[page[c].got[i]]
  PROVE  Got(page[c])' = Got(page[c])
<1> DEFINE s == page[c].got
           n == Len(s)
<1>1. n \in Nat /\ DOMAIN s = 1..n /\ Got(page[c]) = [i \in 1..n |-> rows[s[i]]]
  <2>1. n \in Nat /\ DOMAIN s = 1..n
    BY GotMeaning
  <2> QED BY <2>1 DEF Got
<1>2. Got(page[c])' = [i \in 1..n |-> rows'[s[i]]]
  BY <1>1 DEF Got
<1>3. page[c].plan = None => n = 0
  <2>1. page[c].plan = None => s = <<>>
    BY GotMeaning, Zenon
  <2> QED BY <2>1
<1>4. \A i \in 1..n : rows'[s[i]] = rows[s[i]]
  BY <1>3
<1> HIDE DEF s, n
<1> QED BY <1>1, <1>2, <1>4

(* An answer that is cut changes neither plan nor ids.                     *)
LEMMA InterruptedKeeps ==
  ASSUME NEW pg \in PageType
  PROVE  Interrupted(pg).plan = pg.plan /\ Interrupted(pg).got = pg.got
BY DEF Interrupted, PageType

(* A start and a kill are invisible: they change neither a log nor what    *)
(* has been received of it.                                                *)
LEMMA StartAndStopAreHidden ==
  ASSUME IInv,
         \/ Startup /\ UNCHANGED <<current, page>>
         \/ Stop /\ page' = [c \in Page |-> Interrupted(page[c])] /\ UNCHANGED current
  PROVE  UNCHANGED <<LogOf, Watching, Received>>
<1>1. Stream' = Stream
  <2>1. CASE Startup
    BY <2>1, StreamOfStartup
  <2>2. CASE Stop
    BY <2>2 DEF Stop, durable, Stream
  <2> QED BY <2>1, <2>2
<1>2. \A c \in Page : page'[c].plan = page[c].plan /\ page'[c].got = page[c].got
  <2>1. \A c \in Page : page[c] \in PageType
    BY GotMeaning
  <2> QED BY <2>1, InterruptedKeeps
<1>3. ASSUME NEW c \in Page
      PROVE  Got(page[c])' = Got(page[c])
  <2>1. ASSUME page[c].plan # None PROVE rows' = rows
    <3>1. version = HeadRevision
      BY <2>1 DEF IInv, PagesOpen
    <3> QED BY <3>1 DEF Startup, Start, EnsureVersionTable, Stamp, Add, Rename, Recreate, Copy, Fail,
                        RecordRevision, Upgraded, Serve, Stop, Statement, Upgrading, durable,
                        HeadRevision
  <2> QED BY <1>2, <2>1, SameReceived
<1>4. LogOf' = LogOf
  BY <1>1 DEF LogOf
<1>5. Watching' = Watching /\ Received' = Received
  BY <1>2, <1>3 DEF Watching, Received
<1> QED BY <1>4, <1>5

(* Recording extends the log of one plan.                                  *)
LEMMA RecordingExtends ==
  ASSUME IInv,
         (\E p \in Plan : Confirm(p)) \/ (\E a \in Action : SetState(a))
  PROVE  \E p \in Plan :
           /\ IsPrefix(LogOf[p], LogOf'[p]) /\ LogOf'[p] \in Seq(Event)
           /\ LogOf' = [LogOf EXCEPT ![p] = LogOf'[p]]
           /\ UNCHANGED <<Watching, Received>>
<1>1. TypeOK /\ DbOK /\ RowsOK
  BY InvariantMeaning
<1>2. \E p \in Plan : \E s \in Seq(Event) :
        rows' = rows \o s /\ \A i \in DOMAIN s : PlanOf[s[i].action] = p
  <2>1. CASE \E p \in Plan : Confirm(p)
    BY <1>1, <2>1, ConfirmRows
  <2>2. CASE \E a \in Action : SetState(a)
    <3>1. PICK a \in Action : SetState(a)
      BY <2>2
    <3>2. PICK s \in Seq(Event) : rows' = rows \o s /\ \A i \in DOMAIN s : s[i].action = a
      BY <1>1, <3>1, SetStateRows
    <3>3. PlanOf[a] \in Plan
      BY StreamAssumption
    <3> QED BY <3>2, <3>3
  <2> QED BY <2>1, <2>2
<1>3. PICK p \in Plan, s \in Seq(Event) :
        rows' = rows \o s /\ \A i \in DOMAIN s : PlanOf[s[i].action] = p
  BY <1>2
<1>4. Running /\ schema' = schema /\ version' = version /\ page' = page
  BY DEF Confirm, SetState, Running
<1>5. version = HeadRevision
  BY <1>1, <1>4, WhileRunning DEF HeadRevision
<1>6. Stream = rows /\ Stream' = rows'
  <2>1. IInv'
    BY RecordingStep
  <2>2. (IInv /\ version = HeadRevision => Stream = rows)'
    BY StreamOfLast, PTL
  <2> QED BY <1>4, <1>5, <2>1, <2>2, StreamOfLast DEF HeadRevision
<1>7. rows \in Seq(Event) /\ rows' \in Seq(Event)
  BY <1>1, <1>3 DEF RowsOK
<1>8. LogOf = [q \in Plan |-> OfPlan(rows, q)] /\ LogOf' = [q \in Plan |-> OfPlan(rows', q)]
  BY <1>6 DEF LogOf
<1>9. \A q \in Plan : q # p => LogOf'[q] = LogOf[q]
  <2> SUFFICES ASSUME NEW q \in Plan, q # p
               PROVE  LogOf'[q] = LogOf[q]
    OBVIOUS
  <2>1. \A i \in DOMAIN s : PlanOf[s[i].action] # q
    BY <1>3
  <2>2. OfPlan(rows \o s, q) = OfPlan(rows, q)
    BY <1>7, <2>1, LogOfMore
  <2> QED BY <1>3, <1>8, <2>2
<1>10. LogOf' = [LogOf EXCEPT ![p] = LogOf'[p]]
  BY <1>8, <1>9
<1>11. IsPrefix(LogOf[p], LogOf'[p]) /\ LogOf'[p] \in Seq(Event)
  <2> DEFINE old == LogOf[p]
             new == LogOf'[p]
  <2>1. old \in Seq(Event) /\ new \in Seq(Event)
    BY <1>7, <1>8, LogIsSequence
  <2>2. Len(old) <= Len(new) /\ \A k \in 1..Len(old) : new[k] = old[k]
    BY <1>3, <1>7, <1>8, LogOfMore
  <2> HIDE DEF old, new
  <2>3. SubSeq(old, 1, Len(old)) = SubSeq(new, 1, Len(old))
    BY <2>1, <2>2
  <2> QED BY <2>1, <2>2, <2>3 DEF IsPrefix, old, new
<1>12. Watching' = Watching
  BY <1>4 DEF Watching
<1>13. Received' = Received
  <2> SUFFICES ASSUME NEW c \in Page
               PROVE  Got(page[c])' = Got(page[c])
    BY DEF Received
  <2>1. \A i \in DOMAIN rows : rows'[i] = rows[i]
    BY <1>3, <1>7
  <2> QED BY <1>4, <2>1, GotMeaning, SameReceived
<1> QED BY <1>10, <1>11, <1>12, <1>13

(* Only what is read is received: a page that is opened or closed has      *)
(* received nothing.                                                       *)
LEMMA NothingReceived == Got(Closed) = <<>> /\ Got(Closed)' = <<>>
BY DEF Got, Closed

(* The steps of a page that record nothing leave the logs as they are.     *)
LEMMA PageLeavesLogs ==
  ASSUME NEW c \in Page,
         Leave(c) \/ Ask(c) \/ Read(c) \/ Cut(c) \/ \E p \in Plan : Watch(c, p)
  PROVE  rows' = rows /\ LogOf' = LogOf
BY DEF Leave, Ask, Read, Cut, Watch, dbVars, durable, LogOf, Stream

(* Opening and leaving a page.                                             *)
LEMMA PageOpens ==
  ASSUME IInv, NEW c \in Page, NEW q \in Plan \cup {None},
         \/ Leave(c) /\ q = None
         \/ q \in Plan /\ Watch(c, q)
  PROVE  /\ LogOf' = LogOf
         /\ Watching' = [Watching EXCEPT ![c] = q]
         /\ Received' = [Received EXCEPT ![c] = <<>>]
<1>1. rows' = rows /\ LogOf' = LogOf
  BY PageLeavesLogs
<1>2. page \in [Page -> PageType] /\ \A d \in Page : PageOK(page[d])
  BY InvariantMeaning, PagesOKMeaning DEF PagesOK
<1>3. Closed \in PageType /\ Closed.plan = None /\ Closed.got = <<>>
  BY DEF Closed, PageType
<1>4. PICK pg \in PageType :
        page' = [page EXCEPT ![c] = pg] /\ pg.plan = q /\ pg.got = <<>>
  <2>1. CASE Leave(c) /\ q = None
    BY <1>3, <2>1 DEF Leave
  <2>2. CASE q \in Plan /\ Watch(c, q)
    <3>1. page[c] = Closed
      BY <1>2, <2>2 DEF Watch, PageOK
    <3>2. page' = [page EXCEPT ![c] = [Closed EXCEPT !.plan = q]]
      BY <2>2, <3>1 DEF Watch
    <3>3. [Closed EXCEPT !.plan = q] \in PageType
      BY <1>3 DEF PageType
    <3>4. [Closed EXCEPT !.plan = q].plan = q /\ [Closed EXCEPT !.plan = q].got = <<>>
      BY <1>3 DEF PageType
    <3> QED BY <3>2, <3>3, <3>4
  <2> QED BY <2>1, <2>2
<1>5. \A d \in Page : page'[d] = IF d = c THEN pg ELSE page[d]
  BY <1>2, <1>4
<1>6. Watching' = [Watching EXCEPT ![c] = q]
  <2>1. \A d \in Page : page'[d].plan = IF d = c THEN q ELSE page[d].plan
    BY <1>4, <1>5
  <2> QED BY <2>1 DEF Watching
<1>7. \A d \in Page : Got(page[d])' = IF d = c THEN <<>> ELSE Got(page[d])
  BY <1>1, <1>4, <1>5 DEF Got
<1>8. Received' = [Received EXCEPT ![c] = <<>>]
  BY <1>7 DEF Received
<1> QED BY <1>1, <1>6, <1>8

(* Asking and losing an answer are invisible.                              *)
LEMMA AskAndCutAreHidden ==
  ASSUME IInv, NEW c \in Page, Ask(c) \/ Cut(c)
  PROVE  UNCHANGED <<LogOf, Watching, Received>>
<1>1. rows' = rows /\ LogOf' = LogOf
  BY PageLeavesLogs
<1>2. page \in [Page -> PageType]
  BY InvariantMeaning, PagesOKMeaning
<1>3. \A d \in Page : page'[d].plan = page[d].plan /\ page'[d].got = page[d].got
  <2>1. CASE Ask(c)
    BY <1>2, <2>1 DEF Ask, PageType
  <2>2. CASE Cut(c)
    <3>1. page' = [page EXCEPT ![c] = Interrupted(page[c])]
      BY <2>2 DEF Cut
    <3>2. Interrupted(page[c]).plan = page[c].plan /\ Interrupted(page[c]).got = page[c].got
      BY <1>2, InterruptedKeeps
    <3> QED BY <1>2, <3>1, <3>2
  <2> QED BY <2>1, <2>2
<1>4. Watching' = Watching
  BY <1>3 DEF Watching
<1>5. \A d \in Page : Got(page[d])' = Got(page[d])
  BY <1>1, <1>3 DEF Got
<1>6. Received' = Received
  BY <1>5 DEF Received
<1> QED BY <1>1, <1>4, <1>6

(* The event that is read next is the one after those received, in the log *)
(* of the plan: its rank among the ids of the plan is one more than the    *)
(* number of the ids read.                                                 *)
LEMMA NextToReceive ==
  ASSUME IInv, NEW c \in Page, page[c].answer # {}
  PROVE  LET pg == page[c]
             id == Least(pg.answer)
             S == PlacesIn(rows, pg.plan)
         IN  /\ pg.plan \in Plan /\ id \in S
             /\ Cardinality(NotAfter(S, id)) = Len(pg.got) + 1
<1> DEFINE pg == page[c]
           id == Least(pg.answer)
           S == PlacesIn(rows, pg.plan)
<1>1. PageOK(pg) /\ rows \in Seq(Event)
  BY InvariantMeaning DEF PagesOK, RowsOK
<1>2. /\ pg \in PageType /\ pg.cursor \in Nat /\ pg.answer \in SUBSET Nat /\ pg.got \in Seq(Nat)
      /\ pg.plan \in Plan \cup {None}
  BY <1>1 DEF PageOK, PageType
<1>3. id \in pg.answer /\ \A j \in pg.answer : id <= j
  BY <1>2, LeastOf
<1>4. pg.plan # None
  BY <1>1 DEF PageOK, Closed
<1>5. S = IdsOf(pg.plan)
  BY DEF PlacesIn, IdsOf
<1> HIDE DEF S, id
<1>6. /\ InOrder(pg.got) /\ Range(pg.got) = {i \in S : i <= pg.cursor}
      /\ \A i \in pg.answer : /\ i \in S /\ i > pg.cursor
                              /\ \A j \in S : pg.cursor < j /\ j < i => j \in pg.answer
  BY <1>1, <1>4, <1>5 DEF PageOK
<1>7. \A i \in S : i \in Nat
  BY <1>1, <1>5, IdsAreNatural
<1>8. id \in S /\ id > pg.cursor
  BY <1>3, <1>6
<1>9. NotAfter(S, id) = Range(pg.got) \cup {id} /\ id \notin Range(pg.got)
  <2>1. \A i \in S : i <= id => i <= pg.cursor \/ i = id
    <3> SUFFICES ASSUME NEW i \in S, i <= id, ~(i <= pg.cursor), i # id
                 PROVE  FALSE
      OBVIOUS
    <3>1. pg.cursor < i /\ i < id
      BY <1>2, <1>7, <1>8
    <3>2. i \in pg.answer
      BY <1>3, <1>6, <3>1
    <3> QED BY <1>3, <1>7, <1>8, <3>1, <3>2
  <2>2. \A i \in S : i <= pg.cursor => i <= id
    BY <1>2, <1>7, <1>8
  <2>3. id <= id /\ ~(id <= pg.cursor)
    BY <1>2, <1>7, <1>8
  <2> QED BY <1>6, <1>8, <2>1, <2>2, <2>3 DEF NotAfter
<1>10. IsInjective(pg.got)
  <2> SUFFICES ASSUME NEW i \in DOMAIN pg.got, NEW j \in DOMAIN pg.got, pg.got[i] = pg.got[j], i # j
               PROVE  FALSE
    BY DEF IsInjective
  <2>1. i \in Nat /\ j \in Nat /\ pg.got[i] \in Nat /\ pg.got[j] \in Nat
    BY <1>2
  <2>2. i < j \/ j < i
    BY <2>1
  <2>3. pg.got[i] < pg.got[j] \/ pg.got[j] < pg.got[i]
    BY <1>6, <2>2 DEF InOrder
  <2> QED BY <2>1, <2>3
<1>11. IsFiniteSet(Range(pg.got)) /\ Cardinality(Range(pg.got)) = Len(pg.got)
  BY <1>2, <1>10, PlacesOf
<1>12. Cardinality(NotAfter(S, id)) = Len(pg.got) + 1
  BY <1>9, <1>11, FS_AddElement
<1> QED BY <1>2, <1>4, <1>8, <1>12 DEF S, id

(* A page that reads receives the next event of the log.                   *)
LEMMA ReadReceives ==
  ASSUME IInv, NEW c \in Page, Read(c)
  PROVE  /\ Watching[c] \in Plan /\ Watching[c] # None
         /\ Len(Received[c]) < Len(LogOf[Watching[c]])
         /\ Received' = [Received EXCEPT
                           ![c] = Append(@, LogOf[Watching[c]][Len(@) + 1])]
         /\ UNCHANGED <<LogOf, Watching>>
<1> DEFINE pg == page[c]
           id == Least(pg.answer)
           S == PlacesIn(rows, pg.plan)
           n == Len(pg.got)
           next == [pg EXCEPT !.answer = @ \ {id}, !.cursor = id, !.got = Append(@, id)]
<1>1. rows' = rows /\ LogOf' = LogOf
  BY PageLeavesLogs
<1>2. page \in [Page -> PageType] /\ rows \in Seq(Event) /\ pg \in PageType /\ pg.got \in Seq(Nat)
  BY InvariantMeaning, PagesOKMeaning DEF RowsOK, PageType
<1>3. pg.answer # {} /\ page' = [page EXCEPT ![c] = next]
  BY DEF Read
<1>4. pg.plan \in Plan /\ id \in S /\ Cardinality(NotAfter(S, id)) = n + 1
  BY <1>3, NextToReceive
<1>5. n \in Nat /\ DOMAIN pg.got = 1..n
  BY <1>2
<1>6. Stream = rows
  <2>1. pg.plan # None
    BY <1>4, StreamAssumption
  <2>2. version = HeadRevision
    BY <2>1 DEF IInv, PagesOpen
  <2> QED BY <2>2, StreamOfLast
<1>7. /\ OfPlan(rows, pg.plan) \in Seq(Event) /\ Len(OfPlan(rows, pg.plan)) = Cardinality(S)
      /\ OfPlan(rows, pg.plan) = [k \in 1..Cardinality(S) |-> rows[Nth(S, k)]]
      /\ S \in SUBSET (1..Len(rows)) /\ Len(rows) \in Nat
  BY <1>2, LogIsSequence DEF OfPlan
<1>8. n + 1 \in 1..Cardinality(S) /\ Nth(S, n + 1) = id
  <2> HIDE DEF S, id, n
  <2>1. Cardinality(NotAfter(S, id)) \in 1..Cardinality(S) /\ Nth(S, Cardinality(NotAfter(S, id))) = id
    BY <1>4, <1>7, NthOf
  <2> QED BY <1>4, <2>1
<1>9. next.plan = pg.plan /\ next.got = Append(pg.got, id)
  BY <1>2 DEF PageType
<1>10. id \in 1..Len(rows) /\ id \in Nat
  BY <1>4, <1>7
<1> HIDE DEF id, next
<1>11. OfPlan(rows, pg.plan)[n + 1] = rows[id] /\ n < Len(OfPlan(rows, pg.plan))
  <2> HIDE DEF S, n
  <2>1. Cardinality(S) \in Nat
    BY <1>7, NthOf
  <2> QED BY <1>5, <1>7, <1>8, <2>1
<1>12. /\ LogOf[pg.plan] = OfPlan(rows, pg.plan)
       /\ Watching[c] = pg.plan /\ Received[c] = Got(pg)
  BY <1>4, <1>6 DEF LogOf, Watching, Received
<1>13. Got(pg) = [i \in 1..n |-> rows[pg.got[i]]]
  BY <1>5 DEF Got
<1>14. \A i \in 1..n : rows[pg.got[i]] \in Event
  <2>1. pg.plan # None
    BY <1>4, StreamAssumption
  <2>2. \A i \in 1..n : pg.got[i] \in DOMAIN rows
    BY <2>1, GotMeaning
  <2> QED BY <1>2, <2>2
<1>15. Got(pg) \in Seq(Event) /\ Len(Got(pg)) = n
  <2> HIDE DEF n
  <2>1. Got(pg) = [i \in 1..n |-> Got(pg)[i]] /\ \A i \in 1..n : Got(pg)[i] \in Event
    BY <1>13, <1>14
  <2> QED BY <1>5, <2>1, SequenceOfLength
<1>16. \A x : x.got = Append(pg.got, id) => Got(x)' = Append(Got(pg), rows[id])
  <2> SUFFICES ASSUME NEW x, x.got = Append(pg.got, id)
               PROVE  Got(x)' = Append(Got(pg), rows[id])
    OBVIOUS
  <2> DEFINE more == Append(pg.got, id)
  <2>1. /\ DOMAIN more = 1..(n + 1) /\ \A i \in 1..n : more[i] = pg.got[i]
        /\ more[n + 1] = id
    BY <1>2, <1>5, <1>10
  <2>2. Got(x)' = [i \in 1..(n + 1) |-> rows[more[i]]]
    BY <1>1, <2>1 DEF Got
  <2>3. rows[id] \in Event
    BY <1>2, <1>10
  <2> HIDE DEF more, n
  <2>4. Append(Got(pg), rows[id]) = [i \in 1..(n + 1) |-> IF i = n + 1 THEN rows[id] ELSE Got(pg)[i]]
    BY <1>5, <1>15, <2>3
  <2>5. \A i \in 1..(n + 1) : rows[more[i]] = IF i = n + 1 THEN rows[id] ELSE Got(pg)[i]
    BY <1>5, <1>13, <2>1
  <2> QED BY <2>2, <2>4, <2>5
<1>17. \A d \in Page : page'[d] = IF d = c THEN next ELSE page[d]
  BY <1>2, <1>3
<1>18. Watching' = Watching
  BY <1>9, <1>17 DEF Watching
<1>19. \A d \in Page : Got(page[d])' = IF d = c THEN Append(Got(pg), rows[id]) ELSE Got(page[d])
  <2>1. Got(page[c])' = Append(Got(pg), rows[id])
    <3>1. page'[c].got = Append(pg.got, id)
      BY <1>9, <1>17
    <3>2. Got(page[c])' = [i \in DOMAIN page'[c].got |-> rows'[page'[c].got[i]]]
      BY DEF Got
    <3> DEFINE x == page'[c]
    <3>3. \A y : Got(y)' = [i \in DOMAIN y.got |-> rows'[y.got[i]]]
      BY DEF Got
    <3> QED BY <1>16, <3>1, <3>2, <3>3
  <2>2. \A d \in Page : d # c => Got(page[d])' = Got(page[d])
    BY <1>1, <1>17 DEF Got
  <2> QED BY <2>1, <2>2
<1>20. Received' = [Received EXCEPT ![c] = Append(Got(pg), rows[id])]
  BY <1>19 DEF Received
<1>21. pg.plan # None
  BY <1>4, StreamAssumption
<1> HIDE DEF pg
<1> QED BY <1>1, <1>4, <1>11, <1>12, <1>15, <1>18, <1>20, <1>21

(* Every step of the stream is a step of the log, or invisible.            *)
LEMMA StepOfLog ==
  ASSUME IInv, [Next]_vars
  PROVE  [Log!Next]_(Log!vars)
<1>1. /\ LogOf = [p \in Plan |-> OfPlan(Stream, p)]
      /\ Watching = [c \in Page |-> page[c].plan]
      /\ Received = [c \in Page |-> Got(page[c])]
  BY DEF LogOf, Watching, Received
<1>2. /\ LogOf' = [p \in Plan |-> OfPlan(Stream, p)]'
      /\ Watching' = [c \in Page |-> page[c].plan]'
      /\ Received' = [c \in Page |-> Got(page[c])]'
  BY DEF LogOf, Watching, Received
<1> HIDE DEF LogOf, Watching, Received
<1>3. CASE UNCHANGED <<LogOf, Watching, Received>>
  BY <1>1, <1>2, <1>3 DEF Log!vars
<1>4. CASE Startup /\ UNCHANGED <<current, page>>
  BY <1>3, <1>4, StartAndStopAreHidden
<1>5. CASE Stop /\ page' = [c \in Page |-> Interrupted(page[c])] /\ UNCHANGED current
  BY <1>3, <1>5, StartAndStopAreHidden
<1>6. CASE (\E p \in Plan : Confirm(p)) \/ (\E a \in Action : SetState(a))
  <2>1. PICK p \in Plan :
           /\ IsPrefix(LogOf[p], LogOf'[p]) /\ LogOf'[p] \in Seq(Event)
           /\ LogOf' = [LogOf EXCEPT ![p] = LogOf'[p]]
           /\ UNCHANGED <<Watching, Received>>
    BY <1>6, RecordingExtends
  <2>2. Log!Extend(p)
    BY <1>1, <1>2, <2>1 DEF Log!Extend, Log!IsPrefix, IsPrefix
  <2> QED BY <2>2 DEF Log!Next
<1>7. ASSUME NEW c \in Page, Leave(c) \/ \E p \in Plan : Watch(c, p)
      PROVE  Log!Next
  <2>1. PICK q \in Plan \cup {None} : (Leave(c) /\ q = None) \/ (q \in Plan /\ Watch(c, q))
    BY <1>7
  <2>2. /\ LogOf' = LogOf
        /\ Watching' = [Watching EXCEPT ![c] = q]
        /\ Received' = [Received EXCEPT ![c] = <<>>]
    BY <2>1, PageOpens
  <2>3. Log!Watch(c, q)
    BY <1>1, <1>2, <2>2 DEF Log!Watch
  <2>4. q = None => Log!Leave(c)
    BY <2>3 DEF Log!Leave
  <2> QED BY <2>1, <2>3, <2>4 DEF Log!Next
<1>8. ASSUME NEW c \in Page, Read(c)
      PROVE  Log!Next
  <2>1. /\ Watching[c] \in Plan /\ Watching[c] # None
        /\ Len(Received[c]) < Len(LogOf[Watching[c]])
        /\ Received' = [Received EXCEPT
                          ![c] = Append(@, LogOf[Watching[c]][Len(@) + 1])]
        /\ UNCHANGED <<LogOf, Watching>>
    BY <1>8, ReadReceives
  <2>2. Log!Receive(c)
    BY <1>1, <1>2, <2>1 DEF Log!Receive
  <2> QED BY <2>2 DEF Log!Next
<1>9. ASSUME NEW c \in Page, Ask(c) \/ Cut(c)
      PROVE  [Log!Next]_(Log!vars)
  BY <1>3, <1>9, AskAndCutAreHidden
<1>10. CASE UNCHANGED vars
  <2>1. UNCHANGED <<LogOf, Watching, Received>>
    BY <1>10 DEF vars, dbVars, LogOf, Watching, Received, Stream, Got
  <2> QED BY <1>3, <2>1
<1> QED BY <1>4, <1>5, <1>6, <1>7, <1>8, <1>9, <1>10 DEF Next

(* The log of every plan begins as what the database holds of it.          *)
LEMMA InitialLog ==
  ASSUME Init
  PROVE  Log!Init
<1>1. IInv
  BY InitialState
<1>2. \A p \in Plan : OfPlan(Stream, p) \in Seq(Event)
  BY <1>1, StreamIsSequence, LogIsSequence
<1>3. page = [c \in Page |-> Closed]
  BY DEF Init
<1>4. \A c \in Page : page[c].plan = None /\ Got(page[c]) = <<>>
  BY <1>3, NothingReceived DEF Closed
<1> QED BY <1>2, <1>4 DEF Log!Init

(* The steps of EventLog, without the fairness of its pages: that every    *)
(* event reaches every page that stays is left to ImplementsLog.           *)
LogSteps == Log!Init /\ [][Log!Next]_(Log!vars)

(* EventStream implements the steps of EventLog: through the upgrade of    *)
(* the database, kills and cut answers a log only grows, and a page        *)
(* receives the next event of its plan or none (revision 3, lines 28-54;   *)
(* list_events, repositories.py 183-228; api/events.py 35-66).             *)
THEOREM StreamImplementsLog == Spec => LogSteps
<1>1. Init => Log!Init
  BY InitialLog
<1>2. IInv /\ [Next]_vars => [Log!Next]_(Log!vars)
  BY StepOfLog
<1> QED BY <1>1, <1>2, StreamInvariantHolds, PTL DEF Spec, LogSteps
=============================================================================
