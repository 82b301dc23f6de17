--------------------------- MODULE ScanInvariant ----------------------------
(***************************************************************************)
(* The inductive invariant behind the safety properties of Scan.           *)
(***************************************************************************)
EXTENDS Scan

InPageLoop == {"decide", "listing", "next", "reading", "filing", "mark",
               "checkpoint", "complete"}
WithMessage == {"rereading", "refiling", "reading", "filing", "mark"}

(* What a task still has to do, the message in hand included.              *)
Left(t) == IF pc[t] \in WithMessage THEN todo[t] \cup {msg[t]} ELSE todo[t]

(* One run per scan at a time, and only the lock's holder runs.            *)
LockInv(t) ==
  /\ pc[t] = "idle" <=> scan[t] = None
  /\ \A s \in ScanId : scanLock[s] = t <=> scan[t] = s

(* A run keeps to its limit: while it lists or reads there is room, for    *)
(* all of the page in hand, so that the break at the limit drops nothing.  *)
LimitInv(t) ==
  /\ pc[t] # "idle" => limit[t] \in Limits[scan[t]]
  /\ pc[t] \in WithMessage => msg[t] \in Message
  /\ pc[t] \in {"listing", "next", "reading", "filing", "mark"} => Remaining(t) > 0
  /\ pc[t] \in {"next", "reading", "filing", "mark"} =>
       Cardinality(Left(t)) <= Remaining(t)
  /\ pc[t] \in {"reading", "filing", "mark"} => msg[t] \notin seen[scan[t]] \cup todo[t]

(* The page in hand covers what lies between the saved token and the next. *)
PageInv(t) ==
  pc[t] \in InPageLoop =>
    LET s == scan[t] IN
      /\ s \in rehydrated /\ ~complete[s]
      /\ pc[t] \in {"decide", "listing"} => cursor[t] = token[s]
      /\ pc[t] \in {"next", "reading", "filing", "mark"} =>
           {m \in owed[s] : m >= cursor[t]} \subseteq seen[s] \cup deleted \cup Left(t)
      /\ pc[t] \in {"checkpoint", "complete"} =>
           {m \in owed[s] : m >= cursor[t]} \subseteq seen[s] \cup deleted
      /\ pc[t] = "complete" => cursor[t] = 0
      /\ pc[t] = "mark" => msg[t] \in catalog

(* What a rehydration has not filed yet is still to do.                    *)
RereadInv(t) ==
  pc[t] \in {"reread", "rereading", "refiling"} /\ scan[t] \notin rehydrated /\ OneLimit(scan[t]) =>
    seen[scan[t]] \subseteq catalog \cup Left(t)

TaskInv(t) == LockInv(t) /\ LimitInv(t) /\ PageInv(t) /\ RereadInv(t)

(* The safety properties of one scan.                                      *)
ScanInv(s) ==
  /\ owed[s] \subseteq 1..newest
  /\ seen[s] = {} \/ \E n \in Limits[s] : Cardinality(seen[s]) <= n
  /\ Passed(s) \subseteq seen[s] \cup deleted
  /\ s \in rehydrated /\ OneLimit(s) => seen[s] \subseteq catalog

IInv ==
  /\ TypeOK
  /\ \A t \in Task : TaskInv(t)
  /\ \A s \in ScanId : ScanInv(s)

=============================================================================
