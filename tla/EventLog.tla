------------------------------ MODULE EventLog ------------------------------
(***************************************************************************)
(* What the event stream promises: each plan has a log that only grows,    *)
(* and a page that watches a plan receives its events one after the other, *)
(* from the first, without gap or repetition, as long as it stays open.    *)
(*                                                                         *)
(* EventStream implements this specification.                              *)
(***************************************************************************)
EXTENDS Naturals, SequencesExt

CONSTANTS Plan, Page, None, Entry

VARIABLES
  log,             \* the events of each plan
  watching,        \* the plan each page watches, or None
  received         \* what it has received of it

vars == <<log, watching, received>>

Init ==
  /\ log \in [Plan -> Seq(Entry)]
  /\ watching = [c \in Page |-> None]
  /\ received = [c \in Page |-> <<>>]

Extend(p) ==
  /\ IsPrefix(log[p], log'[p]) /\ log'[p] \in Seq(Entry)
  /\ log' = [log EXCEPT ![p] = log'[p]]
  /\ UNCHANGED <<watching, received>>

Watch(c, p) ==
  /\ watching' = [watching EXCEPT ![c] = p]
  /\ received' = [received EXCEPT ![c] = <<>>]
  /\ UNCHANGED log

Leave(c) == Watch(c, None)

Receive(c) ==
  /\ watching[c] # None
  /\ Len(received[c]) < Len(log[watching[c]])
  /\ received' = [received EXCEPT ![c] = Append(@, log[watching[c]][Len(@) + 1])]
  /\ UNCHANGED <<log, watching>>

Next ==
  \/ \E p \in Plan : Extend(p)
  \/ \E c \in Page : Leave(c) \/ Receive(c) \/ \E p \in Plan : Watch(c, p)

Spec == Init /\ [][Next]_vars /\ \A c \in Page : WF_vars(Receive(c))
=============================================================================
