-------------------------------- MODULE Scan --------------------------------
(***************************************************************************)
(* Bounded scans of the mailbox: ScanService with the durable checkpoints  *)
(* of SqliteScanCheckpointStore (backend/app/scan/service.py and           *)
(* checkpoints.py).  A scan lists pages of message references, reads each  *)
(* new message, hands it to the processing pipeline, which files it in the *)
(* in-memory catalog, and records it as seen; a page token is saved when   *)
(* the page is done.  The first run of a scan in a process files the       *)
(* messages seen by earlier processes again.                               *)
(*                                                                         *)
(* As in Execution, a Task is a request coroutine on one event loop, and a *)
(* step is one await or one transaction.                                   *)
(***************************************************************************)
EXTENDS Naturals, FiniteSets

CONSTANTS
  ScanId,          \* scan ids, chosen by the clients
  Limits,          \* the values of max_messages used with each scan id
  PageSize,        \* the page size asked for, 100 in the code
  Task,            \* concurrent request coroutines
  None,            \* no task, no scan
  MaxMessage,      \* bound: messages that ever arrive
  MaxDeletes,      \* bound: messages deleted from the mailbox
  MaxCrashes,      \* bound: process restarts
  MaxFaults        \* bound: failed calls to Gmail or the pipeline

ASSUME ScanAssumption ==
  /\ Limits \in [ScanId -> SUBSET (Nat \ {0})]
  /\ PageSize \in Nat \ {0}
  /\ MaxMessage \in Nat /\ MaxDeletes \in Nat /\ MaxCrashes \in Nat /\ MaxFaults \in Nat
  /\ None \notin Task \cup ScanId

(* Messages are numbered in the order of their arrival; Gmail lists the    *)
(* newest first.  The page token k stands for "older than k", 0 for none.  *)
Message == 1..MaxMessage

VARIABLES
  \* durable: the rows of scan_checkpoints
  seen, token, complete,
  \* in the memory of the process
  rehydrated,      \* ScanService._rehydrated_scan_ids
  catalog,         \* the messages filed for review
  scanLock,        \* ScanService._scan_locks: the holder of each scan's lock
  pc, scan, limit, \* per task: program point, scan id, max_messages,
  cursor, todo,    \*   page token, message ids left to do,
  msg,             \*   the message being read
  \* the mailbox
  newest, deleted,
  \* history: what was there when the scan last listed from the top
  owed,
  \* counters that bound the behaviours
  crashes, faults

rows    == <<seen, token, complete>>
memory  == <<rehydrated, catalog, scanLock>>
locals  == <<pc, scan, limit, cursor, todo, msg>>
mailbox == <<newest, deleted>>
bounds  == <<crashes, faults>>
vars    == <<rows, memory, locals, mailbox, owed, bounds>>

PC == {"idle", "reread", "rereading", "refiling", "decide", "listing", "next",
       "reading", "filing", "mark", "checkpoint", "complete"}

(* Program points at which a task is suspended in an await.                *)
Suspended == {"idle", "rereading", "refiling", "listing", "reading", "filing"}
LoopFree(t) == \A u \in Task \ {t} : pc[u] \in Suspended
At(t, l) == pc[t] = l /\ LoopFree(t)

Goto(t, l) == pc' = [pc EXCEPT ![t] = l]

(* Variant: the lock is not released.                                      *)
LeaveLocked(t) ==
  /\ Goto(t, "idle")
  /\ scan'   = [scan   EXCEPT ![t] = None]
  /\ limit'  = [limit  EXCEPT ![t] = 0]
  /\ cursor' = [cursor EXCEPT ![t] = 0]
  /\ todo'   = [todo   EXCEPT ![t] = {}]
  /\ msg'    = [msg    EXCEPT ![t] = 0]
  /\ scanLock' = scanLock

(* The run returns or raises; "async with" releases the scan's lock.       *)
Leave(t) ==
  /\ Goto(t, "idle")
  /\ scan'   = [scan   EXCEPT ![t] = None]
  /\ limit'  = [limit  EXCEPT ![t] = 0]
  /\ cursor' = [cursor EXCEPT ![t] = 0]
  /\ todo'   = [todo   EXCEPT ![t] = {}]
  /\ msg'    = [msg    EXCEPT ![t] = 0]
  /\ scanLock' = [s \in ScanId |-> IF scanLock[s] = t THEN None ELSE scanLock[s]]

(* Gmail lists from a page token on; it may return fewer than asked for,   *)
(* up to a message k, which becomes the next token, or up to the end.      *)
Present == (1..newest) \ deleted
Below(k) == {m \in Present : k = 0 \/ m < k}
Page(c, k) == {m \in Below(c) : m >= k}

(* Variant: room for one message more than max_messages.                   *)
RemainingOneMore(t) ==
  IF Cardinality(seen[scan[t]]) <= limit[t] THEN limit[t] + 1 - Cardinality(seen[scan[t]]) ELSE 0

(* max_messages less what has been seen; not below zero.                   *)
Remaining(t) ==
  IF Cardinality(seen[scan[t]]) < limit[t] THEN limit[t] - Cardinality(seen[scan[t]]) ELSE 0

AskedFor(t) == IF Remaining(t) < PageSize THEN Remaining(t) ELSE PageSize

Init ==
  /\ seen     = [s \in ScanId |-> {}]
  /\ token    = [s \in ScanId |-> 0]
  /\ complete = [s \in ScanId |-> FALSE]
  /\ rehydrated = {} /\ catalog = {}
  /\ scanLock = [s \in ScanId |-> None]
  /\ pc     = [t \in Task |-> "idle"]
  /\ scan   = [t \in Task |-> None]
  /\ limit  = [t \in Task |-> 0]
  /\ cursor = [t \in Task |-> 0]
  /\ todo   = [t \in Task |-> {}]
  /\ msg    = [t \in Task |-> 0]
  /\ newest \in 0..MaxMessage
  /\ deleted = {}
  /\ owed   = [s \in ScanId |-> {}]
  /\ crashes = 0 /\ faults = 0

-----------------------------------------------------------------------------
(* ScanService.run.                                                        *)

(* What a rehydration files again: the first max_messages ids seen, in the *)
(* order of the ids, which has nothing to do with time.                    *)
FirstSeen(s, n) ==
  IF Cardinality(seen[s]) <= n THEN {seen[s]}
  ELSE {S \in SUBSET seen[s] : Cardinality(S) = n}

(* Variants: a scan counts as rehydrated from the start of the             *)
(* rehydration, and runs of the same scan are not serialized.              *)
RunEarlyMark(t, s, n) ==
  /\ At(t, "idle") /\ scanLock[s] = None
  /\ scanLock' = [scanLock EXCEPT ![s] = t]
  /\ scan'  = [scan  EXCEPT ![t] = s]
  /\ limit' = [limit EXCEPT ![t] = n]
  /\ \E S \in IF s \in rehydrated THEN {{}} ELSE FirstSeen(s, n) : todo' = [todo EXCEPT ![t] = S]
  /\ rehydrated' = rehydrated \cup {s}
  /\ Goto(t, "reread")
  /\ UNCHANGED <<rows, catalog, cursor, msg, mailbox, owed, bounds>>

RunUnlocked(t, s, n) ==
  /\ At(t, "idle")
  /\ scanLock' = [scanLock EXCEPT ![s] = t]
  /\ scan'  = [scan  EXCEPT ![t] = s]
  /\ limit' = [limit EXCEPT ![t] = n]
  /\ \E S \in IF s \in rehydrated THEN {{}} ELSE FirstSeen(s, n) : todo' = [todo EXCEPT ![t] = S]
  /\ Goto(t, "reread")
  /\ UNCHANGED <<rows, rehydrated, catalog, cursor, msg, mailbox, owed, bounds>>

(* The lock is taken and the request remembered; a rehydration is due only *)
(* on the scan's first run in this process.                                *)
Run(t, s, n) ==
  /\ At(t, "idle") /\ scanLock[s] = None
  /\ scanLock' = [scanLock EXCEPT ![s] = t]
  /\ scan'  = [scan  EXCEPT ![t] = s]
  /\ limit' = [limit EXCEPT ![t] = n]
  /\ \E S \in IF s \in rehydrated THEN {{}} ELSE FirstSeen(s, n) : todo' = [todo EXCEPT ![t] = S]
  /\ Goto(t, "reread")
  /\ UNCHANGED <<rows, rehydrated, catalog, cursor, msg, mailbox, owed, bounds>>

RereadNext(t) ==
  /\ At(t, "reread")
  /\ \E m \in todo[t] :
       /\ msg'  = [msg  EXCEPT ![t] = m]
       /\ todo' = [todo EXCEPT ![t] = @ \ {m}]
  /\ Goto(t, "rereading")
  /\ UNCHANGED <<rows, memory, scan, limit, cursor, mailbox, owed, bounds>>

(* A complete scan has nothing more to read.                               *)
RereadDone(t) ==
  /\ At(t, "reread") /\ todo[t] = {}
  /\ rehydrated' = rehydrated \cup {scan[t]}
  /\ IF complete[scan[t]]
     THEN Leave(t)
     ELSE /\ cursor' = [cursor EXCEPT ![t] = token[scan[t]]]
          /\ Goto(t, "decide")
          /\ UNCHANGED <<scan, limit, todo, msg, scanLock>>
  /\ UNCHANGED <<rows, catalog, mailbox, owed, bounds>>

(* _read_with_retry and the pipeline, for both loops.                      *)
ReadMessage(t) ==
  /\ pc[t] \in {"rereading", "reading"} /\ LoopFree(t)
  /\ msg[t] \notin deleted
  /\ Goto(t, IF pc[t] = "reading" THEN "filing" ELSE "refiling")
  /\ UNCHANGED <<rows, memory, scan, limit, cursor, todo, msg, mailbox, owed, bounds>>

FileMessage(t) ==
  /\ pc[t] \in {"refiling", "filing"} /\ LoopFree(t)
  /\ catalog' = catalog \cup {msg[t]}
  /\ Goto(t, IF pc[t] = "filing" THEN "mark" ELSE "reread")
  /\ UNCHANGED <<rows, rehydrated, scanLock, scan, limit, cursor, todo, msg, mailbox, owed, bounds>>

(* A message that is gone fails all three attempts to read it.             *)
ReadGone(t) ==
  /\ pc[t] \in {"rereading", "reading"} /\ LoopFree(t)
  /\ msg[t] \in deleted
  /\ Leave(t)
  /\ UNCHANGED <<rows, rehydrated, catalog, mailbox, owed, bounds>>

(* ScanFailure: Gmail or the pipeline fails.                               *)
CallFails(t) ==
  /\ pc[t] \in Suspended \ {"idle"} /\ LoopFree(t) /\ faults < MaxFaults
  /\ Leave(t)
  /\ faults' = faults + 1
  /\ UNCHANGED <<rows, rehydrated, catalog, mailbox, owed, crashes>>

(* The condition of the page loop.                                         *)
Decide(t) ==
  /\ At(t, "decide")
  /\ IF Remaining(t) > 0
     THEN Goto(t, "listing") /\ UNCHANGED <<scan, limit, cursor, todo, msg, scanLock>>
     ELSE Leave(t)
  /\ UNCHANGED <<rows, rehydrated, catalog, mailbox, owed, bounds>>

(* Variant: the page is checkpointed before its messages are read.         *)
ListPageCheckpointed(t) ==
  /\ At(t, "listing")
  /\ \E k \in {0} \cup Below(cursor[t]) :
       /\ Cardinality(Page(cursor[t], k)) <= AskedFor(t)
       /\ todo'   = [todo   EXCEPT ![t] = Page(cursor[t], k)]
       /\ cursor' = [cursor EXCEPT ![t] = k]
       /\ token'  = [token  EXCEPT ![scan[t]] = k]
  /\ owed' = IF cursor[t] = 0 THEN [owed EXCEPT ![scan[t]] = Present] ELSE owed
  /\ Goto(t, "next")
  /\ UNCHANGED <<seen, complete, memory, scan, limit, msg, mailbox, bounds>>

(* A page of at most min(100, remaining) references arrives.               *)
ListPage(t) ==
  /\ At(t, "listing")
  /\ \E k \in {0} \cup Below(cursor[t]) :
       /\ Cardinality(Page(cursor[t], k)) <= AskedFor(t)
       /\ todo'   = [todo   EXCEPT ![t] = Page(cursor[t], k)]
       /\ cursor' = [cursor EXCEPT ![t] = k]
  /\ owed' = IF cursor[t] = 0 THEN [owed EXCEPT ![scan[t]] = Present] ELSE owed
  /\ Goto(t, "next")
  /\ UNCHANGED <<rows, memory, scan, limit, msg, mailbox, bounds>>

(* The next reference of the page, newest first; seen ones are passed over. *)
NextReference(t) ==
  /\ At(t, "next")
  /\ \E m \in todo[t] :
       /\ \A i \in todo[t] : i <= m
       /\ todo' = [todo EXCEPT ![t] = @ \ {m}]
       /\ IF m \in seen[scan[t]]
          THEN UNCHANGED <<pc, msg>>
          ELSE msg' = [msg EXCEPT ![t] = m] /\ Goto(t, "reading")
  /\ UNCHANGED <<rows, memory, scan, limit, cursor, mailbox, owed, bounds>>

PageDone(t) ==
  /\ At(t, "next") /\ todo[t] = {}
  /\ Goto(t, "checkpoint")
  /\ UNCHANGED <<rows, memory, scan, limit, cursor, todo, msg, mailbox, owed, bounds>>

(* mark_seen; at the limit the rest of the page is left.                   *)
MarkSeen(t) ==
  /\ At(t, "mark")
  /\ seen' = [seen EXCEPT ![scan[t]] = @ \cup {msg[t]}]
  /\ UNCHANGED <<token, complete, memory, scan, limit, cursor, todo, msg, mailbox, owed, bounds>>
  /\ Goto(t, IF Remaining(t)' = 0 THEN "checkpoint" ELSE "next")

(* Variant: the loop does not end with the last page.                      *)
CheckpointEndless(t) ==
  /\ At(t, "checkpoint")
  /\ token' = [token EXCEPT ![scan[t]] = cursor[t]]
  /\ Goto(t, "decide")
  /\ UNCHANGED <<seen, complete, memory, scan, limit, cursor, todo, msg, mailbox, owed, bounds>>

Checkpoint(t) ==
  /\ At(t, "checkpoint")
  /\ token' = [token EXCEPT ![scan[t]] = cursor[t]]
  /\ Goto(t, IF cursor[t] = 0 THEN "complete" ELSE "decide")
  /\ UNCHANGED <<seen, complete, memory, scan, limit, cursor, todo, msg, mailbox, owed, bounds>>

Complete(t) ==
  /\ At(t, "complete")
  /\ complete' = [complete EXCEPT ![scan[t]] = TRUE]
  /\ Leave(t)
  /\ UNCHANGED <<seen, token, rehydrated, catalog, mailbox, owed, bounds>>

-----------------------------------------------------------------------------
(* The mailbox and the process.                                            *)

Arrive ==
  /\ newest < MaxMessage
  /\ newest' = newest + 1
  /\ UNCHANGED <<rows, memory, locals, deleted, owed, bounds>>

Delete(m) ==
  /\ m \in Present /\ Cardinality(deleted) < MaxDeletes
  /\ deleted' = deleted \cup {m}
  /\ UNCHANGED <<rows, memory, locals, newest, owed, bounds>>

Crash ==
  /\ crashes < MaxCrashes
  /\ crashes' = crashes + 1
  /\ rehydrated' = {} /\ catalog' = {}
  /\ scanLock' = [s \in ScanId |-> None]
  /\ pc'     = [t \in Task |-> "idle"]
  /\ scan'   = [t \in Task |-> None]
  /\ limit'  = [t \in Task |-> 0]
  /\ cursor' = [t \in Task |-> 0]
  /\ todo'   = [t \in Task |-> {}]
  /\ msg'    = [t \in Task |-> 0]
  /\ UNCHANGED <<rows, mailbox, owed, faults>>

-----------------------------------------------------------------------------
Request(t) == \E s \in ScanId : \E n \in Limits[s] : Run(t, s, n)

TaskStep(t) ==
  \/ RereadNext(t) \/ RereadDone(t)
  \/ ReadMessage(t) \/ FileMessage(t) \/ ReadGone(t)
  \/ Decide(t) \/ ListPage(t) \/ NextReference(t) \/ PageDone(t)
  \/ MarkSeen(t) \/ Checkpoint(t) \/ Complete(t)

Next ==
  \/ \E t \in Task : Request(t) \/ TaskStep(t) \/ CallFails(t)
  \/ Arrive
  \/ \E m \in Message : Delete(m)
  \/ Crash

Spec == Init /\ [][Next]_vars

(* A coroutine that can run does run.                                      *)
FairSpec == Spec /\ \A t \in Task : WF_vars(TaskStep(t))

(* The user, moreover, keeps retrying (the UI reuses the scan id).         *)
RetrySpec == FairSpec /\ \A t \in Task : WF_vars(Request(t))

-----------------------------------------------------------------------------
(* Properties.                                                             *)

(* The variables have their types.                                         *)
TypeOK ==
  /\ seen \in [ScanId -> SUBSET Message]
  /\ token \in [ScanId -> 0..MaxMessage]
  /\ complete \in [ScanId -> BOOLEAN]
  /\ rehydrated \in SUBSET ScanId
  /\ catalog \in SUBSET Message
  /\ scanLock \in [ScanId -> Task \cup {None}]
  /\ pc \in [Task -> PC]
  /\ scan \in [Task -> ScanId \cup {None}]
  /\ limit \in [Task -> Nat]
  /\ cursor \in [Task -> 0..MaxMessage]
  /\ todo \in [Task -> SUBSET Message]
  /\ msg \in [Task -> 0..MaxMessage]
  /\ newest \in 0..MaxMessage
  /\ deleted \in SUBSET Message
  /\ owed \in [ScanId -> SUBSET Message]
  /\ crashes \in Nat /\ faults \in Nat

(* max_messages is kept over all runs of a scan, across restarts: no scan  *)
(* ever sees more messages than the largest limit it was given.            *)
LimitIsKept ==
  \A s \in ScanId : seen[s] = {} \/ \E n \in Limits[s] : Cardinality(seen[s]) <= n

(* No message is skipped: of the messages that were in the mailbox when    *)
(* the scan listed it from the top, those the saved page token has passed, *)
(* or all of them once the scan is complete, have been seen, unless they   *)
(* were deleted meanwhile.                                                 *)
Passed(s) ==
  IF complete[s] THEN owed[s]
  ELSE IF token[s] = 0 THEN {} ELSE {m \in owed[s] : m >= token[s]}
NothingSkipped == \A s \in ScanId : Passed(s) \subseteq seen[s] \cup deleted

(* After a restart the review shows what the database says has been read:  *)
(* once a run of the scan has got past its rehydration, every message seen *)
(* by the scan is in the catalog; provided that the scan always has the    *)
(* same limit (the UI takes a new scan id for new bounds).                 *)
OneLimit(s) == \A m, n \in Limits[s] : m = n
SeenIsReviewable == \A s \in rehydrated : OneLimit(s) => seen[s] \subseteq catalog

(* Every run returns, with a result or with a ScanFailure.                 *)
RunReturns == \A t \in Task : pc[t] # "idle" ~> pc[t] = "idle"

(* "continues rehydrating after individual message failures": a scan that  *)
(* is retried is finished in the end, read to its limit or to the end of   *)
(* the mailbox, although calls fail, the process restarts and mail is      *)
(* deleted meanwhile.                                                      *)
RetriedScanFinishes ==
  \A s \in ScanId : <>(complete[s] \/ \E n \in Limits[s] : Cardinality(seen[s]) >= n)

=============================================================================
