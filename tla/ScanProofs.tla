----------------------------- MODULE ScanProofs -----------------------------
(***************************************************************************)
(* The safety properties of Scan, for every set of scans, page size,       *)
(* limits and mailbox.                                                     *)
(***************************************************************************)
EXTENDS ScanInvariant, FiniteSetTheorems, TLAPS

(* What is needed of cardinalities: sets of messages are finite.           *)
LEMMA MessageSets ==
  ASSUME NEW S \in SUBSET Message
  PROVE  /\ Cardinality(S) \in Nat
         /\ Cardinality(S) = 0 <=> S = {}
         /\ \A x \in S : Cardinality(S \ {x}) <= Cardinality(S)
         /\ \A x \in Message : x \notin S => Cardinality(S \cup {x}) = Cardinality(S) + 1
<1>1. IsFiniteSet(Message)
  BY FS_Interval, ScanAssumption DEF Message
<1>2. IsFiniteSet(S)
  BY <1>1, FS_Subset
<1>3. ASSUME NEW x \in S PROVE Cardinality(S \ {x}) <= Cardinality(S)
  <2>1. S \ {x} \subseteq S
    OBVIOUS
  <2> QED BY <1>2, <2>1, FS_Subset
<1> QED BY <1>2, <1>3, FS_CardinalityType, FS_EmptySet, FS_AddElement

(* A running task works on a scan, with a limit and a message.             *)
LEMMA Locals ==
  ASSUME IInv, NEW t \in Task, pc[t] # "idle"
  PROVE  /\ scan[t] \in ScanId /\ scanLock[scan[t]] = t
         /\ limit[t] \in Limits[scan[t]] /\ limit[t] \in Nat /\ limit[t] > 0
         /\ pc[t] \in WithMessage => msg[t] \in Message
         /\ \A u \in Task : u # t => scan[u] # scan[t]
<1>1. scan[t] \in ScanId /\ LockInv(t) /\ LimitInv(t)
  BY DEF IInv, TypeOK, TaskInv, LockInv
<1>2. limit[t] \in Limits[scan[t]] /\ limit[t] \in Nat /\ limit[t] > 0
  BY <1>1, ScanAssumption DEF LimitInv
<1>3. ASSUME NEW u \in Task, u # t PROVE scan[u] # scan[t]
  BY <1>1, <1>3 DEF IInv, TaskInv, LockInv
<1> QED BY <1>1, <1>2, <1>3 DEF LimitInv, LockInv

-----------------------------------------------------------------------------
(* Returning from a run keeps the types.                                   *)
LEMMA LeaveType ==
  ASSUME TypeOK, NEW t \in Task, Leave(t)
  PROVE  /\ pc' \in [Task -> PC] /\ scan' \in [Task -> ScanId \cup {None}]
         /\ limit' \in [Task -> Nat] /\ cursor' \in [Task -> 0..MaxMessage]
         /\ todo' \in [Task -> SUBSET Message] /\ msg' \in [Task -> 0..MaxMessage]
         /\ scanLock' \in [ScanId -> Task \cup {None}]
<1>1. 0 \in 0..MaxMessage /\ 0 \in Nat
  BY ScanAssumption
<1> QED BY <1>1 DEF TypeOK, Leave, Goto, PC

(* Every step keeps the types.                                             *)
LEMMA TypeStep == IInv /\ [Next]_vars => TypeOK'
<1> SUFFICES ASSUME IInv, [Next]_vars PROVE TypeOK'
  OBVIOUS
<1> USE DEF TypeOK
<1>0. TypeOK /\ 0 \in 0..MaxMessage /\ Message \subseteq 0..MaxMessage
  BY ScanAssumption DEF IInv, Message
<1>1. CASE UNCHANGED vars
  BY <1>0, <1>1 DEF vars, rows, memory, locals, mailbox, bounds
<1>2. ASSUME NEW t \in Task, Request(t) PROVE TypeOK'
  <2> PICK s \in ScanId : \E n \in Limits[s] : Run(t, s, n)
    BY <1>2 DEF Request
  <2> PICK n \in Limits[s] : Run(t, s, n)
    OBVIOUS
  <2>1. n \in Nat
    BY ScanAssumption
  <2>2. todo' \in [Task -> SUBSET Message]
    <3>1. PICK S \in (IF s \in rehydrated THEN {{}} ELSE FirstSeen(s, n)) :
            todo' = [todo EXCEPT ![t] = S]
      BY DEF Run
    <3>2. S \in SUBSET Message
      BY <1>0, <3>1 DEF FirstSeen
    <3> QED BY <1>0, <3>1, <3>2
  <2> QED BY <1>0, <2>1, <2>2 DEF Run, Goto, PC, rows, mailbox, bounds
<1>3. ASSUME NEW t \in Task, TaskStep(t) PROVE TypeOK'
  <2>1. pc[t] # "idle"
    BY <1>3 DEF TaskStep, At, RereadNext, RereadDone, ReadMessage, FileMessage, ReadGone, Decide,
                ListPage, NextReference, PageDone, MarkSeen, Checkpoint, Complete
  <2>2. /\ scan[t] \in ScanId
        /\ pc[t] \in WithMessage => msg[t] \in Message
    BY <2>1, Locals
  <2> USE <1>0
  <2>3. CASE RereadNext(t)
    BY <2>3 DEF RereadNext, Goto, PC, rows, memory, mailbox, bounds
  <2>4. CASE RereadDone(t)
    <3>1. rehydrated' \in SUBSET ScanId
      BY <2>2, <2>4 DEF RereadDone
    <3>2. CASE complete[scan[t]]
      BY <2>4, <3>1, <3>2, LeaveType DEF RereadDone, rows, mailbox, bounds
    <3>3. CASE ~complete[scan[t]]
      BY <2>2, <2>4, <3>1, <3>3 DEF RereadDone, Goto, PC, rows, mailbox, bounds
    <3> QED BY <3>2, <3>3
  <2>5. CASE ReadMessage(t)
    BY <2>5 DEF ReadMessage, Goto, PC, rows, memory, mailbox, bounds
  <2>6. CASE FileMessage(t)
    BY <2>2, <2>6 DEF FileMessage, Goto, PC, rows, mailbox, bounds, WithMessage
  <2>7. CASE ReadGone(t)
    BY <2>7, LeaveType DEF ReadGone, rows, mailbox, bounds
  <2>8. CASE Decide(t)
    <3>1. CASE Remaining(t) > 0
      BY <2>8, <3>1 DEF Decide, Goto, PC, rows, mailbox, bounds
    <3>2. CASE ~(Remaining(t) > 0)
      BY <2>8, <3>2, LeaveType DEF Decide, rows, mailbox, bounds
    <3> QED BY <3>1, <3>2
  <2>9. CASE ListPage(t)
    <3>1. Present \in SUBSET Message
      BY ScanAssumption DEF Present, Message
    <3>2. PICK k \in {0} \cup Below(cursor[t]) :
            /\ todo'   = [todo   EXCEPT ![t] = Page(cursor[t], k)]
            /\ cursor' = [cursor EXCEPT ![t] = k]
      BY <2>9 DEF ListPage
    <3>3. k \in 0..MaxMessage /\ Page(cursor[t], k) \in SUBSET Message
      BY <3>1 DEF Below, Page
    <3>4. owed' \in [ScanId -> SUBSET Message]
      BY <2>2, <2>9, <3>1 DEF ListPage
    <3> QED BY <2>9, <3>2, <3>3, <3>4 DEF ListPage, Goto, PC, rows, memory, mailbox, bounds
  <2>10. CASE NextReference(t)
    BY <2>10 DEF NextReference, Goto, PC, rows, memory, mailbox, bounds
  <2>11. CASE PageDone(t)
    BY <2>11 DEF PageDone, Goto, PC, rows, memory, mailbox, bounds
  <2>12. CASE MarkSeen(t)
    <3>1. seen' \in [ScanId -> SUBSET Message]
      BY <2>2, <2>12 DEF MarkSeen, At, WithMessage
    <3> QED BY <2>12, <3>1 DEF MarkSeen, Goto, PC, memory, mailbox, bounds
  <2>13. CASE Checkpoint(t)
    BY <2>13 DEF Checkpoint, Goto, PC, memory, mailbox, bounds
  <2>14. CASE Complete(t)
    BY <2>14, LeaveType DEF Complete, mailbox, bounds
  <2> QED BY <1>3, <2>3, <2>4, <2>5, <2>6, <2>7, <2>8, <2>9, <2>10, <2>11, <2>12, <2>13, <2>14
          DEF TaskStep
<1>4. ASSUME NEW t \in Task, CallFails(t) PROVE TypeOK'
  BY <1>0, <1>4, LeaveType DEF CallFails, rows, mailbox
<1>5. CASE Arrive
  BY <1>0, <1>5, ScanAssumption DEF Arrive, rows, memory, locals, bounds
<1>6. ASSUME NEW m \in Message, Delete(m) PROVE TypeOK'
  BY <1>0, <1>6 DEF Delete, rows, memory, locals, bounds
<1>7. CASE Crash
  BY <1>0, <1>7 DEF Crash, PC, rows, mailbox
<1> QED BY <1>1, <1>2, <1>3, <1>4, <1>5, <1>6, <1>7 DEF Next

-----------------------------------------------------------------------------
(* What is left of a task u by a step that is not its own.                 *)
LocalsKept(u) ==
  /\ pc'[u] = pc[u] /\ scan'[u] = scan[u] /\ limit'[u] = limit[u]
  /\ cursor'[u] = cursor[u] /\ todo'[u] = todo[u] /\ msg'[u] = msg[u]
  /\ \A s \in ScanId : scanLock'[s] = u <=> scanLock[s] = u

(* What is left of a scan by a step that is not one of its runs.           *)
ScanKept(s) ==
  /\ seen'[s] = seen[s] /\ token'[s] = token[s] /\ complete'[s] = complete[s]
  /\ owed'[s] = owed[s]
  /\ s \in rehydrated' <=> s \in rehydrated

(* What every step but a crash leaves of the rest.                         *)
OnlyGrows == catalog \subseteq catalog' /\ deleted \subseteq deleted' /\ newest <= newest'

(* A task keeps its invariant through the steps of others, since no two    *)
(* tasks run the same scan.                                                *)
LEMMA TaskFrame ==
  ASSUME IInv, NEW u \in Task, LocalsKept(u), OnlyGrows,
         pc[u] # "idle" => ScanKept(scan[u])
  PROVE  TaskInv(u)'
<1> USE DEF LocalsKept, OnlyGrows
<1>1. TaskInv(u)
  BY DEF IInv
<1>2. LockInv(u)'
  BY <1>1 DEF TaskInv, LockInv
<1>3. CASE pc[u] = "idle"
  BY <1>2, <1>3 DEF TaskInv, LimitInv, PageInv, RereadInv, WithMessage, InPageLoop
<1>4. CASE pc[u] # "idle"
  <2> DEFINE s == scan[u]
  <2>1. s \in ScanId /\ scan'[u] = s /\ ScanKept(s)
    BY <1>4, Locals
  <2>2. Left(u)' = Left(u) /\ Remaining(u)' = Remaining(u)
    BY <2>1 DEF Left, Remaining, ScanKept
  <2>3. LimitInv(u)'
    BY <1>1, <2>1, <2>2 DEF TaskInv, LimitInv, ScanKept
  <2>4. PageInv(u)'
    BY <1>1, <2>1, <2>2 DEF TaskInv, PageInv, ScanKept
  <2>5. RereadInv(u)'
    BY <1>1, <2>1, <2>2 DEF TaskInv, RereadInv, ScanKept, OneLimit
  <2> QED BY <1>2, <2>3, <2>4, <2>5 DEF TaskInv
<1> QED BY <1>3, <1>4

(* A scan keeps its invariant through steps that are not of its runs.      *)
LEMMA ScanFrame ==
  ASSUME IInv, NEW s \in ScanId, ScanKept(s), OnlyGrows, newest' \in Nat
  PROVE  ScanInv(s)'
<1>1. ScanInv(s) /\ newest \in Nat
  BY ScanAssumption DEF IInv, TypeOK
<1>2. 1..newest \subseteq 1..newest'
  BY <1>1 DEF OnlyGrows
<1> QED BY <1>1, <1>2 DEF ScanInv, ScanKept, OnlyGrows, Passed, OneLimit

(* A step of task t: it touches no other task and no other scan.           *)
OnlyTask(t) ==
  /\ \A u \in Task \ {t} : LocalsKept(u)
  /\ \A s \in ScanId : s # scan[t] => ScanKept(s)
  /\ OnlyGrows

(* A step of task t keeps the invariant if it does so for t and its scan.  *)
LEMMA OwnStep ==
  ASSUME IInv, TypeOK', NEW t \in Task, pc[t] # "idle", OnlyTask(t),
         TaskInv(t)', NEW s \in ScanId, s = scan[t], ScanInv(s)'
  PROVE  IInv'
<1>1. ASSUME NEW u \in Task PROVE TaskInv(u)'
  <2>1. CASE u # t
    <3>1. pc[u] # "idle" => ScanKept(scan[u])
      BY <2>1, Locals DEF OnlyTask
    <3> QED BY <2>1, <3>1, TaskFrame DEF OnlyTask
  <2> QED BY <2>1
<1>2. ASSUME NEW r \in ScanId PROVE ScanInv(r)'
  <2>1. newest' \in Nat
    BY ScanAssumption DEF TypeOK
  <2> QED BY <2>1, ScanFrame DEF OnlyTask
<1> QED BY <1>1, <1>2 DEF IInv

(* A step of task t that changes no scan.                                  *)
LEMMA QuietStep ==
  ASSUME IInv, TypeOK', NEW t \in Task, pc[t] # "idle",
         UNCHANGED <<rows, rehydrated, catalog, mailbox, owed>>,
         \A u \in Task \ {t} : LocalsKept(u), TaskInv(t)'
  PROVE  IInv'
<1>1. OnlyGrows /\ \A r \in ScanId : ScanKept(r)
  BY ScanAssumption DEF OnlyGrows, ScanKept, rows, mailbox, IInv, TypeOK
<1>2. PICK s \in ScanId : s = scan[t]
  BY Locals
<1>3. ScanInv(s)'
  BY <1>1, ScanFrame, ScanAssumption DEF TypeOK
<1> QED BY <1>1, <1>2, <1>3, OwnStep DEF OnlyTask

(* A task that returns keeps nothing, and gives its lock back.             *)
LEMMA LeaveInv ==
  ASSUME IInv, NEW t \in Task, Leave(t)
  PROVE  TaskInv(t)' /\ \A u \in Task \ {t} : LocalsKept(u)
<1> USE DEF IInv, TypeOK
<1>1. pc'[t] = "idle" /\ scan'[t] = None
  BY DEF Leave, Goto
<1>2. LockInv(t)'
  BY <1>1, ScanAssumption DEF LockInv, Leave
<1>3. LimitInv(t)' /\ PageInv(t)' /\ RereadInv(t)'
  BY <1>1 DEF LimitInv, PageInv, RereadInv, WithMessage, InPageLoop
<1>4. ASSUME NEW u \in Task \ {t} PROVE LocalsKept(u)
  BY ScanAssumption DEF LocalsKept, Leave, Goto
<1> QED BY <1>2, <1>3, <1>4 DEF TaskInv

-----------------------------------------------------------------------------
(* A request that takes the lock of its scan.                              *)
LEMMA RunStep ==
  ASSUME IInv, TypeOK', NEW t \in Task, NEW s \in ScanId, NEW n \in Limits[s], Run(t, s, n)
  PROVE  IInv'
<1> USE DEF At, Goto
<1>1. /\ TypeOK /\ TaskInv(t) /\ ScanInv(s) /\ s # None /\ n \in Nat
      /\ scanLock[s] = None /\ pc[t] = "idle" /\ scan[t] = None
  BY ScanAssumption DEF Run, IInv, TypeOK, TaskInv, LockInv
<1>2. /\ OnlyGrows /\ newest' \in Nat
      /\ \A r \in ScanId : ScanKept(r)
  BY ScanAssumption DEF Run, OnlyGrows, ScanKept, rows, mailbox, IInv, TypeOK
<1>3. ASSUME NEW u \in Task \ {t} PROVE TaskInv(u)'
  <2>1. LocalsKept(u)
    BY <1>1, ScanAssumption DEF Run, LocalsKept, TypeOK
  <2>2. pc[u] # "idle" => ScanKept(scan[u])
    BY <1>2, Locals
  <2> QED BY <1>2, <2>1, <2>2, TaskFrame
<1>4. TaskInv(t)'
  <2>1. pc'[t] = "reread" /\ scan'[t] = s /\ limit'[t] = n
    BY <1>1 DEF Run, TypeOK
  <2>2. LockInv(t)'
    <3>1. \A r \in ScanId : scanLock[r] # t
      BY <1>1, ScanAssumption DEF TaskInv, LockInv
    <3>2. \A r \in ScanId : scanLock'[r] = t <=> r = s
      BY <1>1, <3>1 DEF Run, TypeOK
    <3> QED BY <1>1, <2>1, <3>2 DEF LockInv
  <2>3. LimitInv(t)' /\ PageInv(t)'
    BY <2>1 DEF LimitInv, PageInv, WithMessage, InPageLoop
  <2>4. RereadInv(t)'
    <3> SUFFICES ASSUME s \notin rehydrated, OneLimit(s) PROVE seen[s] \subseteq todo'[t]
      BY <1>2, <2>1 DEF RereadInv, ScanKept, OneLimit, Left, WithMessage
    <3>1. Cardinality(seen[s]) <= n
      <4>1. CASE seen[s] = {}
        BY <1>1, <4>1, MessageSets DEF TypeOK
      <4>2. CASE \E k \in Limits[s] : Cardinality(seen[s]) <= k
        BY <4>2 DEF OneLimit
      <4> QED BY <1>1, <4>1, <4>2 DEF ScanInv
    <3>2. todo'[t] = seen[s]
      BY <1>1, <3>1 DEF Run, FirstSeen, TypeOK
    <3> QED BY <3>2
  <2> QED BY <2>2, <2>3, <2>4 DEF TaskInv
<1>5. ASSUME NEW r \in ScanId PROVE ScanInv(r)'
  BY <1>2, ScanFrame
<1> QED BY <1>3, <1>4, <1>5 DEF IInv

(* The message in hand still counts as left to do (rehydrate).             *)
LEMMA RereadNextStep ==
  ASSUME IInv, TypeOK', NEW t \in Task, RereadNext(t)
  PROVE  IInv'
<1> USE DEF At, Goto
<1>1. TypeOK /\ TaskInv(t) /\ pc[t] = "reread"
  BY DEF RereadNext, IInv
<1>2. pc'[t] = "rereading" /\ scan' = scan /\ limit' = limit /\ seen' = seen /\ scanLock' = scanLock
      /\ rehydrated' = rehydrated /\ catalog' = catalog
  BY <1>1 DEF RereadNext, TypeOK, rows, memory
<1>3. msg'[t] \in todo[t] /\ todo'[t] = todo[t] \ {msg'[t]} /\ msg'[t] \in Message
  BY <1>1 DEF RereadNext, TypeOK
<1>4. Left(t)' = Left(t)
  BY <1>1, <1>2, <1>3 DEF Left, WithMessage
<1>5. TaskInv(t)'
  BY <1>1, <1>2, <1>3, <1>4 DEF TaskInv, LockInv, LimitInv, PageInv, RereadInv, WithMessage, InPageLoop, OneLimit
<1>6. \A u \in Task \ {t} : LocalsKept(u)
  BY <1>1 DEF RereadNext, LocalsKept, memory, TypeOK
<1> QED BY <1>1, <1>5, <1>6, QuietStep DEF RereadNext, memory

(* Reading a message files nothing yet (_read_with_retry).                 *)
LEMMA ReadMessageStep ==
  ASSUME IInv, TypeOK', NEW t \in Task, ReadMessage(t)
  PROVE  IInv'
<1> USE DEF Goto
<1>1. TypeOK /\ TaskInv(t) /\ pc[t] \in {"rereading", "reading"}
  BY DEF ReadMessage, IInv
<1>2. pc'[t] = (IF pc[t] = "reading" THEN "filing" ELSE "refiling")
      /\ UNCHANGED <<scan, limit, cursor, todo, msg, rows, memory, mailbox, owed>>
  BY <1>1 DEF ReadMessage, TypeOK
<1>3. Left(t)' = Left(t) /\ Remaining(t)' = Remaining(t)
  BY <1>1, <1>2 DEF Left, Remaining, WithMessage, rows
<1>4. TaskInv(t)'
  BY <1>1, <1>2, <1>3
     DEF TaskInv, LockInv, LimitInv, PageInv, RereadInv, WithMessage, InPageLoop, OneLimit, rows, memory, mailbox
<1>5. \A u \in Task \ {t} : LocalsKept(u)
  BY <1>1 DEF ReadMessage, LocalsKept, memory, TypeOK
<1> QED BY <1>1, <1>2, <1>4, <1>5, QuietStep DEF memory

(* A message is in the catalog before it counts as done (message_sink).    *)
LEMMA FileMessageStep ==
  ASSUME IInv, TypeOK', NEW t \in Task, FileMessage(t)
  PROVE  IInv'
<1> USE DEF Goto
<1>1. TypeOK /\ TaskInv(t) /\ pc[t] \in {"refiling", "filing"}
  BY DEF FileMessage, IInv
<1>2. pc'[t] = (IF pc[t] = "filing" THEN "mark" ELSE "reread")
      /\ UNCHANGED <<scan, limit, cursor, todo, msg, rows, rehydrated, scanLock, mailbox, owed>>
      /\ catalog' = catalog \cup {msg[t]}
  BY <1>1 DEF FileMessage, TypeOK
<1>3. Remaining(t)' = Remaining(t) /\ Left(t) \subseteq Left(t)' \cup {msg[t]}
      /\ (pc[t] = "filing" => Left(t)' = Left(t))
  BY <1>1, <1>2 DEF Left, Remaining, WithMessage, rows
<1>4. TaskInv(t)'
  <2>1. LockInv(t)' /\ LimitInv(t)'
    BY <1>1, <1>2, <1>3 DEF TaskInv, LockInv, LimitInv, WithMessage, rows
  <2>2. PageInv(t)'
    BY <1>1, <1>2, <1>3 DEF TaskInv, PageInv, InPageLoop, rows, mailbox
  <2>3. RereadInv(t)'
    BY <1>1, <1>2, <1>3 DEF TaskInv, RereadInv, OneLimit, rows
  <2> QED BY <2>1, <2>2, <2>3 DEF TaskInv
<1>5. OnlyTask(t)
  BY <1>1, <1>2, ScanAssumption DEF FileMessage, OnlyTask, OnlyGrows, LocalsKept, ScanKept, rows, mailbox, TypeOK
<1>6. PICK s \in ScanId : s = scan[t]
  BY <1>1, Locals
<1>7. ScanInv(s)'
  <2>1. ScanKept(s) /\ newest' \in Nat
    BY <1>1, <1>2, ScanAssumption DEF ScanKept, rows, mailbox, TypeOK
  <2> QED BY <2>1, <1>5, ScanFrame DEF OnlyTask
<1> QED BY <1>1, <1>4, <1>5, <1>6, <1>7, OwnStep

(* The end of a rehydration: everything seen has been filed.               *)
LEMMA RereadDoneStep ==
  ASSUME IInv, TypeOK', NEW t \in Task, RereadDone(t)
  PROVE  IInv'
<1> USE DEF At, Goto
<1> PICK s \in ScanId : s = scan[t]
  BY Locals DEF RereadDone
<1>1. TypeOK /\ TaskInv(t) /\ pc[t] = "reread" /\ s \in ScanId /\ ScanInv(s) /\ todo[t] = {}
  BY DEF RereadDone, IInv
<1>2. UNCHANGED <<rows, catalog, mailbox, owed>> /\ rehydrated' = rehydrated \cup {s}
  BY DEF RereadDone
<1>3. OneLimit(s) => seen[s] \subseteq catalog
  BY <1>1 DEF TaskInv, RereadInv, ScanInv, Left, WithMessage
<1>4. ScanInv(s)'
  BY <1>1, <1>2, <1>3 DEF ScanInv, Passed, OneLimit, rows, mailbox
<1>5. (\A r \in ScanId : r # s => ScanKept(r)) /\ OnlyGrows
  BY <1>1, <1>2, ScanAssumption DEF ScanKept, OnlyGrows, rows, mailbox, TypeOK
<1>6. TaskInv(t)' /\ \A u \in Task \ {t} : LocalsKept(u)
  <2>1. CASE complete[s]
    BY <2>1, LeaveInv DEF RereadDone
  <2>2. CASE ~complete[s]
    <3>1. /\ pc'[t] = "decide" /\ cursor'[t] = token[s]
          /\ UNCHANGED <<scan, limit, todo, msg, scanLock>>
      BY <1>1, <2>2 DEF RereadDone, TypeOK
    <3>2. TaskInv(t)'
      BY <1>1, <1>2, <2>2, <3>1
         DEF TaskInv, LockInv, LimitInv, PageInv, RereadInv, WithMessage, InPageLoop, rows, mailbox
    <3>3. \A u \in Task \ {t} : LocalsKept(u)
      BY <1>1, <2>2 DEF RereadDone, LocalsKept, TypeOK
    <3> QED BY <3>2, <3>3
  <2> QED BY <2>1, <2>2
<1> QED BY <1>1, <1>4, <1>5, <1>6, OwnStep DEF OnlyTask

(* A ScanFailure changes nothing but the task.                             *)
LEMMA FailStep ==
  ASSUME IInv, TypeOK', NEW t \in Task, ReadGone(t) \/ CallFails(t)
  PROVE  IInv'
<1>1. pc[t] # "idle" /\ Leave(t) /\ UNCHANGED <<rows, rehydrated, catalog, mailbox, owed>>
  BY DEF ReadGone, CallFails
<1> QED BY <1>1, LeaveInv, QuietStep

(* The page loop goes on only while there is room (max_messages).          *)
LEMMA DecideStep ==
  ASSUME IInv, TypeOK', NEW t \in Task, Decide(t)
  PROVE  IInv'
<1> USE DEF At, Goto
<1>1. TypeOK /\ TaskInv(t) /\ pc[t] = "decide" /\ UNCHANGED <<rows, rehydrated, catalog, mailbox, owed>>
  BY DEF Decide, IInv
<1>2. CASE Remaining(t) > 0
  <2>1. pc'[t] = "listing" /\ UNCHANGED <<scan, limit, cursor, todo, msg, scanLock>>
    BY <1>1, <1>2 DEF Decide, TypeOK
  <2>2. Remaining(t)' = Remaining(t)
    BY <1>1, <2>1 DEF Remaining, rows
  <2>3. TaskInv(t)'
    BY <1>1, <1>2, <2>1, <2>2
       DEF TaskInv, LockInv, LimitInv, PageInv, RereadInv, WithMessage, InPageLoop, rows
  <2>4. \A u \in Task \ {t} : LocalsKept(u)
    BY <1>1, <1>2 DEF Decide, LocalsKept, TypeOK
  <2> QED BY <1>1, <2>3, <2>4, QuietStep
<1>3. CASE ~(Remaining(t) > 0)
  <2>1. Leave(t)
    BY <1>3 DEF Decide
  <2> QED BY <1>1, <2>1, LeaveInv, QuietStep
<1> QED BY <1>2, <1>3

(* A page in hand covers what lies between the saved token and its own.    *)
LEMMA ListPageStep ==
  ASSUME IInv, TypeOK', NEW t \in Task, ListPage(t)
  PROVE  IInv'
<1> USE DEF At, Goto
<1> PICK s \in ScanId : s = scan[t]
  BY Locals DEF ListPage
<1> DEFINE c == cursor[t]
<1>1. /\ TypeOK /\ TaskInv(t) /\ ScanInv(s) /\ pc[t] = "listing"
      /\ UNCHANGED <<rows, memory, scan, limit, msg, mailbox>>
  BY DEF ListPage, IInv
<1>2. PICK k \in {0} \cup Below(c) :
        /\ Cardinality(Page(c, k)) <= AskedFor(t)
        /\ todo'   = [todo   EXCEPT ![t] = Page(c, k)]
        /\ cursor' = [cursor EXCEPT ![t] = k]
  BY DEF ListPage
<1>3. /\ pc'[t] = "next" /\ todo'[t] = Page(c, k) /\ cursor'[t] = k
      /\ Left(t)' = Page(c, k) /\ k \in Nat
      /\ s \in rehydrated /\ ~complete[s] /\ c = token[s] /\ c \in Nat
      /\ newest \in Nat
  BY <1>1, <1>2, ScanAssumption
     DEF ListPage, TypeOK, Left, WithMessage, Below, Present, TaskInv, PageInv, InPageLoop
<1>4. Cardinality(Page(c, k)) \in Nat /\ Remaining(t) \in Nat
  <2>1. Page(c, k) \in SUBSET Message /\ seen[s] \in SUBSET Message
    BY <1>1, <1>3, ScanAssumption DEF Page, Below, Present, Message, TypeOK
  <2> QED BY <1>1, <2>1, MessageSets DEF Remaining, TypeOK
<1>5. Remaining(t)' = Remaining(t) /\ Cardinality(Page(c, k)) <= Remaining(t)
  BY <1>1, <1>2, <1>4, ScanAssumption DEF Remaining, AskedFor, rows
<1>6. owed'[s] = (IF c = 0 THEN Present ELSE owed[s]) /\ \A r \in ScanId : r # s => owed'[r] = owed[r]
  BY <1>1 DEF ListPage, TypeOK
<1>7. owed'[s] \subseteq 1..newest
  BY <1>1, <1>6 DEF Present, ScanInv
<1>8. {m \in owed'[s] : m >= k} \subseteq seen[s] \cup deleted \cup Page(c, k)
  <2> SUFFICES ASSUME NEW m \in owed'[s], m >= k, m \notin deleted, m \notin seen[s]
               PROVE  m \in Page(c, k)
    OBVIOUS
  <2>1. m \in Present /\ m \in Nat
    BY <1>7 DEF Present
  <2>2. c = 0 \/ m < c
    BY <1>1, <1>3, <1>6, <2>1 DEF ScanInv, Passed
  <2> QED BY <2>1, <2>2 DEF Page, Below
<1>9. TaskInv(t)'
  <2>1. LockInv(t)' /\ RereadInv(t)'
    BY <1>1, <1>3 DEF TaskInv, LockInv, RereadInv, memory
  <2>2. LimitInv(t)'
    BY <1>1, <1>3, <1>5 DEF TaskInv, LimitInv, WithMessage
  <2>3. PageInv(t)'
    BY <1>1, <1>3, <1>8 DEF PageInv, InPageLoop, rows, memory, mailbox
  <2> QED BY <2>1, <2>2, <2>3 DEF TaskInv
<1>10. ScanInv(s)'
  <2>1. Passed(s)' \subseteq seen[s] \cup deleted
    BY <1>1, <1>3, <1>6 DEF ScanInv, Passed, rows
  <2> QED BY <1>1, <1>7, <2>1 DEF ScanInv, OneLimit, rows, memory, mailbox
<1>11. OnlyTask(t)
  <2>1. \A u \in Task \ {t} : LocalsKept(u)
    BY <1>1, <1>2 DEF ListPage, LocalsKept, memory, TypeOK
  <2> QED BY <1>1, <1>6, <2>1, ScanAssumption DEF OnlyTask, OnlyGrows, ScanKept, rows, memory, mailbox, TypeOK
<1> QED BY <1>1, <1>9, <1>10, <1>11, OwnStep

(* The next reference of the page is passed over or taken in hand.         *)
LEMMA NextReferenceStep ==
  ASSUME IInv, TypeOK', NEW t \in Task, NextReference(t)
  PROVE  IInv'
<1> USE DEF At, Goto
<1> PICK s \in ScanId : s = scan[t]
  BY Locals DEF NextReference
<1>1. /\ TypeOK /\ TaskInv(t) /\ pc[t] = "next"
      /\ UNCHANGED <<rows, memory, scan, limit, cursor, mailbox, owed>>
  BY DEF NextReference, IInv
<1>2. PICK m \in todo[t] :
        /\ todo' = [todo EXCEPT ![t] = @ \ {m}]
        /\ IF m \in seen[s]
           THEN UNCHANGED <<pc, msg>>
           ELSE msg' = [msg EXCEPT ![t] = m] /\ Goto(t, "reading")
  BY DEF NextReference
<1>3. /\ todo'[t] = todo[t] \ {m} /\ m \in Message /\ Left(t) = todo[t]
      /\ Remaining(t)' = Remaining(t)
  BY <1>1, <1>2 DEF TypeOK, Left, WithMessage, Remaining, rows
<1>4. Cardinality(todo[t]) \in Nat /\ Cardinality(todo[t] \ {m}) \in Nat
      /\ Cardinality(todo[t] \ {m}) <= Cardinality(todo[t]) /\ Remaining(t) \in Nat
  <2>1. todo[t] \in SUBSET Message /\ todo[t] \ {m} \in SUBSET Message /\ seen[s] \in SUBSET Message
    BY <1>1 DEF TypeOK
  <2> QED BY <1>1, <2>1, MessageSets DEF Remaining, TypeOK
<1>5. TaskInv(t)'
  <2>1. CASE m \in seen[s]
    <3>1. pc'[t] = "next" /\ msg'[t] = msg[t] /\ Left(t)' = todo[t] \ {m}
      BY <1>1, <1>2, <1>3, <2>1 DEF Left, WithMessage
    <3>2. LockInv(t)' /\ RereadInv(t)'
      BY <1>1, <3>1 DEF TaskInv, LockInv, RereadInv, memory
    <3>3. LimitInv(t)'
      BY <1>1, <1>3, <1>4, <3>1 DEF TaskInv, LimitInv, WithMessage
    <3>4. PageInv(t)'
      BY <1>1, <1>3, <2>1, <3>1 DEF TaskInv, PageInv, InPageLoop, rows, memory, mailbox
    <3> QED BY <3>2, <3>3, <3>4 DEF TaskInv
  <2>2. CASE m \notin seen[s]
    <3>1. pc'[t] = "reading" /\ msg'[t] = m /\ Left(t)' = todo[t]
      BY <1>1, <1>2, <1>3, <2>2 DEF TypeOK, Left, WithMessage
    <3>2. LockInv(t)' /\ RereadInv(t)'
      BY <1>1, <3>1 DEF TaskInv, LockInv, RereadInv, memory
    <3>3. LimitInv(t)'
      BY <1>1, <1>3, <2>2, <3>1 DEF TaskInv, LimitInv, WithMessage, rows
    <3>4. PageInv(t)'
      BY <1>1, <1>3, <3>1 DEF TaskInv, PageInv, InPageLoop, rows, memory, mailbox
    <3> QED BY <3>2, <3>3, <3>4 DEF TaskInv
  <2> QED BY <2>1, <2>2
<1>6. \A u \in Task \ {t} : LocalsKept(u)
  BY <1>1, <1>2 DEF LocalsKept, memory, TypeOK
<1> QED BY <1>1, <1>5, <1>6, QuietStep DEF memory

(* A page is done when nothing of it is left.                              *)
LEMMA PageDoneStep ==
  ASSUME IInv, TypeOK', NEW t \in Task, PageDone(t)
  PROVE  IInv'
<1> USE DEF At, Goto
<1>1. /\ TypeOK /\ TaskInv(t) /\ pc[t] = "next" /\ todo[t] = {}
      /\ UNCHANGED <<rows, memory, scan, limit, cursor, todo, msg, mailbox, owed>>
  BY DEF PageDone, IInv
<1>2. pc'[t] = "checkpoint" /\ Left(t) = {}
  BY <1>1 DEF PageDone, Left, WithMessage, TypeOK
<1>3. TaskInv(t)'
  BY <1>1, <1>2
     DEF TaskInv, LockInv, LimitInv, PageInv, RereadInv, WithMessage, InPageLoop, rows, memory, mailbox
<1>4. \A u \in Task \ {t} : LocalsKept(u)
  BY <1>1 DEF PageDone, LocalsKept, memory, TypeOK
<1> QED BY <1>1, <1>3, <1>4, QuietStep DEF memory

(* One message more: at the limit nothing of the page is left over.        *)
LEMMA MarkSeenStep ==
  ASSUME IInv, TypeOK', NEW t \in Task, MarkSeen(t)
  PROVE  IInv'
<1> USE DEF At, Goto
<1> PICK s \in ScanId : s = scan[t]
  BY Locals DEF MarkSeen
<1> DEFINE m == msg[t]
<1>1. /\ TypeOK /\ TaskInv(t) /\ ScanInv(s) /\ pc[t] = "mark"
      /\ UNCHANGED <<token, complete, memory, scan, limit, cursor, todo, msg, mailbox, owed>>
  BY DEF MarkSeen, IInv
<1>2. /\ m \in Message /\ m \notin seen[s] \cup todo[t] /\ m \in catalog
      /\ s \in rehydrated /\ ~complete[s]
      /\ limit[t] \in Limits[s] /\ limit[t] \in Nat
      /\ Left(t) = todo[t] \cup {m}
  BY <1>1, Locals DEF TaskInv, LimitInv, PageInv, WithMessage, InPageLoop, Left
<1>3. /\ seen'[s] = seen[s] \cup {m}
      /\ \A r \in ScanId : r # s => seen'[r] = seen[r]
  BY <1>1 DEF MarkSeen, TypeOK
<1>4. /\ Cardinality(seen[s]) \in Nat /\ Cardinality(seen'[s]) = Cardinality(seen[s]) + 1
      /\ Cardinality(todo[t]) \in Nat /\ Cardinality(Left(t)) = Cardinality(todo[t]) + 1
      /\ Cardinality(todo[t]) = 0 => todo[t] = {}
  <2>1. seen[s] \in SUBSET Message /\ todo[t] \in SUBSET Message
    BY <1>1 DEF TypeOK
  <2> QED BY <1>2, <1>3, <2>1, MessageSets
<1>5. /\ Remaining(t) = limit[t] - Cardinality(seen[s]) /\ Cardinality(seen[s]) < limit[t]
      /\ Cardinality(Left(t)) <= Remaining(t)
  BY <1>1, <1>2, <1>4 DEF TaskInv, LimitInv, Remaining
<1>6. Remaining(t)' = limit[t] - Cardinality(seen'[s])
  BY <1>1, <1>2, <1>4, <1>5 DEF Remaining
<1>7. Cardinality(todo[t]) <= Remaining(t)' /\ Remaining(t)' \in Nat
  BY <1>2, <1>4, <1>5, <1>6
<1>8. pc'[t] = (IF Remaining(t)' = 0 THEN "checkpoint" ELSE "next")
  BY <1>1 DEF MarkSeen, TypeOK
<1>9. {i \in owed[s] : i >= cursor[t]} \subseteq seen'[s] \cup deleted \cup todo[t]
  BY <1>1, <1>2, <1>3 DEF TaskInv, PageInv, InPageLoop
<1>10. TaskInv(t)'
  <2>1. LockInv(t)' /\ RereadInv(t)'
    BY <1>1, <1>8 DEF TaskInv, LockInv, RereadInv, memory
  <2>2. CASE Remaining(t)' = 0
    <3>1. todo[t] = {}
      BY <1>4, <1>7, <2>2
    <3>2. LimitInv(t)'
      BY <1>1, <1>2, <1>8, <2>2 DEF LimitInv, WithMessage
    <3>3. PageInv(t)'
      BY <1>1, <1>2, <1>8, <1>9, <2>2, <3>1 DEF PageInv, InPageLoop, memory, mailbox
    <3> QED BY <2>1, <3>2, <3>3 DEF TaskInv
  <2>3. CASE Remaining(t)' # 0
    <3>1. pc'[t] = "next" /\ Left(t)' = todo[t]
      BY <1>1, <1>8, <2>3 DEF Left, WithMessage
    <3>2. LimitInv(t)'
      BY <1>1, <1>2, <1>7, <2>3, <3>1 DEF LimitInv, WithMessage
    <3>3. PageInv(t)'
      BY <1>1, <1>2, <1>9, <3>1 DEF PageInv, InPageLoop, memory, mailbox
    <3> QED BY <2>1, <3>2, <3>3 DEF TaskInv
  <2> QED BY <2>2, <2>3
<1>11. ScanInv(s)'
  <2>1. Cardinality(seen'[s]) <= limit[t]
    BY <1>2, <1>4, <1>5
  <2>2. Passed(s)' \subseteq seen'[s] \cup deleted
    BY <1>1, <1>3 DEF ScanInv, Passed
  <2> QED BY <1>1, <1>2, <1>3, <2>1, <2>2 DEF ScanInv, OneLimit, memory, mailbox
<1>12. OnlyTask(t)
  <2>1. \A u \in Task \ {t} : LocalsKept(u)
    BY <1>1 DEF MarkSeen, LocalsKept, memory, TypeOK
  <2> QED BY <1>1, <1>3, <2>1, ScanAssumption DEF OnlyTask, OnlyGrows, ScanKept, memory, mailbox, TypeOK
<1> QED BY <1>1, <1>10, <1>11, <1>12, OwnStep

(* The saved token moves to the end of a page that has been dealt with.    *)
LEMMA CheckpointStep ==
  ASSUME IInv, TypeOK', NEW t \in Task, Checkpoint(t)
  PROVE  IInv'
<1> USE DEF At, Goto
<1> PICK s \in ScanId : s = scan[t]
  BY Locals DEF Checkpoint
<1>1. /\ TypeOK /\ TaskInv(t) /\ ScanInv(s) /\ pc[t] = "checkpoint"
      /\ UNCHANGED <<seen, complete, memory, scan, limit, cursor, todo, msg, mailbox, owed>>
  BY DEF Checkpoint, IInv
<1>2. /\ token'[s] = cursor[t] /\ \A r \in ScanId : r # s => token'[r] = token[r]
      /\ pc'[t] = (IF cursor[t] = 0 THEN "complete" ELSE "decide")
  BY <1>1 DEF Checkpoint, TypeOK
<1>3. /\ {m \in owed[s] : m >= cursor[t]} \subseteq seen[s] \cup deleted
      /\ s \in rehydrated /\ ~complete[s]
  BY <1>1 DEF TaskInv, PageInv, InPageLoop
<1>4. TaskInv(t)'
  <2>1. LockInv(t)' /\ RereadInv(t)' /\ LimitInv(t)'
    BY <1>1, <1>2 DEF TaskInv, LockInv, RereadInv, LimitInv, WithMessage, memory
  <2>2. PageInv(t)'
    BY <1>1, <1>2, <1>3 DEF PageInv, InPageLoop, memory, mailbox
  <2> QED BY <2>1, <2>2 DEF TaskInv
<1>5. ScanInv(s)'
  BY <1>1, <1>2, <1>3 DEF ScanInv, Passed, OneLimit, memory, mailbox
<1>6. OnlyTask(t)
  <2>1. \A u \in Task \ {t} : LocalsKept(u)
    BY <1>1 DEF Checkpoint, LocalsKept, memory, TypeOK
  <2> QED BY <1>1, <1>2, <2>1, ScanAssumption DEF OnlyTask, OnlyGrows, ScanKept, memory, mailbox, TypeOK
<1> QED BY <1>1, <1>4, <1>5, <1>6, OwnStep

(* After the last page everything listed has been passed.                  *)
LEMMA CompleteStep ==
  ASSUME IInv, TypeOK', NEW t \in Task, Complete(t)
  PROVE  IInv'
<1> USE DEF At
<1> PICK s \in ScanId : s = scan[t]
  BY Locals DEF Complete
<1>1. /\ TypeOK /\ TaskInv(t) /\ ScanInv(s) /\ pc[t] = "complete" /\ Leave(t)
      /\ UNCHANGED <<seen, token, rehydrated, catalog, mailbox, owed>>
      /\ complete' = [complete EXCEPT ![s] = TRUE]
  BY DEF Complete, IInv
<1>2. owed[s] \subseteq seen[s] \cup deleted
  <2>1. cursor[t] = 0 /\ {m \in owed[s] : m >= cursor[t]} \subseteq seen[s] \cup deleted
    BY <1>1 DEF TaskInv, PageInv, InPageLoop
  <2>2. \A m \in owed[s] : m >= 0
    BY <1>1 DEF ScanInv
  <2> QED BY <2>1, <2>2
<1>3. ScanInv(s)'
  BY <1>1, <1>2 DEF ScanInv, Passed, OneLimit, mailbox, TypeOK
<1>4. OnlyTask(t)
  <2>1. \A u \in Task \ {t} : LocalsKept(u)
    BY <1>1, LeaveInv
  <2> QED BY <1>1, <2>1, ScanAssumption DEF OnlyTask, OnlyGrows, ScanKept, mailbox, TypeOK
<1> QED BY <1>1, <1>3, <1>4, LeaveInv, OwnStep

-----------------------------------------------------------------------------
(* Mail that arrives or is deleted, and a stuttering step.                 *)
LEMMA MailboxStep ==
  ASSUME IInv, TypeOK', Arrive \/ (\E m \in Message : Delete(m)) \/ UNCHANGED vars
  PROVE  IInv'
<1>1. /\ OnlyGrows /\ newest' \in Nat
      /\ \A r \in ScanId : ScanKept(r)
      /\ \A u \in Task : LocalsKept(u)
  <2>1. OnlyGrows /\ newest' \in Nat
    BY ScanAssumption
       DEF Arrive, Delete, OnlyGrows, rows, memory, locals, mailbox, vars, IInv, TypeOK
  <2>2. UNCHANGED <<rows, memory, locals, owed>>
    BY DEF Arrive, Delete, vars
  <2>3. \A r \in ScanId : ScanKept(r)
    BY <2>2 DEF ScanKept, rows, memory
  <2>4. \A u \in Task : LocalsKept(u)
    BY <2>2 DEF LocalsKept, memory, locals
  <2> QED BY <2>1, <2>3, <2>4
<1>2. ASSUME NEW u \in Task PROVE TaskInv(u)'
  <2>1. pc[u] # "idle" => ScanKept(scan[u])
    BY <1>1, Locals
  <2> QED BY <1>1, <2>1, TaskFrame
<1>3. ASSUME NEW r \in ScanId PROVE ScanInv(r)'
  BY <1>1, ScanFrame
<1> QED BY <1>2, <1>3 DEF IInv

(* A restart: every task is gone, every lock free.                         *)
LEMMA CrashStep ==
  ASSUME IInv, TypeOK', Crash
  PROVE  IInv'
<1>1. ASSUME NEW u \in Task PROVE TaskInv(u)'
  BY ScanAssumption
     DEF Crash, TaskInv, LockInv, LimitInv, PageInv, RereadInv, WithMessage, InPageLoop
<1>2. ASSUME NEW r \in ScanId PROVE ScanInv(r)'
  BY DEF Crash, IInv, ScanInv, Passed, rows, mailbox
<1> QED BY <1>1, <1>2 DEF IInv

(* A fresh database satisfies the invariant.                               *)
LEMMA IInvInit == Init => IInv
<1> SUFFICES ASSUME Init PROVE IInv
  OBVIOUS
<1>1. TypeOK
  BY ScanAssumption DEF Init, TypeOK, PC
<1>2. ASSUME NEW t \in Task PROVE TaskInv(t)
  BY ScanAssumption
     DEF Init, TaskInv, LockInv, LimitInv, PageInv, RereadInv, WithMessage, InPageLoop
<1>3. ASSUME NEW s \in ScanId PROVE ScanInv(s)
  BY DEF Init, ScanInv, Passed
<1> QED BY <1>1, <1>2, <1>3 DEF IInv

(* Every step preserves the invariant.                                     *)
LEMMA IInvStep == IInv /\ [Next]_vars => IInv'
<1> SUFFICES ASSUME IInv, [Next]_vars PROVE IInv'
  OBVIOUS
<1>1. TypeOK'
  BY TypeStep
<1>2. CASE UNCHANGED vars
  BY <1>1, <1>2, MailboxStep
<1>3. ASSUME NEW t \in Task, Request(t) PROVE IInv'
  BY <1>1, <1>3, RunStep DEF Request
<1>4. ASSUME NEW t \in Task, TaskStep(t) PROVE IInv'
  BY <1>1, <1>4, RereadNextStep, RereadDoneStep, ReadMessageStep, FileMessageStep, FailStep,
     DecideStep, ListPageStep, NextReferenceStep, PageDoneStep, MarkSeenStep, CheckpointStep,
     CompleteStep
     DEF TaskStep
<1>5. ASSUME NEW t \in Task, CallFails(t) PROVE IInv'
  BY <1>1, <1>5, FailStep
<1>6. CASE Arrive \/ \E m \in Message : Delete(m)
  BY <1>1, <1>6, MailboxStep
<1>7. CASE Crash
  BY <1>1, <1>7, CrashStep
<1> QED BY <1>2, <1>3, <1>4, <1>5, <1>6, <1>7 DEF Next

-----------------------------------------------------------------------------
(* The invariant holds in every reachable state.                           *)
THEOREM ScanInvariance == Spec => []IInv
BY IInvInit, IInvStep, PTL DEF Spec

(* The checkpoints, locks and locals of scans keep their types.            *)
THEOREM ScanTypeCorrect == Spec => []TypeOK
<1>1. IInv => TypeOK
  BY DEF IInv
<1> QED BY <1>1, ScanInvariance, PTL

(* No scan ever sees more messages than its largest limit, over all its    *)
(* runs and restarts (the count in ScanService._run_locked).               *)
THEOREM ScanLimit == Spec => []LimitIsKept
<1>1. IInv => LimitIsKept
  BY DEF IInv, ScanInv, LimitIsKept
<1> QED BY <1>1, ScanInvariance, PTL

(* A saved page token never passes a message that was not read (the order  *)
(* of mark_seen and checkpoint_page).                                      *)
THEOREM ScanComplete == Spec => []NothingSkipped
<1>1. IInv => NothingSkipped
  BY DEF IInv, ScanInv, NothingSkipped
<1> QED BY <1>1, ScanInvariance, PTL

(* What the database says was read can be reviewed after any restart       *)
(* (ScanService.rehydrate before anything else).                           *)
THEOREM ScanReviewable == Spec => []SeenIsReviewable
<1>1. IInv => SeenIsReviewable
  BY DEF IInv, ScanInv, SeenIsReviewable, TypeOK
<1> QED BY <1>1, ScanInvariance, PTL

(* A scan forgets nothing and marks one message at a time, after it was    *)
(* filed, so that a crash in between costs a second reading and no message; *)
(* and a complete scan reads no more, however often it is run              *)
(* (ScanService.run: the early return, the order of process and mark_seen). *)
THEOREM SeenIsFiledAndFinal ==
  Spec => [][\A s \in ScanId :
               /\ seen[s] \subseteq seen'[s]
               /\ complete[s] => complete'[s] /\ seen'[s] = seen[s] /\ token'[s] = token[s]
               /\ \A m \in seen'[s] \ seen[s] :
                    m \in catalog /\ s \in rehydrated /\ seen'[s] = seen[s] \cup {m}]_vars
<1> DEFINE Kept(s) ==
             /\ seen[s] \subseteq seen'[s]
             /\ complete[s] => complete'[s] /\ seen'[s] = seen[s] /\ token'[s] = token[s]
             /\ \A m \in seen'[s] \ seen[s] :
                  m \in catalog /\ s \in rehydrated /\ seen'[s] = seen[s] \cup {m}
           A == \A s \in ScanId : Kept(s)
<1>1. IInv /\ [Next]_vars => [A]_vars
  <2> SUFFICES ASSUME IInv, Next, NEW s \in ScanId
               PROVE  Kept(s)
    OBVIOUS
  <2>0. TypeOK
    BY DEF IInv
  <2>1. CASE UNCHANGED rows
    BY <2>1 DEF rows
  <2>2. ASSUME NEW t \in Task, MarkSeen(t)
        PROVE  Kept(s)
    <3>1. pc[t] = "mark" /\ PageInv(t)
      BY <2>2 DEF MarkSeen, At, IInv, TaskInv
    <3>2. ~complete[scan[t]] /\ scan[t] \in rehydrated /\ msg[t] \in catalog
      BY <3>1 DEF PageInv, InPageLoop
    <3>3. seen' = [seen EXCEPT ![scan[t]] = @ \cup {msg[t]}] /\ complete' = complete /\ token' = token
      BY <2>2 DEF MarkSeen
    <3>4. CASE s = scan[t]
      BY <2>0, <3>2, <3>3, <3>4 DEF TypeOK
    <3>5. CASE s # scan[t]
      BY <2>0, <3>3, <3>5 DEF TypeOK
    <3> QED BY <3>4, <3>5
  <2>3. ASSUME NEW t \in Task, Checkpoint(t) \/ Complete(t)
        PROVE  Kept(s)
    <3>1. pc[t] \in {"checkpoint", "complete"} /\ PageInv(t)
      BY <2>3 DEF Checkpoint, Complete, At, IInv, TaskInv
    <3>2. ~complete[scan[t]]
      BY <3>1 DEF PageInv, InPageLoop
    <3>3. /\ seen' = seen
          /\ complete' = complete \/ complete' = [complete EXCEPT ![scan[t]] = TRUE]
          /\ token' = token \/ token' = [token EXCEPT ![scan[t]] = cursor[t]]
      BY <2>3 DEF Checkpoint, Complete
    <3> QED BY <2>0, <3>2, <3>3 DEF TypeOK
  <2> QED BY <2>1, <2>2, <2>3
          DEF Next, Request, TaskStep, Run, RereadNext, RereadDone, ReadMessage, FileMessage,
              ReadGone, CallFails, Decide, ListPage, NextReference, PageDone, Arrive, Delete, Crash,
              rows
<1>2. Spec => [][A]_vars
  BY <1>1, ScanInvariance, PTL DEF Spec
<1> QED BY <1>2

=============================================================================
