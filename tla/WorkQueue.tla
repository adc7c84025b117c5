----------------------------- MODULE WorkQueue -----------------------------
(***************************************************************************)
(* A work queue (components/drivers/ipc/workqueue.c), the completion that  *)
(* wakes its thread (completion_up.c) and the semaphore on which           *)
(* rt_workqueue_cancel_work_sync waits.                                    *)
(*                                                                         *)
(* Each action is what runs between two places where interrupts are        *)
(* enabled.  Work is submitted and cancelled by threads, by interrupts and *)
(* by the work functions themselves.  Priorities are left out: any thread  *)
(* may run at any time, which includes every schedule of the kernel.       *)
(* work->flags and work->workqueue are left out: nothing reads them.       *)
(*                                                                         *)
(* A definition X_Fault, before X, is X with a fault that the properties   *)
(* are meant to detect; no other definition uses it.                       *)
(***************************************************************************)
EXTENDS Clock, SequencesExt

CONSTANTS
  Works,
  NoWork,
  Stray,     \* an address where there is no item
  LowCleared,\* what is at an item's address with its lower half cleared
  Clients,   \* the threads in rt_workqueue_cancel_work_sync, _cancel_all_work
             \* and _destroy
  Delays,    \* the delays that programs ask for
  MaxCalls   \* the calls made in one behaviour

Forever == -1  \* RT_WAITING_FOREVER

ASSUME WorkQueueAssumption ==
  /\ NoWork \notin Works /\ Stray \notin Works \cup {NoWork}
  /\ LowCleared \in [Works -> Works \cup {Stray}]
  /\ MaxCalls \in Nat
  \* "The max timeout tick should be no more than (RT_TICK_MAX/2 - 1)"
  \* 0 ticks is DoWork
  /\ Comparable(Delays) /\ 0 \notin Delays

VARIABLES
  workList,  \* queue->work_list
  delayed,   \* queue->delayed_list
  due,       \* work->timeout_tick; 0 while the item is not in delayed
  current,   \* queue->work_current
  running,   \* the thread's own pointer to the item that it executes
  comp,      \* queue->wakeup_completion: "none", "waiting" or "completed"
  value,     \* queue->sem.value
  waiters,   \* the clients suspended on queue->sem
  wpc,       \* where the thread of the queue stands
  delay,     \* delay_tick, then what is left of its timer
  cpc,       \* where a client stands
  carg,      \* the item its call is about; Stray is the head of a list
  saw,       \* the clients that found their item executing, until that
             \* execution ends; not in the code
  lag,       \* ticks between the computation of delay_tick and the start of
             \* the timer; not in the code
  calls,     \* the calls made so far
  life       \* "open", "closing" (in rt_workqueue_destroy) or "closed"

lists == <<workList, delayed, due>>
semVars == <<value, waiters>>
execVars == <<current, running>>
workerVars == <<wpc, delay, lag>>
clientVars == <<cpc, carg, saw>>
vars == <<lists, execVars, comp, semVars, workerVars, clientVars, tick, calls,
          life>>

Pending == ToSet(workList) \cup ToSet(delayed)

-----------------------------------------------------------------------------
(* The lists                                                               *)

\* rt_list_remove: w leaves whichever list it is on.
Unlinked(q, w) == RemoveFirst(q, w)

TakeOff(w) ==
  /\ workList' = Unlinked(workList, w)
  /\ delayed' = Unlinked(delayed, w)
  /\ due' = [due EXCEPT ![w] = 0]

\* w, due at d, goes ahead of the first item that is not due earlier.
InsertedByDue(q, w, d) ==
  LET after == {i \in DOMAIN q : Minus(due[q[i]], d) < Half}
  IN  InsertAt(q, IF after = {} THEN Len(q) + 1 ELSE Min(after), w)

IsDue_NoWrap(w) == due[w] <= tick
IsDue(w) == Minus(tick, due[w]) < Half

\* How many items at the head of the delayed list are due.
DueCount ==
  LET rest == {i \in DOMAIN delayed : ~IsDue(delayed[i])}
  IN  IF rest = {} THEN Len(delayed) ELSE Min(rest) - 1

-----------------------------------------------------------------------------
(* The completion                                                          *)

\* rt_completion_done: it wakes the thread of the queue or is remembered;
\* already completed, or a thread whose timer went off first, changes little.
CompletionDone_Forgotten ==
  /\ comp' = IF comp = "waiting" THEN "completed" ELSE comp
  /\ wpc' = IF comp = "waiting" /\ wpc = "asleep" THEN "woken" ELSE wpc
CompletionDone ==
  /\ comp' = "completed"
  /\ wpc' = IF comp = "waiting" /\ wpc = "asleep" THEN "woken" ELSE wpc

-----------------------------------------------------------------------------
(* Calls from anywhere                                                     *)

\* While rt_workqueue_destroy runs nobody else may use the queue.
Call == life = "open" /\ calls < MaxCalls /\ calls' = calls + 1

\* rt_workqueue_dowork, and rt_workqueue_submit_work with 0 ticks.
DoWork(w) ==
  /\ Call
  /\ workList' = Append(Unlinked(workList, w), w)
  /\ delayed' = Unlinked(delayed, w)
  /\ due' = [due EXCEPT ![w] = 0]
  /\ CompletionDone
  /\ UNCHANGED <<execVars, semVars, delay, lag, clientVars, tick, life>>

\* rt_workqueue_submit_work, rt_work_submit
SubmitDelayed(w, n) ==
  LET d == (tick + n) % (TickMax + 1)
  IN  /\ Call
      /\ workList' = Unlinked(workList, w)
      /\ delayed' = InsertedByDue(Unlinked(delayed, w), w, d)
      /\ due' = [due EXCEPT ![w] = d]
      /\ CompletionDone
      /\ UNCHANGED <<execVars, semVars, delay, lag, clientVars, tick, life>>

\* rt_workqueue_urgent_work, rt_work_urgent
UrgentWork_Silent(w) ==
  /\ Call
  /\ workList' = <<w>> \o Unlinked(workList, w)
  /\ delayed' = Unlinked(delayed, w)
  /\ due' = [due EXCEPT ![w] = 0]
  /\ UNCHANGED <<execVars, comp, semVars, workerVars, clientVars, tick, life>>
UrgentWork(w) ==
  /\ Call
  /\ workList' = <<w>> \o Unlinked(workList, w)
  /\ delayed' = Unlinked(delayed, w)
  /\ due' = [due EXCEPT ![w] = 0]
  /\ CompletionDone
  /\ UNCHANGED <<execVars, semVars, delay, lag, clientVars, tick, life>>

\* rt_workqueue_cancel_work, rt_work_cancel; it returns -RT_EBUSY if w is
\* being executed, and takes it off the lists all the same.
CancelWork(w) ==
  /\ Call
  /\ TakeOff(w)
  /\ UNCHANGED <<execVars, comp, semVars, workerVars, clientVars, tick, life>>

-----------------------------------------------------------------------------
(* Calls from threads.  rt_workqueue_cancel_all_work locks the scheduler:  *)
(* meanwhile only interrupts run.                                          *)

InCancelAll(c) == cpc[c] \in {"work", "workFirst", "delayed", "delayedFirst"}
SchedulerFree == \A c \in Clients : ~InCancelAll(c)

\* rt_workqueue_cancel_work_sync looks at work_current with no lock held.
SyncLook(c, w) ==
  /\ cpc[c] = "idle"
  /\ SchedulerFree
  /\ Call
  /\ cpc' = [cpc EXCEPT ![c] = IF current = w THEN "take" ELSE "cancel"]
  /\ carg' = [carg EXCEPT ![c] = w]
  /\ saw' = IF current = w THEN saw \cup {c} ELSE saw
  /\ UNCHANGED <<lists, execVars, comp, semVars, workerVars, tick, life>>

Return(c) ==
  /\ cpc' = [cpc EXCEPT ![c] = "idle"]
  /\ carg' = [carg EXCEPT ![c] = NoWork]

\* rt_sem_take(&queue->sem, RT_WAITING_FOREVER)
SyncTake(c) ==
  /\ cpc[c] = "take"
  /\ SchedulerFree
  /\ IF value > 0
       THEN value' = value - 1 /\ Return(c) /\ UNCHANGED waiters
       ELSE /\ waiters' = Append(waiters, c)
            /\ cpc' = [cpc EXCEPT ![c] = "blocked"]
            /\ UNCHANGED <<value, carg>>
  /\ UNCHANGED <<lists, execVars, comp, workerVars, saw, tick, calls, life>>

SyncCancel(c) ==
  /\ cpc[c] = "cancel"
  /\ SchedulerFree
  /\ TakeOff(carg[c])
  /\ Return(c)
  /\ UNCHANGED <<execVars, comp, semVars, workerVars, saw, tick, calls, life>>

\* rt_workqueue_cancel_all_work; destroy says that rt_workqueue_destroy
\* calls it, when no other call but a wait in cancel_work_sync is under way.
CancelAll(c, destroy) ==
  /\ cpc[c] = "idle"
  /\ SchedulerFree
  /\ Call
  /\ destroy => \A b \in Clients : cpc[b] \in {"idle", "blocked"}
  /\ life' = IF destroy THEN "closing" ELSE life
  /\ cpc' = [cpc EXCEPT ![c] = "work"]
  /\ UNCHANGED <<lists, execVars, comp, semVars, workerVars, carg, saw, tick>>

\* rt_list_isempty, with interrupts enabled: the loop over a list goes on or
\* ends.
CancelAllTest(c) ==
  /\ cpc[c] \in {"work", "delayed"}
  /\ carg[c] = NoWork
  /\ cpc' = [cpc EXCEPT ![c] =
       IF cpc[c] = "work"
         THEN IF workList # <<>> THEN "workFirst" ELSE "delayed"
         ELSE IF delayed # <<>>  THEN "delayedFirst"
         ELSE IF life = "closing" THEN "delete" ELSE "idle"]
  /\ UNCHANGED <<lists, execVars, comp, semVars, workerVars, carg, saw, tick,
                 calls, life>>

\* rt_list_first_entry of a list that may have become empty: its next item is
\* then the list itself.
CancelAllFirst(c) ==
  /\ cpc[c] \in {"workFirst", "delayedFirst"}
  /\ LET q == IF cpc[c] = "workFirst" THEN workList ELSE delayed
     IN  carg' = [carg EXCEPT ![c] = IF q = <<>> THEN Stray ELSE Head(q)]
  /\ cpc' = [cpc EXCEPT ![c] = IF cpc[c] = "workFirst" THEN "work" ELSE "delayed"]
  /\ UNCHANGED <<lists, execVars, comp, semVars, workerVars, saw, tick, calls,
                 life>>

CancelAllRemove(c) ==
  /\ cpc[c] \in {"work", "delayed"}
  /\ carg[c] \in Works
  /\ TakeOff(carg[c])
  /\ carg' = [carg EXCEPT ![c] = NoWork]
  /\ UNCHANGED <<execVars, comp, semVars, workerVars, cpc, saw, tick, calls,
                 life>>

\* _workqueue_cancel_work of a list's head: what was put on the list since is
\* left on a ring without a head, and the queue is written to as if it were an
\* item.  work->flags of the work list is the lower half of work_current; the
\* other bytes belong to the name of queue->sem.
CancelAllHead(c) ==
  /\ cpc[c] \in {"work", "delayed"}
  /\ carg[c] = Stray
  /\ IF cpc[c] = "work"
       THEN /\ workList' = <<>>
            /\ current' = IF current \in Works THEN LowCleared[current] ELSE current
            /\ UNCHANGED <<delayed, due>>
       ELSE /\ delayed' = <<>>
            /\ due' = [w \in Works |-> 0]
            /\ UNCHANGED <<workList, current>>
  /\ carg' = [carg EXCEPT ![c] = NoWork]
  /\ UNCHANGED <<running, comp, semVars, workerVars, cpc, saw, tick, calls, life>>

\* The rest of rt_workqueue_destroy: rt_thread_delete ...
DeleteThread(c) ==
  /\ cpc[c] = "delete"
  /\ cpc' = [cpc EXCEPT ![c] = "detach"]
  /\ wpc' = "gone"
  /\ delay' = 0 /\ lag' = 0
  /\ current' = NoWork /\ running' = NoWork
  /\ saw' = {}
  /\ UNCHANGED <<lists, comp, semVars, carg, tick, calls, life>>

\* ... and rt_sem_detach, which wakes every client that waits.
DetachSem(c) ==
  /\ cpc[c] = "detach"
  /\ cpc' = [b \in Clients |-> IF cpc[b] = "blocked" \/ b = c THEN "idle"
                                                             ELSE cpc[b]]
  /\ carg' = [b \in Clients |-> IF cpc[b] = "blocked" THEN NoWork ELSE carg[b]]
  /\ waiters' = <<>>
  /\ life' = "closed"
  /\ UNCHANGED <<lists, execVars, comp, value, workerVars, saw, tick, calls>>

-----------------------------------------------------------------------------
(* The thread of the queue                                                 *)

\* One turn of _workqueue_thread_entry under the lock: due items move to the
\* work list, then the first of it starts, or the thread is going to wait.
Look ==
  LET n    == DueCount
      work == workList \o SubSeq(delayed, 1, n)
      rest == SubSeq(delayed, n + 1, Len(delayed))
  IN  /\ wpc = "top"
      /\ SchedulerFree
      /\ delayed' = rest
      /\ due' = [w \in Works |-> IF w \in ToSet(rest) THEN due[w] ELSE 0]
      /\ IF work = <<>>
           THEN /\ wpc' = "wait"
                /\ delay' = IF rest = <<>> THEN Forever
                                           ELSE Minus(due[Head(rest)], tick)
                /\ UNCHANGED <<workList, execVars>>
           ELSE /\ wpc' = "run"
                /\ workList' = Tail(work)
                /\ current' = Head(work) /\ running' = Head(work)
                /\ UNCHANGED delay
      /\ UNCHANGED <<comp, semVars, lag, clientVars, tick, calls, life>>

\* rt_completion_wait up to its rt_schedule.
Wait ==
  /\ wpc = "wait"
  /\ SchedulerFree
  /\ IF comp = "completed"
       THEN wpc' = "top" /\ comp' = "none" /\ delay' = 0 /\ lag' = 0
       ELSE wpc' = "asleep" /\ comp' = "waiting" /\ UNCHANGED <<delay, lag>>
  /\ UNCHANGED <<lists, execVars, semVars, clientVars, tick, calls, life>>

\* ... and after it: completed since, or woken by the timer.
Woken ==
  /\ wpc = "woken"
  /\ SchedulerFree
  /\ wpc' = "top" /\ comp' = "none" /\ delay' = 0 /\ lag' = 0
  /\ UNCHANGED <<lists, execVars, semVars, clientVars, tick, calls, life>>

\* work_func returns and work_current is cleared.
RunEnd ==
  /\ wpc = "run"
  /\ SchedulerFree
  /\ wpc' = "try"
  /\ current' = NoWork /\ running' = NoWork
  /\ saw' = {}
  /\ UNCHANGED <<lists, comp, semVars, delay, lag, cpc, carg, tick, calls,
                 life>>

\* _workqueue_work_completion: rt_sem_trytake ...
AckTake ==
  /\ wpc = "try"
  /\ SchedulerFree
  /\ IF value > 0 THEN value' = value - 1 /\ wpc' = "top"
                  ELSE wpc' = "release" /\ UNCHANGED value
  /\ UNCHANGED <<lists, execVars, comp, waiters, delay, lag, clientVars, tick,
                 calls, life>>

\* ... and rt_sem_release, until every client that waits has its unit.
AckRelease_Once ==
  /\ wpc = "release"
  /\ SchedulerFree
  /\ wpc' = "top"
  /\ IF waiters = <<>>
       THEN value' = value + 1 /\ UNCHANGED <<waiters, cpc, carg>>
       ELSE /\ waiters' = Tail(waiters)
            /\ Return(Head(waiters))
            /\ UNCHANGED value
  /\ UNCHANGED <<lists, execVars, comp, delay, lag, saw, tick, calls, life>>
AckRelease ==
  /\ wpc = "release"
  /\ SchedulerFree
  /\ wpc' = "try"
  /\ IF waiters = <<>>
       THEN value' = value + 1 /\ UNCHANGED <<waiters, cpc, carg>>
       ELSE /\ waiters' = Tail(waiters)
            /\ Return(Head(waiters))
            /\ UNCHANGED value
  /\ UNCHANGED <<lists, execVars, comp, delay, lag, saw, tick, calls, life>>

-----------------------------------------------------------------------------
(* Time                                                                    *)

Late(w) == IF IsDue(w) THEN Minus(tick, due[w]) ELSE 0
TicksLeft(w) == IF IsDue(w) THEN 0 ELSE Minus(due[w], tick)

\* The tick interrupt, with the timer on which the thread sleeps.
Tick ==
  /\ \A w \in ToSet(delayed) : Late(w) < MaxLate
  /\ wpc = "wait" => lag < MaxLate
  /\ tick' = (tick + 1) % (TickMax + 1)
  /\ IF wpc = "asleep" /\ delay > 0
       THEN /\ delay' = delay - 1
            /\ wpc' = IF delay = 1 THEN "woken" ELSE wpc
       ELSE UNCHANGED <<delay, wpc>>
  /\ lag' = IF wpc = "wait" THEN lag + 1 ELSE lag
  /\ UNCHANGED <<lists, execVars, comp, semVars, clientVars, calls, life>>

-----------------------------------------------------------------------------

Init ==
  /\ workList = <<>> /\ delayed = <<>> /\ due = [w \in Works |-> 0]
  /\ current = NoWork /\ running = NoWork /\ comp = "none"
  /\ value = 0 /\ waiters = <<>>
  /\ wpc = "top" /\ delay = 0 /\ lag = 0
  /\ cpc = [c \in Clients |-> "idle"] /\ carg = [c \in Clients |-> NoWork]
  /\ saw = {}
  /\ tick \in Ticks
  /\ calls = 0 /\ life = "open"

Worker == Look \/ Wait \/ Woken \/ RunEnd \/ AckTake \/ AckRelease

ClientStep(c) ==
  \/ SyncTake(c) \/ SyncCancel(c)
  \/ CancelAllTest(c) \/ CancelAllFirst(c)
  \/ CancelAllRemove(c) \/ CancelAllHead(c)
  \/ DeleteThread(c) \/ DetachSem(c)

Request ==
  \/ \E w \in Works :
       \/ DoWork(w) \/ UrgentWork(w) \/ CancelWork(w)
       \/ \E n \in Delays : SubmitDelayed(w, n)
       \/ \E c \in Clients : SyncLook(c, w)
  \/ \E c \in Clients, destroy \in BOOLEAN : CancelAll(c, destroy)

Next == Worker \/ Tick \/ Request \/ \E c \in Clients : ClientStep(c)

Spec == Init /\ [][Next]_vars

\* Work functions return, the clock ticks, and every thread gets to run.
FairSpec ==
  /\ Spec
  /\ WF_vars(Worker) /\ WF_vars(Tick)
  /\ \A c \in Clients : WF_vars(ClientStep(c))

-----------------------------------------------------------------------------
(* Properties                                                              *)

\* The values of the variables, and an item is on one list, once: every way
\* into a list unlinks it first (rt_list_remove in _workqueue_submit_work).
TypeOK ==
  /\ workList \in Seq(Works) /\ delayed \in Seq(Works)
  /\ IsInjective(workList \o delayed)
  /\ due \in [Works -> Ticks]
  /\ \A w \in Works \ ToSet(delayed) : due[w] = 0
  /\ current \in Works \cup {NoWork, Stray} /\ running \in Works \cup {NoWork}
  /\ (current # NoWork) = (wpc = "run") /\ (running # NoWork) = (wpc = "run")
  /\ comp \in {"none", "waiting", "completed"}
  /\ value \in {0, 1}
  /\ IsInjective(waiters)
  /\ ToSet(waiters) = {c \in Clients : cpc[c] = "blocked"}
  /\ wpc \in {"top", "wait", "asleep", "woken", "run", "try", "release", "gone"}
  /\ delay \in {Forever} \cup Ticks /\ lag \in 0 .. MaxLate
  /\ cpc \in [Clients -> {"idle", "take", "blocked", "cancel", "work",
                          "workFirst", "delayed", "delayedFirst", "delete",
                          "detach"}]
  /\ carg \in [Clients -> Works \cup {NoWork, Stray}]
  /\ saw \subseteq Clients
  /\ tick \in Ticks /\ calls \in 0 .. MaxCalls
  /\ life \in {"open", "closing", "closed"}

\* No wakeup is lost: the thread of the queue never sleeps over an item of
\* the work list, nor longer than until the first delayed item is due, except
\* for the ticks lost between reading the clock and starting the timer.  It
\* looks at the lists, unlocks, and only then waits (_workqueue_thread_entry).
SleepsNoLonger ==
  wpc = "asleep" =>
    /\ comp = "waiting"
    /\ workList = <<>>
    /\ \A w \in ToSet(delayed) :
         delay # Forever /\ delay <= TicksLeft(w) + lag

\* queue->sem holds a unit only while the thread of the queue acknowledges an
\* execution ("keep the sem value = 0", _workqueue_work_completion), or where
\* rt_thread_delete stopped it in the middle of that; so that a client which
\* comes while an item is executed finds none.
NoUnitLeft ==
  /\ value > 0 => wpc \in {"try", "gone"}
  /\ saw # {} => wpc = "run"
  /\ \A c \in Clients : cpc[c] = "detach" => wpc = "gone"

\* The lists, the sleep of the thread and the semaphore.
WorkQueueInv == TypeOK /\ SleepsNoLonger /\ NoUnitLeft

\* rt_workqueue_cancel_work_sync, having found its item executing, does not
\* return before that execution has ended: no unit of an earlier one is left
\* for it to take.
SyncWaitsOut == \A c \in saw : cpc[c] \in {"take", "blocked"}

\* An item that is asked for is executed or withdrawn, whatever the tick
\* counter reads and whichever way it was submitted.
PendingServed == \A w \in Works : w \in Pending ~> w \notin Pending

\* A client that waits for an execution is released when it ends, however
\* many wait: _workqueue_work_completion goes on until nobody does.
WaitersReleased ==
  \A c \in Clients :
    (cpc[c] = "blocked" /\ c \in saw) ~> cpc[c] # "blocked"

\* The ticks until an item may start; -1 if nobody asked for it.
Left == [w \in Works |-> IF w \in ToSet(workList) THEN 0
                        ELSE IF w \in ToSet(delayed) THEN TicksLeft(w)
                        ELSE -1]

\* The items that calls under way have still to cancel.
Asked == {carg[c] : c \in {d \in Clients : cpc[d] = "cancel"}}
           \cup (IF SchedulerFree THEN {} ELSE Works)

\* The work queue does what WorkBag promises: no item starts before its delay
\* is over, none twice for one request, and none is dropped but by a call that
\* cancels it.
Bag == INSTANCE WorkBag WITH left <- Left, asked <- Asked, requests <- calls
ImplementsBag == Bag!Spec

=============================================================================
