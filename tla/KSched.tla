------------------------------- MODULE KSched -------------------------------
(***************************************************************************)
(* The uniprocessor scheduler of RT-Thread: scheduler_up.c and the part of *)
(* scheduler_comm.c that the IPC code calls.                               *)
(*                                                                         *)
(* Every operator maps one scheduler state to the next, so that an IPC     *)
(* operation, which calls several of them with interrupts disabled, is one *)
(* step.  A scheduler state is a record                                    *)
(*   stat   the state field of RT_SCHED_CTX(thread).stat                   *)
(*   yield  its RT_THREAD_STAT_YIELD bit: the time slice is used up        *)
(*   prio   RT_SCHED_PRIV(thread).current_priority, 0 the highest          *)
(*   ready  rt_thread_priority_table, one list per priority                *)
(*   cur    rt_cpu_self()->current_thread                                  *)
(*   pend   the critical switch flag: a switch asked for under the lock    *)
(* The bitmap rt_thread_ready_priority_group is the set of priorities      *)
(* whose list is not empty and is not kept apart.                          *)
(*                                                                         *)
(* A definition X_Fault, before X, is X with a fault that the properties   *)
(* are meant to detect; no other definition uses it.                       *)
(***************************************************************************)
EXTENDS Naturals, SequencesExt

CONSTANTS
  Thread,     \* the threads, the idle thread included
  Idle,       \* the idle thread: it never blocks and has the lowest priority
  NoThread,   \* RT_NULL where a thread is expected
  PrioMax,    \* RT_THREAD_PRIORITY_MAX: priorities are 0 .. PrioMax - 1
  InitPrio    \* [Thread -> priority]: init_priority, as given at creation

Prio == 0 .. PrioMax - 1

ASSUME ThreadAssumption ==
  /\ Idle \in Thread
  /\ NoThread \notin Thread
  /\ PrioMax \in Nat \ {0}
  /\ InitPrio \in [Thread -> Prio]
  /\ \A t \in Thread \ {Idle} : InitPrio[t] < InitPrio[Idle]

\* There are as many threads as memory allows, and no more.
ASSUME FiniteThreads == IsFiniteSet(Thread)

Stat == {"ready", "running", "suspend", "close"}

SchedState ==
  [stat  : [Thread -> Stat],
   yield : [Thread -> BOOLEAN],
   prio  : [Thread -> Prio],
   ready : [Prio -> Seq(Thread)],
   cur   : Thread,
   pend  : BOOLEAN]

-----------------------------------------------------------------------------
(* Lists.  A thread has one list node, tlist, that is on at most one list. *)

\* rt_list_remove: taking a node off a list it is not on changes nothing.
Unlink(q, t) == RemoveFirst(q, t)

\* q after the threads of S have been taken off it, one by one
Without(q, S) ==
  LET kept[n \in 0 .. Len(q)] ==
        IF n = 0 THEN <<>>
        ELSE IF q[n] \in S THEN kept[n - 1] ELSE Append(kept[n - 1], q[n])
  IN  kept[Len(q)]

EnqueuePrio_Fifo(q, t, prio) == Append(q, t)

\* rt_susp_list_enqueue with RT_IPC_FLAG_PRIO: before the first thread of
\* strictly lower priority, else at the tail.
EnqueuePrio(q, t, prio) ==
  LET after == {i \in 1 .. Len(q) : prio[t] < prio[q[i]]}
  IN  InsertAt(q, IF after = {} THEN Len(q) + 1 ELSE Min(after), t)

-----------------------------------------------------------------------------
(* The ready queues.                                                       *)

\* rt_sched_insert_thread: the current thread stays off the queues; another
\* one goes to the head of its queue, or to the tail if its slice is used up.
Insert(s, t) ==
  IF t = s.cur
  THEN [s EXCEPT !.stat[t] = "running"]
  ELSE [s EXCEPT !.stat[t] = "ready",
                 !.ready[s.prio[t]] =
                    IF s.yield[t] THEN Append(@, t) ELSE <<t>> \o @]

\* rt_sched_thread_ready for each thread of ts, from the first on
InsertAll(s, ts) ==
  LET after[n \in 0 .. Len(ts)] ==
        IF n = 0 THEN s ELSE Insert(after[n - 1], ts[n])
  IN  after[Len(ts)]

\* rt_sched_remove_thread
RemoveReady(s, t) == [s EXCEPT !.ready[s.prio[t]] = Unlink(@, t)]

ChangePrio_SameQueue(s, t, p) == [s EXCEPT !.prio[t] = p]

\* rt_sched_thread_change_priority.  A ready thread changes queue and loses
\* its yield bit (its stat is set to RT_THREAD_INIT before the insertion).
ChangePrio(s, t, p) ==
  IF s.stat[t] = "ready"
  THEN Insert([RemoveReady(s, t) EXCEPT !.prio[t] = p, !.yield[t] = FALSE], t)
  ELSE [s EXCEPT !.prio[t] = p]

\* rt_thread_suspend_to_list, for a running or ready thread
Suspend(s, t) == [RemoveReady(s, t) EXCEPT !.stat[t] = "suspend"]

\* rt_thread_close: the thread is taken off the list it is on; the caller
\* takes it off the wait lists, which are not in s
Close(s, t) == [RemoveReady(s, t) EXCEPT !.stat[t] = "close", !.yield[t] = FALSE]

-----------------------------------------------------------------------------
(* Choosing the next thread.                                               *)

ReadyPrio(s) == {p \in Prio : s.ready[p] # <<>>}

\* _scheduler_get_highest_priority_thread
HighestPrio(s) == Min(ReadyPrio(s))

\* The running thread keeps the CPU against a queue of priority p.
Keeps(s, p) ==
  /\ s.stat[s.cur] = "running"
  /\ \/ s.prio[s.cur] < p
     \/ s.prio[s.cur] = p /\ ~s.yield[s.cur]

SwitchTo_StaysReady(s, to) ==
  LET s1 == [s EXCEPT !.cur = to]
      s2 == IF s.stat[s.cur] = "running" THEN Insert(s1, s.cur) ELSE s1
  IN  [s2 EXCEPT !.yield[s.cur] = FALSE, !.stat[to] = "running"]

\* The context switch: the outgoing thread, if it can still run, goes back
\* to its queue with the yield bit it had, which is cleared afterwards.
SwitchTo(s, to) ==
  LET from == s.cur
      s1   == [s EXCEPT !.cur = to]
      s2   == IF s.stat[from] = "running" THEN Insert(s1, from) ELSE s1
      s3   == [s2 EXCEPT !.yield[from] = FALSE]
  IN  [RemoveReady(s3, to) EXCEPT !.stat[to] = "running"]

\* rt_schedule with rt_scheduler_lock_nest = 0
Schedule(s) ==
  IF \/ ReadyPrio(s) = {}
     \/ Keeps(s, HighestPrio(s))
  THEN s
  ELSE SwitchTo(s, Head(s.ready[HighestPrio(s)]))

\* rt_schedule with the scheduler locked: only remembered
ScheduleLocked(s) == [s EXCEPT !.pend = TRUE]

\* rt_exit_critical, back to nest 0: the remembered switch is done now
ExitCritical(s) ==
  IF s.pend THEN Schedule([s EXCEPT !.pend = FALSE]) ELSE s

\* A state the scheduler reaches once every thread but idle has called
\* rt_thread_mdelay: rt_system_scheduler_start has run each of them, and idle
\* has the CPU.
AllAsleep ==
  [stat  |-> [t \in Thread |-> IF t = Idle THEN "running" ELSE "suspend"],
   yield |-> [t \in Thread |-> FALSE],
   prio  |-> InitPrio,
   ready |-> [p \in Prio |-> <<>>],
   cur   |-> Idle,
   pend  |-> FALSE]

-----------------------------------------------------------------------------
(* What a scheduler state must satisfy between two operations              *)

\* A thread stands on the ready queue of its priority, once, exactly if it is
\* ready, and on no other ready queue.
QueuesAgree(s) ==
  \A p \in Prio :
    /\ IsInjective(s.ready[p])
    /\ \A t \in Thread :
         t \in ToSet(s.ready[p]) <=> s.stat[t] = "ready" /\ s.prio[t] = p

\* The thread that has the CPU is not queued for it, and no other one is in
\* the state of running.
OneRunning(s) ==
  /\ s.stat[s.cur] # "ready"
  /\ \A t \in Thread : s.stat[t] = "running" => t = s.cur

SchedInv(s) == QueuesAgree(s) /\ OneRunning(s)
=============================================================================
