------------------------------- MODULE KWait -------------------------------
(***************************************************************************)
(* How threads wait on a kernel object and are woken (ipc.c), for the      *)
(* objects whose code runs with interrupts disabled from one window to the *)
(* next: semaphore, event, mailbox, message queue.  The modules of these   *)
(* objects extend this one and say in which wait list a thread waits and   *)
(* what happens to the object.                                             *)
(*                                                                         *)
(* rt_spin_lock_irqsave disables interrupts and locks the scheduler, so    *)
(* what lies between it and rt_spin_unlock_irqrestore is one step; between *)
(* that and rt_schedule, interrupts are taken.                             *)
(*                                                                         *)
(* A definition X_Fault, before X, is X with a fault that the properties   *)
(* are meant to detect; no other definition uses it.                       *)
(***************************************************************************)
EXTENDS KSched

CONSTANTS
  Queue,     \* the wait lists of the object
  FlagPrio,  \* TRUE: created with RT_IPC_FLAG_PRIO, FALSE: RT_IPC_FLAG_FIFO
  Timed,     \* TRUE: a caller may give a finite timeout
  Forever,   \* TRUE: a caller may give RT_WAITING_FOREVER
  Features   \* the operations besides the object's main ones that run

ASSUME WaitAssumption ==
  /\ FlagPrio \in BOOLEAN
  /\ Timed \in BOOLEAN /\ Forever \in BOOLEAN /\ (Timed \/ Forever)

VARIABLES
  sched,   \* the scheduler state, see KSched
  waitq,   \* the wait lists
  err,     \* thread->error in a call that waits: "ok", "intr", "timeout" or
           \* "error"; "ok" outside of one, where nothing here reads it
  timer,   \* thread->thread_timer is in the timer list, ACTIVATED
  ttmr,    \* sched_flag_ttmr_set
  pc       \* where the thread stands; "run" outside the kernel

waitVars == <<sched, waitq, err, timer, ttmr, pc>>

Err == {"ok", "intr", "timeout", "error"}
cur == sched.cur

\* What a timed caller may give as the timeout: FALSE is RT_WAITING_FOREVER.
Timeouts == {b \in BOOLEAN : IF b THEN Timed ELSE Forever}

\* The thread that has the CPU stands at l.
At(t, l) ==
  /\ t = cur /\ t # Idle
  /\ sched.stat[t] = "running"
  /\ pc[t] = l

\* A thread that has suspended itself still has the CPU until it, or an
\* interrupt, calls rt_schedule.
BeforeSwitch(t, l) == t = cur /\ pc[t] = l

-----------------------------------------------------------------------------
(* Waiting                                                                 *)

Enqueue(q, t) ==
  IF FlagPrio THEN EnqueuePrio(waitq[q], t, sched.prio) ELSE Append(waitq[q], t)

\* The error is preset, the thread suspended into the list and its timer
\* started; it goes on at l.
Block(t, q, timed, l) ==
  /\ sched' = Suspend(sched, t)
  /\ waitq' = [waitq EXCEPT ![q] = Enqueue(q, t)]
  /\ err'   = [err EXCEPT ![t] = "intr"]
  /\ timer' = [timer EXCEPT ![t] = timed]
  /\ ttmr'  = [ttmr EXCEPT ![t] = timed]
  /\ pc'    = [pc EXCEPT ![t] = l]

\* The call returns.
Return(t) ==
  /\ pc'  = [pc EXCEPT ![t] = "run"]
  /\ err' = [err EXCEPT ![t] = "ok"]

\* rt_schedule in the caller, after the wait list is unlocked
Switch(t, from, to) ==
  /\ BeforeSwitch(t, from)
  /\ sched' = Schedule(sched)
  /\ pc' = [pc EXCEPT ![t] = to]
  /\ UNCHANGED <<waitq, err, timer, ttmr>>

-----------------------------------------------------------------------------
(* Waking                                                                  *)

\* rt_sched_thread_ready fails if the timeout of a suspended thread is set and
\* no longer active.
CanReady(t) == ttmr[t] => timer[t]

\* rt_susp_list_resume_all stops at the first thread that cannot be readied;
\* rt_susp_list_dequeue takes at most one.
AllOf(q) ==
  LET bad == {i \in 1 .. Len(waitq[q]) : ~CanReady(waitq[q][i])}
  IN  IF bad = {} THEN waitq[q] ELSE SubSeq(waitq[q], 1, Min(bad) - 1)

FirstOf(q) == LET all == AllOf(q) IN IF all = <<>> THEN <<>> ELSE <<Head(all)>>

\* The threads of ts are taken off their lists in this order and made ready,
\* with e as their error, without rt_schedule ...
Ready(ts, e) ==
  /\ waitq' = [q \in Queue |-> Without(waitq[q], ToSet(ts))]
  /\ err'   = [t \in Thread |-> IF t \in ToSet(ts) THEN e ELSE err[t]]
  /\ timer' = [t \in Thread |-> timer[t] /\ t \notin ToSet(ts)]
  /\ ttmr'  = [t \in Thread |-> ttmr[t] /\ t \notin ToSet(ts)]

Readied(ts) == InsertAll(sched, ts)

\* ... and with it
WakeAs(ts, e) == sched' = Schedule(Readied(ts)) /\ Ready(ts, e)

\* If the list is not empty, one thread is woken and rt_schedule called.
WakeOne(q, e) ==
  IF waitq[q] = <<>>
  THEN UNCHANGED <<sched, waitq, err, timer, ttmr>>
  ELSE WakeAs(FirstOf(q), e)

-----------------------------------------------------------------------------
(* Interrupts and other thread operations, which leave the object alone    *)

TimerExpires_StaysListed(x) ==
  /\ timer[x]
  /\ timer' = [timer EXCEPT ![x] = FALSE]
  /\ sched' = Schedule(Insert(sched, x))
  /\ err'   = [err EXCEPT ![x] = IF pc[x] = "run" THEN @ ELSE "timeout"]
  /\ UNCHANGED <<waitq, ttmr, pc>>

\* The timeout of x expires (_thread_timeout in the tick interrupt).  Ticks are
\* not counted: a running timer may expire at any time.
TimerExpires(x) ==
  /\ timer[x]
  /\ timer' = [timer EXCEPT ![x] = FALSE]
  /\ waitq' = [q \in Queue |-> Unlink(waitq[q], x)]
  /\ sched' = Schedule(Insert(sched, x))
  /\ err'   = [err EXCEPT ![x] = IF pc[x] = "run" THEN @ ELSE "timeout"]
  /\ UNCHANGED <<ttmr, pc>>

\* rt_sched_tick_increase at the end of a time slice; rt_thread_yield too
SliceEnds ==
  /\ cur # Idle
  /\ sched' = Schedule([sched EXCEPT !.yield[cur] = TRUE])
  /\ UNCHANGED <<waitq, err, timer, ttmr, pc>>

\* rt_thread_mdelay
Sleep(t) ==
  /\ At(t, "run")
  /\ sched' = Schedule(Suspend(sched, t))
  /\ timer' = [timer EXCEPT ![t] = TRUE]
  /\ ttmr'  = [ttmr EXCEPT ![t] = TRUE]
  /\ UNCHANGED <<waitq, err, pc>>

\* rt_thread_resume(x) of a thread that sleeps or waits: its error stays
Resume(t, x) ==
  /\ "resume" \in Features
  /\ At(t, "run")
  /\ sched.stat[x] = "suspend" /\ CanReady(x)
  /\ WakeAs(<<x>>, err[x])
  /\ UNCHANGED pc

Elsewhere ==
  \/ \E t \in Thread : TimerExpires(t) \/ Sleep(t)
  \/ \E t, x \in Thread : Resume(t, x)
  \/ SliceEnds

WaitInit ==
  /\ sched = AllAsleep
  /\ waitq = [q \in Queue |-> <<>>]
  /\ err = [t \in Thread |-> "ok"]
  /\ timer = [t \in Thread |-> t # Idle]
  /\ ttmr = [t \in Thread |-> t # Idle]
  /\ pc = [t \in Thread |-> "run"]

-----------------------------------------------------------------------------
(* What holds of the waits for any object                                  *)

\* Types of the variables above, l being the code positions of the object
WaitTypeOK(l) ==
  /\ sched \in SchedState
  /\ waitq \in [Queue -> Seq(Thread)]
  /\ err \in [Thread -> Err]
  /\ timer \in [Thread -> BOOLEAN]
  /\ ttmr \in [Thread -> BOOLEAN]
  /\ pc \in [Thread -> l]

\* A thread is on a wait list, on one and once, exactly while it is suspended
\* in a call, and then its error is still the preset one.
ListsAgree ==
  /\ \A q \in Queue : IsInjective(waitq[q])
  /\ \A q \in Queue : \A t \in ToSet(waitq[q]) :
       /\ sched.stat[t] = "suspend" /\ pc[t] # "run" /\ err[t] = "intr"
       /\ \A p \in Queue : t \in ToSet(waitq[p]) => p = q
  /\ \A t \in Thread : sched.stat[t] = "suspend" /\ pc[t] # "run"
                          => \E q \in Queue : t \in ToSet(waitq[q])

\* Only a suspended thread has a timeout, and the timeout of a suspended thread
\* is pending whenever the kernel thinks it is: every waiter can be readied.
TimersAgree ==
  \A t \in Thread : /\ timer[t] => sched.stat[t] = "suspend"
                    /\ sched.stat[t] = "suspend" => ttmr[t] = timer[t]

WaitInv == SchedInv(sched) /\ ListsAgree /\ TimersAgree
=============================================================================
