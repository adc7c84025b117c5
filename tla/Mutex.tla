------------------------------- MODULE Mutex -------------------------------
(***************************************************************************)
(* The RT-Thread mutex (ipc.c, RT_USING_MUTEX) with priority inheritance,  *)
(* priority ceiling, timed waits, and the thread operations that meet it:  *)
(* sleeping, yielding, priority changes, thread exit and deletion          *)
(* (thread.c), on the uniprocessor scheduler of KSched.                    *)
(*                                                                         *)
(* Grain of atomicity.  On one CPU rt_spin_lock only locks the scheduler,  *)
(* so no other thread runs until it is released but interrupts do;         *)
(* rt_sched_lock disables interrupts.  An operation is cut into one action *)
(* per stretch with interrupts disabled; pc says where in the code the     *)
(* thread stands.  The while loop of _thread_update_priority is one action *)
(* per iteration (Propagate), with every other action disabled meanwhile.  *)
(*                                                                         *)
(* A definition X_Fault, before X, is X with a fault that the properties   *)
(* are meant to detect; no other definition uses it.                       *)
(***************************************************************************)
EXTENDS KSched

CONSTANTS
  Mutexes,   \* the mutex objects
  NoMutex,   \* RT_NULL where a mutex is expected
  HoldMax,   \* RT_MUTEX_HOLD_MAX
  Timed,     \* TRUE: rt_mutex_take may be given a finite timeout
  LockOrder, \* pairs of mutexes: the program takes the second one while it
             \* holds the first; a cycle in it is a program that can deadlock
  Features,  \* operations besides take, release, sleep and yield that run
  SetPrios   \* the priorities the program asks for: as a ceiling, and in
             \* rt_thread_control

AllFeatures == {"ceiling", "chprio", "exit", "delete", "detach", "resume"}

ASSUME MutexAssumption ==
  /\ NoMutex \notin Mutexes
  /\ HoldMax \in Nat \ {0}
  /\ Timed \in BOOLEAN
  /\ LockOrder \subseteq Mutexes \X Mutexes
  /\ Features \subseteq AllFeatures
  /\ SetPrios \subseteq Prio

VARIABLES
  sched,    \* the scheduler state, see KSched
  owner,    \* mutex->owner
  hold,     \* mutex->hold
  mprio,    \* mutex->priority
  ceiling,  \* mutex->ceiling_priority
  waitq,    \* mutex->parent.suspend_thread
  live,     \* the mutex object is initialised and not detached
  taken,    \* thread->taken_object_list, as a set
  pending,  \* thread->pending_object
  err,      \* thread->error: "ok", "timeout" or "error"
  timer,    \* thread->thread_timer is in the timer list, ACTIVATED
  ttmr,     \* sched_flag_ttmr_set
  pc,       \* where the thread stands in an operation
  want,     \* the mutex argument of the take it is in
  chain,    \* the thread whose priority the loop of _thread_update_priority
            \* has just changed, NoThread outside the loop
  victim    \* the thread being closed, NoThread outside of it

mutexVars  == <<owner, hold, mprio, ceiling, waitq, live, taken>>
threadVars == <<pending, err, timer, ttmr>>
codeVars   == <<pc, want, chain, victim>>
vars       == <<sched, mutexVars, threadVars, codeVars>>

NoPrio == PrioMax   \* 0xff: lower than every priority

\* "run"       outside the kernel
\* "arm"       _rt_mutex_take: suspended, before the timer is started
\* "block"     _rt_mutex_take: before rt_spin_unlock and rt_schedule
\* "wait"      _rt_mutex_take: rt_schedule called, not yet returned
\* "fail"      _rt_mutex_take: before the rt_spin_unlock of the failure path
\* "clear"     _rt_mutex_take: before pending_object is cleared
\* "ceil"      rt_mutex_setprioceiling: before rt_spin_unlock
\* "wake"      rt_mutex_detach: the loop of rt_susp_list_resume_all
\* "free"      _thread_detach_from_mutex: the loop over the taken mutexes
\* "closed"    the thread is closed
PC == {"run", "arm", "block", "wait", "fail", "clear", "ceil", "wake",
       "free", "closed"}

LockedPC == {"arm", "block", "fail", "ceil", "wake", "free"}  \* scheduler locked
MaskedPC == {"free"}                       \* interrupts disabled as well

cur == sched.cur

\* Interrupts are taken unless some stretch of code has disabled them.
IrqEnabled == chain = NoThread /\ pc[cur] \notin MaskedPC

\* The thread that has the CPU stands at pc l and its next step may be taken.
At(t, l) ==
  /\ chain = NoThread
  /\ t = cur
  /\ sched.stat[t] = "running" \/ l \in LockedPC
  /\ pc[t] = l
  /\ t # Idle

\* rt_schedule, called by the thread that has the CPU or by an interrupt: a
\* switch at once, or noted if that thread has the scheduler locked
Resched(s) == IF pc[cur] \in LockedPC THEN ScheduleLocked(s) ELSE Schedule(s)

Min2(a, b) == IF a < b THEN a ELSE b

\* _mutex_update_priority: the priority of the first waiter
HeadPrio(q, prio) == IF q = <<>> THEN NoPrio ELSE prio[Head(q)]

\* _thread_get_mutex_priority: the highest of the thread's own priority and,
\* over the mutexes in held, the first waiter's priority and the ceiling
MutexPrio(t, held, mp, ceil) ==
  Min({InitPrio[t]} \cup {Min2(mp[m], ceil[m]) : m \in held})

UpdatePriority_Never(s, t, p) == sched' = s /\ UNCHANGED chain

\* _thread_update_priority(t, p) unless t has that priority already: the first
\* change of priority; the loop that follows is Propagate.
UpdatePriority(s, t, p) ==
  IF p # s.prio[t]
  THEN sched' = ChangePrio(s, t, p) /\ chain' = t
  ELSE sched' = s /\ UNCHANGED chain

\* _check_and_update_prio(t, m), held being what t still has: the priority is
\* looked at again only if m may have been the reason for it.
ChecksPrio(t, m) == ceiling[m] # NoPrio \/ sched.prio[t] = mprio[m]

CheckedPrio_ForgetsOthers(t, m, held) ==
  IF ChecksPrio(t, m) THEN ChangePrio(sched, t, InitPrio[t]) ELSE sched

CheckedPrio(t, m, held) ==
  IF ChecksPrio(t, m)
  THEN ChangePrio(sched, t, MutexPrio(t, held, mprio, ceiling))
  ELSE sched

-----------------------------------------------------------------------------
(* _rt_mutex_take.  An operation that returns an error at once (the hold   *)
(* count is full, the mutex is taken and timeout is 0, the caller of       *)
(* release is not the owner) changes nothing but thread->error, which the  *)
(* next take resets, and is not an action.                                 *)

MayTake(t, m) == \A h \in taken[t] : <<h, m>> \in LockOrder

TakeAgain(t, m) ==
  /\ At(t, "run") /\ live[m]
  /\ owner[m] = t
  /\ hold[m] < HoldMax
  /\ hold' = [hold EXCEPT ![m] = @ + 1]
  /\ err' = [err EXCEPT ![t] = "ok"]
  /\ UNCHANGED <<sched, owner, mprio, ceiling, waitq, live, taken,
                 pending, timer, ttmr, codeVars>>

TakeFree(t, m) ==
  /\ At(t, "run") /\ live[m] /\ MayTake(t, m)
  /\ owner[m] = NoThread
  /\ owner' = [owner EXCEPT ![m] = t]
  /\ mprio' = [mprio EXCEPT ![m] = NoPrio]
  /\ hold'  = [hold EXCEPT ![m] = 1]
  /\ taken' = [taken EXCEPT ![t] = @ \cup {m}]
  /\ err'   = [err EXCEPT ![t] = "ok"]
  /\ sched' = IF ceiling[m] < sched.prio[t]
              THEN ChangePrio(sched, t, ceiling[m]) ELSE sched
  /\ UNCHANGED <<ceiling, waitq, live, pending, timer, ttmr, codeVars>>

\* The mutex is taken: wait in its list and lend the owner the priority.
TakeBlock(t, m) ==
  /\ At(t, "run") /\ live[m] /\ MayTake(t, m)
  /\ owner[m] \notin {NoThread, t}
  /\ LET s == Suspend(sched, t)
         p == sched.prio[t]
     IN  IF p < mprio[m] /\ p < sched.prio[owner[m]]
         THEN UpdatePriority(s, owner[m], p)
         ELSE sched' = s /\ UNCHANGED chain
  /\ waitq' = [waitq EXCEPT ![m] = EnqueuePrio(@, t, sched.prio)]
  /\ mprio' = [mprio EXCEPT ![m] = Min2(@, sched.prio[t])]
  /\ pending' = [pending EXCEPT ![t] = m]
  /\ err'   = [err EXCEPT ![t] = "ok"]
  /\ timer' = [timer EXCEPT ![t] = FALSE]
  /\ ttmr'  = [ttmr EXCEPT ![t] = FALSE]
  /\ pc'    = [pc EXCEPT ![t] = "arm"]
  /\ want'  = [want EXCEPT ![t] = m]
  /\ UNCHANGED <<owner, hold, ceiling, live, taken, victim>>

\* rt_timer_start, if the timeout is finite
TakeArm(t) ==
  /\ At(t, "arm")
  /\ \E timed \in {FALSE, Timed} :
       /\ timer' = [timer EXCEPT ![t] = timed]
       /\ ttmr'  = [ttmr EXCEPT ![t] = timed]
  /\ pc' = [pc EXCEPT ![t] = "block"]
  /\ UNCHANGED <<sched, mutexVars, pending, err, want, chain, victim>>

\* rt_spin_unlock and rt_schedule
TakeSwitch(t) ==
  /\ At(t, "block")
  /\ sched' = Schedule(ExitCritical(sched))
  /\ pc' = [pc EXCEPT ![t] = "wait"]
  /\ UNCHANGED <<mutexVars, threadVars, want, chain, victim>>

\* The thread runs again and finds that the mutex was handed to it ...
TakeGranted(t) ==
  /\ At(t, "wait")
  /\ owner[want[t]] = t
  /\ pc' = [pc EXCEPT ![t] = "run"]
  /\ want' = [want EXCEPT ![t] = NoMutex]
  /\ UNCHANGED <<sched, mutexVars, threadVars, chain, victim>>

\* ... or not: the priorities it lent are taken back.
TakeFailed(t) ==
  /\ At(t, "wait")
  /\ LET m == want[t]
         o == owner[m]
         mp == [mprio EXCEPT ![m] = HeadPrio(waitq[m], sched.prio)]
     IN  /\ o # t
         /\ mprio' = mp
         /\ IF o # NoThread /\ sched.prio[o] = sched.prio[t]
            THEN UpdatePriority(sched, o, MutexPrio(o, taken[o], mp, ceiling))
            ELSE UNCHANGED <<sched, chain>>
  /\ pc' = [pc EXCEPT ![t] = "fail"]
  /\ UNCHANGED <<owner, hold, ceiling, waitq, live, taken,
                 threadVars, want, victim>>

TakeUnlock(t) ==
  /\ At(t, "fail")
  /\ sched' = ExitCritical(sched)
  /\ pc' = [pc EXCEPT ![t] = "clear"]
  /\ UNCHANGED <<mutexVars, threadVars, want, chain, victim>>

TakeReturn(t) ==
  /\ At(t, "clear")
  /\ pending' = [pending EXCEPT ![t] = NoMutex]
  /\ pc' = [pc EXCEPT ![t] = "run"]
  /\ want' = [want EXCEPT ![t] = NoMutex]
  /\ UNCHANGED <<sched, mutexVars, err, timer, ttmr, chain, victim>>

\* The wait list of m after x, whose priority changed, is queued again.
Requeued_KeepsPlace(x, m) == waitq[m]
Requeued(x, m) == EnqueuePrio(Unlink(waitq[m], x), x, sched.prio)

\* The loop goes on to the owner o if it should have another priority, p.
GoesOn_Always(o, p) == TRUE
GoesOn_Never(o, p) == FALSE
GoesOn(o, p) == p # sched.prio[o]

\* One iteration of the loop of _thread_update_priority, if the thread whose
\* priority changed waits for a mutex.
Propagate ==
  LET x  == chain
      m  == pending[x]
      q  == Requeued(x, m)
      mp == [mprio EXCEPT ![m] = HeadPrio(q, sched.prio)]
      o  == owner[m]
      p  == MutexPrio(o, taken[o], mp, ceiling)
  IN  /\ x # NoThread
      /\ IF sched.stat[x] = "suspend" /\ m # NoMutex
         THEN /\ waitq' = [waitq EXCEPT ![m] = q]
              /\ mprio' = mp
              /\ IF GoesOn(o, p)
                 THEN sched' = ChangePrio(sched, o, p) /\ chain' = o
                 ELSE UNCHANGED sched /\ chain' = NoThread
         ELSE /\ chain' = NoThread
              /\ UNCHANGED <<sched, waitq, mprio>>
      /\ UNCHANGED <<owner, hold, ceiling, live, taken, threadVars,
                     pc, want, victim>>

-----------------------------------------------------------------------------
(* rt_mutex_release and rt_mutex_setprioceiling                            *)

ReleaseAgain(t, m) ==
  /\ At(t, "run") /\ live[m]
  /\ owner[m] = t
  /\ hold[m] > 1
  /\ hold' = [hold EXCEPT ![m] = @ - 1]
  /\ UNCHANGED <<sched, owner, mprio, ceiling, waitq, live, taken,
                 threadVars, codeVars>>

CanReady_NeedsTimer(t) == timer[t]

\* rt_sched_thread_ready fails if the timeout of a suspended thread is no
\* longer active, because then the timeout is about to resume it.
CanReady(t) == ttmr[t] => timer[t]

\* The last release of m by t.  rt_schedule is called if the priority of t was
\* looked at or the mutex was handed on.
ReleaseLast(t, m) ==
  LET left == taken[t] \ {m}
      s    == CheckedPrio(t, m, left)
      q    == waitq[m]
      good == {i \in 1 .. Len(q) : CanReady(q[i])}
      free == good = {}
      i    == IF free THEN Len(q)
              ELSE Min(good)
      n    == q[i]
      rest == SubSeq(q, i + 1, Len(q))
  IN  /\ owner' = [owner EXCEPT ![m] = IF free THEN NoThread ELSE n]
      /\ hold'  = [hold EXCEPT ![m] = IF free THEN 0 ELSE 1]
      /\ mprio' = [mprio EXCEPT ![m] = HeadPrio(rest, sched.prio)]
      /\ waitq' = [waitq EXCEPT ![m] = rest]
      /\ taken' = IF free
                  THEN [taken EXCEPT ![t] = left]
                  ELSE [taken EXCEPT ![t] = left, ![n] = @ \cup {m}]
      /\ timer' = IF free THEN timer ELSE [timer EXCEPT ![n] = FALSE]
      /\ ttmr'  = [x \in Thread |-> ttmr[x] /\ \A k \in 1 .. i : q[k] # x]
      /\ pending' = IF free THEN pending ELSE [pending EXCEPT ![n] = NoMutex]
      /\ sched' = IF free
                  THEN IF ChecksPrio(t, m) THEN Resched(s) ELSE s
                  ELSE Resched(Insert(s, n))
      /\ UNCHANGED <<ceiling, live, err>>

Release(t, m) ==
  /\ At(t, "run") /\ live[m]
  /\ owner[m] = t
  /\ hold[m] = 1
  /\ ReleaseLast(t, m)
  /\ UNCHANGED codeVars

SetCeiling(t, m, p) ==
  /\ "ceiling" \in Features
  /\ At(t, "run") /\ live[m]
  /\ ceiling' = [ceiling EXCEPT ![m] = p]
  /\ LET o == owner[m]
     IN  IF o # NoThread
         THEN UpdatePriority(sched, o, MutexPrio(o, taken[o], mprio, ceiling'))
         ELSE UNCHANGED <<sched, chain>>
  /\ pc' = [pc EXCEPT ![t] = "ceil"]
  /\ UNCHANGED <<owner, hold, mprio, waitq, live, taken, threadVars,
                 want, victim>>

SetCeilingReturn(t) ==
  /\ At(t, "ceil")
  /\ sched' = ExitCritical(sched)
  /\ pc' = [pc EXCEPT ![t] = "run"]
  /\ UNCHANGED <<mutexVars, threadVars, want, chain, victim>>

-----------------------------------------------------------------------------
(* Interrupts and the thread operations that meet the mutex                *)

TimerExpires_StaysListed(x) ==
  /\ IrqEnabled
  /\ timer[x]
  /\ timer' = [timer EXCEPT ![x] = FALSE]
  /\ sched' = Resched(Insert(sched, x))
  /\ err' = IF pc[x] = "run" THEN err ELSE [err EXCEPT ![x] = "timeout"]
  /\ UNCHANGED <<mutexVars, pending, ttmr, codeVars>>

\* rt_timer_check in the tick interrupt: the timer of x expires (_thread_timeout).
\* Ticks are not counted: a running timer may expire at any time.
TimerExpires(x) ==
  /\ IrqEnabled
  /\ timer[x]
  /\ timer' = [timer EXCEPT ![x] = FALSE]
  /\ waitq' = [m \in Mutexes |-> Unlink(waitq[m], x)]
  /\ sched' = Resched(Insert(sched, x))
  \* _thread_sleep clears the error again, before anything reads it
  /\ err' = IF pc[x] = "run" THEN err ELSE [err EXCEPT ![x] = "timeout"]
  /\ UNCHANGED <<owner, hold, mprio, ceiling, live, taken, pending, ttmr,
                 codeVars>>

\* rt_sched_tick_increase at the end of a time slice; rt_thread_yield too
SliceEnds ==
  /\ IrqEnabled
  /\ cur # Idle
  /\ sched' = Resched([sched EXCEPT !.yield[cur] = TRUE])
  /\ UNCHANGED <<mutexVars, threadVars, codeVars>>

\* rt_thread_mdelay
Sleep(t) ==
  /\ At(t, "run")
  /\ sched' = Schedule(Suspend(sched, t))
  /\ timer' = [timer EXCEPT ![t] = TRUE]
  /\ ttmr'  = [ttmr EXCEPT ![t] = TRUE]
  /\ UNCHANGED <<mutexVars, pending, err, codeVars>>

\* rt_thread_control(x, RT_THREAD_CTRL_CHANGE_PRIORITY, p)
ChangePriority(t, x, p) ==
  /\ "chprio" \in Features
  /\ At(t, "run")
  /\ x # Idle /\ sched.stat[x] # "close"
  /\ sched' = ChangePrio(sched, x, p)
  /\ UNCHANGED <<mutexVars, threadVars, codeVars>>

Resume_StaysListed(t, x) ==
  /\ "resume" \in Features
  /\ At(t, "run")
  /\ sched.stat[x] = "suspend" /\ CanReady(x)
  /\ sched' = Schedule(Insert(sched, x))
  /\ timer' = [timer EXCEPT ![x] = FALSE]
  /\ ttmr'  = [ttmr EXCEPT ![x] = FALSE]
  /\ UNCHANGED <<mutexVars, pending, err, codeVars>>

\* rt_thread_resume(x) of a thread that sleeps or waits
Resume(t, x) ==
  /\ "resume" \in Features
  /\ At(t, "run")
  /\ sched.stat[x] = "suspend" /\ CanReady(x)
  /\ waitq' = [m \in Mutexes |-> Unlink(waitq[m], x)]
  /\ sched' = Schedule(Insert(sched, x))
  /\ timer' = [timer EXCEPT ![x] = FALSE]
  /\ ttmr'  = [ttmr EXCEPT ![x] = FALSE]
  /\ UNCHANGED <<owner, hold, mprio, ceiling, live, taken, pending, err,
                 codeVars>>

\* _thread_exit, up to the loop over the taken mutexes
Exit(t) ==
  /\ "exit" \in Features
  /\ At(t, "run")
  /\ sched' = Close(sched, t)
  /\ pc' = [pc EXCEPT ![t] = "free"]
  /\ victim' = t
  /\ UNCHANGED <<mutexVars, threadVars, want, chain>>

\* rt_thread_delete (or rt_thread_detach) of another thread, up to the same
\* loop: rt_thread_close and, if x waits for a mutex, rt_mutex_drop_thread
Delete(t, x) ==
  /\ "delete" \in Features
  /\ At(t, "run")
  /\ x \notin {t, Idle} /\ sched.stat[x] # "close"
  /\ LET m  == pending[x]
         q  == [n \in Mutexes |-> Unlink(waitq[n], x)]
         mp == [mprio EXCEPT ![m] = HeadPrio(q[m], sched.prio)]
         o  == owner[m]
         s  == Close(sched, x)
     IN  /\ waitq' = q
         /\ IF m = NoMutex
            THEN sched' = s /\ UNCHANGED <<mprio, chain>>
            ELSE /\ mprio' = mp
                 /\ IF o # NoThread /\ s.prio[o] = s.prio[x]
                    THEN UpdatePriority(s, o, MutexPrio(o, taken[o], mp, ceiling))
                    ELSE sched' = s /\ UNCHANGED chain
  /\ pending' = [pending EXCEPT ![x] = NoMutex]
  /\ timer' = [timer EXCEPT ![x] = FALSE]
  /\ pc' = [pc EXCEPT ![t] = "free", ![x] = "closed"]
  /\ victim' = x
  /\ UNCHANGED <<owner, hold, ceiling, live, taken, err, ttmr, want>>

FreeTaken_NoHandOver(t, m) ==
  /\ At(t, "free")
  /\ victim = t
  /\ m \in taken[t]
  /\ owner' = [owner EXCEPT ![m] = NoThread]
  /\ hold'  = [hold EXCEPT ![m] = 0]
  /\ taken' = [taken EXCEPT ![t] = @ \ {m}]
  /\ UNCHANGED <<sched, mprio, ceiling, waitq, live, threadVars, codeVars>>

\* One turn of the loop: hold is set to 1 and rt_mutex_release is called, by
\* the current thread.  It releases only what the current thread owns.
FreeTaken(t, m) ==
  /\ At(t, "free")
  /\ victim = t
  /\ m \in taken[t]
  /\ ReleaseLast(t, m)
  /\ UNCHANGED codeVars

\* The end of _thread_exit, and of _thread_detach for another thread: then
\* every rt_mutex_release of the loop has returned -RT_ERROR.
CloseReturn(t) ==
  /\ At(t, "free")
  /\ \/ /\ victim = t /\ taken[t] = {}
        /\ sched' = Schedule(ExitCritical(sched))
        /\ pc' = [pc EXCEPT ![t] = "closed"]
        /\ UNCHANGED hold
     \/ /\ victim # t
        /\ sched' = ExitCritical(sched)
        /\ pc' = [pc EXCEPT ![t] = "run"]
        /\ hold' = [m \in Mutexes |-> IF m \in taken[victim] THEN 1 ELSE hold[m]]
  /\ victim' = NoThread
  /\ UNCHANGED <<owner, mprio, ceiling, waitq, live, taken, threadVars,
                 want, chain>>

\* rt_mutex_detach: rt_susp_list_resume_all dequeues one waiter at a time, with
\* interrupts enabled in between
Detach(t, m) ==
  /\ "detach" \in Features
  /\ At(t, "run") /\ live[m]
  /\ pc' = [pc EXCEPT ![t] = "wake"]
  /\ want' = [want EXCEPT ![t] = m]
  /\ UNCHANGED <<sched, mutexVars, threadVars, chain, victim>>

DetachWake(t) ==
  LET m == want[t]
      n == Head(waitq[m])
  IN  /\ At(t, "wake")
      /\ waitq[m] # <<>> /\ CanReady(n)
      /\ waitq' = [waitq EXCEPT ![m] = Tail(@)]
      /\ sched' = Insert(sched, n)
      /\ err'   = [err EXCEPT ![n] = "error"]
      /\ timer' = [timer EXCEPT ![n] = FALSE]
      /\ ttmr'  = [ttmr EXCEPT ![n] = FALSE]
      /\ UNCHANGED <<owner, hold, mprio, ceiling, live, taken, pending, codeVars>>

DetachReturn_StaysTaken(t) ==
  /\ At(t, "wake")
  /\ waitq[want[t]] = <<>>
  /\ sched' = ExitCritical(sched)
  /\ live' = [live EXCEPT ![want[t]] = FALSE]
  /\ pc' = [pc EXCEPT ![t] = "run"]
  /\ want' = [want EXCEPT ![t] = NoMutex]
  /\ UNCHANGED <<owner, hold, mprio, ceiling, waitq, taken, threadVars, chain, victim>>

\* _mutex_before_delete_detach after that, rt_spin_unlock, rt_object_detach.
\* The owner field keeps its value.
DetachReturn(t) ==
  LET m == want[t]
      o == owner[m]
  IN  /\ At(t, "wake")
      /\ waitq[m] # <<>> => ~CanReady(Head(waitq[m]))
      /\ IF o = NoThread
         THEN sched' = ExitCritical(sched) /\ UNCHANGED taken
         ELSE LET left == taken[o] \ {m}
                  s    == CheckedPrio(o, m, left)
              IN  /\ taken' = [taken EXCEPT ![o] = left]
                  /\ sched' = ExitCritical(IF ChecksPrio(o, m) THEN Resched(s) ELSE s)
      /\ live' = [live EXCEPT ![m] = FALSE]
      /\ pc' = [pc EXCEPT ![t] = "run"]
      /\ want' = [want EXCEPT ![t] = NoMutex]
      /\ UNCHANGED <<owner, hold, mprio, ceiling, waitq, threadVars, chain, victim>>

-----------------------------------------------------------------------------
Init ==
  /\ sched = AllAsleep
  /\ owner = [m \in Mutexes |-> NoThread]
  /\ hold = [m \in Mutexes |-> 0]
  /\ mprio = [m \in Mutexes |-> NoPrio]
  /\ ceiling = [m \in Mutexes |-> NoPrio]
  /\ waitq = [m \in Mutexes |-> <<>>]
  /\ live = [m \in Mutexes |-> TRUE]
  /\ taken = [t \in Thread |-> {}]
  /\ pending = [t \in Thread |-> NoMutex]
  /\ err = [t \in Thread |-> "ok"]
  /\ timer = [t \in Thread |-> t # Idle]
  /\ ttmr = [t \in Thread |-> t # Idle]
  /\ pc = [t \in Thread |-> "run"]
  /\ want = [t \in Thread |-> NoMutex]
  /\ chain = NoThread
  /\ victim = NoThread

\* What the thread that has the CPU must do next, inside an operation
Continue(t) ==
  \/ TakeArm(t) \/ TakeSwitch(t)
  \/ TakeGranted(t) \/ TakeFailed(t) \/ TakeUnlock(t) \/ TakeReturn(t)
  \/ SetCeilingReturn(t)
  \/ \E m \in Mutexes : FreeTaken(t, m)
  \/ CloseReturn(t)
  \/ DetachWake(t) \/ DetachReturn(t)

\* What it may choose to do
Call(t) ==
  \/ \E m \in Mutexes :
       \/ TakeAgain(t, m) \/ TakeFree(t, m) \/ TakeBlock(t, m)
       \/ ReleaseAgain(t, m) \/ Release(t, m)
       \/ Detach(t, m)
       \/ \E p \in SetPrios : SetCeiling(t, m, p)
  \/ Sleep(t)
  \/ \E x \in Thread, p \in SetPrios : ChangePriority(t, x, p)
  \/ \E x \in Thread : Resume(t, x)
  \/ Exit(t)
  \/ \E x \in Thread : Delete(t, x)

Next ==
  \/ \E t \in Thread : Call(t) \/ Continue(t) \/ TimerExpires(t)
  \/ SliceEnds
  \/ Propagate

Spec == Init /\ [][Next]_vars
-----------------------------------------------------------------------------
(* Safety properties                                                       *)

\* Type correctness of the kernel objects and of the code positions.
TypeOK ==
  /\ sched \in SchedState
  /\ owner \in [Mutexes -> Thread \cup {NoThread}]
  /\ hold \in [Mutexes -> 0 .. HoldMax]
  /\ mprio \in [Mutexes -> 0 .. PrioMax]
  /\ ceiling \in [Mutexes -> 0 .. PrioMax]
  /\ waitq \in [Mutexes -> Seq(Thread)]
  /\ live \in [Mutexes -> BOOLEAN]
  /\ taken \in [Thread -> SUBSET Mutexes]
  /\ pending \in [Thread -> Mutexes \cup {NoMutex}]
  /\ err \in [Thread -> {"ok", "timeout", "error"}]
  /\ timer \in [Thread -> BOOLEAN]
  /\ ttmr \in [Thread -> BOOLEAN]
  /\ pc \in [Thread -> PC]
  /\ want \in [Thread -> Mutexes \cup {NoMutex}]
  /\ chain \in Thread \cup {NoThread}
  /\ victim \in Thread \cup {NoThread}

\* The three records of who holds a mutex agree: mutex->owner, mutex->hold and
\* the taken_object_list of the owner, through hand-overs, exits and deletions.
OwnerConsistent ==
  \A m \in Mutexes :
    /\ live[m] => /\ \A t \in Thread : m \in taken[t] <=> owner[m] = t
                  /\ hold[m] = 0 <=> owner[m] = NoThread
    /\ ~live[m] => \A t \in Thread : m \notin taken[t]

\* The one list node of a thread is on the list its state calls for: on the
\* ready queue of its current priority exactly if it is ready, on the wait list
\* of the mutex it is pending on only while suspended, never twice on a list.
OneList ==
  /\ \A p \in Prio : \A t \in ToSet(sched.ready[p]) :
       sched.stat[t] = "ready" /\ sched.prio[t] = p
  /\ \A t \in Thread : sched.stat[t] = "ready"
       => t \in ToSet(sched.ready[sched.prio[t]])
  /\ \A m \in Mutexes : \A t \in ToSet(waitq[m]) :
       sched.stat[t] = "suspend" /\ pending[t] = m
  /\ \A p \in Prio : IsInjective(sched.ready[p])
  /\ \A m \in Mutexes : IsInjective(waitq[m])

\* No hand-over is lost: nobody waits for a mutex that is free or is its own.
NobodyWaitsForFree ==
  \A m \in Mutexes : \A t \in ToSet(waitq[m]) : owner[m] \notin {NoThread, t}

\* The timeout of a suspended thread is pending whenever the kernel thinks it
\* is, so that rt_sched_thread_ready never fails on a waiter and the retry loop
\* of rt_mutex_release is not entered on one CPU; and only a suspended thread
\* has a timeout (the assertion of _thread_timeout).
TimerOnlyWhenSuspended ==
  \A t \in Thread : /\ timer[t] => sched.stat[t] = "suspend"
                    /\ sched.stat[t] = "suspend" => ttmr[t] = timer[t]

\* The wait list is in priority order, equal priorities first come first.
Ordered(q, prio) == IsSorted(q, LAMBDA t, u : prio[t] <= prio[u])
WaitSorted == chain = NoThread => \A m \in Mutexes : Ordered(waitq[m], sched.prio)

\* Priority inheritance, transitively: no thread waits for a mutex whose owner
\* runs at a lower priority than it does.
Inherits ==
  chain = NoThread =>
    \A m \in Mutexes : \A t \in ToSet(waitq[m]) :
      sched.prio[owner[m]] <= sched.prio[t]

\* The boost is exact: a thread runs at the priority that its own and the
\* mutexes it holds call for, no higher.
Boosted(t) == sched.prio[t] = MutexPrio(t, taken[t], mprio, ceiling)
ExactBoost == chain = NoThread => \A t \in Thread : Boosted(t)

\* Outside of a critical section no ready thread has a higher priority than the
\* one that has the CPU, lent and taken-back priorities included.
HighestRuns ==
  chain = NoThread /\ pc[cur] \notin LockedPC =>
    \A t \in Thread : sched.stat[t] = "ready" => sched.prio[cur] <= sched.prio[t]

\* A section with the scheduler locked is left by the thread that entered it:
\* interrupts wake threads meanwhile, but none of them gets the CPU.
OnlyRunningHoldsLock == \A t \in Thread : pc[t] \in LockedPC => t = cur

\* A take that finds the mutex handed to it was woken by that hand-over and not
\* by its timeout or by the mutex going away (the assertion of _rt_mutex_take).
GrantedCleanly ==
  \A t \in Thread : pc[t] = "wait" /\ owner[want[t]] = t => err[t] = "ok"

\* A wait ends in one way: by a clean grant, by the timeout or by a resume, and
\* whichever it is, the timer of the thread is stopped with it.
CleanEnd == GrantedCleanly /\ TimerOnlyWhenSuspended

\* A closed thread owns nothing: what it held was released or handed on.
NoDeadOwner == \A m \in Mutexes : owner[m] # NoThread => pc[owner[m]] # "closed"

-----------------------------------------------------------------------------
(* The inductive invariant of the proofs                                   *)

\* The operations that use the mutex they were called for still know it.
WantKnown ==
  \A t \in Thread :
    pc[t] \in {"arm", "block", "wait", "fail", "clear", "wake"} => want[t] \in Mutexes

\* pending_object is set only inside a take that was not granted.
PendingOnlyInTake ==
  \A t \in Thread :
    /\ pc[t] \notin {"arm", "block", "wait", "fail", "clear"} => pending[t] = NoMutex
    /\ pc[t] \in {"arm", "block", "wait"} /\ owner[want[t]] = t => pending[t] = NoMutex

\* A thread suspended on a mutex is on its wait list, so that a release finds
\* it, and the mutex has an owner, so that the loop of _thread_update_priority
\* may follow mutex->owner without testing it.
WaitersListed ==
  \A t \in Thread : sched.stat[t] = "suspend" /\ pending[t] # NoMutex =>
    /\ t \in ToSet(waitq[pending[t]])
    /\ owner[pending[t]] # NoThread

TimersAgree == \A t \in Thread : sched.stat[t] = "suspend" => ttmr[t] = timer[t]

\* The thread that closes another one, or itself, knows which.
VictimKnown == \A t \in Thread : pc[t] = "free" => victim \in Thread

OwnersInv ==
  /\ TypeOK
  /\ WantKnown
  /\ PendingOnlyInTake
  /\ WaitersListed
  /\ TimersAgree
  /\ OnlyRunningHoldsLock
  /\ VictimKnown
  /\ OwnerConsistent

\* Whoever stands on the wait list of m is suspended there, and stands on it
\* once.
ListRight(m) ==
  /\ IsInjective(waitq[m])
  /\ \A t \in ToSet(waitq[m]) : sched.stat[t] = "suspend" /\ pending[t] = m

\* A thread is suspended asleep or in a take that has neither been granted nor
\* ended otherwise, with the mutex pending and no error yet; a timeout runs only
\* then, and the mutex comes to it only while there is no error.
WaitRight(t) ==
  /\ pc[t] = "arm" => sched.stat[t] = "suspend"
  /\ sched.stat[t] = "suspend" => pc[t] \in {"run", "arm", "block", "wait"}
  /\ sched.stat[t] = "suspend" /\ pc[t] # "run" =>
       /\ pending[t] = want[t]
       /\ owner[want[t]] # t
       /\ err[t] = "ok"
  /\ pc[t] \in {"block", "wait"} /\ owner[want[t]] = t => err[t] = "ok"
  /\ timer[t] => sched.stat[t] = "suspend" /\ pc[t] # "arm"

ListsInv ==
  /\ SchedInv(sched)
  /\ \A m \in Mutexes : ListRight(m)
  /\ \A t \in Thread : WaitRight(t)

IInv == OwnersInv /\ ListsInv

-----------------------------------------------------------------------------
(* Priority inheritance, and the invariant it rests on.  It is exact where  *)
(* every take waits until it gets the mutex: a wait that ends otherwise, a  *)
(* ceiling and a changed priority leave priorities behind for a while.      *)

PlainTakes == ~Timed /\ Features \subseteq {"exit"}

\* The mutex whose records the loop of _thread_update_priority has yet to
\* bring up to date: the one that the thread it has just changed waits for
LoopAt ==
  IF chain # NoThread /\ sched.stat[chain] = "suspend" THEN pending[chain] ELSE NoMutex

\* Every list is in order, mutex->priority is that of the first waiter and every
\* thread has the priority its mutexes call for, up to that one mutex, its
\* owner, and the place of the changed thread on its list.
BoostInv ==
  /\ \A m \in Mutexes \ {LoopAt} :
       Ordered(waitq[m], sched.prio) /\ mprio[m] = HeadPrio(waitq[m], sched.prio)
  /\ LoopAt # NoMutex => Ordered(Unlink(waitq[LoopAt], chain), sched.prio)
  /\ \A t \in Thread : LoopAt = NoMutex \/ t # owner[LoopAt] => Boosted(t)

\* What cannot happen where every take waits until it gets the mutex
PlainInv ==
  /\ \A m \in Mutexes : live[m] /\ ceiling[m] = NoPrio
  /\ \A t \in Thread : pc[t] \in {"run", "arm", "block", "wait", "free", "closed"}
  /\ \A t \in Thread : pc[t] \in {"block", "wait"} /\ sched.stat[t] # "suspend"
                          => owner[want[t]] = t
  /\ \A t \in Thread : timer[t] => pc[t] = "run"
  /\ \A t \in Thread : pc[t] = "free" => victim = t
  /\ chain # NoThread => pc[cur] = "arm"

InheritInv == PlainInv /\ BoostInv /\ HighestRuns

-----------------------------------------------------------------------------
(* Action properties                                                       *)

\* A mutex goes from one owner straight to a waiter, to one that no other
\* waiter outranks at that moment: nobody else gets it in between.
GoesToHighest ==
  \A m \in Mutexes :
    owner'[m] # owner[m] /\ owner[m] # NoThread /\ waitq[m] # <<>>
    => /\ owner'[m] \in ToSet(waitq[m])
       /\ \A u \in ToSet(waitq[m]) : sched.prio[owner'[m]] <= sched.prio[u]
HandoverToHighest == [][GoesToHighest]_vars

-----------------------------------------------------------------------------
(* Refinement: the mutex is a HandoverLock whose waiters are the threads on *)
(* the wait list.                                                           *)

Lock == INSTANCE HandoverLock WITH
          holder  <- owner,
          count   <- hold,
          waiting <- [m \in Mutexes |-> ToSet(waitq[m])],
          closing <- victim

\* Every step of the kernel is a step of the promised lock or leaves it alone.
ImplementsLock == Lock!LockSpec

-----------------------------------------------------------------------------
(* Liveness.  The processor runs the code of the operations, timeouts      *)
(* expire, and a thread that gets the CPU again and again while it holds a *)
(* mutex releases it some time.  Nothing is assumed of the other choices:  *)
(* a thread may compute forever.                                           *)

FairSpec ==
  /\ Spec
  /\ WF_vars(Propagate)
  /\ \A t \in Thread : WF_vars(Continue(t)) /\ WF_vars(TimerExpires(t))
  /\ \A t \in Thread, m \in Mutexes : SF_vars(Release(t, m))

\* The loop of _thread_update_priority ends, also if the threads wait for one
\* another in a circle.
LoopEnds == chain # NoThread ~> chain = NoThread

\* t is one of a set of threads that wait for one another's mutexes.
Deadlocked(t) ==
  \E S \in SUBSET Thread :
    /\ t \in S
    /\ \A u \in S : /\ sched.stat[u] = "suspend" /\ pending[u] # NoMutex
                   /\ owner[pending[u]] \in S

\* No unbounded priority inversion: a thread that outranks all others and waits
\* for a mutex gets it, whatever the threads in between do with the CPU, unless
\* the program takes its mutexes in an order that deadlocks.
Highest == {t \in Thread : \A u \in Thread \ {t} : InitPrio[t] < InitPrio[u]}
HighestGets ==
  \A t \in Highest : \A m \in Mutexes :
    pc[t] = "wait" /\ want[t] = m ~> owner[m] = t \/ Deadlocked(t)
=============================================================================
