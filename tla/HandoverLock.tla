---------------------------- MODULE HandoverLock ----------------------------
(***************************************************************************)
(* What an RT-Thread mutex promises its users, without the scheduler: a    *)
(* recursive lock that a releasing holder hands to one of the waiters, so  *)
(* that it is never free while a thread waits, and that a waiter may also  *)
(* leave empty-handed (a timeout, rt_thread_resume).  While a thread is    *)
(* being closed nobody takes a lock or waits for one.                      *)
(***************************************************************************)
EXTENDS Naturals

CONSTANTS
  Thread,    \* the threads
  NoThread,  \* no holder
  Mutexes,   \* the locks
  HoldMax    \* how often a holder may take its lock

VARIABLES
  holder,    \* who has each lock
  count,     \* how often it took it
  waiting,   \* the threads that wait for each lock
  closing    \* the thread that is being closed, NoThread if none is

lockVars == <<holder, count, waiting, closing>>

Waits(t) == \E m \in Mutexes : t \in waiting[m]

\* t is in no call that waits and may call another one.
Calls(t) == closing = NoThread /\ ~Waits(t)

Acquire(t, m) ==
  /\ Calls(t) /\ holder[m] = NoThread /\ waiting[m] = {}
  /\ holder' = [holder EXCEPT ![m] = t]
  /\ count' = [count EXCEPT ![m] = 1]
  /\ UNCHANGED <<waiting, closing>>

Reacquire(t, m) ==
  /\ Calls(t) /\ holder[m] = t /\ count[m] < HoldMax
  /\ count' = [count EXCEPT ![m] = @ + 1]
  /\ UNCHANGED <<holder, waiting, closing>>

Wait(t, m) ==
  /\ Calls(t) /\ holder[m] \notin {NoThread, t}
  /\ waiting' = [waiting EXCEPT ![m] = @ \cup {t}]
  /\ UNCHANGED <<holder, count, closing>>

GiveUp(t, m) ==
  /\ t \in waiting[m]
  /\ waiting' = [waiting EXCEPT ![m] = @ \ {t}]
  /\ UNCHANGED <<holder, count, closing>>

Undo(t, m) ==
  /\ Calls(t) /\ holder[m] = t /\ count[m] > 1
  /\ count' = [count EXCEPT ![m] = @ - 1]
  /\ UNCHANGED <<holder, waiting, closing>>

\* Only the end of a thread releases at once what it took several times.
LetsGo(t, m) ==
  /\ holder[m] = t /\ ~Waits(t)
  /\ (closing = NoThread /\ count[m] = 1) \/ closing = t

Free(t, m) ==
  /\ LetsGo(t, m) /\ waiting[m] = {}
  /\ holder' = [holder EXCEPT ![m] = NoThread]
  /\ count' = [count EXCEPT ![m] = 0]
  /\ UNCHANGED <<waiting, closing>>

HandOver(t, u, m) ==
  /\ LetsGo(t, m) /\ u \in waiting[m]
  /\ holder' = [holder EXCEPT ![m] = u]
  /\ count' = [count EXCEPT ![m] = 1]
  /\ waiting' = [waiting EXCEPT ![m] = @ \ {u}]
  /\ UNCHANGED closing

Close(t) ==
  /\ closing = NoThread
  /\ closing' = t
  /\ waiting' = [m \in Mutexes |-> waiting[m] \ {t}]
  /\ UNCHANGED <<holder, count>>

\* What a thread closed by another one still has it keeps, but not its counts.
Closed ==
  /\ closing # NoThread
  /\ closing' = NoThread
  /\ \E S \in SUBSET {m \in Mutexes : holder[m] = closing} :
       count' = [m \in Mutexes |-> IF m \in S THEN 1 ELSE count[m]]
  /\ UNCHANGED <<holder, waiting>>

LockInit ==
  /\ holder = [m \in Mutexes |-> NoThread]
  /\ count = [m \in Mutexes |-> 0]
  /\ waiting = [m \in Mutexes |-> {}]
  /\ closing = NoThread

LockNext ==
  \/ \E t \in Thread, m \in Mutexes :
       \/ Acquire(t, m) \/ Reacquire(t, m) \/ Wait(t, m) \/ GiveUp(t, m)
       \/ Undo(t, m) \/ Free(t, m)
       \/ \E u \in Thread : HandOver(t, u, m)
  \/ \E t \in Thread : Close(t)
  \/ Closed

LockSpec == LockInit /\ [][LockNext]_lockVars
=============================================================================
