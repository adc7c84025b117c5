------------------------------- MODULE Timer -------------------------------
(***************************************************************************)
(* The kernel timers (timer.c): hard timers, called in the tick interrupt, *)
(* and soft timers, called in the thread "timer".  A callback is any       *)
(* number of calls of this interface, on its own timer or another; threads *)
(* and other interrupts make the same calls while a soft callback runs.    *)
(*                                                                         *)
(* left is not in the code: it counts down the ticks that are really left, *)
(* so that the comparisons of the wrapping counter can be held against it. *)
(* The skip list has one level (RT_TIMER_SKIP_LIST_LEVEL), a plain list.   *)
(*                                                                         *)
(* A definition X_Fault, before X, is X with a fault that the properties   *)
(* are meant to detect; no other definition uses it.                       *)
(***************************************************************************)
EXTENDS Clock, SequencesExt

CONSTANTS
  Timers,
  NoTimer,
  SoftTimers,  \* the timers created with RT_TIMER_FLAG_SOFT_TIMER
  Times        \* the timeouts that programs ask for

ASSUME TimerAssumption ==
  /\ NoTimer \notin Timers
  /\ SoftTimers \subseteq Timers
  \* "time" below half the range is asserted by rt_timer_init and rt_timer_control
  /\ Comparable(Times) /\ Times \ {0} # {}

Kind == {"hard", "soft"}
KindOf(t) == IF t \in SoftTimers THEN "soft" ELSE "hard"

\* The timeouts that t may be given.  The assertions permit 0, but a soft timer
\* that is started with it in the tick TickMax is not due by the comparison in
\* rt_timer_check until the counter is there again: soft timers wait a tick.
TimesOf(t) == IF t \in SoftTimers THEN Times \ {0} ELSE Times

VARIABLES
  list,       \* _timer_list and _soft_timer_list
  timeout,    \* timer->timeout_tick; 0 while the timer is not in a list, where
              \* the old value stays in the code and nothing compares it
  init,       \* timer->init_tick
  activated,  \* the timers with RT_TIMER_FLAG_ACTIVATED
  periodic,   \* the timers with RT_TIMER_FLAG_PERIODIC
  live,       \* the timers that are initialised and not detached
  called,     \* the timer whose callback _timer_check is in, per kind
  onList,     \* it is still on the temporary list of _timer_check
  inIsr,      \* the tick interrupt is in rt_timer_check
  tpc,        \* where the thread "timer" stands
  sem,        \* _soft_timer_sem.value
  left         \* ticks left until the timeout of a timer in a list

flags == <<activated, periodic, live>>
checkVars == <<called, onList>>
threadVars == <<inIsr, tpc, sem>>
timerVars == <<tick, list, timeout, init, flags, checkVars, threadVars, left>>

SomeTime == CHOOSE n \in Times \ {0} : TRUE

-----------------------------------------------------------------------------
(* The lists                                                               *)

Listed(t) == \E i \in DOMAIN list[KindOf(t)] : list[KindOf(t)][i] = t

\* _timer_remove: t leaves whatever list it is on, the temporary one included.
Removed(t) == [list EXCEPT ![KindOf(t)] = RemoveFirst(@, t)]
LeavesTemporary(t) == [k \in Kind |-> onList[k] /\ called[k] # t]

\* u comes later than a timer with the timeout to, and not at the same time.
Behind(u, to) == Minus(timeout[u], to) \in 1 .. Half - 1

\* q with t where it stands ahead of the later timers and behind its equals.
Inserted(q, t, to) ==
  LET later == {i \in DOMAIN q : Behind(q[i], to)}
  IN  InsertAt(q, IF later = {} THEN Len(q) + 1 ELSE Min(later), t)

StartAt(t) == (tick + init[t]) % (TickMax + 1)

\* _timer_start
StartTimer(t) ==
  /\ timeout' = [timeout EXCEPT ![t] = StartAt(t)]
  /\ list' = [list EXCEPT ![KindOf(t)] =
                Inserted(Removed(t)[KindOf(t)], t, StartAt(t))]
  /\ activated' = activated \cup {t}
  /\ left' = [left EXCEPT ![t] = init[t]]

\* _timer_remove and the flag
StopTimer(t) ==
  /\ list' = Removed(t)
  /\ onList' = LeavesTemporary(t)
  /\ timeout' = [timeout EXCEPT ![t] = 0]
  /\ left' = [left EXCEPT ![t] = 0]
  /\ activated' = activated \ {t}

-----------------------------------------------------------------------------
(* Calls by the program: from any thread, and from the callback of a hard  *)
(* timer in the interrupt.  Each runs with interrupts disabled.            *)

CanCall == ~inIsr \/ called["hard"] # NoTimer

\* rt_timer_init, rt_timer_create
Create(t, n, p) ==
  /\ CanCall
  /\ t \notin live
  /\ live' = live \cup {t}
  /\ init' = [init EXCEPT ![t] = n]
  /\ periodic' = IF p THEN periodic \cup {t} ELSE periodic \ {t}
  /\ UNCHANGED <<tick, list, timeout, activated, checkVars, threadVars, left>>

\* rt_timer_start
Start(t) ==
  /\ CanCall
  /\ t \in live
  /\ StartTimer(t)
  /\ onList' = LeavesTemporary(t)
  /\ UNCHANGED <<tick, init, periodic, live, called, threadVars>>

\* rt_timer_stop; of a timer that is not ACTIVATED it changes nothing
Stop(t) ==
  /\ CanCall
  /\ t \in live \cap activated
  /\ StopTimer(t)
  /\ UNCHANGED <<tick, init, periodic, live, called, threadVars>>

\* rt_timer_control(t, RT_TIMER_CTRL_SET_TIME, n)
SetTime(t, n) ==
  /\ CanCall
  /\ t \in live
  /\ init' = [init EXCEPT ![t] = n]
  /\ IF t \in activated
     THEN StopTimer(t)
     ELSE UNCHANGED <<list, onList, timeout, left, activated>>
  /\ UNCHANGED <<tick, periodic, live, called, threadVars>>

\* RT_TIMER_CTRL_SET_PERIODIC and RT_TIMER_CTRL_SET_ONESHOT
SetMode(t, p) ==
  /\ CanCall
  /\ t \in live
  /\ periodic' = IF p THEN periodic \cup {t} ELSE periodic \ {t}
  /\ UNCHANGED <<tick, list, timeout, init, activated, live, checkVars,
                 threadVars, left>>

\* rt_timer_detach, rt_timer_delete.  What the dead object still holds does not
\* matter: Create writes all of it.
Detach(t) ==
  /\ CanCall
  /\ t \in live
  /\ StopTimer(t)
  /\ live' = live \ {t}
  /\ init' = [init EXCEPT ![t] = SomeTime]
  /\ periodic' = periodic \ {t}
  /\ UNCHANGED <<tick, called, threadVars>>

-----------------------------------------------------------------------------
(* _timer_check, one loop for each kind                                    *)

Expired_ByValue(t) == timeout[t] <= tick

Expired(t) == Minus(tick, timeout[t]) < Half

HeadExpired(k) == list[k] # <<>> /\ Expired(Head(list[k]))

\* The loop runs in the interrupt for hard timers, with interrupts disabled
\* outside of callbacks too, and in the thread for soft ones.
InLoop(k) ==
  /\ called[k] = NoTimer
  /\ IF k = "hard" THEN inIsr ELSE ~inIsr /\ tpc = "check"

\* The first timer has expired: it moves to the temporary list and is called.
Expire(k) ==
  /\ InLoop(k)
  /\ HeadExpired(k)
  /\ LET t == Head(list[k])
     IN  /\ list' = [list EXCEPT ![k] = Tail(@)]
         /\ called' = [called EXCEPT ![k] = t]
         /\ onList' = [onList EXCEPT ![k] = TRUE]
         /\ timeout' = [timeout EXCEPT ![t] = 0]
         /\ left' = [left EXCEPT ![t] = 0]
         /\ activated' = IF t \in periodic THEN activated ELSE activated \ {t}
  /\ UNCHANGED <<tick, init, periodic, live, threadVars>>

InCallback(k) ==
  /\ called[k] # NoTimer
  /\ IF k = "hard" THEN inIsr ELSE ~inIsr /\ tpc = "check"

CallbackReturns_NoListCheck(k) ==
  /\ InCallback(k)
  /\ called' = [called EXCEPT ![k] = NoTimer]
  /\ onList' = [onList EXCEPT ![k] = FALSE]
  /\ LET t == called[k]
     IN  IF t \in periodic \cap activated
         THEN StartTimer(t)
         ELSE /\ list' = Removed(t)
              /\ UNCHANGED <<timeout, activated, left>>
  /\ UNCHANGED <<tick, init, periodic, live, threadVars>>

\* The callback returns.  A timer that was detached or started again meanwhile
\* is not on the temporary list any more and is left alone.
CallbackReturns(k) ==
  /\ InCallback(k)
  /\ called' = [called EXCEPT ![k] = NoTimer]
  /\ onList' = [onList EXCEPT ![k] = FALSE]
  /\ LET t == called[k]
     IN  IF onList[k] /\ t \in periodic \cap activated
         THEN StartTimer(t)
         ELSE UNCHANGED <<list, timeout, activated, left>>
  /\ UNCHANGED <<tick, init, periodic, live, threadVars>>

-----------------------------------------------------------------------------
(* The tick interrupt and the thread                                       *)

\* rt_sem_release by the interrupt; the value is limited to 1.
WakeThread_IfAsleep ==
  IF tpc = "wait" THEN tpc' = "check" /\ UNCHANGED sem ELSE UNCHANGED <<tpc, sem>>

WakeThread ==
  IF tpc = "wait" THEN tpc' = "check" /\ UNCHANGED sem ELSE sem' = 1 /\ UNCHANGED tpc

\* rt_tick_increase and the first part of rt_timer_check.  The due time of the
\* soft timers is compared as a number, the wrap is not regarded.
TickInterrupt ==
  /\ ~inIsr
  /\ \A t \in SoftTimers : Listed(t) => left[t] > -MaxLate
  /\ tick' = (tick + 1) % (TickMax + 1)
  /\ left' = [t \in Timers |-> IF Listed(t) THEN left[t] - 1 ELSE left[t]]
  /\ inIsr' = TRUE
  /\ IF list["soft"] # <<>> /\ timeout[Head(list["soft"])] <= tick'
     THEN WakeThread
     ELSE UNCHANGED <<tpc, sem>>
  /\ UNCHANGED <<list, timeout, init, flags, checkVars>>

\* No hard timer is due any more: the interrupt returns.
TickReturn ==
  /\ InLoop("hard")
  /\ ~HeadExpired("hard")
  /\ inIsr' = FALSE
  /\ UNCHANGED <<tick, list, timeout, init, flags, checkVars, tpc, sem, left>>

\* _timer_check of the thread ends ...
CheckEnds ==
  /\ InLoop("soft")
  /\ ~HeadExpired("soft")
  /\ tpc' = "take"
  /\ UNCHANGED <<tick, list, timeout, init, flags, checkVars, inIsr, sem, left>>

\* ... and the thread calls rt_sem_take.
TakeSem ==
  /\ ~inIsr
  /\ tpc = "take"
  /\ IF sem = 1
     THEN sem' = 0 /\ tpc' = "check"
     ELSE tpc' = "wait" /\ UNCHANGED sem
  /\ UNCHANGED <<tick, list, timeout, init, flags, checkVars, inIsr, left>>

TimerInit ==
  /\ tick = 0
  /\ list = [k \in Kind |-> <<>>]
  /\ timeout = [t \in Timers |-> 0]
  /\ init = [t \in Timers |-> SomeTime]
  /\ activated = {} /\ periodic = {} /\ live = {}
  /\ called = [k \in Kind |-> NoTimer]
  /\ onList = [k \in Kind |-> FALSE]
  /\ inIsr = FALSE
  /\ tpc = "check"
  /\ sem = 0
  /\ left = [t \in Timers |-> 0]

TimerNext ==
  \/ TickInterrupt \/ TickReturn \/ CheckEnds \/ TakeSem
  \/ \E k \in Kind : Expire(k) \/ CallbackReturns(k)
  \/ \E t \in Timers :
       \/ Start(t) \/ Stop(t) \/ Detach(t)
       \/ \E n \in TimesOf(t) : SetTime(t, n) \/ \E p \in BOOLEAN : Create(t, n, p)
       \/ \E p \in BOOLEAN : SetMode(t, p)

TimerSpec == TimerInit /\ [][TimerNext]_timerVars


-----------------------------------------------------------------------------
(* Safety                                                                  *)

\* Ticks stay below the wrap, and the lists hold live, active timers, each
\* once and in the list of its kind: none that was detached or stopped while
\* _timer_check was in its callback.
TimerTypeOK ==
  /\ tick \in Ticks /\ timeout \in [Timers -> Ticks]
  /\ init \in [Timers -> Times] /\ \A t \in Timers : init[t] \in TimesOf(t)
  /\ activated \subseteq live /\ periodic \subseteq Timers /\ live \subseteq Timers
  /\ called \in [Kind -> Timers \cup {NoTimer}] /\ onList \in [Kind -> BOOLEAN]
  /\ inIsr \in BOOLEAN /\ tpc \in {"check", "take", "wait"} /\ sem \in {0, 1}
  /\ left \in [Timers -> -MaxLate .. Half - 1]
  /\ \A k \in Kind :
       /\ \A i \in DOMAIN list[k] :
            /\ KindOf(list[k][i]) = k /\ list[k][i] \in activated
            /\ \A j \in DOMAIN list[k] : list[k][i] = list[k][j] => i = j
       /\ onList[k] => called[k] \in live /\ ~Listed(called[k])

\* "Timer callbacks are invoked at the expected tick count" (timer_tc.c): a hard
\* timer is called in the tick it is due, neither earlier nor later, a soft one
\* not earlier, also when the tick counter has wrapped since its start, and
\* whatever was started and stopped in front of it.  A hard timer that a thread
\* starts with the timeout 0 has missed the interrupt of its tick and is called
\* in the next one.
OnTime ==
  [][\A t \in Timers, k \in Kind :
       called'[k] = t /\ called[k] # t =>
         /\ left[t] <= 0
         /\ k = "hard" => left[t] = 0 \/ (left[t] = -1 /\ init[t] = 0)]_timerVars

\* No hard timer is left behind by the interrupt, and when a soft timer is due
\* the thread is awake or has a unit of the semaphore to take: the interrupt
\* looks at the head of the list only, once in a tick, while the thread may be
\* anywhere between its look at the list and its sleep.  Only what was started
\* with the timeout 0 since the last interrupt waits for the next.
DueIsServed ==
  \A t \in Timers :
    Listed(t) /\ left[t] <= 0 =>
      IF t \in SoftTimers THEN tpc # "wait" \/ sem = 1
      ELSE inIsr \/ (left[t] = 0 /\ init[t] = 0)

\* The lists of timers, and nothing overdue in them that nobody will look at.
TimerInv == TimerTypeOK /\ DueIsServed

\* A timer that was started leaves its list only to be called, or because the
\* program stops it: _timer_check, back from the callback of a timer that was
\* started again meanwhile, must not take it off the list.
NeverLost ==
  [][\A t \in Timers :
       Listed(t) /\ ~Listed(t)' =>
         \/ called'[KindOf(t)] = t /\ called[KindOf(t)] # t
         \/ t \notin activated']_timerVars
=============================================================================
