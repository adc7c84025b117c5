------------------------------- MODULE Event -------------------------------
(***************************************************************************)
(* The RT-Thread event set (ipc.c, RT_USING_EVENT).                        *)
(*                                                                         *)
(* A definition X_Fault, before X, is X with a fault that the properties   *)
(* are meant to detect; no other definition uses it.                       *)
(***************************************************************************)
EXTENDS KWait

CONSTANT Bits   \* the event bits in use

\* One wait list, event->parent.suspend_thread
ASSUME EventAssumption == Queue = {"susp"}

VARIABLES
  set,       \* event->set
  eventSet,  \* thread->event_set: what it waits for, then what it received
  option,    \* thread->event_info, as a set of flags
  asked,     \* the argument set of the call the thread is in
  attached   \* the event is not detached

eventVars == <<set, eventSet, option, asked, attached>>
allEventVars == <<waitVars, eventVars>>

\* RT_EVENT_FLAG_AND or RT_EVENT_FLAG_OR, with or without RT_EVENT_FLAG_CLEAR;
\* a call with both is one with AND, a call with neither fails an assertion.
Options == {{"and"}, {"or"}, {"and", "clear"}, {"or", "clear"}}

\* The events present satisfy a request for wanted with option opt.
Satisfied(wanted, opt, present) ==
  IF "and" \in opt THEN wanted \subseteq present ELSE wanted \cap present # {}

\* rt_event_recv with the events there
RecvNow(t, s, opt) ==
  /\ At(t, "run") /\ attached
  /\ Satisfied(s, opt, set)
  /\ eventSet' = [eventSet EXCEPT ![t] = set \cap s]
  /\ option' = [option EXCEPT ![t] = opt]
  /\ set' = IF "clear" \in opt THEN set \ s ELSE set
  /\ asked' = [asked EXCEPT ![t] = s]
  /\ pc' = [pc EXCEPT ![t] = "done"]
  /\ UNCHANGED <<sched, waitq, err, timer, ttmr, attached>>

\* without them and with timeout 0 nothing changes; with a timeout it waits
RecvWait(t, s, opt) ==
  /\ At(t, "run") /\ attached
  /\ ~Satisfied(s, opt, set)
  /\ \E timed \in Timeouts : Block(t, "susp", timed, "switch")
  /\ eventSet' = [eventSet EXCEPT ![t] = s]
  /\ option' = [option EXCEPT ![t] = opt]
  /\ asked' = [asked EXCEPT ![t] = s]
  /\ UNCHANGED <<set, attached>>

RecvSwitch(t) == Switch(t, "switch", "wait") /\ UNCHANGED eventVars

RecvWoken_AnyError(t) ==
  /\ At(t, "wait")
  /\ pc' = [pc EXCEPT ![t] = "done"]
  /\ UNCHANGED <<sched, waitq, err, timer, ttmr, eventVars>>

\* The thread runs again and thread->error says it received events ...
RecvWoken(t) ==
  /\ At(t, "wait") /\ err[t] = "ok"
  /\ pc' = [pc EXCEPT ![t] = "done"]
  /\ UNCHANGED <<sched, waitq, err, timer, ttmr, eventVars>>

\* ... or why not.
RecvFails(t) ==
  /\ At(t, "wait") /\ err[t] # "ok"
  /\ Return(t)
  /\ eventSet' = [eventSet EXCEPT ![t] = {}]
  /\ option' = [option EXCEPT ![t] = {}]
  /\ asked' = [asked EXCEPT ![t] = {}]
  /\ UNCHANGED <<sched, waitq, timer, ttmr, set, attached>>

\* *recved is thread->event_set and the result RT_EOK.  The fields keep their
\* values until the next call, which overwrites them unread.
RecvReturn(t) ==
  /\ At(t, "done")
  /\ Return(t)
  /\ eventSet' = [eventSet EXCEPT ![t] = {}]
  /\ option' = [option EXCEPT ![t] = {}]
  /\ asked' = [asked EXCEPT ![t] = {}]
  /\ UNCHANGED <<sched, waitq, timer, ttmr, set, attached>>

\* The waiters, in the order of the list, that a set of events satisfies
Served(present) ==
  Without(waitq["susp"],
          {t \in Thread : ~Satisfied(eventSet[t], option[t], present)})

\* What a waiter receives: an OR request, only the events that came
Received(t, present) ==
  IF "and" \in option[t] THEN eventSet[t] ELSE eventSet[t] \cap present

Cleared_FirstOnly(ts, present) ==
  IF ts = <<>> \/ "clear" \notin option[Head(ts)] THEN {} ELSE Received(Head(ts), present)

\* The events taken out of the set, after all waiters were looked at
Cleared(ts, present) ==
  UNION {Received(t, present) : t \in {u \in ToSet(ts) : "clear" \in option[u]}}

Send_FirstOnly(s) ==
  LET present == set \cup s
      ts      == SubSeq(Served(present), 1, Min({1, Len(Served(present))}))
  IN  /\ attached
      /\ eventSet' = [t \in Thread |->
                        IF t \in ToSet(ts) THEN Received(t, present) ELSE eventSet[t]]
      /\ set' = present \ Cleared(ts, present)
      /\ IF ts = <<>>
         THEN UNCHANGED <<sched, waitq, err, timer, ttmr>>
         ELSE WakeAs(ts, "ok")
      /\ UNCHANGED <<pc, option, asked, attached>>

\* rt_event_send(s), by the running thread or by an interrupt: every waiter
\* that is satisfied is woken.  The result of rt_sched_thread_ready is ignored.
Send(s) ==
  LET present == set \cup s
      ts      == Served(present)
  IN  /\ attached
      /\ eventSet' = [t \in Thread |->
                        IF t \in ToSet(ts) THEN Received(t, present) ELSE eventSet[t]]
      /\ set' = present \ Cleared(ts, present)
      /\ IF ts = <<>>
         THEN UNCHANGED <<sched, waitq, err, timer, ttmr>>
         ELSE WakeAs(ts, "ok")
      /\ UNCHANGED <<pc, option, asked, attached>>

SendByThread(s) == cur # Idle /\ At(cur, "run") /\ Send(s)
SendByIsr(s) == "isr" \in Features /\ Send(s)

\* rt_event_control(RT_IPC_CMD_RESET)
EventReset ==
  /\ "reset" \in Features /\ attached
  /\ cur # Idle /\ At(cur, "run")
  /\ WakeAs(AllOf("susp"), "error")
  /\ set' = {}
  /\ UNCHANGED <<pc, eventSet, option, asked, attached>>

\* rt_event_detach, which does not call rt_schedule
EventDetach ==
  /\ "detach" \in Features /\ attached
  /\ cur # Idle /\ At(cur, "run")
  /\ sched' = Readied(AllOf("susp")) /\ Ready(AllOf("susp"), "error")
  /\ attached' = FALSE
  /\ UNCHANGED <<pc, set, eventSet, option, asked>>

-----------------------------------------------------------------------------
EventInit ==
  /\ WaitInit
  /\ set = {}
  /\ eventSet = [t \in Thread |-> {}]
  /\ option = [t \in Thread |-> {}]
  /\ asked = [t \in Thread |-> {}]
  /\ attached = TRUE

Requests == (SUBSET Bits) \ {{}}

EventContinue(t) == RecvSwitch(t) \/ RecvWoken(t) \/ RecvFails(t) \/ RecvReturn(t)

EventNext ==
  \/ \E t \in Thread :
       \/ \E s \in Requests, opt \in Options : RecvNow(t, s, opt) \/ RecvWait(t, s, opt)
       \/ EventContinue(t)
  \/ \E s \in Requests : SendByThread(s) \/ SendByIsr(s)
  \/ EventReset \/ EventDetach
  \/ Elsewhere /\ UNCHANGED eventVars

EventSpec == EventInit /\ [][EventNext]_allEventVars

-----------------------------------------------------------------------------
(* Properties                                                              *)

\* Type correctness of the event and the waiting threads.  Every waiter's option
\* is one of the four, so the branch of rt_event_send that gives up in the middle
\* of the list is never taken.
EventTypeOK ==
  /\ sched \in SchedState
  /\ waitq \in [Queue -> Seq(Thread)]
  /\ err \in [Thread -> Err]
  /\ timer \in [Thread -> BOOLEAN]
  /\ ttmr \in [Thread -> BOOLEAN]
  /\ pc \in [Thread -> {"run", "switch", "wait", "done"}]
  /\ set \in SUBSET Bits
  /\ eventSet \in [Thread -> SUBSET Bits]
  /\ option \in [Thread -> Options \cup {{}}]
  /\ \A t \in ToSet(waitq["susp"]) : option[t] \in Options
  /\ asked \in [Thread -> SUBSET Bits]
  /\ attached \in BOOLEAN

\* No lost wake-up: nobody waits for events that are there, also after other
\* waiters took some of them out.
NobodyWaitsForEvents ==
  \A t \in ToSet(waitq["susp"]) : ~Satisfied(eventSet[t], option[t], set)

\* The state of the event set and of the waits for it, whatever ended them.
EventInv == EventTypeOK /\ NobodyWaitsForEvents

\* A receive that hands out events hands out what was asked for and satisfies
\* the request, although thread->event_set is also where the request was kept;
\* and thread->error, which it returns later, says so: a request that was
\* interrupted or timed out is never handed out as events.
ReceivedAsAsked ==
  \A t \in Thread : pc[t] = "done" =>
    /\ err[t] = "ok"
    /\ eventSet[t] # {} /\ eventSet[t] \subseteq asked[t]
    /\ "and" \in option[t] => eventSet[t] = asked[t]

\* A thread is given events in this step: it finds them, or a send wakes it.
Got(t) == /\ eventSet'[t] # {}
          /\ \/ pc[t] = "run" /\ pc'[t] = "done"
             \/ t \in ToSet(waitq["susp"]) /\ err[t] # "ok" /\ err'[t] = "ok"

Sends(s) == SendByThread(s) \/ SendByIsr(s)

\* Events are neither made up nor lost nor both given away and kept.  With s what
\* a step sends, if it is a send: nothing but s enters the set, a receiver is
\* given nothing that is not there or sent, what it asked to be cleared is gone
\* from the set, and what leaves the set was given to a receiver that asked for
\* this, unless the event set is reset.
EventsAccounted ==
  [][\E s \in SUBSET Bits :
       /\ s # {} => Sends(s)
       /\ set' \subseteq set \cup s
       /\ \A t \in Thread : Got(t) =>
            /\ eventSet'[t] \subseteq set \cup s
            /\ "clear" \in option'[t] => eventSet'[t] \cap set' = {}
       /\ \A b \in (set \cup s) \ set' :
            \/ EventReset
            \/ \E t \in Thread :
                 Got(t) /\ "clear" \in option'[t] /\ b \in eventSet'[t]]_allEventVars

\* A send reaches exactly those whom the set with the events sent satisfies,
\* though the first of them may clear what it receives: each of them leaves the
\* wait list and is given what it asked for, with OR what there is of it; and
\* the others go on waiting for all that they asked for.
SendReachesAll ==
  [][\A s \in Requests : Sends(s) =>
       \A t \in ToSet(waitq["susp"]) :
         IF Satisfied(asked[t], option[t], set \cup s)
         THEN /\ Got(t) /\ t \notin ToSet(waitq'["susp"])
              /\ eventSet'[t] = asked[t] \cap (set \cup s)
         ELSE t \in ToSet(waitq'["susp"]) /\ eventSet'[t] = asked[t]]_allEventVars
=============================================================================
