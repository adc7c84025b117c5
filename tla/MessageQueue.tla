---------------------------- MODULE MessageQueue ----------------------------
(***************************************************************************)
(* The RT-Thread message queue (ipc.c, RT_USING_MESSAGEQUEUE, without      *)
(* RT_USING_MESSAGEQUEUE_PRIORITY): messages are copied into blocks that   *)
(* move between a free list and the queue.  While a block is copied to or  *)
(* from, interrupts are enabled and it is on neither list.                 *)
(*                                                                         *)
(* A definition X_Fault, before X, is X with a fault that the properties   *)
(* are meant to detect; no other definition uses it.                       *)
(***************************************************************************)
EXTENDS KWait

CONSTANTS
  Blocks,   \* the blocks of mq->msg_pool
  Null,     \* RT_NULL where a block is expected
  Msg,      \* the messages
  NoMsg     \* no message

ASSUME MessageQueueAssumption ==
  /\ Queue = {"recv", "send"}
  /\ Null \notin Blocks
  /\ NoMsg \notin Msg
  /\ IsFiniteSet(Blocks) /\ Blocks # {}

MaxMsgs == Cardinality(Blocks)   \* mq->max_msgs

VARIABLES
  next,    \* msg->next of each block
  data,    \* what was copied into it
  head,    \* mq->msg_queue_head
  tail,    \* mq->msg_queue_tail
  free,    \* mq->msg_queue_free
  entry,   \* mq->entry
  live,    \* the queue is not detached
  mine,    \* the block a thread copies to or from
  value,   \* the argument of the send a thread is in
  timed,   \* the call a thread is in has a finite timeout
  got,     \* what the last receive of each thread copied
  ret      \* the sign of what it returned, 0 while it runs

lists == <<next, data, head, tail, free, entry>>
mqVars == <<lists, live, mine, value, timed, got, ret>>
vars == <<waitVars, mqVars>>

\* What next leads to from block b on: the i-th block, or Null behind the last
Walk(b) ==
  LET at[i \in 1 .. MaxMsgs + 1] ==
        IF i = 1 THEN b ELSE IF at[i - 1] = Null THEN Null ELSE next[at[i - 1]]
  IN  at

\* The blocks of a list from block b on
Chain(b) ==
  LET w == Walk(b)
  IN  [i \in 1 .. Cardinality({j \in 1 .. MaxMsgs + 1 : w[j] # Null}) |-> w[i]]

-----------------------------------------------------------------------------
(* The list operations                                                     *)

\* A block is taken off the free list, which is not empty.
Pop == free' = next[free]

Push(b) == free' = b /\ next' = [next EXCEPT ![b] = free]

GiveBack_WakesIfNone(b) ==
  /\ Push(b)
  /\ IF free = Null THEN WakeOne("send", "ok") ELSE UNCHANGED <<sched, waitq, err, timer, ttmr>>

\* A block goes back to the free list and a sender is woken.
GiveBack(b) == Push(b) /\ WakeOne("send", "ok")

LinkLast_KeepsNext(b, v) ==
  /\ data' = [data EXCEPT ![b] = v]
  /\ next' = IF tail = Null THEN next ELSE [next EXCEPT ![tail] = b]
  /\ tail' = b
  /\ head' = IF head = Null THEN b ELSE head
  /\ entry' = entry + 1
  /\ WakeOne("recv", "ok")

LinkLast_WakesIfEmpty(b, v) ==
  /\ data' = [data EXCEPT ![b] = v]
  /\ next' = IF tail = Null THEN [next EXCEPT ![b] = Null]
                            ELSE [next EXCEPT ![b] = Null, ![tail] = b]
  /\ tail' = b
  /\ head' = IF head = Null THEN b ELSE head
  /\ entry' = entry + 1
  /\ IF entry = 0 THEN WakeOne("recv", "ok") ELSE UNCHANGED <<sched, waitq, err, timer, ttmr>>

\* Block b, with v copied into it, becomes the last of the queue.
LinkLast(b, v) ==
  /\ data' = [data EXCEPT ![b] = v]
  /\ next' = IF tail = Null THEN [next EXCEPT ![b] = Null]
                            ELSE [next EXCEPT ![b] = Null, ![tail] = b]
  /\ tail' = b
  /\ head' = IF head = Null THEN b ELSE head
  /\ entry' = entry + 1
  /\ WakeOne("recv", "ok")

LinkFirst(b, v) ==
  /\ data' = [data EXCEPT ![b] = v]
  /\ next' = [next EXCEPT ![b] = head]
  /\ head' = b
  /\ tail' = IF tail = Null THEN b ELSE tail
  /\ entry' = entry + 1
  /\ WakeOne("recv", "ok")

UnlinkFirst_KeepsTail(t) ==
  /\ mine' = [mine EXCEPT ![t] = head]
  /\ head' = next[head]
  /\ entry' = entry - 1
  /\ UNCHANGED <<next, data, free, tail>>

\* The first block leaves the queue and is copied by t.
UnlinkFirst(t) ==
  /\ mine' = [mine EXCEPT ![t] = head]
  /\ head' = next[head]
  /\ tail' = IF tail = head THEN Null ELSE tail
  /\ entry' = entry - 1
  /\ UNCHANGED <<next, data, free>>

-----------------------------------------------------------------------------
(* Sending                                                                 *)

\* rt_mq_send_wait or rt_mq_urgent (l = "copyFront") finds a free block; if it
\* does not and timeout is 0, nothing changes.
SendNow(t, v, l) ==
  /\ At(t, "run") /\ live
  /\ l = "copyFront" => "urgent" \in Features
  /\ free # Null
  /\ Pop
  /\ mine' = [mine EXCEPT ![t] = free]
  /\ value' = [value EXCEPT ![t] = v]
  /\ pc' = [pc EXCEPT ![t] = l]
  /\ UNCHANGED <<sched, waitq, err, timer, ttmr, next, data, head, tail, entry,
                 live, timed, got, ret>>

SendWait(t, v) ==
  /\ At(t, "run") /\ live
  /\ free = Null
  /\ \E b \in Timeouts :
       /\ Block(t, "send", b, "sendSwitch")
       /\ timed' = [timed EXCEPT ![t] = b]
  /\ value' = [value EXCEPT ![t] = v]
  /\ UNCHANGED <<lists, live, mine, got, ret>>

SendSwitch(t) == Switch(t, "sendSwitch", "sendWait") /\ UNCHANGED mqVars

SendFails(t) ==
  /\ At(t, "sendWait") /\ err[t] # "ok"
  /\ Return(t)
  /\ value' = [value EXCEPT ![t] = NoMsg]
  /\ timed' = [timed EXCEPT ![t] = FALSE]
  /\ UNCHANGED <<sched, waitq, timer, ttmr, lists, live, mine, got, ret>>

\* Woken, it looks again: there is a free block ...
SendGoesOn(t) ==
  /\ At(t, "sendWait") /\ err[t] = "ok"
  /\ free # Null
  /\ Pop
  /\ mine' = [mine EXCEPT ![t] = free]
  /\ timed' = [timed EXCEPT ![t] = FALSE]
  /\ pc' = [pc EXCEPT ![t] = "copy"]
  /\ UNCHANGED <<sched, waitq, err, timer, ttmr, next, data, head, tail, entry,
                 live, value, got, ret>>

\* ... or none any more: it waits again for what is left of the timeout ...
SendAgain(t) ==
  /\ At(t, "sendWait") /\ err[t] = "ok"
  /\ free = Null
  /\ Block(t, "send", timed[t], "sendSwitch")
  /\ UNCHANGED mqVars

\* ... or nothing is left of it.
SendTooLate(t) ==
  /\ At(t, "sendWait") /\ err[t] = "ok"
  /\ free = Null /\ timed[t]
  /\ Return(t)
  /\ value' = [value EXCEPT ![t] = NoMsg]
  /\ timed' = [timed EXCEPT ![t] = FALSE]
  /\ UNCHANGED <<sched, waitq, timer, ttmr, lists, live, mine, got, ret>>

\* The message is copied: the block is linked and a receiver woken.
SendLink(t) ==
  /\ \/ At(t, "copy") /\ LinkLast(mine[t], value[t])
     \/ At(t, "copyFront") /\ LinkFirst(mine[t], value[t])
  /\ mine' = [mine EXCEPT ![t] = Null]
  /\ value' = [value EXCEPT ![t] = NoMsg]
  /\ pc' = [pc EXCEPT ![t] = "run"]
  /\ UNCHANGED <<free, live, timed, got, ret>>

\* rt_mq_send in an interrupt: nothing comes between its two halves
SendIsr(v) ==
  /\ "isr" \in Features /\ live
  /\ free # Null
  /\ Pop
  /\ LinkLast(free, v)
  /\ UNCHANGED <<pc, live, mine, value, timed, got, ret>>

-----------------------------------------------------------------------------
(* Receiving                                                               *)

\* rt_mq_recv with a message there; without one and with timeout 0 nothing
\* changes
RecvNow(t) ==
  /\ At(t, "run") /\ live
  /\ entry > 0
  /\ UnlinkFirst(t)
  /\ got' = [got EXCEPT ![t] = data[head]]
  /\ ret' = [ret EXCEPT ![t] = 0]
  /\ pc' = [pc EXCEPT ![t] = "copyOut"]
  /\ UNCHANGED <<sched, waitq, err, timer, ttmr, live, value, timed>>

\* in an interrupt, with timeout 0: nothing comes between its two halves
RecvIsr ==
  /\ "isr" \in Features /\ live
  /\ entry > 0
  /\ head' = next[head]
  /\ tail' = IF tail = head THEN Null ELSE tail
  /\ entry' = entry - 1
  /\ GiveBack(head)
  /\ UNCHANGED <<pc, data, live, mine, value, timed, got, ret>>

RecvWait(t) ==
  /\ At(t, "run") /\ live
  /\ entry = 0
  /\ \E b \in Timeouts :
       /\ Block(t, "recv", b, "recvSwitch")
       /\ timed' = [timed EXCEPT ![t] = b]
  /\ got' = [got EXCEPT ![t] = NoMsg]
  /\ ret' = [ret EXCEPT ![t] = 0]
  /\ UNCHANGED <<lists, live, mine, value>>

RecvSwitch(t) == Switch(t, "recvSwitch", "recvWait") /\ UNCHANGED mqVars

\* The receive returns thread->error: -RT_EINTR, -RT_ETIMEOUT, or the RT_ERROR
\* that rt_susp_list_resume_all passes on, which is positive.
RecvFails(t) ==
  /\ At(t, "recvWait") /\ err[t] # "ok"
  /\ ret' = [ret EXCEPT ![t] = IF err[t] = "error" THEN 1 ELSE -1]
  /\ Return(t)
  /\ timed' = [timed EXCEPT ![t] = FALSE]
  /\ UNCHANGED <<sched, waitq, timer, ttmr, lists, live, mine, value, got>>

RecvGoesOn(t) ==
  /\ At(t, "recvWait") /\ err[t] = "ok"
  /\ entry > 0
  /\ UnlinkFirst(t)
  /\ got' = [got EXCEPT ![t] = data[head]]
  /\ timed' = [timed EXCEPT ![t] = FALSE]
  /\ pc' = [pc EXCEPT ![t] = "copyOut"]
  /\ UNCHANGED <<sched, waitq, err, timer, ttmr, live, value, ret>>

RecvAgain(t) ==
  /\ At(t, "recvWait") /\ err[t] = "ok"
  /\ entry = 0
  /\ Block(t, "recv", timed[t], "recvSwitch")
  /\ UNCHANGED mqVars

RecvTooLate(t) ==
  /\ At(t, "recvWait") /\ err[t] = "ok"
  /\ entry = 0 /\ timed[t]
  /\ ret' = [ret EXCEPT ![t] = -1]
  /\ Return(t)
  /\ timed' = [timed EXCEPT ![t] = FALSE]
  /\ UNCHANGED <<sched, waitq, timer, ttmr, lists, live, mine, value, got>>

\* The message is copied: the block is freed, a sender woken and the length of
\* the message returned.
RecvReturn(t) ==
  /\ At(t, "copyOut")
  /\ GiveBack(mine[t])
  /\ mine' = [mine EXCEPT ![t] = Null]
  /\ ret' = [ret EXCEPT ![t] = 1]
  /\ pc' = [pc EXCEPT ![t] = "run"]
  /\ UNCHANGED <<data, head, tail, entry, live, value, timed, got>>

-----------------------------------------------------------------------------
(* rt_mq_control(RT_IPC_CMD_RESET) and rt_mq_detach                        *)

Everyone == AllOf("recv") \o AllOf("send")

\* The messages go to the free list one by one, from the head of the queue on.
Requeue ==
  LET q == Chain(head)
      place(b) == CHOOSE i \in 1 .. Len(q) : q[i] = b
  IN  /\ free' = IF q = <<>> THEN free ELSE Last(q)
      /\ next' = [b \in Blocks |->
                    IF b \notin ToSet(q) THEN next[b]
                    ELSE IF b = head THEN free ELSE q[place(b) - 1]]

Reset ==
  /\ "reset" \in Features /\ live
  /\ cur # Idle /\ At(cur, "run")
  /\ WakeAs(Everyone, "error")
  /\ Requeue
  /\ head' = Null
  /\ tail' = IF tail \in ToSet(Chain(head)) THEN Null ELSE tail
  /\ entry' = 0
  /\ UNCHANGED <<pc, data, live, mine, value, timed, got, ret>>

Detach ==
  /\ "detach" \in Features /\ live
  /\ cur # Idle /\ At(cur, "run")
  /\ sched' = Readied(Everyone) /\ Ready(Everyone, "error")
  /\ live' = FALSE
  /\ UNCHANGED <<pc, lists, mine, value, timed, got, ret>>

-----------------------------------------------------------------------------
\* The free list rt_mq_init builds, of some order of the blocks
Init ==
  /\ WaitInit
  /\ LET q == CHOOSE s \in SetToSeqs(Blocks) : TRUE
     IN  /\ free = q[1]
         /\ next = [b \in Blocks |->
              IF b = Last(q) THEN Null ELSE q[1 + CHOOSE i \in 1 .. Len(q) : q[i] = b]]
  /\ data = [b \in Blocks |-> NoMsg]
  /\ head = Null /\ tail = Null
  /\ entry = 0
  /\ live = TRUE
  /\ mine = [t \in Thread |-> Null]
  /\ value = [t \in Thread |-> NoMsg]
  /\ timed = [t \in Thread |-> FALSE]
  /\ got = [t \in Thread |-> NoMsg]
  /\ ret = [t \in Thread |-> 0]

Continue(t) ==
  \/ SendSwitch(t) \/ SendFails(t) \/ SendGoesOn(t) \/ SendAgain(t) \/ SendTooLate(t)
  \/ SendLink(t)
  \/ RecvSwitch(t) \/ RecvFails(t) \/ RecvGoesOn(t) \/ RecvAgain(t) \/ RecvTooLate(t)
  \/ RecvReturn(t)

Next ==
  \/ \E t \in Thread :
       \/ \E v \in Msg : \/ \E l \in {"copy", "copyFront"} : SendNow(t, v, l)
                         \/ SendWait(t, v)
       \/ RecvNow(t) \/ RecvWait(t)
       \/ Continue(t)
  \/ \E v \in Msg : SendIsr(v)
  \/ RecvIsr
  \/ Reset \/ Detach
  \/ Elsewhere /\ UNCHANGED mqVars

Spec == Init /\ [][Next]_vars

-----------------------------------------------------------------------------
(* Properties                                                              *)

\* Type correctness of the lists and the threads.
TypeOK ==
  /\ sched \in SchedState
  /\ waitq \in [Queue -> Seq(Thread)]
  /\ err \in [Thread -> Err]
  /\ timer \in [Thread -> BOOLEAN]
  /\ ttmr \in [Thread -> BOOLEAN]
  /\ pc \in [Thread -> {"run", "copy", "copyFront", "copyOut", "sendSwitch",
                        "sendWait", "recvSwitch", "recvWait"}]
  /\ next \in [Blocks -> Blocks \cup {Null}]
  /\ data \in [Blocks -> Msg \cup {NoMsg}]
  /\ head \in Blocks \cup {Null}
  /\ tail \in Blocks \cup {Null}
  /\ free \in Blocks \cup {Null}
  /\ entry \in 0 .. MaxMsgs
  /\ live \in BOOLEAN
  /\ mine \in [Thread -> Blocks \cup {Null}]
  /\ value \in [Thread -> Msg \cup {NoMsg}]
  /\ timed \in [Thread -> BOOLEAN]
  /\ got \in [Thread -> Msg \cup {NoMsg}]
  /\ ret \in [Thread -> {-1, 0, 1}]

\* No block is lost or in two places: each is once on the free list, once in
\* the queue, or copied to or from by one thread, whatever came in between its
\* leaving one list and entering the other.
InUse == {t \in Thread : mine[t] # Null}
BlocksAccounted ==
  LET all == Chain(free) \o Chain(head)
  IN  /\ IsInjective(all)
      /\ \A t, u \in InUse : t # u => mine[t] # mine[u]
      /\ ToSet(all) \cap {mine[t] : t \in InUse} = {}
      /\ ToSet(all) \cup {mine[t] : t \in InUse} = Blocks

\* The queue is what the three fields say: entry counts its blocks and tail is
\* its last one, RT_NULL when there is none.
TailIsLast ==
  LET q == Chain(head)
  IN  /\ entry = Len(q)
      /\ tail = IF q = <<>> THEN Null ELSE Last(q)

\* The blocks and the two lists, at every point where interrupts are enabled
\* in the middle of a send or a receive.
QueueInv == TypeOK /\ BlocksAccounted /\ TailIsLast

\* Threads woken with RT_EOK that have not looked at the queue yet
Coming(switch, wait) ==
  {t \in Thread : pc[t] \in {switch, wait} /\ sched.stat[t] # "suspend" /\ err[t] = "ok"}

\* No lost wake-up: while a receiver sleeps, every message in the queue has a
\* receiver under way to it.
NoMessageForgotten ==
  waitq["recv"] # <<>> => entry <= Cardinality(Coming("recvSwitch", "recvWait"))

\* The same for senders and free blocks.
NoRoomForgotten ==
  waitq["send"] # <<>> => Len(Chain(free)) <= Cardinality(Coming("sendSwitch", "sendWait"))

Words == LET q == Chain(head) IN [i \in 1 .. Len(q) |-> data[q[i]]]

Box == INSTANCE Channel WITH
         Reader <- Thread, Size <- MaxMsgs, queue <- Words, got <- got

\* The message queue is a bounded queue; a message enters it when its block is
\* linked, not when the send begins, and leaves it when its block is unlinked.
ImplementsChannel == Box!ChanSpec
=============================================================================
