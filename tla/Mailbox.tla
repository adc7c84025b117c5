------------------------------ MODULE Mailbox ------------------------------
(***************************************************************************)
(* The RT-Thread mailbox (ipc.c, RT_USING_MAILBOX): a ring of words that   *)
(* threads send to and receive from, waiting while it is full or empty.    *)
(* A woken thread is not given anything: it looks again, and another       *)
(* thread may have been there first.                                       *)
(*                                                                         *)
(* A definition X_Fault, before X, is X with a fault that the properties   *)
(* are meant to detect; no other definition uses it.                       *)
(***************************************************************************)
EXTENDS KWait

CONSTANTS
  Msg,     \* the words that are sent
  NoMsg,   \* no word
  Size     \* mb->size

ASSUME MailboxAssumption ==
  /\ Queue = {"recv", "send"}
  /\ NoMsg \notin Msg
  /\ Size \in Nat \ {0}

VARIABLES
  pool,    \* mb->msg_pool
  entry,   \* mb->entry
  inOff,   \* mb->in_offset
  outOff,  \* mb->out_offset
  live,    \* the mailbox is not detached
  value,   \* the argument of the send a thread is in
  timed,   \* the call a thread is in has a finite timeout
  got      \* what the last receive of each thread returned

ring == <<pool, entry, inOff, outOff>>
mbVars == <<ring, live, value, timed, got>>
vars == <<waitVars, mbVars>>

-----------------------------------------------------------------------------
(* The ring                                                                *)

Wrap(i) == IF i >= Size THEN 0 ELSE i

PutWord_WakesIfEmpty(v) ==
  /\ pool' = [pool EXCEPT ![inOff] = v]
  /\ inOff' = Wrap(inOff + 1)
  /\ entry' = entry + 1
  /\ IF entry = 0 THEN WakeOne("recv", "ok") ELSE UNCHANGED <<sched, waitq, err, timer, ttmr>>
  /\ UNCHANGED outOff

PutWord(v) ==
  /\ pool' = [pool EXCEPT ![inOff] = v]
  /\ inOff' = Wrap(inOff + 1)
  /\ entry' = entry + 1
  /\ WakeOne("recv", "ok")
  /\ UNCHANGED outOff

PutFront(v) ==
  LET o == IF outOff > 0 THEN outOff - 1 ELSE Size - 1
  IN  /\ outOff' = o
      /\ pool' = [pool EXCEPT ![o] = v]
      /\ entry' = entry + 1
      /\ WakeOne("recv", "ok")
      /\ UNCHANGED inOff

DropWord_WakesIfFull ==
  /\ outOff' = Wrap(outOff + 1)
  /\ entry' = entry - 1
  /\ IF entry = Size THEN WakeOne("send", "ok") ELSE UNCHANGED <<sched, waitq, err, timer, ttmr>>
  /\ UNCHANGED <<pool, inOff>>

\* The first word leaves the ring ...
DropWord ==
  /\ outOff' = Wrap(outOff + 1)
  /\ entry' = entry - 1
  /\ WakeOne("send", "ok")
  /\ UNCHANGED <<pool, inOff>>

\* ... and t has received it.
TakeWord(t) == got' = [got EXCEPT ![t] = pool[outOff]] /\ DropWord

\* The call of t is over; its arguments are forgotten.
Done(t) ==
  /\ pc' = [pc EXCEPT ![t] = "run"]
  /\ value' = [value EXCEPT ![t] = NoMsg]
  /\ timed' = [timed EXCEPT ![t] = FALSE]

-----------------------------------------------------------------------------
(* Sending                                                                 *)

\* rt_mb_send_wait, or rt_mb_send, with room in the mailbox; without room and
\* with timeout 0 nothing changes
SendNow(t, v) ==
  /\ At(t, "run") /\ live
  /\ entry < Size
  /\ PutWord(v)
  /\ UNCHANGED <<pc, live, value, timed, got>>

SendIsr(v) ==
  /\ "isr" \in Features /\ live
  /\ entry < Size
  /\ PutWord(v)
  /\ UNCHANGED <<pc, live, value, timed, got>>

SendWait(t, v) ==
  /\ At(t, "run") /\ live
  /\ entry = Size
  /\ \E b \in Timeouts :
       /\ Block(t, "send", b, "sendSwitch")
       /\ timed' = [timed EXCEPT ![t] = b]
  /\ value' = [value EXCEPT ![t] = v]
  /\ UNCHANGED <<ring, live, got>>

SendSwitch(t) == Switch(t, "sendSwitch", "sendWait") /\ UNCHANGED mbVars

SendFails(t) ==
  /\ At(t, "sendWait") /\ err[t] # "ok"
  /\ Done(t)
  /\ err' = [err EXCEPT ![t] = "ok"]
  /\ UNCHANGED <<sched, waitq, timer, ttmr, ring, live, got>>

\* Woken, it looks again: there is room ...
SendGoesOn(t) ==
  /\ At(t, "sendWait") /\ err[t] = "ok"
  /\ entry < Size
  /\ PutWord(value[t])
  /\ Done(t)
  /\ UNCHANGED <<live, got>>

\* ... or none any more: it waits again for what is left of the timeout ...
SendAgain(t) ==
  /\ At(t, "sendWait") /\ err[t] = "ok"
  /\ entry = Size
  /\ Block(t, "send", timed[t], "sendSwitch")
  /\ UNCHANGED mbVars

\* ... or nothing is left of it.
SendTooLate(t) ==
  /\ At(t, "sendWait") /\ err[t] = "ok"
  /\ entry = Size /\ timed[t]
  /\ Done(t)
  /\ UNCHANGED <<sched, waitq, err, timer, ttmr, ring, live, got>>

\* rt_mb_urgent
Urgent(t, v) ==
  /\ "urgent" \in Features
  /\ At(t, "run") /\ live
  /\ entry # Size
  /\ PutFront(v)
  /\ UNCHANGED <<pc, live, value, timed, got>>

-----------------------------------------------------------------------------
(* Receiving                                                               *)

RecvNow(t) ==
  /\ At(t, "run") /\ live
  /\ entry > 0
  /\ TakeWord(t)
  /\ UNCHANGED <<pc, live, value, timed>>

\* in an interrupt, with timeout 0
RecvIsr ==
  /\ "isr" \in Features /\ live
  /\ entry > 0
  /\ DropWord
  /\ UNCHANGED <<pc, live, value, timed, got>>

RecvWait(t) ==
  /\ At(t, "run") /\ live
  /\ entry = 0
  /\ \E b \in Timeouts :
       /\ Block(t, "recv", b, "recvSwitch")
       /\ timed' = [timed EXCEPT ![t] = b]
  /\ got' = [got EXCEPT ![t] = NoMsg]
  /\ UNCHANGED <<ring, live, value>>

RecvSwitch(t) == Switch(t, "recvSwitch", "recvWait") /\ UNCHANGED mbVars

RecvFails(t) ==
  /\ At(t, "recvWait") /\ err[t] # "ok"
  /\ Done(t)
  /\ err' = [err EXCEPT ![t] = "ok"]
  /\ UNCHANGED <<sched, waitq, timer, ttmr, ring, live, got>>

RecvGoesOn_NoRecheck(t) ==
  /\ At(t, "recvWait") /\ err[t] = "ok"
  /\ got' = [got EXCEPT ![t] = pool[outOff]]
  /\ outOff' = Wrap(outOff + 1)
  /\ entry' = IF entry > 0 THEN entry - 1 ELSE entry
  /\ WakeOne("send", "ok")
  /\ Done(t)
  /\ UNCHANGED <<pool, inOff, live>>

RecvGoesOn(t) ==
  /\ At(t, "recvWait") /\ err[t] = "ok"
  /\ entry > 0
  /\ TakeWord(t)
  /\ Done(t)
  /\ UNCHANGED live

RecvAgain(t) ==
  /\ At(t, "recvWait") /\ err[t] = "ok"
  /\ entry = 0
  /\ Block(t, "recv", timed[t], "recvSwitch")
  /\ UNCHANGED mbVars

RecvTooLate(t) ==
  /\ At(t, "recvWait") /\ err[t] = "ok"
  /\ entry = 0 /\ timed[t]
  /\ Done(t)
  /\ UNCHANGED <<sched, waitq, err, timer, ttmr, ring, live, got>>

-----------------------------------------------------------------------------
(* rt_mb_control(RT_IPC_CMD_RESET) and rt_mb_detach                        *)

Everyone == AllOf("recv") \o AllOf("send")

Reset_KeepsOffset ==
  /\ "reset" \in Features /\ live
  /\ cur # Idle /\ At(cur, "run")
  /\ WakeAs(Everyone, "error")
  /\ entry' = 0 /\ inOff' = 0
  /\ UNCHANGED <<pc, pool, outOff, live, value, timed, got>>

Reset ==
  /\ "reset" \in Features /\ live
  /\ cur # Idle /\ At(cur, "run")
  /\ WakeAs(Everyone, "error")
  /\ entry' = 0 /\ inOff' = 0 /\ outOff' = 0
  /\ UNCHANGED <<pc, pool, live, value, timed, got>>

Detach ==
  /\ "detach" \in Features /\ live
  /\ cur # Idle /\ At(cur, "run")
  /\ sched' = Readied(Everyone) /\ Ready(Everyone, "error")
  /\ live' = FALSE
  /\ UNCHANGED <<pc, ring, value, timed, got>>

-----------------------------------------------------------------------------
Init ==
  /\ WaitInit
  /\ pool = [i \in 0 .. Size - 1 |-> NoMsg]
  /\ entry = 0 /\ inOff = 0 /\ outOff = 0
  /\ live = TRUE
  /\ value = [t \in Thread |-> NoMsg]
  /\ timed = [t \in Thread |-> FALSE]
  /\ got = [t \in Thread |-> NoMsg]

Continue(t) ==
  \/ SendSwitch(t) \/ SendFails(t) \/ SendGoesOn(t) \/ SendAgain(t) \/ SendTooLate(t)
  \/ RecvSwitch(t) \/ RecvFails(t) \/ RecvGoesOn(t) \/ RecvAgain(t) \/ RecvTooLate(t)

Next ==
  \/ \E t \in Thread :
       \/ \E v \in Msg : SendNow(t, v) \/ SendWait(t, v) \/ Urgent(t, v)
       \/ RecvNow(t) \/ RecvWait(t)
       \/ Continue(t)
  \/ \E v \in Msg : SendIsr(v)
  \/ RecvIsr
  \/ Reset \/ Detach
  \/ Elsewhere /\ UNCHANGED mbVars

Spec == Init /\ [][Next]_vars

-----------------------------------------------------------------------------
(* Properties                                                              *)

\* Type correctness: the offsets stay in the ring, the entries within its size.
TypeOK ==
  /\ sched \in SchedState
  /\ waitq \in [Queue -> Seq(Thread)]
  /\ err \in [Thread -> Err]
  /\ timer \in [Thread -> BOOLEAN]
  /\ ttmr \in [Thread -> BOOLEAN]
  /\ pc \in [Thread -> {"run", "sendSwitch", "sendWait", "recvSwitch", "recvWait"}]
  /\ pool \in [0 .. Size - 1 -> Msg \cup {NoMsg}]
  /\ entry \in 0 .. Size
  /\ inOff \in 0 .. Size - 1
  /\ outOff \in 0 .. Size - 1
  /\ live \in BOOLEAN
  /\ value \in [Thread -> Msg \cup {NoMsg}]
  /\ timed \in [Thread -> BOOLEAN]
  /\ got \in [Thread -> Msg \cup {NoMsg}]

\* The three numbers that describe the ring agree.
OffsetsAgree == (outOff + entry) % Size = inOff

\* The words in the mailbox, first to leave first
Words == [i \in 1 .. entry |-> pool[(outOff + i - 1) % Size]]

\* Every place between the offsets holds a word that was sent.
PlacesFilled == \A i \in 1 .. entry : Words[i] \in Msg

Suspended(switch, wait) ==
  {t \in Thread : sched.stat[t] = "suspend" /\ pc[t] \in {switch, wait}}

\* The two wait lists hold exactly the threads suspended in a receive and in a
\* send, each once.
WaitersListed ==
  /\ ToSet(waitq["recv"]) = Suspended("recvSwitch", "recvWait")
  /\ ToSet(waitq["send"]) = Suspended("sendSwitch", "sendWait")
  /\ \A q \in Queue : IsInjective(waitq[q])

\* The ring and the wait lists after any mix of sends, urgent sends, receives,
\* resets, timeouts and resumes; and every waiter can be readied.
MailboxInv == TypeOK /\ OffsetsAgree /\ PlacesFilled /\ WaitersListed /\ TimersAgree

\* Threads woken with RT_EOK that have not looked at the mailbox yet
Coming(switch, wait) ==
  {t \in Thread : pc[t] \in {switch, wait} /\ sched.stat[t] # "suspend" /\ err[t] = "ok"}

\* No lost wake-up, although only one receiver is woken per word and another
\* thread may take the word: while a receiver sleeps, every word in the mailbox
\* has a receiver under way to it.
NoWordForgotten ==
  waitq["recv"] # <<>> => entry <= Cardinality(Coming("recvSwitch", "recvWait"))

\* The same for senders and free places.
NoRoomForgotten ==
  waitq["send"] # <<>> => Size - entry <= Cardinality(Coming("sendSwitch", "sendWait"))

Box == INSTANCE Channel WITH Reader <- Thread, queue <- Words, got <- got

\* The mailbox is a bounded queue: no word is lost, delivered twice or overtaken
\* by a later one that was not urgent, whoever waits for it or steals it.
ImplementsChannel == Box!ChanSpec
=============================================================================
