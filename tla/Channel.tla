------------------------------- MODULE Channel -------------------------------
(***************************************************************************)
(* What a mailbox and a message queue promise, without ring buffers, lists *)
(* and waiting threads: a bounded queue from which every message is taken  *)
(* once and in order, save that an urgent one goes to the front and a      *)
(* reset throws all of them away.                                          *)
(***************************************************************************)
EXTENDS Sequences, Naturals

CONSTANTS
  Reader,   \* the threads that receive
  Msg,      \* the messages
  NoMsg,    \* no message
  Size      \* how many messages fit

VARIABLES
  queue,    \* the messages in it
  got       \* got[t]: what the last receive of t returned

chanVars == <<queue, got>>

Put(v) ==
  /\ Len(queue) < Size
  /\ queue' = Append(queue, v)
  /\ UNCHANGED got

PutFirst(v) ==
  /\ Len(queue) < Size
  /\ queue' = <<v>> \o queue
  /\ UNCHANGED got

Take(t) ==
  /\ queue # <<>>
  /\ queue' = Tail(queue)
  /\ got' = [got EXCEPT ![t] = Head(queue)]

\* An interrupt handler takes a message.
TakeAway ==
  /\ queue # <<>>
  /\ queue' = Tail(queue)
  /\ UNCHANGED got

\* A receiver starts over, or its receive fails.
Forget(t) ==
  /\ got' = [got EXCEPT ![t] = NoMsg]
  /\ UNCHANGED queue

Clear ==
  /\ queue' = <<>>
  /\ UNCHANGED got

ChanInit ==
  /\ queue = <<>>
  /\ got = [t \in Reader |-> NoMsg]

ChanNext ==
  \/ \E v \in Msg : Put(v) \/ PutFirst(v)
  \/ \E t \in Reader : Take(t) \/ Forget(t)
  \/ TakeAway \/ Clear

ChanSpec == ChanInit /\ [][ChanNext]_chanVars
=============================================================================
