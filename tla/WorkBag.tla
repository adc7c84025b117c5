------------------------------ MODULE WorkBag ------------------------------
(***************************************************************************)
(* What a work queue promises, without lists, completion or semaphore: a   *)
(* work item that was asked for starts once its delay is over and not      *)
(* before, one item at a time, and once for each time it was asked for; to *)
(* ask again replaces the earlier delay.  An item that was asked for is    *)
(* dropped only by a call that cancels it, at once or, after AskCancel,    *)
(* some time before that call returns.                                     *)
(***************************************************************************)
EXTENDS Integers

CONSTANTS Works, NoWork, Delays

NotAsked == -1

VARIABLES
  left,     \* ticks until the item may start, or NotAsked
  running,  \* the item that is being executed, or NoWork
  asked,    \* the items that calls under way have still to cancel
  requests  \* the calls made so far

vars == <<left, running, asked, requests>>

Init ==
  /\ left = [w \in Works |-> NotAsked]
  /\ running = NoWork
  /\ asked = {}
  /\ requests = 0

Without(ws) == [w \in Works |-> IF w \in ws THEN NotAsked ELSE left[w]]

-----------------------------------------------------------------------------
(* Calls                                                                   *)

Ask(w, n) ==
  /\ requests' = requests + 1
  /\ left' = [left EXCEPT ![w] = n]
  /\ UNCHANGED <<running, asked>>

Cancel(w) ==
  /\ requests' = requests + 1
  /\ left' = Without({w})
  /\ UNCHANGED <<running, asked>>

AskCancel(ws) ==
  /\ requests' = requests + 1
  /\ asked' = asked \cup ws
  /\ UNCHANGED <<left, running>>

-----------------------------------------------------------------------------
(* What happens by itself                                                  *)

\* Calls under way drop the items ws; some of them may have returned then.
Withdraw(ws) ==
  /\ ws \subseteq asked
  /\ left' = Without(ws)
  /\ asked' \subseteq asked
  /\ UNCHANGED <<running, requests>>

Tick ==
  /\ left' = [w \in Works |-> IF left[w] \in Nat \ {0} THEN left[w] - 1
                                                       ELSE left[w]]
  /\ UNCHANGED <<running, asked, requests>>

Start(w) ==
  /\ running = NoWork
  /\ left[w] = 0
  /\ running' = w
  /\ left' = Without({w})
  /\ UNCHANGED <<asked, requests>>

End ==
  /\ running # NoWork
  /\ running' = NoWork
  /\ UNCHANGED <<left, asked, requests>>

Next ==
  \/ \E w \in Works : Cancel(w) \/ Start(w) \/ \E n \in Delays \cup {0} : Ask(w, n)
  \/ \E ws \in SUBSET Works : AskCancel(ws) \/ Withdraw(ws)
  \/ Tick
  \/ End

Spec == Init /\ [][Next]_vars
=============================================================================
