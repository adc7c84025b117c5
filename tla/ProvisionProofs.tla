-------------------------- MODULE ProvisionProofs --------------------------
(***************************************************************************)
(* Proofs about provisioning on the WLAN management layer, for any number  *)
(* of connections, messages, credentials and calls of the shell.           *)
(*                                                                         *)
(* The first part shows that WlanInv, which is about the management layer  *)
(* alone, is kept by every step of every call of it.                       *)
(***************************************************************************)
EXTENDS Provision, TLAPS

USE DEF Ops, Infos, NoInfo, InAdv, OwnerAt

\* One MGNT_UNLOCK of the caller that holds the mutex: it is free when the last
\* count is given back, and only then.
LEMMA UnlockType ==
  ASSUME WlanTypeOK, NEW t \in Callers, Unlock(t), owner = t, hold >= 1
  PROVE  /\ owner' \in Callers \cup {NoCaller} /\ hold' \in Nat
         /\ owner' = NoCaller <=> hold' = 0
  BY WlanAssumption DEF WlanTypeOK, Unlock

\* A call that ends leaves its caller idle, with a result only of
\* rt_wlan_connect_adv.
LEMMA ReturnType ==
  ASSUME WlanTypeOK, NEW t \in Callers, NEW r, Return(t, r),
         op[t] = "adv" => r \in {"none", "EOK", "ERROR", "EINVAL"}
  PROVE  /\ pc' = [pc EXCEPT ![t] = "idle"] /\ pc' \in [Callers ->
              {"idle", "lock", "scan", "nested", "check", "replace",
               "join", "report", "clear", "advUnlock", "unlock", "disconnect"}]
         /\ op' \in [Callers -> Ops \cup {"none"}]
         /\ arg' \in [Callers -> Infos]
         /\ ret' \in [Callers -> {"none", "EOK", "ERROR", "EINVAL"}]
  BY DEF WlanTypeOK, Return, GoTo, Result

\* MGNT_LOCK: the mutex is free or the caller's own.
LEMMA EnterStep ==
  ASSUME WlanInv, NEW t \in Callers, Enter(t)
  PROVE  WlanInv'
<1>1. WlanTypeOK'
  BY WlanAssumption
    DEF Enter, GoTo, Result, lock, Lock, station, callVars, WlanInv,
        WlanTypeOK, LinkMatchesInfo, LockHeld, InfoIsOwn
<1>2. LinkMatchesInfo'
  BY WlanAssumption
    DEF Enter, GoTo, Result, lock, Lock, station, callVars, WlanInv,
        WlanTypeOK, LinkMatchesInfo, LockHeld, InfoIsOwn
<1>3. LockHeld'
  BY WlanAssumption
    DEF Enter, GoTo, Result, lock, Lock, station, callVars, WlanInv,
        WlanTypeOK, LinkMatchesInfo, LockHeld, InfoIsOwn
<1>4. InfoIsOwn'
  BY WlanAssumption
    DEF Enter, GoTo, Result, lock, Lock, station, callVars, WlanInv,
        WlanTypeOK, LinkMatchesInfo, LockHeld, InfoIsOwn
<1>5. QED BY <1>1, <1>2, <1>3, <1>4 DEF WlanInv

\* rt_wlan_scan_with_info
LEMMA ScanDoneStep ==
  ASSUME WlanInv, NEW t \in Callers, ScanDone(t)
  PROVE  WlanInv'
<1>1. WlanTypeOK'
  <2>1. owner = t /\ hold >= 1
    BY DEF ScanDone, WlanInv, LockHeld, WlanTypeOK
  <2>2. CASE op[t] = "scan"
    BY <2>1, <2>2, UnlockType, ReturnType
      DEF ScanDone, station, WlanInv, WlanTypeOK
  <2>3. CASE op[t] # "scan"
    BY <2>3 DEF ScanDone, GoTo, lock, station, callVars, WlanInv, WlanTypeOK
  <2>4. QED BY <2>2, <2>3
<1>2. LinkMatchesInfo'
  BY WlanAssumption
    DEF ScanDone, GoTo, Result, lock, Unlock, station, callVars, Return,
        WlanInv, WlanTypeOK, LinkMatchesInfo, LockHeld, InfoIsOwn
<1>3. LockHeld'
  BY WlanAssumption
    DEF ScanDone, GoTo, Result, lock, Unlock, station, callVars, Return,
        WlanInv, WlanTypeOK, LinkMatchesInfo, LockHeld, InfoIsOwn
<1>4. InfoIsOwn'
  <2>1. CASE op[t] = "scan"
    BY <2>1
      DEF ScanDone, Return, GoTo, Result, station, WlanInv, WlanTypeOK,
          InfoIsOwn
  <2>2. CASE op[t] # "scan"
    BY <2>2
      DEF ScanDone, GoTo, lock, station, callVars, WlanInv, WlanTypeOK,
          InfoIsOwn
  <2>3. QED BY <2>1, <2>2
<1>5. QED BY <1>1, <1>2, <1>3, <1>4 DEF WlanInv

\* No report from the driver: rt_wlan_connect returns with its count left.
LEMMA ScanTimeoutStep ==
  ASSUME WlanInv, NEW t \in Callers, ScanTimeout(t)
  PROVE  WlanInv'
<1>1. WlanTypeOK'
  <2>1. owner = t /\ hold >= 1 /\ op[t] # "adv"
    BY DEF ScanTimeout, WlanInv, LockHeld, WlanTypeOK, InfoIsOwn
  <2>2. CASE op[t] = "scan"
    BY <2>1, <2>2, UnlockType, ReturnType
      DEF ScanTimeout, station, WlanInv, WlanTypeOK
  <2>3. CASE op[t] # "scan"
    BY <2>1, <2>3, ReturnType
      DEF ScanTimeout, lock, station, WlanInv, WlanTypeOK
  <2>4. QED BY <2>2, <2>3
<1>2. LinkMatchesInfo'
  BY WlanAssumption
    DEF ScanTimeout, GoTo, Result, lock, Unlock, station, Return, WlanInv,
        WlanTypeOK, LinkMatchesInfo, LockHeld, InfoIsOwn
<1>3. LockHeld'
  BY WlanAssumption
    DEF ScanTimeout, GoTo, Result, lock, Unlock, station, Return, WlanInv,
        WlanTypeOK, LinkMatchesInfo, LockHeld, InfoIsOwn
<1>4. InfoIsOwn'
  BY WlanAssumption
    DEF ScanTimeout, GoTo, Result, lock, Unlock, station, Return, WlanInv,
        WlanTypeOK, LinkMatchesInfo, LockHeld, InfoIsOwn
<1>5. QED BY <1>1, <1>2, <1>3, <1>4 DEF WlanInv

\* The call of rt_wlan_connect_adv in rt_wlan_connect, a second MGNT_LOCK.
LEMMA NestedStep ==
  ASSUME WlanInv, NEW t \in Callers, Nested(t)
  PROVE  WlanInv'
<1>1. WlanTypeOK'
  BY WlanAssumption
    DEF Nested, GoTo, Result, lock, Lock, station, callVars, WlanInv,
        WlanTypeOK, LinkMatchesInfo, LockHeld, InfoIsOwn
<1>2. LinkMatchesInfo'
  BY WlanAssumption
    DEF Nested, GoTo, Result, lock, Lock, station, callVars, WlanInv,
        WlanTypeOK, LinkMatchesInfo, LockHeld, InfoIsOwn
<1>3. LockHeld'
  BY WlanAssumption
    DEF Nested, GoTo, Result, lock, Lock, station, callVars, WlanInv,
        WlanTypeOK, LinkMatchesInfo, LockHeld, InfoIsOwn
<1>4. InfoIsOwn'
  BY WlanAssumption
    DEF Nested, GoTo, Result, lock, Lock, station, callVars, WlanInv,
        WlanTypeOK, LinkMatchesInfo, LockHeld, InfoIsOwn
<1>5. QED BY <1>1, <1>2, <1>3, <1>4 DEF WlanInv

\* rt_wlan_connect_adv looks what the station is connected with.
LEMMA CheckStep ==
  ASSUME WlanInv, NEW t \in Callers, Check(t)
  PROVE  WlanInv'
<1>1. WlanTypeOK'
  <2>1. UNCHANGED <<lock, connect, link, callVars>> /\ arg[t] \in Infos
    BY DEF Check, WlanInv, WlanTypeOK
  <2>2. info' \in Infos /\ connecting' \in BOOLEAN
    BY <2>1 DEF Check, SaveInfo, WlanInv, WlanTypeOK
  <2>3. \E l \in {"join", "advUnlock", "replace"} : GoTo(t, l)
    BY DEF Check, SaveInfo
  <2>4. ret' = ret \/ Result(t, "EOK")
    BY DEF Check
  <2>5. QED
    BY <2>1, <2>2, <2>3, <2>4
      DEF GoTo, Result, lock, callVars, WlanInv, WlanTypeOK
<1>2. LinkMatchesInfo'
  BY WlanAssumption
    DEF Check, GoTo, Result, SaveInfo, lock, callVars, WlanInv, WlanTypeOK,
        LinkMatchesInfo, LockHeld, InfoIsOwn
<1>3. LockHeld'
  BY WlanAssumption
    DEF Check, GoTo, Result, SaveInfo, lock, callVars, WlanInv, WlanTypeOK,
        LinkMatchesInfo, LockHeld, InfoIsOwn
<1>4. InfoIsOwn'
  BY WlanAssumption
    DEF Check, GoTo, Result, SaveInfo, lock, callVars, WlanInv, WlanTypeOK,
        LinkMatchesInfo, LockHeld, InfoIsOwn
<1>5. QED BY <1>1, <1>2, <1>3, <1>4 DEF WlanInv

\* The old link is dropped before the new credentials are saved.
LEMMA ReplaceStep ==
  ASSUME WlanInv, NEW t \in Callers, Replace(t)
  PROVE  WlanInv'
<1>1. WlanTypeOK'
  BY WlanAssumption
    DEF Replace, GoTo, Result, SaveInfo, DropLink, lock, callVars, WlanInv,
        WlanTypeOK, LinkMatchesInfo, LockHeld, InfoIsOwn
<1>2. LinkMatchesInfo'
  BY WlanAssumption
    DEF Replace, GoTo, Result, SaveInfo, DropLink, lock, callVars, WlanInv,
        WlanTypeOK, LinkMatchesInfo, LockHeld, InfoIsOwn
<1>3. LockHeld'
  BY WlanAssumption
    DEF Replace, GoTo, Result, SaveInfo, DropLink, lock, callVars, WlanInv,
        WlanTypeOK, LinkMatchesInfo, LockHeld, InfoIsOwn
<1>4. InfoIsOwn'
  BY WlanAssumption
    DEF Replace, GoTo, Result, SaveInfo, DropLink, lock, callVars, WlanInv,
        WlanTypeOK, LinkMatchesInfo, LockHeld, InfoIsOwn
<1>5. QED BY <1>1, <1>2, <1>3, <1>4 DEF WlanInv

\* The SDK has joined: its link is the network that the caller has saved.
LEMMA JoinSucceedsStep ==
  ASSUME WlanInv, NEW t \in Callers, JoinSucceeds(t)
  PROVE  WlanInv'
<1>1. WlanTypeOK'
  BY WlanAssumption
    DEF JoinSucceeds, GoTo, Result, lock, callVars, WlanInv, WlanTypeOK,
        LinkMatchesInfo, LockHeld, InfoIsOwn
<1>2. LinkMatchesInfo'
  BY WlanAssumption
    DEF JoinSucceeds, GoTo, Result, lock, callVars, WlanInv, WlanTypeOK,
        LinkMatchesInfo, LockHeld, InfoIsOwn
<1>3. LockHeld'
  BY WlanAssumption
    DEF JoinSucceeds, GoTo, Result, lock, callVars, WlanInv, WlanTypeOK,
        LinkMatchesInfo, LockHeld, InfoIsOwn
<1>4. InfoIsOwn'
  BY WlanAssumption
    DEF JoinSucceeds, GoTo, Result, lock, callVars, WlanInv, WlanTypeOK,
        LinkMatchesInfo, LockHeld, InfoIsOwn
<1>5. QED BY <1>1, <1>2, <1>3, <1>4 DEF WlanInv

\* RT_WLAN_DEV_EVT_CONNECT.
LEMMA ReportConnectStep ==
  ASSUME WlanInv, NEW t \in Callers, ReportConnect(t)
  PROVE  WlanInv'
<1>1. WlanTypeOK'
  BY WlanAssumption
    DEF ReportConnect, GoTo, Result, lock, callVars, WlanInv, WlanTypeOK,
        LinkMatchesInfo, LockHeld, InfoIsOwn
<1>2. LinkMatchesInfo'
  BY WlanAssumption
    DEF ReportConnect, GoTo, Result, lock, callVars, WlanInv, WlanTypeOK,
        LinkMatchesInfo, LockHeld, InfoIsOwn
<1>3. LockHeld'
  BY WlanAssumption
    DEF ReportConnect, GoTo, Result, lock, callVars, WlanInv, WlanTypeOK,
        LinkMatchesInfo, LockHeld, InfoIsOwn
<1>4. InfoIsOwn'
  BY WlanAssumption
    DEF ReportConnect, GoTo, Result, lock, callVars, WlanInv, WlanTypeOK,
        LinkMatchesInfo, LockHeld, InfoIsOwn
<1>5. QED BY <1>1, <1>2, <1>3, <1>4 DEF WlanInv

\* RT_WLAN_DEV_EVT_CONNECT_FAIL.
LEMMA JoinFailsStep ==
  ASSUME WlanInv, NEW t \in Callers, JoinFails(t)
  PROVE  WlanInv'
<1>1. WlanTypeOK'
  BY WlanAssumption
    DEF JoinFails, GoTo, Result, lock, callVars, WlanInv, WlanTypeOK,
        LinkMatchesInfo, LockHeld, InfoIsOwn
<1>2. LinkMatchesInfo'
  BY WlanAssumption
    DEF JoinFails, GoTo, Result, lock, callVars, WlanInv, WlanTypeOK,
        LinkMatchesInfo, LockHeld, InfoIsOwn
<1>3. LockHeld'
  BY WlanAssumption
    DEF JoinFails, GoTo, Result, lock, callVars, WlanInv, WlanTypeOK,
        LinkMatchesInfo, LockHeld, InfoIsOwn
<1>4. InfoIsOwn'
  BY WlanAssumption
    DEF JoinFails, GoTo, Result, lock, callVars, WlanInv, WlanTypeOK,
        LinkMatchesInfo, LockHeld, InfoIsOwn
<1>5. QED BY <1>1, <1>2, <1>3, <1>4 DEF WlanInv

\* The failed credentials are forgotten: nobody else relied on them, since
\* everybody else is outside the mutex.
LEMMA ClearStep ==
  ASSUME WlanInv, NEW t \in Callers, Clear(t)
  PROVE  WlanInv'
<1>1. WlanTypeOK'
  BY WlanAssumption
    DEF Clear, GoTo, Result, lock, callVars, WlanInv, WlanTypeOK,
        LinkMatchesInfo, LockHeld, InfoIsOwn
<1>2. LinkMatchesInfo'
  BY WlanAssumption
    DEF Clear, GoTo, Result, lock, callVars, WlanInv, WlanTypeOK,
        LinkMatchesInfo, LockHeld, InfoIsOwn
<1>3. LockHeld'
  BY WlanAssumption
    DEF Clear, GoTo, Result, lock, callVars, WlanInv, WlanTypeOK,
        LinkMatchesInfo, LockHeld, InfoIsOwn
<1>4. InfoIsOwn'
  <2>1. \A s \in Callers : s # t => pc[s] \in {"idle", "lock"}
    BY DEF Clear, WlanInv, LockHeld
  <2>2. ~connect /\ pc' = [pc EXCEPT ![t] = "advUnlock"]
    BY DEF Clear, GoTo, WlanInv, InfoIsOwn
  <2>3. ret[t] # "EOK"
    BY DEF Clear, WlanInv, InfoIsOwn
  <2>4. QED
    BY <2>1, <2>2, <2>3 DEF Clear, callVars, WlanInv, WlanTypeOK, InfoIsOwn
<1>5. QED BY <1>1, <1>2, <1>3, <1>4 DEF WlanInv

\* The end of rt_wlan_connect_adv: one MGNT_UNLOCK.
LEMMA AdvUnlockStep ==
  ASSUME WlanInv, NEW t \in Callers, AdvUnlock(t)
  PROVE  WlanInv'
<1>1. WlanTypeOK'
  <2>1. owner = t /\ hold >= 1
    BY DEF AdvUnlock, WlanInv, LockHeld, WlanTypeOK
  <2>2. CASE op[t] = "connect"
    BY <2>1, <2>2, UnlockType
      DEF AdvUnlock, GoTo, station, callVars, WlanInv, WlanTypeOK
  <2>3. CASE op[t] # "connect"
    BY <2>1, <2>3, UnlockType, ReturnType
      DEF AdvUnlock, station, WlanInv, WlanTypeOK
  <2>4. QED BY <2>2, <2>3
<1>2. LinkMatchesInfo'
  BY WlanAssumption
    DEF AdvUnlock, GoTo, Result, Unlock, station, callVars, Return, WlanInv,
        WlanTypeOK, LinkMatchesInfo, LockHeld, InfoIsOwn
<1>3. LockHeld'
  BY WlanAssumption
    DEF AdvUnlock, GoTo, Result, Unlock, station, callVars, Return, WlanInv,
        WlanTypeOK, LinkMatchesInfo, LockHeld, InfoIsOwn
<1>4. InfoIsOwn'
  BY WlanAssumption
    DEF AdvUnlock, GoTo, Result, Unlock, station, callVars, Return, WlanInv,
        WlanTypeOK, LinkMatchesInfo, LockHeld, InfoIsOwn
<1>5. QED BY <1>1, <1>2, <1>3, <1>4 DEF WlanInv

\* The end of rt_wlan_connect.
LEMMA ConnectUnlockStep ==
  ASSUME WlanInv, NEW t \in Callers, ConnectUnlock(t)
  PROVE  WlanInv'
<1>1. WlanTypeOK'
  BY WlanAssumption
    DEF ConnectUnlock, GoTo, Result, Unlock, station, Return, WlanInv,
        WlanTypeOK, LinkMatchesInfo, LockHeld, InfoIsOwn
<1>2. LinkMatchesInfo'
  BY WlanAssumption
    DEF ConnectUnlock, GoTo, Result, Unlock, station, Return, WlanInv,
        WlanTypeOK, LinkMatchesInfo, LockHeld, InfoIsOwn
<1>3. LockHeld'
  BY WlanAssumption
    DEF ConnectUnlock, GoTo, Result, Unlock, station, Return, WlanInv,
        WlanTypeOK, LinkMatchesInfo, LockHeld, InfoIsOwn
<1>4. InfoIsOwn'
  BY WlanAssumption
    DEF ConnectUnlock, GoTo, Result, Unlock, station, Return, WlanInv,
        WlanTypeOK, LinkMatchesInfo, LockHeld, InfoIsOwn
<1>5. QED BY <1>1, <1>2, <1>3, <1>4 DEF WlanInv

\* rt_wlan_disconnect.
LEMMA DisconnectStep ==
  ASSUME WlanInv, NEW t \in Callers, Disconnect(t)
  PROVE  WlanInv'
<1>1. WlanTypeOK'
  <2>1. owner = t /\ hold >= 1
    BY DEF Disconnect, WlanInv, LockHeld, WlanTypeOK
  <2>2. QED
    BY <2>1, UnlockType, ReturnType
      DEF Disconnect, DropLink, WlanInv, WlanTypeOK
<1>2. LinkMatchesInfo'
  BY WlanAssumption
    DEF Disconnect, GoTo, Result, DropLink, Unlock, Return, WlanInv,
        WlanTypeOK, LinkMatchesInfo, LockHeld, InfoIsOwn
<1>3. LockHeld'
  BY WlanAssumption
    DEF Disconnect, GoTo, Result, DropLink, Unlock, Return, WlanInv,
        WlanTypeOK, LinkMatchesInfo, LockHeld, InfoIsOwn
<1>4. InfoIsOwn'
  BY WlanAssumption
    DEF Disconnect, GoTo, Result, DropLink, Unlock, Return, WlanInv,
        WlanTypeOK, LinkMatchesInfo, LockHeld, InfoIsOwn
<1>5. QED BY <1>1, <1>2, <1>3, <1>4 DEF WlanInv

\* A call begins, with credentials only where the function takes any.
LEMMA BeginStep ==
  ASSUME WlanInv, NEW t \in Callers, NEW o \in Ops, NEW c \in Creds \cup
         {NoCred},
         o \in {"adv", "connect"} => c \in Creds,
         Begin(t, o, c)
  PROVE  WlanInv'
<1>1. CASE pc' = pc
  <2>1. UNCHANGED <<lock, station, callVars>>
    BY <1>1 DEF Begin, GoTo, WlanInv, WlanTypeOK
  <2>2. ret' = ret \/ Result(t, "EINVAL")
    BY <1>1 DEF Begin, GoTo, WlanInv, WlanTypeOK
  <2>3. pc[t] = "idle"
    BY DEF Begin
  <2>4. QED
    BY <1>1, <2>1, <2>2, <2>3
      DEF Result, lock, station, callVars, WlanInv, WlanTypeOK,
          LinkMatchesInfo, LockHeld, InfoIsOwn
<1>2. CASE pc' # pc
  <2>1. /\ UNCHANGED <<lock, station>> /\ GoTo(t, "lock") /\ Result(t, "none")
        /\ op' = [op EXCEPT ![t] = o]
        /\ arg' = [arg EXCEPT ![t] = [cred |-> c, bssid |-> o = "connect"]]
        /\ pc[t] = "idle"
    BY <1>2 DEF Begin, callVars
  <2>2. (o = "connect") \in BOOLEAN
    OBVIOUS
  <2>3. [cred |-> c, bssid |-> o = "connect"] \in Infos
    BY <2>2
  <2>4. WlanTypeOK'
    BY <2>1, <2>3 DEF GoTo, Result, lock, station, WlanInv, WlanTypeOK
  <2>5. LinkMatchesInfo' /\ LockHeld'
    BY <2>1
      DEF GoTo, lock, station, WlanInv, WlanTypeOK, LinkMatchesInfo, LockHeld
  <2>6. InfoIsOwn'
    BY <2>1 DEF GoTo, Result, lock, station, WlanInv, WlanTypeOK, InfoIsOwn
  <2>7. QED BY <2>4, <2>5, <2>6 DEF WlanInv
<1>3. QED BY <1>1, <1>2

\* The SDK loses the link: the flags claim more than there is, never the
\* reverse.
LEMMA LinkLostStep ==
  ASSUME WlanInv, LinkLost
  PROVE  WlanInv'
  BY DEF LinkLost, lock, callVars, WlanInv, WlanTypeOK, LinkMatchesInfo,
         LockHeld, InfoIsOwn

\* Nothing of the management layer changes.
LEMMA WlanStutter ==
  ASSUME WlanInv, UNCHANGED wlanVars
  PROVE  WlanInv'
  BY DEF wlanVars, lock, station, callVars, WlanInv, WlanTypeOK,
         LinkMatchesInfo, LockHeld, InfoIsOwn

\* Every step of a call under way.
LEMMA CallStepStep ==
  ASSUME WlanInv, NEW t \in Callers, CallStep(t)
  PROVE  WlanInv'
  BY ScanDoneStep, ScanTimeoutStep, NestedStep, CheckStep, ReplaceStep,
     JoinSucceedsStep, ReportConnectStep, JoinFailsStep, ClearStep,
     AdvUnlockStep, ConnectUnlockStep, DisconnectStep
    DEF CallStep

\* Before the first call.
LEMMA WlanInitInv ==
  ASSUME WlanInit
  PROVE  WlanInv
<1>1. NoInfo \in Infos
  OBVIOUS
<1>2. WlanTypeOK
  BY <1>1, WlanAssumption DEF WlanInit, WlanTypeOK
<1>3. LinkMatchesInfo /\ LockHeld /\ InfoIsOwn
  BY DEF WlanInit, LinkMatchesInfo, LockHeld, InfoIsOwn
<1>4. QED BY <1>2, <1>3 DEF WlanInv

-----------------------------------------------------------------------------
(* Provisioning.  The message buffer is part of the argument: a message    *)
(* becomes the cell only if both its parts are of one connection.          *)

ProvIInv == StationInv /\ OneSender

\* What a step of the management layer leaves alone: the calls of the other
\* threads, and what the call under way was made for.
LEMMA CallFrame ==
  ASSUME WlanTypeOK, NEW t \in Callers, Enter(t) \/ CallStep(t)
  PROVE  /\ pc[t] # "idle"
         /\ \A s \in Callers \ {t} :
              pc'[s] = pc[s] /\ op'[s] = op[s] /\ arg'[s] = arg[s]
         /\ \/ op'[t] = op[t] /\ arg'[t] = arg[t]
            \/ op'[t] = "none" /\ pc'[t] = "idle"
<1>1. pc[t] # "idle"
  BY DEF Enter, CallStep, ScanDone, ScanTimeout, Nested, Check, Replace,
         JoinSucceeds, ReportConnect, JoinFails, Clear, AdvUnlock,
         ConnectUnlock, Disconnect
<1>2. \/ UNCHANGED callVars /\ \E l : GoTo(t, l)
      \/ \E r : Return(t, r)
  BY DEF Enter, CallStep, ScanDone, ScanTimeout, Nested, Check, SaveInfo,
         Replace, JoinSucceeds, ReportConnect, JoinFails, Clear, AdvUnlock,
         ConnectUnlock, Disconnect
<1>3. CASE UNCHANGED callVars /\ \E l : GoTo(t, l)
  <2>1. PICK l : pc' = [pc EXCEPT ![t] = l]
    BY <1>3 DEF GoTo
  <2>2. op' = op /\ arg' = arg
    BY <1>3 DEF callVars
  <2>3. QED BY <1>1, <2>1, <2>2 DEF WlanTypeOK
<1>4. CASE \E r : Return(t, r)
  BY <1>1, <1>4 DEF GoTo, Return, WlanTypeOK
<1>5. QED BY <1>2, <1>3, <1>4

\* A step of the management layer, in the thread of the worker or the shell.
LEMMA WlanCallKeeps ==
  ASSUME ProvIInv, NEW t \in Callers, Wlan(Enter(t)) \/ Wlan(CallStep(t))
  PROVE  ProvIInv'
<1>1. WlanInv'
  BY EnterStep, CallStepStep DEF Wlan, ProvIInv, StationInv
<1>2. TypeOK' /\ OneSender'
  BY DEF Wlan, bleVars, handVars, workVars, ProvIInv, StationInv, TypeOK,
         OneSender
<1>3. CallIsOwn'
  BY CallFrame, ProvisionAssumption
    DEF Wlan, handVars, workVars, ProvIInv, StationInv, WlanInv, CallIsOwn
<1>4. QED BY <1>1, <1>2, <1>3 DEF ProvIInv, StationInv

\* The link is lost.
LEMMA LinkLostKeeps ==
  ASSUME ProvIInv, Wlan(LinkLost)
  PROVE  ProvIInv'
<1>1. WlanInv'
  BY LinkLostStep DEF Wlan, ProvIInv, StationInv
<1>2. TypeOK' /\ OneSender' /\ CallIsOwn'
  BY DEF Wlan, LinkLost, callVars, bleVars, handVars, workVars, ProvIInv,
         StationInv, TypeOK, OneSender, CallIsOwn
<1>3. QED BY <1>1, <1>2 DEF ProvIInv, StationInv

\* A call of the shell is none of the worker's.
LEMMA ShellKeeps ==
  ASSUME ProvIInv, NEW o \in Ops, NEW c \in Creds \cup {NoCred},
         ShellCall(o, c)
  PROVE  ProvIInv'
<1>1. WlanInv'
  BY BeginStep, ProvisionAssumption, WlanAssumption
    DEF ShellCall, ProvIInv, StationInv
<1>2. TypeOK' /\ OneSender'
  BY ProvisionAssumption
    DEF ShellCall, bleVars, handVars, workVars, ProvIInv, StationInv, TypeOK,
        OneSender
<1>3. CallIsOwn'
  BY ProvisionAssumption
    DEF ShellCall, Begin, GoTo, callVars, handVars, workVars, ProvIInv,
        StationInv, WlanInv, WlanTypeOK, CallIsOwn
<1>4. QED BY <1>1, <1>2, <1>3 DEF ProvIInv, StationInv

\* A BLE connection is opened: nothing of a message is left, the last one to
\* close has seen to that.
LEMMA OpenedKeeps ==
  ASSUME ProvIInv, Opened
  PROVE  ProvIInv'
<1>1. WlanInv'
  BY WlanStutter DEF Opened, ProvIInv, StationInv
<1>2. buf = <<>>
  BY ProvisionAssumption DEF Opened, ProvIInv, StationInv, TypeOK, OneSender,
                             Parts
<1>3. TypeOK'
  BY ProvisionAssumption DEF Opened, handVars, workVars, ProvIInv, StationInv,
                             TypeOK
<1>4. OneSender' /\ CallIsOwn'
  BY <1>2
    DEF Opened, wlanVars, callVars, handVars, workVars, ProvIInv, StationInv,
        OneSender, CallIsOwn
<1>5. QED BY <1>1, <1>3, <1>4 DEF ProvIInv, StationInv

\* A BLE connection is closed: the buffer is emptied.
LEMMA ClosedKeeps ==
  ASSUME ProvIInv, Closed
  PROVE  ProvIInv'
<1>1. WlanInv'
  BY WlanStutter DEF Closed, ProvIInv, StationInv
<1>2. TypeOK'
  BY ProvisionAssumption DEF Closed, handVars, workVars, ProvIInv, StationInv,
                             TypeOK
<1>3. OneSender' /\ CallIsOwn'
  BY DEF Closed, wlanVars, callVars, handVars, workVars, ProvIInv, StationInv,
         OneSender, CallIsOwn
<1>4. QED BY <1>1, <1>2, <1>3 DEF ProvIInv, StationInv

\* A part of a message arrives.
LEMMA ReceiveKeeps ==
  ASSUME ProvIInv, NEW s \in Ssids \cup {NoNet}, Receive(s)
  PROVE  ProvIInv'
<1>1. WlanInv'
  BY WlanStutter DEF Receive, ProvIInv, StationInv
<1>2. \E p \in Parts : buf' = <<p>> /\ p.from = session
  <2>1. session \in 1 .. MaxSessions
    BY ProvisionAssumption DEF Receive, ProvIInv, StationInv, TypeOK
  <2>2. [ssid |-> IF buf = <<>> THEN s ELSE NoNet, from |-> session] \in Parts
    BY <2>1 DEF Parts
  <2>3. QED BY <2>2 DEF Receive
<1>3. TypeOK'
  BY <1>2 DEF Receive, handVars, workVars, ProvIInv, StationInv, TypeOK
<1>4. OneSender' /\ CallIsOwn'
  BY <1>2
    DEF Receive, wlanVars, callVars, handVars, workVars, ProvIInv, StationInv,
        OneSender, CallIsOwn
<1>5. QED BY <1>1, <1>3, <1>4 DEF ProvIInv, StationInv

\* The end of a message: what is stored is what one client sent.
LEMMA ReceiveEndKeeps ==
  ASSUME ProvIInv, NEW c \in Creds, ReceiveEnd(c)
  PROVE  ProvIInv'
<1>1. WlanInv'
  BY WlanStutter DEF ReceiveEnd, ProvIInv, StationInv
<1>2. OneSender'
  BY DEF ReceiveEnd, OneSender
<1>3. CASE buf # <<>> /\ buf[1].ssid # NoNet
  <2>1. buf[1].from = session /\ buf[1].ssid = c.ssid
    BY <1>3 DEF ReceiveEnd, ProvIInv, StationInv, TypeOK, OneSender
  <2>2. cell' = c
    BY <1>3, <2>1, WlanAssumption DEF ReceiveEnd
  <2>3. TypeOK'
    BY <1>3, <2>2, ProvisionAssumption
      DEF ReceiveEnd, workVars, ProvIInv, StationInv, TypeOK
  <2>4. CallIsOwn'
    BY <2>2
      DEF ReceiveEnd, wlanVars, callVars, workVars, ProvIInv, StationInv,
          CallIsOwn
  <2>5. QED BY <1>1, <1>2, <2>3, <2>4 DEF ProvIInv, StationInv
<1>4. CASE ~(buf # <<>> /\ buf[1].ssid # NoNet)
  <2>1. TypeOK'
    BY <1>4 DEF ReceiveEnd, handVars, workVars, ProvIInv, StationInv, TypeOK
  <2>2. CallIsOwn'
    BY <1>4
      DEF ReceiveEnd, wlanVars, callVars, handVars, workVars, ProvIInv,
          StationInv, CallIsOwn
  <2>3. QED BY <1>1, <1>2, <2>1, <2>2 DEF ProvIInv, StationInv
<1>5. QED BY <1>3, <1>4

\* The semaphore counts at most the messages accepted.
LEMMA ReleaseSemKeeps ==
  ASSUME ProvIInv, ReleaseSem
  PROVE  ProvIInv'
<1>1. WlanInv'
  BY WlanStutter DEF ReleaseSem, ProvIInv, StationInv
<1>2. TypeOK'
  BY ProvisionAssumption DEF ReleaseSem, workVars, ProvIInv, StationInv, TypeOK
<1>3. OneSender' /\ CallIsOwn'
  BY DEF ReleaseSem, wlanVars, callVars, workVars, ProvIInv, StationInv,
         OneSender, CallIsOwn
<1>4. QED BY <1>1, <1>2, <1>3 DEF ProvIInv, StationInv

-----------------------------------------------------------------------------

\* The steps of the worker outside the management layer.
LEMMA WorkerKeeps ==
  ASSUME ProvIInv,
         \/ StoreDefault \/ TakeSem \/ CopyCell \/ NotReady
         \/ Recheck \/ Address \/ Answer
  PROVE  ProvIInv'
<1>1. UNCHANGED <<wlanVars, bleVars>>
  BY DEF StoreDefault, TakeSem, CopyCell, NotReady, Recheck, Address, Answer
<1>2. WlanInv' /\ OneSender'
  BY <1>1, WlanStutter DEF bleVars, ProvIInv, StationInv, OneSender
<1>3. TypeOK'
  <2>1. UNCHANGED <<bleVars, shellCalls>>
    BY <1>1
      DEF StoreDefault, TakeSem, CopyCell, NotReady, Recheck, Address, Answer
  <2>2. /\ cell' \in Creds \cup {NoCred} /\ wcred' \in Creds \cup {NoCred}
        /\ untried' \in BOOLEAN
    BY ProvisionAssumption
      DEF StoreDefault, TakeSem, CopyCell, NotReady, Recheck, Address, Answer,
          handVars, ProvIInv, StationInv, TypeOK
  <2>3. wpc' \in {"take", "copy", "ready", "address", "answer"}
    BY DEF StoreDefault, TakeSem, CopyCell, NotReady, Recheck, Address, Answer
  <2>4. sem' \in 0 .. sem
    BY ProvisionAssumption
      DEF StoreDefault, TakeSem, CopyCell, NotReady, Recheck, Address, Answer,
          handVars, ProvIInv, StationInv, TypeOK
  <2>5. QED
    BY <2>1, <2>2, <2>3, <2>4, ProvisionAssumption
      DEF bleVars, ProvIInv, StationInv, TypeOK
<1>4. CallIsOwn'
  BY <1>1, ProvisionAssumption
    DEF StoreDefault, TakeSem, CopyCell, NotReady, Recheck, Address, Answer,
        wlanVars, callVars, handVars, workVars, ProvIInv, StationInv, CallIsOwn,
        TypeOK
<1>5. QED BY <1>2, <1>3, <1>4 DEF ProvIInv, StationInv

\* The worker calls with its copy, and looks at the result.
LEMMA CallAdvKeeps ==
  ASSUME ProvIInv, CallAdv
  PROVE  ProvIInv'
<1>1. wcred \in Creds
  BY DEF CallAdv, ProvIInv, StationInv, CallIsOwn
<1>2. WlanInv'
  BY <1>1, BeginStep, ProvisionAssumption DEF CallAdv, ProvIInv, StationInv
<1>3. TypeOK' /\ OneSender'
  BY DEF CallAdv, bleVars, handVars, ProvIInv, StationInv, TypeOK, OneSender
<1>4. CallIsOwn'
  BY <1>1, ProvisionAssumption
    DEF CallAdv, Begin, GoTo, callVars, handVars, ProvIInv, StationInv, WlanInv,
        WlanTypeOK, CallIsOwn
<1>5. QED BY <1>2, <1>3, <1>4 DEF ProvIInv, StationInv

\* The worker looks at the result of its call.
LEMMA AdvReturnedKeeps ==
  ASSUME ProvIInv, AdvReturned
  PROVE  ProvIInv'
<1>1. WlanInv'
  BY ProvisionAssumption
    DEF AdvReturned, Result, lock, station, callVars, ProvIInv, StationInv,
        WlanInv, WlanTypeOK, LinkMatchesInfo, LockHeld, InfoIsOwn
<1>2. TypeOK' /\ OneSender' /\ CallIsOwn'
  BY DEF AdvReturned, callVars, bleVars, handVars, ProvIInv, StationInv, TypeOK,
         OneSender, CallIsOwn
<1>3. QED BY <1>1, <1>2 DEF ProvIInv, StationInv

\* The device has started.
LEMMA ProvInit ==
  ASSUME Init
  PROVE  ProvIInv
<1>1. WlanInv
  BY WlanInitInv DEF Init
<1>2. OneSender
  BY DEF Init, OneSender
<1>3. CallIsOwn
  BY ProvisionAssumption DEF Init, WlanInit, CallIsOwn
<1>4. session \in 0 .. MaxSessions /\ sessions \in session .. MaxSessions
  BY ProvisionAssumption DEF Init
<1>5. sem \in 0 .. IF bpc = "release" THEN accepted - 1 ELSE accepted
  BY DEF Init
<1>6. TypeOK
  <2>1. accepted \in 0 .. MaxAccepted /\ shellCalls \in 0 .. MaxShell
    BY ProvisionAssumption DEF Init
  <2>2. cell \in Creds \cup {NoCred} /\ wcred \in Creds \cup {NoCred}
    BY DEF Init
  <2>3. buf = <<>> /\ bpc = "idle" /\ wpc = "start" /\ untried = FALSE
    BY DEF Init
  <2>4. QED BY <1>4, <1>5, <2>1, <2>2, <2>3 DEF TypeOK
<1>7. QED BY <1>1, <1>2, <1>3, <1>6 DEF ProvIInv, StationInv

\* Every step keeps the invariant.
LEMMA ProvNext ==
  ASSUME ProvIInv, [Next]_vars
  PROVE  ProvIInv'
<1>1. CASE Ble
  BY <1>1, OpenedKeeps, ClosedKeeps, ReceiveKeeps, ReceiveEndKeeps,
     ReleaseSemKeeps
    DEF Ble
<1>2. CASE WorkerStep
  BY <1>2, WorkerKeeps, CallAdvKeeps, AdvReturnedKeeps DEF WorkerStep
<1>3. CASE \E o \in Ops, c \in Creds \cup {NoCred} : ShellCall(o, c)
  BY <1>3, ShellKeeps
<1>4. CASE Wlan(LinkLost)
  BY <1>4, LinkLostKeeps
<1>5. CASE \E t \in Callers : Wlan(Enter(t)) \/ Wlan(CallStep(t))
  BY <1>5, WlanCallKeeps
<1>6. CASE UNCHANGED vars
  <2>1. WlanInv'
    BY <1>6, WlanStutter DEF vars, ProvIInv, StationInv
  <2>2. TypeOK' /\ OneSender' /\ CallIsOwn'
    BY <1>6
      DEF vars, wlanVars, callVars, bleVars, handVars, workVars, ProvIInv,
          StationInv, TypeOK, OneSender, CallIsOwn
  <2>3. QED BY <2>1, <2>2 DEF ProvIInv, StationInv
<1>7. QED BY <1>1, <1>2, <1>3, <1>4, <1>5, <1>6 DEF Next

\* The invariant from which the theorems follow (ble_wifi_provision.c on
\* dev_wlan_mgnt.c).
THEOREM ProvAlways == Spec => []ProvIInv
<1>1. Init => ProvIInv
  BY ProvInit
<1>2. ProvIInv /\ [Next]_vars => ProvIInv'
  BY ProvNext
<1>3. QED BY <1>1, <1>2, PTL DEF Spec

\* At every point of every call the link is to none but the network that the
\* management layer has saved and, except between the SDK's join and the report
\* of it (gd32_wlan_join), tells of; who is inside holds the mutex, and the
\* worker passes the default or the credentials of one message
\* (dev_wlan_mgnt.c, gd_prov_worker).
THEOREM StationAgrees == Spec => []StationInv
  BY ProvAlways, PTL DEF ProvIInv

\* gd_prov_json_buf holds nothing of a connection that was closed
\* (gd_prov_ble_conn_evt).
THEOREM MessagesNotMixed == Spec => []OneSender
  BY ProvAlways, PTL DEF ProvIInv

\* A step that ends the worker's rt_wlan_connect_adv with success is its
\* MGNT_UNLOCK, and what was saved under the mutex was not replaced meanwhile.
THEOREM SuccessIsOwn == Spec => ConnectedIsTheirs
<1>1. ASSUME ProvIInv, [Next]_vars, pc[worker] = "advUnlock",
             pc'[worker] = "idle", ret[worker] = "EOK"
      PROVE  connect' /\ info'.cred = wcred
  <2>1. connect /\ info.cred = wcred
    BY <1>1, ProvisionAssumption
      DEF ProvIInv, StationInv, CallIsOwn, WlanInv, InfoIsOwn
  <2>2. pc'[worker] # pc[worker]
    BY <1>1
  <2>3. Wlan(Enter(worker)) \/ Wlan(CallStep(worker))
    <3>1. CASE Ble \/ WorkerStep
      BY <2>2, <3>1, <1>1
        DEF Ble, Opened, Closed, Receive, ReceiveEnd, ReleaseSem, WorkerStep,
            StoreDefault, TakeSem, CopyCell, NotReady, CallAdv, Begin,
            AdvReturned, Recheck, Address, Answer, wlanVars
    <3>2. CASE \E o \in Ops, c \in Creds \cup {NoCred} : ShellCall(o, c)
      BY <2>2, <3>2, <1>1, ProvisionAssumption
        DEF ShellCall, Begin, GoTo, ProvIInv, StationInv, WlanInv, WlanTypeOK
    <3>3. CASE Wlan(LinkLost)
      BY <2>2, <3>3 DEF Wlan, LinkLost
    <3>4. CASE \E t \in Callers : Wlan(Enter(t)) \/ Wlan(CallStep(t))
      BY <2>2, <3>4, <1>1, CallFrame, ProvisionAssumption
        DEF Wlan, ProvIInv, StationInv, WlanInv
    <3>5. CASE UNCHANGED vars
      BY <2>2, <3>5 DEF vars, wlanVars
    <3>6. QED BY <1>1, <3>1, <3>2, <3>3, <3>4, <3>5 DEF Next
  <2>4. UNCHANGED station
    BY <1>1, <2>3
      DEF Wlan, Enter, CallStep, ScanDone, ScanTimeout, Nested, Check, Replace,
          JoinSucceeds, ReportConnect, JoinFails, Clear, AdvUnlock,
         ConnectUnlock, Disconnect
  <2>5. QED BY <2>1, <2>4 DEF station
<1>2. ProvIInv /\ [Next]_vars =>
        [pc[worker] = "advUnlock" /\ pc'[worker] = "idle"
           /\ ret[worker] = "EOK"
         => connect' /\ info'.cred = wcred]_vars
  BY <1>1
<1>3. QED BY <1>2, ProvAlways, PTL DEF Spec, ConnectedIsTheirs

=============================================================================
