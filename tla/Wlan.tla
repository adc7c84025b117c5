-------------------------------- MODULE Wlan --------------------------------
(***************************************************************************)
(* The station side of the WLAN management layer                           *)
(* (components/drivers/wlan/dev_wlan_mgnt.c) on the driver of this board   *)
(* (board/drv_wlan.c) and the WiFi SDK below it.                           *)
(*                                                                         *)
(* The calls of the management layer take the recursive mutex mgnt_mutex;  *)
(* rt_wlan_is_connected, and the first look of rt_wlan_connect, do not.    *)
(* The driver reports its events from within the call that caused them, so *)
(* the flags change in the thread of the caller.  The SDK drops the link   *)
(* whenever it likes.  Out of memory, the access point side, the protocol  *)
(* layer and automatic reconnection (off unless a debug command of the     *)
(* shell switches it on) are left out.                                     *)
(*                                                                         *)
(* A definition X_Fault, before X, is X with a fault that the properties   *)
(* are meant to detect; no other definition uses it.                       *)
(***************************************************************************)
EXTENDS Integers

CONSTANTS
  Callers,   \* the threads that call the management layer
  NoCaller,
  Creds,     \* records [ssid, pwd]
  LongPwds,  \* the passwords longer than RT_WLAN_PASSWORD_MAX_LENGTH
  NoNet,     \* no link
  NoCred

ASSUME WlanAssumption ==
  /\ NoCaller \notin Callers
  /\ NoCred \notin Creds
  /\ \A c \in Creds : c = [ssid |-> c.ssid, pwd |-> c.pwd] /\ c.ssid # NoNet

Ops == {"adv", "connect", "scan", "disconnect"}

\* The BSSID of rt_wlan_connect comes from its scan, that of the other callers
\* of rt_wlan_connect_adv is zero.
Infos == [cred : Creds \cup {NoCred}, bssid : BOOLEAN]
NoInfo == [cred |-> NoCred, bssid |-> FALSE]

VARIABLES
  owner,       \* mgnt_mutex.owner
  hold,        \* mgnt_mutex.hold
  connect,     \* RT_WLAN_STATE_CONNECT in _sta_mgnt.state
  connecting,  \* RT_WLAN_STATE_CONNECTING
  info,        \* _sta_mgnt.info and _sta_mgnt.key
  link,        \* the network the SDK is joined to
  pc,          \* where a caller stands in the management layer
  op,          \* the function it called
  arg,         \* the info and password it passed or found
  ret          \* what rt_wlan_connect_adv returned, until its caller looks

lock == <<owner, hold>>
station == <<connect, connecting, info, link>>
callVars == <<op, arg>>
wlanVars == <<lock, station, pc, callVars, ret>>

TooLong(c) == c.pwd \in LongPwds

GoTo(t, l) == pc' = [pc EXCEPT ![t] = l]
Result(t, r) == ret' = [ret EXCEPT ![t] = r]

\* The call of t ends.  Only rt_wlan_connect_adv has a result that its callers
\* here look at.
Return(t, r) ==
  /\ GoTo(t, "idle")
  /\ Result(t, IF op[t] = "adv" THEN r ELSE "none")
  /\ op' = [op EXCEPT ![t] = "none"]
  /\ arg' = [arg EXCEPT ![t] = NoInfo]

\* rt_mutex_take and rt_mutex_release on mgnt_mutex
Lock(t) == owner \in {NoCaller, t} /\ owner' = t /\ hold' = hold + 1
Unlock(t) ==
  /\ hold' = hold - 1
  /\ owner' = IF hold = 1 THEN NoCaller ELSE owner

-----------------------------------------------------------------------------
(* Calls                                                                   *)

\* What a call does before it takes the mutex: rt_wlan_connect_adv refuses a
\* long password, rt_wlan_connect looks whether it is connected already.  It
\* reads the flag and then the info; a call that goes on does so because of the
\* one read or the other, which is then the moment of this step, and a call that
\* returns has changed nothing.
Begin(t, o, c) ==
  /\ pc[t] = "idle"
  /\ IF o = "adv" /\ TooLong(c)
       THEN Result(t, "EINVAL") /\ UNCHANGED <<pc, callVars>>
     ELSE IF o = "connect" /\ connect /\ info.cred # NoCred
                           /\ info.cred.ssid = c.ssid
       THEN UNCHANGED <<pc, callVars, ret>>
     ELSE /\ op' = [op EXCEPT ![t] = o]
          /\ arg' = [arg EXCEPT ![t] = [cred |-> c, bssid |-> o = "connect"]]
          /\ Result(t, "none")
          /\ GoTo(t, "lock")
  /\ UNCHANGED <<lock, station>>

Enter_NoLock(t) ==
  /\ pc[t] = "lock"
  /\ owner' = t /\ hold' = hold + 1
  /\ GoTo(t, CASE op[t] = "adv"        -> "check"
               [] op[t] = "disconnect" -> "disconnect"
               [] OTHER                -> "scan")
  /\ UNCHANGED <<station, callVars, ret>>
Enter(t) ==
  /\ pc[t] = "lock"
  /\ Lock(t)
  /\ GoTo(t, CASE op[t] = "adv"        -> "check"
               [] op[t] = "disconnect" -> "disconnect"
               [] OTHER                -> "scan")
  /\ UNCHANGED <<station, callVars, ret>>

\* rt_wlan_scan_with_info (which takes the mutex again and gives it back):
\* the driver reports the end of a successful scan only, otherwise the wait
\* times out.  rt_wlan_connect then returns without MGNT_UNLOCK.
ScanDone(t) ==
  /\ pc[t] = "scan"
  /\ IF op[t] = "scan"
       THEN Unlock(t) /\ Return(t, "EOK")
       ELSE \* the network was found, or not
            /\ GoTo(t, "nested") \/ GoTo(t, "unlock")
            /\ UNCHANGED <<lock, callVars, ret>>
  /\ UNCHANGED station

ScanTimeout(t) ==
  /\ pc[t] = "scan"
  /\ Return(t, "ETIMEOUT")
  /\ IF op[t] = "scan" THEN Unlock(t) ELSE UNCHANGED lock
  /\ UNCHANGED station

\* rt_wlan_connect calls rt_wlan_connect_adv with the mutex held.
Nested(t) ==
  /\ pc[t] = "nested"
  /\ IF TooLong(arg[t].cred)
       THEN GoTo(t, "unlock") /\ UNCHANGED lock
       ELSE GoTo(t, "check") /\ Lock(t)
  /\ UNCHANGED <<station, callVars, ret>>

\* rt_wlan_connect_adv from here on.
SaveInfo(t) ==
  /\ info' = arg[t]
  /\ connecting' = TRUE
  /\ GoTo(t, "join")

Check(t) ==
  /\ pc[t] = "check"
  /\ IF ~connect
       THEN SaveInfo(t) /\ UNCHANGED ret
     ELSE IF info = arg[t]
       THEN GoTo(t, "advUnlock") /\ Result(t, "EOK")
            /\ UNCHANGED <<info, connecting>>
     ELSE GoTo(t, "replace") /\ UNCHANGED <<info, connecting, ret>>
  /\ UNCHANGED <<lock, connect, link, callVars>>

\* gd32_wlan_disconnect, and the event RT_WLAN_DEV_EVT_DISCONNECT.
DropLink == link' = NoNet /\ connect' = FALSE

Replace_NoDisconnect(t) ==
  /\ pc[t] = "replace"
  /\ SaveInfo(t)
  /\ UNCHANGED <<lock, connect, link, callVars, ret>>
Replace(t) ==
  /\ pc[t] = "replace"
  /\ DropLink
  /\ SaveInfo(t)
  /\ UNCHANGED <<lock, callVars, ret>>

\* gd32_wlan_join: the SDK joins the network and returns ...
JoinSucceeds(t) ==
  /\ pc[t] = "join"
  /\ link' = arg[t].cred.ssid
  /\ GoTo(t, "report")
  /\ UNCHANGED <<lock, connect, connecting, info, callVars, ret>>

\* ... and the driver reports RT_WLAN_DEV_EVT_CONNECT, when the link may be
\* lost again, ...
ReportConnect(t) ==
  /\ pc[t] = "report"
  /\ connect' = TRUE
  /\ connecting' = FALSE
  /\ GoTo(t, "advUnlock")
  /\ Result(t, "EOK")
  /\ UNCHANGED <<lock, info, link, callVars>>

\* ... or it reports RT_WLAN_DEV_EVT_CONNECT_FAIL, and the saved info is cleared.
JoinFails(t) ==
  /\ pc[t] = "join"
  /\ link' = NoNet
  /\ connect' = FALSE
  /\ connecting' = FALSE
  /\ GoTo(t, "clear")
  /\ Result(t, "ERROR")
  /\ UNCHANGED <<lock, info, callVars>>

\* The code clears the beginning of the info; nothing reads the rest of it
\* while there is no connection.
Clear(t) ==
  /\ pc[t] = "clear"
  /\ info' = NoInfo
  /\ connecting' = FALSE
  /\ GoTo(t, "advUnlock")
  /\ UNCHANGED <<lock, connect, link, callVars, ret>>

\* rt_wlan_connect_adv returns, to rt_wlan_connect or to its caller.
AdvUnlock(t) ==
  /\ pc[t] = "advUnlock"
  /\ Unlock(t)
  /\ IF op[t] = "connect" THEN GoTo(t, "unlock") /\ UNCHANGED <<callVars, ret>>
                          ELSE Return(t, ret[t])
  /\ UNCHANGED station

\* The end of rt_wlan_connect, after the wait for RT_WLAN_DEV_EVT_CONNECT: it
\* has come by now, or the wait times out.
ConnectUnlock(t) ==
  /\ pc[t] = "unlock"
  /\ Unlock(t)
  /\ Return(t, ret[t])
  /\ UNCHANGED station

\* rt_wlan_disconnect
Disconnect(t) ==
  /\ pc[t] = "disconnect"
  /\ DropLink
  /\ Unlock(t)
  /\ Return(t, "EOK")
  /\ UNCHANGED <<connecting, info>>

\* The SDK loses the link; the driver registers for no event that would tell.
LinkLost ==
  /\ link # NoNet
  /\ link' = NoNet
  /\ UNCHANGED <<lock, connect, connecting, info, pc, callVars, ret>>

-----------------------------------------------------------------------------

WlanInit ==
  /\ owner = NoCaller /\ hold = 0
  /\ connect = FALSE /\ connecting = FALSE /\ info = NoInfo /\ link = NoNet
  /\ pc = [t \in Callers |-> "idle"]
  /\ op = [t \in Callers |-> "none"]
  /\ arg = [t \in Callers |-> NoInfo]
  /\ ret = [t \in Callers |-> "none"]

\* The steps of a call under way, apart from the wait for the mutex.
CallStep(t) ==
  \/ ScanDone(t) \/ ScanTimeout(t) \/ Nested(t)
  \/ Check(t) \/ Replace(t) \/ JoinSucceeds(t) \/ ReportConnect(t)
  \/ JoinFails(t) \/ Clear(t)
  \/ AdvUnlock(t) \/ ConnectUnlock(t) \/ Disconnect(t)

\* A thread outside every call owns the mutex: nobody else gets it again.
Stuck == owner # NoCaller /\ pc[owner] = "idle"

WlanTypeOK ==
  /\ owner \in Callers \cup {NoCaller} /\ hold \in Nat
  /\ owner = NoCaller <=> hold = 0
  /\ connect \in BOOLEAN /\ connecting \in BOOLEAN
  /\ info \in Infos /\ link \in {c.ssid : c \in Creds} \cup {NoNet}
  /\ pc \in [Callers -> {"idle", "lock", "scan", "nested", "check", "replace",
                         "join", "report", "clear", "advUnlock", "unlock",
                         "disconnect"}]
  /\ op \in [Callers -> Ops \cup {"none"}] /\ arg \in [Callers -> Infos]
  /\ ret \in [Callers -> {"none", "EOK", "ERROR", "EINVAL"}]

\* The call that holds the mutex is at one of the points l.
OwnerAt(l) == owner # NoCaller /\ pc[owner] \in l

\* The link of the SDK is to no other network than the one of _sta_mgnt.info,
\* and the flag CONNECT tells of it, except while the call that joined is
\* about to report it; and only a call that holds the mutex is connecting.
LinkMatchesInfo ==
  /\ link # NoNet => /\ info.cred # NoCred /\ info.cred.ssid = link
                     /\ connect \/ OwnerAt({"report"})
  /\ connecting => OwnerAt({"join", "report"})

InAdv == {"check", "replace", "join", "report", "clear", "advUnlock"}

\* Who is past MGNT_LOCK holds the mutex, and rt_wlan_connect_adv called from
\* rt_wlan_connect holds it twice, so that its MGNT_UNLOCK gives nothing away;
\* also after a scan that failed has left a count behind.
LockHeld ==
  \A t \in Callers :
    pc[t] \notin {"idle", "lock"} =>
      owner = t /\ hold >= IF pc[t] \in InAdv /\ op[t] = "connect" THEN 2 ELSE 1

\* While rt_wlan_connect_adv runs, what it saved is its own, and when it is
\* about to succeed it is connected with that.
InfoIsOwn ==
  \A t \in Callers :
    /\ op[t] \in {"adv", "connect"} => arg[t].cred \in Creds
    /\ pc[t] = "lock" => op[t] \in Ops
    /\ pc[t] = "scan" => op[t] \in {"scan", "connect"}
    /\ pc[t] \in InAdv \cup {"nested"} => op[t] \in {"adv", "connect"}
    /\ pc[t] \in {"join", "report", "clear"} => ~connect
    /\ pc[t] = "clear" => ret[t] = "ERROR"
    /\ pc[t] \in {"join", "report"} => info = arg[t]
    /\ pc[t] = "advUnlock" /\ ret[t] = "EOK" =>
         connect /\ info.cred = arg[t].cred

\* The station, its mutex and its callers, at every point of every call.
WlanInv == WlanTypeOK /\ LinkMatchesInfo /\ LockHeld /\ InfoIsOwn

=============================================================================
