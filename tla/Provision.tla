----------------------------- MODULE Provision -----------------------------
(***************************************************************************)
(* WiFi provisioning over BLE (applications/ble_wifi_provision.c): the     *)
(* BLE task puts a message together, stores its credentials and releases   *)
(* a semaphore; the thread "bleprovw" takes it, connects and answers.  The *)
(* shell, or any other thread, uses the WLAN management layer meanwhile.   *)
(*                                                                         *)
(* A message arrives in two parts, the one with the ssid and the one with  *)
(* the password and the end of the line; a part of anything else makes the *)
(* message a bad one.  Answers over BLE are not part of the state, and     *)
(* the waits for the WLAN device, for the connection and for an address    *)
(* are waits that may time out at any time.                                *)
(*                                                                         *)
(* A definition X_Fault, before X, is X with a fault that the properties   *)
(* are meant to detect; no other definition uses it.                       *)
(***************************************************************************)
EXTENDS Wlan, Sequences

CONSTANTS
  worker, shell,  \* the callers of the management layer
  Default,        \* the built-in credentials
  MaxSessions,    \* the BLE connections opened in one behaviour
  MaxAccepted,    \* the messages accepted in one behaviour
  MaxShell        \* the calls of the shell in one behaviour

ASSUME ProvisionAssumption ==
  /\ Callers = {worker, shell} /\ worker # shell
  /\ Default \in Creds
  /\ MaxSessions \in Nat /\ MaxAccepted \in Nat /\ MaxShell \in Nat

VARIABLES
  session,   \* the BLE connection that is open, or 0; the index that the code
             \* keeps (gd_prov_ble_conn_idx) may be the same for two of them
  sessions,  \* the connections opened so far
  buf,       \* what is in gd_prov_json_buf, with the connection it came from:
             \* nothing, the first part of a message (its ssid), or
             \* anything else (NoNet)
  bpc,       \* where the BLE task stands in gd_prov_submit_json
  cell,      \* gd_prov_ssid and gd_prov_password
  sem,       \* gd_prov_sem.value
  wpc,       \* where the worker stands
  wcred,     \* its copy of the credentials, while it uses it
  untried,   \* the newest accepted credentials were not copied yet; not in
             \* the code
  accepted,  \* messages accepted so far
  shellCalls \* calls of the shell so far

bleVars == <<session, sessions, buf, bpc, accepted>>
handVars == <<cell, sem, untried>>
workVars == <<wpc, wcred>>
vars == <<wlanVars, bleVars, handVars, workVars, shellCalls>>

Ssids == {c.ssid : c \in Creds}
Parts == [ssid : Ssids \cup {NoNet}, from : 1 .. MaxSessions]

-----------------------------------------------------------------------------
(* The BLE task                                                            *)

\* One BLE connection is open at a time: gd_prov_ble_conn_evt does not look
\* whether there is another, which is up to the BLE stack.
Opened ==
  /\ bpc = "idle" /\ session = 0 /\ sessions < MaxSessions
  /\ sessions' = sessions + 1
  /\ session' = sessions + 1
  /\ UNCHANGED <<buf, bpc, accepted, wlanVars, handVars, workVars, shellCalls>>

\* gd_prov_ble_conn_evt drops what has arrived of a message.
Closed_KeepsBuffer ==
  /\ bpc = "idle" /\ session # 0
  /\ session' = 0
  /\ UNCHANGED <<buf, sessions, bpc, accepted, wlanVars, handVars, workVars,
                 shellCalls>>
Closed ==
  /\ bpc = "idle" /\ session # 0
  /\ session' = 0
  /\ buf' = <<>>
  /\ UNCHANGED <<sessions, bpc, accepted, wlanVars, handVars, workVars,
                 shellCalls>>

\* gd_prov_ble_rx, without the end of a line: the first part of a message, or
\* something that makes it a bad one (a part that does not fit is dropped up to
\* the character that did not, and the rest of it is kept).
Receive(s) ==
  /\ bpc = "idle" /\ session # 0
  /\ buf' = <<[ssid |-> IF buf = <<>> THEN s ELSE NoNet, from |-> session]>>
  /\ UNCHANGED <<session, sessions, bpc, accepted, wlanVars, handVars,
                 workVars, shellCalls>>

\* gd_prov_ble_rx with the last part of the credentials c and the end of a
\* line, and gd_prov_submit_json for the message: gd_prov_store_credentials,
\* or an error answer.  One client sends the two parts of one message.
ReceiveEnd(c) ==
  /\ bpc = "idle" /\ session # 0
  /\ \A i \in DOMAIN buf :
       buf[i].from = session => buf[i].ssid \in {c.ssid, NoNet}
  /\ buf' = <<>>
  /\ IF buf # <<>> /\ buf[1].ssid # NoNet
       THEN /\ accepted < MaxAccepted
            /\ accepted' = accepted + 1
            /\ cell' = [ssid |-> buf[1].ssid, pwd |-> c.pwd]
            /\ untried' = TRUE
            /\ bpc' = "release"
            /\ UNCHANGED sem
       ELSE UNCHANGED <<handVars, bpc, accepted>>
  /\ UNCHANGED <<session, sessions, wlanVars, workVars, shellCalls>>

\* ... and rt_sem_release, after the answer "accepted".
ReleaseSem_IfWaiting ==
  /\ bpc = "release"
  /\ sem' = IF wpc = "take" THEN 1 ELSE sem
  /\ bpc' = "idle"
  /\ UNCHANGED <<session, sessions, buf, accepted, cell, untried, wlanVars,
                 workVars, shellCalls>>
ReleaseSem ==
  /\ bpc = "release"
  /\ sem' = sem + 1
  /\ bpc' = "idle"
  /\ UNCHANGED <<session, sessions, buf, accepted, cell, untried, wlanVars,
                 workVars, shellCalls>>

-----------------------------------------------------------------------------
(* The worker                                                              *)

\* Its first step, when advertising has begun already.
StoreDefault ==
  /\ wpc = "start"
  /\ wpc' = "take"
  /\ cell' = Default
  /\ untried' = FALSE
  /\ UNCHANGED <<wcred, sem, wlanVars, bleVars, shellCalls>>

TakeSem ==
  /\ wpc = "take" /\ sem > 0
  /\ sem' = sem - 1
  /\ wpc' = "copy"
  /\ UNCHANGED <<wcred, cell, untried, wlanVars, bleVars, shellCalls>>

CopyCell ==
  /\ wpc = "copy"
  /\ wpc' = "ready"
  /\ wcred' = cell
  /\ untried' = FALSE
  /\ UNCHANGED <<cell, sem, wlanVars, bleVars, shellCalls>>

\* gd_prov_connect_wifi: the device is ready, or it is not in time.
NotReady ==
  /\ wpc = "ready"
  /\ wpc' = "answer"
  /\ UNCHANGED <<wcred, wlanVars, bleVars, handVars, shellCalls>>

CallAdv ==
  /\ wpc = "ready"
  /\ wpc' = "called"
  /\ Begin(worker, "adv", wcred)
  /\ UNCHANGED <<wcred, bleVars, handVars, shellCalls>>

AdvReturned ==
  /\ wpc = "called" /\ pc[worker] = "idle"
  /\ wpc' = IF ret[worker] = "EOK" THEN "recheck" ELSE "answer"
  /\ Result(worker, "none")
  /\ UNCHANGED <<wcred, lock, station, pc, callVars, bleVars, handVars,
                 shellCalls>>

\* The loop over rt_wlan_is_connected ends with the flag seen or in time, and
\* whichever it is the flag is looked at once more.
Recheck ==
  /\ wpc = "recheck"
  /\ wpc' = IF connect THEN "address" ELSE "answer"
  /\ UNCHANGED <<wcred, wlanVars, bleVars, handVars, shellCalls>>

\* gd_prov_wait_ip_text finds an address or times out, and is called again for
\* the answer, which says "connected" or "failed".
Address ==
  /\ wpc = "address"
  /\ wpc' = "answer"
  /\ UNCHANGED <<wcred, wlanVars, bleVars, handVars, shellCalls>>

Answer ==
  /\ wpc = "answer"
  /\ wpc' = "take"
  /\ wcred' = NoCred
  /\ UNCHANGED <<wlanVars, bleVars, handVars, shellCalls>>

WorkerStep ==
  \/ StoreDefault \/ TakeSem \/ CopyCell \/ NotReady \/ CallAdv \/ AdvReturned
  \/ Recheck \/ Address \/ Answer

-----------------------------------------------------------------------------

\* wifi_join, wifi_scan and wifi_disconnect of dev_wlan_cmd.c
ShellCall(o, c) ==
  /\ o # "adv"
  /\ c = NoCred <=> o # "connect"
  /\ shellCalls < MaxShell
  /\ shellCalls' = shellCalls + 1
  /\ Begin(shell, o, c)
  /\ UNCHANGED <<bleVars, handVars, workVars>>

Wlan(A) == A /\ UNCHANGED <<bleVars, handVars, workVars, shellCalls>>

Init ==
  /\ WlanInit
  /\ session = 0 /\ sessions = 0 /\ buf = <<>> /\ bpc = "idle" /\ accepted = 0
  /\ cell = NoCred /\ sem = 0 /\ untried = FALSE
  /\ wpc = "start" /\ wcred = NoCred
  /\ shellCalls = 0

Ble ==
  \/ Opened \/ Closed \/ ReleaseSem
  \/ \E s \in Ssids \cup {NoNet} : Receive(s)
  \/ \E c \in Creds : ReceiveEnd(c)

Next ==
  \/ Ble
  \/ WorkerStep
  \/ \E o \in Ops, c \in Creds \cup {NoCred} : ShellCall(o, c)
  \/ Wlan(LinkLost)
  \/ \E t \in Callers : Wlan(Enter(t)) \/ Wlan(CallStep(t))

Spec == Init /\ [][Next]_vars

\* Every thread gets to run, the calls of the SDK return, and a thread that
\* waits for the mutex gets it if it is free again and again (its wait list).
FairSpec ==
  /\ Spec
  /\ WF_vars(ReleaseSem) /\ WF_vars(WorkerStep)
  /\ \A t \in Callers :
       WF_vars(Wlan(CallStep(t))) /\ SF_vars(Wlan(Enter(t)))

-----------------------------------------------------------------------------
(* Properties                                                              *)

TypeOK ==
  /\ session \in 0 .. MaxSessions /\ sessions \in session .. MaxSessions
  /\ buf = <<>> \/ \E p \in Parts : buf = <<p>>
  /\ bpc \in {"idle", "release"}
  /\ cell \in Creds \cup {NoCred} /\ wcred \in Creds \cup {NoCred}
  /\ accepted \in 0 .. MaxAccepted
  /\ sem \in 0 .. IF bpc = "release" THEN accepted - 1 ELSE accepted
  /\ wpc \in {"start", "take", "copy", "ready", "called", "recheck", "address",
              "answer"}
  /\ untried \in BOOLEAN /\ shellCalls \in 0 .. MaxShell

\* A message is put together from the parts of one BLE connection: what a
\* connection leaves behind when it is closed (gd_prov_ble_conn_evt) never
\* becomes the ssid for the password of the next one.
OneSender == \A i \in DOMAIN buf : buf[i].from = session

\* When rt_wlan_connect_adv succeeds, the station is connected with the
\* credentials that the worker passed, whatever the shell does at that time.
ConnectedIsTheirs ==
  [][pc[worker] = "advUnlock" /\ pc'[worker] = "idle"
       /\ ret[worker] = "EOK"
     => connect' /\ info'.cred = wcred]_vars

\* The call of the worker is the one it made with its copy of the credentials,
\* which are the default or those of one message, never of two.
CallIsOwn ==
  /\ wpc # "start" => cell \in Creds
  /\ wpc \in {"ready", "called"} => wcred \in Creds
  /\ pc[worker] # "idle" =>
       wpc = "called" /\ op[worker] = "adv" /\ arg[worker].cred = wcred
  /\ op[shell] # "adv"

\* The station, its mutex and its callers (WlanInv), and what the worker passes.
StationInv == TypeOK /\ WlanInv /\ CallIsOwn

\* The newest credentials that were accepted are tried: the worker copies them
\* sooner or later, unless its first step overwrites them with the default or
\* the shell left the management layer locked (the failed scan in
\* rt_wlan_connect).
LatestTried == untried ~> ~untried \/ Stuck

=============================================================================
