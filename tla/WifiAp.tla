------------------------------- MODULE WifiAp -------------------------------
(***************************************************************************)
(* The verbs start, stop and restart of the binding, src/src/wifiAp.c, over *)
(* the thread library and the platform.                                     *)
(*                                                                          *)
(* The binding sets noconcurrency = 0: each caller is a binder thread that  *)
(* runs one verb at a time, and pc[c] is the next step of that verb.  One   *)
(* step is one command, one file written, one library call, one access to   *)
(* a variable shared by the callers.  Going back to "idle" is the return of *)
(* the function, which has replied before, unless it is restart.            *)
(***************************************************************************)
EXTENDS WifiApThread, WifiApPlatform, FiniteSets

CONSTANTS
  IpOk,          \* parameters whose AP address and DHCP range are valid
  RadioOk,       \* parameters whose SSID and channel are valid
  StartAtInit,   \* "startAtInit" of the configuration file
  Operator,      \* the callers whose clients ask start, stop or restart
  Offered,       \* the verbs they ask
  Polite,        \* they ask stop only when the status is "started"
  MaxBoot        \* bound: how often the binder is started

ASSUME VerbAssumption ==
  /\ IpOk \subseteq Cfg /\ RadioOk \subseteq Cfg
  /\ Operator \subseteq Caller
  /\ Offered \subseteq {"start", "stop", "restart"}
  /\ StartAtInit \in BOOLEAN /\ Polite \in BOOLEAN
  /\ MaxBoot \in Nat

VARIABLES
  status,            \* wifiApData->status
  cfg,               \* the other fields of wifiApData
  wifiApThreadPtr,
  verb,              \* the verb each caller runs
  pc,                \* its next step
  boots              \* number of starts of the binder after the first

verbVars == <<status, cfg, wifiApThreadPtr, verb, pc, boots>>
vars == <<libVars, sysVars, verbVars, alive>>

Status == {"initializing", "started", "stopped", "failure"}
Verb == {"none", "init", "start", "stop", "restart"}

\* The steps of startAp before it creates the thread object.
BeforeCreate ==
  {"start_test", "restart_marker", "restart_stop", "restart_stop2", "marker",
   "clean", "clean2", "wlan_up", "hosts", "dnsmasq_conf", "dnsmasq", "checks",
   "hostapd_conf", "hw_start", "hostapd", "create"}

PC == BeforeCreate \cup
  {"idle", "store", "joinable", "destructor", "launch", "set_started",
   "dnsmasq_fail", "remove_conf", "fail", "stop_hostapd", "stop_hostapd2", "stop_hw",
   "stop_thread", "cancelling", "joining", "set_stopped"}

\* Steps at which WIFIAP_HOSTAPD_STOP is in its sleep 1.
MidScript == {"restart_stop2", "clean2", "stop_hostapd2"}

-----------------------------------------------------------------------------
(* Helpers *)

At(c, p) == alive /\ pc[c] = p

Jump(c, p) == pc' = [pc EXCEPT ![c] = p]

Serving == alive /\ \A c \in Caller : verb[c] # "init"

Idle(c) == Serving /\ pc[c] = "idle"

\* Bound: a start is asked only while an allocation is left for it.
RoomToStart ==
  Cardinality({c \in Caller : pc[c] \in BeforeCreate})
    < Cardinality({o \in Obj : obj[o].mem = "unborn"})

Ask(c, v, p) ==
  /\ c \in Operator /\ v \in Offered
  /\ verb' = [verb EXCEPT ![c] = v]
  /\ Jump(c, p)
  /\ UNCHANGED <<libVars, sysVars, status, cfg, wifiApThreadPtr, boots, alive>>

\* The function of the verb returns.  start and stop have sent their reply by then;
\* restart never sends one.
EndVerb(c) ==
  /\ verb' = [verb EXCEPT ![c] = "none"]
  /\ Jump(c, "idle")

\* What a step leaves alone when it only moves pc and touches the platform.
KeepVerb == UNCHANGED <<libVars, status, cfg, wifiApThreadPtr, verb, boots>>

\* wifiApThreadPtr->threadId is read, then library function fn is called.
CallWithThreadId(c, fn) ==
  /\ NoteUse(wifiApThreadPtr)
  /\ \E id \in threadIdOf(wifiApThreadPtr) : Call(c, fn, id)
  /\ UNCHANGED <<obj, threadList, Mutex, pth>>
  /\ UNCHANGED <<sysVars, status, cfg, wifiApThreadPtr, boots, alive>>

\* The library function fn called by the previous step is back.
Back(c, p, fn) == At(c, p) /\ Returned(c, fn)

Init ==
  /\ LibInit /\ PlatformInit
  /\ alive = TRUE
  /\ status = "initializing"
  /\ cfg \in Cfg
  /\ wifiApThreadPtr = None
  /\ boots = 0
  /\ \E c \in Caller :
       /\ verb = [d \in Caller |-> IF StartAtInit /\ d = c THEN "init" ELSE "none"]
       /\ pc = [d \in Caller |-> IF StartAtInit /\ d = c THEN "marker" ELSE "idle"]

-----------------------------------------------------------------------------
(* Requests *)

AskStart(c) == Idle(c) /\ RoomToStart /\ Ask(c, "start", "start_test")

AskStop(c) ==
  /\ Idle(c)
  /\ Polite => status = "started"
  /\ Ask(c, "stop", "stop_hostapd")

AskRestart(c) == Idle(c) /\ RoomToStart /\ Ask(c, "restart", "restart_marker")

\* The setter verbs, whatever the status.
SetParameters(c) ==
  /\ Idle(c)
  /\ cfg' \in Cfg \ {cfg}
  /\ UNCHANGED <<libVars, sysVars, status, wifiApThreadPtr, verb, pc, boots, alive>>

-----------------------------------------------------------------------------
(* start and restart up to startAp *)

\* Mutant: the status is not looked at.
StartUntested(c) ==
  /\ At(c, "start_test")
  /\ Jump(c, "marker")
  /\ KeepVerb /\ UNCHANGED <<sysVars, alive>>

StartTest(c) ==
  /\ At(c, "start_test")
  /\ \/ status = "started" /\ EndVerb(c)
     \/ status # "started" /\ Jump(c, "marker") /\ UNCHANGED verb
  /\ UNCHANGED <<libVars, sysVars, status, cfg, wifiApThreadPtr, boots, alive>>

\* Without a marker file restart does nothing at all.
RestartTest(c) ==
  /\ At(c, "restart_marker")
  /\ \/ ~MarkersExist /\ EndVerb(c)
     \/ MarkersExist /\ Jump(c, "restart_stop") /\ UNCHANGED verb
  /\ UNCHANGED <<libVars, sysVars, status, cfg, wifiApThreadPtr, boots, alive>>

\* The two halves of WIFIAP_HOSTAPD_STOP, at steps p and q of a verb.
HostapdStop(c, p, q, next) ==
  /\ \E result \in {"ok", "error", "signal"} :
       \/ /\ At(c, p)
          /\ HOSTAPD_STOP_begin(result)
          /\ Jump(c, IF result = "ok" THEN q ELSE "fail")
       \/ /\ At(c, q)
          /\ HOSTAPD_STOP_end(result)
          /\ Jump(c, IF result = "ok" THEN next ELSE "fail")
  /\ KeepVerb /\ UNCHANGED alive

RestartHostapdStop(c) == HostapdStop(c, "restart_stop", "restart_stop2", "marker")

-----------------------------------------------------------------------------
(* startAp *)

\* Mutant: the marker files are not looked at.
StartNoClean(c) ==
  /\ At(c, "marker")
  /\ Jump(c, "wlan_up")
  /\ KeepVerb /\ UNCHANGED <<sysVars, alive>>

StartMarker(c) ==
  /\ At(c, "marker")
  /\ Jump(c, IF MarkersExist THEN "clean" ELSE "wlan_up")
  /\ KeepVerb /\ UNCHANGED <<sysVars, alive>>

StartClean(c) == HostapdStop(c, "clean", "clean2", "wlan_up")

\* setDnsmasqService: the addresses are tested before the interface is set up.
DnsmasqWlanUp(c) ==
  /\ At(c, "wlan_up")
  /\ \/ /\ cfg \notin IpOk
        /\ Jump(c, "dnsmasq_fail")
        /\ UNCHANGED sysVars
     \/ /\ cfg \in IpOk
        /\ \E result \in {"ok", "error", "signal"} :
             /\ WLAN_UP(result)
             /\ Jump(c, IF WEXITSTATUS_is_0(result) THEN "hosts" ELSE "dnsmasq_fail")
  /\ KeepVerb /\ UNCHANGED alive

DnsmasqHosts(c) ==
  /\ At(c, "hosts")
  /\ createHostsConfigFile
  /\ Jump(c, "dnsmasq_conf")
  /\ KeepVerb

DnsmasqConf(c) ==
  /\ At(c, "dnsmasq_conf")
  /\ createDnsmasqConfigFile(cfg)
  /\ Jump(c, "dnsmasq")
  /\ KeepVerb

DnsmasqRestart(c) ==
  /\ At(c, "dnsmasq")
  /\ \E result \in {"ok", "error", "signal"} :
       /\ DNSMASQ_RESTART(result)
       /\ Jump(c, IF WEXITSTATUS_is_0(result) THEN "checks" ELSE "dnsmasq_fail")
  /\ KeepVerb /\ UNCHANGED alive

\* OnErrorExit of setDnsmasqService sets the status, then startAp does again.
DnsmasqFail(c) ==
  /\ At(c, "dnsmasq_fail")
  /\ status' = "failure"
  /\ Jump(c, "fail")
  /\ UNCHANGED <<libVars, sysVars, cfg, wifiApThreadPtr, verb, boots, alive>>

StartChecks(c) ==
  /\ At(c, "checks")
  /\ Jump(c, IF cfg \in RadioOk THEN "hostapd_conf" ELSE "fail")
  /\ KeepVerb /\ UNCHANGED <<sysVars, alive>>

StartHostapdConf(c) ==
  /\ At(c, "hostapd_conf")
  /\ \E result \in {"ok", "error"} :
       /\ GenerateHostApConfFile(cfg, result)
       /\ Jump(c, IF result = "ok" THEN "hw_start" ELSE "fail")
  /\ KeepVerb /\ UNCHANGED alive

StartHw(c) ==
  /\ At(c, "hw_start")
  /\ \E result \in {"ok", "error", "signal"} :
       /\ HW_START(result)
       /\ Jump(c, IF WEXITSTATUS_is_0(result) THEN "hostapd" ELSE "fail")
  /\ KeepVerb /\ UNCHANGED alive

StartHostapd(c) ==
  /\ At(c, "hostapd")
  /\ \E result \in {"ok", "error", "signal"} :
       /\ HOSTAPD_START(result)
       /\ Jump(c, IF result = "ok" THEN "create" ELSE "remove_conf")
  /\ KeepVerb /\ UNCHANGED alive

StartRemoveConf(c) ==
  /\ At(c, "remove_conf")
  /\ RemoveHostapdConf
  /\ Jump(c, "fail")
  /\ KeepVerb /\ UNCHANGED alive

\* Mutant: an object is created for the first start only.
StartReuseThread(c) ==
  /\ At(c, "create")
  /\ \/ wifiApThreadPtr = None /\ Call(c, "CreateThread", 0) /\ Jump(c, "store")
     \/ wifiApThreadPtr # None /\ UNCHANGED frame /\ Jump(c, "joinable")
  /\ UNCHANGED <<obj, threadList, Mutex, pth, fault>>
  /\ UNCHANGED <<sysVars, status, cfg, wifiApThreadPtr, verb, boots, alive>>

StartCreateThread(c) ==
  /\ At(c, "create")
  /\ Call(c, "CreateThread", 0)
  /\ Jump(c, "store")
  /\ UNCHANGED <<obj, threadList, Mutex, pth, fault>>
  /\ UNCHANGED <<sysVars, status, cfg, wifiApThreadPtr, verb, boots, alive>>

\* Mutant: the id of the object is stored instead of its address.
StoreThreadId(c) ==
  /\ Back(c, "store", "CreateThread")
  /\ wifiApThreadPtr' = TheId
  /\ frame' = [frame EXCEPT ![c] = NoFrame]
  /\ Jump(c, "joinable")
  /\ UNCHANGED <<obj, threadList, Mutex, pth, fault>>
  /\ UNCHANGED <<sysVars, status, cfg, verb, boots, alive>>

StoreThreadPtr(c) ==
  /\ Back(c, "store", "CreateThread")
  /\ wifiApThreadPtr' = frame[c].ptr
  /\ frame' = [frame EXCEPT ![c] = NoFrame]
  /\ Jump(c, "joinable")
  /\ UNCHANGED <<obj, threadList, Mutex, pth, fault>>
  /\ UNCHANGED <<sysVars, status, cfg, verb, boots, alive>>

\* Mutant: the thread is left detached.
StartNotJoinable(c) ==
  /\ At(c, "joinable")
  /\ CallWithThreadId(c, "addDestructorToThread")
  /\ Jump(c, "launch") /\ UNCHANGED verb

\* The errors of the three calls are logged and ignored.
StartSetJoinable(c) ==
  /\ At(c, "joinable")
  /\ CallWithThreadId(c, "setThreadJoinable")
  /\ Jump(c, "destructor") /\ UNCHANGED verb

StartAddDestructor(c) ==
  /\ Back(c, "destructor", "setThreadJoinable")
  /\ CallWithThreadId(c, "addDestructorToThread")
  /\ Jump(c, "launch") /\ UNCHANGED verb

StartLaunch(c) ==
  /\ Back(c, "launch", "addDestructorToThread")
  /\ CallWithThreadId(c, "startThread")
  /\ Jump(c, "set_started") /\ UNCHANGED verb

SetStarted(c) ==
  /\ Back(c, "set_started", "startThread")
  /\ status' = "started"
  /\ frame' = [frame EXCEPT ![c] = NoFrame]
  /\ EndVerb(c)
  /\ UNCHANGED <<obj, threadList, Mutex, pth, fault>>
  /\ UNCHANGED <<sysVars, cfg, wifiApThreadPtr, boots, alive>>

\* Mutant: binding_ctl goes on when the first start failed.
FailAndServe(c) ==
  /\ At(c, "fail")
  /\ status' = "failure"
  /\ EndVerb(c)
  /\ frame' = [frame EXCEPT ![c] = NoFrame]
  /\ UNCHANGED <<obj, threadList, Mutex, pth, fault>>
  /\ UNCHANGED <<sysVars, cfg, wifiApThreadPtr, boots, alive>>

\* The error exits of startAp, stop and restart.  When the first start fails,
\* binding_ctl returns -1 and the binder gives up.
Fail(c) ==
  /\ At(c, "fail")
  /\ status' = "failure"
  /\ EndVerb(c)
  /\ frame' = [frame EXCEPT ![c] = NoFrame]
  /\ alive' = (verb[c] # "init")
  /\ UNCHANGED <<obj, threadList, Mutex, pth, fault>>
  /\ UNCHANGED <<sysVars, cfg, wifiApThreadPtr, boots>>

-----------------------------------------------------------------------------
(* stop *)

\* Mutant: the exit status of the script is not tested.
StopHostapdUnchecked(c) ==
  /\ \E result \in {"ok", "error", "signal"} :
       \/ At(c, "stop_hostapd") /\ HOSTAPD_STOP_begin(result) /\ Jump(c, "stop_hostapd2")
       \/ At(c, "stop_hostapd2") /\ HOSTAPD_STOP_end(result) /\ Jump(c, "stop_hw")
  /\ KeepVerb /\ UNCHANGED alive

StopHostapd(c) == HostapdStop(c, "stop_hostapd", "stop_hostapd2", "stop_hw")

StopHw(c) ==
  /\ At(c, "stop_hw")
  /\ \E result \in {"ok", "error", "signal"} :
       /\ HW_STOP(result)
       /\ Jump(c, IF result = "ok" THEN "stop_thread" ELSE "fail")
  /\ KeepVerb /\ UNCHANGED alive

\* Mutant: the thread is joined before it is told to end.
StopJoinOnly(c) ==
  /\ At(c, "stop_thread")
  /\ wifiApThreadPtr # None
  /\ CallWithThreadId(c, "JoinThread")
  /\ Jump(c, "joining") /\ UNCHANGED verb

StopCancel(c) ==
  /\ At(c, "stop_thread")
  /\ wifiApThreadPtr # None
  /\ CallWithThreadId(c, "cancelThread")
  /\ Jump(c, "cancelling") /\ UNCHANGED verb

StopNoThread(c) ==
  /\ At(c, "stop_thread")
  /\ wifiApThreadPtr = None
  /\ Jump(c, "set_stopped")
  /\ KeepVerb /\ UNCHANGED <<sysVars, alive>>

\* Mutant: the end of the thread is not waited for.
StopWithoutJoin(c) ==
  /\ Back(c, "cancelling", "cancelThread")
  /\ Jump(c, "set_stopped")
  /\ KeepVerb /\ UNCHANGED <<sysVars, alive>>

StopJoin(c) ==
  /\ Back(c, "cancelling", "cancelThread")
  /\ \/ /\ frame[c].ret = 0
        /\ CallWithThreadId(c, "JoinThread")
        /\ Jump(c, "joining") /\ UNCHANGED verb
     \/ /\ frame[c].ret # 0
        /\ Jump(c, "set_stopped")
        /\ KeepVerb /\ UNCHANGED <<sysVars, alive>>

StopJoined(c) ==
  /\ Back(c, "joining", "JoinThread")
  /\ Jump(c, IF frame[c].ret = 0 THEN "set_stopped" ELSE "fail")
  /\ KeepVerb /\ UNCHANGED <<sysVars, alive>>

SetStopped(c) ==
  /\ At(c, "set_stopped")
  /\ status' = "stopped"
  /\ frame' = [frame EXCEPT ![c] = NoFrame]
  /\ EndVerb(c)
  /\ UNCHANGED <<obj, threadList, Mutex, pth, fault>>
  /\ UNCHANGED <<sysVars, cfg, wifiApThreadPtr, boots, alive>>

-----------------------------------------------------------------------------
(* The binder dies and is started again: the files and the daemons stay. *)

\* A script that runs goes on to its end without the binder, so that dying in the middle
\* of one is dying after it.  Bound: the binder is not back within the sleep of
\* WIFIAP_HOSTAPD_STOP, where the marker files are gone and the daemons are not.
Crash ==
  /\ alive /\ boots < MaxBoot
  /\ \A c \in Caller : pc[c] \notin MidScript
  /\ Die
  /\ UNCHANGED <<libVars, sysVars, verbVars>>

Boot ==
  /\ ~alive /\ boots < MaxBoot
  /\ alive' = TRUE
  /\ boots' = boots + 1
  /\ obj' = [o \in Obj |-> UnbornObj]
  /\ threadList' = None
  /\ Mutex' = None
  /\ pth' = [t \in Thread |-> NoPthread]
  /\ frame' = [c \in Caller |-> NoFrame]
  /\ fault' = {}
  /\ status' = "initializing"
  /\ cfg' \in Cfg
  /\ wifiApThreadPtr' = None
  /\ \E c \in Caller :
       /\ verb' = [d \in Caller |-> IF StartAtInit /\ d = c THEN "init" ELSE "none"]
       /\ pc' = [d \in Caller |-> IF StartAtInit /\ d = c THEN "marker" ELSE "idle"]
  /\ UNCHANGED sysVars

-----------------------------------------------------------------------------
\* The library runs inside a verb: the rest of the state is left alone.
Library(c) ==
  LibStep(c) /\ UNCHANGED <<sysVars, verbVars>>

EventThread(t) ==
  PthreadStep(t) /\ UNCHANGED <<sysVars, verbVars>>

Request(c) == AskStart(c) \/ AskStop(c) \/ AskRestart(c) \/ SetParameters(c)

StartStep(c) ==
  \/ StartTest(c) \/ RestartTest(c) \/ RestartHostapdStop(c)
  \/ StartMarker(c) \/ StartClean(c)
  \/ DnsmasqWlanUp(c) \/ DnsmasqHosts(c) \/ DnsmasqConf(c) \/ DnsmasqRestart(c)
  \/ DnsmasqFail(c)
  \/ StartChecks(c) \/ StartHostapdConf(c) \/ StartHw(c)
  \/ StartHostapd(c) \/ StartRemoveConf(c)
  \/ StartCreateThread(c) \/ StoreThreadPtr(c)
  \/ StartSetJoinable(c) \/ StartAddDestructor(c) \/ StartLaunch(c)
  \/ SetStarted(c) \/ Fail(c)

StopStep(c) ==
  \/ StopHostapd(c) \/ StopHw(c) \/ StopNoThread(c) \/ StopCancel(c)
  \/ StopJoin(c) \/ StopJoined(c) \/ SetStopped(c)

VerbStep(c) == StartStep(c) \/ StopStep(c)

Next ==
  \/ \E c \in Caller : Request(c) \/ VerbStep(c) \/ Library(c)
  \/ \E t \in Thread : EventThread(t)
  \/ Crash \/ Boot

Spec == Init /\ [][Next]_vars

\* The binder schedules its worker threads and the event thread, and the scripts end.
\* Nothing makes a client ask, the pipe of "iw event" end, or the destructor of an
\* event thread come back from pclose.
Fairness ==
  /\ \A c \in Caller : WF_vars(VerbStep(c)) /\ WF_vars(Library(c))
  /\ \A t \in Thread :
       WF_vars((ActOnCancel(t) \/ CleanupUnlink(t) \/ CleanupFree(t))
                 /\ UNCHANGED <<sysVars, verbVars>>)

FairSpec == Spec /\ Fairness

-----------------------------------------------------------------------------
(* Properties *)

TypeOK ==
  /\ LibTypeOK /\ PlatformTypeOK
  /\ alive \in BOOLEAN
  /\ status \in Status
  /\ cfg \in Cfg
  /\ wifiApThreadPtr \in Obj \cup {None}
  /\ verb \in [Caller -> Verb]
  /\ pc \in [Caller -> PC]
  /\ boots \in 0..MaxBoot

\* Until freed memory is used, the object the list of threads leads to is not a freed
\* one, however the verbs of the callers and the ends of event threads interleave: the
\* first memory error is never a look-up of findThreadFromIdInList, always a pointer
\* that a verb or a pthread had kept.  After it nothing is promised.
ListSound == fault = {} /\ threadList # None => obj[threadList].mem = "live"

\* cancelThread leaves Mutex locked when it finds no thread.  Unless a freed
\* object gave it a wrong id, that is when no thread is listed, and from then on
\* none can be.
LeakIsFinal == Mutex # None /\ fault = {} => threadList = None

\* Without concurrent starts and stops, memory is used as it should and no
\* verb leaves the thread library with Mutex locked.
LibrarySafe == fault = {} /\ Mutex = None

\* No verb runs.
Quiet == alive /\ \A c \in Caller : verb[c] = "none"

\* When the access point is reported started, what stop will do to its event
\* thread works: the object wifiApThreadPtr points to is alive, listed, joinable,
\* has a pthread nobody joins, and the destructor that ends "iw event".
Stoppable ==
  Quiet /\ status = "started" =>
    LET o == wifiApThreadPtr IN
    /\ o # None /\ threadList = o
    /\ obj[o].mem = "live" /\ obj[o].isJoinable
    /\ obj[o].threadHandle # None
    /\ LET t == obj[o].threadHandle IN
         /\ pth[t].o = o /\ ~pth[t].detached /\ pth[t].joiner = None
         /\ pth[t].pc = "main" => obj[o].destructors = 1

\* The status the verbs read agrees with the system: started means that both
\* daemons serve, stopped that neither does and no marker file is left.  It holds as
\* long as hostapd dies when the script kills it ("kill_hostapd" does not fail).
StatusTruth ==
  Quiet =>
    /\ status = "started" => hostapd # None /\ dnsmasq # None /\ MarkersExist
    /\ status = "stopped" => hostapd = None /\ dnsmasq = None /\ ~MarkersExist

\* A daemon that runs is covered by a marker file, so that the next startAp,
\* maybe that of the next process, knows that it has to clean up first.
MarkersCoverDaemons ==
  (\A c \in Caller : pc[c] \notin MidScript) /\ (hostapd # None \/ dnsmasq # None)
    => MarkersExist

\* When no command fails, a verb fails only because start was given bad
\* parameters, whatever an earlier failure or the death of an earlier process
\* left behind.
FailsOnlyOnBadParameters ==
  \A c \in Caller :
    pc[c] \in {"fail", "dnsmasq_fail", "remove_conf"} => cfg \notin IpOk \cap RadioOk

EventThreads == {t \in Thread : pth[t].pc \notin {"none", "exited"}}

\* Once stop has answered, the event thread of the last start has ended, whatever failed
\* and whatever was started before.  An event thread that is left then is one that restart,
\* or a start after a failed stop, had forgotten when it overwrote wifiApThreadPtr.
StopEndsItsThread ==
  Quiet /\ status = "stopped" => \A t \in EventThreads : pth[t].o # wifiApThreadPtr

\* Whoever waits in pthread_join waits for a pthread that was told to end or is ending:
\* stop does not wait for a thread that reads "iw event" for ever.
JoinedThreadEnds ==
  \A c \in Caller : frame[c].fn = "JoinThread" /\ frame[c].at = "wait" =>
    LET t == frame[c].handle IN t # None /\ pth[t].pc = "main" => pth[t].cancel

\* Every verb ends, although stop waits for a thread that waits for "iw event": the one
\* place where it may stay is in pthread_join, for as long as the destructor of the thread
\* it told to end takes (StopEnds of WifiApEvents is when that one ends).
WaitsForDestructor(c) ==
  /\ frame[c].fn = "JoinThread" /\ frame[c].at = "wait"
  /\ \E t \in Thread : frame[c].handle = t /\ pth[t].pc = "cleanup"

VerbsEnd ==
  \A c \in Caller : verb[c] # "none" ~> verb[c] = "none" \/ WaitsForDestructor(c)

-----------------------------------------------------------------------------
(* What the comments of the code say of it *)

\* JoinThread: "After a thread has been joined with, its thread id is no longer
\* valid and must never be used again."  stop reads wifiApThreadPtr->threadId.
JoinedIdNeverUsed ==
  [][\A c \in Caller : pc[c] = "stop_thread" /\ pc'[c] = "cancelling"
       => obj[wifiApThreadPtr].mem = "live"]_vars

\* cancelThread: "This function returns immediately".
CancelReturns ==
  \A c \in Caller : frame[c].fn = "cancelThread" /\ frame[c].at = "entry"
                     ~> frame[c].at = "done"
=============================================================================
