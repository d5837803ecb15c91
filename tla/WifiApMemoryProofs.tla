-------------------------- MODULE WifiApMemoryProofs --------------------------
(***************************************************************************)
(* Theorems about one binder thread at a time that runs verbs, WifiAp:      *)
(*  - it uses the memory of the thread library as it should, and stop finds *)
(*    the event thread it has to end, whatever command or file fails;       *)
(*  - a stop that answered has ended the event thread of the last start;    *)
(*  - the marker files cover the daemons across the deaths of the binder,   *)
(*    so that without failures no start fails but for its parameters.       *)
(* They hold for any number of lives of the binder, objects and pthreads,   *)
(* and wherever an event thread ends by itself.                             *)
(***************************************************************************)
EXTENDS WifiApStatusProofs

\* The client does not ask stop twice, pthread_cancel tells nothing of a pthread that
\* exited, and pthread_create works.
LibraryKind == Polite /\ CancelExited = {"ok"} /\ "pthread_create" \notin Fallible

-----------------------------------------------------------------------------
(* The invariant *)

\* An event thread was started joinable, and its object is there until it has ended.
OwnsObject(t) ==
  pth[t].pc # "none" =>
    LET o == pth[t].o IN
    /\ pth[t].pc \in {"main", "cleanup", "exited"} /\ ~pth[t].detached
    /\ o \in Obj /\ obj[o].threadHandle = t /\ obj[o].isJoinable
    /\ pth[t].pc # "exited" => obj[o].mem = "live"
    /\ pth[t].pc = "main" => obj[o].destructors = 1
    /\ pth[t].pc = "cleanup" => obj[o].destructors \in {0, 1}

\* o is listed, has no pthread yet, and n destructors.
Built(o, n) ==
  /\ o \in Obj /\ threadList = o
  /\ obj[o].mem = "live" /\ obj[o].state = "NEW" /\ obj[o].threadHandle = None
  /\ obj[o].destructors = n

\* o has a pthread.
Launched(o) ==
  /\ o \in Obj
  /\ obj[o].mem = "live" /\ obj[o].isJoinable /\ obj[o].threadHandle \in Thread
  /\ pth[obj[o].threadHandle].pc # "none" /\ pth[obj[o].threadHandle].o = o

JoinedBy(o) == pth[obj[o].threadHandle].joiner

Ready(o) == threadList = o /\ Launched(o) /\ JoinedBy(o) = None

\* How far a call of one of the functions of ByIdFunction with wifiApThreadPtr is.
ByIdCall(F, fn) ==
  /\ F.fn = fn /\ F.at \in {"entry", "found", "checked", "done"}
  /\ F.at = "entry" => F.id = TheId
  /\ F.at \in {"found", "checked"} => F.ptr = wifiApThreadPtr

JoinCall(F) ==
  LET w == wifiApThreadPtr IN
  /\ F.fn = "JoinThread"
  /\ \/ F.at = "entry" /\ F.id = TheId /\ Ready(w)
     \/ /\ F.at = "wait" /\ F.ptr = w /\ F.handle = obj[w].threadHandle
        /\ threadList = w /\ Launched(w) /\ JoinedBy(w) \in {None, Client}
     \/ /\ F.at = "remove" /\ F.ptr = w
        /\ threadList = w /\ Launched(w) /\ pth[obj[w].threadHandle].pc = "exited"
     \/ /\ F.at = "delete" /\ F.ptr = w
        /\ Launched(w) /\ pth[obj[w].threadHandle].pc = "exited"
     \/ F.at = "done" /\ F.ret = 0

\* The steps of a verb during which a call of the library is under way, and those at
\* which stop has not called it yet.
CallSteps == {"store", "destructor", "launch", "set_started", "cancelling", "joining"}
StopBefore == {"stop_hostapd", "stop_hostapd2", "stop_hw", "stop_thread"}
AtRest == {"idle", "start_test", "restart_marker"}

\* What the step p of the verb with the activation record F knows of the thread.
ThreadKnown(p, F) ==
  LET w == wifiApThreadPtr IN
  /\ p \notin CallSteps => F.at = "done"
  /\ p = "store" => /\ F.fn = "CreateThread" /\ F.at \in {"entry", "done"}
                    /\ F.at = "done" => Built(F.ptr, 0)
  /\ p = "joinable" => Built(w, 0)
  /\ p = "destructor" => /\ ByIdCall(F, "setThreadJoinable") /\ Built(w, 0)
                         /\ F.at = "done" => obj[w].isJoinable
  /\ p = "launch" => /\ ByIdCall(F, "addDestructorToThread") /\ obj[w].isJoinable
                     /\ Built(w, IF F.at = "done" THEN 1 ELSE 0)
  /\ p = "set_started" => /\ ByIdCall(F, "startThread")
                          /\ F.at # "done" => Built(w, 1) /\ obj[w].isJoinable
                          /\ F.at = "done" => Ready(w)
  /\ p \in StopBefore => Ready(w)
  /\ p = "cancelling" => /\ F.fn = "cancelThread" /\ Ready(w)
                         /\ \/ F.at = "entry" /\ F.id = TheId
                            \/ F.at = "done" /\ F.ret = 0
  /\ p = "joining" => JoinCall(F)
  /\ p \in AtRest /\ status = "started" => Ready(w)

OthersOut == \A d \in Caller : d # Client => frame[d].at = "done"

MemoryInv ==
  /\ fault = {} /\ Mutex = None
  /\ \A o \in Obj : obj[o].mem = "unborn" => obj[o] = UnbornObj
  /\ \A t \in Thread : OwnsObject(t)
  /\ OthersIdle /\ OthersOut
  /\ verb[Client] = "none" => pc[Client] = "idle"
  /\ ThreadKnown(pc[Client], frame[Client])

\* No command fails, and nobody asks restart.
Smooth == Fallible = {} /\ "restart" \notin Offered

-----------------------------------------------------------------------------
(* How the invariant moves on *)

LEMMA Typed ==
  ASSUME OneAtATime, Inv
  PROVE  /\ Client \in Caller /\ pc \in [Caller -> PC] /\ verb \in [Caller -> Verb]
         /\ frame \in [Caller -> Frame] /\ obj \in [Obj -> thread_Obj_t]
         /\ pth \in [Thread -> Pthread] /\ LibTypeOK
         /\ threadList \in Obj \cup {None} /\ wifiApThreadPtr \in Obj \cup {None}
  BY VerbAssumption DEF OneAtATime, Inv, TypeOK, LibTypeOK

Knows == ThreadKnown(pc[Client], frame[Client])

\* A step of the verb that leaves objects, pthreads, the list and Mutex alone.
LEMMA VerbMoves ==
  ASSUME OneAtATime, Inv, MemoryInv, NEW q, NEW v, NEW G,
         UNCHANGED <<obj, pth, threadList, Mutex, fault>>,
         pc' = [pc EXCEPT ![Client] = q],
         verb' = [verb EXCEPT ![Client] = v], v = "none" => q = "idle",
         frame' = [frame EXCEPT ![Client] = G], Knows'
  PROVE  MemoryInv'
  <1>1. pc'[Client] = q /\ verb'[Client] = v
    BY Typed
  <1>2. OthersIdle' /\ OthersOut'
    BY Typed DEF MemoryInv, OthersIdle, OthersOut
  <1>3. \A t \in Thread : OwnsObject(t)'
    BY DEF MemoryInv, OwnsObject
  <1> QED BY <1>1, <1>2, <1>3 DEF MemoryInv, Knows

\* A step of the library or of an event thread.
LEMMA LibraryMoves ==
  ASSUME MemoryInv, UNCHANGED verbVars, fault' = {}, Mutex' = None,
         \A o \in Obj : obj'[o].mem = "unborn" => obj'[o] = UnbornObj,
         \A t \in Thread : OwnsObject(t)',
         \A d \in Caller \ {Client} : frame'[d] = frame[d], Knows'
  PROVE  MemoryInv'
  <1>1. UNCHANGED <<pc, verb>>
    BY DEF verbVars
  <1> QED BY <1>1 DEF MemoryInv, OthersIdle, OthersOut, Knows

\* The steps of a verb before which nothing is known of the thread.
FreeSteps ==
  (BeforeCreate \ {"start_test", "restart_marker"})
    \cup {"dnsmasq_fail", "remove_conf", "fail", "set_stopped"}

LEMMA FreeKnown ==
  ASSUME pc'[Client] \in FreeSteps, frame'[Client].at = "done" PROVE Knows'
  BY DEF Knows, ThreadKnown, FreeSteps, BeforeCreate, CallSteps, StopBefore, AtRest

\* The verb goes on without the library.
LEMMA GoesOn ==
  ASSUME OneAtATime, Inv, MemoryInv, NEW q, Jump(Client, q),
         UNCHANGED <<libVars, verb>>, pc[Client] # "idle",
         frame[Client].at = "done",
         \/ q \in FreeSteps
         \/ q \in StopBefore /\ pc[Client] \in StopBefore /\ UNCHANGED wifiApThreadPtr
  PROVE  MemoryInv'
  <1>1. /\ UNCHANGED <<obj, pth, threadList, Mutex, fault, frame>>
        /\ pc' = [pc EXCEPT ![Client] = q] /\ pc'[Client] = q
    BY Typed DEF libVars, Jump
  <1>2. /\ verb' = [verb EXCEPT ![Client] = verb[Client]]
        /\ frame' = [frame EXCEPT ![Client] = frame[Client]]
    BY <1>1, Typed
  <1>3. verb[Client] # "none"
    BY DEF MemoryInv
  <1>4. Knows'
    <2>1. CASE q \in FreeSteps
      BY <1>1, <2>1, FreeKnown
    <2>2. CASE q \in StopBefore /\ pc[Client] \in StopBefore /\ UNCHANGED wifiApThreadPtr
      <3>1. Ready(wifiApThreadPtr)'
        BY <1>1, <2>2 DEF MemoryInv, ThreadKnown, Ready, Launched, JoinedBy
      <3> QED BY <1>1, <2>2, <3>1 DEF Knows, ThreadKnown, StopBefore, CallSteps, AtRest
    <2> QED BY <2>1, <2>2
  <1> QED BY <1>1, <1>2, <1>3, <1>4, VerbMoves

-----------------------------------------------------------------------------
(* Requests, and the steps of the verbs that do not call the library *)

LEMMA RequestMemory ==
  ASSUME OneAtATime, LibraryKind, Inv, MemoryInv, NEW c \in Caller, Request(c)
  PROVE  MemoryInv'
  <1>1. CASE SetParameters(c)
    <2>1. UNCHANGED <<libVars, status, wifiApThreadPtr, verb, pc>>
      BY <1>1 DEF SetParameters
    <2> QED BY <2>1 DEF libVars, MemoryInv, OwnsObject, OthersIdle, OthersOut, ThreadKnown,
               ByIdCall, JoinCall, Built, Launched, JoinedBy, Ready
  <1>2. ASSUME NEW v \in {"start", "stop", "restart"}, NEW p, Idle(c), Ask(c, v, p),
               \/ p \in {"start_test", "restart_marker"}
               \/ p = "stop_hostapd" /\ status = "started"
        PROVE  MemoryInv'
    <2>1. c = Client /\ pc[Client] = "idle"
      BY <1>2 DEF Ask, Idle, OneAtATime
    <2>2. /\ UNCHANGED <<obj, pth, threadList, Mutex, fault, frame, status, wifiApThreadPtr>>
          /\ pc' = [pc EXCEPT ![Client] = p] /\ verb' = [verb EXCEPT ![Client] = v]
      BY <1>2, <2>1 DEF Ask, Jump, libVars
    <2>3. frame' = [frame EXCEPT ![Client] = frame[Client]] /\ pc'[Client] = p
      BY <2>2, Typed
    <2>4. frame[Client].at = "done" /\ (status = "started" => Ready(wifiApThreadPtr))
      BY <2>1 DEF MemoryInv, ThreadKnown, CallSteps, AtRest
    <2>5. status' = "started" => Ready(wifiApThreadPtr)'
      BY <2>2, <2>4 DEF Ready, Launched, JoinedBy
    <2>6. Knows'
      BY <1>2, <2>2, <2>3, <2>4, <2>5 DEF Knows, ThreadKnown, CallSteps, StopBefore, AtRest
    <2> QED BY <2>2, <2>3, <2>6, VerbMoves
  <1>3. CASE AskStart(c)
    BY <1>2, <1>3 DEF AskStart
  <1>4. CASE AskStop(c)
    BY <1>2, <1>4 DEF AskStop, LibraryKind
  <1>5. CASE AskRestart(c)
    BY <1>2, <1>5 DEF AskRestart
  <1> QED BY <1>1, <1>3, <1>4, <1>5 DEF Request

\* The verb ends without a call of the library.
LEMMA EndsVerb ==
  ASSUME OneAtATime, Inv, MemoryInv, NEW G, G.at = "done",
         UNCHANGED <<obj, pth, threadList, Mutex, fault>>, EndVerb(Client),
         frame' = [frame EXCEPT ![Client] = G],
         status' = "started" => Ready(wifiApThreadPtr)'
  PROVE  MemoryInv'
  <1>1. /\ pc' = [pc EXCEPT ![Client] = "idle"] /\ pc'[Client] = "idle"
        /\ verb' = [verb EXCEPT ![Client] = "none"] /\ frame'[Client] = G
    BY Typed DEF EndVerb, Jump
  <1>2. Knows'
    BY <1>1 DEF Knows, ThreadKnown, CallSteps, StopBefore, AtRest
  <1> QED BY <1>1, <1>2, VerbMoves

LEMMA NoCall ==
  ASSUME MemoryInv, pc[Client] \notin CallSteps PROVE frame[Client].at = "done"
  BY DEF MemoryInv, ThreadKnown

LEMMA NoFrameDone == NoFrame.at = "done"
  BY DEF NoFrame

LEMMA PlainStepMemory ==
  ASSUME OneAtATime, Inv, MemoryInv,
         \/ StartTest(Client) \/ RestartTest(Client) \/ RestartHostapdStop(Client)
         \/ StartMarker(Client) \/ StartClean(Client)
         \/ DnsmasqWlanUp(Client) \/ DnsmasqHosts(Client) \/ DnsmasqConf(Client)
         \/ DnsmasqRestart(Client) \/ DnsmasqFail(Client)
         \/ StartChecks(Client) \/ StartHostapdConf(Client) \/ StartHw(Client)
         \/ StartHostapd(Client) \/ StartRemoveConf(Client)
         \/ Fail(Client) \/ StopHostapd(Client) \/ StopHw(Client) \/ StopNoThread(Client)
         \/ StopJoined(Client) \/ SetStopped(Client)
  PROVE  MemoryInv'
  <1>1. CASE StartTest(Client) \/ RestartTest(Client)
    <2>1. /\ UNCHANGED <<libVars, status, wifiApThreadPtr>>
          /\ pc[Client] \in {"start_test", "restart_marker"}
      BY <1>1 DEF StartTest, RestartTest, At
    <2>2. frame[Client].at = "done" /\ (status = "started" => Ready(wifiApThreadPtr))
      BY <2>1 DEF MemoryInv, ThreadKnown, CallSteps, AtRest
    <2>3. CASE EndVerb(Client)
      <3>1. /\ UNCHANGED <<obj, pth, threadList, Mutex, fault>>
            /\ frame' = [frame EXCEPT ![Client] = frame[Client]]
        BY <2>1, Typed DEF libVars
      <3>2. status' = "started" => Ready(wifiApThreadPtr)'
        BY <2>1, <2>2, <3>1 DEF Ready, Launched, JoinedBy
      <3> QED BY <2>2, <2>3, <3>1, <3>2, EndsVerb
    <2>4. CASE (Jump(Client, "marker") \/ Jump(Client, "restart_stop")) /\ UNCHANGED verb
      BY <2>1, <2>2, <2>4, GoesOn DEF FreeSteps, BeforeCreate
    <2> QED BY <1>1, <2>3, <2>4 DEF StartTest, RestartTest
  <1>2. CASE RestartHostapdStop(Client) \/ StartClean(Client)
             \/ StartMarker(Client) \/ DnsmasqWlanUp(Client) \/ DnsmasqHosts(Client)
             \/ DnsmasqConf(Client) \/ DnsmasqRestart(Client) \/ DnsmasqFail(Client)
    <2>1. UNCHANGED <<libVars, verb>>
      BY <1>2 DEF RestartHostapdStop, StartClean, HostapdStop, StartMarker, DnsmasqWlanUp,
         DnsmasqHosts, DnsmasqConf, DnsmasqRestart, DnsmasqFail, KeepVerb
    <2>2. pc[Client] \in {"restart_stop", "restart_stop2", "clean", "clean2", "marker",
                         "wlan_up", "hosts", "dnsmasq_conf", "dnsmasq", "dnsmasq_fail"}
      BY <1>2 DEF RestartHostapdStop, StartClean, HostapdStop, StartMarker, DnsmasqWlanUp,
         DnsmasqHosts, DnsmasqConf, DnsmasqRestart, DnsmasqFail, At
    <2>3. PICK q \in FreeSteps : Jump(Client, q)
      BY <1>2 DEF RestartHostapdStop, StartClean, HostapdStop, StartMarker, DnsmasqWlanUp,
         DnsmasqHosts, DnsmasqConf, DnsmasqRestart, DnsmasqFail, FreeSteps, BeforeCreate
    <2> QED BY <2>1, <2>2, <2>3, NoCall, GoesOn DEF CallSteps
  <1>3. CASE StartChecks(Client) \/ StartHostapdConf(Client) \/ StartHw(Client)
             \/ StartHostapd(Client) \/ StartRemoveConf(Client)
    <2>1. UNCHANGED <<libVars, verb>>
      BY <1>3 DEF StartChecks, StartHostapdConf, StartHw, StartHostapd, StartRemoveConf,
         KeepVerb
    <2>2. pc[Client] \in {"checks", "hostapd_conf", "hw_start", "hostapd", "remove_conf"}
      BY <1>3 DEF StartChecks, StartHostapdConf, StartHw, StartHostapd, StartRemoveConf, At
    <2>3. PICK q \in FreeSteps : Jump(Client, q)
      BY <1>3 DEF StartChecks, StartHostapdConf, StartHw, StartHostapd, StartRemoveConf,
         FreeSteps, BeforeCreate
    <2> QED BY <2>1, <2>2, <2>3, NoCall, GoesOn DEF CallSteps
  <1>4. CASE Fail(Client) \/ SetStopped(Client)
    <2>1. /\ UNCHANGED <<obj, pth, threadList, Mutex, fault>> /\ EndVerb(Client)
          /\ frame' = [frame EXCEPT ![Client] = NoFrame] /\ status' # "started"
      BY <1>4 DEF Fail, SetStopped
    <2> QED BY <2>1, NoFrameDone, EndsVerb
  <1>5. CASE StopHostapd(Client) \/ StopHw(Client) \/ StopNoThread(Client)
    <2>1. UNCHANGED <<libVars, verb, wifiApThreadPtr>> /\ pc[Client] \in StopBefore
      BY <1>5 DEF StopHostapd, HostapdStop, StopHw, StopNoThread, KeepVerb, At, StopBefore
    <2>2. PICK q \in StopBefore \cup {"fail", "set_stopped"} : Jump(Client, q)
      BY <1>5 DEF StopHostapd, HostapdStop, StopHw, StopNoThread, StopBefore
    <2> QED BY <2>1, <2>2, NoCall, GoesOn DEF CallSteps, StopBefore, FreeSteps
  <1>6. CASE StopJoined(Client)
    <2>1. /\ UNCHANGED <<libVars, verb>> /\ pc[Client] = "joining"
          /\ frame[Client].at = "done"
      BY <1>6 DEF StopJoined, KeepVerb, Back, At, Returned, In
    <2>2. PICK q \in FreeSteps : Jump(Client, q)
      BY <1>6 DEF StopJoined, FreeSteps
    <2> QED BY <2>1, <2>2, GoesOn
  <1> QED BY <1>1, <1>2, <1>3, <1>4, <1>5, <1>6

-----------------------------------------------------------------------------
(* The steps of the verbs that call the library or take its result *)

\* The object wifiApThreadPtr points to is there, and its id is asked for.
LEMMA CallsById ==
  ASSUME OneAtATime, Inv, MemoryInv, NEW fn \in Function, CallWithThreadId(Client, fn),
         wifiApThreadPtr \in Obj, obj[wifiApThreadPtr].mem = "live"
  PROVE  /\ UNCHANGED <<obj, pth, threadList, Mutex, fault, status, wifiApThreadPtr>>
         /\ \E G : /\ frame' = [frame EXCEPT ![Client] = G] /\ frame'[Client] = G
                   /\ G.fn = fn /\ G.at = "entry" /\ G.id = TheId
  <1>1. wifiApThreadPtr # None
    BY ThreadAssumption
  <1>2. UNCHANGED <<obj, pth, threadList, Mutex, fault, status, wifiApThreadPtr>>
    BY <1>1 DEF CallWithThreadId, NoteUse, IsFreed
  <1>3. Call(Client, fn, TheId)
    BY <1>1 DEF CallWithThreadId, threadIdOf, FieldValues, IsFreed
  <1> DEFINE new == [NoFrame EXCEPT !.fn = fn, !.at = "entry", !.id = TheId]
  <1>4. new.fn = fn /\ new.at = "entry" /\ new.id = TheId
    BY DEF NoFrame
  <1>5. frame' = [frame EXCEPT ![Client] = new]
    BY <1>3 DEF Call
  <1> HIDE DEF new
  <1>6. frame'[Client] = new
    BY <1>5, Typed
  <1> QED BY <1>2, <1>4, <1>5, <1>6

LEMMA CreateMemory ==
  ASSUME OneAtATime, Inv, MemoryInv, StartCreateThread(Client) \/ StoreThreadPtr(Client)
  PROVE  MemoryInv'
  <1>1. /\ UNCHANGED <<obj, pth, threadList, Mutex, fault, status, verb>>
        /\ verb' = [verb EXCEPT ![Client] = verb[Client]]
    BY Typed DEF StartCreateThread, StoreThreadPtr
  <1>2. CASE StartCreateThread(Client)
    <2> DEFINE new == [NoFrame EXCEPT !.fn = "CreateThread", !.at = "entry", !.id = 0]
    <2>1. frame' = [frame EXCEPT ![Client] = new] /\ pc[Client] = "create"
          /\ pc' = [pc EXCEPT ![Client] = "store"]
      BY <1>2 DEF StartCreateThread, Call, Jump, At
    <2>2. new.fn = "CreateThread" /\ new.at = "entry"
      BY DEF NoFrame
    <2> HIDE DEF new
    <2>3. frame'[Client] = new /\ pc'[Client] = "store"
      BY <2>1, Typed
    <2>4. Knows'
      BY <2>2, <2>3 DEF Knows, ThreadKnown, CallSteps, StopBefore, AtRest
    <2>5. verb[Client] # "none"
      BY <2>1 DEF MemoryInv
    <2> QED BY <1>1, <2>1, <2>4, <2>5, VerbMoves
  <1>3. CASE StoreThreadPtr(Client)
    <2>1. /\ frame' = [frame EXCEPT ![Client] = NoFrame] /\ pc[Client] = "store"
          /\ pc' = [pc EXCEPT ![Client] = "joinable"]
          /\ frame[Client].at = "done" /\ wifiApThreadPtr' = frame[Client].ptr
      BY <1>3 DEF StoreThreadPtr, Back, At, Returned, In, Jump
    <2>2. frame'[Client].at = "done" /\ pc'[Client] = "joinable"
      BY <2>1, Typed DEF NoFrame
    <2>3. Built(frame[Client].ptr, 0)
      BY <2>1 DEF MemoryInv, ThreadKnown
    <2>4. Built(wifiApThreadPtr, 0)'
      BY <1>1, <2>1, <2>3 DEF Built
    <2>5. Knows'
      BY <2>2, <2>4 DEF Knows, ThreadKnown, CallSteps, StopBefore, AtRest
    <2>6. verb[Client] # "none"
      BY <2>1 DEF MemoryInv
    <2> QED BY <1>1, <2>1, <2>5, <2>6, VerbMoves
  <1> QED BY <1>2, <1>3


\* The verb calls fn and goes on to step q, where its result is awaited.
LEMMA Opens ==
  ASSUME OneAtATime, Inv, MemoryInv, NEW fn \in Function, CallWithThreadId(Client, fn),
         NEW q, Jump(Client, q), UNCHANGED verb, pc[Client] # "idle",
         wifiApThreadPtr \in Obj, obj[wifiApThreadPtr].mem = "live",
         UNCHANGED <<obj, pth, threadList, wifiApThreadPtr>>
           /\ pc'[Client] = q /\ frame'[Client].fn = fn
           /\ frame'[Client].at = "entry" /\ frame'[Client].id = TheId => Knows'
  PROVE  MemoryInv'
  <1>1. PICK G : /\ frame' = [frame EXCEPT ![Client] = G] /\ frame'[Client] = G
                 /\ G.fn = fn /\ G.at = "entry" /\ G.id = TheId
    BY CallsById
  <1>2. UNCHANGED <<obj, pth, threadList, Mutex, fault, wifiApThreadPtr>>
    BY CallsById
  <1>3. /\ pc' = [pc EXCEPT ![Client] = q] /\ pc'[Client] = q
        /\ verb' = [verb EXCEPT ![Client] = verb[Client]] /\ verb[Client] # "none"
    BY Typed DEF Jump, MemoryInv
  <1>4. Knows'
    BY <1>1, <1>2, <1>3
  <1> QED BY <1>1, <1>2, <1>3, <1>4, VerbMoves

LEMMA CallMemory ==
  ASSUME OneAtATime, Inv, MemoryInv,
         \/ StartSetJoinable(Client) \/ StartAddDestructor(Client) \/ StartLaunch(Client)
         \/ SetStarted(Client) \/ StopCancel(Client) \/ StopJoin(Client)
  PROVE  MemoryInv'
  <1> DEFINE w == wifiApThreadPtr
             F == frame[Client]
  <1>1. ThreadKnown(pc[Client], F)
    BY DEF MemoryInv
  <1>2. CASE StartSetJoinable(Client)
    <2>1. /\ pc[Client] = "joinable" /\ CallWithThreadId(Client, "setThreadJoinable")
          /\ Jump(Client, "destructor") /\ UNCHANGED verb
      BY <1>2 DEF StartSetJoinable, At
    <2>2. Built(w, 0)
      BY <1>1, <2>1 DEF ThreadKnown
    <2>3. ASSUME UNCHANGED <<obj, threadList, wifiApThreadPtr>>, pc'[Client] = "destructor",
                 frame'[Client].fn = "setThreadJoinable",
                 frame'[Client].at = "entry", frame'[Client].id = TheId
          PROVE  Knows'
      <3>1. Built(w, 0)'
        BY <2>2, <2>3 DEF Built
      <3> QED BY <2>3, <3>1
              DEF Knows, ThreadKnown, ByIdCall, CallSteps, StopBefore, AtRest
    <2> QED BY <2>1, <2>2, <2>3, Opens DEF Built, Function
  <1>3. CASE StartAddDestructor(Client)
    <2>1. /\ pc[Client] = "destructor" /\ CallWithThreadId(Client, "addDestructorToThread")
          /\ Jump(Client, "launch") /\ UNCHANGED verb /\ F.at = "done"
      BY <1>3 DEF StartAddDestructor, Back, At, Returned, In
    <2>2. Built(w, 0) /\ obj[w].isJoinable
      BY <1>1, <2>1 DEF ThreadKnown
    <2>3. ASSUME UNCHANGED <<obj, threadList, wifiApThreadPtr>>, pc'[Client] = "launch",
                 frame'[Client].fn = "addDestructorToThread",
                 frame'[Client].at = "entry", frame'[Client].id = TheId
          PROVE  Knows'
      <3>1. Built(w, 0)' /\ obj'[wifiApThreadPtr'].isJoinable
        BY <2>2, <2>3 DEF Built
      <3> QED BY <2>3, <3>1
              DEF Knows, ThreadKnown, ByIdCall, CallSteps, StopBefore, AtRest
    <2> QED BY <2>1, <2>2, <2>3, Opens DEF Built, Function
  <1>4. CASE StartLaunch(Client)
    <2>1. /\ pc[Client] = "launch" /\ CallWithThreadId(Client, "startThread")
          /\ Jump(Client, "set_started") /\ UNCHANGED verb /\ F.at = "done"
      BY <1>4 DEF StartLaunch, Back, At, Returned, In
    <2>2. Built(w, 1) /\ obj[w].isJoinable
      BY <1>1, <2>1 DEF ThreadKnown
    <2>3. ASSUME UNCHANGED <<obj, threadList, wifiApThreadPtr>>, pc'[Client] = "set_started",
                 frame'[Client].fn = "startThread",
                 frame'[Client].at = "entry", frame'[Client].id = TheId
          PROVE  Knows'
      <3>1. Built(w, 1)' /\ obj'[wifiApThreadPtr'].isJoinable
        BY <2>2, <2>3 DEF Built
      <3> QED BY <2>3, <3>1
              DEF Knows, ThreadKnown, ByIdCall, CallSteps, StopBefore, AtRest
    <2> QED BY <2>1, <2>2, <2>3, Opens DEF Built, Function
  <1>5. CASE SetStarted(Client)
    <2>1. /\ pc[Client] = "set_started" /\ F.at = "done" /\ EndVerb(Client)
          /\ UNCHANGED <<obj, pth, threadList, Mutex, fault, wifiApThreadPtr>>
          /\ frame' = [frame EXCEPT ![Client] = NoFrame]
      BY <1>5 DEF SetStarted, Back, At, Returned, In
    <2>2. Ready(w)
      BY <1>1, <2>1 DEF ThreadKnown
    <2>3. Ready(wifiApThreadPtr)'
      BY <2>1, <2>2 DEF Ready, Launched, JoinedBy
    <2> QED BY <2>1, <2>3, NoFrameDone, EndsVerb
  <1>6. CASE StopCancel(Client)
    <2>1. /\ pc[Client] = "stop_thread" /\ CallWithThreadId(Client, "cancelThread")
          /\ Jump(Client, "cancelling") /\ UNCHANGED verb
      BY <1>6 DEF StopCancel, At
    <2>2. Ready(w)
      BY <1>1, <2>1 DEF ThreadKnown, StopBefore
    <2>3. ASSUME UNCHANGED <<obj, pth, threadList, wifiApThreadPtr>>,
                 pc'[Client] = "cancelling", frame'[Client].fn = "cancelThread",
                 frame'[Client].at = "entry", frame'[Client].id = TheId
          PROVE  Knows'
      <3>1. Ready(w)'
        BY <2>2, <2>3 DEF Ready, Launched, JoinedBy
      <3> QED BY <2>3, <3>1 DEF Knows, ThreadKnown, CallSteps, StopBefore, AtRest
    <2> QED BY <2>1, <2>2, <2>3, Opens DEF Ready, Launched, Function
  <1>7. CASE StopJoin(Client)
    <2>1. pc[Client] = "cancelling" /\ F.at = "done"
      BY <1>7 DEF StopJoin, Back, At, Returned, In
    <2>2. Ready(w) /\ F.ret = 0
      BY <1>1, <2>1 DEF ThreadKnown
    <2>3. /\ CallWithThreadId(Client, "JoinThread") /\ Jump(Client, "joining")
          /\ UNCHANGED verb
      BY <1>7, <2>2 DEF StopJoin
    <2>4. ASSUME UNCHANGED <<obj, pth, threadList, wifiApThreadPtr>>,
                 pc'[Client] = "joining", frame'[Client].fn = "JoinThread",
                 frame'[Client].at = "entry", frame'[Client].id = TheId
          PROVE  Knows'
      <3>1. Ready(w)'
        BY <2>2, <2>4 DEF Ready, Launched, JoinedBy
      <3> QED BY <2>4, <3>1 DEF Knows, ThreadKnown, JoinCall, CallSteps, StopBefore, AtRest
    <2> QED BY <2>1, <2>2, <2>3, <2>4, Opens DEF Ready, Launched, Function
  <1> QED BY <1>2, <1>3, <1>4, <1>5, <1>6, <1>7

LEMMA VerbMemory ==
  ASSUME OneAtATime, Inv, MemoryInv, NEW c \in Caller, VerbStep(c) PROVE MemoryInv'
  <1>1. c = Client
    BY VerbCaller DEF MemoryInv
  <1> QED BY <1>1, PlainStepMemory, CreateMemory, CallMemory DEF VerbStep, StartStep, StopStep

-----------------------------------------------------------------------------
(* The functions of the library that startAp calls *)

\* Which step of the verb waits for a call that is under way.
LEMMA Awaited ==
  ASSUME MemoryInv, frame[Client].at # "done"
  PROVE  /\ pc[Client] \in CallSteps
         /\ frame[Client].fn = "CreateThread" <=> pc[Client] = "store"
         /\ frame[Client].fn = "setThreadJoinable" <=> pc[Client] = "destructor"
         /\ frame[Client].fn = "addDestructorToThread" <=> pc[Client] = "launch"
         /\ frame[Client].fn = "startThread" <=> pc[Client] = "set_started"
         /\ frame[Client].fn = "cancelThread" <=> pc[Client] = "cancelling"
         /\ frame[Client].fn = "JoinThread" <=> pc[Client] = "joining"
  BY DEF MemoryInv, ThreadKnown, CallSteps, ByIdCall, JoinCall

\* An object without a pthread is written: no event thread notices.
LEMMA BuildWrites ==
  ASSUME OneAtATime, Inv, MemoryInv, NEW o \in Obj, obj[o].threadHandle = None,
         \A p \in Obj \ {o} : obj'[p] = obj[p], obj'[o].mem # "unborn", UNCHANGED pth
  PROVE  /\ \A p \in Obj : obj'[p].mem = "unborn" => obj'[p] = UnbornObj
         /\ \A t \in Thread : OwnsObject(t)'
  <1>1. \A p \in Obj : obj'[p].mem = "unborn" => obj'[p] = UnbornObj
    BY DEF MemoryInv
  <1>2. ASSUME NEW t \in Thread PROVE OwnsObject(t)'
    <2>1. OwnsObject(t)
      BY DEF MemoryInv
    <2>2. CASE pth[t].pc = "none"
      BY <2>2 DEF OwnsObject
    <2>3. CASE pth[t].pc # "none"
      <3>1. pth[t].o \in Obj /\ pth[t].o # o
        BY <2>1, <2>3, ThreadAssumption DEF OwnsObject
      <3> QED BY <2>1, <3>1 DEF OwnsObject
    <2> QED BY <2>2, <2>3
  <1> QED BY <1>1, <1>2

LEMMA CreateThreadMemory ==
  ASSUME OneAtATime, Inv, MemoryInv, CreateThread(Client), UNCHANGED verbVars
  PROVE  MemoryInv'
  <1>1. /\ frame[Client].fn = "CreateThread" /\ frame[Client].at = "entry"
        /\ UNCHANGED <<Mutex, pth, fault>>
    BY DEF CreateThread, In
  <1>2. PICK o \in FreshObj :
          /\ obj' = [obj EXCEPT ![o].mem = "live"]
          /\ threadList' = o
          /\ frame' = [frame EXCEPT ![Client].at = "done", ![Client].ptr = o]
    BY DEF CreateThread
  <1>3. o \in Obj /\ obj[o] = UnbornObj
    BY <1>2 DEF FreshObj, Fresh, MemoryInv
  <1>4. /\ \A p \in Obj \ {o} : obj'[p] = obj[p]
        /\ obj'[o] = [UnbornObj EXCEPT !.mem = "live"]
    BY <1>2, <1>3, Typed
  <1>5. Built(o, 0)' /\ obj[o].threadHandle = None /\ obj'[o].mem # "unborn"
    BY <1>2, <1>3, <1>4 DEF Built, UnbornObj
  <1>6. /\ \A d \in Caller \ {Client} : frame'[d] = frame[d]
        /\ frame'[Client].at = "done" /\ frame'[Client].ptr = o
        /\ frame'[Client].fn = "CreateThread"
    BY <1>1, <1>2, Typed DEF Frame
  <1>7. pc'[Client] = "store"
    BY <1>1, Awaited DEF verbVars
  <1>8. Knows'
    BY <1>5, <1>6, <1>7 DEF Knows, ThreadKnown, CallSteps, StopBefore, AtRest
  <1>9. /\ \A p \in Obj : obj'[p].mem = "unborn" => obj'[p] = UnbornObj
        /\ \A t \in Thread : OwnsObject(t)'
    BY <1>1, <1>3, <1>4, <1>5, BuildWrites
  <1> QED BY <1>1, <1>6, <1>8, <1>9, LibraryMoves DEF MemoryInv

\* What the three functions find: the object wifiApThreadPtr points to.
LEMMA ByIdFacts ==
  ASSUME OneAtATime, Inv, MemoryInv, frame[Client].fn \in ByIdFunction,
         frame[Client].at \in {"entry", "found", "checked"}
  PROVE  /\ pc[Client] \in {"destructor", "launch", "set_started"}
         /\ ByIdCall(frame[Client], frame[Client].fn)
         /\ Built(wifiApThreadPtr, IF pc[Client] = "set_started" THEN 1 ELSE 0)
         /\ pc[Client] # "destructor" => obj[wifiApThreadPtr].isJoinable
  BY Awaited DEF MemoryInv, ThreadKnown, ByIdFunction, CallSteps

\* The call goes on with that object.
LEMMA ByIdGoesOn ==
  ASSUME OneAtATime, Inv, MemoryInv, frame[Client].fn \in ByIdFunction,
         frame[Client].at \in {"entry", "found", "checked"},
         UNCHANGED <<obj, threadList, Mutex, pth, fault>>, UNCHANGED verbVars,
         \A d \in Caller \ {Client} : frame'[d] = frame[d],
         frame'[Client].fn = frame[Client].fn, frame'[Client].at \in {"found", "checked"},
         frame'[Client].ptr = wifiApThreadPtr
  PROVE  MemoryInv'
  <1>1. UNCHANGED <<pc, wifiApThreadPtr>>
    BY DEF verbVars
  <1>2. /\ pc[Client] \in {"destructor", "launch", "set_started"}
        /\ ByIdCall(frame[Client], frame[Client].fn)
        /\ Built(wifiApThreadPtr, IF pc[Client] = "set_started" THEN 1 ELSE 0)
        /\ pc[Client] # "destructor" => obj[wifiApThreadPtr].isJoinable
    BY ByIdFacts
  <1>3. Built(wifiApThreadPtr, IF pc[Client] = "set_started" THEN 1 ELSE 0)'
        /\ (pc[Client] # "destructor" => obj'[wifiApThreadPtr'].isJoinable)
    BY <1>1, <1>2 DEF Built
  <1>4. ByIdCall(frame[Client], frame[Client].fn)'
    BY <1>1, <1>2 DEF ByIdCall
  <1>5. Knows'
    BY <1>1, <1>2, <1>3, <1>4, Awaited
    DEF Knows, ThreadKnown, CallSteps, StopBefore, AtRest
  <1>6. \A t \in Thread : OwnsObject(t)'
    BY DEF MemoryInv, OwnsObject
  <1> QED BY <1>5, <1>6, LibraryMoves DEF MemoryInv

LEMMA LookupMemory ==
  ASSUME OneAtATime, Inv, MemoryInv, Lookup(Client) \/ CheckNew(Client), UNCHANGED verbVars
  PROVE  MemoryInv'
  <1> DEFINE w == wifiApThreadPtr
             F == frame[Client]
  <1>1. F.fn \in ByIdFunction /\ F.at \in {"entry", "found"}
        /\ UNCHANGED <<obj, threadList, Mutex, pth>>
    BY DEF Lookup, CheckNew
  <1>2. /\ w \in Obj /\ w # None /\ threadList = w /\ obj[w].mem = "live"
        /\ obj[w].state = "NEW" /\ ByIdCall(F, F.fn)
    BY <1>1, ByIdFacts, ThreadAssumption DEF Built
  <1>3. CASE Lookup(Client)
    <2>1. F.at = "entry" /\ F.id = TheId /\ NoteUse(threadList) /\ ~IsFreed(threadList)
      BY <1>2, <1>3 DEF Lookup, ByIdCall, IsFreed
    <2>2. UNCHANGED fault /\ findThreadFromIdInList(F.id) = {w}
      BY <1>2, <2>1, LiveUse, LiveFind
    <2>3. frame' = [frame EXCEPT ![Client].at = "found", ![Client].ptr = w]
      BY <1>2, <1>3, <2>2 DEF Lookup
    <2>4. /\ \A d \in Caller \ {Client} : frame'[d] = frame[d]
          /\ frame'[Client].fn = F.fn /\ frame'[Client].at = "found"
          /\ frame'[Client].ptr = w
      BY <2>3, Typed DEF Frame
    <2> QED BY <1>1, <2>1, <2>2, <2>4, ByIdGoesOn
  <1>4. CASE CheckNew(Client)
    <2>1. F.at = "found" /\ F.ptr = w
      BY <1>2, <1>4 DEF CheckNew, ByIdCall
    <2>2. UNCHANGED fault /\ Goto(Client, "checked")
      BY <1>2, <1>4, <2>1 DEF CheckNew, NoteUse, IsFreed, FieldValues
    <2>3. /\ \A d \in Caller \ {Client} : frame'[d] = frame[d]
          /\ frame'[Client].fn = F.fn /\ frame'[Client].at = "checked"
          /\ frame'[Client].ptr = w
      BY <2>1, <2>2, Typed, GotoLemma
    <2> QED BY <1>1, <2>1, <2>2, <2>3, ByIdGoesOn
  <1> QED BY <1>3, <1>4

\* A record of an object with one or two fields set.
LEMMA ObjectFields ==
  ASSUME NEW b \in thread_Obj_t, NEW t
  PROVE  /\ LET new == [b EXCEPT !.isJoinable = TRUE] IN
              /\ new.isJoinable /\ new.mem = b.mem /\ new.state = b.state
              /\ new.threadHandle = b.threadHandle /\ new.destructors = b.destructors
         /\ LET new == [b EXCEPT !.destructors = @ + 1] IN
              /\ new.destructors = b.destructors + 1 /\ new.mem = b.mem
              /\ new.state = b.state /\ new.threadHandle = b.threadHandle
              /\ new.isJoinable = b.isJoinable
         /\ LET new == [b EXCEPT !.state = "RUNNING", !.threadHandle = t] IN
              /\ new.threadHandle = t /\ new.mem = b.mem /\ new.isJoinable = b.isJoinable
              /\ new.destructors = b.destructors
  BY DEF thread_Obj_t

\* setThreadJoinable and addDestructorToThread have written field values to new.
LEMMA FieldWritten ==
  ASSUME OneAtATime, Inv, MemoryInv, UNCHANGED verbVars, UNCHANGED <<threadList, Mutex, pth>>,
         frame[Client].at = "checked", NEW new,
         \/ /\ frame[Client].fn = "setThreadJoinable" /\ new.isJoinable
            /\ new.destructors = obj[frame[Client].ptr].destructors
         \/ /\ frame[Client].fn = "addDestructorToThread"
            /\ new.isJoinable = obj[frame[Client].ptr].isJoinable
            /\ new.destructors = obj[frame[Client].ptr].destructors + 1,
         new.mem = obj[frame[Client].ptr].mem, new.state = obj[frame[Client].ptr].state,
         new.threadHandle = obj[frame[Client].ptr].threadHandle,
         NoteUse(frame[Client].ptr), obj' = [obj EXCEPT ![frame[Client].ptr] = new],
         Return(Client, 0)
  PROVE  MemoryInv'
  <1> DEFINE w == wifiApThreadPtr
             F == frame[Client]
  <1>1. F.fn \in ByIdFunction
    BY DEF ByIdFunction
  <1>2. /\ w \in Obj /\ w # None /\ threadList = w /\ obj[w].mem = "live" /\ F.ptr = w
        /\ Built(w, 0) /\ (F.fn = "addDestructorToThread" => obj[w].isJoinable)
        /\ pc[Client] = IF F.fn = "setThreadJoinable" THEN "destructor" ELSE "launch"
    BY <1>1, Awaited, ByIdFacts, ThreadAssumption DEF Built, ByIdCall
  <1>3. UNCHANGED fault /\ obj' = [obj EXCEPT ![w] = new]
    BY <1>2, LiveUse DEF IsFreed
  <1>4. obj'[w] = new /\ \A p \in Obj \ {w} : obj'[p] = obj[p]
    BY <1>2, <1>3, Typed
  <1>5. /\ \A p \in Obj : obj'[p].mem = "unborn" => obj'[p] = UnbornObj
        /\ \A t \in Thread : OwnsObject(t)'
    BY <1>2, <1>4, BuildWrites DEF Built
  <1>6. UNCHANGED <<pc, wifiApThreadPtr>>
    BY DEF verbVars
  <1>7. /\ obj'[wifiApThreadPtr'].isJoinable
        /\ F.fn = "setThreadJoinable" => Built(wifiApThreadPtr, 0)'
        /\ F.fn = "addDestructorToThread" => Built(wifiApThreadPtr, 1)'
    <2>1. CASE F.fn = "setThreadJoinable"
      BY <1>2, <1>4, <1>6, <2>1 DEF Built
    <2>2. CASE F.fn = "addDestructorToThread"
      <3>1. new.isJoinable /\ new.destructors = 1
        BY <1>2, <2>2 DEF Built
      <3> QED BY <1>2, <1>4, <1>6, <2>2, <3>1 DEF Built
    <2> QED BY <2>1, <2>2
  <1>8. /\ \A d \in Caller \ {Client} : frame'[d] = frame[d]
        /\ frame'[Client].fn = F.fn /\ frame'[Client].at = "done"
    BY Typed, ReturnLemma
  <1>9. Knows'
    <2>1. CASE F.fn = "setThreadJoinable"
      BY <1>2, <1>6, <1>7, <1>8, <2>1
      DEF Knows, ThreadKnown, ByIdCall, CallSteps, StopBefore, AtRest
    <2>2. CASE F.fn = "addDestructorToThread"
      BY <1>2, <1>6, <1>7, <1>8, <2>2
      DEF Knows, ThreadKnown, ByIdCall, CallSteps, StopBefore, AtRest
    <2> QED BY <2>1, <2>2
  <1> QED BY <1>3, <1>5, <1>8, <1>9, LibraryMoves DEF MemoryInv

LEMMA FieldMemory ==
  ASSUME OneAtATime, Inv, MemoryInv, UNCHANGED verbVars,
         setThreadJoinable(Client) \/ addDestructorToThread(Client)
  PROVE  MemoryInv'
  <1> DEFINE o == frame[Client].ptr
  <1>1. frame[Client].at = "checked" /\ UNCHANGED <<threadList, Mutex, pth>>
        /\ NoteUse(o) /\ Return(Client, 0)
        /\ frame[Client].fn \in {"setThreadJoinable", "addDestructorToThread"}
    BY DEF setThreadJoinable, addDestructorToThread, In
  <1>2. obj[o] \in thread_Obj_t /\ ~IsFreed(o)
    BY <1>1, ByIdFacts, Typed DEF Built, ByIdCall, ByIdFunction, IsFreed
  <1>3. CASE setThreadJoinable(Client)
    <2> DEFINE new == [obj[o] EXCEPT !.isJoinable = TRUE]
    <2>1. /\ new.isJoinable /\ new.mem = obj[o].mem /\ new.state = obj[o].state
          /\ new.threadHandle = obj[o].threadHandle /\ new.destructors = obj[o].destructors
      BY <1>2, ObjectFields
    <2>2. obj' = [obj EXCEPT ![o] = new]
      <3>1. Client \in Caller
        BY Typed
      <3> QED BY <1>2, <1>3, <3>1, LiveJoinable
    <2>3. frame[Client].fn = "setThreadJoinable"
      BY <1>3 DEF setThreadJoinable, In
    <2> HIDE DEF new
    <2> QED BY <1>1, <2>1, <2>2, <2>3, FieldWritten
  <1>4. CASE addDestructorToThread(Client)
    <2> DEFINE new == [obj[o] EXCEPT !.destructors = @ + 1]
    <2>1. /\ new.destructors = obj[o].destructors + 1 /\ new.mem = obj[o].mem
          /\ new.state = obj[o].state /\ new.threadHandle = obj[o].threadHandle
          /\ new.isJoinable = obj[o].isJoinable
      BY <1>2, ObjectFields
    <2>2. obj' = [obj EXCEPT ![o] = new]
      <3>1. Client \in Caller
        BY Typed
      <3> QED BY <1>2, <1>4, <3>1, LiveDestructor
    <2>3. frame[Client].fn = "addDestructorToThread"
      BY <1>4 DEF addDestructorToThread, In
    <2> HIDE DEF new
    <2> QED BY <1>1, <2>1, <2>2, <2>3, FieldWritten
  <1> QED BY <1>3, <1>4

LEMMA startThreadMemory ==
  ASSUME OneAtATime, LibraryKind, Inv, MemoryInv, startThread(Client), UNCHANGED verbVars
  PROVE  MemoryInv'
  <1> DEFINE w == wifiApThreadPtr
             F == frame[Client]
  <1>1. F.fn = "startThread" /\ F.at = "checked" /\ NoteUse(F.ptr)
        /\ UNCHANGED <<threadList, Mutex>>
    BY DEF startThread, In
  <1>2. /\ w \in Obj /\ w # None /\ threadList = w /\ obj[w].mem = "live" /\ F.ptr = w
        /\ Built(w, 1) /\ obj[w].isJoinable /\ pc[Client] = "set_started"
        /\ obj[w] \in thread_Obj_t
    BY <1>1, Awaited, ByIdFacts, ThreadAssumption, Typed DEF Built, ByIdCall, ByIdFunction
  <1>3. PICK t \in FreshThread :
          /\ pth' = [pth EXCEPT ![t] = [NoPthread EXCEPT !.pc = "main", !.o = w,
                                          !.detached = FALSE]]
          /\ obj' = [obj EXCEPT ![w] = [obj[w] EXCEPT !.state = "RUNNING",
                                                      !.threadHandle = t]]
          /\ Return(Client, 0)
    <2>1. ~IsFreed(F.ptr) /\ ~Fails("pthread_create") /\ obj[w].isJoinable = TRUE
      BY <1>2 DEF IsFreed, LibraryKind, Fails, thread_Obj_t
    <2> QED BY <1>2, <2>1, Typed, LiveStart
  <1> DEFINE new == [obj[w] EXCEPT !.state = "RUNNING", !.threadHandle = t]
             born == [NoPthread EXCEPT !.pc = "main", !.o = w, !.detached = FALSE]
  <1>4. /\ new.threadHandle = t /\ new.mem = "live" /\ new.isJoinable
        /\ new.destructors = 1
    BY <1>2, ObjectFields DEF Built
  <1>5. born.pc = "main" /\ born.o = w /\ ~born.detached /\ born.joiner = None
    BY DEF NoPthread
  <1>6. t \in Thread /\ pth[t].pc = "none"
    BY <1>3 DEF FreshThread, Fresh
  <1>7. UNCHANGED fault /\ obj' = [obj EXCEPT ![w] = new] /\ pth' = [pth EXCEPT ![t] = born]
    BY <1>1, <1>2, <1>3, LiveUse DEF IsFreed
  <1> HIDE DEF new, born
  <1>8. /\ obj'[w] = new /\ \A p \in Obj \ {w} : obj'[p] = obj[p]
        /\ pth'[t] = born /\ \A u \in Thread \ {t} : pth'[u] = pth[u]
    BY <1>2, <1>6, <1>7, Typed
  <1>9. \A p \in Obj : obj'[p].mem = "unborn" => obj'[p] = UnbornObj
    BY <1>4, <1>8 DEF MemoryInv
  <1>10. OwnsObject(t)'
    BY <1>2, <1>4, <1>5, <1>8 DEF OwnsObject
  <1>11. ASSUME NEW u \in Thread \ {t} PROVE OwnsObject(u)'
    <2>1. OwnsObject(u) /\ pth'[u] = pth[u]
      BY <1>8, <1>11 DEF MemoryInv
    <2>2. CASE pth[u].pc # "none"
      <3>1. pth[u].o \in Obj \ {w}
        BY <1>2, <2>1, <2>2, ThreadAssumption DEF OwnsObject, Built
      <3> QED BY <1>8, <2>1, <3>1 DEF OwnsObject
    <2> QED BY <2>1, <2>2 DEF OwnsObject
  <1>12. UNCHANGED <<pc, wifiApThreadPtr>>
    BY DEF verbVars
  <1>13. Ready(wifiApThreadPtr)'
    BY <1>1, <1>2, <1>4, <1>5, <1>6, <1>8, <1>12 DEF Ready, Launched, JoinedBy
  <1>14. /\ \A d \in Caller \ {Client} : frame'[d] = frame[d]
         /\ frame'[Client].fn = "startThread" /\ frame'[Client].at = "done"
    BY <1>1, <1>3, Typed, ReturnLemma
  <1>15. Knows'
    BY <1>2, <1>12, <1>13, <1>14
    DEF Knows, ThreadKnown, ByIdCall, CallSteps, StopBefore, AtRest
  <1>16. \A u \in Thread : OwnsObject(u)'
    BY <1>10, <1>11
  <1> QED BY <1>1, <1>7, <1>9, <1>14, <1>15, <1>16, LibraryMoves DEF MemoryInv

-----------------------------------------------------------------------------
(* The functions of the library that stop calls *)

LEMMA ReturnValue ==
  ASSUME LibTypeOK, NEW c \in Caller, NEW r \in -3..1, Return(c, r)
  PROVE  /\ \A d \in Caller \ {c} : frame'[d] = frame[d]
         /\ frame'[c].fn = frame[c].fn /\ frame'[c].at = "done" /\ frame'[c].ret = r
  <1> DEFINE new == [frame[c] EXCEPT !.at = "done", !.ret = r]
  <1>1. frame \in [Caller -> Frame] /\ frame[c] \in Frame
    BY DEF LibTypeOK
  <1>2. new.fn = frame[c].fn /\ new.at = "done" /\ new.ret = r
    BY <1>1 DEF Frame
  <1>3. frame' = [frame EXCEPT ![c] = new]
    BY DEF Return
  <1> HIDE DEF new
  <1> QED BY <1>1, <1>2, <1>3

\* The pending cancel and the joiner of a pthread: no object depends on them.
LEMMA PthreadNotes ==
  ASSUME OneAtATime, Inv, MemoryInv, NEW t \in Thread,
         \/ pth' = [pth EXCEPT ![t].cancel = TRUE]
         \/ pth' = [pth EXCEPT ![t].joiner = Client],
         UNCHANGED obj
  PROVE  /\ pth'[t].pc = pth[t].pc /\ pth'[t].o = pth[t].o
         /\ pth'[t].joiner \in {pth[t].joiner, Client}
         /\ pth' = [pth EXCEPT ![t].cancel = TRUE] => pth'[t].joiner = pth[t].joiner
         /\ \A u \in Thread : OwnsObject(u)'
  <1>1. pth \in [Thread -> Pthread] /\ pth[t] \in Pthread
    BY Typed
  <1>2. ASSUME NEW b \in Pthread
        PROVE  /\ LET new == [b EXCEPT !.cancel = TRUE] IN
                    /\ new.pc = b.pc /\ new.o = b.o /\ new.detached = b.detached
                    /\ new.joiner = b.joiner
               /\ LET new == [b EXCEPT !.joiner = Client] IN
                    /\ new.pc = b.pc /\ new.o = b.o /\ new.detached = b.detached
                    /\ new.joiner = Client
    BY <1>2 DEF Pthread
  <1>3. PICK new : /\ pth' = [pth EXCEPT ![t] = new]
                   /\ new.pc = pth[t].pc /\ new.o = pth[t].o
                   /\ new.detached = pth[t].detached
                   /\ new.joiner \in {pth[t].joiner, Client}
    <2>1. CASE pth' = [pth EXCEPT ![t].cancel = TRUE]
      <3> DEFINE new == [pth[t] EXCEPT !.cancel = TRUE]
      <3>1. pth' = [pth EXCEPT ![t] = new] /\ new.pc = pth[t].pc /\ new.o = pth[t].o
            /\ new.detached = pth[t].detached /\ new.joiner = pth[t].joiner
        BY <1>1, <1>2, <2>1
      <3> HIDE DEF new
      <3> QED BY <3>1
    <2>2. CASE pth' = [pth EXCEPT ![t].joiner = Client]
      <3> DEFINE new == [pth[t] EXCEPT !.joiner = Client]
      <3>1. pth' = [pth EXCEPT ![t] = new] /\ new.pc = pth[t].pc /\ new.o = pth[t].o
            /\ new.detached = pth[t].detached /\ new.joiner = Client
        BY <1>1, <1>2, <2>2
      <3> HIDE DEF new
      <3> QED BY <3>1
    <2> QED BY <2>1, <2>2
  <1>4. pth'[t] = new /\ \A u \in Thread \ {t} : pth'[u] = pth[u]
    BY <1>1, <1>3
  <1>5. ASSUME NEW u \in Thread PROVE OwnsObject(u)'
    <2>1. OwnsObject(u)
      BY DEF MemoryInv
    <2>2. pth'[u].pc = pth[u].pc /\ pth'[u].o = pth[u].o /\ pth'[u].detached = pth[u].detached
      BY <1>3, <1>4
    <2> QED BY <2>1, <2>2 DEF OwnsObject
  <1>6. pth' = [pth EXCEPT ![t].cancel = TRUE] => pth'[t].joiner = pth[t].joiner
    BY <1>1, <1>2
  <1> QED BY <1>3, <1>4, <1>5, <1>6

LEMMA cancelThreadMemory ==
  ASSUME OneAtATime, LibraryKind, Inv, MemoryInv, cancelThread(Client), UNCHANGED verbVars
  PROVE  MemoryInv'
  <1> DEFINE w == wifiApThreadPtr
             h == obj[w].threadHandle
             F == frame[Client]
  <1>1. F.fn = "cancelThread" /\ F.at = "entry" /\ UNCHANGED <<obj, threadList>>
        /\ NoteUse(threadList)
    BY DEF cancelThread, In
  <1>2. pc[Client] = "cancelling" /\ F.id = TheId /\ Ready(w)
    BY <1>1, Awaited DEF MemoryInv, ThreadKnown
  <1>3. /\ w \in Obj /\ w # None /\ h \in Thread /\ h # None
        /\ ~IsFreed(threadList) /\ ~IsFreed(w) /\ threadList = w
    BY <1>2, ThreadAssumption DEF Ready, Launched, IsFreed
  <1>4. /\ findThreadFromIdInList(F.id) = {w} /\ threadHandleOf(w) = {h}
        /\ UNCHANGED fault
    BY <1>1, <1>2, <1>3, LiveFind, LiveReads, LiveUse
  <1>5. /\ UNCHANGED Mutex /\ Return(Client, 0)
        /\ UNCHANGED pth \/ pth' = [pth EXCEPT ![h].cancel = TRUE]
    BY <1>3, <1>4 DEF cancelThread, LibraryKind
  <1>6. /\ pth'[h].pc = pth[h].pc /\ pth'[h].o = pth[h].o
        /\ pth'[h].joiner = pth[h].joiner
        /\ \A u \in Thread : OwnsObject(u)'
    <2>1. CASE UNCHANGED pth
      BY <1>1, <2>1 DEF MemoryInv, OwnsObject
    <2>2. CASE pth' = [pth EXCEPT ![h].cancel = TRUE]
      BY <1>1, <1>3, <2>2, PthreadNotes
    <2> QED BY <1>5, <2>1, <2>2
  <1>7. UNCHANGED <<pc, wifiApThreadPtr>>
    BY DEF verbVars
  <1>8. Ready(wifiApThreadPtr)'
    BY <1>1, <1>2, <1>6, <1>7 DEF Ready, Launched, JoinedBy
  <1>9. /\ \A d \in Caller \ {Client} : frame'[d] = frame[d]
        /\ frame'[Client].fn = "cancelThread" /\ frame'[Client].at = "done"
        /\ frame'[Client].ret = 0
    BY <1>1, <1>5, Typed, ReturnValue
  <1>10. Knows'
    BY <1>2, <1>7, <1>8, <1>9 DEF Knows, ThreadKnown, CallSteps, StopBefore, AtRest
  <1> QED BY <1>1, <1>5, <1>6, <1>4, <1>9, <1>10, LibraryMoves DEF MemoryInv

\* A step of JoinThread leaves the objects alone.
LEMMA JoinGoesOn ==
  ASSUME OneAtATime, Inv, MemoryInv, UNCHANGED verbVars, UNCHANGED <<obj, Mutex, fault>>,
         pc[Client] = "joining", \A t \in Thread : OwnsObject(t)',
         \A d \in Caller \ {Client} : frame'[d] = frame[d], JoinCall(frame[Client])'
  PROVE  MemoryInv'
  <1>1. UNCHANGED pc
    BY DEF verbVars
  <1>2. Knows'
    BY <1>1 DEF Knows, ThreadKnown, CallSteps, StopBefore, AtRest
  <1> QED BY <1>2, LibraryMoves DEF MemoryInv

LEMMA JoinMemory ==
  ASSUME OneAtATime, Inv, MemoryInv, UNCHANGED verbVars,
         JoinLookup(Client) \/ JoinWait(Client) \/ JoinRemove(Client) \/ JoinDelete(Client)
  PROVE  MemoryInv'
  <1> DEFINE w == wifiApThreadPtr
             h == obj[w].threadHandle
             F == frame[Client]
  <1>1. F.fn = "JoinThread" /\ F.at \in {"entry", "wait", "remove", "delete"}
        /\ UNCHANGED Mutex
    BY DEF JoinLookup, JoinWait, JoinRemove, JoinDelete, In
  <1>2. pc[Client] = "joining" /\ JoinCall(F) /\ UNCHANGED <<pc, wifiApThreadPtr>>
    BY <1>1, Awaited DEF MemoryInv, ThreadKnown, verbVars
  <1>3. w \in Obj /\ w # None /\ h \in Thread /\ h # None /\ obj[w].mem = "live"
        /\ Launched(w)
    BY <1>1, <1>2, ThreadAssumption DEF JoinCall, Ready, Launched
  <1>4. OwnsObject(h) /\ pth[h].pc # "none" /\ pth[h].o = w /\ ~pth[h].detached
    BY <1>3 DEF MemoryInv, Launched, OwnsObject
  <1>5. CASE JoinLookup(Client)
    <2>1. F.at = "entry" /\ F.id = TheId /\ Ready(w)
          /\ UNCHANGED <<obj, pth, threadList>> /\ NoteUse(threadList)
      BY <1>2, <1>5 DEF JoinLookup, In, JoinCall
    <2>2. threadList = w /\ ~IsFreed(w) /\ obj[w].isJoinable = TRUE
      BY <1>3, <2>1, Typed DEF Ready, Launched, IsFreed, thread_Obj_t
    <2>3. /\ findThreadFromIdInList(F.id) = {w} /\ threadHandleOf(w) = {h}
          /\ isJoinableOf(w) = {TRUE} /\ UNCHANGED fault
      BY <2>1, <2>2, LiveFind, LiveReads, LiveUse
    <2>4. frame' = [frame EXCEPT ![Client].at = "wait", ![Client].ptr = w,
                                 ![Client].handle = h]
      BY <1>3, <1>5, <2>3 DEF JoinLookup
    <2>5. /\ \A d \in Caller \ {Client} : frame'[d] = frame[d]
          /\ frame'[Client].fn = "JoinThread" /\ frame'[Client].at = "wait"
          /\ frame'[Client].ptr = w /\ frame'[Client].handle = h
      <3> DEFINE new == [F EXCEPT !.at = "wait", !.ptr = w, !.handle = h]
      <3>1. F \in Frame
        BY Typed
      <3>2. new.fn = F.fn /\ new.at = "wait" /\ new.ptr = w /\ new.handle = h
        BY <3>1 DEF Frame
      <3>3. frame' = [frame EXCEPT ![Client] = new]
        BY <2>4
      <3> HIDE DEF new
      <3> QED BY <1>1, <3>2, <3>3, Typed
    <2>6. JoinCall(frame[Client])'
      BY <1>2, <1>3, <2>1, <2>5 DEF JoinCall, Ready, Launched, JoinedBy
    <2>7. \A t \in Thread : OwnsObject(t)'
      BY <2>1 DEF MemoryInv, OwnsObject
    <2> QED BY <1>1, <1>2, <2>1, <2>3, <2>5, <2>6, <2>7, JoinGoesOn
  <1>6. CASE JoinWait(Client)
    <2>1. /\ F.at = "wait" /\ F.ptr = w /\ F.handle = h /\ threadList = w
          /\ pth[h].joiner \in {None, Client} /\ UNCHANGED <<obj, threadList, fault>>
      BY <1>2, <1>6 DEF JoinWait, In, JoinCall, JoinedBy
    <2>2. CASE pth' = [pth EXCEPT ![h].joiner = Client] /\ UNCHANGED frame
      <3>1. /\ pth'[h].pc = pth[h].pc /\ pth'[h].o = pth[h].o
            /\ pth'[h].joiner \in {None, Client} /\ \A t \in Thread : OwnsObject(t)'
        BY <1>3, <2>1, <2>2, PthreadNotes
      <3>2. JoinCall(frame[Client])'
        BY <1>1, <1>2, <1>3, <1>4, <2>1, <2>2, <3>1 DEF JoinCall, Launched, JoinedBy
      <3> QED BY <1>1, <1>2, <2>1, <2>2, <3>1, <3>2, JoinGoesOn
    <2>3. CASE pth[h].pc = "exited" /\ Goto(Client, "remove") /\ UNCHANGED pth
      <3>1. /\ \A d \in Caller \ {Client} : frame'[d] = frame[d]
            /\ frame'[Client].fn = "JoinThread" /\ frame'[Client].at = "remove"
            /\ frame'[Client].ptr = w
        BY <1>1, <2>1, <2>3, Typed, GotoLemma
      <3>2. JoinCall(frame[Client])'
        BY <1>2, <1>3, <2>1, <2>3, <3>1 DEF JoinCall, Launched
      <3>3. \A t \in Thread : OwnsObject(t)'
        BY <2>1, <2>3 DEF MemoryInv, OwnsObject
      <3> QED BY <1>1, <1>2, <2>1, <3>1, <3>2, <3>3, JoinGoesOn
    <2> QED BY <1>3, <1>4, <1>6, <2>1, <2>2, <2>3 DEF JoinWait
  <1>7. CASE JoinRemove(Client)
    <2>1. /\ F.at = "remove" /\ F.ptr = w /\ pth[h].pc = "exited"
          /\ UNCHANGED <<obj, pth>> /\ Goto(Client, "delete") /\ NoteUse(w)
      BY <1>2, <1>7 DEF JoinRemove, In, JoinCall
    <2>2. UNCHANGED fault
      BY <1>3, <2>1 DEF NoteUse, IsFreed
    <2>3. /\ \A d \in Caller \ {Client} : frame'[d] = frame[d]
          /\ frame'[Client].fn = "JoinThread" /\ frame'[Client].at = "delete"
          /\ frame'[Client].ptr = w
      BY <1>1, <2>1, Typed, GotoLemma
    <2>4. JoinCall(frame[Client])'
      BY <1>2, <1>3, <2>1, <2>3 DEF JoinCall, Launched
    <2>5. \A t \in Thread : OwnsObject(t)'
      BY <2>1 DEF MemoryInv, OwnsObject
    <2> QED BY <1>1, <1>2, <2>1, <2>2, <2>3, <2>4, <2>5, JoinGoesOn
  <1>8. CASE JoinDelete(Client)
    <2>1. /\ F.at = "delete" /\ F.ptr = w /\ pth[h].pc = "exited"
          /\ UNCHANGED pth /\ Return(Client, 0) /\ DeleteThread(w)
      BY <1>2, <1>8 DEF JoinDelete, In, JoinCall
    <2>2. UNCHANGED fault /\ obj' = [obj EXCEPT ![w].mem = "freed"]
      BY <1>3, <2>1, LiveFree DEF IsFreed
    <2>3. /\ \A d \in Caller \ {Client} : frame'[d] = frame[d]
          /\ frame'[Client].fn = "JoinThread" /\ frame'[Client].at = "done"
          /\ frame'[Client].ret = 0
      BY <1>1, <2>1, Typed, ReturnValue
    <2> DEFINE freed == [obj[w] EXCEPT !.mem = "freed"]
    <2>4. /\ obj' = [obj EXCEPT ![w] = freed] /\ freed.mem = "freed"
          /\ freed.threadHandle = h /\ freed.isJoinable = obj[w].isJoinable
      <3>1. obj[w] \in thread_Obj_t
        BY <1>3, Typed
      <3>2. ASSUME NEW b \in thread_Obj_t
            PROVE  /\ [b EXCEPT !.mem = "freed"].mem = "freed"
                   /\ [b EXCEPT !.mem = "freed"].threadHandle = b.threadHandle
                   /\ [b EXCEPT !.mem = "freed"].isJoinable = b.isJoinable
        BY <3>2 DEF thread_Obj_t
      <3> QED BY <2>2, <3>1, <3>2
    <2> HIDE DEF freed
    <2>5. obj'[w] = freed /\ \A p \in Obj \ {w} : obj'[p] = obj[p]
      BY <1>3, <2>4, Typed
    <2>6. \A p \in Obj : obj'[p].mem = "unborn" => obj'[p] = UnbornObj
      BY <2>4, <2>5 DEF MemoryInv
    <2>7. ASSUME NEW t \in Thread PROVE OwnsObject(t)'
      <3>1. OwnsObject(t)
        BY DEF MemoryInv
      <3>2. CASE pth[t].pc = "none"
        BY <2>1, <3>2 DEF OwnsObject
      <3>3. CASE pth[t].pc # "none" /\ pth[t].o = w
        <4>1. t = h
          BY <3>1, <3>3 DEF OwnsObject
        <4> QED BY <2>1, <2>4, <2>5, <3>1, <3>3, <4>1 DEF OwnsObject
      <3>4. CASE pth[t].pc # "none" /\ pth[t].o # w
        BY <2>1, <2>5, <3>1, <3>4 DEF OwnsObject
      <3> QED BY <3>2, <3>3, <3>4
    <2>8. Knows'
      BY <1>2, <2>3 DEF Knows, ThreadKnown, JoinCall, CallSteps, StopBefore, AtRest
    <2> QED BY <1>1, <2>2, <2>3, <2>6, <2>7, <2>8, LibraryMoves DEF MemoryInv
  <1> QED BY <1>5, <1>6, <1>7, <1>8

-----------------------------------------------------------------------------
(* The event threads *)

\* An event thread goes on to its clean-up or to its end, and may write its object.
LEMMA ThreadMoves ==
  ASSUME OneAtATime, Inv, MemoryInv, UNCHANGED verbVars,
         UNCHANGED <<threadList, Mutex, frame, fault>>,
         NEW t \in Thread, pth[t].pc \in {"main", "cleanup"},
         NEW new, pth' = [pth EXCEPT ![t] = new], new.pc \in {"cleanup", "exited"},
         new.o = pth[t].o, new.detached = pth[t].detached, new.joiner = pth[t].joiner,
         NEW b, obj' = [obj EXCEPT ![pth[t].o] = b], b.mem = "live",
         b.threadHandle = t, b.isJoinable, b.destructors \in {0, 1}
  PROVE  MemoryInv'
  <1> DEFINE o == pth[t].o
             w == wifiApThreadPtr
             F == frame[Client]
  <1>1. OwnsObject(t) /\ o \in Obj /\ obj[o].threadHandle = t /\ obj[o].mem = "live"
    BY DEF MemoryInv, OwnsObject
  <1>2. /\ pth'[t] = new /\ \A u \in Thread \ {t} : pth'[u] = pth[u]
        /\ obj'[o] = b /\ \A p \in Obj \ {o} : obj'[p] = obj[p]
    BY <1>1, Typed
  <1>3. \A p \in Obj : obj'[p].mem = "unborn" => obj'[p] = UnbornObj
    BY <1>1, <1>2 DEF MemoryInv
  <1>4. ASSUME NEW u \in Thread PROVE OwnsObject(u)'
    <2>1. CASE u = t
      BY <1>1, <1>2, <2>1 DEF OwnsObject
    <2>2. CASE u # t
      <3>1. OwnsObject(u) /\ pth'[u] = pth[u]
        BY <1>2, <2>2 DEF MemoryInv
      <3>2. CASE pth[u].pc # "none"
        <4>1. pth[u].o \in Obj \ {o}
          BY <1>1, <2>2, <3>1, <3>2 DEF OwnsObject
        <4> QED BY <1>2, <3>1, <4>1 DEF OwnsObject
      <3> QED BY <3>1, <3>2 DEF OwnsObject
    <2> QED BY <2>1, <2>2
  <1>5. ASSUME NEW x, NEW n, Built(x, n) PROVE Built(x, n)' /\ obj'[x] = obj[x]
    <2>1. x \in Obj \ {o}
      BY <1>1, <1>5, ThreadAssumption DEF Built
    <2> QED BY <1>2, <1>5, <2>1 DEF Built
  <1>6. ASSUME NEW x, Launched(x)
        PROVE  /\ Launched(x)' /\ JoinedBy(x)' = JoinedBy(x)
               /\ obj'[x].threadHandle = obj[x].threadHandle
               /\ pth[obj[x].threadHandle].pc = "exited"
                    => pth'[obj'[x].threadHandle].pc = "exited"
    <2>1. CASE x = o
      <3>1. /\ obj[x].threadHandle = t /\ obj'[x].threadHandle = t
            /\ obj'[x].mem = "live" /\ obj'[x].isJoinable
        BY <1>1, <1>2, <2>1
      <3>2. pth'[t].o = x /\ pth'[t].pc # "none" /\ pth'[t].joiner = pth[t].joiner
        BY <1>2, <2>1
      <3> QED BY <1>6, <3>1, <3>2 DEF Launched, JoinedBy
    <2>2. CASE x # o
      <3>1. obj'[x] = obj[x] /\ obj[x].threadHandle \in Thread \ {t}
        BY <1>1, <1>2, <1>6, <2>2 DEF Launched
      <3> QED BY <1>2, <1>6, <3>1 DEF Launched, JoinedBy
    <2> QED BY <2>1, <2>2
  <1>7. ASSUME NEW x, Ready(x) PROVE Ready(x)'
    BY <1>6, <1>7 DEF Ready
  <1>8. UNCHANGED <<pc, status, wifiApThreadPtr>>
    BY DEF verbVars
  <1>9. Knows
    BY DEF MemoryInv, Knows
  <1>10. JoinCall(F) => JoinCall(frame[Client])'
    BY <1>6, <1>7, <1>8 DEF JoinCall
  <1>11. ByIdCall(F, F.fn) => ByIdCall(frame[Client], frame[Client].fn)'
    BY <1>8 DEF ByIdCall
  <1> HIDE DEF w
  <1>12. Knows'
    <2>1. CASE pc[Client] \in {"store", "joinable", "destructor", "launch", "set_started"}
      BY <1>5, <1>7, <1>8, <1>9, <2>1
      DEF Knows, ThreadKnown, ByIdCall, CallSteps, StopBefore, AtRest
    <2>2. CASE pc[Client] \notin {"store", "joinable", "destructor", "launch", "set_started"}
      BY <1>7, <1>8, <1>9, <1>10, <2>2
      DEF Knows, ThreadKnown, CallSteps, StopBefore, AtRest
    <2> QED BY <2>1, <2>2
  <1> QED BY <1>3, <1>4, <1>12, LibraryMoves DEF MemoryInv

LEMMA PthreadMemory ==
  ASSUME OneAtATime, Inv, MemoryInv, UNCHANGED verbVars, NEW t \in Thread, PthreadStep(t)
  PROVE  MemoryInv'
  <1> DEFINE o == pth[t].o
  <1>1. /\ pth[t].pc \in {"main", "cleanup"} /\ o \in Obj /\ o # None
        /\ obj[o].threadHandle = t /\ obj[o].isJoinable /\ obj[o].mem = "live"
        /\ pth[t].pc = "main" => obj[o].destructors = 1
        /\ obj[o].destructors \in {0, 1} /\ pth[t] \in Pthread /\ obj[o] \in thread_Obj_t
    <2>1. pth[t].pc \notin {"none", "exited"}
      BY DEF PthreadStep, MainFuncReturns, ActOnCancel, CleanupThread, RunDestructors,
         CancelledInCleanup, CleanupUnlink, CleanupFree
    <2>2. OwnsObject(t)
      BY DEF MemoryInv
    <2> QED BY <2>1, <2>2, Typed, ThreadAssumption DEF OwnsObject
  <1>2. ASSUME NEW q, NEW popped
        PROVE  LET new == [pth[t] EXCEPT !.pc = q, !.popped = popped] IN
                 /\ new.pc = q /\ new.o = o /\ new.detached = pth[t].detached
                 /\ new.joiner = pth[t].joiner
    BY <1>1 DEF Pthread
  <1>3. ASSUME NEW q
        PROVE  LET new == [pth[t] EXCEPT !.pc = q] IN
                 /\ new.pc = q /\ new.o = o /\ new.detached = pth[t].detached
                 /\ new.joiner = pth[t].joiner
    BY <1>1 DEF Pthread
  <1>4. ASSUME NEW b \in thread_Obj_t
        PROVE  /\ LET new == [b EXCEPT !.state = "DYING"] IN
                    /\ new.mem = b.mem /\ new.threadHandle = b.threadHandle
                    /\ new.isJoinable = b.isJoinable /\ new.destructors = b.destructors
               /\ LET new == [b EXCEPT !.destructors = 0] IN
                    /\ new.mem = b.mem /\ new.threadHandle = b.threadHandle
                    /\ new.isJoinable = b.isJoinable /\ new.destructors = 0
    BY <1>4 DEF thread_Obj_t
  <1>5. CASE MainFuncReturns(t) \/ ActOnCancel(t)
    <2>1. PICK popped \in BOOLEAN : EnterCleanup(t, popped)
      BY <1>5 DEF MainFuncReturns, ActOnCancel
    <2> DEFINE new == [pth[t] EXCEPT !.pc = "cleanup", !.popped = popped]
               b == [obj[o] EXCEPT !.state = "DYING"]
    <2>2. /\ UNCHANGED <<threadList, Mutex, frame>> /\ pth' = [pth EXCEPT ![t] = new]
          /\ NoteUse(o)
      BY <2>1 DEF EnterCleanup
    <2>3. UNCHANGED fault /\ obj' = [obj EXCEPT ![o] = b]
      BY <1>1, <2>1, <2>2, LiveUse, LiveCleanup DEF IsFreed
    <2>4. /\ new.pc = "cleanup" /\ new.o = o /\ new.detached = pth[t].detached
          /\ new.joiner = pth[t].joiner
      BY <1>2
    <2>5. /\ b.mem = "live" /\ b.threadHandle = t /\ b.isJoinable
          /\ b.destructors \in {0, 1}
      BY <1>1, <1>4
    <2> HIDE DEF new, b
    <2> QED BY <1>1, <2>2, <2>3, <2>4, <2>5, ThreadMoves
  <1>6. CASE RunDestructors(t)
    <2> DEFINE new == [pth[t] EXCEPT !.pc = "exited"]
               b == [obj[o] EXCEPT !.destructors = 0]
    <2>1. UNCHANGED <<threadList, Mutex, frame, fault>> /\ ~IsFreed(o)
      BY <1>1, <1>6 DEF RunDestructors, IsFreed
    <2>2. pth' = [pth EXCEPT ![t] = new]
      BY <1>1, <1>6, <2>1, LiveDestructors
    <2>3. obj' = [obj EXCEPT ![o] = b]
      BY <1>6, <2>1, LiveDestructors
    <2>4. /\ new.pc = "exited" /\ new.o = o /\ new.detached = pth[t].detached
          /\ new.joiner = pth[t].joiner
      BY <1>3
    <2>5. b.mem = "live" /\ b.threadHandle = t /\ b.isJoinable /\ b.destructors \in {0, 1}
      BY <1>1, <1>4
    <2> HIDE DEF new, b
    <2> QED BY <1>1, <2>1, <2>2, <2>3, <2>4, <2>5, ThreadMoves
  <1>7. CASE CancelledInCleanup(t)
    <2> DEFINE new == [pth[t] EXCEPT !.pc = "exited"]
    <2>1. /\ UNCHANGED <<threadList, Mutex, frame, fault>> /\ pth' = [pth EXCEPT ![t] = new]
          /\ obj' = [obj EXCEPT ![o] = obj[o]]
      BY <1>7, Typed DEF CancelledInCleanup
    <2>2. /\ new.pc = "exited" /\ new.o = o /\ new.detached = pth[t].detached
          /\ new.joiner = pth[t].joiner
      BY <1>3
    <2> HIDE DEF new
    <2> QED BY <1>1, <2>1, <2>2, ThreadMoves
  <1> QED BY <1>1, <1>5, <1>6, <1>7
          DEF PthreadStep, CleanupThread, CleanupUnlink, CleanupFree

-----------------------------------------------------------------------------
(* Memory is used as it should *)

LEMMA LibraryMemory ==
  ASSUME OneAtATime, LibraryKind, Inv, MemoryInv, NEW c \in Caller, Library(c)
  PROVE  MemoryInv'
  <1>1. LibStep(c) /\ UNCHANGED verbVars
    BY DEF Library
  <1>2. frame[c].at # "done"
    BY <1>1 DEF LibStep, CreateThread, Lookup, CheckNew, setThreadJoinable,
       addDestructorToThread, startThread, cancelThread, JoinLookup, JoinWait, JoinRemove,
       JoinDelete, In
  <1>3. c = Client
    BY <1>2 DEF MemoryInv, OthersOut
  <1> QED BY <1>1, <1>3, CreateThreadMemory, LookupMemory, FieldMemory, startThreadMemory,
          cancelThreadMemory, JoinMemory DEF LibStep

\* No verb of the binder has begun, or binding_ctl starts the access point.
LEMMA InitMemory == ASSUME OneAtATime, Init PROVE MemoryInv
  <1>1. /\ Client \in Caller /\ fault = {} /\ Mutex = None /\ status = "initializing"
        /\ \A o \in Obj : obj[o] = UnbornObj
        /\ \A t \in Thread : pth[t] = NoPthread
        /\ \A d \in Caller : frame[d] = NoFrame
    BY VerbAssumption DEF OneAtATime, Init, LibInit
  <1>2. /\ OthersIdle /\ pc[Client] \in {"idle", "marker"}
        /\ verb[Client] = "none" => pc[Client] = "idle"
    BY <1>1 DEF OneAtATime, Init, OthersIdle
  <1>3. (\A t \in Thread : OwnsObject(t)) /\ OthersOut
    BY <1>1 DEF OwnsObject, NoPthread, OthersOut, NoFrame
  <1>4. ThreadKnown(pc[Client], frame[Client])
    BY <1>1, <1>2 DEF ThreadKnown, NoFrame, CallSteps, StopBefore, AtRest
  <1> QED BY <1>1, <1>2, <1>3, <1>4 DEF MemoryInv

LEMMA BootMemory == ASSUME OneAtATime, Boot PROVE MemoryInv'
  <1>1. /\ Client \in Caller /\ fault' = {} /\ Mutex' = None /\ status' = "initializing"
        /\ \A o \in Obj : obj'[o] = UnbornObj
        /\ \A t \in Thread : pth'[t] = NoPthread
        /\ \A d \in Caller : frame'[d] = NoFrame
    BY VerbAssumption DEF OneAtATime, Boot
  <1>2. /\ OthersIdle' /\ pc'[Client] \in {"idle", "marker"}
        /\ verb'[Client] = "none" => pc'[Client] = "idle"
    BY <1>1 DEF OneAtATime, Boot, OthersIdle
  <1>3. (\A t \in Thread : OwnsObject(t)') /\ OthersOut'
    BY <1>1 DEF OwnsObject, NoPthread, OthersOut, NoFrame
  <1>4. ThreadKnown(pc[Client], frame[Client])'
    BY <1>1, <1>2 DEF ThreadKnown, NoFrame, CallSteps, StopBefore, AtRest
  <1> QED BY <1>1, <1>2, <1>3, <1>4 DEF MemoryInv

LEMMA NextMemory ==
  ASSUME OneAtATime, LibraryKind, Inv, MemoryInv, [Next]_vars PROVE MemoryInv'
  <1>1. CASE UNCHANGED vars \/ Crash
    <2>1. UNCHANGED <<libVars, verbVars>>
      BY <1>1 DEF vars, Crash
    <2> QED BY <2>1 DEF libVars, verbVars, MemoryInv, OwnsObject, OthersIdle, OthersOut,
            ThreadKnown, ByIdCall, JoinCall, Built, Launched, JoinedBy, Ready
  <1>2. CASE \E c \in Caller : Request(c) \/ VerbStep(c) \/ Library(c)
    BY <1>2, RequestMemory, VerbMemory, LibraryMemory
  <1>3. CASE \E t \in Thread : EventThread(t)
    BY <1>3, PthreadMemory DEF EventThread
  <1> QED BY <1>1, <1>2, <1>3, BootMemory DEF Next

LEMMA MemoryInvariance == ASSUME OneAtATime, LibraryKind PROVE Spec => []MemoryInv
  <1>1. Init => MemoryInv
    BY InitMemory
  <1>2. Inv /\ MemoryInv /\ [Next]_vars => MemoryInv'
    BY NextMemory
  <1> QED BY <1>1, <1>2, Invariance, PTL DEF Spec

\* A client that asks stop only when the access point is started never makes the binding
\* use a freed object or leave Mutex locked, however often it starts, stops and restarts
\* the access point, whatever fails and wherever an event thread ends by itself.
THEOREM LibraryIsSafe == ASSUME OneAtATime, LibraryKind PROVE Spec => []LibrarySafe
  <1>1. MemoryInv => LibrarySafe
    BY DEF MemoryInv, LibrarySafe
  <1> QED BY <1>1, MemoryInvariance, PTL

\* When the access point is reported started, the object stop will look up is alive and
\* listed, and its event thread can be cancelled and joined and will end "iw event".
THEOREM StopCanEndTheThread == ASSUME OneAtATime, LibraryKind PROVE Spec => []Stoppable
  <1>1. Inv /\ MemoryInv => Stoppable
    <2> SUFFICES ASSUME Inv, MemoryInv, Quiet, status = "started"
                 PROVE  LET o == wifiApThreadPtr
                            t == obj[o].threadHandle
                        IN /\ o # None /\ threadList = o
                           /\ obj[o].mem = "live" /\ obj[o].isJoinable /\ t # None
                           /\ pth[t].o = o /\ ~pth[t].detached /\ pth[t].joiner = None
                           /\ pth[t].pc = "main" => obj[o].destructors = 1
      BY DEF Stoppable
    <2>1. pc[Client] = "idle"
      BY Typed DEF Quiet, MemoryInv
    <2>2. Ready(wifiApThreadPtr)
      BY <2>1 DEF MemoryInv, ThreadKnown, AtRest
    <2>3. OwnsObject(obj[wifiApThreadPtr].threadHandle)
      BY <2>2 DEF MemoryInv, Ready, Launched
    <2> QED BY <2>2, <2>3, ThreadAssumption DEF Ready, Launched, JoinedBy, OwnsObject
  <1> QED BY <1>1, Invariance, MemoryInvariance, PTL

\* JoinThread: "After a thread has been joined with, its thread id is no longer valid and
\* must never be used again."  stop keeps to it as long as it is not asked twice, although
\* wifiApThreadPtr goes on leading to the object that was freed.
THEOREM JoinedIdUnused == ASSUME OneAtATime, LibraryKind PROVE Spec => JoinedIdNeverUsed
  <1>1. MemoryInv => \A c \in Caller : pc[c] = "stop_thread" => obj[wifiApThreadPtr].mem = "live"
    <2> SUFFICES ASSUME MemoryInv, NEW c \in Caller, pc[c] = "stop_thread"
                 PROVE  obj[wifiApThreadPtr].mem = "live"
      OBVIOUS
    <2>1. c = Client
      BY DEF MemoryInv, OthersIdle
    <2> QED BY <2>1 DEF MemoryInv, ThreadKnown, StopBefore, Ready, Launched
  <1>2. MemoryInv => [\A c \in Caller : pc[c] = "stop_thread" /\ pc'[c] = "cancelling"
                                        => obj[wifiApThreadPtr].mem = "live"]_vars
    BY <1>1
  <1> QED BY <1>2, MemoryInvariance, PTL DEF JoinedIdNeverUsed

-----------------------------------------------------------------------------
(* stop waits for a thread that ends *)

Ends(t) == pth[t].pc = "main" => pth[t].cancel

\* From the answer of cancelThread to the end of pthread_join.
Cancelled(p, F) ==
  \/ p = "cancelling" /\ F.at = "done"
  \/ p = "joining" /\ F.at \in {"entry", "wait"}

EndsInv ==
  Cancelled(pc[Client], frame[Client]) => Ends(obj[wifiApThreadPtr].threadHandle)

LEMMA EndsStays ==
  ASSUME EndsInv, Cancelled(pc[Client], frame[Client])' => Cancelled(pc[Client], frame[Client]),
         UNCHANGED <<obj, pth, wifiApThreadPtr>>
  PROVE  EndsInv'
  BY DEF EndsInv, Ends

LEMMA EndsAway ==
  ASSUME ~Cancelled(pc[Client], frame[Client])' PROVE EndsInv'
  BY DEF EndsInv

LEMMA PthreadFields ==
  ASSUME NEW b \in Pthread
  PROVE  /\ [b EXCEPT !.cancel = TRUE].cancel
         /\ \A x : /\ [b EXCEPT !.joiner = x].cancel = b.cancel
                   /\ [b EXCEPT !.joiner = x].pc = b.pc
                   /\ [b EXCEPT !.pc = x].pc = x
         /\ \A x, y : [b EXCEPT !.pc = x, !.popped = y].pc = x
  BY DEF Pthread

\* The client asks, or its verb goes on: only StopJoin keeps to a thread it cancelled.
LEMMA VerbEnds ==
  ASSUME OneAtATime, Inv, MemoryInv, EndsInv, VerbStep(Client) PROVE EndsInv'
  <1>1. CASE StopJoin(Client)
    <2>1. pc[Client] = "cancelling" /\ frame[Client].at = "done"
      BY <1>1 DEF StopJoin, Back, At, Returned, In
    <2>2. UNCHANGED <<obj, pth, wifiApThreadPtr>>
      BY <1>1 DEF StopJoin, CallWithThreadId, KeepVerb, libVars
    <2> QED BY <2>1, <2>2, EndsStays DEF Cancelled
  <1>2. CASE StopCancel(Client)
    <2>1. pc[Client] = "stop_thread" /\ Jump(Client, "cancelling")
          /\ CallWithThreadId(Client, "cancelThread")
      BY <1>2 DEF StopCancel, At
    <2>2. Ready(wifiApThreadPtr)
      BY <2>1 DEF MemoryInv, ThreadKnown, StopBefore
    <2>3. frame'[Client].at = "entry"
      BY <2>1, <2>2, CallsById DEF Ready, Launched, Function
    <2>4. pc'[Client] = "cancelling"
      BY <2>1, Typed DEF Jump
    <2> QED BY <2>3, <2>4, EndsAway DEF Cancelled
  <1>3. CASE StartStep(Client) \/ StopHostapd(Client) \/ StopHw(Client) \/ StopNoThread(Client)
               \/ StopJoined(Client) \/ SetStopped(Client)
    <2>1. PICK q \in PC \ {"cancelling", "joining"} : Jump(Client, q)
      <3>1. CASE StartTest(Client) \/ RestartTest(Client) \/ RestartHostapdStop(Client)
                   \/ StartMarker(Client) \/ StartClean(Client)
        BY <1>3, <3>1 DEF StartTest, RestartTest, RestartHostapdStop, HostapdStop, StartMarker,
           StartClean, EndVerb, PC, BeforeCreate
      <3>2. CASE DnsmasqWlanUp(Client) \/ DnsmasqHosts(Client) \/ DnsmasqConf(Client)
                   \/ DnsmasqRestart(Client) \/ DnsmasqFail(Client)
        BY <1>3, <3>2 DEF DnsmasqWlanUp, DnsmasqHosts, DnsmasqConf, DnsmasqRestart, DnsmasqFail,
           PC, BeforeCreate
      <3>3. CASE StartChecks(Client) \/ StartHostapdConf(Client) \/ StartHw(Client)
                   \/ StartHostapd(Client) \/ StartRemoveConf(Client)
        BY <1>3, <3>3 DEF StartChecks, StartHostapdConf, StartHw, StartHostapd,
           StartRemoveConf, PC, BeforeCreate
      <3>4. CASE StartCreateThread(Client) \/ StoreThreadPtr(Client) \/ StartSetJoinable(Client)
                   \/ StartAddDestructor(Client) \/ StartLaunch(Client) \/ SetStarted(Client)
                   \/ Fail(Client)
        BY <1>3, <3>4 DEF StartCreateThread, StoreThreadPtr, StartSetJoinable,
           StartAddDestructor, StartLaunch, SetStarted, Fail, EndVerb, PC, BeforeCreate
      <3>5. CASE StopHostapd(Client) \/ StopHw(Client) \/ StopNoThread(Client)
                   \/ StopJoined(Client) \/ SetStopped(Client)
        BY <1>3, <3>5 DEF StopHostapd, HostapdStop, StopHw, StopNoThread, StopJoined,
           SetStopped, EndVerb, PC, BeforeCreate
      <3> QED BY <1>3, <3>1, <3>2, <3>3, <3>4, <3>5 DEF StartStep
    <2>2. pc'[Client] = q
      BY <2>1, Typed DEF Jump
    <2> QED BY <2>2, EndsAway DEF Cancelled
  <1> QED BY <1>1, <1>2, <1>3 DEF VerbStep, StopStep

LEMMA LibraryEnds ==
  ASSUME OneAtATime, LibraryKind, Inv, MemoryInv, EndsInv, LibStep(Client), UNCHANGED verbVars
  PROVE  EndsInv'
  <1> DEFINE w == wifiApThreadPtr
             h == obj[w].threadHandle
             F == frame[Client]
  <1>1. UNCHANGED <<pc, wifiApThreadPtr>>
    BY DEF verbVars
  <1>2. CASE cancelThread(Client)
    <2>1. F.fn = "cancelThread" /\ F.at = "entry" /\ UNCHANGED obj
      BY <1>2 DEF cancelThread, In
    <2>2. F.id = TheId /\ Ready(w)
      BY <2>1, Awaited DEF MemoryInv, ThreadKnown
    <2>3. h \in Thread /\ h # None /\ w # None /\ threadList = w /\ ~IsFreed(w)
      BY <2>2, ThreadAssumption DEF Ready, Launched, IsFreed
    <2>4. findThreadFromIdInList(F.id) = {w} /\ threadHandleOf(w) = {h}
      BY <2>2, <2>3, LiveFind, LiveReads
    <2>5. CASE pth[h].pc = "exited" /\ UNCHANGED pth
      BY <1>1, <2>1, <2>5 DEF EndsInv, Ends
    <2>6. CASE pth' = [pth EXCEPT ![h].cancel = TRUE]
      <3> DEFINE new == [pth[h] EXCEPT !.cancel = TRUE]
      <3>1. new.cancel
        BY <2>3, Typed, PthreadFields
      <3>2. pth' = [pth EXCEPT ![h] = new]
        BY <2>6
      <3> HIDE DEF new
      <3>3. pth'[h] = new
        BY <2>3, <3>2, Typed
      <3> QED BY <1>1, <2>1, <3>1, <3>3 DEF EndsInv, Ends
    <2> QED BY <1>2, <2>3, <2>4, <2>5, <2>6 DEF cancelThread, LibraryKind
  <1>3. CASE JoinLookup(Client)
    <2>1. F.at = "entry" /\ F.fn = "JoinThread" /\ UNCHANGED <<obj, pth>>
      BY <1>3 DEF JoinLookup, In
    <2>2. pc[Client] = "joining"
      BY <2>1, Awaited
    <2> QED BY <1>1, <2>1, <2>2, EndsStays DEF Cancelled
  <1>4. CASE JoinWait(Client)
    <2>1. F.at = "wait" /\ F.fn = "JoinThread" /\ UNCHANGED obj
      BY <1>4 DEF JoinWait, In
    <2>2. pc[Client] = "joining" /\ JoinCall(F)
      BY <2>1, Awaited DEF MemoryInv, ThreadKnown
    <2>3. Ends(h) /\ F.handle = h /\ h \in Thread
      BY <2>1, <2>2 DEF EndsInv, Cancelled, JoinCall, Launched
    <2>4. CASE UNCHANGED pth
      BY <1>1, <2>1, <2>3, <2>4 DEF EndsInv, Ends
    <2>5. CASE pth' = [pth EXCEPT ![h].joiner = Client]
      <3> DEFINE new == [pth[h] EXCEPT !.joiner = Client]
      <3>1. new.cancel = pth[h].cancel /\ new.pc = pth[h].pc
        BY <2>3, Typed, PthreadFields
      <3>2. pth' = [pth EXCEPT ![h] = new]
        BY <2>5
      <3> HIDE DEF new
      <3>3. pth'[h] = new
        BY <2>3, <3>2, Typed
      <3> QED BY <1>1, <2>1, <2>3, <3>1, <3>3 DEF EndsInv, Ends
    <2> QED BY <1>4, <2>3, <2>4, <2>5 DEF JoinWait
  <1>5. CASE JoinRemove(Client) \/ JoinDelete(Client)
    <2>1. /\ F.fn = "JoinThread" /\ F.at \in {"remove", "delete"}
          /\ Goto(Client, "delete") \/ Return(Client, 0)
      BY <1>5 DEF JoinRemove, JoinDelete, In
    <2>2. pc'[Client] = "joining"
      BY <1>1, <2>1, Awaited
    <2>3. frame'[Client].at \in {"delete", "done"}
      BY <2>1, Typed, GotoLemma, ReturnValue
    <2> QED BY <2>2, <2>3, EndsAway DEF Cancelled
  <1>6. CASE CreateThread(Client) \/ Lookup(Client) \/ CheckNew(Client)
               \/ setThreadJoinable(Client) \/ addDestructorToThread(Client)
               \/ startThread(Client)
    <2>1. /\ F.fn \in ByIdFunction \cup {"CreateThread"} /\ F.at # "done"
      BY <1>6 DEF CreateThread, Lookup, CheckNew, setThreadJoinable, addDestructorToThread,
         startThread, In, ByIdFunction
    <2>2. pc'[Client] \notin {"cancelling", "joining"}
      BY <1>1, <2>1, Awaited DEF ByIdFunction
    <2> QED BY <2>2, EndsAway DEF Cancelled
  <1> QED BY <1>2, <1>3, <1>4, <1>5, <1>6 DEF LibStep

\* An event thread never goes back to its main function, and no step of it takes the
\* handle out of an object.
LEMMA PthreadEnds ==
  ASSUME OneAtATime, Inv, MemoryInv, EndsInv, UNCHANGED verbVars,
         NEW t \in Thread, PthreadStep(t)
  PROVE  EndsInv'
  <1> DEFINE w == wifiApThreadPtr
             h == obj[w].threadHandle
             o == pth[t].o
  <1>1. UNCHANGED <<pc, wifiApThreadPtr, frame>> /\ pth[t].pc \notin {"none", "exited"}
    BY DEF PthreadStep, MainFuncReturns, ActOnCancel, EnterCleanup, CleanupThread,
       RunDestructors, CancelledInCleanup, CleanupUnlink, CleanupFree, verbVars
  <1>2. o \in Obj /\ obj[o].mem = "live" /\ o # None /\ pth[t].pc \in {"main", "cleanup"}
    BY <1>1, ThreadAssumption DEF MemoryInv, OwnsObject
  <1>3. SUFFICES ASSUME Cancelled(pc[Client], frame[Client])
                 PROVE  Ends(obj[wifiApThreadPtr].threadHandle)'
    BY <1>1 DEF EndsInv
  <1>4. Ends(h) /\ w \in Obj
    BY <1>3 DEF EndsInv, Cancelled, MemoryInv, ThreadKnown, JoinCall, Ready, Launched
  <1>5. obj'[w].threadHandle = h
    <2>1. ASSUME NEW b \in thread_Obj_t
          PROVE  /\ [b EXCEPT !.state = "DYING"].threadHandle = b.threadHandle
                 /\ [b EXCEPT !.destructors = 0].threadHandle = b.threadHandle
      BY <2>1 DEF thread_Obj_t
    <2>2. ASSUME NEW b, obj' = [obj EXCEPT ![o] = b], b.threadHandle = obj[o].threadHandle
          PROVE  obj'[w].threadHandle = h
      BY <1>2, <1>4, <2>2, Typed
    <2>3. obj[o] \in thread_Obj_t /\ ~IsFreed(o)
      BY <1>2, Typed DEF IsFreed
    <2>4. CASE MainFuncReturns(t) \/ ActOnCancel(t)
      <3>1. obj' = [obj EXCEPT ![o] = [obj[o] EXCEPT !.state = "DYING"]]
        BY <2>3, <2>4, LiveCleanup DEF MainFuncReturns, ActOnCancel
      <3> QED BY <2>1, <2>2, <2>3, <3>1
    <2>5. CASE RunDestructors(t)
      <3>1. obj' = [obj EXCEPT ![o] = [obj[o] EXCEPT !.destructors = 0]]
        BY <2>3, <2>5, LiveDestructors
      <3> QED BY <2>1, <2>2, <2>3, <3>1
    <2> QED BY <1>2, <2>4, <2>5 DEF PthreadStep, CleanupThread, CancelledInCleanup,
            CleanupUnlink, CleanupFree
  <1>6. PICK new : pth' = [pth EXCEPT ![t] = new] /\ new.pc # "main"
    <2>1. pth[t] \in Pthread
      BY Typed
    <2>2. CASE MainFuncReturns(t) \/ ActOnCancel(t)
      <3>1. PICK popped \in BOOLEAN :
              pth' = [pth EXCEPT ![t] = [pth[t] EXCEPT !.pc = "cleanup", !.popped = popped]]
        BY <2>2 DEF MainFuncReturns, ActOnCancel, EnterCleanup
      <3> DEFINE new == [pth[t] EXCEPT !.pc = "cleanup", !.popped = popped]
      <3>2. new.pc = "cleanup"
        BY <2>1, PthreadFields
      <3>3. pth' = [pth EXCEPT ![t] = new]
        BY <3>1
      <3> HIDE DEF new
      <3> QED BY <3>2, <3>3
    <2>3. CASE RunDestructors(t) \/ CancelledInCleanup(t)
      <3>1. PICK q \in {"exited", "unlink"} : pth' = [pth EXCEPT ![t] = [pth[t] EXCEPT !.pc = q]]
        BY <1>2, <2>3, LiveDestructors DEF CancelledInCleanup, IsFreed
      <3> DEFINE new == [pth[t] EXCEPT !.pc = q]
      <3>2. new.pc = q
        BY <2>1, PthreadFields
      <3>3. pth' = [pth EXCEPT ![t] = new]
        BY <3>1
      <3> HIDE DEF new
      <3> QED BY <3>2, <3>3
    <2> QED BY <1>2, <2>2, <2>3 DEF PthreadStep, CleanupThread, CleanupUnlink, CleanupFree
  <1>7. pth'[t] = new /\ \A u \in Thread \ {t} : pth'[u] = pth[u]
    BY <1>6, Typed
  <1>8. h \in Thread
    BY <1>3 DEF Cancelled, MemoryInv, ThreadKnown, JoinCall, Ready, Launched
  <1> QED BY <1>1, <1>4, <1>5, <1>6, <1>7, <1>8 DEF Ends

LEMMA EndsInvariance == ASSUME OneAtATime, LibraryKind PROVE Spec => []EndsInv
  <1>1. Init => EndsInv
    <2> SUFFICES ASSUME Init PROVE EndsInv
      OBVIOUS
    <2>1. pc[Client] \in {"idle", "marker"}
      BY VerbAssumption DEF Init, OneAtATime
    <2> QED BY <2>1 DEF EndsInv, Cancelled
  <1>2. ASSUME Inv, MemoryInv, EndsInv, [Next]_vars PROVE EndsInv'
    <2>1. CASE UNCHANGED <<libVars, verbVars>>
      BY <1>2, <2>1, EndsStays DEF libVars, verbVars
    <2>2. ASSUME NEW c \in Caller, Request(c) PROVE EndsInv'
      <3>1. UNCHANGED <<obj, pth, frame, wifiApThreadPtr>>
        BY <2>2 DEF Request, AskStart, AskStop, AskRestart, Ask, SetParameters, libVars
      <3>2. UNCHANGED pc \/ (\E p \in {"start_test", "stop_hostapd", "restart_marker"} :
                                c \in Operator /\ Jump(c, p))
        BY <2>2 DEF Request, AskStart, AskStop, AskRestart, Ask, SetParameters
      <3>3. UNCHANGED pc \/ pc'[Client] \notin {"cancelling", "joining"}
        BY <3>2, Typed, <1>2 DEF Jump, OneAtATime
      <3> QED BY <1>2, <3>1, <3>3, EndsStays DEF Cancelled
    <2>3. ASSUME NEW c \in Caller, VerbStep(c) PROVE EndsInv'
      BY <1>2, <2>3, VerbCaller, VerbEnds DEF MemoryInv
    <2>4. ASSUME NEW c \in Caller, Library(c) PROVE EndsInv'
      <3>1. LibStep(c) /\ UNCHANGED verbVars
        BY <2>4 DEF Library
      <3>2. frame[c].at # "done"
        BY <3>1 DEF LibStep, CreateThread, Lookup, CheckNew, setThreadJoinable,
           addDestructorToThread, startThread, cancelThread, JoinLookup, JoinWait, JoinRemove,
           JoinDelete, In
      <3>3. c = Client
        BY <1>2, <3>2 DEF MemoryInv, OthersOut
      <3> QED BY <1>2, <3>1, <3>3, LibraryEnds
    <2>5. ASSUME NEW t \in Thread, EventThread(t) PROVE EndsInv'
      BY <1>2, <2>5, PthreadEnds DEF EventThread
    <2>6. CASE Boot
      <3>1. pc'[Client] \in {"idle", "marker"}
        BY <2>6, VerbAssumption DEF Boot, OneAtATime
      <3> QED BY <3>1 DEF EndsInv, Cancelled
    <2> QED BY <1>2, <2>1, <2>2, <2>3, <2>4, <2>5, <2>6 DEF Next, Crash, vars
  <1> QED BY <1>1, <1>2, Invariance, MemoryInvariance, PTL DEF Spec

\* stop, once it waits in pthread_join, waits for an event thread that was told to end or
\* is ending: with Mutex free (LibrarySafe), only that thread's own end, the destructor with
\* its pclose, can still keep it from its answer.
THEOREM StopWaitsForAnEnd ==
  ASSUME OneAtATime, LibraryKind PROVE Spec => []JoinedThreadEnds
  <1>1. Inv /\ MemoryInv /\ EndsInv => JoinedThreadEnds
    <2> SUFFICES ASSUME Inv, MemoryInv, EndsInv, NEW c \in Caller,
                        frame[c].fn = "JoinThread", frame[c].at = "wait",
                        pth[frame[c].handle].pc = "main"
                 PROVE  pth[frame[c].handle].cancel
      BY DEF JoinedThreadEnds
    <2>1. c = Client
      BY DEF MemoryInv, OthersOut
    <2>2. pc[Client] = "joining"
      BY <2>1, Awaited
    <2>3. frame[Client].handle = obj[wifiApThreadPtr].threadHandle
      BY <2>1, <2>2 DEF MemoryInv, ThreadKnown, JoinCall
    <2> QED BY <2>1, <2>2, <2>3 DEF EndsInv, Cancelled, Ends
  <1> QED BY <1>1, EndsInvariance, Invariance, MemoryInvariance, PTL

-----------------------------------------------------------------------------
(* stop ends its thread *)

NoOwn == \A t \in EventThreads : pth[t].o # wifiApThreadPtr

StopAsked == StopBefore \cup {"cancelling", "joining"}

\* From the end of JoinThread, or from a status "stopped" on until the next thread is
\* launched, no event thread of wifiApThreadPtr is left.
Ended(s, p, F) ==
  \/ p = "set_stopped"
  \/ p = "joining" /\ F.at = "done"
  \/ s = "stopped" /\ p # "set_started"

EndedInv ==
  /\ status = "stopped" => pc[Client] \notin StopAsked
  /\ Ended(status, pc[Client], frame[Client]) => NoOwn

\* Nothing is launched, and event threads go on with the object they have.
LEMMA NoOwnStays ==
  ASSUME NoOwn, UNCHANGED wifiApThreadPtr,
         \A t \in Thread : pth'[t].pc \notin {"none", "exited"}
           => pth[t].pc \notin {"none", "exited"} /\ pth'[t].o = pth[t].o
  PROVE  NoOwn'
  BY DEF NoOwn, EventThreads

\* An object without a pthread, or no object at all.
LEMMA NoOwner ==
  ASSUME MemoryInv, NEW w, w \notin Obj \/ obj[w].threadHandle = None, NEW t \in EventThreads
  PROVE  pth[t].o # w
  <1>1. t \in Thread /\ pth[t].pc # "none" /\ t # None
    BY ThreadAssumption DEF EventThreads
  <1> QED BY <1>1 DEF MemoryInv, OwnsObject

LEMMA StartEnded ==
  ASSUME OneAtATime, Inv, MemoryInv, EndedInv, StartStep(Client) PROVE EndedInv'
  <1> DEFINE p2 == pc'[Client]
  <1>1. CASE SetStarted(Client) \/ Fail(Client) \/ DnsmasqFail(Client)
    <2>1. status' # "stopped" /\ (Jump(Client, "idle") \/ Jump(Client, "fail"))
      BY <1>1 DEF SetStarted, Fail, DnsmasqFail, EndVerb
    <2>2. p2 \in {"idle", "fail"}
      BY <2>1, Typed DEF Jump
    <2> QED BY <2>1, <2>2 DEF EndedInv, Ended
  <1>2. CASE StoreThreadPtr(Client)
    <2>1. /\ pc[Client] = "store" /\ frame[Client].at = "done"
          /\ UNCHANGED <<obj, pth, status>> /\ wifiApThreadPtr' = frame[Client].ptr
          /\ Jump(Client, "joinable")
      BY <1>2 DEF StoreThreadPtr, Back, At, Returned, In
    <2>2. p2 = "joinable"
      BY <2>1, Typed DEF Jump
    <2>3. Built(frame[Client].ptr, 0)
      BY <2>1 DEF MemoryInv, ThreadKnown
    <2>4. NoOwn'
      BY <2>1, <2>3, NoOwner DEF NoOwn, EventThreads, Built
    <2> QED BY <2>2, <2>4 DEF EndedInv, StopAsked, StopBefore
  <1>3. ASSUME UNCHANGED <<pth, status, wifiApThreadPtr>>, pc[Client] # "set_started",
               NEW q \in PC \ (StopAsked \cup {"set_stopped"}), Jump(Client, q)
        PROVE  EndedInv'
    <2>1. p2 = q
      BY <1>3, Typed DEF Jump
    <2>2. Ended(status', p2, frame'[Client]) => NoOwn
      BY <1>3, <2>1 DEF EndedInv, Ended, StopAsked
    <2> QED BY <1>3, <2>1, <2>2, NoOwnStays DEF EndedInv
  <1>4. CASE StartTest(Client) \/ RestartTest(Client) \/ RestartHostapdStop(Client)
             \/ StartMarker(Client) \/ StartClean(Client)
    <2>1. UNCHANGED <<pth, status, wifiApThreadPtr>> /\ pc[Client] # "set_started"
      BY <1>4 DEF StartTest, RestartTest, RestartHostapdStop, HostapdStop, StartMarker,
         StartClean, KeepVerb, libVars, At
    <2>2. \E q \in PC \ (StopAsked \cup {"set_stopped"}) : Jump(Client, q)
      BY <1>4 DEF StartTest, RestartTest, RestartHostapdStop, HostapdStop, StartMarker,
         StartClean, EndVerb, PC, BeforeCreate, StopAsked, StopBefore
    <2> QED BY <1>3, <2>1, <2>2
  <1>5. CASE DnsmasqWlanUp(Client) \/ DnsmasqHosts(Client) \/ DnsmasqConf(Client)
             \/ DnsmasqRestart(Client) \/ StartChecks(Client)
    <2>1. UNCHANGED <<pth, status, wifiApThreadPtr>> /\ pc[Client] # "set_started"
      BY <1>5 DEF DnsmasqWlanUp, DnsmasqHosts, DnsmasqConf, DnsmasqRestart, StartChecks,
         KeepVerb, libVars, At
    <2>2. \E q \in PC \ (StopAsked \cup {"set_stopped"}) : Jump(Client, q)
      BY <1>5 DEF DnsmasqWlanUp, DnsmasqHosts, DnsmasqConf, DnsmasqRestart, StartChecks,
         PC, BeforeCreate, StopAsked, StopBefore
    <2> QED BY <1>3, <2>1, <2>2
  <1>6. CASE StartHostapdConf(Client) \/ StartHw(Client) \/ StartHostapd(Client)
             \/ StartRemoveConf(Client)
    <2>1. UNCHANGED <<pth, status, wifiApThreadPtr>> /\ pc[Client] # "set_started"
      BY <1>6 DEF StartHostapdConf, StartHw, StartHostapd, StartRemoveConf, KeepVerb,
         libVars, At
    <2>2. \E q \in PC \ (StopAsked \cup {"set_stopped"}) : Jump(Client, q)
      BY <1>6 DEF StartHostapdConf, StartHw, StartHostapd, StartRemoveConf,
         PC, BeforeCreate, StopAsked, StopBefore
    <2> QED BY <1>3, <2>1, <2>2
  <1>7. CASE StartCreateThread(Client) \/ StartSetJoinable(Client)
             \/ StartAddDestructor(Client) \/ StartLaunch(Client)
    <2>1. UNCHANGED <<pth, status, wifiApThreadPtr>> /\ pc[Client] # "set_started"
      BY <1>7 DEF StartCreateThread, StartSetJoinable, StartAddDestructor, StartLaunch,
         CallWithThreadId, Back, At
    <2>2. \E q \in PC \ (StopAsked \cup {"set_stopped"}) : Jump(Client, q)
      BY <1>7 DEF StartCreateThread, StartSetJoinable, StartAddDestructor, StartLaunch,
         PC, BeforeCreate, StopAsked, StopBefore
    <2> QED BY <1>3, <2>1, <2>2
  <1> QED BY <1>1, <1>2, <1>4, <1>5, <1>6, <1>7 DEF StartStep

LEMMA StopEnded ==
  ASSUME OneAtATime, Inv, MemoryInv, EndedInv, StopStep(Client) PROVE EndedInv'
  <1> DEFINE p2 == pc'[Client]
  <1>1. UNCHANGED <<pth, wifiApThreadPtr>>
    BY DEF StopStep, StopHostapd, HostapdStop, StopHw, StopNoThread, StopCancel, StopJoin,
       StopJoined, SetStopped, CallWithThreadId, KeepVerb, libVars
  <1>2. NoOwn => NoOwn'
    BY <1>1, NoOwnStays
  <1>3. CASE SetStopped(Client)
    <2>1. pc[Client] = "set_stopped" /\ Jump(Client, "idle")
      BY <1>3 DEF SetStopped, At, EndVerb
    <2>2. p2 = "idle"
      BY <2>1, Typed DEF Jump
    <2> QED BY <1>2, <2>1, <2>2 DEF EndedInv, Ended, StopAsked, StopBefore
  <1>4. CASE ~SetStopped(Client)
    <2>1. UNCHANGED status /\ pc[Client] \in StopAsked
      BY <1>4 DEF StopStep, StopHostapd, HostapdStop, StopHw, StopNoThread, StopCancel,
         StopJoin, StopJoined, CallWithThreadId, KeepVerb, At, Back, StopAsked, StopBefore
    <2>2. status' # "stopped"
      BY <2>1 DEF EndedInv
    <2>3. CASE StopHostapd(Client) \/ StopHw(Client) \/ StopCancel(Client)
      <3>1. \E q \in {"stop_hostapd2", "stop_hw", "stop_thread", "fail", "cancelling"} :
              Jump(Client, q)
        BY <2>3 DEF StopHostapd, HostapdStop, StopHw, StopCancel
      <3>2. p2 \notin {"set_stopped", "joining"}
        BY <3>1, Typed DEF Jump
      <3> QED BY <2>2, <3>2 DEF EndedInv, Ended
    <2>4. CASE StopNoThread(Client)
      <3>1. wifiApThreadPtr \notin Obj
        BY <2>4, ThreadAssumption DEF StopNoThread
      <3> QED BY <1>2, <2>2, <3>1, NoOwner DEF NoOwn, EndedInv
    <2>5. CASE StopJoin(Client)
      <3>1. pc[Client] = "cancelling" /\ frame[Client].at = "done"
        BY <2>5 DEF StopJoin, Back, At, Returned, In
      <3>2. Ready(wifiApThreadPtr) /\ frame[Client].ret = 0
        BY <3>1 DEF MemoryInv, ThreadKnown
      <3>3. CallWithThreadId(Client, "JoinThread") /\ Jump(Client, "joining")
        BY <2>5, <3>2 DEF StopJoin
      <3>4. frame'[Client].at = "entry"
        BY <3>2, <3>3, CallsById DEF Ready, Launched, Function
      <3>5. p2 = "joining"
        BY <3>3, Typed DEF Jump
      <3> QED BY <2>2, <3>4, <3>5 DEF EndedInv, Ended
    <2>6. CASE StopJoined(Client)
      <3>1. pc[Client] = "joining" /\ frame[Client].at = "done"
        BY <2>6 DEF StopJoined, Back, At, Returned, In
      <3> QED BY <1>2, <2>2, <3>1 DEF EndedInv, Ended
    <2> QED BY <1>4, <2>3, <2>4, <2>5, <2>6 DEF StopStep
  <1> QED BY <1>3, <1>4

\* JoinThread returns 0 after pthread_join only: the thread of the handle has exited.
LEMMA LibraryEnded ==
  ASSUME OneAtATime, Inv, MemoryInv, MemoryInv', EndedInv, LibStep(Client),
         UNCHANGED verbVars
  PROVE  EndedInv'
  <1> DEFINE w == wifiApThreadPtr
             h == obj[w].threadHandle
             F == frame[Client]
  <1>1. UNCHANGED <<pc, status, wifiApThreadPtr>>
    BY DEF verbVars
  <1>2. F.at # "done"
    BY DEF LibStep, CreateThread, Lookup, CheckNew, setThreadJoinable,
       addDestructorToThread, startThread, cancelThread, JoinLookup, JoinWait, JoinRemove,
       JoinDelete, In
  <1>3. pc[Client] # "set_stopped"
    BY <1>2, Awaited DEF CallSteps
  <1>4. CASE pc[Client] = "joining" /\ frame'[Client].at = "done"
    <2>1. F.fn = "JoinThread" /\ JoinCall(F) /\ frame'[Client].ret = 0
      BY <1>1, <1>2, <1>4, Awaited DEF MemoryInv, ThreadKnown, JoinCall
    <2>2. JoinLookup(Client) \/ JoinWait(Client) \/ JoinRemove(Client) \/ JoinDelete(Client)
      BY <2>1 DEF LibStep, CreateThread, Lookup, CheckNew, setThreadJoinable,
         addDestructorToThread, startThread, cancelThread, ByIdFunction, In
    <2>3. CASE JoinLookup(Client)
      <3>1. CASE \E r \in {-1, -2} : Return(Client, r)
        BY <1>4, <2>1, <3>1, Typed, ReturnValue
      <3>2. ASSUME NEW x, NEW y,
                   frame' = [frame EXCEPT ![Client].at = "wait", ![Client].ptr = x,
                                          ![Client].handle = y]
            PROVE  FALSE
        <4> DEFINE new == [F EXCEPT !.at = "wait", !.ptr = x, !.handle = y]
        <4>1. new.at = "wait"
          BY Typed DEF Frame
        <4>2. frame' = [frame EXCEPT ![Client] = new]
          BY <3>2
        <4> HIDE DEF new
        <4> QED BY <1>4, <4>1, <4>2, Typed
      <3> QED BY <2>3, <3>1, <3>2 DEF JoinLookup
    <2>4. CASE JoinWait(Client)
      <3>1. F.at = "wait" /\ (Return(Client, -2) \/ Goto(Client, "remove") \/ UNCHANGED frame)
        BY <2>4 DEF JoinWait, In
      <3> QED BY <1>2, <1>4, <2>1, <3>1, Typed, ReturnValue, GotoLemma
    <2>5. CASE JoinRemove(Client)
      <3>1. Goto(Client, "delete")
        BY <2>5 DEF JoinRemove
      <3> QED BY <1>4, <3>1, Typed, GotoLemma
    <2>6. CASE JoinDelete(Client)
      <3>1. UNCHANGED pth /\ pth[h].pc = "exited"
        BY <2>1, <2>6 DEF JoinDelete, In, JoinCall
      <3>2. ASSUME NEW t \in EventThreads PROVE pth[t].o # w
        BY <3>1 DEF EventThreads, MemoryInv, OwnsObject
      <3>3. NoOwn'
        BY <1>1, <3>1, <3>2 DEF NoOwn, EventThreads
      <3> QED BY <1>1, <3>3 DEF EndedInv
    <2> QED BY <2>2, <2>3, <2>4, <2>5, <2>6
  <1>5. CASE ~(pc[Client] = "joining" /\ frame'[Client].at = "done")
    <2>1. SUFFICES ASSUME status = "stopped", pc[Client] # "set_started" PROVE NoOwn'
      BY <1>1, <1>3, <1>5 DEF EndedInv, Ended
    <2>2. NoOwn /\ pc[Client] \notin {"cancelling", "joining"}
      BY <2>1 DEF EndedInv, Ended, StopAsked
    <2>3. UNCHANGED pth
      <3>1. F.fn \notin {"startThread", "cancelThread", "JoinThread"}
        BY <1>2, <2>1, <2>2, Awaited
      <3> QED BY <3>1 DEF LibStep, CreateThread, Lookup, CheckNew, setThreadJoinable,
              addDestructorToThread, startThread, cancelThread, JoinLookup, JoinWait,
              JoinRemove, JoinDelete, In
    <2> QED BY <1>1, <2>2, <2>3, NoOwnStays
  <1> QED BY <1>4, <1>5

LEMMA PthreadEnded ==
  ASSUME OneAtATime, Inv, MemoryInv, EndedInv, UNCHANGED verbVars,
         NEW t \in Thread, PthreadStep(t)
  PROVE  EndedInv'
  <1>1. UNCHANGED <<pc, status, wifiApThreadPtr, frame>>
        /\ pth[t].pc \notin {"none", "exited"} /\ pth[t] \in Pthread
    BY Typed DEF PthreadStep, MainFuncReturns, ActOnCancel, EnterCleanup, CleanupThread,
       RunDestructors, CancelledInCleanup, CleanupUnlink, CleanupFree, verbVars
  <1>2. PICK new : pth' = [pth EXCEPT ![t] = new] /\ new.o = pth[t].o
    <2>1. ASSUME NEW q, NEW popped
          PROVE  /\ [pth[t] EXCEPT !.pc = q].o = pth[t].o
                 /\ [pth[t] EXCEPT !.pc = q, !.popped = popped].o = pth[t].o
      BY <1>1 DEF Pthread
    <2>2. CASE MainFuncReturns(t) \/ ActOnCancel(t)
      <3>1. PICK popped \in BOOLEAN :
              pth' = [pth EXCEPT ![t] = [pth[t] EXCEPT !.pc = "cleanup", !.popped = popped]]
        BY <2>2 DEF MainFuncReturns, ActOnCancel, EnterCleanup
      <3> DEFINE new == [pth[t] EXCEPT !.pc = "cleanup", !.popped = popped]
      <3>2. new.o = pth[t].o /\ pth' = [pth EXCEPT ![t] = new]
        BY <2>1, <3>1
      <3> HIDE DEF new
      <3> QED BY <3>2
    <2>3. CASE CleanupThread(t)
      <3>1. PICK q : pth' = [pth EXCEPT ![t] = [pth[t] EXCEPT !.pc = q]]
        <4>1. OwnsObject(t) /\ pth[t].o \in Obj
          BY <1>1 DEF MemoryInv, OwnsObject
        <4>2. ~IsFreed(pth[t].o) \/ ~RunDestructors(t)
          BY <1>1, <4>1 DEF OwnsObject, IsFreed
        <4> QED BY <2>3, <4>2, LiveDestructors
                DEF CleanupThread, CancelledInCleanup, CleanupUnlink, CleanupFree
      <3> DEFINE new == [pth[t] EXCEPT !.pc = q]
      <3>2. new.o = pth[t].o /\ pth' = [pth EXCEPT ![t] = new]
        BY <2>1, <3>1
      <3> HIDE DEF new
      <3> QED BY <3>2
    <2> QED BY <2>2, <2>3 DEF PthreadStep
  <1>3. pth'[t] = new /\ \A u \in Thread \ {t} : pth'[u] = pth[u]
    BY <1>2, Typed
  <1>4. NoOwn => NoOwn'
    BY <1>1, <1>2, <1>3, NoOwnStays
  <1> QED BY <1>1, <1>4 DEF EndedInv

LEMMA RequestEnded ==
  ASSUME OneAtATime, LibraryKind, Inv, MemoryInv, EndedInv, NEW c \in Caller, Request(c)
  PROVE  EndedInv'
  <1>1. UNCHANGED <<pth, frame, status, wifiApThreadPtr>>
    BY DEF Request, AskStart, AskStop, AskRestart, Ask, SetParameters, libVars
  <1>2. NoOwn => NoOwn'
    BY <1>1, NoOwnStays
  <1>3. CASE UNCHANGED pc
    BY <1>1, <1>2, <1>3 DEF EndedInv
  <1>4. ASSUME NEW p, Idle(c), c \in Operator, Jump(c, p),
               \/ p \in {"start_test", "restart_marker"}
               \/ p = "stop_hostapd" /\ status = "started"
        PROVE  EndedInv'
    <2>1. pc[Client] = "idle" /\ pc'[Client] = p
      BY <1>4, Typed DEF Idle, Jump, OneAtATime
    <2> QED BY <1>1, <1>2, <1>4, <2>1 DEF EndedInv, Ended, StopAsked, StopBefore
  <1> QED BY <1>3, <1>4
          DEF Request, AskStart, AskStop, AskRestart, Ask, SetParameters, LibraryKind

LEMMA EndedInvariance == ASSUME OneAtATime, LibraryKind PROVE Spec => []EndedInv
  <1>1. Init => EndedInv
    <2> SUFFICES ASSUME Init PROVE EndedInv
      OBVIOUS
    <2>1. pc[Client] \in {"idle", "marker"} /\ status # "stopped"
      BY VerbAssumption DEF Init, OneAtATime
    <2> QED BY <2>1 DEF EndedInv, Ended
  <1>2. ASSUME Inv, MemoryInv, EndedInv, [Next]_vars PROVE EndedInv'
    <2>1. CASE UNCHANGED <<libVars, verbVars>>
      BY <1>2, <2>1, NoOwnStays DEF libVars, verbVars, EndedInv
    <2>2. ASSUME NEW c \in Caller, VerbStep(c) PROVE EndedInv'
      <3>1. c = Client
        BY <1>2, <2>2, VerbCaller DEF MemoryInv
      <3> QED BY <1>2, <2>2, <3>1, StartEnded, StopEnded DEF VerbStep
    <2>3. ASSUME NEW c \in Caller, Library(c) PROVE EndedInv'
      <3>1. LibStep(c) /\ UNCHANGED verbVars
        BY <2>3 DEF Library
      <3>2. frame[c].at # "done"
        BY <3>1 DEF LibStep, CreateThread, Lookup, CheckNew, setThreadJoinable,
           addDestructorToThread, startThread, cancelThread, JoinLookup, JoinWait, JoinRemove,
           JoinDelete, In
      <3>3. c = Client
        BY <1>2, <3>2 DEF MemoryInv, OthersOut
      <3> QED BY <1>2, <3>1, <3>3, NextMemory, LibraryEnded
    <2>4. ASSUME NEW t \in Thread, EventThread(t) PROVE EndedInv'
      BY <1>2, <2>4, PthreadEnded DEF EventThread
    <2>5. CASE Boot
      <3>1. pc'[Client] \in {"idle", "marker"} /\ status' # "stopped"
        BY <2>5, VerbAssumption DEF Boot, OneAtATime
      <3> QED BY <3>1 DEF EndedInv, Ended
    <2> QED BY <1>2, <2>1, <2>2, <2>3, <2>4, <2>5, RequestEnded DEF Next, Crash, vars
  <1> QED BY <1>1, <1>2, Invariance, MemoryInvariance, PTL DEF Spec

\* When the access point is reported stopped, the event thread of the last start has ended,
\* whatever commands and files failed and whatever verbs were asked before.
THEOREM StopEndedItsThread ==
  ASSUME OneAtATime, LibraryKind PROVE Spec => []StopEndsItsThread
  <1>1. Inv /\ MemoryInv /\ EndedInv => StopEndsItsThread
    <2> SUFFICES ASSUME Inv, MemoryInv, EndedInv, Quiet, status = "stopped" PROVE NoOwn
      BY DEF StopEndsItsThread, NoOwn
    <2>1. pc[Client] = "idle"
      BY Typed DEF Quiet, MemoryInv
    <2> QED BY <2>1 DEF EndedInv, Ended
  <1> QED BY <1>1, Invariance, MemoryInvariance, EndedInvariance, PTL

-----------------------------------------------------------------------------
(* What one process leaves to the next *)

LEMMA Succeeds ==
  ASSUME Smooth, NEW result, NEW call, Outcome(result, call) PROVE result = "ok"
  BY DEF Smooth, Outcome, Fails

\* The clean-up script does its work.
CleanUpWorks == {"clean", "kill_hostapd", "signal"} \cap Fallible = {}

Covered == hostapd # None \/ dnsmasq # None => MarkersExist

\* The binder does not die in the middle of the script; elsewhere the daemons are
\* covered by a marker, and from the launch of dnsmasq on by its configuration file.
CoverInv ==
  /\ ~alive => pc[Client] \notin MidScript
  /\ pc[Client] \notin MidScript => Covered
  /\ pc[Client] \in DnsmasqUpSteps => dnsmasqConf # None

CoverTypes == dnsmasqConf \in Cfg \cup {None, Partial} /\ cfg \in Cfg

LEMMA CoverTyped == Inv => CoverTypes
  BY DEF Inv, TypeOK, PlatformTypeOK, CoverTypes

\* A step that leaves files and daemons alone.
LEMMA CoverStays ==
  ASSUME CoverInv, UNCHANGED sysVars, pc[Client] \notin MidScript,
         pc'[Client] \notin MidScript,
         pc'[Client] \in DnsmasqUpSteps => pc[Client] \in DnsmasqUpSteps
  PROVE  CoverInv'
  BY DEF CoverInv, Covered, MarkersExist, sysVars

LEMMA ScriptWorks ==
  ASSUME CleanUpWorks, NEW result, HOSTAPD_STOP_begin(result) \/ HOSTAPD_STOP_end(result)
  PROVE  /\ result = "ok"
         /\ HOSTAPD_STOP_end(result) => hostapd' = None /\ dnsmasq' = None
  BY DEF CleanUpWorks, HOSTAPD_STOP_begin, HOSTAPD_STOP_end, KillHostapd, Outcome, Fails,
         Undone

LEMMA ScriptCover ==
  ASSUME OneAtATime, CleanUpWorks, Inv, CoverInv, NEW p, NEW q, NEW next,
         HostapdStop(Client, p, q, next), q \in MidScript, next \notin MidScript,
         next \notin DnsmasqUpSteps
  PROVE  CoverInv'
  <1>1. alive' = TRUE
    BY DEF HostapdStop, At
  <1>2. \/ pc' = [pc EXCEPT ![Client] = q]
        \/ pc' = [pc EXCEPT ![Client] = next] /\ hostapd' = None /\ dnsmasq' = None
    BY ScriptWorks DEF HostapdStop, Jump
  <1>3. pc'[Client] = q \/ (pc'[Client] = next /\ hostapd' = None /\ dnsmasq' = None)
    BY <1>2, Typed
  <1> QED BY <1>1, <1>3 DEF CoverInv, Covered, MidScript, DnsmasqUpSteps

LEMMA RequestCover ==
  ASSUME OneAtATime, Inv, CoverInv, NEW c \in Caller, Request(c) PROVE CoverInv'
  <1>1. UNCHANGED <<sysVars, alive>>
    BY DEF Request, AskStart, AskStop, AskRestart, SetParameters, Ask
  <1>2. \/ pc'[Client] = pc[Client]
        \/ /\ pc[Client] = "idle"
           /\ pc'[Client] \in {"start_test", "stop_hostapd", "restart_marker"}
    BY Typed DEF Request, AskStart, AskStop, AskRestart, SetParameters, Ask, Idle, Jump
  <1>3. CASE pc'[Client] = pc[Client]
    BY <1>1, <1>3 DEF CoverInv, Covered, MarkersExist, sysVars
  <1> QED BY <1>1, <1>2, <1>3, CoverStays DEF MidScript, DnsmasqUpSteps

LEMMA VerbCover ==
  ASSUME OneAtATime, CleanUpWorks, Inv, CoverInv, VerbStep(Client) PROVE CoverInv'
  <1> DEFINE p == pc[Client]
             p2 == pc'[Client]
  <1>1. CASE RestartHostapdStop(Client) \/ StartClean(Client) \/ StopHostapd(Client)
    BY <1>1, ScriptCover DEF RestartHostapdStop, StartClean, StopHostapd, MidScript,
       DnsmasqUpSteps
  <1>2. CASE StartTest(Client) \/ RestartTest(Client) \/ StartMarker(Client)
             \/ DnsmasqWlanUp(Client) \/ DnsmasqFail(Client) \/ StartChecks(Client)
             \/ StartHw(Client)
    <2>1. UNCHANGED sysVars
      BY <1>2 DEF StartTest, RestartTest, StartMarker, DnsmasqWlanUp, WLAN_UP, DnsmasqFail,
         StartChecks, StartHw, HW_START
    <2>2. /\ p \in {"start_test", "restart_marker", "marker", "wlan_up", "dnsmasq_fail",
                    "checks", "hw_start"}
          /\ \E q \in {"idle", "marker", "restart_stop", "clean", "wlan_up", "hosts",
                       "dnsmasq_fail", "fail"}
                \cup (IF p \in {"checks", "hw_start"} THEN {"hostapd_conf", "hostapd"} ELSE {}) :
               Jump(Client, q)
      BY <1>2 DEF StartTest, RestartTest, StartMarker, DnsmasqWlanUp, DnsmasqFail,
         StartChecks, StartHw, EndVerb, At
    <2>3. p2 \notin MidScript /\ (p2 \in DnsmasqUpSteps => p \in DnsmasqUpSteps)
      BY <2>2, Typed DEF Jump, MidScript, DnsmasqUpSteps
    <2> QED BY <2>1, <2>2, <2>3, CoverStays DEF MidScript
  <1>3. CASE DnsmasqHosts(Client) \/ DnsmasqConf(Client)
    <2>1. p \in {"hosts", "dnsmasq_conf"}
          /\ (Jump(Client, "dnsmasq_conf") \/ Jump(Client, "dnsmasq"))
      BY <1>3 DEF DnsmasqHosts, DnsmasqConf, At
    <2>2. p2 \in {"dnsmasq_conf", "dnsmasq"}
      BY <2>1, Typed DEF Jump
    <2>3. UNCHANGED <<hostapd, dnsmasq>> /\ (MarkersExist => MarkersExist')
      BY <1>3, CoverTyped, PlatformAssumption DEF DnsmasqHosts, DnsmasqConf,
         createHostsConfigFile, createDnsmasqConfigFile, sysVars, MarkersExist, CoverTypes
    <2> QED BY <2>1, <2>2, <2>3 DEF CoverInv, Covered, MidScript, DnsmasqUpSteps
  <1>4. CASE DnsmasqRestart(Client)
    <2>1. PICK result \in {"ok", "error", "signal"} :
            /\ DNSMASQ_RESTART(result)
            /\ Jump(Client, IF WEXITSTATUS_is_0(result) THEN "checks" ELSE "dnsmasq_fail")
      BY <1>4 DEF DnsmasqRestart
    <2>2. result \in {"ok", "error"} /\ p = "dnsmasq"
      BY <1>4, <2>1 DEF DnsmasqRestart, At, DNSMASQ_RESTART, Outcome, CleanUpWorks, Fails
    <2>3. p2 = IF result = "ok" THEN "checks" ELSE "dnsmasq_fail"
      BY <2>1, <2>2, Typed DEF Jump, WEXITSTATUS_is_0
    <2>4. /\ UNCHANGED <<hosts, hostapd>> /\ (MarkersExist => MarkersExist')
          /\ result = "ok" => dnsmasqConf' # None
          /\ result = "error" => UNCHANGED dnsmasq
      BY <2>1, <2>2, PlatformAssumption DEF DNSMASQ_RESTART, Done, MarkersExist
    <2> QED BY <2>2, <2>3, <2>4 DEF CoverInv, Covered, MarkersExist, MidScript, DnsmasqUpSteps
  <1>5. CASE StartHostapdConf(Client) \/ StartHostapd(Client) \/ StartRemoveConf(Client)
    <2>1. p \in {"hostapd_conf", "hostapd", "remove_conf"}
          /\ \E q \in {"hw_start", "fail", "create", "remove_conf"} :
               Jump(Client, q) /\ (q = "hw_start" => p = "hostapd_conf")
      BY <1>5 DEF StartHostapdConf, StartHostapd, StartRemoveConf, At
    <2>2. p2 \in {"hw_start", "fail", "create", "remove_conf"}
          /\ (p2 = "hw_start" => p = "hostapd_conf")
      BY <2>1, Typed DEF Jump
    <2>3. UNCHANGED <<hosts, dnsmasqConf, dnsmasq>>
          /\ (UNCHANGED hostapd \/ p = "hostapd")
      BY <1>5 DEF StartHostapdConf, GenerateHostApConfFile, StartHostapd, HOSTAPD_START,
         StartRemoveConf, RemoveHostapdConf, At
    <2> QED BY <2>1, <2>2, <2>3 DEF CoverInv, Covered, MarkersExist, MidScript, DnsmasqUpSteps
  <1>6. CASE StartCreateThread(Client) \/ StoreThreadPtr(Client) \/ StartSetJoinable(Client)
             \/ StartAddDestructor(Client) \/ StartLaunch(Client) \/ SetStarted(Client)
             \/ Fail(Client)
    <2>1. UNCHANGED sysVars
      BY <1>6 DEF StartCreateThread, StoreThreadPtr, StartSetJoinable, StartAddDestructor,
         StartLaunch, SetStarted, Fail, CallWithThreadId
    <2>2. /\ p \notin MidScript
          /\ \E q \in {"store", "joinable", "destructor", "launch", "set_started", "idle"} :
               Jump(Client, q)
      BY <1>6 DEF StartCreateThread, StoreThreadPtr, StartSetJoinable, StartAddDestructor,
         StartLaunch, SetStarted, Fail, EndVerb, At, Back, MidScript
    <2>3. p2 \notin MidScript \cup DnsmasqUpSteps
      BY <2>2, Typed DEF Jump, MidScript, DnsmasqUpSteps
    <2> QED BY <2>1, <2>2, <2>3, CoverStays
  <1>7. CASE StopHw(Client) \/ StopNoThread(Client) \/ StopCancel(Client)
             \/ StopJoin(Client) \/ StopJoined(Client) \/ SetStopped(Client)
    <2>1. UNCHANGED sysVars
      BY <1>7 DEF StopHw, HW_STOP, StopNoThread, StopCancel, StopJoin, StopJoined,
         SetStopped, CallWithThreadId
    <2>2. /\ p \notin MidScript
          /\ \E q \in {"stop_thread", "fail", "cancelling", "joining", "set_stopped", "idle"} :
               Jump(Client, q)
      BY <1>7 DEF StopHw, StopNoThread, StopCancel, StopJoin, StopJoined, SetStopped,
         EndVerb, At, Back, MidScript
    <2>3. p2 \notin MidScript \cup DnsmasqUpSteps
      BY <2>2, Typed DEF Jump, MidScript, DnsmasqUpSteps
    <2> QED BY <2>1, <2>2, <2>3, CoverStays
  <1> QED BY <1>1, <1>2, <1>3, <1>4, <1>5, <1>6, <1>7 DEF VerbStep, StartStep, StopStep

\* The library and the event threads: a call that could end the process is under way at
\* none of the steps of MidScript.
LEMMA LibraryCover ==
  ASSUME MemoryInv, CoverInv, UNCHANGED <<sysVars, verbVars>>,
         alive' = alive \/ \E c \in Caller : LibStep(c)
  PROVE  CoverInv'
  <1>1. UNCHANGED pc
    BY DEF verbVars
  <1>2. alive' = alive \/ pc[Client] \notin MidScript
    <2>1. ASSUME NEW c \in Caller, LibStep(c) PROVE pc[Client] \notin MidScript
      <3>1. frame[c].at # "done"
        BY <2>1 DEF LibStep, CreateThread, Lookup, CheckNew, setThreadJoinable,
           addDestructorToThread, startThread, cancelThread, JoinLookup, JoinWait,
           JoinRemove, JoinDelete, In
      <3>2. c = Client
        BY <3>1 DEF MemoryInv, OthersOut
      <3> QED BY <3>1, <3>2 DEF MemoryInv, ThreadKnown, CallSteps, MidScript
    <2> QED BY <2>1
  <1> QED BY <1>1, <1>2 DEF CoverInv, Covered, MarkersExist, sysVars

LEMMA NextCover ==
  ASSUME OneAtATime, CleanUpWorks, Inv, MemoryInv, CoverInv, [Next]_vars PROVE CoverInv'
  <1>1. CASE UNCHANGED vars
    BY <1>1 DEF vars, verbVars, sysVars, CoverInv, Covered, MarkersExist
  <1>2. CASE Crash
    <2>1. pc[Client] \notin MidScript /\ UNCHANGED <<sysVars, verbVars>>
      BY <1>2, Typed DEF Crash
    <2> QED BY <2>1 DEF verbVars, sysVars, CoverInv, Covered, MarkersExist
  <1>3. CASE Boot
    <2>1. pc'[Client] \in {"idle", "marker"} /\ UNCHANGED sysVars
      BY <1>3, VerbAssumption DEF Boot, OneAtATime
    <2>2. pc[Client] \notin MidScript
      BY <1>3 DEF Boot, CoverInv
    <2> QED BY <2>1, <2>2, CoverStays DEF MidScript, DnsmasqUpSteps
  <1>4. ASSUME NEW c \in Caller, VerbStep(c) PROVE CoverInv'
    BY <1>4, VerbCaller, VerbCover DEF MemoryInv
  <1>5. CASE \E c \in Caller : Library(c)
    BY <1>5, LibraryCover DEF Library
  <1>6. ASSUME NEW t \in Thread, EventThread(t) PROVE CoverInv'
    <2>1. OwnsObject(t)
      BY DEF MemoryInv
    <2>2. alive' = alive
      BY <1>6, <2>1 DEF EventThread, PthreadStep, MainFuncReturns, ActOnCancel,
         EnterCleanup, CleanupThread, RunDestructors, CancelledInCleanup, CleanupUnlink,
         CleanupFree, OwnsObject
    <2> QED BY <1>6, <2>2, LibraryCover DEF EventThread
  <1> QED BY <1>1, <1>2, <1>3, <1>4, <1>5, <1>6, RequestCover DEF Next

LEMMA CoverInvariance ==
  ASSUME OneAtATime, LibraryKind, CleanUpWorks PROVE Spec => []CoverInv
  <1>1. Init => CoverInv
    <2> SUFFICES ASSUME Init PROVE CoverInv
      OBVIOUS
    <2>1. pc[Client] \in {"idle", "marker"} /\ hostapd = None /\ dnsmasq = None
      BY VerbAssumption DEF Init, PlatformInit, OneAtATime
    <2> QED BY <2>1 DEF CoverInv, Covered, MidScript, DnsmasqUpSteps
  <1>2. Inv /\ MemoryInv /\ CoverInv /\ [Next]_vars => CoverInv'
    BY NextCover
  <1> QED BY <1>1, <1>2, Invariance, MemoryInvariance, PTL DEF Spec

\* A daemon that runs is covered by a marker file outside the script that removes both,
\* so that the start after a failed one, also that of the next process after the binder
\* died anywhere else, knows that it has to clean up.
THEOREM MarkersCover ==
  ASSUME OneAtATime, LibraryKind, CleanUpWorks PROVE Spec => []MarkersCoverDaemons
  <1>1. Inv /\ CoverInv => MarkersCoverDaemons
    BY Typed DEF CoverInv, Covered, MarkersCoverDaemons
  <1> QED BY <1>1, Invariance, CoverInvariance, PTL

-----------------------------------------------------------------------------
(* Why a verb fails *)

LaunchSteps == {"wlan_up", "hosts", "dnsmasq_conf", "dnsmasq"}

\* Each command finds what it needs: the port of dnsmasq is free, hostapd does not run
\* and has its configuration.
CauseInv ==
  LET p == pc[Client] IN
  /\ p # "remove_conf"
  /\ p \in {"dnsmasq_fail", "fail"} => cfg \notin IpOk \cap RadioOk
  /\ p \in LaunchSteps => dnsmasq = None
  /\ p \in LaunchSteps \cup DnsmasqUpSteps => hostapd = None
  /\ p \in {"hw_start", "hostapd"} => hostapdConf # None

\* The next step is none that CauseInv is about.
LEMMA CauseAway ==
  ASSUME pc'[Client] \notin LaunchSteps \cup DnsmasqUpSteps
                              \cup {"remove_conf", "dnsmasq_fail", "fail"}
  PROVE  CauseInv'
  BY DEF CauseInv, DnsmasqUpSteps

LEMMA CauseStays ==
  ASSUME CauseInv, UNCHANGED <<sysVars, cfg>>, pc'[Client] = pc[Client] PROVE CauseInv'
  BY DEF CauseInv, sysVars

LEMMA RequestCause ==
  ASSUME OneAtATime, Caller = {Client}, Inv, MemoryInv, CauseInv, NEW c \in Caller, Request(c)
  PROVE  CauseInv'
  <1>1. c = Client /\ pc[Client] = "idle"
    BY DEF Request, AskStart, AskStop, AskRestart, SetParameters, Idle
  <1>2. \E q \in {"idle", "start_test", "stop_hostapd", "restart_marker"} :
          pc' = [pc EXCEPT ![Client] = q]
    BY <1>1, Typed DEF Request, AskStart, AskStop, AskRestart, SetParameters, Ask, Jump
  <1>3. pc'[Client] \in {"idle", "start_test", "stop_hostapd", "restart_marker"}
    BY <1>2, Typed
  <1> QED BY <1>3, CauseAway DEF LaunchSteps, DnsmasqUpSteps

\* WIFIAP_HOSTAPD_STOP goes on with its second half or with step next.
LEMMA ScriptCause ==
  ASSUME OneAtATime, Smooth, Inv, NEW p, NEW q, NEW next, HostapdStop(Client, p, q, next),
         q \in MidScript, next \in {"marker", "wlan_up", "stop_hw"}
  PROVE  CauseInv'
  <1>1. CleanUpWorks
    BY DEF Smooth, CleanUpWorks
  <1>2. \/ pc' = [pc EXCEPT ![Client] = q]
        \/ pc' = [pc EXCEPT ![Client] = next] /\ hostapd' = None /\ dnsmasq' = None
    BY <1>1, ScriptWorks DEF HostapdStop, Jump
  <1>3. pc'[Client] = q \/ (pc'[Client] = next /\ hostapd' = None /\ dnsmasq' = None)
    BY <1>2, Typed
  <1>4. CASE pc'[Client] = "wlan_up" /\ hostapd' = None /\ dnsmasq' = None
    BY <1>4 DEF CauseInv
  <1> QED BY <1>3, <1>4, CauseAway DEF MidScript, LaunchSteps, DnsmasqUpSteps

LEMMA DnsmasqCause ==
  ASSUME OneAtATime, Smooth, Inv, CoverInv, CauseInv,
         \/ StartMarker(Client) \/ DnsmasqWlanUp(Client) \/ DnsmasqHosts(Client)
         \/ DnsmasqConf(Client) \/ DnsmasqRestart(Client) \/ DnsmasqFail(Client)
  PROVE  CauseInv'
  <1> DEFINE p == pc[Client]
             p2 == pc'[Client]
  <1>1. cfg' = cfg
    BY DEF StartMarker, DnsmasqWlanUp, DnsmasqHosts, DnsmasqConf, DnsmasqRestart,
       DnsmasqFail, KeepVerb
  <1>2. CASE StartMarker(Client)
    <2>1. p = "marker" /\ UNCHANGED sysVars
          /\ Jump(Client, IF MarkersExist THEN "clean" ELSE "wlan_up")
      BY <1>2 DEF StartMarker, At
    <2>2. p2 = IF MarkersExist THEN "clean" ELSE "wlan_up"
      BY <2>1, Typed DEF Jump
    <2>3. ~MarkersExist => hostapd = None /\ dnsmasq = None
      BY <2>1 DEF CoverInv, Covered, MidScript
    <2> QED BY <2>1, <2>2, <2>3 DEF CauseInv, LaunchSteps, DnsmasqUpSteps, sysVars
  <1>3. CASE DnsmasqWlanUp(Client)
    <2>1. p = "wlan_up" /\ UNCHANGED sysVars
          /\ \/ cfg \notin IpOk /\ Jump(Client, "dnsmasq_fail")
             \/ Jump(Client, "hosts")
      BY <1>3, Succeeds DEF DnsmasqWlanUp, At, WLAN_UP, WEXITSTATUS_is_0
    <2>2. (cfg \notin IpOk /\ p2 = "dnsmasq_fail") \/ p2 = "hosts"
      BY <2>1, Typed DEF Jump
    <2> QED BY <1>1, <2>1, <2>2 DEF CauseInv, LaunchSteps, DnsmasqUpSteps, sysVars
  <1>4. CASE DnsmasqHosts(Client) \/ DnsmasqConf(Client)
    <2>1. p \in {"hosts", "dnsmasq_conf"} /\ UNCHANGED <<hostapd, dnsmasq>>
          /\ (Jump(Client, "dnsmasq_conf") \/ Jump(Client, "dnsmasq"))
      BY <1>4 DEF DnsmasqHosts, DnsmasqConf, At, createHostsConfigFile,
         createDnsmasqConfigFile, sysVars
    <2>2. p2 \in {"dnsmasq_conf", "dnsmasq"}
      BY <2>1, Typed DEF Jump
    <2> QED BY <2>1, <2>2 DEF CauseInv, LaunchSteps, DnsmasqUpSteps
  <1>5. CASE DnsmasqRestart(Client)
    <2>1. p = "dnsmasq" /\ dnsmasq = None /\ hostapd = None
      BY <1>5 DEF DnsmasqRestart, At, CauseInv, LaunchSteps
    <2>2. Jump(Client, "checks") /\ UNCHANGED hostapd
      BY <1>5, <2>1, Succeeds DEF DnsmasqRestart, DNSMASQ_RESTART, WEXITSTATUS_is_0
    <2>3. p2 = "checks"
      BY <2>2, Typed DEF Jump
    <2> QED BY <2>1, <2>2, <2>3 DEF CauseInv, LaunchSteps, DnsmasqUpSteps
  <1>6. CASE DnsmasqFail(Client)
    <2>1. p = "dnsmasq_fail" /\ Jump(Client, "fail")
      BY <1>6 DEF DnsmasqFail, At
    <2>2. p2 = "fail"
      BY <2>1, Typed DEF Jump
    <2> QED BY <1>1, <2>1, <2>2 DEF CauseInv, LaunchSteps, DnsmasqUpSteps
  <1> QED BY <1>2, <1>3, <1>4, <1>5, <1>6

LEMMA HostapdCause ==
  ASSUME OneAtATime, Smooth, Inv, CauseInv,
         \/ StartChecks(Client) \/ StartHostapdConf(Client) \/ StartHw(Client)
         \/ StartHostapd(Client) \/ StartRemoveConf(Client)
  PROVE  CauseInv'
  <1> DEFINE p == pc[Client]
             p2 == pc'[Client]
  <1>1. cfg' = cfg /\ cfg # None
    BY CoverTyped, PlatformAssumption DEF CoverTypes, StartChecks, StartHostapdConf,
       StartHw, StartHostapd, StartRemoveConf, KeepVerb
  <1>2. CASE StartChecks(Client)
    <2>1. p = "checks" /\ UNCHANGED sysVars
          /\ Jump(Client, IF cfg \in RadioOk THEN "hostapd_conf" ELSE "fail")
      BY <1>2 DEF StartChecks, At
    <2>2. p2 = IF cfg \in RadioOk THEN "hostapd_conf" ELSE "fail"
      BY <2>1, Typed DEF Jump
    <2> QED BY <1>1, <2>1, <2>2 DEF CauseInv, LaunchSteps, DnsmasqUpSteps, sysVars
  <1>3. CASE StartHostapdConf(Client)
    <2>1. p = "hostapd_conf" /\ Jump(Client, "hw_start") /\ hostapdConf' = cfg
          /\ UNCHANGED hostapd
      BY <1>3 DEF StartHostapdConf, At, GenerateHostApConfFile, Smooth, Fails
    <2>2. p2 = "hw_start"
      BY <2>1, Typed DEF Jump
    <2> QED BY <1>1, <2>1, <2>2 DEF CauseInv, LaunchSteps, DnsmasqUpSteps
  <1>4. CASE StartHw(Client)
    <2>1. p = "hw_start" /\ Jump(Client, "hostapd") /\ UNCHANGED sysVars
      BY <1>4, Succeeds DEF StartHw, At, HW_START, WEXITSTATUS_is_0
    <2>2. p2 = "hostapd"
      BY <2>1, Typed DEF Jump
    <2> QED BY <2>1, <2>2 DEF CauseInv, LaunchSteps, DnsmasqUpSteps, sysVars
  <1>5. CASE StartHostapd(Client)
    <2>1. p = "hostapd" /\ hostapd = None /\ hostapdConf # None
      BY <1>5 DEF StartHostapd, At, CauseInv, DnsmasqUpSteps
    <2>2. Jump(Client, "create")
      BY <1>5, <2>1, Succeeds DEF StartHostapd, HOSTAPD_START
    <2>3. p2 = "create"
      BY <2>2, Typed DEF Jump
    <2> QED BY <2>3, CauseAway DEF LaunchSteps, DnsmasqUpSteps
  <1>6. CASE StartRemoveConf(Client)
    BY <1>6 DEF StartRemoveConf, At, CauseInv
  <1> QED BY <1>2, <1>3, <1>4, <1>5, <1>6

LEMMA VerbCause ==
  ASSUME OneAtATime, Smooth, Inv, MemoryInv, CoverInv, CauseInv, VerbStep(Client)
  PROVE  CauseInv'
  <1> DEFINE p2 == pc'[Client]
  <1>1. CASE RestartHostapdStop(Client) \/ StartClean(Client) \/ StopHostapd(Client)
    BY <1>1, ScriptCause DEF RestartHostapdStop, StartClean, StopHostapd, MidScript
  <1>2. CASE StartTest(Client) \/ RestartTest(Client) \/ SetStarted(Client) \/ Fail(Client)
             \/ SetStopped(Client)
    <2>1. \E q \in {"idle", "marker", "restart_stop"} : Jump(Client, q)
      BY <1>2 DEF StartTest, RestartTest, SetStarted, Fail, SetStopped, EndVerb
    <2>2. p2 \in {"idle", "marker", "restart_stop"}
      BY <2>1, Typed DEF Jump
    <2> QED BY <2>2, CauseAway DEF LaunchSteps, DnsmasqUpSteps
  <1>3. CASE StartCreateThread(Client) \/ StoreThreadPtr(Client) \/ StartSetJoinable(Client)
             \/ StartAddDestructor(Client) \/ StartLaunch(Client)
    <2>1. \E q \in {"store", "joinable", "destructor", "launch", "set_started"} :
            Jump(Client, q)
      BY <1>3 DEF StartCreateThread, StoreThreadPtr, StartSetJoinable, StartAddDestructor,
         StartLaunch
    <2>2. p2 \in {"store", "joinable", "destructor", "launch", "set_started"}
      BY <2>1, Typed DEF Jump
    <2> QED BY <2>2, CauseAway DEF LaunchSteps, DnsmasqUpSteps
  <1>4. CASE StopHw(Client) \/ StopNoThread(Client) \/ StopCancel(Client)
             \/ StopJoin(Client) \/ StopJoined(Client)
    <2>1. StopJoined(Client) => frame[Client].ret = 0
      BY DEF StopJoined, Back, At, Returned, In, MemoryInv, ThreadKnown, JoinCall
    <2>2. \E q \in {"stop_thread", "cancelling", "joining", "set_stopped"} : Jump(Client, q)
      BY <1>4, <2>1, Succeeds DEF StopHw, HW_STOP, StopNoThread, StopCancel, StopJoin,
         StopJoined
    <2>3. p2 \in {"stop_thread", "cancelling", "joining", "set_stopped"}
      BY <2>2, Typed DEF Jump
    <2> QED BY <2>3, CauseAway DEF LaunchSteps, DnsmasqUpSteps
  <1> QED BY <1>1, <1>2, <1>3, <1>4, DnsmasqCause, HostapdCause
          DEF VerbStep, StartStep, StopStep

LEMMA CauseInvariance ==
  ASSUME OneAtATime, Caller = {Client}, LibraryKind, Smooth PROVE Spec => []CauseInv
  <1>1. Init => CauseInv
    <2> SUFFICES ASSUME Init PROVE CauseInv
      OBVIOUS
    <2>1. pc[Client] \in {"idle", "marker"}
      BY VerbAssumption DEF Init, OneAtATime
    <2> QED BY <2>1 DEF CauseInv, LaunchSteps, DnsmasqUpSteps
  <1>2. Inv /\ MemoryInv /\ CoverInv /\ CauseInv /\ [Next]_vars => CauseInv'
    <2> SUFFICES ASSUME Inv, MemoryInv, CoverInv, CauseInv, [Next]_vars PROVE CauseInv'
      OBVIOUS
    <2>1. CASE UNCHANGED <<sysVars, verbVars>>
      BY <2>1, CauseStays DEF verbVars
    <2>2. CASE Boot
      <3>1. pc'[Client] \in {"idle", "marker"}
        BY <2>2, VerbAssumption DEF Boot, OneAtATime
      <3> QED BY <3>1, CauseAway DEF LaunchSteps, DnsmasqUpSteps
    <2>3. ASSUME NEW c \in Caller, VerbStep(c) PROVE CauseInv'
      BY <2>3, VerbCaller, VerbCause DEF MemoryInv
    <2> QED BY <2>1, <2>2, <2>3, RequestCause DEF Next, Library, EventThread, Crash, vars
  <1>3. CleanUpWorks
    BY DEF Smooth, CleanUpWorks
  <1> QED BY <1>1, <1>2, <1>3, Invariance, MemoryInvariance, CoverInvariance, PTL DEF Spec

\* When the commands work, start, stop and the start by binding_ctl fail for one reason
\* only, parameters that startAp refuses: what a failed start or a dead binder left behind
\* is cleaned up, and stop ends the event thread.
THEOREM OnlyBadParametersFail ==
  ASSUME OneAtATime, Caller = {Client}, LibraryKind, Smooth
  PROVE  Spec => []FailsOnlyOnBadParameters
  <1>1. CauseInv => FailsOnlyOnBadParameters
    BY DEF CauseInv, FailsOnlyOnBadParameters
  <1> QED BY <1>1, CauseInvariance, PTL
=============================================================================
