-------------------------- MODULE WifiApStatusProofs --------------------------
(***************************************************************************)
(* Theorems about one client that operates the access point, WifiAp: what   *)
(* the status says is true, and the binding implements AccessPoint.  They    *)
(* hold for any other clients that set parameters, any values of them, any   *)
(* number of objects and pthreads, any number of lives of the binder, and    *)
(* whatever command, file operation or library call fails, except that no    *)
(* shell is killed by a signal and that "kill -9" of hostapd works.          *)
(***************************************************************************)
EXTENDS WifiApPromise, WifiApProofs

\* One client operates the access point; binding_ctl may start it before any client asks.
OneAtATime == Operator = {Client} /\ (StartAtInit => Caller = {Client})

\* What two failures that look like a success would make of the status is not covered: a
\* shell that is killed (WEXITSTATUS is 0), and a hostapd that survives the script (the
\* exit of its "kill -9 || exit" ends a subshell), which stop takes for stopped.
OneOperator == OneAtATime /\ {"signal", "kill_hostapd"} \cap Fallible = {}

LEMMA ClientLemma ==
  ASSUME OneOperator PROVE Client \in Caller /\ Operator = {Client}
  BY VerbAssumption DEF OneOperator, OneAtATime

-----------------------------------------------------------------------------
(* The invariant *)

RestartSteps == {"restart_marker", "restart_stop", "restart_stop2"}

\* From the commands of startAp to its success, by what has been launched.
CleaningSteps ==
  {"marker", "clean", "clean2", "wlan_up", "hosts", "dnsmasq_conf", "dnsmasq",
   "dnsmasq_fail", "remove_conf"}
DnsmasqUpSteps == {"checks", "hostapd_conf", "hw_start", "hostapd"}
BothUpSteps == {"create", "store", "joinable", "destructor", "launch", "set_started"}

\* From the commands of stop to its success.
KilledSteps == {"stop_hw", "stop_thread", "cancelling", "joining", "set_stopped"}

StartSteps == CleaningSteps \cup DnsmasqUpSteps \cup BothUpSteps \cup {"fail"}
StopSteps == {"stop_hostapd", "stop_hostapd2", "fail"} \cup KilledSteps

\* A verb is at one of its own steps.
InVerb(v, p) ==
  \/ v = "none" /\ p = "idle"
  \/ v = "init" /\ p \in StartSteps
  \/ v = "start" /\ p \in {"start_test"} \cup StartSteps
  \/ v = "restart" /\ p \in RestartSteps \cup StartSteps
  \/ v = "stop" /\ p \in StopSteps

\* Steps before which a verb has changed nothing yet.
UntouchedSteps == {"idle", "start_test", "restart_marker", "restart_stop", "stop_hostapd"}

Truth ==
  /\ status = "started" => hostapd # None /\ dnsmasq # None /\ MarkersExist
  /\ status = "stopped" => hostapd = None /\ dnsmasq = None /\ ~MarkersExist

OthersIdle == \A d \in Caller : d # Client => verb[d] = "none" /\ pc[d] = "idle"

\* What the step p of verb v knows of the status and of the system.
Known(v, p) ==
  /\ InVerb(v, p)
  /\ p \in UntouchedSteps => Truth
  /\ v = "start" /\ p # "start_test" => status # "started"
  /\ p \in DnsmasqUpSteps \cup BothUpSteps => dnsmasq # None /\ dnsmasqConf # None
  /\ p \in BothUpSteps => hostapd # None
  /\ p \in {"stop_hostapd2"} \cup KilledSteps => ~MarkersExist
  /\ p \in KilledSteps => hostapd = None /\ dnsmasq = None

StatusInv == OthersIdle /\ Known(verb[Client], pc[Client])

-----------------------------------------------------------------------------
(* The abstract step that a step of the client is *)

PromiseStep == [Promise!Next]_(Promise!promiseVars)

LEMMA ToldLemma ==
  /\ Told["initializing"] = "off" /\ Told["stopped"] = "off"
  /\ Told["started"] = "on" /\ Told["failure"] = "failed"
  BY DEF Told

LEMMA LowerLemma ==
  /\ Promise!Lower["down"] = {"down"}
  /\ Promise!Lower["half"] = {"down", "half"}
  /\ Promise!Lower["up"] = {"down", "half", "up"}
  BY DEF Promise!Lower

LEMMA StutterLemma ==
  ASSUME UNCHANGED <<status, hostapd, dnsmasq, alive>>, verb'[Client] = verb[Client]
  PROVE  PromiseStep
  BY DEF PromiseStep, Promise!promiseVars, Service

\* The process may die in a step that changes nothing the client sees.
LEMMA DeathLemma ==
  ASSUME UNCHANGED <<status, hostapd, dnsmasq>>, verb'[Client] = verb[Client],
         alive, ~alive', alive' \in BOOLEAN
  PROVE  PromiseStep
  <1>1. alive' = FALSE
    OBVIOUS
  <1>2. Service' = Service /\ Told[status'] = Told[status]
    BY DEF Service
  <1>3. Promise!Death
    BY <1>1, <1>2 DEF Promise!Death
  <1> QED BY <1>3 DEF PromiseStep, Promise!Next

\* A request other than a start of what is started.
Wanted == verb[Client] # "none" /\ (verb[Client] = "start" => status # "started")

LEMMA BusyLemma ==
  ASSUME Wanted, status \in Status PROVE Promise!Busy
  BY ToldLemma DEF Wanted, Status, Promise!Busy, Promise!NothingToDo

LEMMA WorkLemma ==
  ASSUME Wanted, status \in Status, status' \in {status, "failure"},
         verb'[Client] = verb[Client], alive, UNCHANGED alive,
         verb[Client] = "stop" => hostapd' \in {hostapd, None} /\ dnsmasq' \in {dnsmasq, None}
  PROVE  PromiseStep
  <1>1. Told[status'] \in {Told[status], "failed"}
    BY ToldLemma DEF Status
  <1>2. Service' \in {"down", "half", "up"}
    BY DEF Service
  <1>3. verb[Client] = "stop" => Service' \in Promise!Lower[Service]
    BY LowerLemma DEF Service
  <1>4. Promise!Work
    BY <1>1, <1>2, <1>3, BusyLemma DEF Promise!Work
  <1> QED BY <1>4 DEF PromiseStep, Promise!Next

LEMMA AskLemma ==
  ASSUME UNCHANGED <<status, hostapd, dnsmasq, alive>>, alive, verb[Client] = "none",
         verb'[Client] \in {"start", "stop", "restart"}
  PROVE  PromiseStep
  BY DEF PromiseStep, Promise!Next, Promise!Ask, Service

LEMMA VerbEndsLemma ==
  ASSUME UNCHANGED <<hostapd, dnsmasq>>, verb'[Client] = "none", status \in Status,
         alive, UNCHANGED alive,
         \/ Wanted /\ verb[Client] # "stop" /\ status' = "started"
              /\ hostapd # None /\ dnsmasq # None
         \/ verb[Client] = "stop" /\ status' = "stopped" /\ hostapd = None /\ dnsmasq = None
         \/ verb[Client] = "start" /\ status = "started" /\ UNCHANGED status
         \/ verb[Client] = "restart" /\ status # "started" /\ UNCHANGED status
  PROVE  PromiseStep
  <1>1. Service' = Service
    BY DEF Service
  <1>2. CASE Wanted /\ verb[Client] # "stop" /\ status' = "started"
               /\ hostapd # None /\ dnsmasq # None
    BY <1>1, <1>2, BusyLemma, ToldLemma
    DEF PromiseStep, Promise!Next, Promise!Started, Promise!EndWith, Service
  <1>3. CASE verb[Client] = "stop" /\ status' = "stopped" /\ hostapd = None /\ dnsmasq = None
    BY <1>1, <1>3, ToldLemma
    DEF PromiseStep, Promise!Next, Promise!Stopped, Promise!EndWith, Service
  <1>4. CASE /\ UNCHANGED status
             /\ \/ verb[Client] = "start" /\ status = "started"
                \/ verb[Client] = "restart" /\ status # "started"
    <2>1. Promise!EndWith(Told[status])
      BY <1>1, <1>4 DEF Promise!EndWith
    <2>2. Promise!NothingToDo \/ (verb[Client] = "restart" /\ Told[status] # "on")
      BY <1>4, ToldLemma DEF Promise!NothingToDo, Status
    <2> QED BY <2>1, <2>2 DEF PromiseStep, Promise!Next, Promise!Ignored
  <1> QED BY <1>2, <1>3, <1>4

\* The process gives up when its first start fails.
LEMMA FailedLemma ==
  ASSUME UNCHANGED <<hostapd, dnsmasq>>, verb'[Client] = "none", status \in Status,
         Wanted, status' = "failure", alive, alive' = (verb[Client] # "init")
  PROVE  PromiseStep
  <1>1. Service' = Service
    BY DEF Service
  <1>2. Promise!Failed
    BY <1>1, BusyLemma, ToldLemma DEF Promise!Failed, Promise!EndWith
  <1> QED BY <1>2 DEF PromiseStep, Promise!Next

-----------------------------------------------------------------------------
(* The steps of the client *)

Both == StatusInv' /\ PromiseStep

\* The verb goes on to its step p.
LEMMA GoOn ==
  ASSUME OneOperator, Inv, StatusInv, NEW p, Jump(Client, p), UNCHANGED verb,
         Known(verb[Client], p)'
  PROVE  StatusInv' /\ verb'[Client] = verb[Client]
  <1>1. pc \in [Caller -> PC] /\ Client \in Caller
    BY ClientLemma DEF Inv, TypeOK
  <1> QED BY <1>1 DEF Jump, StatusInv, OthersIdle

\* Its first and its last step.
LEMMA BeginsOrEnds ==
  ASSUME OneOperator, Inv, StatusInv, NEW v, NEW p,
         Jump(Client, p), verb' = [verb EXCEPT ![Client] = v], Known(v, p)'
  PROVE  StatusInv' /\ verb'[Client] = v
  <1>1. /\ pc \in [Caller -> PC] /\ verb \in [Caller -> Verb] /\ Client \in Caller
    BY ClientLemma DEF Inv, TypeOK
  <1> QED BY <1>1 DEF Jump, StatusInv, OthersIdle

LEMMA Types ==
  ASSUME OneOperator, Inv
  PROVE  /\ Client \in Caller /\ status \in Status
         /\ verb[Client] \in Verb /\ pc[Client] \in PC
  BY ClientLemma DEF Inv, TypeOK

LEMMA RequestStatus ==
  ASSUME OneOperator, Inv, StatusInv, NEW c \in Caller, Request(c) PROVE Both
  <1>1. CASE SetParameters(c)
    <2>1. UNCHANGED <<status, verb, pc, sysVars, alive>>
      BY <1>1 DEF SetParameters
    <2>2. StatusInv'
      BY <2>1 DEF StatusInv, OthersIdle, Known, Truth, MarkersExist, sysVars
    <2> QED BY <2>1, <2>2, StutterLemma DEF Both, sysVars
  <1>2. ASSUME NEW v \in {"start", "stop", "restart"}, NEW p, Idle(c), Ask(c, v, p),
               InVerb(v, p), p \in UntouchedSteps, v = "start" => p = "start_test"
        PROVE  Both
    <2>1. c = Client /\ pc[Client] = "idle" /\ alive
      BY <1>2, ClientLemma DEF Ask, Idle, Serving
    <2>2. verb[Client] = "none" /\ Truth
      BY <2>1 DEF StatusInv, Known, InVerb, UntouchedSteps, StartSteps, StopSteps,
         RestartSteps, CleaningSteps, DnsmasqUpSteps, BothUpSteps, KilledSteps
    <2>3. UNCHANGED <<status, sysVars, alive>> /\ Jump(Client, p)
          /\ verb' = [verb EXCEPT ![Client] = v]
      BY <1>2, <2>1 DEF Ask
    <2>4. Known(v, p)'
      BY <1>2, <2>2, <2>3 DEF Known, InVerb, Truth, MarkersExist, sysVars, UntouchedSteps,
         DnsmasqUpSteps, BothUpSteps, KilledSteps
    <2> QED BY <2>1, <2>2, <2>3, <2>4, BeginsOrEnds, AskLemma DEF Both, sysVars
  <1>3. CASE AskStart(c)
    BY <1>2, <1>3 DEF AskStart, InVerb, UntouchedSteps
  <1>4. CASE AskStop(c)
    BY <1>2, <1>4 DEF AskStop, InVerb, UntouchedSteps, StopSteps
  <1>5. CASE AskRestart(c)
    BY <1>2, <1>5 DEF AskRestart, InVerb, UntouchedSteps, RestartSteps
  <1> QED BY <1>1, <1>3, <1>4, <1>5 DEF Request

\* Only the client is inside a verb.
LEMMA VerbCaller ==
  ASSUME OthersIdle, NEW c \in Caller, VerbStep(c)
  PROVE  c = Client /\ alive
  <1>1. pc[c] # "idle" /\ alive
    <2>1. CASE StartStep(c)
      BY <2>1 DEF StartStep, StartTest, RestartTest, RestartHostapdStop, HostapdStop,
         StartMarker, StartClean, DnsmasqWlanUp, DnsmasqHosts, DnsmasqConf, DnsmasqRestart,
         DnsmasqFail, StartChecks, StartHostapdConf, StartHw, StartHostapd, StartRemoveConf,
         StartCreateThread, StoreThreadPtr, StartSetJoinable, StartAddDestructor,
         StartLaunch, SetStarted, Fail, At, Back
    <2>2. CASE StopStep(c)
      BY <2>2 DEF StopStep, StopHostapd, HostapdStop, StopHw, StopNoThread, StopCancel,
         StopJoin, StopJoined, SetStopped, At, Back
    <2> QED BY <2>1, <2>2 DEF VerbStep
  <1> QED BY <1>1 DEF OthersIdle

\* The steps at which a start or a restart works.
LEMMA WantedLemma ==
  ASSUME OneOperator, Inv, StatusInv,
         pc[Client] \in StartSteps \cup {"restart_stop", "restart_stop2"},
         verb[Client] # "stop"
  PROVE  Wanted /\ verb[Client] \in {"init", "start", "restart"}
  BY Types DEF StatusInv, Known, InVerb, Wanted, Verb, StartSteps, CleaningSteps,
     DnsmasqUpSteps, BothUpSteps, RestartSteps

LEMMA StartVerb ==
  ASSUME OneOperator, Inv, StatusInv,
         pc[Client] \in CleaningSteps \cup DnsmasqUpSteps \cup BothUpSteps
                          \cup {"restart_stop", "restart_stop2"}
  PROVE  Wanted /\ verb[Client] \in {"init", "start", "restart"}
  BY WantedLemma DEF StatusInv, Known, InVerb, StartSteps, StopSteps, KilledSteps,
     CleaningSteps, DnsmasqUpSteps, BothUpSteps

\* A step of a start to one where nothing need be known of the daemons.
LEMMA CleaningStep ==
  ASSUME OneOperator, Inv, StatusInv, NEW p, Jump(Client, p), UNCHANGED verb,
         Wanted, verb[Client] \in {"init", "start", "restart"}, status' \in {status, "failure"},
         alive, alive' \in BOOLEAN,
         UNCHANGED alive \/ UNCHANGED <<status, hostapd, dnsmasq>>,
         \/ p \in CleaningSteps \cup {"fail"}
         \/ p = "restart_stop2" /\ verb[Client] = "restart"
  PROVE  Both
  <1>1. Known(verb[Client], p)'
    BY Types DEF Known, InVerb, Wanted, StartSteps, CleaningSteps, DnsmasqUpSteps,
       BothUpSteps, KilledSteps, UntouchedSteps, RestartSteps
  <1>2. StatusInv' /\ verb'[Client] = verb[Client]
    BY <1>1, GoOn
  <1>3. CASE UNCHANGED alive
    BY <1>2, <1>3, WorkLemma, Types DEF Both
  <1>4. CASE alive' # alive
    BY <1>2, <1>4, DeathLemma DEF Both
  <1> QED BY <1>3, <1>4

LEMMA KillLemma ==
  ASSUME OneOperator, NEW result,
         HOSTAPD_STOP_begin(result) \/ HOSTAPD_STOP_end(result)
  PROVE  /\ hostapd' \in {hostapd, None} /\ dnsmasq' \in {dnsmasq, None}
         /\ HOSTAPD_STOP_begin(result) => result = "ok" /\ ~MarkersExist'
         /\ HOSTAPD_STOP_end(result) => UNCHANGED <<hosts, dnsmasqConf>>
         /\ HOSTAPD_STOP_end(result) /\ result = "ok" => hostapd' = None /\ dnsmasq' = None
  <1>1. ~Fails("signal") /\ ~Fails("kill_hostapd")
    BY DEF OneOperator, Fails
  <1> QED BY <1>1 DEF HOSTAPD_STOP_begin, HOSTAPD_STOP_end, KillHostapd, Outcome, Done,
                      Undone, MarkersExist

LEMMA NoSignal ==
  ASSUME OneOperator, NEW result, NEW call,
         Outcome(result, call) \/ (Outcome(result, call) \/ (result = "error"))
  PROVE  result \in {"ok", "error"}
  BY DEF OneOperator, Outcome, Fails

\* A step of a start that leaves dnsmasq and its files alone.
LEMMA DnsmasqStays ==
  ASSUME OneOperator, Inv, StatusInv, NEW p, Jump(Client, p), UNCHANGED verb,
         Wanted, verb[Client] \in {"init", "start", "restart"}, UNCHANGED status,
         alive, UNCHANGED alive,
         p \in DnsmasqUpSteps \cup BothUpSteps,
         dnsmasq' # None, dnsmasqConf' # None, p \in BothUpSteps => hostapd' # None
  PROVE  Both
  <1>1. Known(verb[Client], p)'
    BY Types DEF Known, InVerb, Wanted, StartSteps, CleaningSteps, DnsmasqUpSteps,
       BothUpSteps, KilledSteps, UntouchedSteps, RestartSteps
  <1> QED BY <1>1, GoOn, WorkLemma, Types DEF Both

\* What a step of a start knows of the daemons.
LEMMA KnownLemma ==
  ASSUME StatusInv
  PROVE  /\ pc[Client] \in DnsmasqUpSteps \cup BothUpSteps => dnsmasq # None /\ dnsmasqConf # None
         /\ pc[Client] \in BothUpSteps => hostapd # None
         /\ pc[Client] \in {"stop_hostapd2"} \cup KilledSteps => ~MarkersExist
         /\ pc[Client] \in KilledSteps => hostapd = None /\ dnsmasq = None
         /\ pc[Client] \in UntouchedSteps => Truth
         /\ InVerb(verb[Client], pc[Client])
  BY DEF StatusInv, Known

LEMMA StartStatus ==
  ASSUME OneOperator, Inv, StatusInv, StartStep(Client), alive' \in BOOLEAN PROVE Both
  <1> DEFINE p == pc[Client]
  <1>1. CASE StartTest(Client)
    <2>1. /\ p = "start_test" /\ UNCHANGED <<status, hostapd, dnsmasq, hosts, dnsmasqConf>>
          /\ alive /\ UNCHANGED alive
          /\ verb[Client] = "start"
      BY <1>1, KnownLemma DEF StartTest, At, sysVars, InVerb, StartSteps, StopSteps,
         RestartSteps, CleaningSteps, DnsmasqUpSteps, BothUpSteps, KilledSteps
    <2>2. CASE status = "started" /\ EndVerb(Client)
      <3>1. Known("none", "idle")'
        BY <2>1, KnownLemma DEF Known, InVerb, UntouchedSteps, Truth, MarkersExist,
           DnsmasqUpSteps, BothUpSteps, KilledSteps
      <3>2. StatusInv' /\ verb'[Client] = "none"
        BY <2>2, <3>1, BeginsOrEnds DEF EndVerb
      <3> QED BY <2>1, <2>2, <3>2, VerbEndsLemma, Types DEF Both
    <2>3. CASE status # "started" /\ Jump(Client, "marker") /\ UNCHANGED verb
      BY <2>1, <2>3, CleaningStep DEF Wanted, CleaningSteps
    <2> QED BY <1>1, <2>2, <2>3 DEF StartTest
  <1>2. CASE RestartTest(Client)
    <2>1. /\ p = "restart_marker" /\ UNCHANGED <<status, hostapd, dnsmasq, hosts, dnsmasqConf>>
          /\ alive /\ UNCHANGED alive
          /\ verb[Client] = "restart" /\ Truth
      BY <1>2, KnownLemma DEF RestartTest, At, sysVars, InVerb, StartSteps, StopSteps,
         RestartSteps, CleaningSteps, DnsmasqUpSteps, BothUpSteps, KilledSteps, UntouchedSteps
    <2>2. CASE ~MarkersExist /\ EndVerb(Client)
      <3>1. Known("none", "idle")'
        BY <2>1 DEF Known, InVerb, UntouchedSteps, Truth, MarkersExist,
           DnsmasqUpSteps, BothUpSteps, KilledSteps
      <3>2. StatusInv' /\ verb'[Client] = "none"
        BY <2>2, <3>1, BeginsOrEnds DEF EndVerb
      <3>3. status # "started"
        BY <2>1, <2>2 DEF Truth
      <3> QED BY <2>1, <3>2, <3>3, VerbEndsLemma, Types DEF Both
    <2>3. CASE Jump(Client, "restart_stop") /\ UNCHANGED verb
      <3>1. Known(verb[Client], "restart_stop")'
        BY <2>1, <2>3 DEF Known, InVerb, UntouchedSteps, Truth, MarkersExist, RestartSteps,
           DnsmasqUpSteps, BothUpSteps, KilledSteps
      <3> QED BY <2>1, <2>3, <3>1, GoOn, StutterLemma DEF Both
    <2> QED BY <1>2, <2>2, <2>3 DEF RestartTest
  <1>3. CASE RestartHostapdStop(Client)
    <2>1. p \in {"restart_stop", "restart_stop2"} /\ verb[Client] = "restart" /\ Wanted
      BY <1>3, KnownLemma, StartVerb DEF RestartHostapdStop, HostapdStop, At, InVerb,
         StartSteps, StopSteps, CleaningSteps, DnsmasqUpSteps, BothUpSteps, KilledSteps
    <2>2. /\ UNCHANGED <<verb, status, alive>> /\ alive
          /\ Jump(Client, "restart_stop2") \/ Jump(Client, "marker") \/ Jump(Client, "fail")
      BY <1>3 DEF RestartHostapdStop, HostapdStop, KeepVerb, At
    <2> QED BY <2>1, <2>2, CleaningStep DEF CleaningSteps
  <1>4. CASE StartMarker(Client) \/ StartClean(Client) \/ DnsmasqWlanUp(Client)
             \/ DnsmasqHosts(Client) \/ DnsmasqConf(Client) \/ StartRemoveConf(Client)
    <2>1. p \in CleaningSteps
      BY <1>4 DEF StartMarker, StartClean, HostapdStop, DnsmasqWlanUp, DnsmasqHosts,
         DnsmasqConf, StartRemoveConf, At, CleaningSteps
    <2>2. /\ UNCHANGED <<verb, status>> /\ alive
          /\ UNCHANGED alive \/ UNCHANGED <<status, hostapd, dnsmasq>>
      BY <1>4 DEF StartMarker, StartClean, HostapdStop, DnsmasqWlanUp, DnsmasqHosts,
         DnsmasqConf, StartRemoveConf, KeepVerb, At, createHostsConfigFile,
         createDnsmasqConfigFile, RemoveHostapdConf, sysVars
    <2>3. PICK q \in CleaningSteps \cup {"fail"} : Jump(Client, q)
      BY <1>4 DEF StartMarker, StartClean, HostapdStop, DnsmasqWlanUp, DnsmasqHosts,
         DnsmasqConf, StartRemoveConf, CleaningSteps
    <2> QED BY <2>1, <2>2, <2>3, StartVerb, CleaningStep
  <1>5. CASE DnsmasqRestart(Client)
    <2>1. PICK result \in {"ok", "error", "signal"} :
             /\ DNSMASQ_RESTART(result)
             /\ Jump(Client, IF WEXITSTATUS_is_0(result) THEN "checks" ELSE "dnsmasq_fail")
      BY <1>5 DEF DnsmasqRestart
    <2>2. p \in CleaningSteps /\ alive /\ UNCHANGED <<verb, status, alive>>
      BY <1>5 DEF DnsmasqRestart, At, KeepVerb, CleaningSteps
    <2>3. result \in {"ok", "error"}
      BY <2>1 DEF OneOperator, DNSMASQ_RESTART, Outcome, Fails
    <2>4. CASE result = "ok"
      <3>1. Jump(Client, "checks") /\ dnsmasq' # None /\ dnsmasqConf' # None
        BY <2>1, <2>4, PlatformAssumption DEF WEXITSTATUS_is_0, DNSMASQ_RESTART, Undone
      <3> QED BY <2>2, <3>1, StartVerb, DnsmasqStays DEF DnsmasqUpSteps, BothUpSteps
    <2>5. CASE result = "error"
      BY <2>1, <2>2, <2>5, StartVerb, CleaningStep DEF WEXITSTATUS_is_0, CleaningSteps
    <2> QED BY <2>3, <2>4, <2>5
  <1>6. CASE DnsmasqFail(Client)
    <2>1. /\ p \in CleaningSteps /\ alive /\ UNCHANGED <<verb, alive>>
          /\ status' = "failure" /\ Jump(Client, "fail")
      BY <1>6 DEF DnsmasqFail, At, CleaningSteps
    <2> QED BY <2>1, StartVerb, CleaningStep
  <1>7. CASE StartChecks(Client) \/ StartHostapdConf(Client) \/ StartHw(Client)
             \/ StartHostapd(Client)
    <2>1. p \in DnsmasqUpSteps /\ alive /\ UNCHANGED <<verb, status, alive>>
      BY <1>7 DEF StartChecks, StartHostapdConf, StartHw, StartHostapd, At, KeepVerb,
         DnsmasqUpSteps
    <2>2. UNCHANGED <<dnsmasq, dnsmasqConf>>
      BY <1>7 DEF StartChecks, StartHostapdConf, StartHw, StartHostapd, sysVars,
         GenerateHostApConfFile, HW_START, HOSTAPD_START
    <2>3. \/ \E q \in CleaningSteps \cup {"fail"} : Jump(Client, q)
          \/ \E q \in DnsmasqUpSteps : Jump(Client, q)
          \/ Jump(Client, "create") /\ hostapd' # None
      <3>1. CASE StartHostapd(Client)
        <4>1. PICK result \in {"ok", "error", "signal"} :
                 /\ HOSTAPD_START(result)
                 /\ Jump(Client, IF result = "ok" THEN "create" ELSE "remove_conf")
          BY <3>1 DEF StartHostapd
        <4>2. result = "ok" => hostapd' # None
          BY <4>1 DEF HOSTAPD_START, Undone
        <4> QED BY <4>1, <4>2 DEF CleaningSteps
      <3> QED BY <1>7, <3>1 DEF StartChecks, StartHostapdConf, StartHw, DnsmasqUpSteps
    <2>4. dnsmasq' # None /\ dnsmasqConf' # None /\ Wanted
          /\ verb[Client] \in {"init", "start", "restart"}
      BY <2>1, <2>2, KnownLemma, StartVerb
    <2>5. ASSUME NEW q \in DnsmasqUpSteps, Jump(Client, q) PROVE Both
      BY <2>1, <2>4, <2>5, DnsmasqStays DEF DnsmasqUpSteps, BothUpSteps
    <2>6. ASSUME Jump(Client, "create"), hostapd' # None PROVE Both
      BY <2>1, <2>4, <2>6, DnsmasqStays DEF BothUpSteps
    <2> QED BY <2>1, <2>3, <2>4, <2>5, <2>6, CleaningStep
  <1>8. CASE StartCreateThread(Client) \/ StoreThreadPtr(Client) \/ StartSetJoinable(Client)
             \/ StartAddDestructor(Client) \/ StartLaunch(Client)
    <2>1. p \in BothUpSteps /\ alive /\ UNCHANGED <<verb, status, sysVars, alive>>
      BY <1>8 DEF StartCreateThread, StoreThreadPtr, StartSetJoinable, StartAddDestructor,
         StartLaunch, CallWithThreadId, At, Back, BothUpSteps
    <2>2. PICK q \in BothUpSteps : Jump(Client, q)
      BY <1>8 DEF StartCreateThread, StoreThreadPtr, StartSetJoinable, StartAddDestructor,
         StartLaunch, BothUpSteps
    <2>3. dnsmasq' # None /\ dnsmasqConf' # None /\ hostapd' # None
      BY <2>1, KnownLemma DEF sysVars
    <2> QED BY <2>1, <2>2, <2>3, StartVerb, DnsmasqStays
  <1>9. CASE SetStarted(Client)
    <2>1. /\ p \in BothUpSteps /\ status' = "started" /\ EndVerb(Client)
          /\ alive /\ UNCHANGED <<sysVars, alive>>
      BY <1>9 DEF SetStarted, Back, At, BothUpSteps
    <2>2. dnsmasq # None /\ dnsmasqConf # None /\ hostapd # None
      BY <2>1, KnownLemma
    <2>3. Known("none", "idle")'
      BY <2>1, <2>2 DEF Known, InVerb, Truth, MarkersExist, sysVars, UntouchedSteps,
         DnsmasqUpSteps, BothUpSteps, KilledSteps
    <2>4. StatusInv' /\ verb'[Client] = "none"
      BY <2>1, <2>3, BeginsOrEnds DEF EndVerb
    <2> QED BY <2>1, <2>2, <2>4, StartVerb, VerbEndsLemma, Types DEF Both, sysVars
  <1>10. CASE Fail(Client)
    <2>1. /\ p = "fail" /\ status' = "failure" /\ EndVerb(Client) /\ UNCHANGED sysVars
          /\ alive /\ alive' = (verb[Client] # "init")
      BY <1>10 DEF Fail, At
    <2>2. Wanted
      BY <2>1, KnownLemma, WantedLemma DEF InVerb, StartSteps, Wanted
    <2>3. Known("none", "idle")'
      BY <2>1 DEF Known, InVerb, Truth, UntouchedSteps, DnsmasqUpSteps, BothUpSteps,
         KilledSteps
    <2>4. StatusInv' /\ verb'[Client] = "none"
      BY <2>1, <2>3, BeginsOrEnds DEF EndVerb
    <2> QED BY <2>1, <2>2, <2>4, FailedLemma, Types DEF Both, sysVars
  <1> QED BY <1>1, <1>2, <1>3, <1>4, <1>5, <1>6, <1>7, <1>8, <1>9, <1>10 DEF StartStep

\* A step of stop after WIFIAP_HOSTAPD_STOP.
LEMMA KilledStep ==
  ASSUME OneOperator, Inv, StatusInv, NEW p, Jump(Client, p), UNCHANGED verb,
         pc[Client] \in KilledSteps, UNCHANGED <<status, sysVars, alive>>,
         p \in KilledSteps \cup {"fail"}
  PROVE  Both
  <1>1. verb[Client] = "stop"
    BY KnownLemma DEF InVerb, StartSteps, CleaningSteps, DnsmasqUpSteps, BothUpSteps,
       RestartSteps, KilledSteps
  <1>2. Known(verb[Client], p)'
    BY <1>1, KnownLemma DEF Known, InVerb, StopSteps, KilledSteps, UntouchedSteps, sysVars,
       DnsmasqUpSteps, BothUpSteps, MarkersExist
  <1> QED BY <1>2, GoOn, StutterLemma DEF Both, sysVars

LEMMA StopStatus ==
  ASSUME OneOperator, Inv, StatusInv, StopStep(Client) PROVE Both
  <1> DEFINE p == pc[Client]
  <1>1. CASE StopHostapd(Client)
    <2>1. /\ p \in {"stop_hostapd", "stop_hostapd2"}
          /\ alive /\ UNCHANGED <<verb, status, alive>>
      BY <1>1 DEF StopHostapd, HostapdStop, At, KeepVerb
    <2>2. verb[Client] = "stop" /\ Wanted
      BY <2>1, KnownLemma DEF InVerb, Wanted, StartSteps, CleaningSteps, DnsmasqUpSteps,
         BothUpSteps, RestartSteps
    <2>3. PICK result \in {"ok", "error", "signal"} :
            \/ /\ p = "stop_hostapd" /\ HOSTAPD_STOP_begin(result)
               /\ Jump(Client, IF result = "ok" THEN "stop_hostapd2" ELSE "fail")
            \/ /\ p = "stop_hostapd2" /\ HOSTAPD_STOP_end(result)
               /\ Jump(Client, IF result = "ok" THEN "stop_hw" ELSE "fail")
      BY <1>1 DEF StopHostapd, HostapdStop, At
    <2>4. PICK q \in {"stop_hostapd2", "stop_hw", "fail"} :
            /\ Jump(Client, q)
            /\ q = "stop_hostapd2" => ~MarkersExist'
            /\ q = "stop_hw" => ~MarkersExist' /\ hostapd' = None /\ dnsmasq' = None
      <3>1. CASE /\ HOSTAPD_STOP_begin(result)
                 /\ Jump(Client, IF result = "ok" THEN "stop_hostapd2" ELSE "fail")
        BY <3>1, KillLemma
      <3>2. CASE /\ p = "stop_hostapd2" /\ HOSTAPD_STOP_end(result)
                 /\ Jump(Client, IF result = "ok" THEN "stop_hw" ELSE "fail")
        <4>1. ~MarkersExist'
          BY <3>2, KillLemma, KnownLemma DEF MarkersExist
        <4> QED BY <3>2, <4>1, KillLemma
      <3> QED BY <2>3, <3>1, <3>2
    <2>5. Known(verb[Client], q)'
      BY <2>1, <2>2, <2>4 DEF Known, InVerb, StopSteps, KilledSteps, UntouchedSteps,
         DnsmasqUpSteps, BothUpSteps
    <2>6. hostapd' \in {hostapd, None} /\ dnsmasq' \in {dnsmasq, None}
      BY <2>3, KillLemma
    <2> QED BY <2>1, <2>2, <2>4, <2>5, <2>6, GoOn, WorkLemma, Types DEF Both
  <1>2. CASE StopHw(Client) \/ StopNoThread(Client) \/ StopCancel(Client)
             \/ StopJoin(Client) \/ StopJoined(Client)
    <2>1. p \in KilledSteps /\ UNCHANGED <<verb, status, sysVars, alive>>
      BY <1>2 DEF StopHw, HW_STOP, StopNoThread, StopCancel, StopJoin, StopJoined,
         CallWithThreadId, At, Back, KeepVerb, KilledSteps
    <2>2. PICK q \in KilledSteps \cup {"fail"} : Jump(Client, q)
      BY <1>2 DEF StopHw, StopNoThread, StopCancel, StopJoin, StopJoined, KilledSteps
    <2> QED BY <2>1, <2>2, KilledStep
  <1>3. CASE SetStopped(Client)
    <2>1. /\ p = "set_stopped" /\ status' = "stopped" /\ EndVerb(Client)
          /\ alive /\ UNCHANGED <<sysVars, alive>>
      BY <1>3 DEF SetStopped, At
    <2>2. verb[Client] = "stop" /\ ~MarkersExist /\ hostapd = None /\ dnsmasq = None
      BY <2>1, KnownLemma DEF KilledSteps, InVerb, StartSteps, CleaningSteps,
         DnsmasqUpSteps, BothUpSteps, RestartSteps
    <2>3. Known("none", "idle")'
      BY <2>1, <2>2 DEF Known, InVerb, Truth, MarkersExist, sysVars, UntouchedSteps,
         DnsmasqUpSteps, BothUpSteps, KilledSteps
    <2>4. StatusInv' /\ verb'[Client] = "none"
      BY <2>1, <2>3, BeginsOrEnds DEF EndVerb
    <2> QED BY <2>1, <2>2, <2>4, VerbEndsLemma, Types DEF Both, sysVars
  <1> QED BY <1>1, <1>2, <1>3 DEF StopStep

-----------------------------------------------------------------------------
(* The theorems *)

\* The library runs in a process that runs.
LEMMA LibraryAlive == ASSUME NEW c \in Caller, LibStep(c) PROVE alive
  BY DEF LibStep, CreateThread, ByIdFunction, Lookup, CheckNew, setThreadJoinable,
     addDestructorToThread, startThread, cancelThread, JoinLookup, JoinWait, JoinRemove,
     JoinDelete, In

LEMMA PthreadAlive == ASSUME NEW t \in Thread, PthreadStep(t) PROVE alive
  BY DEF PthreadStep, MainFuncReturns, ActOnCancel, CleanupThread, RunDestructors,
     CancelledInCleanup, CleanupUnlink, CleanupFree

\* A step that changes nothing the client sees, and may end the process.
LEMMA UnseenStep ==
  ASSUME OneOperator, Inv, Inv', StatusInv, UNCHANGED <<status, verb, pc, sysVars>>,
         ~alive => UNCHANGED alive
  PROVE  Both
  <1> alive \in BOOLEAN /\ alive' \in BOOLEAN
    BY DEF Inv, TypeOK
  <1>1. StatusInv'
    BY DEF StatusInv, OthersIdle, Known, Truth, MarkersExist, sysVars
  <1>2. UNCHANGED <<hostapd, dnsmasq, verb, status>>
    BY DEF sysVars
  <1>3. CASE UNCHANGED alive
    BY <1>1, <1>2, <1>3, StutterLemma DEF Both
  <1>4. CASE alive /\ ~alive'
    BY <1>1, <1>2, <1>4, DeathLemma DEF Both
  <1> QED BY <1>3, <1>4

\* A new process starts from nothing but the daemons and their files.
LEMMA BootStatus ==
  ASSUME OneOperator, Boot PROVE Both
  <1>1. /\ status' = "initializing" /\ UNCHANGED sysVars /\ ~alive /\ alive' = TRUE
        /\ \E c \in Caller :
             /\ verb' = [d \in Caller |-> IF StartAtInit /\ d = c THEN "init" ELSE "none"]
             /\ pc' = [d \in Caller |-> IF StartAtInit /\ d = c THEN "marker" ELSE "idle"]
    BY DEF Boot
  <1>2. /\ OthersIdle'
        /\ \/ verb'[Client] = "none" /\ pc'[Client] = "idle"
           \/ verb'[Client] = "init" /\ pc'[Client] = "marker"
    BY <1>1, ClientLemma DEF OthersIdle, OneOperator, OneAtATime
  <1>3. Known(verb[Client], pc[Client])'
    BY <1>1, <1>2 DEF Known, InVerb, Truth, UntouchedSteps, StartSteps, CleaningSteps,
       DnsmasqUpSteps, BothUpSteps, KilledSteps
  <1>4. Service' = Service
    BY <1>1 DEF Service, sysVars
  <1>5. Promise!Birth
    BY <1>1, <1>2, <1>4, ToldLemma DEF Promise!Birth
  <1> QED BY <1>2, <1>3, <1>5 DEF Both, StatusInv, PromiseStep, Promise!Next

LEMMA NextStatus ==
  ASSUME OneOperator, Inv, Inv', StatusInv, [Next]_vars PROVE Both
  <1> alive' \in BOOLEAN
    BY DEF Inv, TypeOK
  <1>1. CASE UNCHANGED vars
    BY <1>1, UnseenStep DEF vars, verbVars
  <1>2. ASSUME NEW c \in Caller, Request(c) PROVE Both
    BY <1>2, RequestStatus
  <1>3. ASSUME NEW c \in Caller, VerbStep(c) PROVE Both
    BY <1>3, VerbCaller, StartStatus, StopStatus DEF VerbStep, StatusInv
  <1>4. ASSUME NEW c \in Caller, Library(c) PROVE Both
    BY <1>4, LibraryAlive, UnseenStep DEF Library, verbVars
  <1>5. ASSUME NEW t \in Thread, EventThread(t) PROVE Both
    BY <1>5, PthreadAlive, UnseenStep DEF EventThread, verbVars
  <1>6. CASE Crash
    BY <1>6, UnseenStep DEF Crash, verbVars
  <1>7. CASE Boot
    BY <1>7, BootStatus
  <1> QED BY <1>1, <1>2, <1>3, <1>4, <1>5, <1>6, <1>7 DEF Next

LEMMA InitStatus ==
  ASSUME OneOperator, Init PROVE StatusInv /\ Promise!Init
  <1>1. \E c \in Caller :
           /\ verb = [d \in Caller |-> IF StartAtInit /\ d = c THEN "init" ELSE "none"]
           /\ pc = [d \in Caller |-> IF StartAtInit /\ d = c THEN "marker" ELSE "idle"]
    BY DEF Init
  <1>2. /\ OthersIdle
        /\ \/ verb[Client] = "none" /\ pc[Client] = "idle"
           \/ verb[Client] = "init" /\ pc[Client] = "marker"
    BY <1>1, ClientLemma DEF OthersIdle, OneOperator, OneAtATime
  <1>3. status = "initializing" /\ hostapd = None /\ dnsmasq = None /\ alive = TRUE
    BY DEF Init, PlatformInit
  <1>4. StatusInv
    BY <1>2, <1>3 DEF StatusInv, Known, InVerb, Truth, UntouchedSteps, StartSteps,
       CleaningSteps, DnsmasqUpSteps, BothUpSteps, KilledSteps
  <1>5. Promise!Init
    BY <1>2, <1>3, ToldLemma DEF Promise!Init, Service
  <1> QED BY <1>4, <1>5

LEMMA StatusInvariance == ASSUME OneOperator PROVE Spec => []StatusInv
  <1>1. Init => StatusInv
    BY InitStatus
  <1>2. Inv /\ Inv' /\ StatusInv /\ [Next]_vars => StatusInv'
    BY NextStatus DEF Both
  <1> QED BY <1>1, <1>2, Invariance, PTL DEF Spec

\* When the client that operates the access point has no request under way, "started"
\* means that both daemons serve and that the marker files tell the next start so, and
\* "stopped" that neither runs and no marker is left, whatever commands failed before (but
\* those OneOperator excludes), and whatever daemons and files an earlier process left.
THEOREM StatusIsTrue == ASSUME OneOperator PROVE Spec => []StatusTruth
  <1>1. Inv /\ StatusInv => StatusTruth
    <2> SUFFICES ASSUME Inv, StatusInv, Quiet PROVE Truth
      BY DEF StatusTruth, Truth
    <2>1. verb[Client] = "none"
      BY Types DEF Quiet
    <2>2. pc[Client] = "idle"
      BY <2>1, KnownLemma DEF InVerb
    <2> QED BY <2>2, KnownLemma DEF UntouchedSteps
  <1> QED BY <1>1, StatusInvariance, Invariance, PTL

\* The binding implements AccessPoint: every step of it is a step of that access point
\* or leaves what the client sees as it is; the deaths of the binder and the starts of a
\* new one are its deaths and births.
THEOREM KeepsPromise == ASSUME OneOperator PROVE Spec => PromiseKept
  <1>1. Init => Promise!Init
    BY InitStatus
  <1>2. Inv /\ Inv' /\ StatusInv /\ [Next]_vars => [Promise!Next]_(Promise!promiseVars)
    BY NextStatus DEF Both, PromiseStep
  <1> QED BY <1>1, <1>2, StatusInvariance, Invariance, PTL
          DEF Spec, PromiseKept, Promise!Spec
=============================================================================
