---------------------------- MODULE WifiApEvents ----------------------------
(***************************************************************************)
(* What the binding learns from "iw": the event thread                      *)
(* (WifiApThreadMainFunc, threadDestructorFunc, WIFI_UNSET_EVENT) that      *)
(* reads "iw event" for as long as the access point runs, and the verb      *)
(* getAPnumberClients, which reads "iw dev ... station dump".               *)
(*                                                                          *)
(* The verbs start, stop and restart are cut down to what they do to        *)
(* hostapd and to the event thread; WifiAp has their other steps, and the   *)
(* interleaving of several of them.                                         *)
(*                                                                          *)
(* A process that ended stays listed by pgrep until its parent, the binder, *)
(* waits for it, which only pclose does: "sh -c" execs its only command, so *)
(* that iw is the child of the binder.                                      *)
(***************************************************************************)
EXTENDS Integers, Sequences, FiniteSets, WifiApProcess

CONSTANTS
  Thread,        \* event threads; each calls popen once, so they name its pipe too
  Interface,     \* network interfaces of the machine
  Own,           \* interfaceName of the access point
  Matching,      \* the interfaces whose name contains Own: strstr
  MaxStation,    \* bound: stations at a time
  MaxLine,       \* bound: changes of stations "iw event" reports
  MaxLaunch      \* bound: iw processes after which getAPnumberClients is not called

ASSUME EventsAssumption ==
  /\ None \notin Thread
  /\ Own \in Matching /\ Matching \subseteq Interface
  /\ MaxStation \in Nat /\ MaxLine \in Nat /\ MaxLaunch \in Nat

VARIABLES
  status,            \* wifiApData->status
  up,                \* hostapd runs (and the marker files exist)
  op,                \* next step of the verb start, stop or restart, if one runs
  cur,               \* the thread wifiApThreadPtr leads to
  stations,          \* stations of Own
  lines,             \* how many changes were reported
  procs,             \* what "pgrep iw" lists
  launched,          \* how many iw were launched
  buf,               \* lines in the pipe of each "iw event", not read yet
  open,              \* the pipes of "iw event" that are open
  IwThreadPipePtr,   \* the pipe the static variable points to
  th,                \* the event threads
  fault,             \* misuses of a pipe met so far
  overlapped,        \* history: an event thread was started before another ended
  atPopen            \* history: stations when each thread launched "iw event"

verbVars == <<status, op, cur>>
netVars == <<stations, lines>>
pipeVars == <<buf, open, IwThreadPipePtr, fault>>
vars == <<verbVars, up, netVars, procs, launched, pipeVars, th, overlapped, atPopen, alive>>

-----------------------------------------------------------------------------
(* Processes named iw *)

Process == [what: {"event", "dump"}, of: Thread \cup {None}, runs: BOOLEAN, age: Nat]

\* popen of a command for thread t, or for a verb; the last one is the newest.
LaunchIw(what, t) ==
  /\ launched' = launched + 1
  /\ procs' = procs \cup {[what |-> what, of |-> t, runs |-> TRUE, age |-> launched']}

EventOf(t) == {p \in procs : p.what = "event" /\ p.of = t}
Running(t) == \E p \in EventOf(t) : p.runs

\* The processes of P end and become zombies.
AfterEnd(P) == (procs \ P) \cup {[p EXCEPT !.runs = FALSE] : p \in P}

Newest == {p \in procs : \A q \in procs : q.age <= p.age}
Oldest == {p \in procs : \A q \in procs : p.age <= q.age}

\* Each "iw event" writes new lines; one whose pipe is closed gets SIGPIPE.
Report(new) ==
  /\ buf' = [t \in Thread |-> IF Running(t) /\ t \in open THEN buf[t] \o new ELSE buf[t]]
  /\ procs' = IF new = <<>> THEN procs ELSE AfterEnd(UNION {EventOf(t) : t \in Thread \ open})

-----------------------------------------------------------------------------
(* Stations come and go; hostapd takes them away when it ends. *)

\* Bound: once two event threads are there at once nothing new is reported or asked;
\* they go on with what there is.
OneThread == ~overlapped

Line(interface, what) == [interface |-> interface, what |-> what]

StationChange(interface, what) ==
  /\ alive /\ lines < MaxLine /\ OneThread
  /\ lines' = lines + 1
  /\ \/ interface # Own /\ UNCHANGED stations
     \/ /\ interface = Own /\ what = "new" /\ up /\ stations < MaxStation
        /\ stations' = stations + 1
     \/ /\ interface = Own /\ what = "del" /\ stations > 0
        /\ stations' = stations - 1
  /\ Report(<<Line(interface, what)>>)
  /\ UNCHANGED <<verbVars, up, launched, open, IwThreadPipePtr, fault, th, overlapped,
                 atPopen, alive>>

\* hostapd is killed: its stations are removed.
HostapdKilled ==
  /\ stations' = 0
  /\ Report([i \in 1..stations |-> Line(Own, "del")])

-----------------------------------------------------------------------------
(* The verbs *)

FreshThread == {t \in Thread : th[t].pc = "none"}

KeepEvents ==
  UNCHANGED <<lines, launched, open, IwThreadPipePtr, fault, atPopen, alive>>

\* start when the access point is not started, restart when the marker files exist:
\* the hostapd that runs is killed, then another is launched.
Launch ==
  /\ alive /\ op = "idle"
  /\ status # "started" \/ up
  /\ FreshThread # {}
  /\ HostapdKilled
  /\ \/ up' = TRUE /\ op' = "create" /\ UNCHANGED status
     \/ /\ Fails("hostapd")
        /\ up' = FALSE /\ status' = "failure" /\ UNCHANGED op
  /\ UNCHANGED <<cur, th, overlapped>> /\ KeepEvents

NoThread == [pc |-> "none", cancel |-> FALSE, popped |-> FALSE, number |-> 0,
             file |-> None, left |-> 0]

InMain(t) == th[t].pc \in {"popen", "fgets", "read"}
InDestructor(t) == th[t].pc \in {"count", "kill", "pclose", "wait", "null"}

\* CreateThread ... startThread
StartThread ==
  /\ alive /\ op = "create"
  /\ LET t == CHOOSE u \in FreshThread : TRUE IN
       /\ th' = [th EXCEPT ![t].pc = "popen"]
       /\ cur' = t
  /\ overlapped' = (overlapped \/ \E u \in Thread : InMain(u) \/ InDestructor(u))
  /\ op' = "idle" /\ status' = "started"
  /\ UNCHANGED <<up, stations, procs, buf>> /\ KeepEvents

\* When the script fails, hostapd is gone all the same (WifiApPlatform has the case
\* where it is not), and the event thread stays.
StopHostapd ==
  /\ alive /\ op = "idle" /\ status = "started"
  /\ up' = FALSE /\ HostapdKilled
  /\ \/ op' = "cancel" /\ UNCHANGED status
     \/ Fails("clean") /\ status' = "failure" /\ UNCHANGED op
  /\ UNCHANGED <<cur, th, overlapped>> /\ KeepEvents

StopCancel ==
  /\ alive /\ op = "cancel"
  /\ th' = [th EXCEPT ![cur].cancel = TRUE]
  /\ op' = "join"
  /\ UNCHANGED <<status, cur, up, stations, procs, buf, overlapped>> /\ KeepEvents

\* Whether cancelThread finds a thread that exited is in WifiApThread; here it does.
StopJoin ==
  /\ alive /\ op = "join"
  /\ th[cur].pc = "exited"
  /\ op' = "idle" /\ status' = "stopped"
  /\ UNCHANGED <<cur, th, up, stations, procs, buf, overlapped>> /\ KeepEvents

VerbStep == Launch \/ StartThread \/ StopHostapd \/ StopCancel \/ StopJoin

-----------------------------------------------------------------------------
(* WifiApThreadMainFunc *)

At(t, pc) == alive /\ th[t].pc = pc

Jump(t, pc) == th' = [th EXCEPT ![t].pc = pc]

\* CleanupThread ends: nothing of the thread is looked at any more.
Exit(t) == th' = [th EXCEPT ![t] = [NoThread EXCEPT !.pc = "exited"]]

\* mainFunc returns: pthread_cleanup_pop(1) runs CleanupThread and its destructor.
Return(t) == th' = [th EXCEPT ![t].pc = "count", ![t].popped = TRUE]

KeepNet == UNCHANGED <<verbVars, up, netVars, overlapped>>

Popen(t) ==
  /\ At(t, "popen")
  /\ \/ /\ IwThreadPipePtr' = t /\ open' = open \cup {t}
        /\ LaunchIw("event", t)
        /\ atPopen' = [atPopen EXCEPT ![t] = stations]
        /\ Jump(t, "fgets")
     \/ /\ Fails("popen")
        /\ IwThreadPipePtr' = None
        /\ Return(t)
        /\ UNCHANGED <<open, procs, launched, atPopen>>
  /\ UNCHANGED <<buf, fault, alive>> /\ KeepNet

\* The static variable is read again for each line.
Fgets(t) ==
  /\ At(t, "fgets")
  /\ \/ IwThreadPipePtr = None /\ Die /\ UNCHANGED th
     \/ /\ IwThreadPipePtr # None
        /\ th' = [th EXCEPT ![t].pc = "read", ![t].file = IwThreadPipePtr]
        /\ UNCHANGED alive
  /\ UNCHANGED <<procs, launched, pipeVars, atPopen>> /\ KeepNet

\* Mutant: the name of the interface is not looked at.
CountAny(n, line) == IF line.what = "new" THEN n + 1 ELSE n - 1

\* numberOfClientsConnected after a line, which client-state reports if it matches.
Count(n, line) ==
  IF line.interface \notin Matching THEN n
  ELSE IF line.what = "new" THEN n + 1 ELSE n - 1

GetLine(t) ==
  LET f == th[t].file IN
  /\ At(t, "read")
  /\ f \in open /\ buf[f] # <<>>
  /\ th' = [th EXCEPT ![t].pc = "fgets", ![t].number = Count(@, Head(buf[f]))]
  /\ buf' = [buf EXCEPT ![f] = Tail(@)]
  /\ UNCHANGED <<procs, launched, open, IwThreadPipePtr, fault, atPopen, alive>> /\ KeepNet

\* fgets returns NULL, or reads a stream that pclose freed.
Eof(t) ==
  LET f == th[t].file IN
  /\ At(t, "read")
  /\ \/ /\ f \in open /\ buf[f] = <<>> /\ ~Running(f)
        /\ UNCHANGED fault
     \/ /\ f \notin open
        /\ fault' = fault \cup {"use_after_close"}
  /\ Return(t)
  /\ UNCHANGED <<procs, launched, buf, open, IwThreadPipePtr, atPopen, alive>> /\ KeepNet

\* Logging, popen and read() are cancellation points; read() is met before each line
\* that has to be waited for.
ActOnCancel(t) ==
  /\ alive /\ InMain(t) /\ th[t].cancel
  /\ Jump(t, "count")
  /\ UNCHANGED <<procs, launched, pipeVars, atPopen, alive>> /\ KeepNet

-----------------------------------------------------------------------------
(* threadDestructorFunc *)

\* Mutant: one turn of the loop less.
UnsetCountFewer(t) ==
  /\ At(t, "count")
  /\ th' = [th EXCEPT ![t].pc = IF procs = {} THEN "pclose" ELSE "kill",
                      ![t].left = Cardinality(procs) - 1]
  /\ UNCHANGED <<procs, launched, pipeVars, atPopen, alive>> /\ KeepNet

\* WIFI_UNSET_EVENT: count=$(pgrep -c iw)
UnsetCount(t) ==
  /\ At(t, "count")
  /\ th' = [th EXCEPT ![t].pc = IF procs = {} THEN "pclose" ELSE "kill",
                      ![t].left = Cardinality(procs)]
  /\ UNCHANGED <<procs, launched, pipeVars, atPopen, alive>> /\ KeepNet

\* Mutant: the oldest process is killed.
UnsetKillOldest(t) ==
  /\ At(t, "kill")
  /\ procs' = AfterEnd(Oldest)
  /\ th' = [th EXCEPT ![t].pc = IF th[t].left = 1 THEN "pclose" ELSE "kill",
                      ![t].left = @ - 1]
  /\ UNCHANGED <<launched, pipeVars, atPopen, alive>> /\ KeepNet

\* One turn of its loop: kill -9 $(pgrep -n iw).  The status it exits with is logged.
UnsetKill(t) ==
  /\ At(t, "kill")
  /\ procs' = AfterEnd(Newest)
  /\ th' = [th EXCEPT ![t].pc = IF th[t].left = 1 THEN "pclose" ELSE "kill",
                      ![t].left = @ - 1]
  /\ UNCHANGED <<launched, pipeVars, atPopen, alive>> /\ KeepNet

Pclose(t) ==
  LET f == IwThreadPipePtr IN
  /\ At(t, "pclose")
  /\ \/ f = None /\ Exit(t) /\ UNCHANGED <<buf, open, fault>>
     \/ /\ f \in open
        /\ open' = open \ {f} /\ buf' = [buf EXCEPT ![f] = <<>>]
        /\ th' = [th EXCEPT ![t].pc = "wait", ![t].file = f]
        /\ UNCHANGED fault
     \/ /\ f # None /\ f \notin open
        /\ fault' = fault \cup {"double_close"}
        /\ Jump(t, "null") /\ UNCHANGED <<buf, open>>
  /\ UNCHANGED <<procs, launched, IwThreadPipePtr, alive>>
  /\ atPopen' = [atPopen EXCEPT ![t] = 0] /\ KeepNet

\* pclose waits for the end of the command.
PcloseWait(t) ==
  /\ At(t, "wait")
  /\ ~Running(th[t].file)
  /\ procs' = procs \ EventOf(th[t].file)
  /\ Jump(t, "null")
  /\ UNCHANGED <<launched, pipeVars, atPopen, alive>> /\ KeepNet

\* Mutant: the static variable keeps the pipe that was closed.
PipePtrKept(t) ==
  /\ At(t, "null")
  /\ Exit(t)
  /\ UNCHANGED <<procs, launched, pipeVars, atPopen, alive>> /\ KeepNet

PipePtrNull(t) ==
  /\ At(t, "null")
  /\ IwThreadPipePtr' = None
  /\ Exit(t)
  /\ UNCHANGED <<procs, launched, buf, open, fault, atPopen, alive>> /\ KeepNet

\* A cancellation that comes once mainFunc has returned ends the thread in system().
CancelledInDestructor(t) ==
  /\ alive /\ th[t].pc \in {"count", "kill"} /\ th[t].popped /\ th[t].cancel
  /\ Exit(t)
  /\ UNCHANGED <<procs, launched, pipeVars, atPopen, alive>> /\ KeepNet

\* "iw event" ends on an error of its own.
IwDies(t) ==
  /\ alive /\ Fails("iw_event") /\ Running(t) /\ OneThread
  /\ procs' = AfterEnd(EventOf(t))
  /\ UNCHANGED <<launched, pipeVars, th, atPopen, alive>> /\ KeepNet

MainStep(t) == Popen(t) \/ Fgets(t) \/ GetLine(t) \/ Eof(t) \/ ActOnCancel(t)

DestructorStep(t) ==
  \/ UnsetCount(t) \/ UnsetKill(t) \/ Pclose(t) \/ PcloseWait(t) \/ PipePtrNull(t)
  \/ CancelledInDestructor(t)

-----------------------------------------------------------------------------
(* getAPnumberClients launches "iw dev ... station dump" and reads it to its end, but *)
(* never calls pclose: each call leaves a zombie.                                    *)

QueryPopen ==
  /\ alive /\ launched < MaxLaunch /\ OneThread
  /\ LaunchIw("dump", None)
  /\ UNCHANGED <<verbVars, up, netVars, pipeVars, th, overlapped, atPopen, alive>>

DumpEnds ==
  /\ alive
  /\ \E p \in procs : p.what = "dump" /\ p.runs /\ procs' = AfterEnd({p})
  /\ UNCHANGED <<verbVars, up, netVars, pipeVars, th, launched, overlapped, atPopen, alive>>

-----------------------------------------------------------------------------
Init ==
  /\ alive = TRUE /\ status = "initializing" /\ up = FALSE /\ op = "idle" /\ cur = None
  /\ stations = 0 /\ lines = 0
  /\ procs = {} /\ buf = [t \in Thread |-> <<>>] /\ open = {}
  /\ IwThreadPipePtr = None /\ th = [t \in Thread |-> NoThread]
  /\ launched = 0
  /\ fault = {} /\ overlapped = FALSE
  /\ atPopen = [t \in Thread |-> 0]

Next ==
  \/ VerbStep
  \/ \E i \in Interface, what \in {"new", "del"} : StationChange(i, what)
  \/ \E t \in Thread : MainStep(t) \/ DestructorStep(t) \/ IwDies(t)
  \/ QueryPopen
  \/ DumpEnds

Spec == Init /\ [][Next]_vars

\* The threads of the process are scheduled, and a station dump ends.  Nothing makes
\* a client call, a station move, or "iw event" end.
Fairness ==
  /\ WF_vars(StartThread \/ StopCancel \/ StopJoin)
  /\ \A t \in Thread : WF_vars(ActOnCancel(t)) /\ WF_vars(DestructorStep(t))
  /\ WF_vars(DumpEnds)

FairSpec == Spec /\ Fairness

-----------------------------------------------------------------------------
(* Properties *)

LineSet == [interface: Interface, what: {"new", "del"}]

EventThread ==
  [pc: {"none", "popen", "fgets", "read", "count", "kill", "pclose", "wait", "null",
        "exited"},
   cancel: BOOLEAN, popped: BOOLEAN, number: Int, file: Thread \cup {None}, left: Nat]

EventsTypeOK ==
  /\ status \in {"initializing", "started", "stopped", "failure"}
  /\ up \in BOOLEAN /\ overlapped \in BOOLEAN /\ alive \in BOOLEAN
  /\ op \in {"idle", "create", "cancel", "join"}
  /\ cur \in Thread \cup {None}
  /\ stations \in Nat /\ lines \in Nat
  /\ procs \subseteq Process /\ launched \in Nat
  /\ buf \in [Thread -> Seq(LineSet)]
  /\ open \subseteq Thread
  /\ IwThreadPipePtr \in Thread \cup {None}
  /\ th \in [Thread -> EventThread]
  /\ fault \subseteq {"use_after_close", "double_close"}
  /\ atPopen \in [Thread -> Nat]

\* Stations that lines about Own add to the counter.
Net(s) ==
  LET OwnLines(what) == {i \in DOMAIN s : s[i] = Line(Own, what)}
  IN  Cardinality(OwnLines("new")) - Cardinality(OwnLines("del"))

\* While one event thread reads its "iw event", the number it reports and the lines it
\* has still to read account for every station that joined or left since the launch of
\* iw, whatever other interfaces do.  (Not for those that came before: atPopen.)
CounterFollowsStations ==
  \A t \in Thread :
    ~overlapped /\ InMain(t) /\ Running(t)
      => th[t].number + Net(buf[t]) = stations - atPopen[t]

\* Unless two event threads were there at once, the shared IwThreadPipePtr is never
\* NULL in fgets, no pipe is read once closed, and none is closed twice.
PipeSafe ==
  ~overlapped => /\ fault = {}
                 /\ \A t \in Thread : th[t].pc = "fgets" => IwThreadPipePtr = t

\* An "iw event" that runs is the last iw that was launched.
EventIsNewest ==
  \A p, q \in procs : p.what = "event" /\ p.runs /\ q.what = "dump" => q.age < p.age

\* What pclose is about to wait for was killed by WIFI_UNSET_EVENT, unless a station dump
\* was launched after it: although the script knows processes by name and age only, and
\* "iw event" threads that were cancelled too early leave theirs behind.
PcloseReturns ==
  ~overlapped /\ EventIsNewest =>
    \A t \in Thread : th[t].pc = "wait" => ~Running(th[t].file)

\* As long as getAPnumberClients is asked only when no "iw event" runs, whatever zombies
\* its earlier calls left, WIFI_UNSET_EVENT kills what pclose waits for: the thread and
\* stop come to their end.
StopEnds == [](~overlapped /\ EventIsNewest) => (op = "cancel" ~> op = "idle")

-----------------------------------------------------------------------------
(* What a comment of the code says of it *)

\* threadDestructorFunc: "Kill the script launched by popen() in Client thread".
ScriptKilled ==
  [][\A t \in Thread :
       th[t].pc = "kill" /\ th'[t].pc = "pclose" /\ IwThreadPipePtr # None
         => \A p \in procs' : p.what = "event" /\ p.of = IwThreadPipePtr => ~p.runs]_vars
=============================================================================
