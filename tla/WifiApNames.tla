---------------------------- MODULE WifiApNames ----------------------------
(***************************************************************************)
(* The strings of the host, domain and interface name: set_string_copy      *)
(* replaces one and frees the former, without a lock, while start and stop  *)
(* format them into their commands and files; the event thread keeps the    *)
(* pointer to the interface name it was created with.                       *)
(*                                                                          *)
(* One client starts and stops the access point; the commands of stop work  *)
(* (WifiAp has their failures, restart and two starts at once).  A call of  *)
(* a setter that is refused changes nothing and is left out.                *)
(***************************************************************************)
EXTENDS Naturals, WifiApProcess

CONSTANTS
  Address,    \* the addresses strdup may return, again once they are freed
  Name,       \* texts
  Present,    \* the texts that name an interface of the machine
  MaxCall     \* bound: accepted calls of the setters

Field == {"hostName", "domainName", "interfaceName"}

\* Bytes that are none of the names.
Garbage == "garbage"

ASSUME NamesAssumption ==
  /\ Present \subseteq Name /\ Garbage \notin Name
  /\ None \notin Address /\ None \notin Name
  /\ MaxCall \in Nat

VARIABLES
  str,         \* the string at each address, None when it is free
  names,       \* hostName, domainName and interfaceName of wifiApData
  call,        \* the call of set_string_copy each caller is in
  status,      \* wifiApData->status
  start,       \* the start or stop that runs
  used,        \* the text each step of the last start used, for a file, daemon or interface
  context,     \* the argument of the event thread, None when none runs
  station,     \* whether the last station of hostapd gave an event
  calls,       \* how many setter calls were accepted
  changed      \* history: interfaceName was replaced since the last start began

vars == <<str, names, call, status, start, used, context, station, calls, changed, alive>>

Live == {a \in Address : str[a] # None}

\* What a read through a pointer finds: freed memory holds anything.
TextAt(a) == IF a \in Live THEN {str[a]} ELSE Name \cup {Garbage}

-----------------------------------------------------------------------------
(* set_string_copy *)

NoCall == [at |-> "idle", field |-> None, new |-> None, old |-> None]

KeepVerb == UNCHANGED <<status, start, used, context, station>>

\* Mutant: the former string is freed before the new one is made.
SetterReadFree(c, field, new) ==
  /\ alive /\ call[c].at = "idle" /\ calls < MaxCall
  /\ new \notin Live
  /\ \E text \in Name : str' = [str EXCEPT ![new] = text, ![names[field]] = None]
  /\ call' = [call EXCEPT ![c] = [at |-> "store", field |-> field, new |-> new,
                                  old |-> names[field]]]
  /\ calls' = calls + 1
  /\ UNCHANGED <<names, changed, alive>> /\ KeepVerb

\* Mutant: the result of strdup is not tested.
SetterReadUntested(c, field, new) ==
  /\ alive /\ call[c].at = "idle" /\ calls < MaxCall
  /\ call' = [call EXCEPT ![c] = [at |-> "store", field |-> field, new |-> None,
                                  old |-> names[field]]]
  /\ calls' = calls + 1
  /\ UNCHANGED <<str, names, changed, alive>> /\ KeepVerb

\* new = strdup(src); old = *dest;
SetterRead(c, field, new) ==
  /\ alive /\ call[c].at = "idle" /\ calls < MaxCall
  /\ new \notin Live
  /\ \E text \in Name : str' = [str EXCEPT ![new] = text]
  /\ call' = [call EXCEPT ![c] = [at |-> "store", field |-> field, new |-> new,
                                  old |-> names[field]]]
  /\ calls' = calls + 1
  /\ UNCHANGED <<names, changed, alive>> /\ KeepVerb

\* *dest = new;
SetterStore(c) ==
  /\ alive /\ call[c].at = "store"
  /\ names' = [names EXCEPT ![call[c].field] = call[c].new]
  /\ call' = [call EXCEPT ![c].at = "free"]
  /\ changed' = (changed \/ call[c].field = "interfaceName")
  /\ UNCHANGED <<str, calls, alive>> /\ KeepVerb

\* Mutant: the former string is kept.
SetterKeep(c) ==
  /\ alive /\ call[c].at = "free"
  /\ call' = [call EXCEPT ![c] = NoCall]
  /\ UNCHANGED <<str, names, calls, changed, alive>> /\ KeepVerb

\* free(old); when the string was freed before, free may end the process.
SetterFree(c) ==
  /\ alive /\ call[c].at = "free"
  /\ str' = [str EXCEPT ![call[c].old] = None]
  /\ call' = [call EXCEPT ![c] = NoCall]
  /\ alive' \in (IF call[c].old \in Live THEN {TRUE} ELSE BOOLEAN)
  /\ UNCHANGED <<names, calls, changed>> /\ KeepVerb

set_string_copy ==
  \E c \in Caller :
    \/ \E field \in Field, new \in Address : SetterRead(c, field, new)
    \/ SetterStore(c)
    \/ SetterFree(c)

-----------------------------------------------------------------------------
(* startAp *)

\* The uses of the names, in their order; "create" gives the event thread its context.
\* (WIFI_NM_UNMANAGE and WIFI_FIREWALLD_ALLOW change nothing the binding reads.)
StartSteps ==
  <<"clean", "wlan_up", "hosts", "dnsmasq_conf", "dnsmasq", "hw_start", "hostapd", "create">>

StepSet == {StartSteps[i] : i \in DOMAIN StartSteps}

\* Mutant: dnsmasq is given the domain name for its interface.
FieldMixed(step) ==
  CASE step = "hosts" -> "hostName"
    [] step \in {"dnsmasq_conf", "dnsmasq"} -> "domainName"
    [] OTHER -> "interfaceName"

FieldOf(step) ==
  CASE step = "hosts" -> "hostName"
    [] step = "dnsmasq_conf" -> "domainName"
    [] OTHER -> "interfaceName"

NoStart == [pc |-> "idle", ptr |-> None]

NothingUsed == [step \in StepSet |-> None]

After(step) ==
  LET i == CHOOSE j \in DOMAIN StartSteps : StartSteps[j] = step IN StartSteps[i + 1]

KeepSetter == UNCHANGED <<str, names, call, calls, alive>>

\* The marker files that a start that failed left.
Leftover == \E step \in {"hosts", "dnsmasq_conf"} : used[step] # None

StartBegin ==
  /\ alive /\ start.pc = "idle" /\ status # "started"
  /\ start' = [NoStart EXCEPT !.pc = IF Leftover THEN "clean" ELSE "wlan_up"]
  /\ changed' = FALSE
  /\ UNCHANGED <<status, used, context, station>> /\ KeepSetter

\* The pointer is read and passed on ...
Load ==
  /\ alive /\ start.pc # "idle" /\ start.ptr = None
  /\ start' = [start EXCEPT !.ptr = names[FieldOf(start.pc)]]
  /\ UNCHANGED <<status, used, context, station, changed>> /\ KeepSetter

Loaded(steps) == alive /\ start.pc \in steps /\ start.ptr # None

\* ... and its text is formatted afterwards into a command or, after fopen, a file.
Format ==
  /\ Loaded(StepSet \ {"clean", "create"})
  /\ \E text \in TextAt(start.ptr) :
       /\ used' = [used EXCEPT ![start.pc] = text]
       /\ FieldOf(start.pc) = "interfaceName" => text \in Present
  /\ start' = [NoStart EXCEPT !.pc = After(start.pc)]
  /\ UNCHANGED <<status, context, station, changed>> /\ KeepSetter

\* A command fails, at the latest because it was given no interface.  hostapd and the
\* marker files of the steps before stay.
Fail ==
  /\ Loaded({"wlan_up", "dnsmasq", "hw_start", "hostapd"})
  /\ \/ Fails(start.pc)
     \/ \E text \in TextAt(start.ptr) : text \notin Present
  /\ status' = "failure" /\ start' = NoStart
  /\ UNCHANGED <<used, context, station, changed>> /\ KeepSetter

\* WIFIAP_HOSTAPD_STOP kills the daemons and removes their files, whatever the interface.
Clean ==
  /\ Loaded({"clean"})
  /\ used' = NothingUsed
  /\ start' = [NoStart EXCEPT !.pc = "wlan_up"]
  /\ UNCHANGED <<status, context, station, changed>> /\ KeepSetter

\* CreateThread ... startThread: the thread gets the pointer itself.
Create ==
  /\ Loaded({"create"})
  /\ context' = start.ptr /\ station' = "none"
  /\ status' = "started" /\ start' = NoStart
  /\ UNCHANGED <<used, changed>> /\ KeepSetter

-----------------------------------------------------------------------------
(* stop and the event thread *)

StopBegin ==
  /\ alive /\ start.pc = "idle" /\ status = "started"
  /\ start' = [NoStart EXCEPT !.pc = "stop_hostapd"]
  /\ UNCHANGED <<status, used, context, station, changed>> /\ KeepSetter

\* WIFIAP_HOSTAPD_STOP, WIFI_STOP
StopCommand ==
  /\ Loaded({"stop_hostapd", "stop_hw"})
  /\ \/ /\ start.pc = "stop_hostapd"
        /\ used' = NothingUsed
        /\ start' = [NoStart EXCEPT !.pc = "stop_hw"]
        /\ UNCHANGED <<status, context>>
     \/ /\ start.pc = "stop_hw"
        /\ context' = None
        /\ status' = "stopped" /\ start' = NoStart
        /\ UNCHANGED used
  /\ UNCHANGED <<station, changed>> /\ KeepSetter

\* A station joins hostapd: "iw event" writes a line with the interface, and the event
\* thread looks in it for the text at its context.
NewStation ==
  /\ alive /\ context # None /\ used["hostapd"] # None
  /\ \E text \in TextAt(context) :
       station' = IF text = used["hostapd"] THEN "reported" ELSE "missed"
  /\ UNCHANGED <<status, start, used, context, changed>> /\ KeepSetter

-----------------------------------------------------------------------------
\* createWifiApData has made the three strings.
Init ==
  /\ names \in [Field -> Address]
  /\ \A f, g \in Field : f # g => names[f] # names[g]
  /\ \E text \in [Field -> Name] :
       str = [a \in Address |-> IF \E f \in Field : names[f] = a
                                THEN text[CHOOSE f \in Field : names[f] = a] ELSE None]
  /\ call = [c \in Caller |-> NoCall]
  /\ status = "initializing" /\ start = NoStart /\ used = NothingUsed
  /\ context = None /\ station = "none"
  /\ calls = 0 /\ changed = FALSE /\ alive = TRUE

Next ==
  \/ set_string_copy
  \/ StartBegin \/ Load \/ Format \/ Fail \/ Clean \/ Create
  \/ StopBegin \/ StopCommand
  \/ NewStation

Spec == Init /\ [][Next]_vars

-----------------------------------------------------------------------------
(* Properties *)

NamesTypeOK ==
  /\ str \in [Address -> Name \cup {None}]
  /\ names \in [Field -> Address]
  /\ call \in [Caller -> {NoCall} \cup
                         [at: {"store", "free"}, field: Field, new: Address, old: Address]]
  /\ status \in {"initializing", "started", "stopped", "failure"}
  /\ start \in [pc: {"idle", "stop_hostapd", "stop_hw"} \cup StepSet,
                ptr: Address \cup {None}]
  /\ used \in [StepSet -> Name \cup {None, Garbage}]
  /\ context \in Address \cup {None}
  /\ station \in {"none", "reported", "missed"}
  /\ calls \in Nat /\ changed \in BOOLEAN /\ alive \in BOOLEAN

\* wifiApData never leads to a freed string, not even in the middle of a setter: the
\* start that reads a name next finds one whole value of it.
NameLive == alive => \A f \in Field : names[f] \in Live

\* set_string_copy: "set new copy string to the destination, freeing previous value":
\* when no call is under way the strings of wifiApData are the only ones left.
PreviousFreed ==
  alive /\ (\A c \in Caller : call[c] = NoCall) => Live = {names[f] : f \in Field}

\* A started access point whose interfaceName was not replaced since its start began has
\* network, dnsmasq and hostapd on one interface, the one stop will be given, and its
\* event thread reads that name: "If a client connects to the access point, you will see
\* it through an event".
OneInterface ==
  alive /\ status = "started" /\ start.pc = "idle" /\ ~changed =>
    /\ context = names["interfaceName"]
    /\ \A step \in {"wlan_up", "dnsmasq", "hw_start", "hostapd"} :
         used[step] = str[context]
    /\ station # "missed"
=============================================================================
