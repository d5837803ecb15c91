-------------------------- MODULE WifiApNamesProofs --------------------------
(***************************************************************************)
(* Theorems about the strings of the names, WifiApNames, for any clients,  *)
(* addresses and texts.                                                    *)
(***************************************************************************)
EXTENDS WifiApNames, TLAPS

Call == [at: {"store", "free"}, field: Field, new: Address, old: Address]

\* The steps of a start, in order.
LEMMA StartStepsLemma ==
  /\ DOMAIN StartSteps = 1..8
  /\ StartSteps[1] = "clean" /\ StartSteps[2] = "wlan_up" /\ StartSteps[3] = "hosts"
  /\ StartSteps[4] = "dnsmasq_conf" /\ StartSteps[5] = "dnsmasq"
  /\ StartSteps[6] = "hw_start" /\ StartSteps[7] = "hostapd" /\ StartSteps[8] = "create"
  BY DEF StartSteps

LEMMA StepSetLemma ==
  StepSet = {"clean", "wlan_up", "hosts", "dnsmasq_conf", "dnsmasq", "hw_start", "hostapd",
             "create"}
  <1>1. \A i \in 1..8 : i = 1 \/ i = 2 \/ i = 3 \/ i = 4 \/ i = 5 \/ i = 6 \/ i = 7 \/ i = 8
    OBVIOUS
  <1> QED BY <1>1, StartStepsLemma DEF StepSet

LEMMA AfterLemma ==
  /\ After("wlan_up") = "hosts" /\ After("hosts") = "dnsmasq_conf"
  /\ After("dnsmasq_conf") = "dnsmasq" /\ After("dnsmasq") = "hw_start"
  /\ After("hw_start") = "hostapd" /\ After("hostapd") = "create"
  <1>1. \A i \in 1..8 : i = 1 \/ i = 2 \/ i = 3 \/ i = 4 \/ i = 5 \/ i = 6 \/ i = 7 \/ i = 8
    OBVIOUS
  <1>2. ASSUME NEW i \in 1..8
        PROVE  (CHOOSE j \in DOMAIN StartSteps : StartSteps[j] = StartSteps[i]) = i
    BY <1>1, StartStepsLemma
  <1>3. ASSUME NEW k \in 1..7
        PROVE  After(StartSteps[k]) = StartSteps[k + 1]
    <2>1. k \in 1..8
      OBVIOUS
    <2>2. (CHOOSE j \in DOMAIN StartSteps : StartSteps[j] = StartSteps[k]) = k
      BY <1>2, <2>1
    <2> QED BY <2>2, Zenon DEF After
  <1>4. /\ After(StartSteps[2]) = StartSteps[3] /\ After(StartSteps[3]) = StartSteps[4]
        /\ After(StartSteps[4]) = StartSteps[5] /\ After(StartSteps[5]) = StartSteps[6]
        /\ After(StartSteps[6]) = StartSteps[7] /\ After(StartSteps[7]) = StartSteps[8]
    <2> HIDE DEF StartSteps, After
    <2> QED BY <1>3
  <1> QED BY <1>4, StartStepsLemma

\* A read finds a text, or garbage.
LEMMA TextAtLemma ==
  ASSUME NamesTypeOK, NEW a
  PROVE  /\ TextAt(a) \subseteq Name \cup {Garbage}
         /\ a \in Live => TextAt(a) = {str[a]}
  BY DEF NamesTypeOK, TextAt, Live

-----------------------------------------------------------------------------
(* Types *)

LEMMA NamesTypeInit == Init => NamesTypeOK
  <1> SUFFICES ASSUME Init PROVE NamesTypeOK
    OBVIOUS
  <1>1. str \in [Address -> Name \cup {None}]
    <2>1. PICK text \in [Field -> Name] :
             str = [a \in Address |-> IF \E f \in Field : names[f] = a
                                      THEN text[CHOOSE f \in Field : names[f] = a] ELSE None]
      BY DEF Init
    <2>2. ASSUME NEW a \in Address, \E f \in Field : names[f] = a
          PROVE  (CHOOSE f \in Field : names[f] = a) \in Field
      BY <2>2
    <2> QED BY <2>1, <2>2
  <1>2. used \in [StepSet -> Name \cup {None, Garbage}]
    BY DEF Init, NothingUsed
  <1> QED BY <1>1, <1>2 DEF Init, NamesTypeOK, NoStart

LEMMA NamesTypeSetter ==
  ASSUME NamesTypeOK, set_string_copy
  PROVE  NamesTypeOK'
  <1> USE NamesAssumption DEF NamesTypeOK, KeepVerb
  <1>1. PICK c \in Caller : \/ \E field \in Field, new \in Address : SetterRead(c, field, new)
                            \/ SetterStore(c)
                            \/ SetterFree(c)
    BY DEF set_string_copy
  <1>2. CASE \E field \in Field, new \in Address : SetterRead(c, field, new)
    BY <1>2 DEF SetterRead
  <1>3. call[c].at \in {"store", "free"} => call[c] \in Call
    BY DEF NoCall, Call
  <1>4. CASE SetterStore(c)
    <2>1. /\ call[c] \in Call
          /\ call' = [call EXCEPT ![c] = [call[c] EXCEPT !.at = "free"]]
      BY <1>3, <1>4 DEF SetterStore
    <2>2. [call[c] EXCEPT !.at = "free"] \in Call
      BY <2>1 DEF Call
    <2> QED BY <1>4, <2>1, <2>2 DEF SetterStore, Call
  <1>5. CASE SetterFree(c)
    BY <1>3, <1>5 DEF SetterFree, Call
  <1> QED BY <1>1, <1>2, <1>4, <1>5

LEMMA NamesTypeNext == NamesTypeOK /\ [Next]_vars => NamesTypeOK'
  <1> SUFFICES ASSUME NamesTypeOK, [Next]_vars PROVE NamesTypeOK'
    OBVIOUS
  <1>1. CASE set_string_copy
    BY <1>1, NamesTypeSetter
  <1> USE NamesAssumption, StepSetLemma DEF NamesTypeOK, KeepSetter
  <1>2. CASE StartBegin
    BY <1>2 DEF StartBegin, NoStart
  <1>3. CASE Load
    BY <1>3 DEF Load, Field, FieldOf
  <1>4. CASE Format
    BY <1>4, TextAtLemma, AfterLemma DEF Format, Loaded, NoStart
  <1>5. CASE Fail
    BY <1>5 DEF Fail, NoStart
  <1>6. CASE Clean
    BY <1>6 DEF Clean, NoStart, NothingUsed
  <1>7. CASE Create
    BY <1>7 DEF Create, NoStart, Loaded
  <1>8. CASE StopBegin
    BY <1>8 DEF StopBegin, NoStart
  <1>9. CASE StopCommand
    BY <1>9 DEF StopCommand, NoStart, NothingUsed
  <1>10. CASE NewStation
    BY <1>10 DEF NewStation
  <1>11. CASE UNCHANGED vars
    BY <1>11 DEF vars
  <1> QED BY <1>1, <1>2, <1>3, <1>4, <1>5, <1>6, <1>7, <1>8, <1>9, <1>10, <1>11 DEF Next

\* Every pointer is an address, every string a text, every read a text or garbage,
\* however many clients call the setters.
THEOREM NamesTypes == Spec => []NamesTypeOK
  BY NamesTypeInit, NamesTypeNext, PTL DEF Spec

-----------------------------------------------------------------------------
(* The heap *)

Busy(c) == call[c].at # "idle"

\* No two clients set one name at the same time.  A single client satisfies it.
OneCallPerName ==
  \A c, d \in Caller : Busy(c) /\ Busy(d) /\ call[c].field = call[d].field => c = d

Named == {names[f] : f \in Field}

\* The string that only a running call leads to: the new one, then the former one.
Holds(c) == IF call[c].at = "store" THEN call[c].new ELSE call[c].old

CallsSound ==
  \A c \in Caller : Busy(c) =>
    /\ Holds(c) \in Live /\ Holds(c) \notin Named
    /\ call[c].at = "store" => call[c].old = names[call[c].field]
    /\ \A d \in Caller : Busy(d) /\ Holds(d) = Holds(c) => d = c

\* Each string has one owner: a name, or a running call.
HeapInv ==
  /\ alive
  /\ \A f, g \in Field : names[f] = names[g] => f = g
  /\ \A f \in Field : names[f] \in Live
  /\ CallsSound
  /\ \A a \in Live : a \in Named \/ \E c \in Caller : Busy(c) /\ Holds(c) = a

LEMMA HeapInit == Init => HeapInv
  <1> SUFFICES ASSUME Init PROVE HeapInv
    OBVIOUS
  <1> USE NamesAssumption
  <1>1. PICK text \in [Field -> Name] :
           str = [a \in Address |-> IF \E f \in Field : names[f] = a
                                    THEN text[CHOOSE f \in Field : names[f] = a] ELSE None]
    BY DEF Init
  <1>2. ASSUME NEW a \in Address
        PROVE  a \in Live <=> a \in Named
    <2>1. (\E f \in Field : names[f] = a) => (CHOOSE f \in Field : names[f] = a) \in Field
      OBVIOUS
    <2> QED BY <1>1, <2>1 DEF Live, Named
  <1>3. \A f \in Field : names[f] \in Address /\ names[f] \in Live
    BY <1>2 DEF Named, Init
  <1>4. \A c \in Caller : ~Busy(c)
    BY DEF Init, Busy, NoCall
  <1>5. \A a \in Live : a \in Named
    BY <1>2 DEF Live
  <1> QED BY <1>3, <1>4, <1>5 DEF HeapInv, CallsSound, Init

\* A call of a setter keeps the owners apart.
LEMMA HeapSetter ==
  ASSUME NamesTypeOK, HeapInv, OneCallPerName, set_string_copy
  PROVE  HeapInv'
  <1> USE NamesAssumption
  <1>1. PICK c \in Caller : \/ \E field \in Field, new \in Address : SetterRead(c, field, new)
                            \/ SetterStore(c)
                            \/ SetterFree(c)
    BY DEF set_string_copy
  <1>2. \A d \in Caller : Busy(d) => /\ call[d] \in Call
                                     /\ call[d].at = "store" \/ call[d].at = "free"
    BY DEF NamesTypeOK, NoCall, Call, Busy
  <1>3. ASSUME NEW field \in Field, NEW new \in Address, SetterRead(c, field, new)
        PROVE  HeapInv'
    <2>1. /\ ~Busy(c) /\ new \notin Live /\ names' = names /\ alive'
          /\ call' = [call EXCEPT ![c] = [at |-> "store", field |-> field, new |-> new,
                                          old |-> names[field]]]
      BY <1>3 DEF SetterRead, Busy
    <2>2. Live' = Live \cup {new}
      BY <1>3 DEF SetterRead, Live, NamesTypeOK
    <2>3. Named' = Named /\ new \notin Named
      BY <2>1 DEF Named, HeapInv
    <2>4. /\ Busy(c)' /\ Holds(c)' = new
          /\ call'[c].at = "store" /\ call'[c].old = names[field] /\ call'[c].field = field
      BY <2>1 DEF Busy, Holds, NamesTypeOK
    <2>5. \A d \in Caller : d # c => call'[d] = call[d]
      BY <2>1 DEF NamesTypeOK
    <2>6. \A d \in Caller : d # c => /\ Busy(d)' = Busy(d) /\ Holds(d)' = Holds(d)
      BY <2>5 DEF Busy, Holds
    <2>7. CallsSound'
      BY <2>1, <2>2, <2>3, <2>4, <2>5, <2>6 DEF HeapInv, CallsSound
    <2>8. \A a \in Live' : a \in Named' \/ \E d \in Caller : Busy(d)' /\ Holds(d)' = a
      BY <2>1, <2>2, <2>3, <2>4, <2>6 DEF HeapInv
    <2> QED BY <2>1, <2>2, <2>7, <2>8 DEF HeapInv
  <1>4. CASE SetterStore(c)
    <2> DEFINE f == call[c].field
    <2>1. /\ Busy(c) /\ call[c] \in Call /\ f \in Field /\ call[c].at = "store"
          /\ Live' = Live /\ alive'
          /\ names' = [names EXCEPT ![f] = call[c].new]
          /\ call' = [call EXCEPT ![c] = [call[c] EXCEPT !.at = "free"]]
      BY <1>2, <1>4 DEF SetterStore, Busy, Live, Call
    <2>2. /\ Holds(c) = call[c].new /\ call[c].old = names[f]
          /\ call[c].new \in Live /\ call[c].new \notin Named
      BY <2>1 DEF Holds, HeapInv, CallsSound
    <2>3. Busy(c)' /\ Holds(c)' = names[f] /\ call'[c].at = "free"
      BY <2>1, <2>2 DEF Busy, Holds, NamesTypeOK, Call
    <2>4. \A d \in Caller : d # c => call'[d] = call[d]
      BY <2>1 DEF NamesTypeOK
    <2>5. \A d \in Caller : d # c => /\ Busy(d)' = Busy(d) /\ Holds(d)' = Holds(d)
      BY <2>4 DEF Busy, Holds
    <2>6. /\ names'[f] = call[c].new
          /\ \A g \in Field : g # f => names'[g] = names[g]
          /\ \A g \in Field : names[g] \in Named
      BY <2>1 DEF NamesTypeOK, Named
    <2>7. \A a : a \in Named' <=> a = call[c].new \/ (a \in Named /\ a # names[f])
      BY <2>1, <2>6 DEF HeapInv, Named
    <2>8. \A g, h \in Field : names'[g] = names'[h] => g = h
      BY <2>2, <2>6 DEF HeapInv
    <2>9. \A g \in Field : names'[g] \in Live
      BY <2>2, <2>6 DEF HeapInv
    <2>10. \A d \in Caller : d # c /\ Busy(d) => /\ Holds(d) \in Live /\ Holds(d) \notin Named
                                                 /\ Holds(d) # call[c].new
      BY <2>1, <2>2 DEF HeapInv, CallsSound
    <2>11. ASSUME NEW d \in Caller, Busy(d)'
           PROVE  /\ Holds(d)' \in Live' /\ Holds(d)' \notin Named'
                  /\ call'[d].at = "store" => call'[d].old = names'[call'[d].field]
                  /\ \A e \in Caller : Busy(e)' /\ Holds(e)' = Holds(d)' => e = d
      <3>1. CASE d = c
        <4>1. names[f] \in Live /\ names[f] \notin Named'
          BY <2>2, <2>6, <2>7, <2>1 DEF HeapInv
        <4>2. \A e \in Caller : Busy(e)' /\ Holds(e)' = names[f] => e = c
          BY <2>1, <2>5, <2>6, <2>10
        <4> QED BY <2>1, <2>3, <3>1, <4>1, <4>2
      <3>2. CASE d # c
        <4>1. Busy(d) /\ Holds(d)' = Holds(d) /\ call'[d] = call[d]
          BY <2>4, <2>5, <2>11, <3>2
        <4>2. Holds(d) \in Live /\ Holds(d) \notin Named'
          BY <2>7, <2>10, <3>2, <4>1
        <4>3. call[d].field # f /\ call[d].field \in Field
          BY <1>2, <2>1, <3>2, <4>1 DEF OneCallPerName, Call
        <4>4. call[d].at = "store" => call[d].old = names[call[d].field]
          BY <4>1 DEF HeapInv, CallsSound
        <4>5. \A e \in Caller : Busy(e) /\ Holds(e) = Holds(d) => e = d
          BY <4>1 DEF HeapInv, CallsSound
        <4>6. Holds(d) # names[f]
          BY <2>6, <2>1, <2>10, <3>2, <4>1
        <4> QED BY <2>1, <2>3, <2>5, <2>6, <4>1, <4>2, <4>3, <4>4, <4>5, <4>6
      <3> QED BY <3>1, <3>2
    <2>12. ASSUME NEW a \in Live
           PROVE  a \in Named' \/ \E d \in Caller : Busy(d)' /\ Holds(d)' = a
      <3>1. CASE a \in Named
        BY <2>3, <2>7, <3>1
      <3>2. CASE a \notin Named
        <4>1. PICK d \in Caller : Busy(d) /\ Holds(d) = a
          BY <3>2 DEF HeapInv
        <4> QED BY <2>2, <2>5, <2>7, <4>1
      <3> QED BY <3>1, <3>2
    <2>13. CallsSound'
      BY <2>11 DEF CallsSound
    <2> QED BY <2>1, <2>8, <2>9, <2>12, <2>13 DEF HeapInv
  <1>5. CASE SetterFree(c)
    <2>1. /\ Busy(c) /\ call[c].at = "free" /\ names' = names /\ Named' = Named
          /\ call' = [call EXCEPT ![c] = NoCall]
      BY <1>2, <1>5 DEF SetterFree, Busy, Named
    <2>2. Holds(c) = call[c].old /\ call[c].old \in Live /\ call[c].old \notin Named
      BY <2>1 DEF Holds, HeapInv, CallsSound
    <2>3. alive' /\ \A a : a \in Live' <=> a \in Live /\ a # call[c].old
      BY <1>5, <2>2 DEF SetterFree, Live, NamesTypeOK
    <2>4. ~Busy(c)'
      BY <2>1 DEF Busy, NoCall, NamesTypeOK
    <2>5. \A d \in Caller : d # c => call'[d] = call[d]
      BY <2>1 DEF NamesTypeOK
    <2>6. \A d \in Caller : d # c => /\ Busy(d)' = Busy(d) /\ Holds(d)' = Holds(d)
      BY <2>5 DEF Busy, Holds
    <2>7. \A d \in Caller : d # c /\ Busy(d) => Holds(d) # call[c].old
      BY <2>1, <2>2 DEF HeapInv, CallsSound
    <2>8. CallsSound'
      BY <2>1, <2>3, <2>4, <2>5, <2>6, <2>7 DEF HeapInv, CallsSound
    <2>9. \A f \in Field : names[f] # call[c].old
      BY <2>2 DEF Named
    <2>10. \A a \in Live' : a \in Named \/ \E d \in Caller : Busy(d)' /\ Holds(d)' = a
      BY <2>2, <2>3, <2>6 DEF HeapInv
    <2> QED BY <2>1, <2>3, <2>8, <2>9, <2>10 DEF HeapInv
  <1> QED BY <1>1, <1>3, <1>4, <1>5

LEMMA HeapNext ==
  NamesTypeOK /\ HeapInv /\ OneCallPerName /\ [Next]_vars => HeapInv'
  <1> SUFFICES ASSUME NamesTypeOK, HeapInv, OneCallPerName, [Next]_vars PROVE HeapInv'
    OBVIOUS
  <1>1. CASE set_string_copy
    BY <1>1, HeapSetter
  <1>2. CASE UNCHANGED <<str, names, call, alive>>
    BY <1>2 DEF HeapInv, CallsSound, Live, Named, Busy, Holds
  <1> QED BY <1>1, <1>2 DEF Next, vars, KeepSetter, StartBegin, Load, Format, Fail, Clean, Create,
                            StopBegin, StopCommand, NewStation

LEMMA HeapInvariance == Spec /\ []OneCallPerName => []HeapInv
  BY HeapInit, HeapNext, NamesTypes, PTL DEF Spec

\* As long as no two clients set one name at the same time wifiApData never leads to a
\* freed string, and set_string_copy frees no string twice.
THEOREM NamesStayLive == Spec /\ []OneCallPerName => [](alive /\ NameLive)
  <1>1. HeapInv => alive /\ NameLive
    BY DEF HeapInv, NameLive
  <1> QED BY <1>1, HeapInvariance, PTL

\* ... and it loses none: between calls the three names are all there is.
THEOREM FormerStringsFreed == Spec /\ []OneCallPerName => []PreviousFreed
  <1>1. HeapInv => PreviousFreed
    BY DEF HeapInv, PreviousFreed, Named, Busy, NoCall
  <1> QED BY <1>1, HeapInvariance, PTL
-----------------------------------------------------------------------------
(* The start *)

\* The steps that are given the name of the interface.
ForInterface ==
  {"clean", "wlan_up", "dnsmasq", "hw_start", "hostapd", "create", "stop_hostapd", "stop_hw"}

\* The network, daemons and files that the start has given an interface so far.
Passed ==
  IF start.pc \in {"hosts", "dnsmasq_conf", "dnsmasq"} THEN {"wlan_up"}
  ELSE IF start.pc = "hw_start" THEN {"wlan_up", "dnsmasq"}
  ELSE IF start.pc = "hostapd" THEN {"wlan_up", "dnsmasq", "hw_start"}
  ELSE IF \/ start.pc \in {"create", "stop_hostapd"}
          \/ start.pc = "idle" /\ status = "started"
       THEN {"wlan_up", "dnsmasq", "hw_start", "hostapd"}
  ELSE {}

\* What the start and the event thread know of the interface, unless its name was
\* replaced since the start began.
SameInterface ==
  /\ start.pc \in ForInterface /\ start.ptr # None => start.ptr = names["interfaceName"]
  /\ \A step \in Passed : used[step] = str[names["interfaceName"]]
  /\ status = "started" => context = names["interfaceName"] /\ station # "missed"

StartInv ==
  /\ start.pc = "idle" => start.ptr = None
  /\ start.pc \in {"stop_hostapd", "stop_hw"} => status = "started"
  /\ start.pc \in StepSet => status # "started"
  /\ context # None => status = "started"
  /\ start.pc = "stop_hw" => used["hostapd"] = None
  /\ ~changed => SameInterface

LEMMA StartInit == Init => StartInv
  BY StepSetLemma DEF Init, StartInv, SameInterface, Passed, NoStart, ForInterface

\* A setter does not move or rewrite the name the start knows.
LEMMA StartSetter ==
  ASSUME NamesTypeOK, HeapInv, StartInv, set_string_copy
  PROVE  StartInv'
  <1>1. UNCHANGED <<status, start, used, context, station>>
    BY DEF set_string_copy, SetterRead, SetterStore, SetterFree, KeepVerb
  <1>2. ASSUME ~changed'
        PROVE  /\ ~changed /\ names'["interfaceName"] = names["interfaceName"]
               /\ str'[names["interfaceName"]] = str[names["interfaceName"]]
    <2> DEFINE own == names["interfaceName"]
    <2>1. own \in Address /\ own \in Live /\ own \in Named
      BY DEF NamesTypeOK, HeapInv, Named, Field
    <2>2. PICK c \in Caller : \/ \E field \in Field, new \in Address : SetterRead(c, field, new)
                              \/ SetterStore(c)
                              \/ SetterFree(c)
      BY DEF set_string_copy
    <2>3. CASE \E field \in Field, new \in Address : SetterRead(c, field, new)
      BY <1>2, <2>1, <2>3 DEF SetterRead, NamesTypeOK
    <2>4. CASE SetterStore(c)
      <3>1. call[c].field # "interfaceName" /\ ~changed /\ str' = str
        BY <1>2, <2>4 DEF SetterStore, NamesTypeOK
      <3>2. names' = [names EXCEPT ![call[c].field] = call[c].new]
        BY <2>4 DEF SetterStore
      <3> QED BY <3>1, <3>2 DEF NamesTypeOK, Field
    <2>5. CASE SetterFree(c)
      <3>1. Busy(c) /\ call[c].at = "free"
        BY <2>5 DEF SetterFree, Busy
      <3>2. call[c].old # own
        BY <2>1, <3>1 DEF HeapInv, CallsSound, Holds
      <3> QED BY <1>2, <2>1, <2>5, <3>2 DEF SetterFree, NamesTypeOK
    <2> QED BY <2>2, <2>3, <2>4, <2>5
  <1>3. Passed' = Passed
    BY <1>1 DEF Passed
  <1>4. ~changed' => SameInterface'
    BY <1>1, <1>2, <1>3 DEF StartInv, SameInterface
  <1> QED BY <1>1, <1>4 DEF StartInv

LEMMA StartNext ==
  NamesTypeOK /\ HeapInv /\ StartInv /\ [Next]_vars => StartInv'
  <1> SUFFICES ASSUME NamesTypeOK, HeapInv, StartInv, [Next]_vars PROVE StartInv'
    OBVIOUS
  <1> DEFINE own == names["interfaceName"]
  <1>0. own \in Address /\ own \in Live /\ TextAt(own) = {str[own]}
    BY TextAtLemma DEF NamesTypeOK, HeapInv, Field
  <1>t. /\ start \in [pc: {"idle", "stop_hostapd", "stop_hw"} \cup StepSet,
                      ptr: Address \cup {None}]
        /\ None \notin Address
        /\ used \in [StepSet -> Name \cup {None, Garbage}]
    BY NamesAssumption DEF NamesTypeOK
  <1>1. CASE set_string_copy
    BY <1>1, StartSetter
  <1>2. CASE StartBegin
    BY <1>2, StepSetLemma DEF StartBegin, KeepSetter, NoStart, StartInv, SameInterface, Passed
  <1>3. CASE Load
    <2>1. /\ start'.pc = start.pc /\ start'.ptr = names[FieldOf(start.pc)] /\ start.pc # "idle"
          /\ UNCHANGED <<status, used, context, station, changed, str, names>>
      BY <1>3, <1>t DEF Load, KeepSetter
    <2>2. start.pc \in ForInterface => FieldOf(start.pc) = "interfaceName"
      BY DEF ForInterface, FieldOf
    <2>3. Passed' = Passed
      BY <2>1 DEF Passed
    <2> QED BY <2>1, <2>2, <2>3 DEF StartInv, SameInterface
  <1>4. CASE Format
    <2>1. PICK text \in TextAt(start.ptr) : used' = [used EXCEPT ![start.pc] = text]
      BY <1>4 DEF Format
    <2>2. /\ start.pc \in StepSet \ {"clean", "create"} /\ start.ptr # None
          /\ start'.pc = After(start.pc) /\ start'.ptr = None
          /\ UNCHANGED <<status, context, station, changed, str, names>>
      BY <1>4 DEF Format, Loaded, NoStart, KeepSetter
    <2>3. ~changed /\ start.pc \in ForInterface => text = str[own]
      BY <1>0, <2>1, <2>2 DEF StartInv, SameInterface
    <2>4. \A step \in StepSet : used'[step] = IF step = start.pc THEN text ELSE used[step]
      BY <1>t, <2>1
    <2>5. status # "started" /\ context = None
      BY <2>2 DEF StartInv
    <2>6. Passed' \subseteq Passed \cup ({start.pc} \cap ForInterface)
      BY <2>2, <2>5, AfterLemma, StepSetLemma DEF Passed, ForInterface
    <2>7. Passed \subseteq StepSet
      BY StepSetLemma DEF Passed
    <2>8. ASSUME ~changed PROVE SameInterface'
      <3>1. ASSUME NEW step \in Passed' PROVE used'[step] = str[own]
        <4>1. CASE step = start.pc
          <5>1. start.pc \in ForInterface
            BY <2>6, <4>1 DEF Passed, ForInterface
          <5> QED BY <2>2, <2>3, <2>4, <2>8, <4>1, <5>1
        <4>2. CASE step # start.pc
          <5>1. step \in Passed /\ step \in StepSet
            BY <2>6, <2>7, <4>2
          <5>2. used[step] = str[own]
            BY <2>8, <5>1 DEF StartInv, SameInterface
          <5> QED BY <2>4, <4>2, <5>1, <5>2
        <4> QED BY <4>1, <4>2
      <3> QED BY <2>2, <2>5, <3>1 DEF SameInterface
    <2>9. start'.pc \in StepSet
      BY <2>2, AfterLemma, StepSetLemma
    <2> QED BY <2>2, <2>5, <2>8, <2>9, StepSetLemma DEF StartInv
  <1>5. CASE Fail
    BY <1>5, StepSetLemma DEF Fail, Loaded, KeepSetter, NoStart, StartInv, SameInterface, Passed
  <1>6. CASE Clean
    BY <1>6, StepSetLemma DEF Clean, Loaded, KeepSetter, NoStart, StartInv, SameInterface, Passed
  <1>7. CASE Create
    <2>1. Passed' = Passed
      BY <1>7 DEF Create, Loaded, NoStart, Passed
    <2> QED BY <1>7, <2>1, StepSetLemma
            DEF Create, Loaded, KeepSetter, NoStart, StartInv, SameInterface, ForInterface
  <1>8. CASE StopBegin
    <2>1. Passed' = Passed
      BY <1>8 DEF StopBegin, NoStart, Passed
    <2> QED BY <1>8, <2>1, StepSetLemma DEF StopBegin, KeepSetter, NoStart, StartInv, SameInterface
  <1>9. CASE StopCommand
    BY <1>9, StepSetLemma DEF StopCommand, Loaded, KeepSetter, NoStart, NothingUsed, StartInv,
                              SameInterface, Passed
  <1>10. CASE NewStation
    <2>1. Passed' = Passed /\ status = "started"
      BY <1>10 DEF NewStation, KeepSetter, StartInv, Passed
    <2>2. start.pc # "stop_hw"
      BY <1>10 DEF NewStation, StartInv
    <2>3. ~changed => station' # "missed"
      <3> SUFFICES ASSUME ~changed PROVE station' # "missed"
        OBVIOUS
      <3>1. context = own
        BY <2>1 DEF StartInv, SameInterface
      <3>2. used["hostapd"] = str[own]
        BY <2>1, <2>2, <1>t DEF StartInv, SameInterface, Passed
      <3> QED BY <1>0, <1>10, <3>1, <3>2 DEF NewStation
    <2> QED BY <1>10, <2>1, <2>3 DEF NewStation, KeepSetter, StartInv, SameInterface
  <1>11. CASE UNCHANGED vars
    BY <1>11 DEF vars, StartInv, SameInterface, Passed
  <1> QED BY <1>1, <1>2, <1>3, <1>4, <1>5, <1>6, <1>7, <1>8, <1>9, <1>10, <1>11 DEF Next

\* Unless interfaceName was replaced since the start began, a started access point has
\* everything on one interface, and its event thread reports the stations of hostapd,
\* whatever is done to the other names.
THEOREM OneInterfaceUsed == Spec /\ []OneCallPerName => []OneInterface
  <1>1. NamesTypeOK /\ StartInv => OneInterface
    BY DEF NamesTypeOK, StartInv, SameInterface, Passed, OneInterface
  <1> QED BY <1>1, StartInit, StartNext, HeapInvariance, NamesTypes, PTL DEF Spec
=============================================================================
