----------------------------- MODULE WifiApProofs -----------------------------
(***************************************************************************)
(* Theorems about the binding, WifiAp, for any number of callers, thread   *)
(* objects and pthreads, any failures and any politeness of the clients.   *)
(***************************************************************************)
EXTENDS WifiAp, WifiApThreadProofs

\* The invariant: the types, and what the thread library keeps (LibInv), of which
\* ListSound is a part.
Inv == TypeOK /\ LibInv

VerbTypeOK ==
  /\ status \in Status
  /\ cfg \in Cfg
  /\ wifiApThreadPtr \in Obj \cup {None}
  /\ verb \in [Caller -> Verb]
  /\ pc \in [Caller -> PC]
  /\ boots \in 0..MaxBoot

LEMMA InvParts == Inv <=> LibInv /\ PlatformTypeOK /\ VerbTypeOK
  BY DEF Inv, TypeOK, VerbTypeOK, LibInv, LibTypeOK

-----------------------------------------------------------------------------
(* Helpers of the verbs *)

LEMMA JumpLemma ==
  ASSUME VerbTypeOK, NEW c \in Caller, NEW p \in PC, Jump(c, p)
  PROVE  pc' \in [Caller -> PC]
  BY DEF VerbTypeOK, Jump

LEMMA EndVerbLemma ==
  ASSUME VerbTypeOK, NEW c \in Caller, EndVerb(c)
  PROVE  pc' \in [Caller -> PC] /\ verb' \in [Caller -> Verb]
  BY DEF VerbTypeOK, EndVerb, Jump, PC, Verb

\* A step that leaves the library alone.
LEMMA QuietStep ==
  ASSUME Inv, UNCHANGED libVars, alive' \in BOOLEAN,
         PlatformTypeOK', VerbTypeOK'
  PROVE  Inv'
  BY InvParts, LibUnchanged DEF Inv, TypeOK, VerbTypeOK, LibInv, LibTypeOK

LEMMA SysUnchanged ==
  ASSUME PlatformTypeOK, UNCHANGED sysVars PROVE PlatformTypeOK'
  BY DEF PlatformTypeOK, sysVars

\* A step that moves pc and runs a command, or none.
LEMMA CommandStep ==
  ASSUME Inv, NEW c \in Caller, NEW p \in PC, Jump(c, p), KeepVerb,
         alive' \in BOOLEAN, PlatformTypeOK'
  PROVE  Inv'
  <1>1. UNCHANGED <<libVars, status, cfg, wifiApThreadPtr, verb, boots>>
    BY DEF KeepVerb
  <1>2. VerbTypeOK'
    BY <1>1, InvParts, JumpLemma DEF VerbTypeOK
  <1> QED BY <1>1, <1>2, QuietStep

LEMMA CallWithThreadIdStep ==
  ASSUME Inv, NEW c \in Caller, NEW p \in PC, NEW fn \in Function,
         CallWithThreadId(c, fn), Jump(c, p), UNCHANGED verb
  PROVE  Inv'
  <1>1. /\ UNCHANGED <<obj, threadList, Mutex, pth>>
        /\ UNCHANGED <<sysVars, status, cfg, wifiApThreadPtr, boots, alive>>
        /\ NoteUse(wifiApThreadPtr)
    BY DEF CallWithThreadId
  <1>2. LibTypeOK /\ LibInv /\ PlatformTypeOK /\ VerbTypeOK
    BY InvParts DEF LibInv
  <1>3. PICK id \in threadIdOf(wifiApThreadPtr) : Call(c, fn, id)
    BY DEF CallWithThreadId
  <1>4. id \in {0, 1}
    BY DEF threadIdOf, FieldValues, TheId
  <1>5. /\ frame' \in [Caller -> Frame]
        /\ \A d \in Caller : frame'[d] # frame[d]
                               => frame'[d].at \in {"entry", "done"} /\ frame'[d].ptr = None
    BY <1>2, <1>3, <1>4, CallLemma
  <1>6. /\ fault' \subseteq {"use_after_free", "double_free"} /\ fault \subseteq fault'
        /\ alive' \in BOOLEAN
    BY <1>1, <1>2, NoteUseLemma DEF LibTypeOK
  <1>7. LibInv'
    BY <1>1, <1>2, <1>5, <1>6, FramesInv
  <1>8. VerbTypeOK'
    BY <1>1, <1>2, JumpLemma DEF VerbTypeOK
  <1>9. PlatformTypeOK'
    BY <1>1, <1>2, SysUnchanged
  <1> QED BY <1>7, <1>8, <1>9 DEF Inv, TypeOK, VerbTypeOK, LibInv, LibTypeOK

\* A step that ends a library call.
LEMMA DropFrameStep ==
  ASSUME Inv, NEW c \in Caller, frame' = [frame EXCEPT ![c] = NoFrame],
         UNCHANGED <<obj, threadList, Mutex, pth, fault>>, UNCHANGED sysVars,
         alive' \in BOOLEAN, VerbTypeOK'
  PROVE  Inv'
  <1>1. LibTypeOK /\ LibInv /\ PlatformTypeOK
    BY InvParts DEF LibInv
  <1>2. LibInv'
    BY <1>1, NoFrameLemma, FramesInv DEF LibTypeOK
  <1>3. PlatformTypeOK'
    BY <1>1, SysUnchanged
  <1> QED BY <1>2, <1>3 DEF Inv, TypeOK, VerbTypeOK, LibInv, LibTypeOK

-----------------------------------------------------------------------------
(* Commands and files *)

LEMMA HostapdStopTypes ==
  ASSUME PlatformTypeOK, NEW result,
         HOSTAPD_STOP_begin(result) \/ HOSTAPD_STOP_end(result)
  PROVE  PlatformTypeOK'
  BY DEF PlatformTypeOK, HOSTAPD_STOP_begin, HOSTAPD_STOP_end, KillHostapd

LEMMA DaemonTypes ==
  ASSUME PlatformTypeOK, NEW result,
         DNSMASQ_RESTART(result) \/ HOSTAPD_START(result)
  PROVE  PlatformTypeOK'
  BY DEF PlatformTypeOK, DNSMASQ_RESTART, HOSTAPD_START

LEMMA HardwareTypes ==
  ASSUME PlatformTypeOK, NEW result,
         WLAN_UP(result) \/ HW_START(result) \/ HW_STOP(result)
  PROVE  PlatformTypeOK'
  BY SysUnchanged DEF WLAN_UP, HW_START, HW_STOP

LEMMA FileTypes ==
  ASSUME PlatformTypeOK, VerbTypeOK, alive \in BOOLEAN,
         createHostsConfigFile \/ createDnsmasqConfigFile(cfg)
  PROVE  PlatformTypeOK' /\ alive' \in BOOLEAN
  BY DEF PlatformTypeOK, VerbTypeOK, createHostsConfigFile, createDnsmasqConfigFile,
         Die, sysVars

LEMMA HostapdConfTypes ==
  ASSUME PlatformTypeOK, VerbTypeOK,
         RemoveHostapdConf \/ \E result \in {"ok", "error"} : GenerateHostApConfFile(cfg, result)
  PROVE  PlatformTypeOK'
  BY DEF PlatformTypeOK, VerbTypeOK, GenerateHostApConfFile, RemoveHostapdConf

-----------------------------------------------------------------------------
(* The steps *)

LEMMA InitInv == Init => Inv
  <1> SUFFICES ASSUME Init PROVE Inv
    OBVIOUS
  <1>1. LibInv
    BY InitLib DEF Init
  <1>2. PlatformTypeOK
    BY DEF Init, PlatformInit, PlatformTypeOK
  <1>3. verb \in [Caller -> Verb] /\ pc \in [Caller -> PC]
    BY DEF Init, Verb, PC, BeforeCreate
  <1> QED BY <1>1, <1>2, <1>3, VerbAssumption, InvParts DEF Init, VerbTypeOK, Status

LEMMA RequestInv ==
  ASSUME Inv, NEW c \in Caller, Request(c) PROVE Inv'
  <1> USE DEF PC, BeforeCreate, Verb
  <1>1. PlatformTypeOK /\ VerbTypeOK /\ LibTypeOK /\ alive \in BOOLEAN
    BY InvParts DEF LibInv, LibTypeOK
  <1>2. UNCHANGED libVars /\ UNCHANGED sysVars /\ UNCHANGED alive
    BY DEF Request, AskStart, AskStop, AskRestart, SetParameters, Ask
  <1>3. VerbTypeOK'
    <2>1. CASE AskStart(c) \/ AskStop(c) \/ AskRestart(c)
      BY <1>1, <2>1, JumpLemma
      DEF VerbTypeOK, AskStart, AskStop, AskRestart, Ask
    <2>2. CASE SetParameters(c)
      BY <1>1, <2>2 DEF VerbTypeOK, SetParameters
    <2> QED BY <2>1, <2>2 DEF Request
  <1> QED BY <1>1, <1>2, <1>3, SysUnchanged, QuietStep

LEMMA HostapdStopInv ==
  ASSUME Inv, NEW c \in Caller, NEW p \in PC, NEW q \in PC, NEW next \in PC,
         HostapdStop(c, p, q, next)
  PROVE  Inv'
  <1>1. PlatformTypeOK /\ LibTypeOK
    BY InvParts DEF LibInv
  <1>2. PICK result : HOSTAPD_STOP_begin(result) \/ HOSTAPD_STOP_end(result)
    BY DEF HostapdStop
  <1>3. PlatformTypeOK' /\ alive' \in BOOLEAN
    BY <1>1, <1>2, HostapdStopTypes DEF HostapdStop, LibTypeOK
  <1>4. Jump(c, q) \/ Jump(c, next) \/ Jump(c, "fail")
    BY DEF HostapdStop
  <1> QED BY <1>3, <1>4, CommandStep DEF HostapdStop, PC, BeforeCreate

LEMMA StartStepInv ==
  ASSUME Inv, NEW c \in Caller, StartStep(c) PROVE Inv'
  <1> USE DEF PC, BeforeCreate
  <1>1. PlatformTypeOK /\ VerbTypeOK /\ LibTypeOK /\ alive \in BOOLEAN
    BY InvParts DEF LibInv, LibTypeOK
  <1>2. CASE StartTest(c)
    <2>1. UNCHANGED libVars /\ UNCHANGED sysVars /\ alive' \in BOOLEAN
      BY <1>1, <1>2 DEF StartTest
    <2>2. VerbTypeOK'
      BY <1>1, <1>2, EndVerbLemma, JumpLemma DEF StartTest, VerbTypeOK
    <2> QED BY <1>1, <2>1, <2>2, SysUnchanged, QuietStep
  <1>3. CASE RestartTest(c)
    <2>1. UNCHANGED libVars /\ UNCHANGED sysVars /\ alive' \in BOOLEAN
      BY <1>1, <1>3 DEF RestartTest
    <2>2. VerbTypeOK'
      BY <1>1, <1>3, EndVerbLemma, JumpLemma DEF RestartTest, VerbTypeOK
    <2> QED BY <1>1, <2>1, <2>2, SysUnchanged, QuietStep
  <1>4. CASE RestartHostapdStop(c) \/ StartClean(c)
    BY <1>4, HostapdStopInv DEF RestartHostapdStop, StartClean
  <1>5. CASE StartMarker(c) \/ StartChecks(c)
    <2>1. KeepVerb /\ UNCHANGED sysVars /\ alive' \in BOOLEAN
      BY <1>1, <1>5 DEF StartMarker, StartChecks
    <2>2. PICK p \in {"clean", "wlan_up", "hostapd_conf", "fail"} : Jump(c, p)
      BY <1>5 DEF StartMarker, StartChecks
    <2> QED BY <1>1, <2>1, <2>2, SysUnchanged, CommandStep
  <1>6. CASE DnsmasqWlanUp(c)
    <2>1. KeepVerb /\ alive' \in BOOLEAN /\ PlatformTypeOK'
      BY <1>1, <1>6, SysUnchanged, HardwareTypes DEF DnsmasqWlanUp
    <2>2. PICK p \in {"hosts", "dnsmasq_fail"} : Jump(c, p)
      BY <1>6 DEF DnsmasqWlanUp
    <2> QED BY <2>1, <2>2, CommandStep
  <1>7. CASE DnsmasqHosts(c)
    BY <1>1, <1>7, FileTypes, CommandStep DEF DnsmasqHosts
  <1>8. CASE DnsmasqConf(c)
    BY <1>1, <1>8, FileTypes, CommandStep DEF DnsmasqConf
  <1>9. CASE DnsmasqRestart(c)
    <2>1. KeepVerb /\ alive' \in BOOLEAN /\ PlatformTypeOK'
      BY <1>1, <1>9, DaemonTypes DEF DnsmasqRestart
    <2>2. PICK p \in {"checks", "dnsmasq_fail"} : Jump(c, p)
      BY <1>9 DEF DnsmasqRestart
    <2> QED BY <2>1, <2>2, CommandStep
  <1>10. CASE DnsmasqFail(c)
    <2>1. UNCHANGED libVars /\ UNCHANGED sysVars /\ alive' \in BOOLEAN
      BY <1>1, <1>10 DEF DnsmasqFail
    <2>2. VerbTypeOK'
      BY <1>1, <1>10, JumpLemma DEF DnsmasqFail, VerbTypeOK, Status
    <2> QED BY <1>1, <2>1, <2>2, SysUnchanged, QuietStep
  <1>11. CASE StartHostapdConf(c)
    <2>1. KeepVerb /\ alive' \in BOOLEAN /\ PlatformTypeOK'
      BY <1>1, <1>11, HostapdConfTypes DEF StartHostapdConf
    <2>2. PICK p \in {"hw_start", "fail"} : Jump(c, p)
      BY <1>11 DEF StartHostapdConf
    <2> QED BY <2>1, <2>2, CommandStep
  <1>12. CASE StartHw(c)
    <2>1. KeepVerb /\ alive' \in BOOLEAN /\ PlatformTypeOK'
      BY <1>1, <1>12, HardwareTypes DEF StartHw
    <2>2. PICK p \in {"hostapd", "fail"} : Jump(c, p)
      BY <1>12 DEF StartHw
    <2> QED BY <2>1, <2>2, CommandStep
  <1>13. CASE StartHostapd(c)
    <2>1. KeepVerb /\ alive' \in BOOLEAN /\ PlatformTypeOK'
      BY <1>1, <1>13, DaemonTypes DEF StartHostapd
    <2>2. PICK p \in {"create", "remove_conf"} : Jump(c, p)
      BY <1>13 DEF StartHostapd
    <2> QED BY <2>1, <2>2, CommandStep
  <1>14. CASE StartRemoveConf(c)
    BY <1>1, <1>14, HostapdConfTypes, CommandStep DEF StartRemoveConf
  <1>15. CASE StartCreateThread(c)
    <2>1. Call(c, "CreateThread", 0) /\ Jump(c, "store")
          /\ UNCHANGED <<obj, threadList, Mutex, pth, fault>>
          /\ UNCHANGED <<sysVars, status, cfg, wifiApThreadPtr, verb, boots, alive>>
      BY <1>15 DEF StartCreateThread
    <2>2. /\ frame' \in [Caller -> Frame]
          /\ \A d \in Caller : frame'[d] # frame[d]
               => frame'[d].at \in {"entry", "done"} /\ frame'[d].ptr = None
      BY <1>1, <2>1, CallLemma DEF Function
    <2>3. LibInv'
      BY <1>1, <2>1, <2>2, FramesInv DEF Inv, LibTypeOK
    <2>4. VerbTypeOK'
      BY <1>1, <2>1, JumpLemma DEF VerbTypeOK
    <2>5. PlatformTypeOK'
      BY <1>1, <2>1, SysUnchanged
    <2> QED BY <2>3, <2>4, <2>5 DEF Inv, TypeOK, VerbTypeOK, LibInv, LibTypeOK
  <1>16. CASE StoreThreadPtr(c)
    <2>1. frame[c].ptr \in Obj \cup {None}
      BY <1>1 DEF LibTypeOK, Frame
    <2>2. VerbTypeOK'
      BY <1>1, <1>16, <2>1, JumpLemma DEF StoreThreadPtr, VerbTypeOK
    <2> QED BY <1>1, <1>16, <2>2, DropFrameStep DEF StoreThreadPtr
  <1>17. CASE StartSetJoinable(c) \/ StartAddDestructor(c) \/ StartLaunch(c)
    <2>1. PICK fn \in Function, p \in {"destructor", "launch", "set_started"} :
             CallWithThreadId(c, fn) /\ Jump(c, p) /\ UNCHANGED verb
      BY <1>17 DEF StartSetJoinable, StartAddDestructor, StartLaunch, Function
    <2> QED BY <2>1, CallWithThreadIdStep
  <1>18. CASE SetStarted(c)
    <2>1. VerbTypeOK'
      BY <1>1, <1>18, EndVerbLemma DEF SetStarted, VerbTypeOK, Status
    <2> QED BY <1>1, <1>18, <2>1, DropFrameStep DEF SetStarted
  <1>19. CASE Fail(c)
    <2>1. VerbTypeOK'
      BY <1>1, <1>19, EndVerbLemma DEF Fail, VerbTypeOK, Status
    <2> QED BY <1>1, <1>19, <2>1, DropFrameStep DEF Fail
  <1> QED BY <1>2, <1>3, <1>4, <1>5, <1>6, <1>7, <1>8, <1>9, <1>10, <1>11, <1>12,
             <1>13, <1>14, <1>15, <1>16, <1>17, <1>18, <1>19 DEF StartStep

LEMMA StopStepInv ==
  ASSUME Inv, NEW c \in Caller, StopStep(c) PROVE Inv'
  <1> USE DEF PC, BeforeCreate
  <1>1. PlatformTypeOK /\ VerbTypeOK /\ LibTypeOK /\ alive \in BOOLEAN
    BY InvParts DEF LibInv, LibTypeOK
  <1>2. CASE StopHostapd(c)
    BY <1>2, HostapdStopInv DEF StopHostapd
  <1>3. CASE StopHw(c)
    <2>1. KeepVerb /\ alive' \in BOOLEAN /\ PlatformTypeOK'
      BY <1>1, <1>3, HardwareTypes DEF StopHw
    <2>2. PICK p \in {"stop_thread", "fail"} : Jump(c, p)
      BY <1>3 DEF StopHw
    <2> QED BY <2>1, <2>2, CommandStep
  <1>4. CASE StopNoThread(c)
    BY <1>1, <1>4, SysUnchanged, CommandStep DEF StopNoThread
  <1>5. CASE StopCancel(c)
    BY <1>5, CallWithThreadIdStep DEF StopCancel, Function
  <1>6. CASE StopJoin(c)
    <2>1. CASE CallWithThreadId(c, "JoinThread") /\ Jump(c, "joining") /\ UNCHANGED verb
      BY <2>1, CallWithThreadIdStep DEF Function
    <2>2. CASE Jump(c, "set_stopped") /\ KeepVerb /\ UNCHANGED <<sysVars, alive>>
      BY <1>1, <2>2, SysUnchanged, CommandStep
    <2> QED BY <1>6, <2>1, <2>2 DEF StopJoin
  <1>7. CASE StopJoined(c)
    <2>1. PICK p \in {"set_stopped", "fail"} : Jump(c, p)
      BY <1>7 DEF StopJoined
    <2> QED BY <1>1, <1>7, <2>1, SysUnchanged, CommandStep DEF StopJoined
  <1>8. CASE SetStopped(c)
    <2>1. VerbTypeOK'
      BY <1>1, <1>8, EndVerbLemma DEF SetStopped, VerbTypeOK, Status
    <2> QED BY <1>1, <1>8, <2>1, DropFrameStep DEF SetStopped
  <1> QED BY <1>2, <1>3, <1>4, <1>5, <1>6, <1>7, <1>8 DEF StopStep

LEMMA LibraryInv ==
  ASSUME Inv, (\E c \in Caller : Library(c)) \/ (\E t \in Thread : EventThread(t))
  PROVE  Inv'
  <1>1. LibInv'
    BY LibStepInv, PthreadStepInv DEF Inv, Library, EventThread
  <1>2. UNCHANGED sysVars /\ UNCHANGED verbVars
    BY DEF Library, EventThread
  <1>3. PlatformTypeOK' /\ VerbTypeOK'
    BY <1>2, InvParts, SysUnchanged DEF VerbTypeOK, verbVars
  <1> QED BY <1>1, <1>3 DEF Inv, TypeOK, VerbTypeOK, LibInv, LibTypeOK

LEMMA CrashInv == ASSUME Inv, Crash PROVE Inv'
  <1>1. UNCHANGED libVars /\ UNCHANGED sysVars /\ UNCHANGED verbVars /\ alive' \in BOOLEAN
    BY DEF Crash, Die
  <1>2. PlatformTypeOK' /\ VerbTypeOK'
    BY <1>1, InvParts, SysUnchanged DEF VerbTypeOK, verbVars
  <1> QED BY <1>1, <1>2, QuietStep

LEMMA BootInv == ASSUME Inv, Boot PROVE Inv'
  <1>1. LibInit'
    BY DEF Boot, LibInit
  <1>2. (LibInit /\ alive \in BOOLEAN => LibInv)'
    BY InitLib, PTL
  <1>3. LibInv'
    BY <1>1, <1>2 DEF Boot
  <1>4. PlatformTypeOK'
    BY InvParts, SysUnchanged DEF Boot
  <1>5. verb' \in [Caller -> Verb] /\ pc' \in [Caller -> PC]
    BY DEF Boot, Verb, PC, BeforeCreate
  <1>6. VerbTypeOK'
    BY <1>5, VerbAssumption, InvParts DEF Boot, VerbTypeOK, Status
  <1> QED BY <1>3, <1>4, <1>6 DEF Inv, TypeOK, VerbTypeOK, LibInv, LibTypeOK

LEMMA NextInv == Inv /\ [Next]_vars => Inv'
  <1> SUFFICES ASSUME Inv, [Next]_vars PROVE Inv'
    OBVIOUS
  <1>1. CASE UNCHANGED vars
    <2>1. UNCHANGED libVars /\ UNCHANGED sysVars /\ UNCHANGED verbVars /\ alive' \in BOOLEAN
      BY <1>1 DEF vars, Inv, TypeOK
    <2>2. PlatformTypeOK' /\ VerbTypeOK'
      BY <2>1, InvParts, SysUnchanged DEF VerbTypeOK, verbVars
    <2> QED BY <2>1, <2>2, QuietStep
  <1>2. CASE \E c \in Caller : Request(c) \/ VerbStep(c)
    BY <1>2, RequestInv, StartStepInv, StopStepInv DEF VerbStep
  <1>3. CASE (\E c \in Caller : Library(c)) \/ (\E t \in Thread : EventThread(t))
    BY <1>3, LibraryInv
  <1>4. CASE Crash \/ Boot
    BY <1>4, CrashInv, BootInv
  <1> QED BY <1>1, <1>2, <1>3, <1>4 DEF Next

-----------------------------------------------------------------------------
(* The theorems *)

\* Inv is inductive.
THEOREM Invariance == Spec => []Inv
  BY InitInv, NextInv, PTL DEF Spec

\* Every variable keeps its type: verbs, the status of the access point, files and
\* daemons, thread objects, pthreads and activation records.
THEOREM TypeCorrect == Spec => []TypeOK
  <1>1. Inv => TypeOK
    BY DEF Inv
  <1> QED BY <1>1, Invariance, PTL

\* The first memory error is never a look-up: as long as no pointer to freed memory was
\* used, what findThreadFromIdInList finds under Mutex was not freed, for any number of
\* callers and event threads.  JoinThread and CleanupThread unlink what they free, and
\* CreateThread resets the head, so no order of them brings freed memory back into the list.
THEOREM ListIsSound == Spec => []ListSound
  <1>1. Inv => ListSound
    BY DEF Inv, LibInv, Listed, ListSound
  <1> QED BY <1>1, Invariance, PTL

-----------------------------------------------------------------------------
(* The leak of Mutex *)

\* cancelThread is given the id 0 only by a read of a freed object.
EntryOK(c) ==
  frame[c].fn = "cancelThread" /\ frame[c].at = "entry" /\ frame[c].id = 0 => fault # {}

LeakInv == LeakIsFinal /\ \A c \in Caller : EntryOK(c)

\* A step that opens no call of cancelThread, takes no Mutex and lists no object.
LEMMA NoLeak ==
  ASSUME LeakInv, fault \subseteq fault', Mutex' = Mutex, threadList' \in {None, threadList},
         \A c \in Caller : \/ frame'[c] = frame[c]
                           \/ frame'[c].at # "entry"
                           \/ frame'[c].fn # "cancelThread"
  PROVE  LeakInv'
  BY DEF LeakInv, LeakIsFinal, EntryOK

LEMMA LibStepLeak ==
  ASSUME "ESRCH" \notin CancelExited, Inv, LeakInv, NEW c \in Caller, LibStep(c)
  PROVE  LeakInv'
  <1>1. LibTypeOK
    BY DEF Inv, LibInv
  <1>2. CASE CreateThread(c)
    <2>1. /\ Mutex = None /\ UNCHANGED <<Mutex, fault>>
          /\ \E o \in FreshObj : frame' = [frame EXCEPT ![c].at = "done", ![c].ptr = o]
      BY <1>2 DEF CreateThread
    <2>2. \A d \in Caller : frame'[d] = frame[d] \/ frame'[d].at # "entry"
      BY <1>1, <2>1 DEF LibTypeOK, Frame
    <2> QED BY <2>1, <2>2 DEF LeakInv, LeakIsFinal, EntryOK
  <1>3. CASE cancelThread(c)
    <2>1. /\ frame[c].fn = "cancelThread" /\ frame[c].at = "entry"
          /\ UNCHANGED threadList /\ NoteUse(threadList)
          /\ Return(c, -1) \/ Return(c, 0) \/ UNCHANGED frame
      BY <1>3, cancelThreadEffect DEF cancelThread, In, Inv
    <2>2. fault \subseteq fault'
      BY <1>1, <2>1, NoteUseLemma
    <2>3. \A d \in Caller : frame'[d] = frame[d] \/ frame'[d].at # "entry"
      BY <1>1, <2>1, ReturnLemma DEF LibTypeOK
    <2>4. UNCHANGED Mutex \/ None \in findThreadFromIdInList(frame[c].id)
      BY <1>3 DEF cancelThread
    <2>5. CASE UNCHANGED Mutex
      BY <2>1, <2>2, <2>3, <2>5, NoLeak
    <2>6. CASE None \in findThreadFromIdInList(frame[c].id)
      <3>1. threadList = None \/ frame[c].id = 0 \/ fault' # {}
        BY <1>1, <2>1, <2>6
        DEF findThreadFromIdInList, FieldValues, NoteUse, TheId, LibTypeOK, Frame
      <3>2. threadList = None \/ fault' # {}
        BY <2>1, <2>2, <3>1 DEF LeakInv, EntryOK
      <3> QED BY <2>1, <2>2, <2>3, <3>2 DEF LeakInv, LeakIsFinal, EntryOK
    <2> QED BY <2>4, <2>5, <2>6
  <1>4. CASE Lookup(c) \/ CheckNew(c) \/ setThreadJoinable(c) \/ addDestructorToThread(c)
             \/ startThread(c) \/ JoinLookup(c) \/ JoinWait(c) \/ JoinRemove(c) \/ JoinDelete(c)
    <2>1. fault \subseteq fault'
      BY <1>4 DEF Lookup, CheckNew, setThreadJoinable, addDestructorToThread, startThread,
                  JoinLookup, JoinWait, JoinRemove, JoinDelete, NoteUse, DeleteThread
    <2>2. Mutex' = Mutex /\ threadList' \in {None, threadList}
      BY <1>4 DEF Lookup, CheckNew, setThreadJoinable, addDestructorToThread, startThread,
                  JoinLookup, JoinWait, JoinRemove, JoinDelete, ListDel
    <2>3. \A d \in Caller : frame'[d] = frame[d] \/ frame'[d].at # "entry"
      <3>1. CASE Lookup(c)
        BY <1>1, <3>1, ReturnLemma DEF Lookup, LibTypeOK, Frame
      <3>2. CASE JoinLookup(c)
        <4>1. \/ Return(c, -1) \/ Return(c, -2)
              \/ \E o, h : frame' = [frame EXCEPT ![c].at = "wait", ![c].ptr = o,
                                                ![c].handle = h]
          BY <3>2 DEF JoinLookup
        <4>2. frame \in [Caller -> Frame] /\ \A d \in Caller : DOMAIN frame[d] = DOMAIN NoFrame
          BY <1>1 DEF LibTypeOK, Frame, NoFrame
        <4>3. CASE Return(c, -1) \/ Return(c, -2)
          BY <1>1, <4>3, ReturnLemma
        <4>4. CASE \E o, h : frame' = [frame EXCEPT ![c].at = "wait", ![c].ptr = o,
                                                  ![c].handle = h]
          BY <4>2, <4>4 DEF NoFrame
        <4> QED BY <4>1, <4>3, <4>4
      <3>3. CASE UNCHANGED frame \/ (\E r \in -3..1 : Return(c, r))
                 \/ (\E at \in {"checked", "remove", "delete"} : Goto(c, at))
        BY <1>1, <3>3, ReturnLemma, GotoLemma DEF LibTypeOK
      <3>4. CASE setThreadJoinable(c) \/ addDestructorToThread(c) \/ startThread(c)
                   \/ JoinDelete(c)
        <4>1. Return(c, 0) \/ Return(c, 1)
          BY <3>4 DEF setThreadJoinable, addDestructorToThread, startThread, JoinDelete
        <4> QED BY <3>3, <4>1
      <3>5. CASE CheckNew(c) \/ JoinWait(c) \/ JoinRemove(c)
        <4>1. \/ Return(c, -2) \/ UNCHANGED frame
              \/ Goto(c, "checked") \/ Goto(c, "remove") \/ Goto(c, "delete")
          BY <3>5 DEF CheckNew, JoinWait, JoinRemove
        <4> QED BY <3>3, <4>1
      <3> QED BY <1>4, <3>1, <3>2, <3>4, <3>5
    <2> QED BY <2>1, <2>2, <2>3, NoLeak
  <1> QED BY <1>2, <1>3, <1>4 DEF LibStep

LEMMA PthreadStepLeak ==
  ASSUME LeakInv, NEW t \in Thread, PthreadStep(t) PROVE LeakInv'
  <1>1. UNCHANGED frame /\ Mutex' = Mutex /\ threadList' \in {None, threadList}
    BY DEF PthreadStep, MainFuncReturns, ActOnCancel, EnterCleanup, CleanupThread,
           RunDestructors, CancelledInCleanup, CleanupUnlink, CleanupFree, ListDel
  <1>2. fault \subseteq fault'
    BY DEF PthreadStep, MainFuncReturns, ActOnCancel, EnterCleanup, CleanupThread,
           RunDestructors, CancelledInCleanup, CleanupUnlink, CleanupFree,
           NoteUse, DeleteThread
  <1> QED BY <1>1, <1>2, NoLeak

\* The only step of a verb that opens a call of cancelThread.
LEMMA StopCancelLeak ==
  ASSUME Inv, LeakInv, NEW c \in Caller, StopCancel(c) PROVE LeakInv'
  <1>1. /\ UNCHANGED <<threadList, Mutex, obj>> /\ NoteUse(wifiApThreadPtr)
        /\ wifiApThreadPtr # None
    BY DEF StopCancel, CallWithThreadId
  <1>2. PICK id \in threadIdOf(wifiApThreadPtr) : Call(c, "cancelThread", id)
    BY DEF StopCancel, CallWithThreadId
  <1>3. fault \subseteq fault' /\ (id = 0 => fault' # {})
    BY <1>1, <1>2 DEF threadIdOf, FieldValues, NoteUse, TheId
  <1>4. frame'[c].id = id /\ \A d \in Caller \ {c} : frame'[d] = frame[d]
    <2>1. frame \in [Caller -> Frame] /\ NoFrame \in Frame /\ id \in {0, 1}
      BY <1>2 DEF Inv, LibInv, LibTypeOK, NoFrame, Frame, Function, threadIdOf,
                  FieldValues, TheId
    <2> QED BY <1>2, <2>1 DEF Call, Frame
  <1> QED BY <1>1, <1>3, <1>4 DEF LeakInv, LeakIsFinal, EntryOK

\* The other steps of a verb, which drop an activation record, open another call,
\* or leave the records alone.
LEMMA OtherVerbStepLeak ==
  ASSUME Inv, LeakInv, NEW c \in Caller, Request(c) \/ VerbStep(c), ~StopCancel(c)
  PROVE  LeakInv'
  <1>1. frame \in [Caller -> Frame] /\ NoFrame \in Frame /\ NoFrame.fn = "none"
    BY DEF Inv, LibInv, LibTypeOK, NoFrame, Frame, Function
  <1>2. ASSUME NEW fn \in Function, NEW id \in {0, 1}, Call(c, fn, id), fn # "cancelThread"
        PROVE  \A d \in Caller : frame'[d] = frame[d] \/ frame'[d].fn # "cancelThread"
    BY <1>1, <1>2 DEF Call, Frame
  <1>3. ASSUME frame' = [frame EXCEPT ![c] = NoFrame]
        PROVE  \A d \in Caller : frame'[d] = frame[d] \/ frame'[d].fn # "cancelThread"
    BY <1>1, <1>3
  <1>4. ASSUME NEW fn \in Function, CallWithThreadId(c, fn), fn # "cancelThread"
        PROVE  LeakInv'
    <2>1. PICK id \in {0, 1} : Call(c, fn, id)
      BY <1>4 DEF CallWithThreadId, threadIdOf, FieldValues, TheId
    <2>2. fault \subseteq fault' /\ UNCHANGED <<threadList, Mutex>>
      BY <1>4 DEF CallWithThreadId, NoteUse
    <2> QED BY <1>2, <1>4, <2>1, <2>2, NoLeak
  <1>5. ASSUME UNCHANGED <<threadList, Mutex, fault>>,
               \A d \in Caller : frame'[d] = frame[d] \/ frame'[d].fn # "cancelThread"
        PROVE  LeakInv'
    BY <1>5, NoLeak
  <1>6. CASE StartCreateThread(c)
    BY <1>2, <1>5, <1>6 DEF StartCreateThread, Function
  <1>7. CASE StoreThreadPtr(c) \/ SetStarted(c) \/ Fail(c) \/ SetStopped(c)
    BY <1>3, <1>5, <1>7 DEF StoreThreadPtr, SetStarted, Fail, SetStopped
  <1>8. CASE StartSetJoinable(c) \/ StartAddDestructor(c) \/ StartLaunch(c)
    BY <1>4, <1>8 DEF StartSetJoinable, StartAddDestructor, StartLaunch, Function
  <1>9. CASE StopJoin(c)
    BY <1>4, <1>5, <1>9 DEF StopJoin, Function, KeepVerb, libVars
  <1>10. CASE Request(c)
    BY <1>5, <1>10 DEF Request, AskStart, AskStop, AskRestart, SetParameters, Ask, libVars
  <1>11. CASE StartTest(c) \/ RestartTest(c) \/ RestartHostapdStop(c) \/ StartMarker(c)
              \/ StartClean(c) \/ DnsmasqWlanUp(c) \/ DnsmasqHosts(c) \/ DnsmasqConf(c)
              \/ DnsmasqRestart(c) \/ DnsmasqFail(c) \/ StartChecks(c)
    BY <1>5, <1>11 DEF StartTest, RestartTest, RestartHostapdStop, StartMarker, StartClean,
       HostapdStop, DnsmasqWlanUp, DnsmasqHosts, DnsmasqConf, DnsmasqRestart, DnsmasqFail,
       StartChecks, KeepVerb, libVars
  <1>12. CASE StartHostapdConf(c) \/ StartHw(c) \/ StartHostapd(c) \/ StartRemoveConf(c)
              \/ StopHostapd(c) \/ StopHw(c) \/ StopNoThread(c) \/ StopJoined(c)
    BY <1>5, <1>12 DEF StartHostapdConf, StartHw, StartHostapd, StartRemoveConf,
       StopHostapd, HostapdStop, StopHw, StopNoThread, StopJoined, KeepVerb, libVars
  <1> QED BY <1>6, <1>7, <1>8, <1>9, <1>10, <1>11, <1>12 DEF VerbStep, StartStep, StopStep

\* cancelThread returns without unlocking Mutex when it finds no thread.  With a
\* pthread_cancel that accepts an exited pthread (glibc from 2.34), and as long as no
\* freed memory was used, that leaves an empty list which nothing can fill again:
\* each later call to the library blocks.
THEOREM LeakIsFinalAlways ==
  ASSUME "ESRCH" \notin CancelExited PROVE Spec => []LeakIsFinal
  <1>1. Init => LeakInv
    BY DEF Init, LibInit, NoFrame, LeakInv, LeakIsFinal, EntryOK
  <1>2. Inv /\ LeakInv /\ [Next]_vars => LeakInv'
    <2> SUFFICES ASSUME Inv, LeakInv, [Next]_vars PROVE LeakInv'
      OBVIOUS
    <2>1. CASE UNCHANGED vars \/ Crash
      BY <2>1, NoLeak DEF vars, libVars, Crash
    <2>2. CASE \E c \in Caller : Request(c) \/ VerbStep(c)
      BY <2>2, StopCancelLeak, OtherVerbStepLeak
    <2>3. CASE (\E c \in Caller : Library(c)) \/ (\E t \in Thread : EventThread(t))
      BY <2>3, LibStepLeak, PthreadStepLeak DEF Library, EventThread
    <2>4. CASE Boot
      BY <2>4 DEF Boot, NoFrame, LeakInv, LeakIsFinal, EntryOK
    <2> QED BY <2>1, <2>2, <2>3, <2>4 DEF Next
  <1>3. LeakInv => LeakIsFinal
    BY DEF LeakInv
  <1> QED BY <1>1, <1>2, <1>3, Invariance, PTL DEF Spec
=============================================================================
