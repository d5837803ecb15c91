-------------------------- MODULE WifiApEventsProofs --------------------------
(***************************************************************************)
(* Theorems about the event thread, WifiApEvents, for any number of event   *)
(* threads, interfaces, stations and reported lines, and any failures.      *)
(***************************************************************************)
EXTENDS WifiApEvents, FiniteSetTheorems, SequenceTheorems, TLAPS

-----------------------------------------------------------------------------
(* Records of threads and of processes *)

EventPC ==
  {"none", "popen", "fgets", "read", "count", "kill", "pclose", "wait", "null", "exited"}

\* The provers see the Booleans of a record as one more set.
ThreadRecord(P, B, F) == [pc: P, cancel: B, popped: B, number: Int, file: F, left: Nat]
ProcessRecord(W, T, B) == [what: W, of: T, runs: B, age: Nat]

LEMMA ThreadRecordLemma ==
  ASSUME NEW P, NEW B, NEW F, NEW r \in ThreadRecord(P, B, F)
  PROVE  /\ \A x \in P : [r EXCEPT !.pc = x] \in ThreadRecord(P, B, F)
         /\ \A x \in B : [r EXCEPT !.cancel = x] \in ThreadRecord(P, B, F)
         /\ \A x \in B : [r EXCEPT !.popped = x] \in ThreadRecord(P, B, F)
         /\ \A x \in Int : [r EXCEPT !.number = x] \in ThreadRecord(P, B, F)
         /\ \A x \in F : [r EXCEPT !.file = x] \in ThreadRecord(P, B, F)
         /\ \A x \in Nat : [r EXCEPT !.left = x] \in ThreadRecord(P, B, F)
  BY DEF ThreadRecord

LEMMA ProcessRecordLemma ==
  ASSUME NEW W, NEW T, NEW B, NEW p \in ProcessRecord(W, T, B), NEW x \in B
  PROVE  [p EXCEPT !.runs = x] \in ProcessRecord(W, T, B)
  BY DEF ProcessRecord

LEMMA ThreadFieldLemma ==
  ASSUME NEW r \in EventThread
  PROVE  /\ r.pc \in EventPC /\ r.number \in Int /\ r.left \in Nat
         /\ r.file \in Thread \cup {None}
         /\ \A x \in EventPC : [r EXCEPT !.pc = x] \in EventThread
         /\ [r EXCEPT !.cancel = TRUE] \in EventThread
         /\ [r EXCEPT !.popped = TRUE] \in EventThread
         /\ \A x \in Int : [r EXCEPT !.number = x] \in EventThread
         /\ \A x \in Thread \cup {None} : [r EXCEPT !.file = x] \in EventThread
         /\ \A x \in Nat : [r EXCEPT !.left = x] \in EventThread
  <1>1. EventThread = ThreadRecord(EventPC, BOOLEAN, Thread \cup {None})
    BY DEF EventThread, ThreadRecord, EventPC
  <1>2. TRUE \in BOOLEAN
    OBVIOUS
  <1>3. /\ r.pc \in EventPC /\ r.number \in Int /\ r.left \in Nat
        /\ r.file \in Thread \cup {None}
    BY DEF EventThread, EventPC
  <1> QED BY <1>1, <1>2, <1>3, ThreadRecordLemma, Zenon

LEMMA ProcessFieldLemma ==
  /\ \A p \in Process : [p EXCEPT !.runs = FALSE] \in Process
  /\ \A what \in {"event", "dump"}, t \in Thread \cup {None}, age \in Nat :
       [what |-> what, of |-> t, runs |-> TRUE, age |-> age] \in Process
  <1>1. Process = ProcessRecord({"event", "dump"}, Thread \cup {None}, BOOLEAN)
    BY DEF Process, ProcessRecord
  <1>2. FALSE \in BOOLEAN
    OBVIOUS
  <1>3. \A p \in Process : [p EXCEPT !.runs = FALSE] \in Process
    BY <1>1, <1>2, ProcessRecordLemma, Zenon
  <1> QED BY <1>3 DEF Process

\* Exited threads and new ones.
LEMMA NoThreadLemma ==
  LET new == [NoThread EXCEPT !.pc = "exited"] IN
  new \in EventThread /\ new.pc = "exited"
  <1>1. FALSE \in BOOLEAN
    OBVIOUS
  <1>2. NoThread \in EventThread
    BY <1>1 DEF NoThread, EventThread
  <1>3. "exited" \in EventPC
    BY DEF EventPC
  <1>4. [NoThread EXCEPT !.pc = "exited"].pc = "exited"
    BY DEF NoThread
  <1> QED BY <1>2, <1>3, <1>4, ThreadFieldLemma

-----------------------------------------------------------------------------
(* Processes and lines *)

LEMMA AfterEndLemma ==
  ASSUME procs \subseteq Process, IsFiniteSet(procs), NEW P \in SUBSET procs
  PROVE  AfterEnd(P) \subseteq Process /\ IsFiniteSet(AfterEnd(P))
  <1> DEFINE ended == {[p EXCEPT !.runs = FALSE] : p \in P}
  <1>1. ended \subseteq Process
    BY ProcessFieldLemma
  <1>2. IsFiniteSet(P) /\ IsFiniteSet(procs \ P)
    BY FS_Subset
  <1>3. IsFiniteSet(ended)
    <2> DEFINE end == [p \in P |-> [p EXCEPT !.runs = FALSE]]
    <2>1. end \in Surjection(P, ended)
      BY DEF Surjection
    <2> QED BY <1>2, <2>1, FS_Surjection
  <1>4. IsFiniteSet((procs \ P) \cup ended)
    BY <1>2, <1>3, FS_Union
  <1> QED BY <1>1, <1>4 DEF AfterEnd

LEMMA LaunchLemma ==
  ASSUME procs \subseteq Process, IsFiniteSet(procs), launched \in Nat,
         NEW what \in {"event", "dump"}, NEW t \in Thread \cup {None}, LaunchIw(what, t)
  PROVE  procs' \subseteq Process /\ IsFiniteSet(procs') /\ launched' \in Nat
  <1> DEFINE p == [what |-> what, of |-> t, runs |-> TRUE, age |-> launched']
  <1>1. launched' \in Nat /\ procs' = procs \cup {p}
    BY DEF LaunchIw
  <1>2. p \in Process
    BY <1>1, ProcessFieldLemma
  <1> HIDE DEF p
  <1>3. IsFiniteSet(procs \cup {p})
    BY FS_AddElement
  <1> QED BY <1>1, <1>2, <1>3

LEMMA ReportLemma ==
  ASSUME procs \subseteq Process, IsFiniteSet(procs), buf \in [Thread -> Seq(LineSet)],
         NEW new \in Seq(LineSet), Report(new)
  PROVE  /\ buf' \in [Thread -> Seq(LineSet)]
         /\ procs' \subseteq Process /\ IsFiniteSet(procs')
  <1>1. \A t \in Thread : buf[t] \o new \in Seq(LineSet)
    <2> SUFFICES ASSUME NEW t \in Thread PROVE buf[t] \o new \in Seq(LineSet)
      OBVIOUS
    <2> QED BY ConcatProperties
  <1>2. buf' \in [Thread -> Seq(LineSet)]
    BY <1>1 DEF Report
  <1>3. UNION {EventOf(t) : t \in Thread \ open} \in SUBSET procs
    BY DEF EventOf
  <1>4. procs' = procs \/ procs' = AfterEnd(UNION {EventOf(t) : t \in Thread \ open})
    BY DEF Report
  <1> QED BY <1>2, <1>3, <1>4, AfterEndLemma

-----------------------------------------------------------------------------
(* The invariant *)

Active(t) == InMain(t) \/ InDestructor(t)

\* A loop of WIFI_UNSET_EVENT that runs has a turn left; CreateThread finds a new thread.
Started ==
  /\ \A t \in Thread : th[t].pc = "kill" => th[t].left >= 1
  /\ op = "create" => FreshThread # {}

\* One thread at most uses the pipe, and the static variable leads to the pipe it reads,
\* or to none, unless pclose has just closed it.
PipeAlone ==
  /\ fault = {}
  /\ \A t, u \in Thread : Active(t) /\ Active(u) => t = u
  /\ \A t \in Thread :
       /\ th[t].pc \in {"fgets", "read"} => IwThreadPipePtr = t /\ t \in open
       /\ th[t].pc = "read" => th[t].file = t
  /\ IwThreadPipePtr # None /\ IwThreadPipePtr \notin open =>
       \E t \in Thread : th[t].pc \in {"wait", "null"}

EventsInv ==
  /\ EventsTypeOK /\ IsFiniteSet(procs) /\ Started
  /\ ~overlapped => PipeAlone

\* What a step of thread t has to show: the others keep still.
LEMMA ThreadLemma ==
  ASSUME EventsInv, NEW t \in Thread, Active(t), NEW new \in EventThread,
         th' = [th EXCEPT ![t] = new], new.pc # "none", new.pc = "kill" => new.left >= 1,
         KeepNet, alive' \in BOOLEAN, launched' \in Nat,
         procs' \subseteq Process, IsFiniteSet(procs'),
         buf' \in [Thread -> Seq(LineSet)], open' \subseteq Thread,
         IwThreadPipePtr' \in Thread \cup {None},
         fault' \subseteq {"use_after_close", "double_close"}, atPopen' \in [Thread -> Nat],
         ~overlapped =>
           /\ fault' = {}
           /\ new.pc \in {"fgets", "read"} => IwThreadPipePtr' = t /\ t \in open'
           /\ new.pc = "read" => new.file = t
           /\ IwThreadPipePtr' # None /\ IwThreadPipePtr' \notin open' =>
                new.pc \in {"wait", "null"}
  PROVE  EventsInv'
  <1>1. EventsTypeOK /\ Started
    BY DEF EventsInv
  <1>2. UNCHANGED <<status, op, cur, up, stations, lines, overlapped>>
    BY DEF KeepNet, verbVars, netVars
  <1>3. th \in [Thread -> EventThread] /\ th' \in [Thread -> EventThread]
    BY <1>1 DEF EventsTypeOK
  <1>4. th'[t] = new /\ \A u \in Thread : u # t => th'[u] = th[u]
    BY <1>3
  <1>5. EventsTypeOK'
    BY <1>1, <1>2, <1>3 DEF EventsTypeOK
  <1>6. Started'
    <2>1. ASSUME NEW u \in Thread, th[u].pc = "none" PROVE th'[u].pc = "none"
      BY <1>4, <2>1 DEF Active, InMain, InDestructor
    <2>2. \A u \in Thread : th'[u].pc = "kill" => th'[u].left >= 1
      BY <1>1, <1>4 DEF Started
    <2> QED BY <1>1, <1>2, <2>1, <2>2 DEF Started, FreshThread
  <1>7. ASSUME ~overlapped PROVE PipeAlone'
    <2>1. \A u \in Thread : u # t => ~Active(u)
      BY <1>7 DEF EventsInv, PipeAlone
    <2>2. \A u \in Thread : u # t => ~Active(u)' /\ th'[u].pc \notin {"fgets", "read"}
      BY <1>4, <2>1 DEF Active, InMain, InDestructor
    <2>3. \A u, v \in Thread : Active(u)' /\ Active(v)' => u = v
      BY <2>2
    <2>4. \A u \in Thread :
            /\ th'[u].pc \in {"fgets", "read"} => IwThreadPipePtr' = u /\ u \in open'
            /\ th'[u].pc = "read" => th'[u].file = u
      BY <1>4, <1>7, <2>2
    <2>5. IwThreadPipePtr' # None /\ IwThreadPipePtr' \notin open' =>
            \E u \in Thread : th'[u].pc \in {"wait", "null"}
      BY <1>4, <1>7
    <2> QED BY <1>7, <2>3, <2>4, <2>5 DEF PipeAlone
  <1> QED BY <1>2, <1>5, <1>6, <1>7 DEF EventsInv

\* What a step of a verb, of a station or of iw has to show.
LEMMA OthersLemma ==
  ASSUME EventsInv, UNCHANGED <<th, open, IwThreadPipePtr, fault, overlapped>>,
         EventsTypeOK', IsFiniteSet(procs'), op' = "create" => FreshThread # {}
  PROVE  EventsInv'
  BY DEF EventsInv, Started, PipeAlone, Active, InMain, InDestructor, FreshThread

\* What a step of a thread begins with.
LEMMA ThreadStepLemma ==
  ASSUME EventsInv, NEW t \in Thread
  PROVE  /\ EventsTypeOK /\ IsFiniteSet(procs) /\ th[t] \in EventThread
         /\ th[t].pc = "kill" => th[t].left >= 1
         /\ ~overlapped => /\ fault = {}
                           /\ th[t].pc \in {"fgets", "read"} => IwThreadPipePtr = t /\ t \in open
                           /\ th[t].pc = "read" => th[t].file = t
         /\ ~overlapped /\ Active(t) /\ th[t].pc \notin {"wait", "null"} =>
              IwThreadPipePtr = None \/ IwThreadPipePtr \in open
  <1>1. EventsTypeOK /\ IsFiniteSet(procs) /\ Started /\ (~overlapped => PipeAlone)
    BY DEF EventsInv
  <1>2. th[t] \in EventThread
    BY <1>1 DEF EventsTypeOK
  <1>3. ASSUME ~overlapped, Active(t), th[t].pc \notin {"wait", "null"}
        PROVE  IwThreadPipePtr = None \/ IwThreadPipePtr \in open
    <2>1. ~ \E u \in Thread : th[u].pc \in {"wait", "null"}
      BY <1>1, <1>3 DEF PipeAlone, Active, InDestructor
    <2> QED BY <1>1, <1>3, <2>1 DEF PipeAlone
  <1> QED BY <1>1, <1>2, <1>3 DEF Started, PipeAlone

-----------------------------------------------------------------------------
(* WifiApThreadMainFunc *)

LEMMA ReturnLemma ==
  ASSUME NEW r \in EventThread
  PROVE  LET new == [r EXCEPT !.pc = "count", !.popped = TRUE] IN
         new \in EventThread /\ new.pc = "count"
  <1> DEFINE new == [r EXCEPT !.pc = "count", !.popped = TRUE]
  <1>1. new = [[r EXCEPT !.pc = "count"] EXCEPT !.popped = TRUE] /\ new.pc = "count"
    BY DEF EventThread
  <1>2. "count" \in EventPC
    BY DEF EventPC
  <1> HIDE DEF new
  <1>3. new \in EventThread
    BY <1>1, <1>2, ThreadFieldLemma
  <1> QED BY <1>1, <1>3

LEMMA PopenInv == ASSUME EventsInv, NEW t \in Thread, Popen(t) PROVE EventsInv'
  <1>1. EventsTypeOK /\ IsFiniteSet(procs) /\ th[t] \in EventThread /\ Active(t)
        /\ (~overlapped => fault = {})
    BY ThreadStepLemma DEF Popen, At, Active, InMain
  <1>2. UNCHANGED <<buf, fault, alive>> /\ KeepNet
    BY DEF Popen
  <1>3. CASE /\ IwThreadPipePtr' = t /\ open' = open \cup {t} /\ LaunchIw("event", t)
             /\ atPopen' = [atPopen EXCEPT ![t] = stations] /\ Jump(t, "fgets")
    <2> DEFINE new == [th[t] EXCEPT !.pc = "fgets"]
    <2>1. th' = [th EXCEPT ![t] = new]
      BY <1>3 DEF Jump
    <2>2. new \in EventThread
      BY <1>1, ThreadFieldLemma DEF EventPC
    <2>3. new.pc = "fgets"
      BY <1>1 DEF EventThread
    <2>4. procs' \subseteq Process /\ IsFiniteSet(procs') /\ launched' \in Nat
      BY <1>1, <1>3, LaunchLemma DEF EventsTypeOK
    <2>5. /\ alive' \in BOOLEAN /\ open' \subseteq Thread /\ atPopen' \in [Thread -> Nat]
          /\ buf' \in [Thread -> Seq(LineSet)] /\ IwThreadPipePtr' \in Thread \cup {None}
          /\ fault' \subseteq {"use_after_close", "double_close"}
      BY <1>1, <1>2, <1>3 DEF EventsTypeOK
    <2> HIDE DEF new
    <2> QED BY <1>1, <1>2, <1>3, <2>1, <2>2, <2>3, <2>4, <2>5, ThreadLemma
  <1>4. CASE IwThreadPipePtr' = None /\ Return(t) /\ UNCHANGED <<open, procs, launched, atPopen>>
    <2> DEFINE new == [th[t] EXCEPT !.pc = "count", !.popped = TRUE]
    <2>1. th' = [th EXCEPT ![t] = new]
      BY <1>4 DEF Return
    <2>2. new \in EventThread /\ new.pc = "count"
      BY <1>1, ReturnLemma
    <2>3. /\ procs' \subseteq Process /\ IsFiniteSet(procs') /\ launched' \in Nat
          /\ alive' \in BOOLEAN /\ open' \subseteq Thread /\ atPopen' \in [Thread -> Nat]
          /\ buf' \in [Thread -> Seq(LineSet)] /\ IwThreadPipePtr' \in Thread \cup {None}
          /\ fault' \subseteq {"use_after_close", "double_close"}
      BY <1>1, <1>2, <1>4 DEF EventsTypeOK
    <2> HIDE DEF new
    <2> QED BY <1>1, <1>2, <1>4, <2>1, <2>2, <2>3, ThreadLemma
  <1> QED BY <1>3, <1>4 DEF Popen

LEMMA FgetsInv == ASSUME EventsInv, NEW t \in Thread, Fgets(t) PROVE EventsInv'
  <1>1. /\ EventsTypeOK /\ IsFiniteSet(procs) /\ th[t] \in EventThread /\ Active(t)
        /\ ~overlapped => fault = {} /\ IwThreadPipePtr = t /\ t \in open
    BY ThreadStepLemma DEF Fgets, At, Active, InMain
  <1>2. UNCHANGED <<procs, launched, buf, open, IwThreadPipePtr, fault, atPopen>> /\ KeepNet
        /\ alive' \in BOOLEAN
    BY <1>1 DEF Fgets, pipeVars, Die, EventsTypeOK
  <1>3. /\ procs' \subseteq Process /\ IsFiniteSet(procs') /\ launched' \in Nat
        /\ open' \subseteq Thread /\ atPopen' \in [Thread -> Nat]
        /\ buf' \in [Thread -> Seq(LineSet)] /\ IwThreadPipePtr' \in Thread \cup {None}
        /\ fault' \subseteq {"use_after_close", "double_close"}
    BY <1>1, <1>2 DEF EventsTypeOK
  <1>4. CASE IwThreadPipePtr = None /\ UNCHANGED th
    <2>1. overlapped
      BY <1>1, <1>4, EventsAssumption
    <2>2. th' = [th EXCEPT ![t] = th[t]] /\ th[t].pc = "fgets"
      BY <1>1, <1>4 DEF EventsTypeOK, Fgets, At
    <2> QED BY <1>1, <1>2, <1>3, <2>1, <2>2, ThreadLemma
  <1>5. CASE th' = [th EXCEPT ![t].pc = "read", ![t].file = IwThreadPipePtr]
    <2> DEFINE new == [th[t] EXCEPT !.pc = "read", !.file = IwThreadPipePtr]
    <2>1. th' = [th EXCEPT ![t] = new]
      BY <1>5
    <2>2. new = [[th[t] EXCEPT !.pc = "read"] EXCEPT !.file = IwThreadPipePtr]
          /\ new.pc = "read" /\ new.file = IwThreadPipePtr
      BY <1>1 DEF EventThread
    <2> HIDE DEF new
    <2>3. new \in EventThread
      BY <1>1, <2>2, ThreadFieldLemma DEF EventsTypeOK, EventPC
    <2> QED BY <1>1, <1>2, <1>3, <2>1, <2>2, <2>3, ThreadLemma
  <1> QED BY <1>4, <1>5 DEF Fgets

LEMMA LineLemma ==
  ASSUME NEW r \in EventThread, NEW n \in Int
  PROVE  LET new == [r EXCEPT !.pc = "fgets", !.number = n] IN
         new \in EventThread /\ new.pc = "fgets"
  <1> DEFINE new == [r EXCEPT !.pc = "fgets", !.number = n]
  <1>1. new = [[r EXCEPT !.pc = "fgets"] EXCEPT !.number = n] /\ new.pc = "fgets"
    BY DEF EventThread
  <1>2. "fgets" \in EventPC
    BY DEF EventPC
  <1> HIDE DEF new
  <1>3. new \in EventThread
    BY <1>1, <1>2, ThreadFieldLemma
  <1> QED BY <1>1, <1>3

LEMMA LineStepLemma ==
  ASSUME NEW g \in [Thread -> EventThread], NEW t \in Thread, NEW line
  PROVE  [g EXCEPT ![t].pc = "fgets", ![t].number = Count(@, line)] =
         [g EXCEPT ![t] = [g[t] EXCEPT !.pc = "fgets", !.number = Count(@, line)]]
  OBVIOUS

LEMMA GetLineInv == ASSUME EventsInv, NEW t \in Thread, GetLine(t) PROVE EventsInv'
  <1> DEFINE f == th[t].file
             new == [th[t] EXCEPT !.pc = "fgets", !.number = Count(@, Head(buf[f]))]
  <1>1. /\ EventsTypeOK /\ IsFiniteSet(procs) /\ th[t] \in EventThread /\ Active(t)
        /\ ~overlapped => fault = {} /\ IwThreadPipePtr = t /\ t \in open
        /\ f \in Thread /\ buf[f] # <<>>
    BY ThreadStepLemma DEF GetLine, At, Active, InMain, EventsTypeOK
  <1>2. /\ UNCHANGED <<procs, launched, open, IwThreadPipePtr, fault, atPopen, alive>> /\ KeepNet
        /\ th' = [th EXCEPT ![t] = new] /\ buf' = [buf EXCEPT ![f] = Tail(@)]
    <2>1. th' = [th EXCEPT ![t].pc = "fgets", ![t].number = Count(@, Head(buf[f]))]
      BY DEF GetLine
    <2>2. th' = [th EXCEPT ![t] = new]
      BY <1>1, <2>1, LineStepLemma DEF EventsTypeOK
    <2> HIDE DEF new
    <2> QED BY <2>2 DEF GetLine
  <1>3. Count(th[t].number, Head(buf[f])) \in Int
    <2>1. th[t].number \in Int
      BY <1>1, ThreadFieldLemma
    <2>2. ASSUME NEW n \in Int, NEW line PROVE Count(n, line) \in Int
      BY DEF Count
    <2> QED BY <2>1, <2>2
  <1>4. new \in EventThread /\ new.pc = "fgets"
    <2> DEFINE n == Count(th[t].number, Head(buf[f]))
    <2>1. new = [th[t] EXCEPT !.pc = "fgets", !.number = n]
      OBVIOUS
    <2> HIDE DEF n, new
    <2>2. n \in Int
      BY <1>3 DEF n
    <2> QED BY <1>1, <2>1, <2>2, LineLemma
  <1>5. /\ procs' \subseteq Process /\ IsFiniteSet(procs') /\ launched' \in Nat
        /\ alive' \in BOOLEAN /\ open' \subseteq Thread /\ atPopen' \in [Thread -> Nat]
        /\ IwThreadPipePtr' \in Thread \cup {None}
        /\ fault' \subseteq {"use_after_close", "double_close"}
    BY <1>1, <1>2 DEF EventsTypeOK
  <1>6. buf' \in [Thread -> Seq(LineSet)]
    <2>1. buf \in [Thread -> Seq(LineSet)] /\ buf[f] \in Seq(LineSet)
      BY <1>1 DEF EventsTypeOK
    <2>2. Tail(buf[f]) \in Seq(LineSet)
      BY <1>1, <2>1, HeadTailProperties
    <2> HIDE DEF f
    <2> QED BY <1>2, <2>1, <2>2
  <1> HIDE DEF f, new
  <1> QED BY <1>1, <1>2, <1>4, <1>5, <1>6, ThreadLemma

LEMMA EofInv == ASSUME EventsInv, NEW t \in Thread, Eof(t) PROVE EventsInv'
  <1> DEFINE new == [th[t] EXCEPT !.pc = "count", !.popped = TRUE]
  <1>1. /\ EventsTypeOK /\ IsFiniteSet(procs) /\ th[t] \in EventThread /\ Active(t)
        /\ ~overlapped => /\ fault = {} /\ IwThreadPipePtr = t /\ t \in open
                          /\ th[t].file = t
    BY ThreadStepLemma DEF Eof, At, Active, InMain
  <1>2. /\ UNCHANGED <<procs, launched, buf, open, IwThreadPipePtr, atPopen, alive>> /\ KeepNet
        /\ th' = [th EXCEPT ![t] = new]
        /\ fault' \subseteq {"use_after_close", "double_close"}
        /\ ~overlapped => fault' = {}
    BY <1>1 DEF Eof, Return, EventsTypeOK
  <1>3. new \in EventThread /\ new.pc = "count"
    BY <1>1, ReturnLemma
  <1>4. /\ procs' \subseteq Process /\ IsFiniteSet(procs') /\ launched' \in Nat
        /\ alive' \in BOOLEAN /\ open' \subseteq Thread /\ atPopen' \in [Thread -> Nat]
        /\ buf' \in [Thread -> Seq(LineSet)] /\ IwThreadPipePtr' \in Thread \cup {None}
    BY <1>1, <1>2 DEF EventsTypeOK
  <1> HIDE DEF new
  <1> QED BY <1>1, <1>2, <1>3, <1>4, ThreadLemma

LEMMA CancelInv == ASSUME EventsInv, NEW t \in Thread, ActOnCancel(t) PROVE EventsInv'
  <1> DEFINE new == [th[t] EXCEPT !.pc = "count"]
  <1>1. /\ EventsTypeOK /\ IsFiniteSet(procs) /\ th[t] \in EventThread /\ Active(t)
        /\ ~overlapped => fault = {} /\ (IwThreadPipePtr = None \/ IwThreadPipePtr \in open)
    BY ThreadStepLemma DEF ActOnCancel, Active, InMain
  <1>2. /\ UNCHANGED <<procs, launched, buf, open, IwThreadPipePtr, fault, atPopen, alive>>
        /\ KeepNet /\ th' = [th EXCEPT ![t] = new]
    BY DEF ActOnCancel, Jump, pipeVars
  <1>3. new \in EventThread
    BY <1>1, ThreadFieldLemma DEF EventPC
  <1>4. new.pc = "count"
    BY <1>1 DEF EventThread
  <1>5. /\ procs' \subseteq Process /\ IsFiniteSet(procs') /\ launched' \in Nat
        /\ alive' \in BOOLEAN /\ open' \subseteq Thread /\ atPopen' \in [Thread -> Nat]
        /\ buf' \in [Thread -> Seq(LineSet)] /\ IwThreadPipePtr' \in Thread \cup {None}
        /\ fault' \subseteq {"use_after_close", "double_close"}
    BY <1>1, <1>2 DEF EventsTypeOK
  <1> HIDE DEF new
  <1> QED BY <1>1, <1>2, <1>3, <1>4, <1>5, ThreadLemma

-----------------------------------------------------------------------------
(* threadDestructorFunc *)

\* What a step between the end of mainFunc and pclose has to show.
LEMMA UnsetLemma ==
  ASSUME EventsInv, NEW t \in Thread, th[t].pc \in {"count", "kill"},
         NEW x \in {"kill", "pclose"}, NEW n \in Nat, x = "kill" => n >= 1,
         th' = [th EXCEPT ![t] = [th[t] EXCEPT !.pc = x, !.left = n]],
         procs' \subseteq Process, IsFiniteSet(procs'),
         UNCHANGED <<launched, buf, open, IwThreadPipePtr, fault, atPopen, alive>>, KeepNet
  PROVE  EventsInv'
  <1> DEFINE new == [th[t] EXCEPT !.pc = x, !.left = n]
  <1>1. /\ EventsTypeOK /\ th[t] \in EventThread /\ Active(t)
        /\ ~overlapped => fault = {} /\ (IwThreadPipePtr = None \/ IwThreadPipePtr \in open)
    BY ThreadStepLemma DEF Active, InDestructor
  <1>2. new \in EventThread /\ new.pc = x /\ new.left = n
    <2>1. /\ new = [[th[t] EXCEPT !.pc = x] EXCEPT !.left = n]
          /\ new.pc = x /\ new.left = n
      BY <1>1 DEF EventThread
    <2>2. x \in EventPC
      BY DEF EventPC
    <2> HIDE DEF new
    <2> QED BY <1>1, <2>1, <2>2, ThreadFieldLemma
  <1>3. /\ launched' \in Nat /\ alive' \in BOOLEAN /\ open' \subseteq Thread
        /\ atPopen' \in [Thread -> Nat]
        /\ buf' \in [Thread -> Seq(LineSet)] /\ IwThreadPipePtr' \in Thread \cup {None}
        /\ fault' \subseteq {"use_after_close", "double_close"}
    BY <1>1 DEF EventsTypeOK
  <1> HIDE DEF new
  <1>4. th' = [th EXCEPT ![t] = new]
    BY DEF new
  <1> QED BY <1>1, <1>2, <1>3, <1>4, ThreadLemma

LEMMA CountInv == ASSUME EventsInv, NEW t \in Thread, UnsetCount(t) PROVE EventsInv'
  <1> DEFINE x == IF procs = {} THEN "pclose" ELSE "kill"
             n == Cardinality(procs)
  <1>1. EventsTypeOK /\ IsFiniteSet(procs)
    BY ThreadStepLemma
  <1>2. n \in Nat /\ (x = "kill" => n >= 1) /\ x \in {"kill", "pclose"}
    <2>1. n \in Nat /\ (n = 0 <=> procs = {})
      BY <1>1, FS_CardinalityType, FS_EmptySet
    <2> QED BY <2>1
  <1>3. /\ th[t].pc = "count" /\ KeepNet
        /\ UNCHANGED <<procs, launched, buf, open, IwThreadPipePtr, fault, atPopen, alive>>
    BY DEF UnsetCount, At, pipeVars
  <1>4. th' = [th EXCEPT ![t] = [th[t] EXCEPT !.pc = x, !.left = n]]
    <2>1. th' = [th EXCEPT ![t].pc = x, ![t].left = n]
      BY DEF UnsetCount
    <2>2. \A g \in [Thread -> EventThread] : \A y, m :
            [g EXCEPT ![t].pc = y, ![t].left = m] =
            [g EXCEPT ![t] = [g[t] EXCEPT !.pc = y, !.left = m]]
      OBVIOUS
    <2>3. th \in [Thread -> EventThread]
      BY <1>1 DEF EventsTypeOK
    <2> HIDE DEF x, n
    <2> QED BY <2>1, <2>2, <2>3
  <1>5. procs' \subseteq Process /\ IsFiniteSet(procs')
    BY <1>1, <1>3 DEF EventsTypeOK
  <1> HIDE DEF x, n
  <1> QED BY <1>2, <1>3, <1>4, <1>5, UnsetLemma

LEMMA KillInv == ASSUME EventsInv, NEW t \in Thread, UnsetKill(t) PROVE EventsInv'
  <1> DEFINE x == IF th[t].left = 1 THEN "pclose" ELSE "kill"
             n == th[t].left - 1
  <1>1. /\ EventsTypeOK /\ IsFiniteSet(procs) /\ th[t].pc = "kill"
        /\ th \in [Thread -> EventThread] /\ th[t].left >= 1 /\ th[t].left \in Nat
    BY ThreadStepLemma, ThreadFieldLemma DEF UnsetKill, At, EventsTypeOK
  <1>2. n \in Nat /\ (x = "kill" => n >= 1) /\ x \in {"kill", "pclose"}
    BY <1>1
  <1>3. /\ KeepNet /\ procs' = AfterEnd(Newest)
        /\ UNCHANGED <<launched, buf, open, IwThreadPipePtr, fault, atPopen, alive>>
    BY DEF UnsetKill, pipeVars
  <1>4. th' = [th EXCEPT ![t] = [th[t] EXCEPT !.pc = x, !.left = n]]
    <2>1. th' = [th EXCEPT ![t].pc = x, ![t].left = @ - 1]
      BY DEF UnsetKill
    <2>2. \A g \in [Thread -> EventThread] : \A y :
            [g EXCEPT ![t].pc = y, ![t].left = @ - 1] =
            [g EXCEPT ![t] = [g[t] EXCEPT !.pc = y, !.left = g[t].left - 1]]
      BY DEF EventThread
    <2> HIDE DEF x
    <2> QED BY <1>1, <2>1, <2>2
  <1>5. procs' \subseteq Process /\ IsFiniteSet(procs')
    <2>1. Newest \in SUBSET procs
      BY DEF Newest
    <2> QED BY <1>1, <1>3, <2>1, AfterEndLemma DEF EventsTypeOK
  <1> HIDE DEF x, n
  <1> QED BY <1>1, <1>2, <1>3, <1>4, <1>5, UnsetLemma

\* CleanupThread ends with the thread at a step of its destructor.
LEMMA ExitLemma ==
  ASSUME EventsInv, NEW t \in Thread, InDestructor(t), Exit(t), KeepNet,
         procs' = procs, atPopen' \in [Thread -> Nat],
         UNCHANGED <<launched, buf, open, fault, alive>>,
         IwThreadPipePtr' \in {IwThreadPipePtr, None},
         th[t].pc \in {"wait", "null"} => IwThreadPipePtr' = None
  PROVE  EventsInv'
  <1> DEFINE new == [NoThread EXCEPT !.pc = "exited"]
  <1>1. /\ EventsTypeOK /\ IsFiniteSet(procs) /\ Active(t)
        /\ ~overlapped => fault = {}
        /\ ~overlapped => (IwThreadPipePtr' = None \/ IwThreadPipePtr' \in open)
    BY ThreadStepLemma DEF Active
  <1>2. new \in EventThread /\ new.pc = "exited"
    BY NoThreadLemma
  <1>3. th' = [th EXCEPT ![t] = new]
    BY DEF Exit
  <1>4. /\ launched' \in Nat /\ alive' \in BOOLEAN /\ open' \subseteq Thread
        /\ buf' \in [Thread -> Seq(LineSet)] /\ IwThreadPipePtr' \in Thread \cup {None}
        /\ fault' \subseteq {"use_after_close", "double_close"}
        /\ procs' \subseteq Process /\ IsFiniteSet(procs')
    BY <1>1 DEF EventsTypeOK
  <1> HIDE DEF new
  <1> QED BY <1>1, <1>2, <1>3, <1>4, ThreadLemma

LEMMA PcloseInv == ASSUME EventsInv, NEW t \in Thread, Pclose(t) PROVE EventsInv'
  <1> DEFINE f == IwThreadPipePtr
  <1>1. /\ EventsTypeOK /\ IsFiniteSet(procs) /\ th[t] \in EventThread
        /\ th[t].pc = "pclose" /\ InDestructor(t) /\ Active(t)
        /\ ~overlapped => fault = {} /\ (f = None \/ f \in open)
    BY ThreadStepLemma DEF Pclose, At, Active, InDestructor
  <1>2. /\ UNCHANGED <<procs, launched, IwThreadPipePtr, alive>> /\ KeepNet
        /\ atPopen' \in [Thread -> Nat]
    BY <1>1 DEF Pclose, EventsTypeOK
  <1>3. CASE f = None /\ Exit(t) /\ UNCHANGED <<buf, open, fault>>
    BY <1>1, <1>2, <1>3, ExitLemma
  <1>4. CASE /\ f \in open /\ open' = open \ {f} /\ buf' = [buf EXCEPT ![f] = <<>>]
             /\ th' = [th EXCEPT ![t].pc = "wait", ![t].file = f] /\ UNCHANGED fault
    <2> DEFINE new == [th[t] EXCEPT !.pc = "wait", !.file = f]
    <2>1. th' = [th EXCEPT ![t] = new]
      BY <1>4
    <2>2. new = [[th[t] EXCEPT !.pc = "wait"] EXCEPT !.file = f] /\ new.pc = "wait"
      BY <1>1 DEF EventThread
    <2> HIDE DEF new
    <2>3. new \in EventThread
      BY <1>1, <2>2, ThreadFieldLemma DEF EventsTypeOK, EventPC
    <2>4. <<>> \in Seq(LineSet)
      BY EmptySeq
    <2>5. /\ procs' \subseteq Process /\ IsFiniteSet(procs') /\ launched' \in Nat
          /\ alive' \in BOOLEAN /\ open' \subseteq Thread
          /\ buf' \in [Thread -> Seq(LineSet)] /\ IwThreadPipePtr' \in Thread \cup {None}
          /\ fault' \subseteq {"use_after_close", "double_close"}
      BY <1>1, <1>2, <1>4, <2>4 DEF EventsTypeOK
    <2> QED BY <1>1, <1>2, <1>4, <2>1, <2>2, <2>3, <2>5, ThreadLemma
  <1>5. CASE /\ f # None /\ f \notin open /\ fault' = fault \cup {"double_close"}
             /\ Jump(t, "null") /\ UNCHANGED <<buf, open>>
    <2> DEFINE new == [th[t] EXCEPT !.pc = "null"]
    <2>1. th' = [th EXCEPT ![t] = new]
      BY <1>5 DEF Jump
    <2>2. new \in EventThread
      BY <1>1, ThreadFieldLemma DEF EventPC
    <2>3. new.pc = "null"
      BY <1>1 DEF EventThread
    <2>4. /\ procs' \subseteq Process /\ IsFiniteSet(procs') /\ launched' \in Nat
          /\ alive' \in BOOLEAN /\ open' \subseteq Thread
          /\ buf' \in [Thread -> Seq(LineSet)] /\ IwThreadPipePtr' \in Thread \cup {None}
          /\ fault' \subseteq {"use_after_close", "double_close"}
      BY <1>1, <1>2, <1>5 DEF EventsTypeOK
    <2>5. overlapped
      BY <1>1, <1>5
    <2> HIDE DEF new
    <2> QED BY <1>1, <1>2, <2>1, <2>2, <2>3, <2>4, <2>5, ThreadLemma
  <1> QED BY <1>3, <1>4, <1>5 DEF Pclose

LEMMA WaitInv == ASSUME EventsInv, NEW t \in Thread, PcloseWait(t) PROVE EventsInv'
  <1> DEFINE new == [th[t] EXCEPT !.pc = "null"]
  <1>1. /\ EventsTypeOK /\ IsFiniteSet(procs) /\ th[t] \in EventThread /\ Active(t)
        /\ ~overlapped => fault = {}
    BY ThreadStepLemma DEF PcloseWait, At, Active, InDestructor
  <1>2. /\ UNCHANGED <<launched, buf, open, IwThreadPipePtr, fault, atPopen, alive>> /\ KeepNet
        /\ procs' = procs \ EventOf(th[t].file) /\ th' = [th EXCEPT ![t] = new]
    BY DEF PcloseWait, pipeVars, Jump
  <1>3. procs' \subseteq Process /\ IsFiniteSet(procs')
    BY <1>1, <1>2, FS_Subset DEF EventsTypeOK
  <1>4. new \in EventThread
    BY <1>1, ThreadFieldLemma DEF EventPC
  <1>5. new.pc = "null"
    BY <1>1 DEF EventThread
  <1>6. /\ launched' \in Nat /\ alive' \in BOOLEAN /\ open' \subseteq Thread
        /\ atPopen' \in [Thread -> Nat]
        /\ buf' \in [Thread -> Seq(LineSet)] /\ IwThreadPipePtr' \in Thread \cup {None}
        /\ fault' \subseteq {"use_after_close", "double_close"}
    BY <1>1, <1>2 DEF EventsTypeOK
  <1> HIDE DEF new
  <1> QED BY <1>1, <1>2, <1>3, <1>4, <1>5, <1>6, ThreadLemma

LEMMA DestructorInv ==
  ASSUME EventsInv, NEW t \in Thread, DestructorStep(t) PROVE EventsInv'
  <1>1. CASE PipePtrNull(t)
    <2>1. InDestructor(t) /\ atPopen' \in [Thread -> Nat] /\ IwThreadPipePtr' = None
      BY <1>1, ThreadStepLemma DEF PipePtrNull, At, InDestructor, EventsTypeOK
    <2>2. /\ UNCHANGED <<procs, launched, buf, open, fault, alive>> /\ KeepNet /\ Exit(t)
      BY <1>1 DEF PipePtrNull
    <2> QED BY <2>1, <2>2, ExitLemma
  <1>2. CASE CancelledInDestructor(t)
    <2>1. InDestructor(t) /\ atPopen' \in [Thread -> Nat] /\ th[t].pc \in {"count", "kill"}
      BY <1>2, ThreadStepLemma DEF CancelledInDestructor, InDestructor, EventsTypeOK
    <2>2. /\ UNCHANGED <<procs, launched, buf, open, IwThreadPipePtr, fault, alive>>
          /\ KeepNet /\ Exit(t)
      BY <1>2 DEF CancelledInDestructor, pipeVars
    <2> QED BY <2>1, <2>2, ExitLemma
  <1> QED BY <1>1, <1>2, CountInv, KillInv, PcloseInv, WaitInv DEF DestructorStep

-----------------------------------------------------------------------------
(* The verbs, the stations and iw *)

LEMMA HostapdKilledLemma ==
  ASSUME EventsInv, HostapdKilled
  PROVE  /\ buf' \in [Thread -> Seq(LineSet)] /\ stations' \in Nat
         /\ procs' \subseteq Process /\ IsFiniteSet(procs')
  <1> DEFINE new == [i \in 1..stations |-> Line(Own, "del")]
  <1>1. /\ procs \subseteq Process /\ IsFiniteSet(procs) /\ stations \in Nat
        /\ buf \in [Thread -> Seq(LineSet)]
    BY DEF EventsInv, EventsTypeOK
  <1>2. Line(Own, "del") \in LineSet
    BY EventsAssumption DEF Line, LineSet
  <1>3. new \in Seq(LineSet)
    BY <1>1, <1>2, IsASeq
  <1>4. Report(new) /\ stations' = 0
    BY DEF HostapdKilled
  <1> HIDE DEF new
  <1> QED BY <1>1, <1>3, <1>4, ReportLemma

LEMMA LaunchInv == ASSUME EventsInv, Launch PROVE EventsInv'
  <1>1. /\ UNCHANGED <<cur, th, overlapped, lines, launched, open, IwThreadPipePtr, fault,
                      atPopen, alive>>
        /\ up' \in BOOLEAN /\ status' \in {status, "failure"} /\ op' \in {op, "create"}
        /\ HostapdKilled /\ FreshThread # {}
    BY DEF Launch, KeepEvents
  <1>2. EventsTypeOK
    BY DEF EventsInv
  <1>3. EventsTypeOK'
    BY <1>1, <1>2, HostapdKilledLemma DEF EventsTypeOK
  <1> QED BY <1>1, <1>3, HostapdKilledLemma, OthersLemma

LEMMA StopHostapdInv == ASSUME EventsInv, StopHostapd PROVE EventsInv'
  <1>1. /\ UNCHANGED <<cur, th, overlapped, lines, launched, open, IwThreadPipePtr, fault,
                      atPopen, alive>>
        /\ up' = FALSE /\ status' \in {status, "failure"} /\ op = "idle"
        /\ op' \in {op, "cancel"} /\ HostapdKilled
    BY DEF StopHostapd, KeepEvents
  <1>2. EventsTypeOK
    BY DEF EventsInv
  <1>3. EventsTypeOK'
    BY <1>1, <1>2, HostapdKilledLemma DEF EventsTypeOK
  <1> QED BY <1>1, <1>3, HostapdKilledLemma, OthersLemma

LEMMA StopJoinInv == ASSUME EventsInv, StopJoin PROVE EventsInv'
  <1>1. /\ UNCHANGED <<cur, th, up, stations, procs, buf, overlapped, lines, launched, open,
                      IwThreadPipePtr, fault, atPopen, alive>>
        /\ status' = "stopped" /\ op' = "idle"
    BY DEF StopJoin, KeepEvents
  <1>2. EventsTypeOK /\ IsFiniteSet(procs)
    BY DEF EventsInv
  <1>3. EventsTypeOK'
    BY <1>1, <1>2 DEF EventsTypeOK
  <1> QED BY <1>1, <1>2, <1>3, OthersLemma

\* pthread_cancel changes no more of the thread than the request that waits for it.
LEMMA StopCancelInv == ASSUME EventsInv, StopCancel PROVE EventsInv'
  <1>1. /\ UNCHANGED <<status, cur, up, stations, procs, buf, overlapped, lines, launched,
                      open, IwThreadPipePtr, fault, atPopen, alive>>
        /\ op' = "join" /\ th' = [th EXCEPT ![cur].cancel = TRUE]
    BY DEF StopCancel, KeepEvents
  <1>2. /\ EventsTypeOK /\ IsFiniteSet(procs) /\ th \in [Thread -> EventThread]
        /\ Started /\ (~overlapped => PipeAlone)
    BY DEF EventsInv, EventsTypeOK
  <1>3. ASSUME NEW t \in Thread
        PROVE  /\ th'[t] \in EventThread
               /\ th'[t].pc = th[t].pc /\ th'[t].left = th[t].left /\ th'[t].file = th[t].file
    <2>1. CASE t = cur
      <3>1. th'[t] = [th[t] EXCEPT !.cancel = TRUE] /\ th[t] \in EventThread
        BY <1>1, <1>2, <2>1
      <3>2. th'[t] \in EventThread
        BY <3>1, ThreadFieldLemma
      <3>3. th'[t].pc = th[t].pc /\ th'[t].left = th[t].left /\ th'[t].file = th[t].file
        BY <3>1 DEF EventThread
      <3> QED BY <3>2, <3>3
    <2>2. CASE t # cur
      BY <1>1, <1>2, <2>2
    <2> QED BY <2>1, <2>2
  <1>4. th' \in [Thread -> EventThread]
    <2>1. th' = [t \in Thread |-> th'[t]]
      BY <1>1, <1>2
    <2> QED BY <1>3, <2>1
  <1>5. EventsTypeOK'
    BY <1>1, <1>2, <1>4 DEF EventsTypeOK
  <1>6. Started' /\ (~overlapped => PipeAlone')
    <2>1. \A t \in Thread : Active(t)' <=> Active(t)
      BY <1>3 DEF Active, InMain, InDestructor
    <2>2. Started'
      BY <1>1, <1>2, <1>3 DEF Started
    <2>3. ASSUME ~overlapped PROVE PipeAlone'
      BY <1>1, <1>2, <1>3, <2>1, <2>3 DEF PipeAlone
    <2> QED BY <2>2, <2>3
  <1> QED BY <1>1, <1>2, <1>5, <1>6 DEF EventsInv

LEMMA StartThreadInv == ASSUME EventsInv, StartThread PROVE EventsInv'
  <1> DEFINE t == CHOOSE u \in FreshThread : TRUE
             new == [th[t] EXCEPT !.pc = "popen"]
  <1>1. /\ UNCHANGED <<up, stations, procs, buf, lines, launched, open, IwThreadPipePtr,
                      fault, atPopen, alive>>
        /\ op = "create" /\ op' = "idle" /\ status' = "started" /\ cur' = t
        /\ th' = [th EXCEPT ![t] = new]
        /\ overlapped' = (overlapped \/ \E u \in Thread : Active(u))
    BY DEF StartThread, KeepEvents, Active
  <1>2. /\ EventsTypeOK /\ IsFiniteSet(procs) /\ th \in [Thread -> EventThread]
        /\ Started /\ (~overlapped => PipeAlone)
    BY DEF EventsInv, EventsTypeOK
  <1>3. t \in FreshThread
    BY <1>1, <1>2 DEF Started
  <1> HIDE DEF t
  <1>4. t \in Thread /\ th[t] \in EventThread
    BY <1>2, <1>3 DEF FreshThread
  <1>5. new \in EventThread
    BY <1>4, ThreadFieldLemma DEF EventPC
  <1>6. new.pc = "popen"
    BY <1>4 DEF EventThread
  <1> HIDE DEF new
  <1>7. /\ th' \in [Thread -> EventThread] /\ th'[t].pc = "popen"
        /\ \A u \in Thread : u # t => th'[u] = th[u]
    BY <1>1, <1>2, <1>4, <1>5, <1>6
  <1>8. EventsTypeOK'
    <2>1. overlapped' \in BOOLEAN
      BY <1>1, <1>2 DEF EventsTypeOK
    <2> QED BY <1>1, <1>2, <1>4, <1>7, <2>1 DEF EventsTypeOK
  <1>9. Started'
    BY <1>1, <1>2, <1>7 DEF Started
  <1>10. ASSUME ~overlapped' PROVE PipeAlone'
    <2>1. ~overlapped /\ PipeAlone /\ \A u \in Thread : ~Active(u)
      BY <1>1, <1>2, <1>10
    <2>2. \A u \in Thread : u # t => ~Active(u)'
      BY <1>7, <2>1 DEF Active, InMain, InDestructor
    <2>3. \A u \in Thread : th'[u].pc \notin {"fgets", "read"}
      BY <1>7, <2>1 DEF Active, InMain, InDestructor
    <2>4. IwThreadPipePtr = None \/ IwThreadPipePtr \in open
      BY <2>1 DEF PipeAlone, Active, InDestructor
    <2> QED BY <1>1, <2>1, <2>2, <2>3, <2>4 DEF PipeAlone
  <1> QED BY <1>1, <1>2, <1>8, <1>9, <1>10 DEF EventsInv

LEMMA StationInv ==
  ASSUME EventsInv, NEW i \in Interface, NEW what \in {"new", "del"}, StationChange(i, what)
  PROVE  EventsInv'
  <1>1. /\ UNCHANGED <<status, op, cur, up, launched, open, IwThreadPipePtr, fault, th,
                      overlapped, atPopen, alive>>
        /\ lines' = lines + 1 /\ Report(<<Line(i, what)>>)
    BY DEF StationChange, verbVars
  <1>2. EventsTypeOK /\ IsFiniteSet(procs) /\ Started /\ stations' \in Nat
    <2>1. \/ UNCHANGED stations \/ stations' = stations + 1
          \/ (stations > 0 /\ stations' = stations - 1)
      BY DEF StationChange
    <2> QED BY <2>1 DEF EventsInv, EventsTypeOK
  <1>3. <<Line(i, what)>> \in Seq(LineSet)
    BY DEF Line, LineSet
  <1>4. buf' \in [Thread -> Seq(LineSet)] /\ procs' \subseteq Process /\ IsFiniteSet(procs')
    BY <1>1, <1>2, <1>3, ReportLemma DEF EventsTypeOK
  <1>5. EventsTypeOK'
    BY <1>1, <1>2, <1>4 DEF EventsTypeOK
  <1> QED BY <1>1, <1>2, <1>4, <1>5, OthersLemma DEF Started

LEMMA ProcessInv ==
  ASSUME EventsInv, QueryPopen \/ DumpEnds \/ \E t \in Thread : IwDies(t) PROVE EventsInv'
  <1>1. UNCHANGED <<status, op, cur, up, stations, lines, buf, open, IwThreadPipePtr, fault,
                    th, overlapped, atPopen, alive>>
    BY DEF QueryPopen, DumpEnds, IwDies, verbVars, netVars, pipeVars, KeepNet
  <1>2. /\ EventsTypeOK /\ IsFiniteSet(procs) /\ Started
        /\ procs \subseteq Process /\ launched \in Nat
    BY DEF EventsInv, EventsTypeOK
  <1>3. procs' \subseteq Process /\ IsFiniteSet(procs') /\ launched' \in Nat
    <2>1. CASE QueryPopen
      BY <1>2, <2>1, LaunchLemma DEF QueryPopen
    <2>2. CASE DumpEnds
      <3>1. PICK p \in procs : procs' = AfterEnd({p})
        BY <2>2 DEF DumpEnds
      <3>2. {p} \in SUBSET procs /\ launched' = launched
        BY <2>2 DEF DumpEnds
      <3> QED BY <1>2, <3>1, <3>2, AfterEndLemma
    <2>3. ASSUME NEW t \in Thread, IwDies(t)
          PROVE  procs' \subseteq Process /\ IsFiniteSet(procs') /\ launched' \in Nat
      <3>1. EventOf(t) \in SUBSET procs
        BY DEF EventOf
      <3>2. procs' = AfterEnd(EventOf(t)) /\ launched' = launched
        BY <2>3 DEF IwDies
      <3> QED BY <1>2, <3>1, <3>2, AfterEndLemma
    <2> QED BY <2>1, <2>2, <2>3
  <1>4. EventsTypeOK'
    BY <1>1, <1>2, <1>3 DEF EventsTypeOK
  <1> QED BY <1>1, <1>2, <1>3, <1>4, OthersLemma DEF Started

-----------------------------------------------------------------------------
(* Theorems *)

LEMMA InitEvents == Init => EventsInv
  <1> SUFFICES ASSUME Init PROVE EventsInv
    OBVIOUS
  <1>1. \A t \in Thread : th[t] = NoThread /\ th[t].pc = "none"
    BY DEF Init, NoThread
  <1>2. NoThread \in EventThread
    <2>1. FALSE \in BOOLEAN
      OBVIOUS
    <2> QED BY <2>1 DEF NoThread, EventThread
  <1>3. <<>> \in Seq(LineSet)
    BY EmptySeq
  <1>4. EventsTypeOK
    BY <1>2, <1>3 DEF Init, EventsTypeOK
  <1>5. IsFiniteSet(procs)
    BY FS_EmptySet DEF Init
  <1>6. Started /\ PipeAlone
    BY <1>1 DEF Init, Started, PipeAlone, Active, InMain, InDestructor
  <1> QED BY <1>4, <1>5, <1>6 DEF EventsInv

LEMMA EventsInductive == EventsInv /\ [Next]_vars => EventsInv'
  <1> SUFFICES ASSUME EventsInv, [Next]_vars PROVE EventsInv'
    OBVIOUS
  <1>1. CASE VerbStep
    BY <1>1, LaunchInv, StartThreadInv, StopHostapdInv, StopCancelInv, StopJoinInv DEF VerbStep
  <1>2. CASE \E i \in Interface, what \in {"new", "del"} : StationChange(i, what)
    BY <1>2, StationInv
  <1>3. CASE \E t \in Thread : MainStep(t)
    BY <1>3, PopenInv, FgetsInv, GetLineInv, EofInv, CancelInv DEF MainStep
  <1>4. CASE \E t \in Thread : DestructorStep(t)
    BY <1>4, DestructorInv
  <1>5. CASE QueryPopen \/ DumpEnds \/ \E t \in Thread : IwDies(t)
    BY <1>5, ProcessInv
  <1>6. CASE UNCHANGED vars
    <2>1. /\ UNCHANGED <<status, op, cur, up, stations, lines, procs, launched, buf, open,
                        IwThreadPipePtr, fault, th, overlapped, atPopen, alive>>
      BY <1>6 DEF vars, verbVars, netVars, pipeVars
    <2>2. EventsTypeOK /\ IsFiniteSet(procs) /\ Started
      BY DEF EventsInv
    <2>3. EventsTypeOK'
      BY <2>1, <2>2 DEF EventsTypeOK
    <2> QED BY <2>1, <2>2, <2>3, OthersLemma DEF Started
  <1> QED BY <1>1, <1>2, <1>3, <1>4, <1>5, <1>6 DEF Next

LEMMA EventsInvariant == Spec => []EventsInv
  BY InitEvents, EventsInductive, PTL DEF Spec

\* The state of the event threads, of their pipes and of iw keeps its type; the loop of
\* WIFI_UNSET_EVENT never counts below zero.
THEOREM EventTypes == Spec => []EventsTypeOK
  <1>1. EventsInv => EventsTypeOK
    BY DEF EventsInv
  <1> QED BY <1>1, EventsInvariant, PTL

\* For any number of starts and stops in a row and any failures of popen, iw and hostapd,
\* the static IwThreadPipePtr is never NULL where fgets reads it, no pipe is read or
\* closed after pclose, as long as a thread was never started before another ended.
THEOREM PipeNeverMisused == Spec => []PipeSafe
  <1>1. EventsInv => PipeSafe
    BY DEF EventsInv, PipeAlone, PipeSafe
  <1> QED BY <1>1, EventsInvariant, PTL

-----------------------------------------------------------------------------
(* Counting lines *)

LineAt(s, l) == {i \in DOMAIN s : s[i] = l}

LEMMA LineAtLemma ==
  ASSUME NEW s \in Seq(LineSet), NEW l
  PROVE  IsFiniteSet(LineAt(s, l)) /\ Cardinality(LineAt(s, l)) \in Nat
  <1>1. Len(s) \in Nat /\ DOMAIN s = 1..Len(s)
    BY LenProperties
  <1>2. IsFiniteSet(1..Len(s))
    BY <1>1, FS_Interval
  <1>3. LineAt(s, l) \in SUBSET (1..Len(s))
    BY <1>1 DEF LineAt
  <1>4. IsFiniteSet(LineAt(s, l))
    BY <1>2, <1>3, FS_Subset
  <1> QED BY <1>4, FS_CardinalityType

LEMMA LineAtConcat ==
  ASSUME NEW s \in Seq(LineSet), NEW u \in Seq(LineSet), NEW l
  PROVE  Cardinality(LineAt(s \o u, l)) = Cardinality(LineAt(s, l)) + Cardinality(LineAt(u, l))
  <1> DEFINE n == Len(s)
             A == LineAt(s, l)
             B == LineAt(u, l)
             C == {i + n : i \in B}
             move == [i \in B |-> i + n]
  <1>1. /\ n \in Nat /\ DOMAIN s = 1..n
        /\ Len(u) \in Nat /\ DOMAIN u = 1..Len(u)
        /\ s \o u \in Seq(LineSet) /\ Len(s \o u) = n + Len(u)
        /\ DOMAIN (s \o u) = 1..(n + Len(u))
        /\ \A i \in 1..(n + Len(u)) : (s \o u)[i] = IF i <= n THEN s[i] ELSE u[i - n]
    <2>1. s \o u \in Seq(LineSet) /\ Len(s \o u) = n + Len(u)
          /\ \A i \in 1..(n + Len(u)) : (s \o u)[i] = IF i <= n THEN s[i] ELSE u[i - n]
      BY ConcatProperties
    <2> QED BY <2>1, LenProperties
  <1>2. LineAt(s \o u, l) = A \cup C
    <2>1. ASSUME NEW i \in LineAt(s \o u, l) PROVE i \in A \cup C
      <3>1. i \in 1..(n + Len(u)) /\ (s \o u)[i] = l
        BY <1>1 DEF LineAt
      <3>2. CASE i <= n
        BY <1>1, <3>1, <3>2 DEF LineAt
      <3>3. CASE ~(i <= n)
        <4>1. i - n \in 1..Len(u) /\ u[i - n] = l /\ i = (i - n) + n
          BY <1>1, <3>1, <3>3
        <4>2. i - n \in B
          BY <1>1, <4>1 DEF LineAt
        <4> QED BY <4>1, <4>2
      <3> QED BY <3>2, <3>3
    <2>2. ASSUME NEW i \in A PROVE i \in LineAt(s \o u, l)
      <3>1. i \in 1..n /\ s[i] = l
        BY <1>1 DEF LineAt
      <3>2. i \in 1..(n + Len(u)) /\ i <= n
        BY <1>1, <3>1
      <3> QED BY <1>1, <3>1, <3>2 DEF LineAt
    <2>3. ASSUME NEW i \in B PROVE i + n \in LineAt(s \o u, l)
      <3>1. i \in 1..Len(u) /\ u[i] = l
        BY <1>1 DEF LineAt
      <3>2. i + n \in 1..(n + Len(u)) /\ ~(i + n <= n) /\ (i + n) - n = i
        BY <1>1, <3>1
      <3> QED BY <1>1, <3>1, <3>2 DEF LineAt
    <2> QED BY <2>1, <2>2, <2>3
  <1>3. B \subseteq Int /\ (\A i \in A : i <= n) /\ (\A j \in B : j >= 1)
    BY <1>1 DEF LineAt
  <1>4. IsFiniteSet(A) /\ IsFiniteSet(B) /\ Cardinality(A) \in Nat /\ Cardinality(B) \in Nat
    BY LineAtLemma
  <1> HIDE DEF A, B, n
  <1>5. A \cap C = {}
    BY <1>1, <1>3
  <1>6. move \in Bijection(B, C)
    <2>1. move \in [B -> C] /\ \A i \in B : move[i] = i + n
      OBVIOUS
    <2>2. \A i, j \in B : move[i] = move[j] => i = j
      BY <1>1, <1>3, <2>1
    <2>3. \A k \in C : \E i \in B : move[i] = k
      BY <2>1
    <2> HIDE DEF move, C
    <2> QED BY <2>1, <2>2, <2>3 DEF Bijection, Injection, Surjection, IsInjective
  <1>7. ExistsBijection(B, C)
    BY <1>6 DEF ExistsBijection
  <1> HIDE DEF C
  <1>8. IsFiniteSet(C) /\ Cardinality(C) = Cardinality(B)
    BY <1>4, <1>7, FS_Bijection
  <1>9. Cardinality(A \cup C) = Cardinality(A) + Cardinality(C) - Cardinality({})
    BY <1>4, <1>5, <1>8, FS_Union
  <1> QED BY <1>2, <1>4, <1>8, <1>9, FS_EmptySet DEF A, B

LEMMA NetConcat ==
  ASSUME NEW s \in Seq(LineSet), NEW u \in Seq(LineSet)
  PROVE  /\ Net(s) \in Int /\ Net(u) \in Int
         /\ Net(s \o u) = Net(s) + Net(u)
  <1> DEFINE new == Line(Own, "new")
             del == Line(Own, "del")
  <1>1. \A t : Net(t) = Cardinality(LineAt(t, new)) - Cardinality(LineAt(t, del))
    BY DEF Net, LineAt
  <1> HIDE DEF new, del
  <1>2. /\ Cardinality(LineAt(s, new)) \in Nat /\ Cardinality(LineAt(s, del)) \in Nat
        /\ Cardinality(LineAt(u, new)) \in Nat /\ Cardinality(LineAt(u, del)) \in Nat
    BY LineAtLemma
  <1>3. /\ Cardinality(LineAt(s \o u, new)) = Cardinality(LineAt(s, new)) + Cardinality(LineAt(u, new))
        /\ Cardinality(LineAt(s \o u, del)) = Cardinality(LineAt(s, del)) + Cardinality(LineAt(u, del))
    BY LineAtConcat
  <1> QED BY <1>1, <1>2, <1>3

LEMMA NetEmpty == Net(<<>>) = 0
  <1>1. \A l : LineAt(<<>>, l) = {}
    BY DEF LineAt
  <1> QED BY <1>1, FS_EmptySet DEF Net, LineAt

\* Lines that are all the same.
LEMMA NetRepeat ==
  ASSUME NEW n \in Nat, NEW interface, NEW what \in {"new", "del"}
  PROVE  Net([i \in 1..n |-> Line(interface, what)]) =
           IF interface # Own THEN 0 ELSE IF what = "new" THEN n ELSE -n
  <1> DEFINE s == [i \in 1..n |-> Line(interface, what)]
  <1>1. \A w \in {"new", "del"} : Line(interface, what) = Line(Own, w)
                                    <=> interface = Own /\ what = w
    BY DEF Line
  <1>2. \A w \in {"new", "del"} :
          LineAt(s, Line(Own, w)) = IF interface = Own /\ what = w THEN 1..n ELSE {}
    BY <1>1 DEF LineAt
  <1>3. Cardinality(1..n) = n /\ Cardinality({}) = 0
    BY FS_Interval, FS_EmptySet
  <1>4. Net(s) = Cardinality(LineAt(s, Line(Own, "new"))) - Cardinality(LineAt(s, Line(Own, "del")))
    BY DEF Net, LineAt
  <1> HIDE DEF s
  <1>5. /\ Cardinality(LineAt(s, Line(Own, "new"))) = IF interface = Own /\ what = "new" THEN n ELSE 0
        /\ Cardinality(LineAt(s, Line(Own, "del"))) = IF interface = Own /\ what = "del" THEN n ELSE 0
    BY <1>2, <1>3, Zenon
  <1>6. n - 0 = n /\ 0 - n = -n /\ 0 - 0 = 0
    OBVIOUS
  <1> QED BY <1>4, <1>5, <1>6 DEF s

\* client-state adds to the counter what the line it read stood for, if no other
\* interface has a name that contains that of the access point.
LEMMA CountLemma ==
  ASSUME Matching = {Own}, NEW s \in Seq(LineSet), s # <<>>, NEW n \in Int
  PROVE  /\ Tail(s) \in Seq(LineSet) /\ Count(n, Head(s)) \in Int
         /\ Count(n, Head(s)) + Net(Tail(s)) = n + Net(s)
  <1> DEFINE l == Head(s)
             one == [i \in 1..1 |-> l]
  <1>1. /\ l \in LineSet /\ Tail(s) \in Seq(LineSet) /\ Len(Tail(s)) = Len(s) - 1
        /\ Len(s) \in Nat /\ Len(s) # 0
        /\ \A i \in 1..Len(Tail(s)) : Tail(s)[i] = s[i + 1]
    BY HeadTailProperties, EmptySeq
  <1>2. l = s[1]
    BY <1>1
  <1>3. l = Line(l.interface, l.what) /\ l.what \in {"new", "del"}
    BY <1>1 DEF LineSet, Line
  <1> HIDE DEF l
  <1>4. one \in Seq(LineSet) /\ Len(one) = 1 /\ one[1] = l
    <2>1. one = <<l>>
      OBVIOUS
    <2> QED BY <1>1, <2>1
  <1>5. Net(one) = IF l.interface # Own THEN 0 ELSE IF l.what = "new" THEN 1 ELSE -1
    <2> DEFINE other == [i \in 1..1 |-> Line(l.interface, l.what)]
    <2>1. one = other
      BY <1>3
    <2>2. Net(other) = IF l.interface # Own THEN 0 ELSE IF l.what = "new" THEN 1 ELSE -1
      BY <1>3, NetRepeat
    <2> HIDE DEF one, other
    <2> QED BY <2>1, <2>2
  <1> HIDE DEF one
  <1>6. s = one \o Tail(s)
    <2>1. /\ one \o Tail(s) \in Seq(LineSet) /\ Len(one \o Tail(s)) = 1 + Len(Tail(s))
          /\ \A i \in 1..(1 + Len(Tail(s))) :
               (one \o Tail(s))[i] = IF i <= 1 THEN one[i] ELSE Tail(s)[i - 1]
      <3> DEFINE t == Tail(s)
      <3>1. t \in Seq(LineSet) /\ one \in Seq(LineSet)
        BY <1>1, <1>4
      <3> HIDE DEF t
      <3>2. /\ one \o t \in Seq(LineSet) /\ Len(one \o t) = Len(one) + Len(t)
            /\ \A i \in 1..(Len(one) + Len(t)) :
                 (one \o t)[i] = IF i <= Len(one) THEN one[i] ELSE t[i - Len(one)]
        BY <3>1, ConcatProperties
      <3> QED BY <1>4, <3>2 DEF t
    <2>2. ASSUME NEW i \in 1..Len(s) PROVE (one \o Tail(s))[i] = s[i]
      <3>1. CASE i = 1
        BY <1>1, <1>2, <1>4, <2>1, <3>1
      <3>2. CASE i # 1
        <4>1. i - 1 \in 1..Len(Tail(s)) /\ i \in 1..(1 + Len(Tail(s))) /\ ~(i <= 1) /\ (i - 1) + 1 = i
          BY <1>1, <3>2
        <4>2. Tail(s)[i - 1] = s[(i - 1) + 1]
          BY <1>1, <4>1
        <4> QED BY <2>1, <4>1, <4>2
      <3> QED BY <3>1, <3>2
    <2>3. Len(one \o Tail(s)) = Len(s)
      BY <1>1, <2>1
    <2> QED BY <2>1, <2>2, <2>3, SeqEqual
  <1>7. Net(s) = Net(one) + Net(Tail(s)) /\ Net(Tail(s)) \in Int
    BY <1>1, <1>4, <1>6, NetConcat
  <1>8. Count(n, l) = IF l.interface # Own THEN n ELSE IF l.what = "new" THEN n + 1 ELSE n - 1
    BY DEF Count
  <1> QED BY <1>1, <1>5, <1>7, <1>8 DEF l

-----------------------------------------------------------------------------
(* The counter of clients *)

\* A thread that did not launch its "iw event" yet has an empty pipe and the counter at 0.
CounterInv ==
  /\ \A t \in Thread : th[t].pc \in {"none", "popen"} =>
       EventOf(t) = {} /\ buf[t] = <<>> /\ th[t].number = 0
  /\ ~overlapped =>
       \A t \in Thread : th[t].pc \in {"fgets", "read"} /\ Running(t) =>
         th[t].number + Net(buf[t]) = stations - atPopen[t]

\* No process is launched and none runs again.
Shrink ==
  \A t \in Thread : /\ EventOf(t) = {} => (EventOf(t) = {})'
                    /\ Running(t)' => Running(t)

LEMMA AfterEndShrinks ==
  ASSUME procs \subseteq Process, NEW P \in SUBSET procs, procs' = AfterEnd(P)
  PROVE  Shrink
  <1>1. \A q \in P : LET r == [q EXCEPT !.runs = FALSE] IN
                     /\ r.what = q.what /\ r.of = q.of /\ ~r.runs
    BY DEF Process
  <1>2. ASSUME NEW p \in procs'
        PROVE  /\ \E q \in procs : p.what = q.what /\ p.of = q.of
               /\ p.runs => p \in procs
    <2>1. p \in procs \ P \/ \E q \in P : p = [q EXCEPT !.runs = FALSE]
      BY <1>2 DEF AfterEnd
    <2> QED BY <1>1, <2>1
  <1>3. ASSUME NEW t \in Thread
        PROVE  /\ EventOf(t) = {} => (EventOf(t) = {})'
               /\ Running(t)' => Running(t)
    BY <1>2 DEF EventOf, Running
  <1> QED BY <1>3 DEF Shrink

LEMMA FewerShrinks == ASSUME procs' \subseteq procs PROVE Shrink
  BY DEF Shrink, EventOf, Running

LEMMA QuietLemma ==
  ASSUME CounterInv, Shrink,
         \A t \in Thread : th'[t].pc \in {"none", "popen"} =>
           /\ th[t].pc \in {"none", "popen"} /\ th'[t].number = th[t].number
           /\ buf[t] = <<>> => buf'[t] = <<>>,
         ~overlapped' => ~overlapped,
         \A t \in Thread : ~overlapped /\ th'[t].pc \in {"fgets", "read"} =>
           /\ th[t].pc \in {"fgets", "read"} /\ th'[t].number = th[t].number
           /\ buf'[t] = buf[t] /\ stations' = stations /\ atPopen'[t] = atPopen[t]
  PROVE  CounterInv'
  BY DEF CounterInv, Shrink

LEMMA QuietThread ==
  ASSUME EventsInv, CounterInv, NEW t \in Thread, Active(t), Shrink, KeepNet,
         NEW new \in EventThread, th' = [th EXCEPT ![t] = new],
         new.pc \notin {"none", "popen"},
         new.pc \in {"fgets", "read"} =>
           /\ th[t].pc \in {"fgets", "read"} /\ new.number = th[t].number
           /\ buf'[t] = buf[t] /\ atPopen'[t] = atPopen[t],
         \A u \in Thread : buf[u] = <<>> => buf'[u] = <<>>
  PROVE  CounterInv'
  <1>1. overlapped' = overlapped /\ stations' = stations
    BY DEF KeepNet, netVars
  <1>2. th'[t] = new /\ \A u \in Thread : u # t => th'[u] = th[u]
    BY DEF EventsInv, EventsTypeOK
  <1>3. \A u \in Thread : ~overlapped /\ u # t => ~Active(u)
    BY DEF EventsInv, PipeAlone
  <1>4. \A u \in Thread : ~overlapped /\ th'[u].pc \in {"fgets", "read"} => u = t
    BY <1>2, <1>3 DEF Active, InMain
  <1> QED BY <1>1, <1>2, <1>4, QuietLemma

LEMMA CounterPopen ==
  ASSUME EventsInv, CounterInv, NEW t \in Thread, Popen(t) PROVE CounterInv'
  <1>1. /\ th[t] \in EventThread /\ th[t].pc = "popen" /\ Active(t) /\ KeepNet /\ buf' = buf
        /\ th \in [Thread -> EventThread] /\ atPopen \in [Thread -> Nat] /\ stations \in Nat
    BY DEF EventsInv, EventsTypeOK, Popen, At, Active, InMain
  <1>2. CASE /\ LaunchIw("event", t) /\ Jump(t, "fgets")
             /\ atPopen' = [atPopen EXCEPT ![t] = stations]
    <2>1. th' = [th EXCEPT ![t] = [th[t] EXCEPT !.pc = "fgets"]]
      BY <1>2 DEF Jump
    <2>2. /\ th'[t].pc = "fgets" /\ th'[t].number = th[t].number
          /\ \A u \in Thread : u # t => th'[u] = th[u]
      BY <1>1, <2>1 DEF EventThread
    <2>3. ASSUME NEW u \in Thread, u # t PROVE EventOf(u)' = EventOf(u)
      BY <1>2, <2>3 DEF LaunchIw, EventOf
    <2>4. buf[t] = <<>> /\ th[t].number = 0
      BY <1>1 DEF CounterInv
    <2>5. \A u \in Thread : ~overlapped /\ th'[u].pc \in {"fgets", "read"} => u = t
      BY <1>1, <2>2 DEF EventsInv, PipeAlone, Active, InMain
    <2>6. th'[t].number + Net(buf'[t]) = stations' - atPopen'[t]
      BY <1>1, <1>2, <2>2, <2>4, NetEmpty DEF KeepNet, netVars
    <2>7. overlapped' = overlapped
      BY <1>1 DEF KeepNet
    <2>8. \A u \in Thread : th'[u].pc \in {"none", "popen"} =>
            (EventOf(u) = {})' /\ buf'[u] = <<>> /\ th'[u].number = 0
      BY <1>1, <2>2, <2>3 DEF CounterInv
    <2> QED BY <2>5, <2>6, <2>7, <2>8 DEF CounterInv
  <1>3. CASE Return(t) /\ UNCHANGED <<procs, atPopen>>
    <2> DEFINE new == [th[t] EXCEPT !.pc = "count", !.popped = TRUE]
    <2>1. th' = [th EXCEPT ![t] = new] /\ new \in EventThread /\ new.pc = "count"
      BY <1>1, <1>3, ReturnLemma DEF Return
    <2> HIDE DEF new
    <2> QED BY <1>1, <1>3, <2>1, FewerShrinks, QuietThread
  <1> QED BY <1>2, <1>3 DEF Popen

LEMMA CounterGetLine ==
  ASSUME Matching = {Own}, EventsInv, CounterInv, NEW t \in Thread, GetLine(t)
  PROVE  CounterInv'
  <1> DEFINE f == th[t].file
             n == Count(th[t].number, Head(buf[f]))
  <1>1. /\ th[t] \in EventThread /\ th[t].pc = "read" /\ Active(t)
        /\ f \in Thread /\ buf[f] # <<>> /\ buf[f] \in Seq(LineSet)
        /\ th \in [Thread -> EventThread] /\ th[t].number \in Int
        /\ buf \in [Thread -> Seq(LineSet)]
        /\ ~overlapped => f = t
    BY ThreadFieldLemma DEF EventsInv, EventsTypeOK, GetLine, At, Active, InMain, PipeAlone
  <1>2. /\ UNCHANGED <<procs, atPopen, overlapped, stations>>
        /\ th' = [th EXCEPT ![t] = [th[t] EXCEPT !.pc = "fgets", !.number = n]]
        /\ buf' = [buf EXCEPT ![f] = Tail(buf[f])]
    BY DEF GetLine, KeepNet, netVars
  <1>3. n \in Int /\ n + Net(Tail(buf[f])) = th[t].number + Net(buf[f])
    BY <1>1, CountLemma
  <1> HIDE DEF n
  <1>4. /\ th'[t].pc = "fgets" /\ th'[t].number = n
        /\ \A u \in Thread : u # t => th'[u] = th[u]
    BY <1>1, <1>2 DEF EventThread
  <1>5. \A u \in Thread : EventOf(u)' = EventOf(u) /\ Running(u)' = Running(u)
    BY <1>2 DEF EventOf, Running
  <1>6. \A u \in Thread : th'[u].pc \in {"none", "popen"} =>
          (EventOf(u) = {})' /\ buf'[u] = <<>> /\ th'[u].number = 0
    <2> SUFFICES ASSUME NEW u \in Thread, th'[u].pc \in {"none", "popen"}
                 PROVE  (EventOf(u) = {})' /\ buf'[u] = <<>> /\ th'[u].number = 0
      OBVIOUS
    <2>1. u # t /\ th'[u] = th[u]
      BY <1>4
    <2>2. EventOf(u) = {} /\ buf[u] = <<>> /\ th[u].number = 0
      BY <2>1 DEF CounterInv
    <2>3. u # f
      BY <1>1, <2>2
    <2> QED BY <1>1, <1>2, <1>5, <2>1, <2>2, <2>3
  <1>7. ASSUME ~overlapped, NEW u \in Thread, th'[u].pc \in {"fgets", "read"}, Running(u)'
        PROVE  th'[u].number + Net(buf'[u]) = stations' - atPopen'[u]
    <2>1. u = t
      BY <1>1, <1>4, <1>7 DEF EventsInv, PipeAlone, Active, InMain
    <2>2. Running(t) /\ f = t /\ buf'[t] = Tail(buf[f])
      BY <1>1, <1>2, <1>5, <1>7, <2>1
    <2>3. th[t].number + Net(buf[t]) = stations - atPopen[t]
      BY <1>1, <1>7, <2>2 DEF CounterInv
    <2> QED BY <1>2, <1>3, <1>4, <2>1, <2>2, <2>3
  <1> QED BY <1>2, <1>6, <1>7 DEF CounterInv

LEMMA CounterMain ==
  ASSUME EventsInv, CounterInv, NEW t \in Thread, Fgets(t) \/ Eof(t) \/ ActOnCancel(t)
  PROVE  CounterInv'
  <1>1. /\ th[t] \in EventThread /\ Active(t) /\ KeepNet /\ th \in [Thread -> EventThread]
        /\ UNCHANGED <<procs, buf, atPopen>>
    BY DEF EventsInv, EventsTypeOK, Fgets, Eof, ActOnCancel, At, Active, InMain, pipeVars
  <1>2. Shrink
    BY <1>1, FewerShrinks
  <1>3. CASE th' = th
    BY <1>1, <1>2, <1>3, QuietLemma DEF KeepNet, netVars
  <1>4. CASE th[t].pc = "fgets" /\
             th' = [th EXCEPT ![t].pc = "read", ![t].file = IwThreadPipePtr]
    <2> DEFINE new == [th[t] EXCEPT !.pc = "read", !.file = IwThreadPipePtr]
    <2>1. th' = [th EXCEPT ![t] = new]
      BY <1>4
    <2>2. /\ new = [[th[t] EXCEPT !.pc = "read"] EXCEPT !.file = IwThreadPipePtr]
          /\ new.pc = "read" /\ new.number = th[t].number
      BY <1>1 DEF EventThread
    <2> HIDE DEF new
    <2>3. new \in EventThread
      BY <1>1, <2>2, ThreadFieldLemma DEF EventsInv, EventsTypeOK, EventPC
    <2> QED BY <1>1, <1>2, <1>4, <2>1, <2>2, <2>3, QuietThread
  <1>5. CASE Return(t)
    <2> DEFINE new == [th[t] EXCEPT !.pc = "count", !.popped = TRUE]
    <2>1. th' = [th EXCEPT ![t] = new] /\ new \in EventThread /\ new.pc = "count"
      BY <1>1, <1>5, ReturnLemma DEF Return
    <2> HIDE DEF new
    <2> QED BY <1>1, <1>2, <2>1, QuietThread
  <1>6. CASE Jump(t, "count")
    <2> DEFINE new == [th[t] EXCEPT !.pc = "count"]
    <2>1. new \in EventThread
      BY <1>1, ThreadFieldLemma DEF EventPC
    <2>2. th' = [th EXCEPT ![t] = new] /\ new.pc = "count"
      BY <1>1, <1>6 DEF Jump, EventThread
    <2> HIDE DEF new
    <2> QED BY <1>1, <1>2, <2>1, <2>2, QuietThread
  <1> QED BY <1>3, <1>4, <1>5, <1>6 DEF Fgets, Eof, ActOnCancel, At

LEMMA CounterDestructor ==
  ASSUME EventsInv, CounterInv, NEW t \in Thread, DestructorStep(t)
  PROVE  CounterInv'
  <1>1. /\ th[t] \in EventThread /\ th \in [Thread -> EventThread]
        /\ procs \subseteq Process /\ buf \in [Thread -> Seq(LineSet)]
    BY DEF EventsInv, EventsTypeOK
  <1>2. /\ InDestructor(t) /\ KeepNet
        /\ \A u \in Thread : buf[u] = <<>> => buf'[u] = <<>>
    BY <1>1 DEF DestructorStep, UnsetCount, UnsetKill, Pclose, PcloseWait, PipePtrNull,
                CancelledInDestructor, At, InDestructor, pipeVars
  <1>3. Shrink
    <2>1. CASE UnsetKill(t)
      <3>1. Newest \in SUBSET procs /\ procs' = AfterEnd(Newest)
        BY <2>1 DEF UnsetKill, Newest
      <3> QED BY <1>1, <3>1, AfterEndShrinks
    <2>2. CASE procs' \subseteq procs
      BY <2>2, FewerShrinks
    <2> QED BY <2>1, <2>2 DEF DestructorStep, UnsetCount, Pclose, PcloseWait, PipePtrNull,
                              CancelledInDestructor
  <1>4. \E new \in EventThread : /\ th' = [th EXCEPT ![t] = new]
                                 /\ new.pc \notin {"none", "popen", "fgets", "read"}
    <2>1. ASSUME NEW pc \in EventPC \ {"none", "popen", "fgets", "read"}, NEW n,
                 NEW f \in Thread \cup {None},
                 \/ th' = [th EXCEPT ![t].pc = pc]
                 \/ n \in Nat /\ th' = [th EXCEPT ![t].pc = pc, ![t].left = n]
                 \/ th' = [th EXCEPT ![t].pc = pc, ![t].file = f]
          PROVE  \E new \in EventThread : /\ th' = [th EXCEPT ![t] = new]
                                          /\ new.pc \notin {"none", "popen", "fgets", "read"}
      <3> DEFINE at == [th[t] EXCEPT !.pc = pc]
      <3>1. at \in EventThread /\ at.pc = pc
        BY <1>1, ThreadFieldLemma DEF EventThread
      <3>2. CASE th' = [th EXCEPT ![t].pc = pc]
        BY <3>1, <3>2
      <3>3. CASE n \in Nat /\ th' = [th EXCEPT ![t].pc = pc, ![t].left = n]
        <4> DEFINE new == [th[t] EXCEPT !.pc = pc, !.left = n]
        <4>1. th' = [th EXCEPT ![t] = new] /\ new = [at EXCEPT !.left = n] /\ new.pc = pc
          BY <1>1, <3>3 DEF EventThread
        <4> HIDE DEF at, new
        <4>2. new \in EventThread
          BY <3>1, <3>3, <4>1, ThreadFieldLemma
        <4> QED BY <4>1, <4>2
      <3>4. CASE th' = [th EXCEPT ![t].pc = pc, ![t].file = f]
        <4> DEFINE new == [th[t] EXCEPT !.pc = pc, !.file = f]
        <4>1. th' = [th EXCEPT ![t] = new] /\ new = [at EXCEPT !.file = f] /\ new.pc = pc
          BY <1>1, <3>4 DEF EventThread
        <4> HIDE DEF at, new
        <4>2. new \in EventThread
          BY <3>1, <4>1, ThreadFieldLemma
        <4> QED BY <4>1, <4>2
      <3> QED BY <2>1, <3>2, <3>3, <3>4
    <2>2. CASE UnsetCount(t)
      <3> DEFINE pc == IF procs = {} THEN "pclose" ELSE "kill"
      <3>1. /\ Cardinality(procs) \in Nat /\ pc \in EventPC \ {"none", "popen", "fgets", "read"}
            /\ th' = [th EXCEPT ![t].pc = pc, ![t].left = Cardinality(procs)]
        BY <2>2, FS_CardinalityType DEF UnsetCount, EventPC, EventsInv
      <3> QED BY <2>1, <3>1
    <2>3. CASE UnsetKill(t)
      <3> DEFINE pc == IF th[t].left = 1 THEN "pclose" ELSE "kill"
      <3>1. th[t].left - 1 \in Nat
        <4> DEFINE left == th[t].left
        <4>1. left \in Nat
          BY <1>1, ThreadFieldLemma
        <4>2. left >= 1
          BY <2>3 DEF UnsetKill, At, EventsInv, Started
        <4> HIDE DEF left
        <4>3. left - 1 \in Nat
          BY <4>1, <4>2
        <4> QED BY <4>3 DEF left
      <3>2. /\ pc \in EventPC \ {"none", "popen", "fgets", "read"}
            /\ th' = [th EXCEPT ![t].pc = pc, ![t].left = th[t].left - 1]
        BY <2>3 DEF UnsetKill, EventPC
      <3> QED BY <2>1, <3>1, <3>2
    <2>4. CASE Jump(t, "null")
      BY <2>1, <2>4 DEF Jump, EventPC
    <2>5. CASE Exit(t)
      BY <2>5, NoThreadLemma DEF Exit
    <2>6. CASE IwThreadPipePtr \in open /\
               th' = [th EXCEPT ![t].pc = "wait", ![t].file = IwThreadPipePtr]
      <3>1. IwThreadPipePtr \in Thread \cup {None}
        BY DEF EventsInv, EventsTypeOK
      <3> QED BY <2>1, <2>6, <3>1 DEF EventPC
    <2> QED BY <2>2, <2>3, <2>4, <2>5, <2>6 DEF DestructorStep, Pclose, PcloseWait, PipePtrNull,
                                                CancelledInDestructor
  <1> QED BY <1>1, <1>2, <1>3, <1>4, QuietThread DEF Active

\* Lines that are written for all change the counter to come as they change the stations.
LEMMA CounterReport ==
  ASSUME EventsInv, CounterInv, NEW new \in Seq(LineSet), Report(new),
         UNCHANGED <<th, atPopen, overlapped>>, stations' = stations + Net(new)
  PROVE  CounterInv'
  <1>1. /\ procs \subseteq Process /\ buf \in [Thread -> Seq(LineSet)] /\ stations \in Nat
        /\ atPopen \in [Thread -> Nat] /\ th \in [Thread -> EventThread]
    BY DEF EventsInv, EventsTypeOK
  <1>2. Shrink
    <2>1. UNION {EventOf(t) : t \in Thread \ open} \in SUBSET procs
      BY DEF EventOf
    <2>2. procs' = procs \/ procs' = AfterEnd(UNION {EventOf(t) : t \in Thread \ open})
      BY DEF Report
    <2>3. CASE procs' = procs
      BY <2>3, FewerShrinks
    <2>4. CASE procs' = AfterEnd(UNION {EventOf(t) : t \in Thread \ open})
      BY <1>1, <2>1, <2>4, AfterEndShrinks
    <2> QED BY <2>2, <2>3, <2>4
  <1>3. ASSUME NEW t \in Thread
        PROVE  /\ ~Running(t) => buf'[t] = buf[t]
               /\ Running(t) /\ t \in open => buf'[t] = buf[t] \o new
    BY DEF Report
  <1>4. \A t \in Thread : th'[t].pc \in {"none", "popen"} =>
          (EventOf(t) = {})' /\ buf'[t] = <<>> /\ th'[t].number = 0
    BY <1>2, <1>3 DEF CounterInv, Shrink, Running
  <1>5. ASSUME ~overlapped, NEW t \in Thread, th[t].pc \in {"fgets", "read"}, Running(t)'
        PROVE  th[t].number + Net(buf'[t]) = stations' - atPopen[t]
    <2>1. Running(t) /\ t \in open
      BY <1>2, <1>5 DEF Shrink, EventsInv, PipeAlone
    <2>2. th[t].number + Net(buf[t]) = stations - atPopen[t]
      BY <1>5, <2>1 DEF CounterInv
    <2>3. Net(buf'[t]) = Net(buf[t]) + Net(new) /\ Net(buf[t]) \in Int /\ Net(new) \in Int
      BY <1>1, <1>3, <2>1, NetConcat
    <2>4. th[t].number \in Int /\ atPopen[t] \in Nat
      BY <1>1, ThreadFieldLemma
    <2>5. \A a, b, c, d, e \in Int : a + b = c - d => a + (b + e) = (c + e) - d
      OBVIOUS
    <2>6. th[t].number + (Net(buf[t]) + Net(new)) = (stations + Net(new)) - atPopen[t]
      <3>1. stations \in Int /\ atPopen[t] \in Int
        BY <1>1, <2>4
      <3> DEFINE a == th[t].number
                 b == Net(buf[t])
                 d == atPopen[t]
                 e == Net(new)
      <3>2. a \in Int /\ b \in Int /\ d \in Int /\ e \in Int /\ a + b = stations - d
        BY <2>2, <2>3, <2>4, <3>1
      <3> HIDE DEF a, b, d, e
      <3>3. a + (b + e) = (stations + e) - d
        BY <2>5, <3>1, <3>2
      <3> QED BY <3>3 DEF a, b, d, e
    <2> QED BY <2>3, <2>6
  <1> QED BY <1>4, <1>5 DEF CounterInv

LEMMA CounterKilled ==
  ASSUME EventsInv, CounterInv, HostapdKilled, UNCHANGED <<th, atPopen, overlapped>>
  PROVE  CounterInv'
  <1> DEFINE new == [i \in 1..stations |-> Line(Own, "del")]
  <1>1. stations \in Nat /\ Line(Own, "del") \in LineSet
    BY EventsAssumption DEF EventsInv, EventsTypeOK, Line, LineSet
  <1>2. new \in Seq(LineSet)
    BY <1>1, IsASeq
  <1>3. Net(new) = -stations
    BY <1>1, NetRepeat
  <1>4. Report(new) /\ stations' = 0
    BY DEF HostapdKilled
  <1> HIDE DEF new
  <1>5. stations' = stations + Net(new)
    BY <1>1, <1>3, <1>4
  <1> QED BY <1>2, <1>4, <1>5, CounterReport

LEMMA CounterStation ==
  ASSUME EventsInv, CounterInv, NEW i \in Interface, NEW what \in {"new", "del"},
         StationChange(i, what)
  PROVE  CounterInv'
  <1> DEFINE new == <<Line(i, what)>>
  <1>1. Report(new) /\ UNCHANGED <<th, atPopen, overlapped>> /\ stations \in Nat
    BY DEF StationChange, EventsInv, EventsTypeOK
  <1>2. new \in Seq(LineSet)
    BY DEF Line, LineSet
  <1>3. Net(new) = IF i # Own THEN 0 ELSE IF what = "new" THEN 1 ELSE -1
    <2>1. new = [k \in 1..1 |-> Line(i, what)]
      OBVIOUS
    <2> HIDE DEF new
    <2> QED BY <2>1, NetRepeat
  <1>4. stations' = stations + Net(new)
    BY <1>1, <1>3 DEF StationChange
  <1> HIDE DEF new
  <1> QED BY <1>1, <1>2, <1>4, CounterReport

LEMMA CounterVerb == ASSUME EventsInv, CounterInv, VerbStep PROVE CounterInv'
  <1>1. th \in [Thread -> EventThread]
    BY DEF EventsInv, EventsTypeOK
  <1>2. CASE Launch \/ StopHostapd
    BY <1>2, CounterKilled DEF Launch, StopHostapd, KeepEvents
  <1>3. CASE StartThread
    <2> DEFINE t == CHOOSE u \in FreshThread : TRUE
    <2>1. t \in FreshThread
      BY <1>3 DEF StartThread, EventsInv, Started
    <2>2. th' = [th EXCEPT ![t] = [th[t] EXCEPT !.pc = "popen"]]
      BY <1>3 DEF StartThread
    <2> HIDE DEF t
    <2>3. /\ t \in Thread /\ th[t].pc = "none" /\ th'[t].pc = "popen"
          /\ th'[t].number = th[t].number
          /\ \A u \in Thread : u # t => th'[u] = th[u]
      BY <1>1, <2>1, <2>2 DEF FreshThread, EventThread
    <2>4. /\ UNCHANGED <<procs, buf, stations, atPopen>>
          /\ ~overlapped' => ~overlapped
      BY <1>3 DEF StartThread, KeepEvents
    <2> QED BY <2>3, <2>4, FewerShrinks, QuietLemma
  <1>4. CASE StopCancel
    <2>1. UNCHANGED <<procs, buf, stations, atPopen, overlapped>>
      BY <1>4 DEF StopCancel, KeepEvents
    <2>2. ASSUME NEW u \in Thread PROVE th'[u].pc = th[u].pc /\ th'[u].number = th[u].number
      <3>1. th' = [th EXCEPT ![cur] = [th[cur] EXCEPT !.cancel = TRUE]] /\ th[u] \in EventThread
        BY <1>1, <1>4 DEF StopCancel
      <3> QED BY <1>1, <3>1 DEF EventThread
    <2> QED BY <2>1, <2>2, FewerShrinks, QuietLemma
  <1>5. CASE StopJoin
    BY <1>5, FewerShrinks, QuietLemma DEF StopJoin, KeepEvents
  <1> QED BY <1>2, <1>3, <1>4, <1>5 DEF VerbStep

LEMMA CounterProcess ==
  ASSUME EventsInv, CounterInv, QueryPopen \/ DumpEnds \/ \E t \in Thread : IwDies(t)
  PROVE  CounterInv'
  <1>1. UNCHANGED <<th, buf, stations, atPopen, overlapped>>
    BY DEF QueryPopen, DumpEnds, IwDies, netVars, pipeVars, KeepNet
  <1>2. procs \subseteq Process
    BY DEF EventsInv, EventsTypeOK
  <1>3. Shrink
    <2>1. CASE QueryPopen
      <3>1. ASSUME NEW t \in Thread PROVE EventOf(t)' = EventOf(t)
        BY <2>1 DEF QueryPopen, LaunchIw, EventOf
      <3> QED BY <3>1 DEF Shrink, Running
    <2>2. CASE DumpEnds
      <3>1. PICK p \in procs : procs' = AfterEnd({p})
        BY <2>2 DEF DumpEnds
      <3> QED BY <1>2, <3>1, AfterEndShrinks
    <2>3. CASE \E t \in Thread : IwDies(t)
      <3>1. PICK t \in Thread : procs' = AfterEnd(EventOf(t))
        BY <2>3 DEF IwDies
      <3>2. EventOf(t) \in SUBSET procs
        BY DEF EventOf
      <3> QED BY <1>2, <3>1, <3>2, AfterEndShrinks
    <2> QED BY <2>1, <2>2, <2>3
  <1> QED BY <1>1, <1>3, QuietLemma

LEMMA CounterStep ==
  ASSUME Matching = {Own} PROVE EventsInv /\ CounterInv /\ [Next]_vars => CounterInv'
  <1> SUFFICES ASSUME EventsInv, CounterInv, [Next]_vars PROVE CounterInv'
    OBVIOUS
  <1>1. CASE \E t \in Thread : MainStep(t)
    BY <1>1, CounterPopen, CounterGetLine, CounterMain DEF MainStep
  <1>2. CASE \E t \in Thread : DestructorStep(t)
    BY <1>2, CounterDestructor
  <1>3. CASE UNCHANGED vars
    BY <1>3, FewerShrinks, QuietLemma DEF vars, netVars, pipeVars
  <1> QED BY <1>1, <1>2, <1>3, CounterVerb, CounterStation, CounterProcess DEF Next

\* If the name of no other interface contains that of the access point, the counter of
\* the event thread and the lines it has still to read account for every station that
\* joined or left since "iw event" was launched: for any number of stations, lines,
\* interfaces and launches.
THEOREM CounterFollows ==
  ASSUME Matching = {Own} PROVE Spec => []CounterFollowsStations
  <1>1. Init => CounterInv
    BY DEF Init, CounterInv, EventOf, NoThread
  <1>2. EventsInv /\ CounterInv => CounterFollowsStations
    BY DEF CounterInv, CounterFollowsStations, InMain, Running
  <1> QED BY <1>1, <1>2, CounterStep, EventsInvariant, PTL DEF Spec

-----------------------------------------------------------------------------
(* WIFI_UNSET_EVENT and pclose *)

\* The newest "iw event" is the one whose pipe IwThreadPipePtr is; a thread launches one.
AgeInv ==
  /\ \A t \in Thread : th[t].pc \in {"none", "popen"} => EventOf(t) = {}
  /\ \A p \in procs : p.age <= launched
  /\ \A t \in Thread : \A p, q \in EventOf(t) : p.age = q.age
  /\ IwThreadPipePtr # None =>
       \A p \in EventOf(IwThreadPipePtr), q \in procs :
         q.what = "event" /\ q.of # IwThreadPipePtr => q.age < p.age

\* Only an older "iw event" survives a turn of the loop.
Survived(t) ==
  \A p \in EventOf(t) : p.runs => \E q \in procs : q.what = "dump" /\ q.age > p.age

KilledInv ==
  ~overlapped => \A t \in Thread :
    /\ th[t].pc = "pclose" /\ IwThreadPipePtr # None => Survived(IwThreadPipePtr)
    /\ th[t].pc = "wait" =>
         /\ IwThreadPipePtr # None /\ th[t].file = IwThreadPipePtr
         /\ Survived(IwThreadPipePtr)

\* Each process of p is one of q, and runs only if that did.
Same(p, q) == p.what = q.what /\ p.of = q.of /\ p.age = q.age

Descend ==
  /\ launched' = launched
  /\ \A p \in procs' : \E q \in procs : Same(p, q) /\ (p.runs => q.runs)

KeepDumps == \A q \in procs : q.what = "dump" => \E r \in procs' : Same(r, q)

LEMMA AfterEndSame ==
  ASSUME procs \subseteq Process, NEW P \in SUBSET procs, procs' = AfterEnd(P),
         launched' = launched
  PROVE  /\ Descend /\ KeepDumps
         /\ \A p \in procs' : p.runs => p \in procs \ P
  <1>1. \A q \in P : LET r == [q EXCEPT !.runs = FALSE] IN Same(r, q) /\ ~r.runs
    BY DEF Process, Same
  <1>2. \A q \in procs : Same(q, q)
    BY DEF Same
  <1>3. ASSUME NEW p \in procs'
        PROVE  /\ \E q \in procs : Same(p, q) /\ (p.runs => q.runs)
               /\ p.runs => p \in procs \ P
    <2>1. p \in procs \ P \/ \E q \in P : p = [q EXCEPT !.runs = FALSE]
      BY <1>3 DEF AfterEnd
    <2> QED BY <1>1, <1>2, <2>1
  <1>4. ASSUME NEW q \in procs PROVE \E r \in procs' : Same(r, q)
    <2>1. q \in P => [q EXCEPT !.runs = FALSE] \in procs'
      BY DEF AfterEnd
    <2>2. q \notin P => q \in procs'
      BY DEF AfterEnd
    <2> QED BY <1>1, <1>2, <2>1, <2>2
  <1> QED BY <1>3, <1>4 DEF Descend, KeepDumps

LEMMA FewerSame ==
  ASSUME procs' \subseteq procs, launched' = launched,
         \A q \in procs : q.what = "dump" => q \in procs'
  PROVE  Descend /\ KeepDumps
  BY DEF Descend, KeepDumps, Same

LEMMA AgeQuiet ==
  ASSUME AgeInv, Descend, IwThreadPipePtr' \in {IwThreadPipePtr, None},
         \A t \in Thread : th'[t].pc \in {"none", "popen"} => th[t].pc \in {"none", "popen"}
  PROVE  AgeInv'
  <1>1. \A t, p : p \in EventOf(t)' => \E q \in EventOf(t) : Same(p, q)
    BY DEF Descend, EventOf, Same
  <1>2. \A t \in Thread : th'[t].pc \in {"none", "popen"} => EventOf(t)' = {}
    BY <1>1 DEF AgeInv
  <1>3. \A p \in procs' : p.age <= launched'
    BY DEF AgeInv, Descend, Same
  <1>4. \A t \in Thread : \A p, q \in EventOf(t)' : p.age = q.age
    BY <1>1 DEF AgeInv, Same
  <1>5. ASSUME IwThreadPipePtr' # None
        PROVE  \A p \in EventOf(IwThreadPipePtr)', q \in procs' :
                 q.what = "event" /\ q.of # IwThreadPipePtr' => q.age < p.age
    <2>1. IwThreadPipePtr' = IwThreadPipePtr
      BY <1>5
    <2> SUFFICES ASSUME NEW p \in EventOf(IwThreadPipePtr)', NEW q \in procs',
                        q.what = "event", q.of # IwThreadPipePtr'
                 PROVE  q.age < p.age
      OBVIOUS
    <2>2. PICK r \in procs : Same(p, r) /\ r.what = "event" /\ r.of = IwThreadPipePtr
      BY <2>1 DEF Descend, EventOf, Same
    <2>3. PICK o \in procs : Same(q, o)
      BY DEF Descend
    <2>4. o.age < r.age
      BY <1>5, <2>1, <2>2, <2>3 DEF AgeInv, EventOf, Same
    <2> QED BY <2>2, <2>3, <2>4 DEF Same
  <1> QED BY <1>2, <1>3, <1>4, <1>5 DEF AgeInv

LEMMA SurvivedQuiet ==
  ASSUME Descend, KeepDumps, NEW t, Survived(t)
  PROVE  Survived(t)'
  <1> SUFFICES ASSUME NEW p \in EventOf(t)', p.runs
               PROVE  \E q \in procs' : q.what = "dump" /\ q.age > p.age
    BY DEF Survived
  <1>1. PICK r \in EventOf(t) : Same(p, r) /\ r.runs
    BY DEF Descend, EventOf, Same
  <1>2. PICK q \in procs : q.what = "dump" /\ q.age > r.age
    BY <1>1 DEF Survived
  <1> QED BY <1>1, <1>2 DEF KeepDumps, Same

\* A step of a verb, of a station or of iw.
LEMMA KillQuiet ==
  ASSUME AgeInv, KilledInv, Descend, KeepDumps, IwThreadPipePtr' = IwThreadPipePtr,
         ~overlapped' => ~overlapped,
         \A t \in Thread :
           /\ th'[t].pc \in {"none", "popen"} => th[t].pc \in {"none", "popen"}
           /\ th'[t].pc \in {"pclose", "wait"} => th'[t].pc = th[t].pc /\ th'[t].file = th[t].file
  PROVE  (AgeInv /\ KilledInv)'
  <1>1. AgeInv'
    BY AgeQuiet
  <1>2. Survived(IwThreadPipePtr) => Survived(IwThreadPipePtr)'
    BY SurvivedQuiet DEF Survived, EventOf
  <1>3. KilledInv'
    BY <1>2 DEF KilledInv
  <1> QED BY <1>1, <1>3

\* A step of a thread: while no other is there, only what it says of itself counts.
LEMMA KillThread ==
  ASSUME EventsInv, AgeInv, NEW t \in Thread, Active(t), KeepNet, Descend,
         \A u \in Thread : u # t => th'[u] = th[u],
         th'[t].pc \notin {"none", "popen"}, IwThreadPipePtr' \in {IwThreadPipePtr, None},
         th'[t].pc = "pclose" /\ IwThreadPipePtr' # None => Survived(IwThreadPipePtr)',
         th'[t].pc = "wait" /\ ~overlapped =>
           /\ IwThreadPipePtr' # None /\ th'[t].file = IwThreadPipePtr'
           /\ Survived(IwThreadPipePtr)'
  PROVE  (AgeInv /\ KilledInv)'
  <1>1. AgeInv'
    BY AgeQuiet
  <1>2. \A u \in Thread : ~overlapped /\ th'[u].pc \in {"pclose", "wait"} => u = t
    BY DEF EventsInv, PipeAlone, Active, InDestructor
  <1>3. overlapped' = overlapped
    BY DEF KeepNet
  <1>4. KilledInv'
    BY <1>2, <1>3 DEF KilledInv
  <1> QED BY <1>1, <1>4

LEMMA KillPopen ==
  ASSUME EventsInv, AgeInv, NEW t \in Thread, Popen(t) PROVE (AgeInv /\ KilledInv)'
  <1>1. /\ th[t] \in EventThread /\ th[t].pc = "popen" /\ Active(t) /\ KeepNet
        /\ th \in [Thread -> EventThread] /\ procs \subseteq Process /\ launched \in Nat
    BY DEF EventsInv, EventsTypeOK, Popen, At, Active, InMain
  <1>2. CASE IwThreadPipePtr' = t /\ LaunchIw("event", t) /\ Jump(t, "fgets")
    <2> DEFINE new == [what |-> "event", of |-> t, runs |-> TRUE, age |-> launched']
    <2>1. th' = [th EXCEPT ![t] = [th[t] EXCEPT !.pc = "fgets"]]
      BY <1>2 DEF Jump
    <2>2. th'[t].pc = "fgets" /\ \A u \in Thread : u # t => th'[u] = th[u]
      BY <1>1, <2>1 DEF EventThread
    <2>3. /\ procs' = procs \cup {new} /\ launched' = launched + 1
          /\ new.what = "event" /\ new.of = t /\ new.age = launched'
      BY <1>2 DEF LaunchIw
    <2> HIDE DEF new
    <2>4. EventOf(t) = {}
      BY <1>1 DEF AgeInv
    <2>5. EventOf(t)' = {new} /\ \A u \in Thread : u # t => EventOf(u)' = EventOf(u)
      BY <2>3, <2>4 DEF EventOf
    <2>6. \A p \in procs : p.age \in Nat /\ p.age <= launched
      BY <1>1 DEF AgeInv, Process
    <2>7. AgeInv'
      <3>1. \A u \in Thread : th'[u].pc \in {"none", "popen"} => EventOf(u)' = {}
        BY <2>2, <2>5 DEF AgeInv
      <3>2. \A p \in procs' : p.age <= launched'
        BY <1>1, <2>3, <2>6
      <3>3. \A u \in Thread : \A p, q \in EventOf(u)' : p.age = q.age
        BY <2>5 DEF AgeInv
      <3>4. \A p \in EventOf(t)', q \in procs' : q.what = "event" /\ q.of # t => q.age < p.age
        BY <1>1, <2>3, <2>5, <2>6
      <3>5. EventOf(IwThreadPipePtr)' = EventOf(t)'
        BY <1>2 DEF EventOf
      <3> QED BY <1>2, <3>1, <3>2, <3>3, <3>4, <3>5 DEF AgeInv
    <2>8. \A u \in Thread : ~overlapped => th'[u].pc \notin {"pclose", "wait"}
      BY <1>1, <2>2 DEF EventsInv, PipeAlone, Active, InDestructor
    <2> QED BY <1>1, <2>7, <2>8 DEF KilledInv, KeepNet
  <1>3. CASE IwThreadPipePtr' = None /\ Return(t) /\ UNCHANGED <<procs, launched>>
    <2>1. th' = [th EXCEPT ![t] = [th[t] EXCEPT !.pc = "count", !.popped = TRUE]]
      BY <1>3 DEF Return
    <2>2. th'[t].pc = "count" /\ \A u \in Thread : u # t => th'[u] = th[u]
      BY <1>1, <2>1 DEF EventThread
    <2> QED BY <1>1, <1>3, <2>2, FewerSame, KillThread
  <1> QED BY <1>2, <1>3 DEF Popen

LEMMA KillMain ==
  ASSUME EventsInv, AgeInv, KilledInv, NEW t \in Thread,
         Fgets(t) \/ GetLine(t) \/ Eof(t) \/ ActOnCancel(t)
  PROVE  (AgeInv /\ KilledInv)'
  <1>1. /\ th[t] \in EventThread /\ Active(t) /\ KeepNet /\ th \in [Thread -> EventThread]
        /\ InMain(t) /\ UNCHANGED <<procs, launched, IwThreadPipePtr>>
    BY DEF EventsInv, EventsTypeOK, Fgets, GetLine, Eof, ActOnCancel, At, Active, InMain, pipeVars
  <1>2. Descend /\ KeepDumps
    BY <1>1, FewerSame
  <1>3. CASE th' = th
    BY <1>1, <1>2, <1>3, KillQuiet DEF KeepNet
  <1>4. CASE \E new : /\ th' = [th EXCEPT ![t] = new]
                      /\ new.pc \in {"fgets", "read", "count"}
    BY <1>1, <1>2, <1>4, KillThread
  <1>5. CASE Fgets(t)
    <2> DEFINE new == [th[t] EXCEPT !.pc = "read", !.file = IwThreadPipePtr]
    <2>1. new.pc = "read"
      BY <1>1 DEF EventThread
    <2>2. th' = th \/ th' = [th EXCEPT ![t] = new]
      BY <1>5 DEF Fgets
    <2> HIDE DEF new
    <2> QED BY <1>3, <1>4, <2>1, <2>2
  <1>6. CASE GetLine(t)
    <2> DEFINE n == Count(th[t].number, Head(buf[th[t].file]))
               new == [th[t] EXCEPT !.pc = "fgets", !.number = n]
    <2>1. th' = [th EXCEPT ![t] = new]
      BY <1>6 DEF GetLine
    <2> HIDE DEF n
    <2>2. new.pc = "fgets"
      BY <1>1 DEF EventThread
    <2> HIDE DEF new
    <2> QED BY <1>4, <2>1, <2>2
  <1>7. CASE Eof(t) \/ ActOnCancel(t)
    <2>1. /\ [th[t] EXCEPT !.pc = "count", !.popped = TRUE].pc = "count"
          /\ [th[t] EXCEPT !.pc = "count"].pc = "count"
      BY <1>1 DEF EventThread
    <2>2. \/ th' = [th EXCEPT ![t] = [th[t] EXCEPT !.pc = "count", !.popped = TRUE]]
          \/ th' = [th EXCEPT ![t] = [th[t] EXCEPT !.pc = "count"]]
      BY <1>7 DEF Eof, ActOnCancel, Return, Jump
    <2> QED BY <1>4, <2>1, <2>2
  <1> QED BY <1>5, <1>6, <1>7

\* One turn of the loop: what is newer than an "iw event" that is not killed is a dump.
LEMMA KillTurn ==
  ASSUME EventsInv, AgeInv, NEW t \in Thread, UnsetKill(t), IwThreadPipePtr # None
  PROVE  Survived(IwThreadPipePtr)'
  <1>1. /\ procs \subseteq Process /\ procs' = AfterEnd(Newest) /\ launched' = launched
        /\ IwThreadPipePtr' = IwThreadPipePtr /\ Newest \in SUBSET procs
        /\ IwThreadPipePtr \in Thread
    BY DEF EventsInv, EventsTypeOK, UnsetKill, pipeVars, Newest
  <1>2. KeepDumps /\ \A p \in procs' : p.runs => p \in procs \ Newest
    BY <1>1, AfterEndSame
  <1> SUFFICES ASSUME NEW p \in EventOf(IwThreadPipePtr)', p.runs
               PROVE  \E q \in procs' : q.what = "dump" /\ q.age > p.age
    BY <1>1 DEF Survived
  <1>3. p \in EventOf(IwThreadPipePtr) /\ p \in procs /\ p \notin Newest
    BY <1>1, <1>2 DEF EventOf
  <1>4. PICK q \in procs : ~(q.age <= p.age)
    BY <1>3 DEF Newest
  <1>5. q.age \in Nat /\ p.age \in Nat /\ q.what \in {"event", "dump"}
    BY <1>1, <1>3 DEF Process
  <1>6. q.what = "dump"
    <2> SUFFICES ASSUME q.what = "event" PROVE FALSE
      BY <1>5
    <2>1. CASE q.of = IwThreadPipePtr
      BY <1>1, <1>3, <1>4, <1>5, <2>1 DEF AgeInv, EventOf
    <2>2. CASE q.of # IwThreadPipePtr
      <3>1. q.age < p.age
        BY <1>3, <2>2 DEF AgeInv
      <3> QED BY <1>4, <1>5, <3>1
    <2> QED BY <2>1, <2>2
  <1>7. PICK r \in procs' : Same(r, q)
    BY <1>2, <1>6 DEF KeepDumps
  <1> QED BY <1>4, <1>5, <1>6, <1>7 DEF Same

LEMMA KillDestructor ==
  ASSUME EventsInv, AgeInv, KilledInv, NEW t \in Thread, DestructorStep(t)
  PROVE  (AgeInv /\ KilledInv)'
  <1>1. /\ th[t] \in EventThread /\ th \in [Thread -> EventThread] /\ procs \subseteq Process
        /\ InDestructor(t) /\ Active(t) /\ KeepNet /\ launched' = launched
        /\ IwThreadPipePtr' \in {IwThreadPipePtr, None}
    BY DEF EventsInv, EventsTypeOK, DestructorStep, UnsetCount, UnsetKill, Pclose, PcloseWait,
           PipePtrNull, CancelledInDestructor, At, InDestructor, Active, pipeVars
  <1>2. CASE UnsetCount(t)
    <2> DEFINE pc == IF procs = {} THEN "pclose" ELSE "kill"
    <2>1. th' = [th EXCEPT ![t] = [th[t] EXCEPT !.pc = pc, !.left = Cardinality(procs)]]
      BY <1>2 DEF UnsetCount
    <2>2. th'[t].pc = pc /\ \A u \in Thread : u # t => th'[u] = th[u]
      BY <1>1, <2>1 DEF EventThread
    <2>3. procs' = procs
      BY <1>2 DEF UnsetCount
    <2>4. pc = "pclose" => Survived(IwThreadPipePtr)'
      BY <2>3 DEF Survived, EventOf
    <2> QED BY <1>1, <2>2, <2>3, <2>4, FewerSame, KillThread
  <1>3. CASE UnsetKill(t)
    <2> DEFINE pc == IF th[t].left = 1 THEN "pclose" ELSE "kill"
    <2>1. th' = [th EXCEPT ![t] = [th[t] EXCEPT !.pc = pc, !.left = th[t].left - 1]]
      BY <1>3 DEF UnsetKill
    <2>2. th'[t].pc = pc /\ \A u \in Thread : u # t => th'[u] = th[u]
      BY <1>1, <2>1 DEF EventThread
    <2>3. Descend
      <3>1. Newest \in SUBSET procs /\ procs' = AfterEnd(Newest)
        BY <1>3 DEF UnsetKill, Newest
      <3> QED BY <1>1, <3>1, AfterEndSame
    <2>4. IwThreadPipePtr' = IwThreadPipePtr
      BY <1>3 DEF UnsetKill, pipeVars
    <2>5. IwThreadPipePtr # None => Survived(IwThreadPipePtr)'
      BY <1>3, KillTurn
    <2> QED BY <1>1, <2>2, <2>3, <2>4, <2>5, KillThread
  <1>4. CASE Pclose(t)
    <2>1. UNCHANGED <<procs, launched, IwThreadPipePtr>> /\ th[t].pc = "pclose"
      BY <1>4 DEF Pclose, At
    <2>2. Descend /\ KeepDumps
      BY <2>1, FewerSame
    <2>3. CASE Exit(t)
      <3>1. th' = [th EXCEPT ![t] = [NoThread EXCEPT !.pc = "exited"]]
        BY <2>3 DEF Exit
      <3>2. th'[t].pc = "exited" /\ \A u \in Thread : u # t => th'[u] = th[u]
        BY <1>1, <3>1, NoThreadLemma
      <3> QED BY <1>1, <2>2, <3>2, KillThread
    <2>4. CASE /\ IwThreadPipePtr \in open
               /\ th' = [th EXCEPT ![t].pc = "wait", ![t].file = IwThreadPipePtr]
      <3>1. /\ th'[t].pc = "wait" /\ th'[t].file = IwThreadPipePtr
            /\ \A u \in Thread : u # t => th'[u] = th[u]
        BY <1>1, <2>4 DEF EventThread
      <3>2. IwThreadPipePtr # None
        BY <2>4, EventsAssumption DEF EventsInv, EventsTypeOK
      <3>3. ~overlapped => Survived(IwThreadPipePtr)
        BY <2>1, <3>2 DEF KilledInv
      <3>4. ~overlapped => Survived(IwThreadPipePtr)'
        BY <2>1, <3>3 DEF Survived, EventOf
      <3> QED BY <1>1, <2>1, <2>2, <3>1, <3>2, <3>4, KillThread
    <2>5. CASE Jump(t, "null")
      <3>1. th' = [th EXCEPT ![t] = [th[t] EXCEPT !.pc = "null"]]
        BY <2>5 DEF Jump
      <3>2. th'[t].pc = "null" /\ \A u \in Thread : u # t => th'[u] = th[u]
        BY <1>1, <3>1 DEF EventThread
      <3> QED BY <1>1, <2>2, <3>2, KillThread
    <2> QED BY <1>4, <2>3, <2>4, <2>5 DEF Pclose
  <1>5. CASE PcloseWait(t)
    <2>1. th' = [th EXCEPT ![t] = [th[t] EXCEPT !.pc = "null"]]
      BY <1>5 DEF PcloseWait, Jump
    <2>2. th'[t].pc = "null" /\ \A u \in Thread : u # t => th'[u] = th[u]
      BY <1>1, <2>1 DEF EventThread
    <2>3. procs' = procs \ EventOf(th[t].file)
      BY <1>5 DEF PcloseWait
    <2>4. procs' \subseteq procs /\ \A q \in procs : q.what = "dump" => q \in procs'
      BY <2>3 DEF EventOf
    <2> QED BY <1>1, <2>2, <2>4, FewerSame, KillThread
  <1>6. CASE PipePtrNull(t) \/ CancelledInDestructor(t)
    <2>1. procs' = procs /\ th' = [th EXCEPT ![t] = [NoThread EXCEPT !.pc = "exited"]]
      BY <1>6 DEF PipePtrNull, CancelledInDestructor, Exit
    <2>2. th'[t].pc = "exited" /\ \A u \in Thread : u # t => th'[u] = th[u]
      BY <1>1, <2>1, NoThreadLemma
    <2> QED BY <1>1, <2>1, <2>2, FewerSame, KillThread
  <1> QED BY <1>2, <1>3, <1>4, <1>5, <1>6 DEF DestructorStep

LEMMA KillReport ==
  ASSUME EventsInv, AgeInv, KilledInv, NEW new, Report(new),
         UNCHANGED <<th, launched, IwThreadPipePtr, overlapped>>
  PROVE  (AgeInv /\ KilledInv)'
  <1>1. UNION {EventOf(t) : t \in Thread \ open} \in SUBSET procs
    BY DEF EventOf
  <1>2. procs' = procs \/ procs' = AfterEnd(UNION {EventOf(t) : t \in Thread \ open})
    BY DEF Report
  <1>3. Descend /\ KeepDumps
    BY <1>1, <1>2, FewerSame, AfterEndSame DEF EventsInv, EventsTypeOK
  <1> QED BY <1>3, KillQuiet

LEMMA KillVerb == ASSUME EventsInv, AgeInv, KilledInv, VerbStep PROVE (AgeInv /\ KilledInv)'
  <1>1. th \in [Thread -> EventThread]
    BY DEF EventsInv, EventsTypeOK
  <1>2. CASE Launch \/ StopHostapd
    BY <1>2, KillReport DEF Launch, StopHostapd, KeepEvents, HostapdKilled
  <1>3. CASE StartThread
    <2> DEFINE t == CHOOSE u \in FreshThread : TRUE
    <2>1. t \in FreshThread
      BY <1>3 DEF StartThread, EventsInv, Started
    <2>2. th' = [th EXCEPT ![t] = [th[t] EXCEPT !.pc = "popen"]]
      BY <1>3 DEF StartThread
    <2> HIDE DEF t
    <2>3. /\ t \in Thread /\ th[t].pc = "none" /\ th'[t].pc = "popen"
          /\ \A u \in Thread : u # t => th'[u] = th[u]
      BY <1>1, <2>1, <2>2 DEF FreshThread, EventThread
    <2>4. UNCHANGED <<procs, launched, IwThreadPipePtr>> /\ (~overlapped' => ~overlapped)
      BY <1>3 DEF StartThread, KeepEvents
    <2> QED BY <2>3, <2>4, FewerSame, KillQuiet
  <1>4. CASE StopCancel
    <2>1. UNCHANGED <<procs, launched, IwThreadPipePtr, overlapped>>
      BY <1>4 DEF StopCancel, KeepEvents
    <2>2. ASSUME NEW u \in Thread PROVE th'[u].pc = th[u].pc /\ th'[u].file = th[u].file
      <3>1. th' = [th EXCEPT ![cur] = [th[cur] EXCEPT !.cancel = TRUE]] /\ th[u] \in EventThread
        BY <1>1, <1>4 DEF StopCancel
      <3> QED BY <1>1, <3>1 DEF EventThread
    <2> QED BY <2>1, <2>2, FewerSame, KillQuiet
  <1>5. CASE StopJoin
    BY <1>5, FewerSame, KillQuiet DEF StopJoin, KeepEvents
  <1> QED BY <1>2, <1>3, <1>4, <1>5 DEF VerbStep

LEMMA KillProcess ==
  ASSUME EventsInv, AgeInv, KilledInv, QueryPopen \/ DumpEnds \/ \E t \in Thread : IwDies(t)
  PROVE  (AgeInv /\ KilledInv)'
  <1>1. UNCHANGED <<th, IwThreadPipePtr, overlapped>>
    BY DEF QueryPopen, DumpEnds, IwDies, pipeVars, KeepNet
  <1>2. procs \subseteq Process /\ launched \in Nat
    BY DEF EventsInv, EventsTypeOK
  <1>3. CASE QueryPopen
    <2> DEFINE new == [what |-> "dump", of |-> None, runs |-> TRUE, age |-> launched']
    <2>1. /\ procs' = procs \cup {new} /\ launched' = launched + 1
          /\ new.what = "dump" /\ new.age = launched'
      BY <1>3 DEF QueryPopen, LaunchIw
    <2> HIDE DEF new
    <2>2. \A t : EventOf(t)' = EventOf(t)
      BY <2>1 DEF EventOf
    <2>3. \A p \in procs : p.age \in Nat /\ p.age <= launched
      BY <1>2 DEF AgeInv, Process
    <2>4. \A p \in procs' : p.age <= launched'
      BY <1>2, <2>1, <2>3
    <2>5. EventOf(IwThreadPipePtr)' = EventOf(IwThreadPipePtr)
      BY <1>1, <2>1 DEF EventOf
    <2>6. IwThreadPipePtr # None =>
            \A p \in EventOf(IwThreadPipePtr), q \in procs' :
              q.what = "event" /\ q.of # IwThreadPipePtr => q.age < p.age
      BY <2>1 DEF AgeInv
    <2>7. AgeInv'
      BY <1>1, <2>2, <2>4, <2>5, <2>6 DEF AgeInv
    <2>8. Survived(IwThreadPipePtr) => Survived(IwThreadPipePtr)'
      BY <1>1, <2>1, <2>5 DEF Survived
    <2> QED BY <1>1, <2>7, <2>8 DEF KilledInv
  <1>4. CASE DumpEnds
    <2>1. PICK p \in procs : procs' = AfterEnd({p})
      BY <1>4 DEF DumpEnds
    <2>2. {p} \in SUBSET procs /\ launched' = launched
      BY <1>4 DEF DumpEnds
    <2> QED BY <1>1, <1>2, <2>1, <2>2, AfterEndSame, KillQuiet
  <1>5. CASE \E t \in Thread : IwDies(t)
    <2>1. PICK t \in Thread : procs' = AfterEnd(EventOf(t)) /\ launched' = launched
      BY <1>5 DEF IwDies
    <2>2. EventOf(t) \in SUBSET procs
      BY DEF EventOf
    <2> QED BY <1>1, <1>2, <2>1, <2>2, AfterEndSame, KillQuiet
  <1> QED BY <1>3, <1>4, <1>5

LEMMA KillStep ==
  EventsInv /\ AgeInv /\ KilledInv /\ [Next]_vars => (AgeInv /\ KilledInv)'
  <1> SUFFICES ASSUME EventsInv, AgeInv, KilledInv, [Next]_vars PROVE (AgeInv /\ KilledInv)'
    OBVIOUS
  <1>1. CASE \E t \in Thread : MainStep(t)
    BY <1>1, KillPopen, KillMain DEF MainStep
  <1>2. CASE \E t \in Thread : DestructorStep(t)
    BY <1>2, KillDestructor
  <1>3. CASE \E i \in Interface, what \in {"new", "del"} : StationChange(i, what)
    BY <1>3, KillReport DEF StationChange
  <1>4. CASE UNCHANGED vars
    BY <1>4, FewerSame, KillQuiet DEF vars, pipeVars
  <1> QED BY <1>1, <1>2, <1>3, <1>4, KillVerb, KillProcess DEF Next

\* The safety part of StopEnds: as long as no station dump is newer than an "iw event"
\* that runs, pclose never waits for a process the script did not kill, for any number of
\* threads, of zombies and of processes left by threads that were cancelled too early.
THEOREM PcloseNeverBlocks == Spec => []PcloseReturns
  <1>1. Init => AgeInv /\ KilledInv
    BY DEF Init, AgeInv, KilledInv, EventOf, NoThread
  <1>2. EventsInv /\ AgeInv /\ KilledInv => PcloseReturns
    <2> SUFFICES ASSUME EventsInv, KilledInv, ~overlapped, EventIsNewest,
                        NEW t \in Thread, th[t].pc = "wait", Running(th[t].file)
                 PROVE  FALSE
      BY DEF PcloseReturns
    <2>1. th[t].file = IwThreadPipePtr /\ Survived(IwThreadPipePtr)
      BY DEF KilledInv
    <2>2. PICK p \in EventOf(IwThreadPipePtr) : p.runs
      BY <2>1 DEF Running
    <2>3. PICK q \in procs : q.what = "dump" /\ q.age > p.age
      BY <2>1, <2>2 DEF Survived
    <2>4. q.age < p.age /\ q.age \in Nat /\ p.age \in Nat
      BY <2>2, <2>3 DEF EventIsNewest, EventOf, EventsInv, EventsTypeOK, Process
    <2> QED BY <2>3, <2>4
  <1> QED BY <1>1, <1>2, KillStep, EventsInvariant, PTL DEF Spec

\* The last turn of the loop is no turn of a thread that opens or closes a pipe.
LEMMA LastTurn ==
  ASSUME EventsInv, [Next]_vars, NEW t \in Thread, th[t].pc = "kill", th'[t].pc = "pclose"
  PROVE  IwThreadPipePtr' = IwThreadPipePtr
  <1> SUFFICES ASSUME IwThreadPipePtr' # IwThreadPipePtr PROVE FALSE
    OBVIOUS
  <1>1. th \in [Thread -> EventThread]
    BY DEF EventsInv, EventsTypeOK
  <1>2. ASSUME NEW u \in Thread, At(u, "popen") \/ At(u, "null"),
               \E new : th' = [th EXCEPT ![u] = new]
        PROVE  FALSE
    <2>1. u # t
      BY <1>2 DEF At
    <2> QED BY <1>1, <1>2, <2>1
  <1>3. PICK u \in Thread : Popen(u) \/ PipePtrNull(u)
    <2>1. ~VerbStep
      BY DEF VerbStep, Launch, StartThread, StopHostapd, StopCancel, StopJoin, KeepEvents
    <2>2. ~QueryPopen /\ ~DumpEnds
      BY DEF QueryPopen, DumpEnds, pipeVars
    <2>3. \A i \in Interface, what \in {"new", "del"} : ~StationChange(i, what)
      BY DEF StationChange
    <2>4. \A u \in Thread : MainStep(u) => Popen(u)
      BY DEF MainStep, Fgets, GetLine, Eof, ActOnCancel, Die, pipeVars
    <2>5. \A u \in Thread : DestructorStep(u) => PipePtrNull(u)
      BY DEF DestructorStep, UnsetCount, UnsetKill, Pclose, PcloseWait, CancelledInDestructor,
         pipeVars
    <2>6. \A u \in Thread : ~IwDies(u)
      BY DEF IwDies, pipeVars
    <2>7. ~UNCHANGED vars
      BY DEF vars, pipeVars
    <2> QED BY <2>1, <2>2, <2>3, <2>4, <2>5, <2>6, <2>7 DEF Next
  <1>4. CASE Popen(u)
    <2>1. \E new : th' = [th EXCEPT ![u] = new]
      BY <1>4 DEF Popen, Jump, Return
    <2> QED BY <1>2, <1>4, <2>1 DEF Popen
  <1>5. CASE PipePtrNull(u)
    <2>1. \E new : th' = [th EXCEPT ![u] = new]
      BY <1>5 DEF PipePtrNull, Exit
    <2> QED BY <1>2, <1>5, <2>1 DEF PipePtrNull
  <1> QED BY <1>3, <1>4, <1>5

\* threadDestructorFunc: "Kill the script launched by popen() in Client thread".  It does, as
\* long as one event thread is there and no station dump is newer than its "iw event".
THEOREM ScriptIsKilled == Spec /\ [](~overlapped /\ EventIsNewest) => ScriptKilled
  <1>1. Init => AgeInv /\ KilledInv
    BY DEF Init, AgeInv, KilledInv, EventOf, NoThread
  <1> DEFINE Kills ==
               \A t \in Thread :
                 th[t].pc = "kill" /\ th'[t].pc = "pclose" /\ IwThreadPipePtr # None
                   => \A p \in procs' : p.what = "event" /\ p.of = IwThreadPipePtr => ~p.runs
  <1>2. ASSUME EventsInv, EventsInv', KilledInv', (~overlapped /\ EventIsNewest)', [Next]_vars
        PROVE  Kills
    <2> SUFFICES ASSUME NEW t \in Thread, th[t].pc = "kill", th'[t].pc = "pclose",
                        IwThreadPipePtr # None,
                        NEW p \in procs', p.what = "event", p.of = IwThreadPipePtr, p.runs
                 PROVE  FALSE
      OBVIOUS
    <2>1. IwThreadPipePtr' = IwThreadPipePtr
      BY <1>2, LastTurn
    <2>2. Survived(IwThreadPipePtr)'
      BY <1>2, <2>1 DEF KilledInv
    <2>3. PICK q \in procs' : q.what = "dump" /\ q.age > p.age
      BY <2>1, <2>2 DEF Survived, EventOf
    <2>4. q.age < p.age /\ q.age \in Nat /\ p.age \in Nat
      BY <1>2, <2>3 DEF EventIsNewest, EventsInv, EventsTypeOK, Process
    <2> QED BY <2>3, <2>4
  <1>3. EventsInv /\ EventsInv' /\ KilledInv' /\ (~overlapped /\ EventIsNewest)' /\ [Next]_vars
          => [Kills]_vars
    BY <1>2
  <1> QED BY <1>1, <1>3, KillStep, EventsInvariant, PTL DEF Spec, ScriptKilled

===============================================================================
