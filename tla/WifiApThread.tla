---------------------------- MODULE WifiApThread ----------------------------
(***************************************************************************)
(* The thread library, src/src/lib/wifi-ap-thread.c.                       *)
(*                                                                         *)
(* A caller (a binder thread that runs a verb) calls one library function  *)
(* at a time.  frame[c] is its activation record: the function, how far it *)
(* got, its argument id, the thread_Obj_t it looked up and the value it    *)
(* returned.  A step ends where another thread can see the difference: at  *)
(* the unlock of Mutex, between the test of a field and the write after    *)
(* it, before a blocking call.  A critical section is one step, so a       *)
(* holder of Mutex shows in a state only if it returned without unlocking. *)
(*                                                                         *)
(* Memory: an element of Obj is one allocation, and a pointer keeps        *)
(* leading to the allocation it was set to.  calloc may give out the       *)
(* address of a freed object again, so through a pointer to a freed object *)
(* a read yields any value, and a write or a free is lost or meets any     *)
(* object that is alive by now.  fault remembers each use of such a        *)
(* pointer, whatever it met.                                               *)
(***************************************************************************)
EXTENDS Integers, WifiApProcess

CONSTANTS
  Obj,            \* allocations of a thread_Obj_t
  Thread,         \* pthreads
  CancelExited    \* what pthread_cancel may return for a pthread that exited

ASSUME ThreadAssumption ==
  /\ None \notin Obj \cup Thread \cup Caller
  /\ CancelExited \subseteq {"ok", "ESRCH"}

VARIABLES
  obj,          \* the thread objects
  threadList,   \* the object reachable from the list head, or None
  Mutex,        \* the caller that holds Mutex, or None
  pth,          \* the pthreads
  frame,        \* the library call of each caller
  fault         \* kinds of memory error met so far

libVars == <<obj, threadList, Mutex, pth, frame, fault>>

ThreadState == {"NEW", "RUNNING", "DYING"}

thread_Obj_t == [mem: {"unborn", "live", "freed"}, state: ThreadState,
                 isJoinable: BOOLEAN, destructors: Nat,
                 threadHandle: Thread \cup {None}]

Pthread == [pc: {"none", "main", "cleanup", "unlink", "free", "exited"},
            o: Obj \cup {None}, cancel: BOOLEAN, popped: BOOLEAN,
            detached: BOOLEAN, joiner: Caller \cup {None}]

Function == {"none", "CreateThread", "setThreadJoinable",
             "addDestructorToThread", "startThread", "cancelThread",
             "JoinThread"}

Frame == [fn: Function,
          at: {"entry", "found", "checked", "wait", "remove", "delete", "done"},
          id: {0, 1}, ptr: Obj \cup {None}, handle: Thread \cup {None},
          ret: -3..1]

UnbornObj == [mem |-> "unborn", state |-> "NEW", isJoinable |-> FALSE,
              destructors |-> 0, threadHandle |-> None]

NoPthread == [pc |-> "none", o |-> None, cancel |-> FALSE, popped |-> FALSE,
              detached |-> FALSE, joiner |-> None]

NoFrame == [fn |-> "none", at |-> "done", id |-> 0, ptr |-> None,
            handle |-> None, ret |-> 0]

LibInit ==
  /\ obj = [o \in Obj |-> UnbornObj]
  /\ threadList = None
  /\ Mutex = None
  /\ pth = [t \in Thread |-> NoPthread]
  /\ frame = [c \in Caller |-> NoFrame]
  /\ fault = {}

-----------------------------------------------------------------------------
(* Helpers *)

\* Every object is zeroed and then gets threadId++, so every id is 1.
TheId == 1

\* The next allocation and the next pthread, one at most: which one is immaterial.
Fresh(S) == IF S = {} THEN {} ELSE {CHOOSE x \in S : TRUE}
FreshObj == Fresh({o \in Obj : obj[o].mem = "unborn"})
FreshThread == Fresh({t \in Thread : pth[t].pc = "none"})

IsFreed(o) == o # None /\ obj[o].mem = "freed"

\* What reading a field that holds value may yield.
FieldValues(o, value, any) == IF IsFreed(o) THEN any ELSE {value}

threadIdOf(o) == FieldValues(o, TheId, {0, TheId})

threadHandleOf(o) ==
  FieldValues(o, obj[o].threadHandle, {t \in Thread : pth[t].pc # "none"} \cup {None})

isJoinableOf(o) == FieldValues(o, obj[o].isJoinable, BOOLEAN)

\* The walk of findThreadFromIdInList over a list of at most one object.
findThreadFromIdInList(id) ==
  FieldValues(threadList, IF id = TheId THEN threadList ELSE None, {None, threadList})

NoteUse(o) == fault' = IF IsFreed(o) THEN fault \cup {"use_after_free"} ELSE fault

\* The live objects that may have got the address of o since it was freed.
SameAddress(o) == IF IsFreed(o) THEN {p \in Obj : obj[p].mem = "live"} ELSE {}

\* The fields that Update sets are written to the object o leads to.
WriteObj(o, Update(_)) ==
  \/ obj' = IF IsFreed(o) THEN obj ELSE [obj EXCEPT ![o] = Update(obj[o])]
  \/ \E p \in SameAddress(o) : obj' = [obj EXCEPT ![p] = Update(obj[p])]

\* free(threadPtr): malloc may notice a second free and abort.
DeleteThread(o) ==
  /\ \E p \in {o} \cup SameAddress(o) : obj' = [obj EXCEPT ![p].mem = "freed"]
  /\ fault' = IF IsFreed(o) THEN fault \cup {"double_free"} ELSE fault
  /\ \/ UNCHANGED alive
     \/ IsFreed(o) /\ Die

\* cds_list_del(&threadPtr->link).  CreateThread resets the head before each
\* insertion, so the neighbours of any object are the head, whatever the list
\* holds by now: the unlinking empties the list.  The links of a freed object
\* may lead elsewhere.
ListDel(o) == threadList' \in {None} \cup (IF IsFreed(o) THEN {threadList} ELSE {})

In(c, fn, at) == alive /\ frame[c].fn = fn /\ frame[c].at = at

Goto(c, at) == frame' = [frame EXCEPT ![c].at = at]

Return(c, r) == frame' = [frame EXCEPT ![c].at = "done", ![c].ret = r]

Call(c, fn, id) ==
  frame' = [frame EXCEPT ![c] = [NoFrame EXCEPT !.fn = fn, !.at = "entry", !.id = id]]

Returned(c, fn) == In(c, fn, "done")

-----------------------------------------------------------------------------
(* Functions called by the verbs *)

\* Mutant: the list is changed without Mutex.
CreateThreadUnlocked(c) ==
  /\ In(c, "CreateThread", "entry")
  /\ \E o \in FreshObj :
       /\ obj' = [obj EXCEPT ![o].mem = "live"]
       /\ threadList' = o
       /\ frame' = [frame EXCEPT ![c].at = "done", ![c].ptr = o]
  /\ UNCHANGED <<Mutex, pth, fault, alive>>

CreateThread(c) ==
  /\ In(c, "CreateThread", "entry")
  /\ Mutex = None
  /\ \E o \in FreshObj :
       /\ obj' = [obj EXCEPT ![o].mem = "live"]
       /\ threadList' = o
       /\ frame' = [frame EXCEPT ![c].at = "done", ![c].ptr = o]
  /\ UNCHANGED <<Mutex, pth, fault, alive>>

\* The functions that look an object up under Mutex and use it after unlock.
ByIdFunction == {"setThreadJoinable", "addDestructorToThread", "startThread"}

Lookup(c) ==
  /\ alive
  /\ frame[c].fn \in ByIdFunction
  /\ frame[c].at = "entry"
  /\ Mutex = None
  /\ NoteUse(threadList)
  /\ \E o \in findThreadFromIdInList(frame[c].id) :
       IF o = None THEN Return(c, -1)
       ELSE frame' = [frame EXCEPT ![c].at = "found", ![c].ptr = o]
  /\ UNCHANGED <<obj, threadList, Mutex, pth, alive>>

\* "if thread already running": the test that follows the unlock.
CheckNew(c) ==
  /\ alive
  /\ frame[c].fn \in ByIdFunction
  /\ frame[c].at = "found"
  /\ NoteUse(frame[c].ptr)
  /\ \E s \in FieldValues(frame[c].ptr, obj[frame[c].ptr].state, ThreadState) :
       IF s = "NEW" THEN Goto(c, "checked") ELSE Return(c, -2)
  /\ UNCHANGED <<obj, threadList, Mutex, pth, alive>>

setThreadJoinable(c) ==
  /\ In(c, "setThreadJoinable", "checked")
  /\ NoteUse(frame[c].ptr)
  /\ WriteObj(frame[c].ptr, LAMBDA r : [r EXCEPT !.isJoinable = TRUE])
  /\ Return(c, 0)
  /\ UNCHANGED <<threadList, Mutex, pth, alive>>

addDestructorToThread(c) ==
  /\ In(c, "addDestructorToThread", "checked")
  /\ NoteUse(frame[c].ptr)
  /\ WriteObj(frame[c].ptr, LAMBDA r : [r EXCEPT !.destructors = @ + 1])
  /\ Return(c, 0)
  /\ UNCHANGED <<threadList, Mutex, pth, alive>>

\* state = RUNNING, then pthread_create with the attributes of the object.
startThread(c) ==
  LET o == frame[c].ptr IN
  /\ In(c, "startThread", "checked")
  /\ NoteUse(o)
  /\ \/ \E t \in FreshThread, joinable \in isJoinableOf(o) :
          /\ pth' = [pth EXCEPT ![t] = [NoPthread EXCEPT !.pc = "main", !.o = o,
                                          !.detached = ~joinable]]
          /\ WriteObj(o, LAMBDA r : [r EXCEPT !.state = "RUNNING", !.threadHandle = t])
          /\ Return(c, 0)
     \/ /\ Fails("pthread_create")
        /\ WriteObj(o, LAMBDA r : [r EXCEPT !.state = "RUNNING"])
        /\ Return(c, 1)
        /\ UNCHANGED pth
  /\ UNCHANGED <<threadList, Mutex, alive>>

\* The early return of the failure path leaves Mutex locked.  pthread_cancel
\* of the handle 0 of an object that was not started dereferences NULL.
cancelThread(c) ==
  LET NoThread == Mutex' = c /\ Return(c, -1) /\ UNCHANGED <<pth, alive>>
      Cancelled == Return(c, 0) /\ UNCHANGED <<Mutex, alive>>
  IN
  /\ In(c, "cancelThread", "entry")
  /\ Mutex = None
  /\ NoteUse(threadList)
  /\ \E o \in findThreadFromIdInList(frame[c].id) :
       \/ o = None /\ NoThread
       \/ o # None /\ \E h \in threadHandleOf(o) :
            \/ /\ h = None
               /\ Die
               /\ UNCHANGED <<Mutex, pth, frame>>
            \/ /\ h # None /\ pth[h].pc = "exited"
               /\ \/ "ESRCH" \in CancelExited /\ NoThread
                  \/ "ok" \in CancelExited /\ Cancelled /\ UNCHANGED pth
            \/ /\ h # None /\ pth[h].pc # "exited"
               /\ pth' = [pth EXCEPT ![h].cancel = TRUE]
               /\ Cancelled
  /\ UNCHANGED <<obj, threadList>>

\* The look-up, and the copy of threadHandle and isJoinable before unlock.
JoinLookup(c) ==
  /\ In(c, "JoinThread", "entry")
  /\ Mutex = None
  /\ NoteUse(threadList)
  /\ \E o \in findThreadFromIdInList(frame[c].id) :
       \/ o = None /\ Return(c, -1)
       \/ o # None /\ FALSE \in isJoinableOf(o) /\ Return(c, -2)
       \/ /\ o # None /\ TRUE \in isJoinableOf(o)
          /\ \E h \in threadHandleOf(o) :
               frame' = [frame EXCEPT ![c].at = "wait", ![c].ptr = o, ![c].handle = h]
  /\ UNCHANGED <<obj, threadList, Mutex, pth, alive>>

\* pthread_join: EINVAL for a detached pthread or one that has a joiner already,
\* blocks until the pthread exits otherwise.
JoinWait(c) ==
  LET h == frame[c].handle IN
  /\ In(c, "JoinThread", "wait")
  /\ \/ /\ h = None
        /\ Die
        /\ UNCHANGED <<pth, frame>>
     \/ /\ h # None
        /\ pth[h].detached \/ pth[h].joiner \notin {None, c}
        /\ Return(c, -2)
        /\ UNCHANGED <<pth, alive>>
     \/ /\ h # None
        /\ ~pth[h].detached /\ pth[h].joiner = None
        /\ pth' = [pth EXCEPT ![h].joiner = c]
        /\ UNCHANGED <<frame, alive>>
     \/ /\ h # None
        /\ pth[h].joiner = c /\ pth[h].pc = "exited"
        /\ Goto(c, "remove")
        /\ UNCHANGED <<pth, alive>>
  /\ UNCHANGED <<obj, threadList, Mutex, fault>>

\* Mutant: the object stays in the list.
JoinKeepListed(c) ==
  /\ In(c, "JoinThread", "remove")
  /\ Mutex = None
  /\ NoteUse(frame[c].ptr)
  /\ Goto(c, "delete")
  /\ UNCHANGED <<obj, threadList, Mutex, pth, alive>>

JoinRemove(c) ==
  /\ In(c, "JoinThread", "remove")
  /\ Mutex = None
  /\ NoteUse(frame[c].ptr)
  /\ ListDel(frame[c].ptr)
  /\ Goto(c, "delete")
  /\ UNCHANGED <<obj, Mutex, pth, alive>>

JoinDelete(c) ==
  /\ In(c, "JoinThread", "delete")
  /\ DeleteThread(frame[c].ptr)
  /\ Return(c, 0)
  /\ UNCHANGED <<threadList, Mutex, pth>>

LibStep(c) ==
  \/ CreateThread(c) \/ Lookup(c) \/ CheckNew(c)
  \/ setThreadJoinable(c) \/ addDestructorToThread(c) \/ startThread(c)
  \/ cancelThread(c)
  \/ JoinLookup(c) \/ JoinWait(c) \/ JoinRemove(c) \/ JoinDelete(c)

-----------------------------------------------------------------------------
(* The pthread: PThreadStartRoutine runs mainFunc and then CleanupThread,   *)
(* either by pthread_cleanup_pop(1) when mainFunc returns, or as the        *)
(* cancellation handler.                                                    *)

EnterCleanup(t, popped) ==
  /\ pth' = [pth EXCEPT ![t].pc = "cleanup", ![t].popped = popped]
  /\ NoteUse(pth[t].o)
  /\ WriteObj(pth[t].o, LAMBDA r : [r EXCEPT !.state = "DYING"])
  /\ UNCHANGED <<threadList, Mutex, frame, alive>>

MainFuncReturns(t) == alive /\ pth[t].pc = "main" /\ EnterCleanup(t, TRUE)

ActOnCancel(t) ==
  alive /\ pth[t].pc = "main" /\ pth[t].cancel /\ EnterCleanup(t, FALSE)

\* The destructors run; with two of them the loop goes on from the freed one.
RunDestructors(t) ==
  LET o == pth[t].o IN
  /\ alive
  /\ pth[t].pc = "cleanup"
  /\ fault' = IF IsFreed(o) \/ obj[o].destructors > 1
              THEN fault \cup {"use_after_free"} ELSE fault
  /\ WriteObj(o, LAMBDA r : [r EXCEPT !.destructors = 0])
  /\ \E joinable \in isJoinableOf(o) :
       pth' = [pth EXCEPT ![t].pc = IF joinable THEN "exited" ELSE "unlink"]
  /\ UNCHANGED <<threadList, Mutex, frame, alive>>

\* Once popped, CleanupThread is not protected any more: a pending cancel can
\* end the pthread in the system() or pclose() of a destructor.
CancelledInCleanup(t) ==
  /\ alive
  /\ pth[t].pc = "cleanup" /\ pth[t].popped /\ pth[t].cancel
  /\ pth' = [pth EXCEPT ![t].pc = "exited"]
  /\ UNCHANGED <<obj, threadList, Mutex, frame, fault, alive>>

CleanupUnlink(t) ==
  /\ alive
  /\ pth[t].pc = "unlink"
  /\ Mutex = None
  /\ NoteUse(pth[t].o)
  /\ ListDel(pth[t].o)
  /\ pth' = [pth EXCEPT ![t].pc = "free"]
  /\ UNCHANGED <<obj, Mutex, frame, alive>>

CleanupFree(t) ==
  /\ alive
  /\ pth[t].pc = "free"
  /\ DeleteThread(pth[t].o)
  /\ pth' = [pth EXCEPT ![t].pc = "exited"]
  /\ UNCHANGED <<threadList, Mutex, frame>>

CleanupThread(t) ==
  \/ RunDestructors(t) \/ CancelledInCleanup(t)
  \/ CleanupUnlink(t) \/ CleanupFree(t)

PthreadStep(t) == MainFuncReturns(t) \/ ActOnCancel(t) \/ CleanupThread(t)

-----------------------------------------------------------------------------
LibTypeOK ==
  /\ obj \in [Obj -> thread_Obj_t]
  /\ threadList \in Obj \cup {None}
  /\ Mutex \in Caller \cup {None}
  /\ pth \in [Thread -> Pthread]
  /\ frame \in [Caller -> Frame]
  /\ fault \subseteq {"use_after_free", "double_free"}
  /\ alive \in BOOLEAN
=============================================================================
