-------------------------- MODULE WifiApThreadProofs --------------------------
(***************************************************************************)
(* Proofs about the thread library: LibInv is preserved by each step of a  *)
(* library call and of a pthread, for any number of callers, objects and   *)
(* pthreads, and whatever may fail.                                        *)
(***************************************************************************)
EXTENDS WifiApThread, TLAPS

\* The object the list leads to was not freed, until freed memory is used.
Listed ==
  threadList # None =>
    /\ obj[threadList].mem # "unborn"
    /\ fault = {} => obj[threadList].mem = "live"

\* The pointer of an activation record is set while it is used, nobody holds the
\* address of an object calloc has not returned yet, and an object about to be
\* freed is not in the list.
FrameOK(c) ==
  /\ frame[c].at \in {"found", "checked", "wait", "remove", "delete"}
       => frame[c].ptr # None
  /\ frame[c].ptr # None => obj[frame[c].ptr].mem # "unborn"
  /\ fault = {} /\ frame[c].at = "delete" => frame[c].ptr # threadList

PthreadOK(t) ==
  /\ pth[t].pc # "none" => pth[t].o # None
  /\ pth[t].o # None => obj[pth[t].o].mem # "unborn"
  /\ fault = {} /\ pth[t].pc = "free" => pth[t].o # threadList

LibInv ==
  /\ LibTypeOK
  /\ Listed
  /\ \A c \in Caller : FrameOK(c)
  /\ \A t \in Thread : PthreadOK(t)

-----------------------------------------------------------------------------
(* Helpers of the library *)

\* Fields of one object at most are written, that of the pointer or one that got its
\* address: objects keep their type and none is born or freed.
LEMMA WriteObjLemma ==
  ASSUME LibTypeOK, NEW new \in [Obj -> thread_Obj_t],
         \A p \in Obj : new[p].mem = obj[p].mem,
         UNCHANGED obj \/ \E p \in Obj : obj' = [obj EXCEPT ![p] = new[p]]
  PROVE  /\ obj' \in [Obj -> thread_Obj_t]
         /\ \A p \in Obj : obj'[p].mem = obj[p].mem
  BY DEF LibTypeOK

LEMMA GotoLemma ==
  ASSUME LibTypeOK, NEW c \in Caller,
         NEW at \in {"entry", "found", "checked", "wait", "remove", "delete", "done"},
         Goto(c, at)
  PROVE  /\ frame' \in [Caller -> Frame]
         /\ \A d \in Caller \ {c} : frame'[d] = frame[d]
         /\ frame'[c].ptr = frame[c].ptr /\ frame'[c].at = at
         /\ frame'[c].fn = frame[c].fn
  BY DEF LibTypeOK, Goto, Frame

LEMMA ReturnLemma ==
  ASSUME LibTypeOK, NEW c \in Caller, NEW r \in -3..1, Return(c, r)
  PROVE  /\ frame' \in [Caller -> Frame]
         /\ \A d \in Caller \ {c} : frame'[d] = frame[d]
         /\ frame'[c].ptr = frame[c].ptr /\ frame'[c].at = "done"
         /\ frame'[c].fn = frame[c].fn
  <1> DEFINE new == [frame[c] EXCEPT !.at = "done", !.ret = r]
  <1>1. frame \in [Caller -> Frame]
    BY DEF LibTypeOK
  <1>2. frame[c] \in Frame
    BY <1>1
  <1>3. /\ new \in Frame /\ new.at = "done"
        /\ new.ptr = frame[c].ptr /\ new.fn = frame[c].fn
    BY <1>2 DEF Frame
  <1>4. frame' = [frame EXCEPT ![c] = new]
    BY DEF Return
  <1> HIDE DEF new
  <1> QED BY <1>1, <1>3, <1>4

LEMMA NoteUseLemma ==
  ASSUME LibTypeOK, NEW o, NoteUse(o)
  PROVE  /\ fault' \subseteq {"use_after_free", "double_free"}
         /\ fault \subseteq fault'
  BY DEF LibTypeOK, NoteUse

\* What the look-up finds is what the list leads to.
LEMMA FindLemma ==
  ASSUME LibInv, NEW id, NEW o \in findThreadFromIdInList(id)
  PROVE  o \in Obj \cup {None} /\ (o # None => obj[o].mem # "unborn")
  BY DEF findThreadFromIdInList, FieldValues, LibInv, LibTypeOK, Listed

LEMMA HandleLemma ==
  ASSUME LibTypeOK, NEW o \in Obj, NEW h \in threadHandleOf(o)
  PROVE  h \in Thread \cup {None}
  BY DEF threadHandleOf, FieldValues, LibTypeOK, thread_Obj_t

\* What a step has to show of the records it did not touch.
LEMMA UntouchedFrame ==
  ASSUME NEW c \in Caller, LibTypeOK, FrameOK(c), frame'[c] = frame[c],
         \A o \in Obj : obj[o].mem # "unborn" => obj'[o].mem # "unborn",
         threadList' \in {None, threadList}, fault \subseteq fault'
  PROVE  FrameOK(c)'
  BY ThreadAssumption DEF FrameOK, LibTypeOK, Frame

LEMMA UntouchedPthread ==
  ASSUME NEW t \in Thread, LibTypeOK, PthreadOK(t), pth'[t] = pth[t],
         \A o \in Obj : obj[o].mem # "unborn" => obj'[o].mem # "unborn",
         threadList' \in {None, threadList}, fault \subseteq fault'
  PROVE  PthreadOK(t)'
  BY ThreadAssumption DEF PthreadOK, LibTypeOK, Pthread

LEMMA InitLib == LibInit /\ alive \in BOOLEAN => LibInv
  BY ThreadAssumption, ProcessAssumption
  DEF LibInit, LibInv, LibTypeOK, Listed, FrameOK, PthreadOK, UnbornObj,
      NoPthread, NoFrame, thread_Obj_t, Pthread, Frame, Function, ThreadState

-----------------------------------------------------------------------------
(* Library calls *)

LEMMA CreateThreadInv ==
  ASSUME LibInv, NEW c \in Caller, CreateThread(c) PROVE LibInv'
  BY ThreadAssumption, ProcessAssumption
  DEF LibInv, LibTypeOK, Listed, FrameOK, PthreadOK, CreateThread, In, FreshObj, Fresh,
      thread_Obj_t, Pthread, Frame

LEMMA LookupInv ==
  ASSUME LibInv, NEW c \in Caller, Lookup(c) PROVE LibInv'
  <1>1. PICK o \in findThreadFromIdInList(frame[c].id) :
          IF o = None THEN Return(c, -1)
          ELSE frame' = [frame EXCEPT ![c].at = "found", ![c].ptr = o]
    BY DEF Lookup
  <1>2. o \in Obj \cup {None} /\ (o # None => obj[o].mem # "unborn")
    BY <1>1, FindLemma
  <1>3. UNCHANGED <<obj, threadList, Mutex, pth, alive>> /\ NoteUse(threadList)
    BY DEF Lookup
  <1>4. frame' \in [Caller -> Frame] /\ \A d \in Caller \ {c} : frame'[d] = frame[d]
    BY <1>1, <1>2, ReturnLemma DEF LibInv, LibTypeOK, Frame
  <1>5. FrameOK(c)'
    <2>1. CASE o = None
      BY <1>1, <1>3, <2>1, ReturnLemma DEF LibInv, FrameOK
    <2>2. CASE o # None
      BY <1>1, <1>2, <1>3, <2>2 DEF LibInv, LibTypeOK, FrameOK, Frame
    <2> QED BY <2>1, <2>2
  <1>6. fault' \subseteq {"use_after_free", "double_free"} /\ fault \subseteq fault'
    BY <1>3, NoteUseLemma DEF LibInv
  <1>7. Listed'
    BY <1>3, <1>6 DEF LibInv, Listed
  <1> QED BY <1>3, <1>4, <1>5, <1>6, <1>7, UntouchedFrame, UntouchedPthread
          DEF LibInv, LibTypeOK

LEMMA CheckNewInv ==
  ASSUME LibInv, NEW c \in Caller, CheckNew(c) PROVE LibInv'
  <1>1. UNCHANGED <<obj, threadList, Mutex, pth, alive>> /\ NoteUse(frame[c].ptr)
    BY DEF CheckNew
  <1>2. Goto(c, "checked") \/ Return(c, -2)
    BY DEF CheckNew
  <1>3. /\ frame' \in [Caller -> Frame] /\ \A d \in Caller \ {c} : frame'[d] = frame[d]
        /\ frame'[c].ptr = frame[c].ptr /\ frame'[c].at \in {"checked", "done"}
    BY <1>2, GotoLemma, ReturnLemma DEF LibInv
  <1>4. FrameOK(c)'
    BY <1>1, <1>3 DEF CheckNew, LibInv, FrameOK
  <1>5. fault' \subseteq {"use_after_free", "double_free"} /\ fault \subseteq fault'
    BY <1>1, NoteUseLemma DEF LibInv
  <1>6. Listed'
    BY <1>1, <1>5 DEF LibInv, Listed
  <1> QED BY <1>1, <1>3, <1>4, <1>5, <1>6, UntouchedFrame, UntouchedPthread
          DEF LibInv, LibTypeOK

\* A step of a call that writes fields of the object it looked up, and returns.
LEMMA WriteAndReturn ==
  ASSUME LibInv, NEW c \in Caller, frame[c].at = "checked", NoteUse(frame[c].ptr),
         obj' \in [Obj -> thread_Obj_t], \A p \in Obj : obj'[p].mem = obj[p].mem,
         NEW r \in -3..1, Return(c, r),
         pth' \in [Thread -> Pthread], \A t \in Thread : PthreadOK(t)',
         UNCHANGED <<threadList, Mutex, alive>>
  PROVE  LibInv'
  <1>1. frame[c].ptr \in Obj
    BY DEF LibInv, LibTypeOK, FrameOK, Frame
  <1>2. /\ frame' \in [Caller -> Frame] /\ \A d \in Caller \ {c} : frame'[d] = frame[d]
        /\ frame'[c].ptr = frame[c].ptr /\ frame'[c].at = "done"
    BY ReturnLemma DEF LibInv
  <1>3. fault' \subseteq {"use_after_free", "double_free"} /\ fault \subseteq fault'
    BY NoteUseLemma DEF LibInv
  <1>4. FrameOK(c)'
    BY <1>1, <1>2 DEF LibInv, FrameOK
  <1>5. \A d \in Caller : FrameOK(d)'
    BY <1>2, <1>3, <1>4, UntouchedFrame DEF LibInv
  <1>6. Listed'
    BY <1>3 DEF LibInv, LibTypeOK, Listed
  <1> QED BY <1>2, <1>3, <1>5, <1>6 DEF LibInv, LibTypeOK

LEMMA setThreadJoinableInv ==
  ASSUME LibInv, NEW c \in Caller, setThreadJoinable(c) PROVE LibInv'
  <1> DEFINE new == [p \in Obj |-> [obj[p] EXCEPT !.isJoinable = TRUE]]
  <1>1. /\ frame[c].at = "checked" /\ NoteUse(frame[c].ptr)
        /\ WriteObj(frame[c].ptr, LAMBDA r : [r EXCEPT !.isJoinable = TRUE])
        /\ Return(c, 0) /\ UNCHANGED <<threadList, Mutex, pth, alive>>
    BY DEF setThreadJoinable, In
  <1>2. frame[c].ptr \in Obj
    BY <1>1 DEF LibInv, LibTypeOK, FrameOK, Frame
  <1>3. new \in [Obj -> thread_Obj_t] /\ \A p \in Obj : new[p].mem = obj[p].mem
    BY ZenonT(60) DEF LibInv, LibTypeOK, thread_Obj_t
  <1>4. UNCHANGED obj \/ \E p \in Obj : obj' = [obj EXCEPT ![p] = new[p]]
    BY <1>1, <1>2 DEF WriteObj, SameAddress
  <1> HIDE DEF new
  <1>5. obj' \in [Obj -> thread_Obj_t] /\ \A p \in Obj : obj'[p].mem = obj[p].mem
    BY <1>3, <1>4, WriteObjLemma DEF LibInv
  <1>6. \A t \in Thread : PthreadOK(t)'
    BY <1>1, <1>5, NoteUseLemma, UntouchedPthread DEF LibInv
  <1> QED BY <1>1, <1>5, <1>6, WriteAndReturn DEF LibInv, LibTypeOK

LEMMA addDestructorToThreadInv ==
  ASSUME LibInv, NEW c \in Caller, addDestructorToThread(c) PROVE LibInv'
  <1> DEFINE new == [p \in Obj |-> [obj[p] EXCEPT !.destructors = @ + 1]]
  <1>1. /\ frame[c].at = "checked" /\ NoteUse(frame[c].ptr)
        /\ WriteObj(frame[c].ptr, LAMBDA r : [r EXCEPT !.destructors = @ + 1])
        /\ Return(c, 0) /\ UNCHANGED <<threadList, Mutex, pth, alive>>
    BY DEF addDestructorToThread, In
  <1>2. frame[c].ptr \in Obj
    BY <1>1 DEF LibInv, LibTypeOK, FrameOK, Frame
  <1>3. new \in [Obj -> thread_Obj_t] /\ \A p \in Obj : new[p].mem = obj[p].mem
    BY DEF LibInv, LibTypeOK, thread_Obj_t
  <1>4. UNCHANGED obj \/ \E p \in Obj : obj' = [obj EXCEPT ![p] = new[p]]
    BY <1>1, <1>2 DEF WriteObj, SameAddress
  <1> HIDE DEF new
  <1>5. obj' \in [Obj -> thread_Obj_t] /\ \A p \in Obj : obj'[p].mem = obj[p].mem
    BY <1>3, <1>4, WriteObjLemma DEF LibInv
  <1>6. \A t \in Thread : PthreadOK(t)'
    BY <1>1, <1>5, NoteUseLemma, UntouchedPthread DEF LibInv
  <1> QED BY <1>1, <1>5, <1>6, WriteAndReturn DEF LibInv, LibTypeOK

LEMMA startThreadInv ==
  ASSUME LibInv, NEW c \in Caller, startThread(c) PROVE LibInv'
  <1> DEFINE o == frame[c].ptr
             failed == [p \in Obj |-> [obj[p] EXCEPT !.state = "RUNNING"]]
  <1>1. /\ frame[c].at = "checked" /\ NoteUse(o)
        /\ UNCHANGED <<threadList, Mutex, alive>>
    BY DEF startThread, In
  <1>2. o \in Obj /\ obj[o].mem # "unborn"
    BY <1>1 DEF LibInv, LibTypeOK, FrameOK, Frame
  <1>3. fault \subseteq fault'
    BY <1>1, NoteUseLemma DEF LibInv
  <1>4. CASE \E t \in FreshThread, joinable \in isJoinableOf(o) :
               /\ pth' = [pth EXCEPT ![t] = [NoPthread EXCEPT !.pc = "main", !.o = o,
                                               !.detached = ~joinable]]
               /\ WriteObj(o, LAMBDA r : [r EXCEPT !.state = "RUNNING", !.threadHandle = t])
               /\ Return(c, 0)
    <2>1. PICK t \in FreshThread, joinable \in isJoinableOf(o) :
               /\ pth' = [pth EXCEPT ![t] = [NoPthread EXCEPT !.pc = "main", !.o = o,
                                               !.detached = ~joinable]]
               /\ WriteObj(o, LAMBDA r : [r EXCEPT !.state = "RUNNING", !.threadHandle = t])
               /\ Return(c, 0)
      BY <1>4
    <2>2. t \in Thread
      BY <2>1 DEF FreshThread, Fresh
    <2>3. joinable \in BOOLEAN
      BY <1>2, <2>1 DEF isJoinableOf, FieldValues, LibInv, LibTypeOK, thread_Obj_t
    <2> DEFINE new == [p \in Obj |-> [obj[p] EXCEPT !.state = "RUNNING", !.threadHandle = t]]
               born == [NoPthread EXCEPT !.pc = "main", !.o = o, !.detached = ~joinable]
    <2>4. new \in [Obj -> thread_Obj_t] /\ \A p \in Obj : new[p].mem = obj[p].mem
      BY ZenonT(60), <2>2 DEF LibInv, LibTypeOK, thread_Obj_t, ThreadState
    <2>5. born \in Pthread /\ born.pc = "main" /\ born.o = o
      BY <1>2, <2>3 DEF NoPthread, Pthread
    <2>6. pth' = [pth EXCEPT ![t] = born]
      BY <2>1
    <2>7. UNCHANGED obj \/ \E p \in Obj : obj' = [obj EXCEPT ![p] = new[p]]
      BY <1>2, <2>1 DEF WriteObj, SameAddress
    <2> HIDE DEF o, new, born
    <2>8. obj' \in [Obj -> thread_Obj_t] /\ \A p \in Obj : obj'[p].mem = obj[p].mem
      BY <2>4, <2>7, WriteObjLemma DEF LibInv
    <2>9. pth' \in [Thread -> Pthread] /\ pth'[t] = born
          /\ \A u \in Thread \ {t} : pth'[u] = pth[u]
      BY <2>2, <2>5, <2>6 DEF LibInv, LibTypeOK
    <2>10. PthreadOK(t)'
      BY <1>2, <2>5, <2>8, <2>9, ThreadAssumption DEF PthreadOK
    <2>11. \A u \in Thread : PthreadOK(u)'
      BY <1>1, <1>3, <2>8, <2>9, <2>10, UntouchedPthread DEF LibInv
    <2> QED BY <1>1, <2>1, <2>8, <2>9, <2>11, WriteAndReturn DEF o
  <1>5. CASE /\ WriteObj(o, LAMBDA r : [r EXCEPT !.state = "RUNNING"])
             /\ Return(c, 1) /\ UNCHANGED pth
    <2>1. failed \in [Obj -> thread_Obj_t] /\ \A p \in Obj : failed[p].mem = obj[p].mem
      BY DEF LibInv, LibTypeOK, thread_Obj_t, ThreadState
    <2>2. UNCHANGED obj \/ \E p \in Obj : obj' = [obj EXCEPT ![p] = failed[p]]
      BY <1>2, <1>5 DEF WriteObj, SameAddress
    <2> HIDE DEF o, failed
    <2>3. obj' \in [Obj -> thread_Obj_t] /\ \A p \in Obj : obj'[p].mem = obj[p].mem
      BY <2>1, <2>2, WriteObjLemma DEF LibInv
    <2>4. \A t \in Thread : PthreadOK(t)'
      BY <1>1, <1>3, <1>5, <2>3, UntouchedPthread DEF LibInv
    <2> QED BY <1>1, <1>5, <2>3, <2>4, WriteAndReturn DEF o, LibInv, LibTypeOK
  <1> QED BY <1>4, <1>5 DEF startThread

\* A step of a call that reads the objects and may touch one pthread's cancel or
\* joiner, which no part of the invariant depends on.
LEMMA ObjectsUntouched ==
  ASSUME LibInv, NEW c \in Caller,
         UNCHANGED <<obj, threadList>>,
         fault' \subseteq {"use_after_free", "double_free"}, fault \subseteq fault',
         frame' \in [Caller -> Frame], FrameOK(c)',
         \A d \in Caller \ {c} : frame'[d] = frame[d],
         pth' \in [Thread -> Pthread],
         \A t \in Thread : pth'[t].pc = pth[t].pc /\ pth'[t].o = pth[t].o,
         Mutex' \in Caller \cup {None}, alive' \in BOOLEAN
  PROVE  LibInv'
  <1>1. \A d \in Caller \ {c} : FrameOK(d)'
    BY UntouchedFrame DEF LibInv
  <1>2. \A t \in Thread : PthreadOK(t)'
    BY DEF LibInv, PthreadOK
  <1>3. Listed'
    BY DEF LibInv, Listed
  <1> QED BY <1>1, <1>2, <1>3 DEF LibInv, LibTypeOK

LEMMA CancelLemma ==
  ASSUME LibTypeOK, NEW t \in Thread, pth' = [pth EXCEPT ![t].cancel = TRUE]
  PROVE  /\ pth' \in [Thread -> Pthread]
         /\ \A u \in Thread : pth'[u].pc = pth[u].pc /\ pth'[u].o = pth[u].o
  <1> DEFINE new == [pth[t] EXCEPT !.cancel = TRUE]
  <1>1. new \in Pthread /\ new.pc = pth[t].pc /\ new.o = pth[t].o
    BY DEF LibTypeOK, Pthread
  <1>2. pth' = [pth EXCEPT ![t] = new]
    OBVIOUS
  <1> HIDE DEF new
  <1> QED BY <1>1, <1>2 DEF LibTypeOK

\* What cancelThread may do to the pthreads.
LEMMA cancelThreadEffect ==
  ASSUME LibInv, NEW c \in Caller, cancelThread(c)
  PROVE  /\ frame[c].at = "entry" /\ NoteUse(threadList)
         /\ UNCHANGED <<obj, threadList>>
         /\ Return(c, -1) \/ Return(c, 0) \/ UNCHANGED frame
         /\ Mutex' \in Caller \cup {None} /\ alive' \in BOOLEAN
         /\ UNCHANGED pth \/ \E h \in Thread : pth' = [pth EXCEPT ![h].cancel = TRUE]
  <1>1. /\ frame[c].at = "entry" /\ NoteUse(threadList) /\ UNCHANGED <<obj, threadList>>
    BY DEF cancelThread, In
  <1>2. PICK o \in findThreadFromIdInList(frame[c].id) :
          \/ o = None /\ Mutex' = c /\ Return(c, -1) /\ UNCHANGED <<pth, alive>>
          \/ o # None /\ \E h \in threadHandleOf(o) :
               \/ h = None /\ Die /\ UNCHANGED <<Mutex, pth, frame>>
               \/ /\ Mutex' = c /\ Return(c, -1) /\ UNCHANGED <<pth, alive>>
               \/ Return(c, 0) /\ UNCHANGED <<Mutex, alive, pth>>
               \/ /\ h # None /\ pth' = [pth EXCEPT ![h].cancel = TRUE]
                  /\ Return(c, 0) /\ UNCHANGED <<Mutex, alive>>
    BY DEF cancelThread
  <1>3. CASE o = None
    BY <1>1, <1>2, <1>3 DEF LibInv, LibTypeOK
  <1>4. CASE o # None
    <2>1. o \in Obj
      BY <1>2, <1>4, FindLemma
    <2>2. PICK h \in threadHandleOf(o) :
               \/ h = None /\ Die /\ UNCHANGED <<Mutex, pth, frame>>
               \/ /\ Mutex' = c /\ Return(c, -1) /\ UNCHANGED <<pth, alive>>
               \/ Return(c, 0) /\ UNCHANGED <<Mutex, alive, pth>>
               \/ /\ h # None /\ pth' = [pth EXCEPT ![h].cancel = TRUE]
                  /\ Return(c, 0) /\ UNCHANGED <<Mutex, alive>>
      BY <1>2, <1>4
    <2>3. h \in Thread \cup {None}
      BY <2>1, <2>2, HandleLemma DEF LibInv
    <2> QED BY <1>1, <2>2, <2>3 DEF LibInv, LibTypeOK, Die
  <1> QED BY <1>3, <1>4

LEMMA cancelThreadInv ==
  ASSUME LibInv, NEW c \in Caller, cancelThread(c) PROVE LibInv'
  <1>1. /\ frame[c].at = "entry" /\ NoteUse(threadList) /\ UNCHANGED <<obj, threadList>>
        /\ Return(c, -1) \/ Return(c, 0) \/ UNCHANGED frame
        /\ Mutex' \in Caller \cup {None} /\ alive' \in BOOLEAN
        /\ UNCHANGED pth \/ \E h \in Thread : pth' = [pth EXCEPT ![h].cancel = TRUE]
    BY cancelThreadEffect
  <1>2. /\ frame' \in [Caller -> Frame] /\ \A d \in Caller \ {c} : frame'[d] = frame[d]
        /\ frame'[c].ptr = frame[c].ptr /\ frame'[c].at \in {"entry", "done"}
    BY <1>1, ReturnLemma DEF LibInv, LibTypeOK
  <1>3. FrameOK(c)'
    BY <1>1, <1>2 DEF LibInv, FrameOK
  <1>4. /\ pth' \in [Thread -> Pthread]
        /\ \A t \in Thread : pth'[t].pc = pth[t].pc /\ pth'[t].o = pth[t].o
    BY <1>1, CancelLemma DEF LibInv, LibTypeOK
  <1>5. fault' \subseteq {"use_after_free", "double_free"} /\ fault \subseteq fault'
    BY <1>1, NoteUseLemma DEF LibInv
  <1> QED BY <1>1, <1>2, <1>3, <1>4, <1>5, ObjectsUntouched

LEMMA JoinFrameLemma ==
  ASSUME LibTypeOK, NEW c \in Caller, NEW o \in Obj, NEW h \in Thread \cup {None},
         frame' = [frame EXCEPT ![c].at = "wait", ![c].ptr = o, ![c].handle = h]
  PROVE  /\ frame' \in [Caller -> Frame]
         /\ \A d \in Caller \ {c} : frame'[d] = frame[d]
         /\ frame'[c].ptr = o /\ frame'[c].at = "wait"
  <1> DEFINE new == [frame[c] EXCEPT !.at = "wait", !.ptr = o, !.handle = h]
  <1>1. frame \in [Caller -> Frame]
    BY DEF LibTypeOK
  <1>2. frame[c] \in Frame
    BY <1>1
  <1>3. new \in Frame /\ new.at = "wait" /\ new.ptr = o
    BY <1>2 DEF Frame
  <1>4. frame' = [frame EXCEPT ![c] = new]
    OBVIOUS
  <1> HIDE DEF new
  <1> QED BY ZenonT(60), <1>1, <1>3, <1>4

LEMMA JoinLookupInv ==
  ASSUME LibInv, NEW c \in Caller, JoinLookup(c) PROVE LibInv'
  <1>1. /\ UNCHANGED <<obj, threadList, Mutex, pth, alive>> /\ frame[c].at = "entry"
        /\ NoteUse(threadList)
    BY DEF JoinLookup, In
  <1>2. fault' \subseteq {"use_after_free", "double_free"} /\ fault \subseteq fault'
    BY <1>1, NoteUseLemma DEF LibInv
  <1>3. PICK o \in findThreadFromIdInList(frame[c].id) :
          \/ Return(c, -1) \/ Return(c, -2)
          \/ /\ o # None
             /\ \E h \in threadHandleOf(o) :
                  frame' = [frame EXCEPT ![c].at = "wait", ![c].ptr = o, ![c].handle = h]
    BY DEF JoinLookup
  <1>4. o \in Obj \cup {None} /\ (o # None => obj[o].mem # "unborn")
    BY <1>3, FindLemma
  <1>5. CASE Return(c, -1) \/ Return(c, -2)
    <2>1. /\ frame' \in [Caller -> Frame] /\ \A d \in Caller \ {c} : frame'[d] = frame[d]
          /\ frame'[c].ptr = frame[c].ptr /\ frame'[c].at = "done"
      BY <1>5, ReturnLemma DEF LibInv
    <2>2. FrameOK(c)'
      BY <1>1, <2>1 DEF LibInv, FrameOK
    <2> QED BY <1>1, <1>2, <2>1, <2>2, ObjectsUntouched DEF LibInv, LibTypeOK
  <1>6. CASE /\ o # None
             /\ \E h \in threadHandleOf(o) :
                  frame' = [frame EXCEPT ![c].at = "wait", ![c].ptr = o, ![c].handle = h]
    <2>1. o \in Obj
      BY <1>4, <1>6
    <2>2. PICK h \in threadHandleOf(o) :
            frame' = [frame EXCEPT ![c].at = "wait", ![c].ptr = o, ![c].handle = h]
      BY <1>6
    <2>3. h \in Thread \cup {None}
      BY <2>1, <2>2, HandleLemma DEF LibInv
    <2>4. /\ frame' \in [Caller -> Frame] /\ \A d \in Caller \ {c} : frame'[d] = frame[d]
          /\ frame'[c].ptr = o /\ frame'[c].at = "wait"
      BY <2>1, <2>2, <2>3, JoinFrameLemma DEF LibInv
    <2>5. FrameOK(c)'
      BY <1>1, <1>4, <1>6, <2>4 DEF FrameOK
    <2> QED BY <1>1, <1>2, <2>4, <2>5, ObjectsUntouched DEF LibInv, LibTypeOK
  <1> QED BY <1>3, <1>5, <1>6

LEMMA JoinWaitInv ==
  ASSUME LibInv, NEW c \in Caller, JoinWait(c) PROVE LibInv'
  <1> DEFINE h == frame[c].handle
  <1>1. UNCHANGED <<obj, threadList, Mutex, fault>> /\ frame[c].at = "wait"
    BY DEF JoinWait, In
  <1>2. Return(c, -2) \/ Goto(c, "remove") \/ UNCHANGED frame
    BY DEF JoinWait
  <1>3. /\ frame' \in [Caller -> Frame] /\ \A d \in Caller \ {c} : frame'[d] = frame[d]
        /\ frame'[c].ptr = frame[c].ptr /\ frame'[c].at \in {"wait", "remove", "done"}
    BY <1>1, <1>2, ReturnLemma, GotoLemma DEF LibInv, LibTypeOK
  <1>4. FrameOK(c)'
    BY <1>1, <1>3 DEF LibInv, FrameOK
  <1>5. UNCHANGED pth \/ (h \in Thread /\ pth' = [pth EXCEPT ![h].joiner = c])
    BY DEF JoinWait, LibInv, LibTypeOK, Frame
  <1>6. /\ pth' \in [Thread -> Pthread]
        /\ \A t \in Thread : pth'[t].pc = pth[t].pc /\ pth'[t].o = pth[t].o
    BY <1>5 DEF LibInv, LibTypeOK, Pthread
  <1>7. Mutex' \in Caller \cup {None} /\ alive' \in BOOLEAN
    BY <1>1 DEF JoinWait, LibInv, LibTypeOK, Die
  <1> QED BY <1>1, <1>3, <1>4, <1>6, <1>7, ObjectsUntouched DEF LibInv, LibTypeOK

\* An object is unlinked before it is freed: the list is empty, or what was freed
\* is not what it leads to.
LEMMA JoinRemoveInv ==
  ASSUME LibInv, NEW c \in Caller, JoinRemove(c) PROVE LibInv'
  <1>1. /\ UNCHANGED <<obj, Mutex, pth, alive>> /\ frame[c].at = "remove"
        /\ NoteUse(frame[c].ptr) /\ ListDel(frame[c].ptr) /\ Goto(c, "delete")
    BY DEF JoinRemove, In
  <1>2. /\ frame' \in [Caller -> Frame] /\ \A d \in Caller \ {c} : frame'[d] = frame[d]
        /\ frame'[c].ptr = frame[c].ptr
    BY <1>1, GotoLemma DEF LibInv
  <1>3. threadList' \in {None, threadList} /\ threadList' \in Obj \cup {None}
    BY <1>1 DEF ListDel, LibInv, LibTypeOK
  <1>4. fault' \subseteq {"use_after_free", "double_free"} /\ fault \subseteq fault'
    BY <1>1, NoteUseLemma DEF LibInv
  <1>5. frame[c].ptr # None /\ (fault' = {} => frame[c].ptr # threadList')
    BY <1>1 DEF LibInv, FrameOK, ListDel, NoteUse, IsFreed
  <1>6. FrameOK(c)'
    BY <1>1, <1>2, <1>5 DEF LibInv, FrameOK
  <1>7. Listed'
    BY <1>1, <1>3, <1>4 DEF LibInv, Listed
  <1> QED BY <1>1, <1>2, <1>3, <1>4, <1>6, <1>7, UntouchedFrame, UntouchedPthread
          DEF LibInv, LibTypeOK

\* free: until freed memory is used, it frees the object of the pointer and no other.
LEMMA DeleteThreadLemma ==
  ASSUME LibTypeOK, NEW o \in Obj, DeleteThread(o)
  PROVE  /\ obj' \in [Obj -> thread_Obj_t]
         /\ \A p \in Obj : obj[p].mem # "unborn" => obj'[p].mem # "unborn"
         /\ fault' = {} => /\ obj'[o].mem = "freed"
                           /\ \A p \in Obj \ {o} : obj'[p] = obj[p]
         /\ fault' \subseteq {"use_after_free", "double_free"}
         /\ fault \subseteq fault'
         /\ alive' \in BOOLEAN
  <1>1. PICK p \in {o} \cup SameAddress(o) : obj' = [obj EXCEPT ![p].mem = "freed"]
    BY DEF DeleteThread
  <1>2. p \in Obj /\ (fault' = {} => p = o)
    BY <1>1 DEF DeleteThread, SameAddress
  <1> DEFINE new == [obj[p] EXCEPT !.mem = "freed"]
  <1>3. new \in thread_Obj_t /\ new.mem = "freed"
    BY ZenonT(60), <1>2 DEF LibTypeOK, thread_Obj_t
  <1>4. obj' = [obj EXCEPT ![p] = new]
    BY <1>1
  <1> HIDE DEF new
  <1>5. /\ obj' \in [Obj -> thread_Obj_t] /\ obj'[p].mem = "freed"
        /\ \A q \in Obj \ {p} : obj'[q] = obj[q]
    BY <1>2, <1>3, <1>4 DEF LibTypeOK
  <1>6. /\ fault' \subseteq {"use_after_free", "double_free"} /\ fault \subseteq fault'
        /\ alive' \in BOOLEAN
    BY DEF DeleteThread, LibTypeOK, Die
  <1> QED BY <1>2, <1>5, <1>6

LEMMA JoinDeleteInv ==
  ASSUME LibInv, NEW c \in Caller, JoinDelete(c) PROVE LibInv'
  <1> DEFINE o == frame[c].ptr
  <1>1. /\ UNCHANGED <<threadList, Mutex, pth>> /\ frame[c].at = "delete"
        /\ DeleteThread(o) /\ Return(c, 0)
    BY DEF JoinDelete, In
  <1>2. o \in Obj /\ obj[o].mem # "unborn" /\ (fault = {} => o # threadList)
    BY <1>1 DEF LibInv, LibTypeOK, FrameOK, Frame
  <1>3. /\ obj' \in [Obj -> thread_Obj_t]
        /\ \A p \in Obj : obj[p].mem # "unborn" => obj'[p].mem # "unborn"
        /\ fault' = {} => \A p \in Obj \ {o} : obj'[p] = obj[p]
        /\ fault' \subseteq {"use_after_free", "double_free"}
        /\ fault \subseteq fault' /\ alive' \in BOOLEAN
    BY <1>1, <1>2, DeleteThreadLemma DEF LibInv
  <1>4. /\ frame' \in [Caller -> Frame] /\ \A d \in Caller \ {c} : frame'[d] = frame[d]
        /\ frame'[c].ptr = o /\ frame'[c].at = "done"
    BY <1>1, ReturnLemma DEF LibInv
  <1>5. FrameOK(c)'
    BY <1>2, <1>3, <1>4 DEF FrameOK
  <1>6. Listed'
    BY <1>1, <1>2, <1>3 DEF LibInv, LibTypeOK, Listed
  <1> QED BY <1>1, <1>3, <1>4, <1>5, <1>6, UntouchedFrame, UntouchedPthread
          DEF LibInv, LibTypeOK

LEMMA LibStepInv ==
  ASSUME LibInv, NEW c \in Caller, LibStep(c) PROVE LibInv'
  BY CreateThreadInv, LookupInv, CheckNewInv, setThreadJoinableInv,
     addDestructorToThreadInv, startThreadInv, cancelThreadInv,
     JoinLookupInv, JoinWaitInv, JoinRemoveInv, JoinDeleteInv
  DEF LibStep

-----------------------------------------------------------------------------
(* Pthreads *)

\* A pthread moves to pc p and maybe writes its object, which stays alive if it was.
LEMMA PthreadWrites ==
  ASSUME LibInv, NEW t \in Thread,
         pth[t].pc # "none", NEW new \in Pthread, new.o = pth[t].o, new.pc # "free",
         pth' = [pth EXCEPT ![t] = new],
         obj' \in [Obj -> thread_Obj_t], \A p \in Obj : obj'[p].mem = obj[p].mem,
         fault' \subseteq {"use_after_free", "double_free"}, fault \subseteq fault',
         UNCHANGED <<threadList, Mutex, frame, alive>>
  PROVE  LibInv'
  <1>1. /\ pth' \in [Thread -> Pthread] /\ pth'[t] = new
        /\ \A u \in Thread \ {t} : pth'[u] = pth[u]
    BY DEF LibInv, LibTypeOK
  <1>2. pth[t].o \in Obj /\ obj[pth[t].o].mem # "unborn"
    BY DEF LibInv, LibTypeOK, PthreadOK, Pthread
  <1>3. PthreadOK(t)'
    BY <1>1, <1>2, ThreadAssumption DEF PthreadOK
  <1>4. \A u \in Thread \ {t} : PthreadOK(u)'
    BY <1>1, UntouchedPthread DEF LibInv
  <1>5. \A c \in Caller : FrameOK(c)'
    BY UntouchedFrame DEF LibInv
  <1>6. Listed'
    BY DEF LibInv, LibTypeOK, Listed
  <1> QED BY <1>1, <1>3, <1>4, <1>5, <1>6 DEF LibInv, LibTypeOK

LEMMA EnterCleanupInv ==
  ASSUME LibInv, NEW t \in Thread, pth[t].pc = "main", NEW popped \in BOOLEAN,
         EnterCleanup(t, popped)
  PROVE  LibInv'
  <1> DEFINE o == pth[t].o
             new == [pth[t] EXCEPT !.pc = "cleanup", !.popped = popped]
             dying == [p \in Obj |-> [obj[p] EXCEPT !.state = "DYING"]]
  <1>1. o \in Obj
    BY DEF LibInv, LibTypeOK, PthreadOK, Pthread
  <1>2. new \in Pthread /\ new.o = pth[t].o /\ new.pc = "cleanup"
    BY ZenonT(60) DEF LibInv, LibTypeOK, Pthread
  <1>3. dying \in [Obj -> thread_Obj_t] /\ \A p \in Obj : dying[p].mem = obj[p].mem
    BY DEF LibInv, LibTypeOK, thread_Obj_t, ThreadState
  <1>4. /\ WriteObj(o, LAMBDA r : [r EXCEPT !.state = "DYING"])
        /\ NoteUse(o) /\ UNCHANGED <<threadList, Mutex, frame, alive>>
    BY DEF EnterCleanup
  <1>5. pth' = [pth EXCEPT ![t] = new]
    BY DEF EnterCleanup
  <1>6. UNCHANGED obj \/ \E p \in Obj : obj' = [obj EXCEPT ![p] = dying[p]]
    BY <1>1, <1>4 DEF WriteObj, SameAddress
  <1> HIDE DEF new, dying
  <1>7. obj' \in [Obj -> thread_Obj_t] /\ \A p \in Obj : obj'[p].mem = obj[p].mem
    BY <1>3, <1>6, WriteObjLemma DEF LibInv
  <1>8. fault' \subseteq {"use_after_free", "double_free"} /\ fault \subseteq fault'
    BY <1>4, NoteUseLemma DEF LibInv
  <1> QED BY <1>2, <1>4, <1>5, <1>7, <1>8, PthreadWrites

LEMMA RunDestructorsInv ==
  ASSUME LibInv, NEW t \in Thread, RunDestructors(t) PROVE LibInv'
  <1> DEFINE o == pth[t].o
             clean == [p \in Obj |-> [obj[p] EXCEPT !.destructors = 0]]
             ended(pc) == [pth[t] EXCEPT !.pc = pc]
  <1>1. pth[t].pc = "cleanup" /\ WriteObj(o, LAMBDA r : [r EXCEPT !.destructors = 0])
        /\ UNCHANGED <<threadList, Mutex, frame, alive>>
    BY DEF RunDestructors
  <1>2. o \in Obj
    BY <1>1 DEF LibInv, LibTypeOK, PthreadOK, Pthread
  <1>3. clean \in [Obj -> thread_Obj_t] /\ \A p \in Obj : clean[p].mem = obj[p].mem
    BY DEF LibInv, LibTypeOK, thread_Obj_t
  <1>4. PICK pc \in {"exited", "unlink"} : pth' = [pth EXCEPT ![t] = ended(pc)]
    BY DEF RunDestructors
  <1>5. ended(pc) \in Pthread /\ ended(pc).o = pth[t].o /\ ended(pc).pc = pc
    BY DEF LibInv, LibTypeOK, Pthread
  <1>6. UNCHANGED obj \/ \E p \in Obj : obj' = [obj EXCEPT ![p] = clean[p]]
    BY <1>1, <1>2 DEF WriteObj, SameAddress
  <1>7. fault' \subseteq {"use_after_free", "double_free"} /\ fault \subseteq fault'
    BY DEF RunDestructors, LibInv, LibTypeOK
  <1> HIDE DEF ended, clean
  <1>8. obj' \in [Obj -> thread_Obj_t] /\ \A p \in Obj : obj'[p].mem = obj[p].mem
    BY <1>3, <1>6, WriteObjLemma DEF LibInv
  <1> QED BY <1>1, <1>4, <1>5, <1>7, <1>8, PthreadWrites

LEMMA CancelledInCleanupInv ==
  ASSUME LibInv, NEW t \in Thread, CancelledInCleanup(t) PROVE LibInv'
  <1> DEFINE new == [pth[t] EXCEPT !.pc = "exited"]
  <1>1. pth[t].pc = "cleanup" /\ UNCHANGED <<obj, threadList, Mutex, frame, fault, alive>>
        /\ pth' = [pth EXCEPT ![t] = new]
    BY DEF CancelledInCleanup
  <1>2. new \in Pthread /\ new.o = pth[t].o /\ new.pc = "exited"
    BY DEF LibInv, LibTypeOK, Pthread
  <1> HIDE DEF new
  <1> QED BY <1>1, <1>2, PthreadWrites DEF LibInv, LibTypeOK

LEMMA CleanupUnlinkInv ==
  ASSUME LibInv, NEW t \in Thread, CleanupUnlink(t) PROVE LibInv'
  <1> DEFINE new == [pth[t] EXCEPT !.pc = "free"]
  <1>1. /\ pth[t].pc = "unlink" /\ UNCHANGED <<obj, Mutex, frame, alive>>
        /\ NoteUse(pth[t].o) /\ ListDel(pth[t].o) /\ pth' = [pth EXCEPT ![t] = new]
    BY DEF CleanupUnlink
  <1>2. new \in Pthread /\ new.o = pth[t].o /\ new.pc = "free"
    BY DEF LibInv, LibTypeOK, Pthread
  <1> HIDE DEF new
  <1>3. /\ pth' \in [Thread -> Pthread] /\ pth'[t] = new
        /\ \A u \in Thread \ {t} : pth'[u] = pth[u]
    BY <1>1, <1>2 DEF LibInv, LibTypeOK
  <1>4. threadList' \in {None, threadList} /\ threadList' \in Obj \cup {None}
    BY <1>1 DEF ListDel, LibInv, LibTypeOK
  <1>5. pth[t].o # None /\ (fault' = {} => pth[t].o # threadList')
    BY <1>1 DEF LibInv, PthreadOK, ListDel, NoteUse, IsFreed
  <1>6. PthreadOK(t)'
    BY <1>1, <1>2, <1>3, <1>5 DEF LibInv, PthreadOK
  <1>7. fault' \subseteq {"use_after_free", "double_free"} /\ fault \subseteq fault'
    BY <1>1, NoteUseLemma DEF LibInv
  <1>8. Listed'
    BY <1>1, <1>4, <1>7 DEF LibInv, Listed
  <1> QED BY <1>1, <1>3, <1>4, <1>6, <1>7, <1>8, UntouchedFrame, UntouchedPthread
          DEF LibInv, LibTypeOK

LEMMA CleanupFreeInv ==
  ASSUME LibInv, NEW t \in Thread, CleanupFree(t) PROVE LibInv'
  <1> DEFINE o == pth[t].o
             new == [pth[t] EXCEPT !.pc = "exited"]
  <1>1. /\ pth[t].pc = "free" /\ UNCHANGED <<threadList, Mutex, frame>>
        /\ DeleteThread(o) /\ pth' = [pth EXCEPT ![t] = new]
    BY DEF CleanupFree
  <1>2. new \in Pthread /\ new.o = o /\ new.pc = "exited"
    BY DEF LibInv, LibTypeOK, Pthread
  <1> HIDE DEF new
  <1>3. o \in Obj /\ obj[o].mem # "unborn" /\ (fault = {} => o # threadList)
    BY <1>1 DEF LibInv, LibTypeOK, PthreadOK, Pthread
  <1>4. /\ obj' \in [Obj -> thread_Obj_t]
        /\ \A p \in Obj : obj[p].mem # "unborn" => obj'[p].mem # "unborn"
        /\ fault' = {} => \A p \in Obj \ {o} : obj'[p] = obj[p]
        /\ fault' \subseteq {"use_after_free", "double_free"}
        /\ fault \subseteq fault' /\ alive' \in BOOLEAN
    BY <1>1, <1>3, DeleteThreadLemma DEF LibInv
  <1>5. /\ pth' \in [Thread -> Pthread] /\ pth'[t] = new
        /\ \A u \in Thread \ {t} : pth'[u] = pth[u]
    BY <1>1, <1>2 DEF LibInv, LibTypeOK
  <1>6. PthreadOK(t)'
    BY <1>2, <1>3, <1>4, <1>5, ThreadAssumption DEF PthreadOK
  <1>7. Listed'
    BY <1>1, <1>3, <1>4 DEF LibInv, LibTypeOK, Listed
  <1> QED BY <1>1, <1>4, <1>5, <1>6, <1>7, UntouchedFrame, UntouchedPthread
          DEF LibInv, LibTypeOK

LEMMA PthreadStepInv ==
  ASSUME LibInv, NEW t \in Thread, PthreadStep(t) PROVE LibInv'
  <1>1. CASE MainFuncReturns(t)
    BY <1>1, EnterCleanupInv DEF MainFuncReturns
  <1>2. CASE ActOnCancel(t)
    BY <1>2, EnterCleanupInv DEF ActOnCancel
  <1>3. CASE CleanupThread(t)
    BY <1>3, RunDestructorsInv, CancelledInCleanupInv, CleanupUnlinkInv, CleanupFreeInv
    DEF CleanupThread
  <1> QED BY <1>1, <1>2, <1>3 DEF PthreadStep

-----------------------------------------------------------------------------
(* Steps of a verb: only the activation record of one caller changes *)

\* A verb touches the library by opening or dropping an activation record, by
\* reading an id, or not at all.
LEMMA FramesInv ==
  ASSUME LibInv, UNCHANGED <<obj, threadList, Mutex, pth>>,
         frame' \in [Caller -> Frame],
         \A c \in Caller : frame'[c] # frame[c]
                             => frame'[c].at \in {"entry", "done"} /\ frame'[c].ptr = None,
         fault' \subseteq {"use_after_free", "double_free"}, fault \subseteq fault',
         alive' \in BOOLEAN
  PROVE  LibInv'
  <1>1. \A c \in Caller : FrameOK(c)'
    <2>1. TAKE c \in Caller
    <2>2. CASE frame'[c] = frame[c]
      BY <2>2, UntouchedFrame DEF LibInv
    <2>3. CASE frame'[c] # frame[c]
      BY <2>3 DEF FrameOK
    <2> QED BY <2>2, <2>3
  <1>2. \A t \in Thread : PthreadOK(t)'
    BY UntouchedPthread DEF LibInv
  <1> QED BY <1>1, <1>2 DEF LibInv, LibTypeOK, Listed

LEMMA LibUnchanged ==
  ASSUME LibInv, UNCHANGED libVars, alive' \in BOOLEAN PROVE LibInv'
  BY FramesInv DEF libVars, LibInv, LibTypeOK

LEMMA NoFrameLemma ==
  ASSUME LibTypeOK, NEW c \in Caller, frame' = [frame EXCEPT ![c] = NoFrame]
  PROVE  /\ frame' \in [Caller -> Frame]
         /\ \A d \in Caller : frame'[d] # frame[d]
                                => frame'[d].at \in {"entry", "done"} /\ frame'[d].ptr = None
  <1>1. NoFrame \in Frame /\ NoFrame.at = "done" /\ NoFrame.ptr = None
    BY DEF NoFrame, Frame, Function
  <1> QED BY <1>1 DEF LibTypeOK

LEMMA CallLemma ==
  ASSUME LibTypeOK, NEW c \in Caller, NEW fn \in Function, NEW id \in {0, 1},
         Call(c, fn, id)
  PROVE  /\ frame' \in [Caller -> Frame]
         /\ \A d \in Caller : frame'[d] # frame[d]
                                => frame'[d].at \in {"entry", "done"} /\ frame'[d].ptr = None
  <1> DEFINE new == [NoFrame EXCEPT !.fn = fn, !.at = "entry", !.id = id]
  <1>1. new \in Frame /\ new.at = "entry" /\ new.ptr = None
    <2>1. NoFrame \in Frame /\ NoFrame.ptr = None
      BY DEF NoFrame, Frame, Function
    <2> QED BY <2>1 DEF Frame
  <1>2. frame' = [frame EXCEPT ![c] = new]
    BY DEF Call
  <1> HIDE DEF new
  <1> QED BY <1>1, <1>2 DEF LibTypeOK

-----------------------------------------------------------------------------
(* What the functions do while the object they use is not a freed one *)

LEMMA LiveReads ==
  ASSUME NEW o, ~IsFreed(o)
  PROVE  /\ threadHandleOf(o) = {obj[o].threadHandle}
         /\ isJoinableOf(o) = {obj[o].isJoinable}
  BY DEF threadHandleOf, isJoinableOf, FieldValues

LEMMA LiveFind ==
  ASSUME ~IsFreed(threadList) PROVE findThreadFromIdInList(TheId) = {threadList}
  BY DEF findThreadFromIdInList, FieldValues

LEMMA LiveUse ==
  ASSUME NEW o, ~IsFreed(o), NoteUse(o) PROVE UNCHANGED fault
  BY DEF NoteUse

LEMMA LiveFree ==
  ASSUME NEW o, ~IsFreed(o), DeleteThread(o)
  PROVE  obj' = [obj EXCEPT ![o].mem = "freed"] /\ UNCHANGED <<fault, alive>>
  BY DEF DeleteThread, SameAddress

LEMMA LiveJoinable ==
  ASSUME NEW c \in Caller, setThreadJoinable(c), ~IsFreed(frame[c].ptr)
  PROVE  LET o == frame[c].ptr IN
         obj' = [obj EXCEPT ![o] = [obj[o] EXCEPT !.isJoinable = TRUE]]
  <1>1. WriteObj(frame[c].ptr, LAMBDA r : [r EXCEPT !.isJoinable = TRUE])
    BY DEF setThreadJoinable
  <1> QED BY <1>1, SMT DEF WriteObj, SameAddress

LEMMA LiveDestructor ==
  ASSUME NEW c \in Caller, addDestructorToThread(c), ~IsFreed(frame[c].ptr)
  PROVE  LET o == frame[c].ptr IN
         obj' = [obj EXCEPT ![o] = [obj[o] EXCEPT !.destructors = @ + 1]]
  <1>1. WriteObj(frame[c].ptr, LAMBDA r : [r EXCEPT !.destructors = @ + 1])
    BY DEF addDestructorToThread
  <1> QED BY <1>1, SMT DEF WriteObj, SameAddress

LEMMA LiveStart ==
  ASSUME NEW c \in Caller, startThread(c), ~IsFreed(frame[c].ptr), ~Fails("pthread_create")
  PROVE  LET o == frame[c].ptr IN
         \E t \in FreshThread :
           /\ pth' = [pth EXCEPT ![t] = [NoPthread EXCEPT !.pc = "main", !.o = o,
                                           !.detached = ~obj[o].isJoinable]]
           /\ obj' = [obj EXCEPT ![o] = [obj[o] EXCEPT !.state = "RUNNING",
                                                       !.threadHandle = t]]
           /\ Return(c, 0)
  <1> DEFINE o == frame[c].ptr
  <1>1. PICK t \in FreshThread, joinable \in isJoinableOf(o) :
          /\ pth' = [pth EXCEPT ![t] = [NoPthread EXCEPT !.pc = "main", !.o = o,
                                          !.detached = ~joinable]]
          /\ WriteObj(o, LAMBDA r : [r EXCEPT !.state = "RUNNING", !.threadHandle = t])
          /\ Return(c, 0)
    BY Zenon DEF startThread
  <1>2. joinable = obj[o].isJoinable
    BY <1>1, LiveReads
  <1>3. obj' = [obj EXCEPT ![o] = [obj[o] EXCEPT !.state = "RUNNING", !.threadHandle = t]]
    BY <1>1, SMT DEF WriteObj, SameAddress
  <1> QED BY <1>1, <1>2, <1>3

LEMMA LiveCleanup ==
  ASSUME NEW t \in Thread, NEW popped, EnterCleanup(t, popped), ~IsFreed(pth[t].o)
  PROVE  LET o == pth[t].o IN
         obj' = [obj EXCEPT ![o] = [obj[o] EXCEPT !.state = "DYING"]]
  <1>1. WriteObj(pth[t].o, LAMBDA r : [r EXCEPT !.state = "DYING"])
    BY DEF EnterCleanup
  <1> QED BY <1>1, SMT DEF WriteObj, SameAddress

LEMMA LiveDestructors ==
  ASSUME NEW t \in Thread, RunDestructors(t), ~IsFreed(pth[t].o)
  PROVE  LET o == pth[t].o IN
         /\ obj' = [obj EXCEPT ![o] = [obj[o] EXCEPT !.destructors = 0]]
         /\ pth' = [pth EXCEPT ![t].pc = IF obj[o].isJoinable THEN "exited" ELSE "unlink"]
  <1>1. WriteObj(pth[t].o, LAMBDA r : [r EXCEPT !.destructors = 0])
    BY DEF RunDestructors
  <1>2. PICK joinable \in isJoinableOf(pth[t].o) :
          pth' = [pth EXCEPT ![t].pc = IF joinable THEN "exited" ELSE "unlink"]
    BY DEF RunDestructors
  <1>3. joinable = obj[pth[t].o].isJoinable
    BY <1>2, LiveReads
  <1>4. obj' = [obj EXCEPT ![pth[t].o] = [obj[pth[t].o] EXCEPT !.destructors = 0]]
    BY <1>1, SMT DEF WriteObj, SameAddress
  <1> QED BY <1>2, <1>3, <1>4
=============================================================================
