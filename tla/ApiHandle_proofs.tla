-------------------------- MODULE ApiHandle_proofs --------------------------
(***************************************************************************)
(* Proofs about ApiHandle, for any finite sets of threads, RuntimeManager  *)
(* objects and instances and any number of sessions.                       *)
(*                                                                         *)
(* The argument: IndInv holds initially and every action preserves it, one *)
(* lemma per action, one step per conjunct. A conjunct about every thread  *)
(* is shown for the thread that moves and for the others. The count is     *)
(* tied to the sets it counts by the lemmas on Owners and Leaving below.   *)
(***************************************************************************)
EXTENDS ApiHandle, FiniteSetTheorems, TLAPS

-----------------------------------------------------------------------------
(* What the reference count counts. *)

\* The owning handles and the releases under way are finitely many.
LEMMA CountedSetsFinite ==
    ASSUME TypeOK
    PROVE  /\ IsFiniteSet(Owners) /\ Cardinality(Owners) \in Nat
           /\ IsFiniteSet(Leaving) /\ Cardinality(Leaving) \in Nat
<1>1. IsFiniteSet(Handle)
  BY ApiAssumption, FS_Union DEF Handle
<1>2. IsFiniteSet(Owners)
  <2>1. Owners \in SUBSET Handle
    BY DEF Owners
  <2> QED
    BY <1>1, <2>1, FS_Subset
<1>3. IsFiniteSet(Leaving)
  <2>1. Leaving \in SUBSET Thread
    BY DEF Leaving
  <2> QED
    BY ApiAssumption, <2>1, FS_Subset
<1> QED
  BY <1>2, <1>3, FS_CardinalityType

\* A step that touches neither owns_, the count nor the releasing threads
\* keeps the count exact.
LEMMA CountsUnchanged ==
    ASSUME RefcountExact, UNCHANGED <<g_api_refcount, owns>>, Leaving' = Leaving
    PROVE  RefcountExact'
<1>1. Owners' = Owners
  BY DEF Owners
<1> QED
  BY <1>1 DEF RefcountExact

\* acquire() and the copy: one more handle owns the API and is counted.
LEMMA OwnerAdded ==
    ASSUME TypeOK, RefcountExact, NEW h \in Handle, ~owns[h],
           owns' = [owns EXCEPT ![h] = TRUE],
           g_api_refcount' = g_api_refcount + 1, Leaving' = Leaving
    PROVE  RefcountExact'
<1>1. Owners' = Owners \cup {h} /\ h \notin Owners
  BY DEF Owners, TypeOK
<1>2. Cardinality(Owners') = Cardinality(Owners) + 1
  BY <1>1, CountedSetsFinite, FS_AddElement
<1> QED
  BY <1>2, CountedSetsFinite DEF RefcountExact

\* release() clears owns_ first: the count now stands for the releasing thread.
LEMMA OwnerLeaves ==
    ASSUME TypeOK, RefcountExact, NEW h \in Handle, owns[h],
           owns' = [owns EXCEPT ![h] = FALSE], UNCHANGED g_api_refcount,
           NEW t \in Thread, t \notin Leaving, Leaving' = Leaving \cup {t}
    PROVE  RefcountExact'
<1>1. Owners' = Owners \ {h} /\ h \in Owners
  BY DEF Owners, TypeOK
<1>2. Cardinality(Owners') = Cardinality(Owners) - 1
  BY <1>1, CountedSetsFinite, FS_RemoveElement
<1>3. Cardinality(Leaving') = Cardinality(Leaving) + 1
  BY CountedSetsFinite, FS_AddElement
<1> QED
  BY <1>2, <1>3, CountedSetsFinite DEF RefcountExact

\* The decrement of release() under the lock.
LEMMA LeaverCounted ==
    ASSUME TypeOK, RefcountExact, UNCHANGED owns,
           g_api_refcount' = g_api_refcount - 1,
           NEW t \in Leaving, Leaving' = Leaving \ {t}
    PROVE  RefcountExact' /\ g_api_refcount > 0
<1>1. Owners' = Owners
  BY DEF Owners
<1>2. Cardinality(Leaving') = Cardinality(Leaving) - 1
  BY CountedSetsFinite, FS_RemoveElement
<1>3. Cardinality(Leaving) # 0
  BY CountedSetsFinite, FS_EmptySet
<1> QED
  BY <1>1, <1>2, <1>3, CountedSetsFinite DEF RefcountExact

\* owns_ stays a function of truth values when one handle is set or cleared.
LEMMA OwnsTyped ==
    ASSUME NEW f \in [Handle -> BOOLEAN], NEW h \in Handle, NEW b \in BOOLEAN
    PROVE  [f EXCEPT ![h] = b] \in [Handle -> BOOLEAN]
BY Zenon

\* Whoever owns a handle is counted, so the session is live.
LEMMA OwnerMeansLive ==
    ASSUME TypeOK, RefcountExact, SessionInv, NEW h \in Handle, owns[h]
    PROVE  g_api_refcount > 0 /\ sdk # 0 /\ g_api_manager = sdk
<1>1. Owners # {}
  BY DEF Owners
<1>2. Cardinality(Owners) # 0
  BY <1>1, CountedSetsFinite, FS_EmptySet
<1>3. g_api_refcount > 0
  BY <1>2, CountedSetsFinite DEF RefcountExact
<1> QED
  BY <1>3 DEF SessionInv

\* A count of zero means that nobody is left: no owner, no interface, and no
\* SDK call in flight on any thread.
LEMMA FreeMeansQuiet ==
    ASSUME IndInv, g_api_refcount = 0
    PROVE  /\ \A h \in Handle : ~owns[h]
           /\ \A i \in Inst : raw[i] = 0
           /\ \A u \in Thread : pc[u] \notin InCall
<1> USE ApiAssumption DEF IndInv, Handle
<1>1. \A h \in Handle : ~owns[h]
  BY OwnerMeansLive DEF TypeOK
<1>2. \A o \in Manager : o \notin live
  BY <1>1 DEF OwnershipInv
<1>3. \A i \in Inst : raw[i] = 0
  BY <1>1, <1>2 DEF OwnershipInv, ThreadInv, Attaching, Copying
<1>4. ASSUME NEW u \in Thread PROVE pc[u] \notin InCall
  BY <1>1, <1>2, <1>3 DEF ThreadInv, InCall, Attaching, Constructing
<1> QED
  BY <1>1, <1>3, <1>4

-----------------------------------------------------------------------------
(* Every action preserves the inductive invariant. *)

\* The constructor begins with an object nobody uses.
LEMMA ConstructKeeps ==
    ASSUME IndInv, NEW t \in Thread, NEW o \in Manager, Construct(t, o)
    PROVE  IndInv'
<1> USE ApiAssumption DEF IndInv, Handle, Construct, Unused, Goto, global
<1>1. TypeOK'
  BY DEF TypeOK, PC
<1>2. ThreadInv(t)'
  BY DEF TypeOK, ThreadInv, OwnershipInv, Critical, InCall, Constructing, Copying, Attaching, Releasing
<1>3. ASSUME NEW u \in Thread, u # t PROVE ThreadInv(u)'
  BY <1>3 DEF TypeOK, ThreadInv, Exclusive, Critical, InCall, Constructing, Copying, Attaching, Releasing
<1>4. Exclusive'
  BY DEF TypeOK, Exclusive
<1>5. OwnershipInv'
  BY DEF TypeOK, ThreadInv, OwnershipInv, Exclusive, Constructing, Copying, Attaching, Releasing
<1>6. RefcountExact'
  <2>1. Leaving' = Leaving
    BY DEF TypeOK, Leaving
  <2> QED
    BY <2>1, CountsUnchanged
<1>7. SessionInv'
  BY DEF TypeOK, SessionInv, ThreadInv, Critical
<1>8. NoInterfaceOutlivesApi'
  BY DEF TypeOK, NoInterfaceOutlivesApi
<1>9. CallsReachLiveApi'
  BY DEF TypeOK, CallsReachLiveApi, InCall
<1> QED
  BY <1>1, <1>2, <1>3, <1>4, <1>5, <1>6, <1>7, <1>8, <1>9

\* A call on a live RuntimeManager reads the pointer of the live session.
LEMMA UseManagerKeeps ==
    ASSUME IndInv, NEW t \in Thread, NEW o \in Manager, UseManager(t, o)
    PROVE  IndInv'
<1> USE ApiAssumption DEF IndInv, Handle, UseManager, ManagerOf, Goto, global
<1>1. TypeOK'
  BY DEF TypeOK, PC
<1>2. ThreadInv(t)'
  BY DEF TypeOK, ThreadInv, OwnershipInv, Critical, InCall, Constructing, Copying, Attaching, Releasing
<1>3. ASSUME NEW u \in Thread, u # t PROVE ThreadInv(u)'
  BY <1>3 DEF TypeOK, ThreadInv, Exclusive, Critical, InCall, Constructing, Copying, Attaching, Releasing
<1>4. Exclusive'
  BY DEF TypeOK, Exclusive
<1>5. OwnershipInv'
  BY DEF TypeOK, ThreadInv, OwnershipInv, Exclusive, Constructing, Copying, Attaching, Releasing
<1>6. RefcountExact'
  <2>1. Leaving' = Leaving
    BY DEF TypeOK, Leaving
  <2> QED
    BY <2>1, CountsUnchanged
<1>7. SessionInv'
  BY DEF TypeOK, SessionInv, ThreadInv, Critical
<1>8. NoInterfaceOutlivesApi'
  BY DEF TypeOK, NoInterfaceOutlivesApi
<1>9. CallsReachLiveApi'
  BY DEF TypeOK, CallsReachLiveApi, InCall, SessionInv, OwnershipInv, NoInterfaceOutlivesApi
<1> QED
  BY <1>1, <1>2, <1>3, <1>4, <1>5, <1>6, <1>7, <1>8, <1>9

\* The destructor of a RuntimeManager starts only when nobody uses it.
LEMMA DestroyManagerKeeps ==
    ASSUME IndInv, NEW t \in Thread, NEW o \in Manager, DestroyManager(t, o)
    PROVE  IndInv'
<1> USE ApiAssumption DEF IndInv, Handle, DestroyManager, Unused, Goto, global
<1>1. TypeOK'
  BY DEF TypeOK, PC
<1>2. ThreadInv(t)'
  BY DEF TypeOK, ThreadInv, OwnershipInv, Critical, InCall, Constructing, Copying, Attaching, Releasing
<1>3. ASSUME NEW u \in Thread, u # t PROVE ThreadInv(u)'
  BY <1>3 DEF TypeOK, ThreadInv, Exclusive, Critical, InCall, Constructing, Copying, Attaching, Releasing
<1>4. Exclusive'
  BY DEF TypeOK, Exclusive
<1>5. OwnershipInv'
  BY DEF TypeOK, ThreadInv, OwnershipInv, Exclusive, Constructing, Copying, Attaching, Releasing
<1>6. RefcountExact'
  <2>1. Leaving' = Leaving
    BY DEF TypeOK, Leaving
  <2> QED
    BY <2>1, CountsUnchanged
<1>7. SessionInv'
  BY DEF TypeOK, SessionInv, ThreadInv, Critical
<1>8. NoInterfaceOutlivesApi'
  BY DEF TypeOK, NoInterfaceOutlivesApi
<1>9. CallsReachLiveApi'
  BY DEF TypeOK, CallsReachLiveApi, InCall
<1> QED
  BY <1>1, <1>2, <1>3, <1>4, <1>5, <1>6, <1>7, <1>8, <1>9

\* A call on an Instance goes through its interface or the manager.
LEMMA UseInstanceKeeps ==
    ASSUME IndInv, NEW t \in Thread, NEW i \in Inst, UseInstance(t, i)
    PROVE  IndInv'
<1> USE ApiAssumption DEF IndInv, Handle, UseInstance, Unused, ManagerOf, Goto, global
<1>1. TypeOK'
  BY DEF TypeOK, PC
<1>2. ThreadInv(t)'
  BY DEF TypeOK, ThreadInv, OwnershipInv, Critical, InCall, Constructing, Copying, Attaching, Releasing
<1>3. ASSUME NEW u \in Thread, u # t PROVE ThreadInv(u)'
  BY <1>3 DEF TypeOK, ThreadInv, Exclusive, Critical, InCall, Constructing, Copying, Attaching, Releasing
<1>4. Exclusive'
  BY DEF TypeOK, Exclusive
<1>5. OwnershipInv'
  BY DEF TypeOK, ThreadInv, OwnershipInv, Exclusive, Constructing, Copying, Attaching, Releasing
<1>6. RefcountExact'
  <2>1. Leaving' = Leaving
    BY DEF TypeOK, Leaving
  <2> QED
    BY <2>1, CountsUnchanged
<1>7. SessionInv'
  BY DEF TypeOK, SessionInv, ThreadInv, Critical
<1>8. NoInterfaceOutlivesApi'
  BY DEF TypeOK, NoInterfaceOutlivesApi
<1>9. CallsReachLiveApi'
  BY DEF TypeOK, CallsReachLiveApi, InCall, SessionInv, OwnershipInv, NoInterfaceOutlivesApi
<1> QED
  BY <1>1, <1>2, <1>3, <1>4, <1>5, <1>6, <1>7, <1>8, <1>9

\* close() and ~Instance() begin with an instance nobody else uses.
LEMMA CloseKeeps ==
    ASSUME IndInv, NEW t \in Thread, NEW i \in Inst, Close(t, i)
    PROVE  IndInv'
<1> USE ApiAssumption DEF IndInv, Handle, Close, Unused, Goto, global
<1>1. TypeOK'
  BY DEF TypeOK, PC
<1>2. ThreadInv(t)'
  BY DEF TypeOK, ThreadInv, OwnershipInv, Critical, InCall, Constructing, Copying, Attaching, Releasing
<1>3. ASSUME NEW u \in Thread, u # t PROVE ThreadInv(u)'
  BY <1>3 DEF TypeOK, ThreadInv, Exclusive, Critical, InCall, Constructing, Copying, Attaching, Releasing
<1>4. Exclusive'
  BY DEF TypeOK, Exclusive
<1>5. OwnershipInv'
  BY DEF TypeOK, ThreadInv, OwnershipInv, Exclusive, Constructing, Copying, Attaching, Releasing
<1>6. RefcountExact'
  <2>1. Leaving' = Leaving
    BY DEF TypeOK, Leaving
  <2> QED
    BY <2>1, CountsUnchanged
<1>7. SessionInv'
  BY DEF TypeOK, SessionInv, ThreadInv, Critical
<1>8. NoInterfaceOutlivesApi'
  BY DEF TypeOK, NoInterfaceOutlivesApi
<1>9. CallsReachLiveApi'
  BY DEF TypeOK, CallsReachLiveApi, InCall
<1> QED
  BY <1>1, <1>2, <1>3, <1>4, <1>5, <1>6, <1>7, <1>8, <1>9

\* attach() reads the manager pointer of a manager that owns the API.
LEMMA AttachKeeps ==
    ASSUME IndInv, NEW t \in Thread, NEW o \in Manager, NEW i \in Inst, Attach(t, o, i)
    PROVE  IndInv'
<1> USE ApiAssumption DEF IndInv, Handle, Attach, Unused, ManagerOf, Goto, global
<1>1. TypeOK'
  BY DEF TypeOK, PC
<1>2. ThreadInv(t)'
  BY DEF TypeOK, ThreadInv, OwnershipInv, Critical, InCall, Constructing, Copying, Attaching, Releasing
<1>3. ASSUME NEW u \in Thread, u # t PROVE ThreadInv(u)'
  BY <1>3 DEF TypeOK, ThreadInv, Exclusive, Critical, InCall, Constructing, Copying, Attaching, Releasing
<1>4. Exclusive'
  BY DEF TypeOK, Exclusive
<1>5. OwnershipInv'
  BY DEF TypeOK, ThreadInv, OwnershipInv, Exclusive, Constructing, Copying, Attaching, Releasing
<1>6. RefcountExact'
  <2>1. Leaving' = Leaving
    BY DEF TypeOK, Leaving
  <2> QED
    BY <2>1, CountsUnchanged
<1>7. SessionInv'
  BY DEF TypeOK, SessionInv, ThreadInv, Critical
<1>8. NoInterfaceOutlivesApi'
  BY DEF TypeOK, NoInterfaceOutlivesApi
<1>9. CallsReachLiveApi'
  BY DEF TypeOK, CallsReachLiveApi, InCall, SessionInv, OwnershipInv, NoInterfaceOutlivesApi
<1> QED
  BY <1>1, <1>2, <1>3, <1>4, <1>5, <1>6, <1>7, <1>8, <1>9

\* acquire() takes the mutex and looks at the count.
LEMMA AcquireLockKeeps ==
    ASSUME IndInv, NEW t \in Thread, AcquireLock(t)
    PROVE  IndInv'
<1> USE ApiAssumption DEF IndInv, Handle, AcquireLock, FirstUser, Lock, Goto
<1>1. TypeOK'
  BY DEF TypeOK, PC
<1>2. ThreadInv(t)'
  BY DEF TypeOK, ThreadInv, OwnershipInv, Critical, InCall, Constructing, Copying, Attaching, Releasing
<1>3. ASSUME NEW u \in Thread, u # t PROVE ThreadInv(u)'
  BY <1>3 DEF TypeOK, ThreadInv, Exclusive, Critical, InCall, Constructing, Copying, Attaching, Releasing
<1>4. Exclusive'
  BY DEF TypeOK, Exclusive
<1>5. OwnershipInv'
  BY DEF TypeOK, ThreadInv, OwnershipInv, Exclusive, Constructing, Copying, Attaching, Releasing
<1>6. RefcountExact'
  <2>1. Leaving' = Leaving
    BY DEF TypeOK, Leaving
  <2> QED
    BY <2>1, CountsUnchanged
<1>7. SessionInv'
  BY DEF TypeOK, SessionInv, ThreadInv, Critical
<1>8. NoInterfaceOutlivesApi'
  BY DEF TypeOK, NoInterfaceOutlivesApi
<1>9. CallsReachLiveApi'
  BY DEF TypeOK, CallsReachLiveApi, InCall
<1> QED
  BY <1>1, <1>2, <1>3, <1>4, <1>5, <1>6, <1>7, <1>8, <1>9

\* InitializeApi() starts a session when no pointer to an older one is left.
LEMMA InitializeOkKeeps ==
    ASSUME IndInv, NEW t \in Thread, InitializeOk(t)
    PROVE  IndInv'
<1> USE ApiAssumption DEF IndInv, Handle, InitializeOk, Goto
<1>0. g_api_refcount = 0
  BY DEF SessionInv
<1>1. TypeOK'
  BY DEF TypeOK, PC
<1>2. ThreadInv(t)'
  BY DEF TypeOK, ThreadInv, OwnershipInv, Critical, InCall, Constructing, Copying, Attaching, Releasing
<1>3. ASSUME NEW u \in Thread, u # t PROVE ThreadInv(u)'
  BY <1>3 DEF TypeOK, ThreadInv, Exclusive, Critical, InCall, Constructing, Copying, Attaching, Releasing
<1>4. Exclusive'
  BY DEF TypeOK, Exclusive
<1>5. OwnershipInv'
  BY DEF TypeOK, ThreadInv, OwnershipInv, Exclusive, Constructing, Copying, Attaching, Releasing
<1>6. RefcountExact'
  <2>1. Leaving' = Leaving
    BY DEF TypeOK, Leaving
  <2> QED
    BY <2>1, CountsUnchanged
<1>7. SessionInv'
  BY DEF TypeOK, SessionInv, ThreadInv, Critical
<1>8. NoInterfaceOutlivesApi'
  BY <1>0, FreeMeansQuiet DEF TypeOK, NoInterfaceOutlivesApi
<1>9. CallsReachLiveApi'
  BY <1>0, FreeMeansQuiet DEF TypeOK, CallsReachLiveApi, InCall
<1> QED
  BY <1>1, <1>2, <1>3, <1>4, <1>5, <1>6, <1>7, <1>8, <1>9

\* A failed InitializeApi() gives up the mutex and the object.
LEMMA InitializeFailKeeps ==
    ASSUME IndInv, NEW t \in Thread, InitializeFail(t)
    PROVE  IndInv'
<1> USE ApiAssumption DEF IndInv, Handle, InitializeFail, Unlock, Finish, Goto
<1>1. TypeOK'
  BY DEF TypeOK, PC
<1>2. ThreadInv(t)'
  BY DEF TypeOK, ThreadInv, OwnershipInv, Critical, InCall, Constructing, Copying, Attaching, Releasing
<1>3. ASSUME NEW u \in Thread, u # t PROVE ThreadInv(u)'
  BY <1>3 DEF TypeOK, ThreadInv, Exclusive, Critical, InCall, Constructing, Copying, Attaching, Releasing
<1>4. Exclusive'
  BY DEF TypeOK, Exclusive
<1>5. OwnershipInv'
  BY DEF TypeOK, ThreadInv, OwnershipInv, Exclusive, Constructing, Copying, Attaching, Releasing
<1>6. RefcountExact'
  <2>1. Leaving' = Leaving
    BY DEF TypeOK, Leaving
  <2> QED
    BY <2>1, CountsUnchanged
<1>7. SessionInv'
  BY DEF TypeOK, SessionInv, ThreadInv, Critical
<1>8. NoInterfaceOutlivesApi'
  BY DEF TypeOK, NoInterfaceOutlivesApi
<1>9. CallsReachLiveApi'
  BY DEF TypeOK, CallsReachLiveApi, InCall
<1> QED
  BY <1>1, <1>2, <1>3, <1>4, <1>5, <1>6, <1>7, <1>8, <1>9

\* acquire() counts the handle it hands out.
LEMMA AcquireCountKeeps ==
    ASSUME IndInv, NEW t \in Thread, AcquireCount(t)
    PROVE  IndInv'
<1> USE ApiAssumption DEF IndInv, Handle, AcquireCount, Unlock, Goto
<1>1. TypeOK'
  <2>1. owns' \in [Handle -> BOOLEAN]
    <3>1. obj[t] \in Handle
      BY DEF ThreadInv, Constructing, Copying, Attaching
    <3> QED
      BY <3>1, OwnsTyped DEF TypeOK
  <2> QED
    BY <2>1 DEF TypeOK, PC
<1>2. ThreadInv(t)'
  BY DEF TypeOK, ThreadInv, OwnershipInv, Critical, InCall, Constructing, Copying, Attaching, Releasing
<1>3. ASSUME NEW u \in Thread, u # t PROVE ThreadInv(u)'
  BY <1>3 DEF TypeOK, ThreadInv, Exclusive, Critical, InCall, Constructing, Copying, Attaching, Releasing
<1>4. Exclusive'
  BY DEF TypeOK, Exclusive
<1>5. OwnershipInv'
  BY DEF TypeOK, ThreadInv, OwnershipInv, Exclusive, Constructing, Copying, Attaching, Releasing
<1>6. RefcountExact'
  <2>1. obj[t] \in Handle /\ ~owns[obj[t]]
    BY DEF ThreadInv, Constructing, Copying, Attaching
  <2>2. Leaving' = Leaving
    BY DEF TypeOK, Leaving
  <2> QED
    BY <2>1, <2>2, OwnerAdded
<1>7. SessionInv'
  BY DEF TypeOK, SessionInv, ThreadInv, Critical
<1>8. NoInterfaceOutlivesApi'
  BY DEF TypeOK, NoInterfaceOutlivesApi
<1>9. CallsReachLiveApi'
  BY DEF TypeOK, CallsReachLiveApi, InCall
<1> QED
  BY <1>1, <1>2, <1>3, <1>4, <1>5, <1>6, <1>7, <1>8, <1>9

\* The constructor reads the manager pointer through a handle that owns it.
LEMMA CtorReadKeeps ==
    ASSUME IndInv, NEW t \in Thread, CtorRead(t)
    PROVE  IndInv'
<1> USE ApiAssumption DEF IndInv, Handle, CtorRead, ManagerOf, Goto, global
<1>0. owns[obj[t]] /\ obj[t] \in Handle
  BY DEF ThreadInv, Constructing
<1>1. TypeOK'
  BY DEF TypeOK, PC
<1>2. ThreadInv(t)'
  BY DEF TypeOK, ThreadInv, OwnershipInv, Critical, InCall, Constructing, Copying, Attaching, Releasing
<1>3. ASSUME NEW u \in Thread, u # t PROVE ThreadInv(u)'
  BY <1>3 DEF TypeOK, ThreadInv, Exclusive, Critical, InCall, Constructing, Copying, Attaching, Releasing
<1>4. Exclusive'
  BY DEF TypeOK, Exclusive
<1>5. OwnershipInv'
  BY DEF TypeOK, ThreadInv, OwnershipInv, Exclusive, Constructing, Copying, Attaching, Releasing
<1>6. RefcountExact'
  <2>1. Leaving' = Leaving
    BY DEF TypeOK, Leaving
  <2> QED
    BY <2>1, CountsUnchanged
<1>7. SessionInv'
  BY DEF TypeOK, SessionInv, ThreadInv, Critical
<1>8. NoInterfaceOutlivesApi'
  BY DEF TypeOK, NoInterfaceOutlivesApi
<1>9. CallsReachLiveApi'
  BY <1>0, OwnerMeansLive DEF TypeOK, CallsReachLiveApi, InCall
<1> QED
  BY <1>1, <1>2, <1>3, <1>4, <1>5, <1>6, <1>7, <1>8, <1>9

\* The constructor ends, or throws and goes on to release its handle.
LEMMA CtorProbeKeeps ==
    ASSUME IndInv, NEW t \in Thread, CtorProbe(t)
    PROVE  IndInv'
<1> USE ApiAssumption DEF IndInv, Handle, CtorProbe, Finish, Goto, global
<1>1. TypeOK'
  BY DEF TypeOK, ThreadInv, Constructing, Copying, Attaching, Releasing, PC
<1>2. ThreadInv(t)'
  BY DEF TypeOK, ThreadInv, OwnershipInv, Critical, InCall, Constructing, Copying, Attaching, Releasing
<1>3. ASSUME NEW u \in Thread, u # t PROVE ThreadInv(u)'
  BY <1>3 DEF TypeOK, ThreadInv, Exclusive, Critical, InCall, Constructing, Copying, Attaching, Releasing
<1>4. Exclusive'
  BY DEF TypeOK, Exclusive
<1>5. OwnershipInv'
  BY DEF TypeOK, ThreadInv, OwnershipInv, Exclusive, Constructing, Copying, Attaching, Releasing
<1>6. RefcountExact'
  <2>1. Leaving' = Leaving
    BY DEF TypeOK, Leaving
  <2> QED
    BY <2>1, CountsUnchanged
<1>7. SessionInv'
  BY DEF TypeOK, SessionInv, ThreadInv, Critical
<1>8. NoInterfaceOutlivesApi'
  BY DEF TypeOK, NoInterfaceOutlivesApi
<1>9. CallsReachLiveApi'
  BY DEF TypeOK, CallsReachLiveApi, InCall
<1> QED
  BY <1>1, <1>2, <1>3, <1>4, <1>5, <1>6, <1>7, <1>8, <1>9

\* The interface attach() gets belongs to the live session.
LEMMA CreateInterfaceKeeps ==
    ASSUME IndInv, NEW t \in Thread, CreateInterface(t)
    PROVE  IndInv'
<1> USE ApiAssumption DEF IndInv, Handle, CreateInterface, ManagerOf, Finish, Goto, global
<1>1. TypeOK'
  BY DEF TypeOK, PC
<1>2. ThreadInv(t)'
  BY DEF TypeOK, ThreadInv, OwnershipInv, Critical, InCall, Constructing, Copying, Attaching, Releasing
<1>3. ASSUME NEW u \in Thread, u # t PROVE ThreadInv(u)'
  BY <1>3 DEF TypeOK, ThreadInv, Exclusive, Critical, InCall, Constructing, Copying, Attaching, Releasing
<1>4. Exclusive'
  BY DEF TypeOK, Exclusive
<1>5. OwnershipInv'
  BY DEF TypeOK, ThreadInv, OwnershipInv, Exclusive, Constructing, Copying, Attaching, Releasing
<1>6. RefcountExact'
  <2>1. Leaving' = Leaving
    BY DEF TypeOK, Leaving
  <2> QED
    BY <2>1, CountsUnchanged
<1>7. SessionInv'
  BY DEF TypeOK, SessionInv, ThreadInv, Critical
<1>8. NoInterfaceOutlivesApi'
  BY DEF TypeOK, NoInterfaceOutlivesApi, CallsReachLiveApi, InCall
<1>9. CallsReachLiveApi'
  BY DEF TypeOK, CallsReachLiveApi, InCall, SessionInv
<1> QED
  BY <1>1, <1>2, <1>3, <1>4, <1>5, <1>6, <1>7, <1>8, <1>9

\* The copy reads owns_ of the manager it copies from.
LEMMA CopyFlagKeeps ==
    ASSUME IndInv, NEW t \in Thread, CopyFlag(t)
    PROVE  IndInv'
<1> USE ApiAssumption DEF IndInv, Handle, CopyFlag, Goto, global
<1>1. TypeOK'
  BY DEF TypeOK, PC
<1>2. ThreadInv(t)'
  BY DEF TypeOK, ThreadInv, OwnershipInv, Critical, InCall, Constructing, Copying, Attaching, Releasing
<1>3. ASSUME NEW u \in Thread, u # t PROVE ThreadInv(u)'
  BY <1>3 DEF TypeOK, ThreadInv, Exclusive, Critical, InCall, Constructing, Copying, Attaching, Releasing
<1>4. Exclusive'
  BY DEF TypeOK, Exclusive
<1>5. OwnershipInv'
  BY DEF TypeOK, ThreadInv, OwnershipInv, Exclusive, Constructing, Copying, Attaching, Releasing
<1>6. RefcountExact'
  <2>1. Leaving' = Leaving
    BY DEF TypeOK, Leaving
  <2> QED
    BY <2>1, CountsUnchanged
<1>7. SessionInv'
  BY DEF TypeOK, SessionInv, ThreadInv, Critical
<1>8. NoInterfaceOutlivesApi'
  BY DEF TypeOK, NoInterfaceOutlivesApi
<1>9. CallsReachLiveApi'
  BY DEF TypeOK, CallsReachLiveApi, InCall
<1> QED
  BY <1>1, <1>2, <1>3, <1>4, <1>5, <1>6, <1>7, <1>8, <1>9

\* The copy takes the mutex.
LEMMA CopyLockKeeps ==
    ASSUME IndInv, NEW t \in Thread, CopyLock(t)
    PROVE  IndInv'
<1> USE ApiAssumption DEF IndInv, Handle, CopyLock, Lock, Goto
<1>1. TypeOK'
  BY DEF TypeOK, PC
<1>2. ThreadInv(t)'
  BY DEF TypeOK, ThreadInv, OwnershipInv, Critical, InCall, Constructing, Copying, Attaching, Releasing
<1>3. ASSUME NEW u \in Thread, u # t PROVE ThreadInv(u)'
  BY <1>3 DEF TypeOK, ThreadInv, Exclusive, Critical, InCall, Constructing, Copying, Attaching, Releasing
<1>4. Exclusive'
  BY DEF TypeOK, Exclusive
<1>5. OwnershipInv'
  BY DEF TypeOK, ThreadInv, OwnershipInv, Exclusive, Constructing, Copying, Attaching, Releasing
<1>6. RefcountExact'
  <2>1. Leaving' = Leaving
    BY DEF TypeOK, Leaving
  <2> QED
    BY <2>1, CountsUnchanged
<1>7. SessionInv'
  BY DEF TypeOK, SessionInv, ThreadInv, Critical
<1>8. NoInterfaceOutlivesApi'
  BY DEF TypeOK, NoInterfaceOutlivesApi
<1>9. CallsReachLiveApi'
  BY DEF TypeOK, CallsReachLiveApi, InCall
<1> QED
  BY <1>1, <1>2, <1>3, <1>4, <1>5, <1>6, <1>7, <1>8, <1>9

\* The copy counts the handle of the new Instance.
LEMMA CopyCountKeeps ==
    ASSUME IndInv, NEW t \in Thread, CopyCount(t)
    PROVE  IndInv'
<1> USE ApiAssumption DEF IndInv, Handle, CopyCount, Unlock, Goto
<1>0. g_api_refcount > 0
  BY OwnerMeansLive DEF TypeOK, ThreadInv, Attaching, Copying, OwnershipInv
<1>1. TypeOK'
  <2>1. owns' \in [Handle -> BOOLEAN]
    <3>1. obj[t] \in Handle
      BY DEF ThreadInv, Constructing, Copying, Attaching
    <3> QED
      BY <3>1, OwnsTyped DEF TypeOK
  <2> QED
    BY <2>1 DEF TypeOK, PC
<1>2. ThreadInv(t)'
  BY DEF TypeOK, ThreadInv, OwnershipInv, Critical, InCall, Constructing, Copying, Attaching, Releasing
<1>3. ASSUME NEW u \in Thread, u # t PROVE ThreadInv(u)'
  BY <1>3 DEF TypeOK, ThreadInv, Exclusive, Critical, InCall, Constructing, Copying, Attaching, Releasing
<1>4. Exclusive'
  BY DEF TypeOK, Exclusive
<1>5. OwnershipInv'
  BY DEF TypeOK, ThreadInv, OwnershipInv, Exclusive, Constructing, Copying, Attaching, Releasing
<1>6. RefcountExact'
  <2>1. obj[t] \in Handle /\ ~owns[obj[t]]
    BY DEF ThreadInv, Constructing, Copying, Attaching
  <2>2. Leaving' = Leaving
    BY DEF TypeOK, Leaving
  <2> QED
    BY <2>1, <2>2, OwnerAdded
<1>7. SessionInv'
  BY <1>0 DEF TypeOK, SessionInv, ThreadInv, Critical
<1>8. NoInterfaceOutlivesApi'
  BY DEF TypeOK, NoInterfaceOutlivesApi
<1>9. CallsReachLiveApi'
  BY DEF TypeOK, CallsReachLiveApi, InCall
<1> QED
  BY <1>1, <1>2, <1>3, <1>4, <1>5, <1>6, <1>7, <1>8, <1>9

\* attach() hands the Instance to its caller.
LEMMA IdentifyKeeps ==
    ASSUME IndInv, NEW t \in Thread, Identify(t)
    PROVE  IndInv'
<1> USE ApiAssumption DEF IndInv, Handle, Identify, Finish, Goto, global
<1>1. TypeOK'
  BY DEF TypeOK, ThreadInv, Constructing, Copying, Attaching, Releasing, PC
<1>2. ThreadInv(t)'
  BY DEF TypeOK, ThreadInv, OwnershipInv, Critical, InCall, Constructing, Copying, Attaching, Releasing
<1>3. ASSUME NEW u \in Thread, u # t PROVE ThreadInv(u)'
  BY <1>3 DEF TypeOK, ThreadInv, Exclusive, Critical, InCall, Constructing, Copying, Attaching, Releasing
<1>4. Exclusive'
  BY DEF TypeOK, Exclusive
<1>5. OwnershipInv'
  BY DEF TypeOK, ThreadInv, OwnershipInv, Exclusive, Constructing, Copying, Attaching, Releasing
<1>6. RefcountExact'
  <2>1. Leaving' = Leaving
    BY DEF TypeOK, Leaving
  <2> QED
    BY <2>1, CountsUnchanged
<1>7. SessionInv'
  BY DEF TypeOK, SessionInv, ThreadInv, Critical
<1>8. NoInterfaceOutlivesApi'
  BY DEF TypeOK, NoInterfaceOutlivesApi
<1>9. CallsReachLiveApi'
  BY DEF TypeOK, CallsReachLiveApi, InCall
<1> QED
  BY <1>1, <1>2, <1>3, <1>4, <1>5, <1>6, <1>7, <1>8, <1>9

\* A call that returns leaves nothing behind.
LEMMA ReturnKeeps ==
    ASSUME IndInv, NEW t \in Thread, Return(t)
    PROVE  IndInv'
<1> USE ApiAssumption DEF IndInv, Handle, Return, Finish, Goto, global
<1>1. TypeOK'
  BY DEF TypeOK, PC
<1>2. ThreadInv(t)'
  BY DEF TypeOK, ThreadInv, OwnershipInv, Critical, InCall, Constructing, Copying, Attaching, Releasing
<1>3. ASSUME NEW u \in Thread, u # t PROVE ThreadInv(u)'
  BY <1>3 DEF TypeOK, ThreadInv, Exclusive, Critical, InCall, Constructing, Copying, Attaching, Releasing
<1>4. Exclusive'
  BY DEF TypeOK, Exclusive
<1>5. OwnershipInv'
  BY DEF TypeOK, ThreadInv, OwnershipInv, Exclusive, Constructing, Copying, Attaching, Releasing
<1>6. RefcountExact'
  <2>1. Leaving' = Leaving
    BY DEF TypeOK, Leaving
  <2> QED
    BY <2>1, CountsUnchanged
<1>7. SessionInv'
  BY DEF TypeOK, SessionInv, ThreadInv, Critical
<1>8. NoInterfaceOutlivesApi'
  BY DEF TypeOK, NoInterfaceOutlivesApi
<1>9. CallsReachLiveApi'
  BY DEF TypeOK, CallsReachLiveApi, InCall
<1> QED
  BY <1>1, <1>2, <1>3, <1>4, <1>5, <1>6, <1>7, <1>8, <1>9

\* The interface goes before the handle.
LEMMA DestroyInterfaceKeeps ==
    ASSUME IndInv, NEW t \in Thread, DestroyInterface(t)
    PROVE  IndInv'
<1> USE ApiAssumption DEF IndInv, Handle, DestroyInterface, Goto, global
<1>1. TypeOK'
  BY DEF TypeOK, PC
<1>2. ThreadInv(t)'
  BY DEF TypeOK, ThreadInv, OwnershipInv, Critical, InCall, Constructing, Copying, Attaching, Releasing
<1>3. ASSUME NEW u \in Thread, u # t PROVE ThreadInv(u)'
  BY <1>3 DEF TypeOK, ThreadInv, Exclusive, Critical, InCall, Constructing, Copying, Attaching, Releasing
<1>4. Exclusive'
  BY DEF TypeOK, Exclusive
<1>5. OwnershipInv'
  BY DEF TypeOK, ThreadInv, OwnershipInv, Exclusive, Constructing, Copying, Attaching, Releasing
<1>6. RefcountExact'
  <2>1. Leaving' = Leaving
    BY DEF TypeOK, Leaving
  <2> QED
    BY <2>1, CountsUnchanged
<1>7. SessionInv'
  BY DEF TypeOK, SessionInv, ThreadInv, Critical
<1>8. NoInterfaceOutlivesApi'
  BY DEF TypeOK, NoInterfaceOutlivesApi
<1>9. CallsReachLiveApi'
  BY DEF TypeOK, CallsReachLiveApi, InCall
<1> QED
  BY <1>1, <1>2, <1>3, <1>4, <1>5, <1>6, <1>7, <1>8, <1>9

\* release() clears owns_ before it takes the mutex, or returns early.
LEMMA ReleaseKeeps ==
    ASSUME IndInv, NEW t \in Thread, Release(t)
    PROVE  IndInv'
<1> USE ApiAssumption DEF IndInv, Handle, Release, Finish, Goto, global
<1>1. TypeOK'
  <2>1. owns' \in [Handle -> BOOLEAN]
    <3>1. obj[t] \in Handle
      BY DEF ThreadInv, Constructing, Copying, Attaching
    <3> QED
      BY <3>1, OwnsTyped DEF TypeOK
  <2> QED
    BY <2>1 DEF TypeOK, PC
<1>2. ThreadInv(t)'
  BY DEF TypeOK, ThreadInv, OwnershipInv, Critical, InCall, Constructing, Copying, Attaching, Releasing
<1>3. ASSUME NEW u \in Thread, u # t PROVE ThreadInv(u)'
  BY <1>3 DEF TypeOK, ThreadInv, Exclusive, Critical, InCall, Constructing, Copying, Attaching, Releasing
<1>4. Exclusive'
  BY DEF TypeOK, Exclusive
<1>5. OwnershipInv'
  BY DEF TypeOK, ThreadInv, OwnershipInv, Exclusive, Constructing, Copying, Attaching, Releasing
<1>6. RefcountExact'
  <2>1. CASE owns[obj[t]]
    <3>1. obj[t] \in Handle /\ owns' = [owns EXCEPT ![obj[t]] = FALSE]
      BY <2>1 DEF ThreadInv
    <3>2. t \notin Leaving /\ Leaving' = Leaving \cup {t}
      BY <2>1 DEF TypeOK, Leaving
    <3> QED
      BY <2>1, <3>1, <3>2, OwnerLeaves
  <2>2. CASE ~owns[obj[t]]
    <3>1. Leaving' = Leaving
      BY <2>2 DEF TypeOK, Leaving
    <3> QED
      BY <2>2, <3>1, CountsUnchanged
  <2> QED
    BY <2>1, <2>2
<1>7. SessionInv'
  BY DEF TypeOK, SessionInv, ThreadInv, Critical
<1>8. NoInterfaceOutlivesApi'
  BY DEF TypeOK, NoInterfaceOutlivesApi
<1>9. CallsReachLiveApi'
  BY DEF TypeOK, CallsReachLiveApi, InCall
<1> QED
  BY <1>1, <1>2, <1>3, <1>4, <1>5, <1>6, <1>7, <1>8, <1>9

\* release() takes the mutex.
LEMMA ReleaseLockKeeps ==
    ASSUME IndInv, NEW t \in Thread, ReleaseLock(t)
    PROVE  IndInv'
<1> USE ApiAssumption DEF IndInv, Handle, ReleaseLock, Lock, Goto
<1>1. TypeOK'
  BY DEF TypeOK, PC
<1>2. ThreadInv(t)'
  BY DEF TypeOK, ThreadInv, OwnershipInv, Critical, InCall, Constructing, Copying, Attaching, Releasing
<1>3. ASSUME NEW u \in Thread, u # t PROVE ThreadInv(u)'
  BY <1>3 DEF TypeOK, ThreadInv, Exclusive, Critical, InCall, Constructing, Copying, Attaching, Releasing
<1>4. Exclusive'
  BY DEF TypeOK, Exclusive
<1>5. OwnershipInv'
  BY DEF TypeOK, ThreadInv, OwnershipInv, Exclusive, Constructing, Copying, Attaching, Releasing
<1>6. RefcountExact'
  <2>1. Leaving' = Leaving
    BY DEF TypeOK, Leaving
  <2> QED
    BY <2>1, CountsUnchanged
<1>7. SessionInv'
  BY DEF TypeOK, SessionInv, ThreadInv, Critical
<1>8. NoInterfaceOutlivesApi'
  BY DEF TypeOK, NoInterfaceOutlivesApi
<1>9. CallsReachLiveApi'
  BY DEF TypeOK, CallsReachLiveApi, InCall
<1> QED
  BY <1>1, <1>2, <1>3, <1>4, <1>5, <1>6, <1>7, <1>8, <1>9

\* release() gives the count back; only the last one goes on to shut down.
LEMMA ReleaseCountKeeps ==
    ASSUME IndInv, NEW t \in Thread, ReleaseCount(t)
    PROVE  IndInv'
<1> USE ApiAssumption DEF IndInv, Handle, ReleaseCount, LastUser, Unlock, Finish, Goto
<1>0. RefcountExact' /\ g_api_refcount > 0
  <2>1. t \in Leaving /\ Leaving' = Leaving \ {t}
    BY DEF TypeOK, Leaving
  <2> QED
    BY <2>1, LeaverCounted
<1>1. TypeOK'
  BY <1>0 DEF TypeOK, PC
<1>2. ThreadInv(t)'
  BY DEF TypeOK, ThreadInv, OwnershipInv, Critical, InCall, Constructing, Copying, Attaching, Releasing
<1>3. ASSUME NEW u \in Thread, u # t PROVE ThreadInv(u)'
  BY <1>3 DEF TypeOK, ThreadInv, Exclusive, Critical, InCall, Constructing, Copying, Attaching, Releasing
<1>4. Exclusive'
  BY DEF TypeOK, Exclusive
<1>5. OwnershipInv'
  BY DEF TypeOK, ThreadInv, OwnershipInv, Exclusive, Constructing, Copying, Attaching, Releasing
<1>6. RefcountExact'
  BY <1>0
<1>7. SessionInv'
  BY <1>0 DEF TypeOK, SessionInv, ThreadInv, Critical
<1>8. NoInterfaceOutlivesApi'
  BY DEF TypeOK, NoInterfaceOutlivesApi
<1>9. CallsReachLiveApi'
  BY DEF TypeOK, CallsReachLiveApi, InCall
<1> QED
  BY <1>1, <1>2, <1>3, <1>4, <1>5, <1>6, <1>7, <1>8, <1>9

\* ShutdownAndFreeApi() runs when no pointer into the DLL is left.
LEMMA ShutdownKeeps ==
    ASSUME IndInv, NEW t \in Thread, Shutdown(t)
    PROVE  IndInv'
<1> USE ApiAssumption DEF IndInv, Handle, Shutdown, Unlock, Finish, Goto
<1>0. g_api_refcount = 0
  BY DEF SessionInv
<1>1. TypeOK'
  BY DEF TypeOK, PC
<1>2. ThreadInv(t)'
  BY DEF TypeOK, ThreadInv, OwnershipInv, Critical, InCall, Constructing, Copying, Attaching, Releasing
<1>3. ASSUME NEW u \in Thread, u # t PROVE ThreadInv(u)'
  BY <1>3 DEF TypeOK, ThreadInv, Exclusive, Critical, InCall, Constructing, Copying, Attaching, Releasing
<1>4. Exclusive'
  BY DEF TypeOK, Exclusive
<1>5. OwnershipInv'
  BY DEF TypeOK, ThreadInv, OwnershipInv, Exclusive, Constructing, Copying, Attaching, Releasing
<1>6. RefcountExact'
  <2>1. Leaving' = Leaving
    BY DEF TypeOK, Leaving
  <2> QED
    BY <2>1, CountsUnchanged
<1>7. SessionInv'
  BY DEF TypeOK, SessionInv, ThreadInv, Critical
<1>8. NoInterfaceOutlivesApi'
  BY <1>0, FreeMeansQuiet DEF TypeOK, NoInterfaceOutlivesApi
<1>9. CallsReachLiveApi'
  BY <1>0, FreeMeansQuiet DEF TypeOK, CallsReachLiveApi, InCall
<1> QED
  BY <1>1, <1>2, <1>3, <1>4, <1>5, <1>6, <1>7, <1>8, <1>9

-----------------------------------------------------------------------------
(* The invariant. *)

\* Before any RuntimeManager exists nothing is owned, counted or initialised.
LEMMA InitIndInv == Init => IndInv
<1> SUFFICES ASSUME Init PROVE IndInv
  OBVIOUS
<1> USE ApiAssumption DEF Init, Handle
<1>1. TypeOK
  BY DEF TypeOK, PC
<1>2. ASSUME NEW t \in Thread PROVE ThreadInv(t)
  BY DEF ThreadInv, Critical, Constructing, Copying, Attaching, Releasing
<1>3. Exclusive
  BY DEF Exclusive
<1>4. OwnershipInv
  BY DEF OwnershipInv
<1>5. RefcountExact
  <2>1. Owners = {} /\ Leaving = {}
    BY DEF Owners, Leaving
  <2> QED
    BY <2>1, FS_EmptySet DEF RefcountExact
<1>6. SessionInv
  BY DEF SessionInv
<1>7. NoInterfaceOutlivesApi /\ CallsReachLiveApi
  BY DEF NoInterfaceOutlivesApi, CallsReachLiveApi, InCall
<1> QED
  BY <1>1, <1>2, <1>3, <1>4, <1>5, <1>6, <1>7 DEF IndInv

\* Stuttering changes nothing the invariant reads.
LEMMA StutterKeeps == IndInv /\ UNCHANGED vars => IndInv'
<1> SUFFICES ASSUME IndInv, UNCHANGED vars PROVE IndInv'
  OBVIOUS
<1>1. Owners' = Owners /\ Leaving' = Leaving
  BY DEF Owners, Leaving, vars
<1> QED
  BY <1>1 DEF IndInv, vars, TypeOK, ThreadInv, Exclusive, OwnershipInv,
     RefcountExact, SessionInv, NoInterfaceOutlivesApi, CallsReachLiveApi

\* Beginning an operation preserves the invariant.
LEMMA BeginKeeps ==
    ASSUME IndInv, NEW t \in Thread, Begin(t)
    PROVE  IndInv'
<1>1. CASE \E o \in Manager : Construct(t, o) \/ UseManager(t, o) \/ DestroyManager(t, o)
  BY <1>1, ConstructKeeps, UseManagerKeeps, DestroyManagerKeeps
<1>2. CASE \E i \in Inst : UseInstance(t, i) \/ Close(t, i)
  BY <1>2, UseInstanceKeeps, CloseKeeps
<1>3. CASE \E o \in Manager, i \in Inst : Attach(t, o, i)
  BY <1>3, AttachKeeps
<1> QED
  BY <1>1, <1>2, <1>3 DEF Begin

\* So does every later step of it, whatever the other threads did in between.
LEMMA StepKeeps ==
    ASSUME IndInv, NEW t \in Thread, Step(t)
    PROVE  IndInv'
BY AcquireLockKeeps, InitializeOkKeeps, InitializeFailKeeps, AcquireCountKeeps,
   CtorReadKeeps, CtorProbeKeeps, CreateInterfaceKeeps, CopyFlagKeeps,
   CopyLockKeeps, CopyCountKeeps, IdentifyKeeps, ReturnKeeps,
   DestroyInterfaceKeeps, ReleaseKeeps, ReleaseLockKeeps, ReleaseCountKeeps,
   ShutdownKeeps DEF Step

\* Ownership, the count and the session of acquire(), copy and release() agree
\* in every reachable state.
THEOREM Invariant == Spec => []IndInv
<1>1. IndInv /\ [Next]_vars => IndInv'
  BY StutterKeeps, BeginKeeps, StepKeeps DEF Next
<1> QED
  BY InitIndInv, <1>1, PTL DEF Spec

\* Every variable of the reference-counted lifetime keeps its type.
THEOREM TypeCorrect == Spec => []TypeOK
<1>1. IndInv => TypeOK
  BY DEF IndInv
<1> QED
  BY Invariant, <1>1, PTL

\* g_api_refcount is the number of owning handles plus the releases under way.
THEOREM RefcountIsExact == Spec => []RefcountExact
<1>1. IndInv => RefcountExact
  BY DEF IndInv
<1> QED
  BY Invariant, <1>1, PTL

\* Whoever owns a handle has an initialised DLL and its manager pointer.
THEOREM OwnersAreSafe == Spec => []OwnersHaveLiveApi
<1>1. IndInv => OwnersHaveLiveApi
  <2> SUFFICES ASSUME IndInv, Owners # {} PROVE sdk # 0 /\ g_api_manager = sdk
    BY DEF OwnersHaveLiveApi
  <2> QED
    BY OwnerMeansLive DEF IndInv, Owners
<1> QED
  BY Invariant, <1>1, PTL

\* No interface created by attach() outlives the session it came from.
THEOREM InterfacesAreSafe == Spec => []NoInterfaceOutlivesApi
<1>1. IndInv => NoInterfaceOutlivesApi
  BY DEF IndInv
<1> QED
  BY Invariant, <1>1, PTL

\* No SDK call is in flight into a DLL that another thread has freed.
THEOREM CallsAreSafe == Spec => []CallsReachLiveApi
<1>1. IndInv => CallsReachLiveApi
  BY DEF IndInv
<1> QED
  BY Invariant, <1>1, PTL

\* When every object is gone, release() has freed the DLL and the count is 0.
THEOREM NothingIsLeaked == Spec => []NothingLeaks
<1>1. IndInv => NothingLeaks
  <2> SUFFICES ASSUME IndInv, live = {}, \A t \in Thread : pc[t] = "idle"
               PROVE  g_api_refcount = 0 /\ sdk = 0 /\ \A i \in Inst : raw[i] = 0
    BY DEF NothingLeaks
  <2>1. Owners = {} /\ Leaving = {}
    BY ApiAssumption DEF IndInv, OwnershipInv, ThreadInv, Owners, Leaving
  <2>2. g_api_refcount = 0
    BY <2>1, FS_EmptySet DEF IndInv, RefcountExact
  <2>3. sdk = 0
    BY <2>2 DEF IndInv, SessionInv
  <2> QED
    BY <2>2, <2>3, FreeMeansQuiet
<1> QED
  BY Invariant, <1>1, PTL

-----------------------------------------------------------------------------
(* The refinement of ApiSession. *)

\* A step that touches neither the session, nor owns_, nor an interface is
\* invisible to ApiSession.
LEMMA Invisible ==
    ASSUME UNCHANGED <<sdk, started, owns, raw>>
    PROVE  UNCHANGED Abstract!vars
<1>1. Owners' = Owners
  BY DEF Owners
<1> QED
  BY <1>1 DEF Abstract!vars

\* InitializeApi() succeeds only when no session is live: Start.
LEMMA InitializeStarts ==
    ASSUME IndInv, NEW t \in Thread, InitializeOk(t)
    PROVE  Abstract!Start
<1>1. sdk = 0
  BY DEF InitializeOk, IndInv, SessionInv, ThreadInv, Critical
<1>2. Owners' = Owners
  BY DEF InitializeOk, Owners
<1> QED
  BY <1>1, <1>2 DEF InitializeOk, Abstract!Start

\* acquire() and the copy of a handle add one user to a live session: Join.
LEMMA CountJoins ==
    ASSUME IndInv, NEW t \in Thread, AcquireCount(t) \/ CopyCount(t)
    PROVE  Abstract!Join(obj[t]) /\ obj[t] \in Handle
<1>1. obj[t] \in Handle /\ ~owns[obj[t]]
  BY DEF AcquireCount, CopyCount, IndInv, ThreadInv, Constructing, Copying,
     Attaching, Handle
<1>2. Owners' = Owners \cup {obj[t]} /\ obj[t] \notin Owners
  BY <1>1 DEF AcquireCount, CopyCount, IndInv, TypeOK, Owners
<1>3. sdk # 0
  <2>1. CASE AcquireCount(t)
    BY <2>1 DEF AcquireCount, IndInv, SessionInv
  <2>2. CASE CopyCount(t)
    <3>1. rm[t] \in Handle /\ owns[rm[t]]
      BY <2>2, ApiAssumption DEF CopyCount, IndInv, ThreadInv, OwnershipInv,
         Attaching, Copying, Handle
    <3> QED
      BY <3>1, OwnerMeansLive DEF IndInv
  <2> QED
    BY <2>1, <2>2
<1> QED
  BY <1>1, <1>2, <1>3 DEF AcquireCount, CopyCount, Abstract!Join

\* release() gives a handle up after its interface is gone: Leave.
LEMMA ReleaseLeaves ==
    ASSUME IndInv, NEW t \in Thread, Release(t)
    PROVE  Abstract!Next \/ UNCHANGED Abstract!vars
<1>1. CASE owns[obj[t]]
  <2>1. obj[t] \in Handle /\ (obj[t] \in Inst => raw[obj[t]] = 0)
    BY DEF Release, IndInv, ThreadInv
  <2>2. Owners' = Owners \ {obj[t]} /\ obj[t] \in Owners
    BY <1>1, <2>1 DEF Release, IndInv, TypeOK, Owners
  <2>3. Abstract!Leave(obj[t])
    BY <2>1, <2>2 DEF Release, global, Abstract!Leave
  <2> QED
    BY <2>1, <2>3 DEF Abstract!Next, Handle
<1>2. CASE ~owns[obj[t]]
  BY <1>2, Invisible DEF Release, global
<1> QED
  BY <1>1, <1>2

\* attach() opens an interface on behalf of a manager that owns the API.
LEMMA CreateOpens ==
    ASSUME IndInv, NEW t \in Thread, CreateInterface(t)
    PROVE  Abstract!Next \/ UNCHANGED Abstract!vars
<1>1. CASE raw' = [raw EXCEPT ![obj[t]] = ptr[t]]
  <2>1. obj[t] \in Inst /\ raw[obj[t]] = 0 /\ rm[t] \in Handle /\ owns[rm[t]]
    BY ApiAssumption DEF CreateInterface, IndInv, ThreadInv, OwnershipInv,
       Attaching, Handle
  <2>2. ptr[t] = sdk
    BY DEF CreateInterface, IndInv, CallsReachLiveApi, InCall
  <2>3. Owners # {} /\ Owners' = Owners
    BY <2>1 DEF CreateInterface, Owners
  <2>4. Abstract!OpenInterface(obj[t])
    BY <1>1, <2>1, <2>2, <2>3 DEF CreateInterface, global, Abstract!OpenInterface
  <2> QED
    BY <2>1, <2>4 DEF Abstract!Next
<1>2. CASE UNCHANGED raw
  BY <1>2, Invisible DEF CreateInterface, global
<1> QED
  BY <1>1, <1>2 DEF CreateInterface

\* DestroyInterface() runs in the session of the interface: CloseInterface, or
\* nothing when close() finds none.
LEMMA DestroyCloses ==
    ASSUME IndInv, NEW t \in Thread, DestroyInterface(t)
    PROVE  Abstract!Next \/ UNCHANGED Abstract!vars
<1>1. obj[t] \in Inst
  BY DEF DestroyInterface, IndInv, ThreadInv
<1>2. CASE raw[obj[t]] = 0
  <2>1. raw' = raw
    BY <1>1, <1>2 DEF DestroyInterface, IndInv, TypeOK
  <2> QED
    BY <2>1, Invisible DEF DestroyInterface, global
<1>3. CASE raw[obj[t]] # 0
  <2>1. Owners' = Owners
    BY DEF DestroyInterface, Owners
  <2>2. Abstract!CloseInterface(obj[t])
    BY <1>1, <1>3, <2>1 DEF DestroyInterface, global, IndInv,
       NoInterfaceOutlivesApi, Abstract!CloseInterface
  <2> QED
    BY <1>1, <2>2 DEF Abstract!Next
<1> QED
  BY <1>2, <1>3

\* The last release() shuts the DLL down when nobody is left: Stop.
LEMMA ShutdownStops ==
    ASSUME IndInv, NEW t \in Thread, Shutdown(t)
    PROVE  Abstract!Stop
<1>1. g_api_refcount = 0 /\ sdk # 0
  BY DEF Shutdown, IndInv, SessionInv
<1>2. Owners = {} /\ Owners' = {} /\ \A i \in Inst : raw[i] = 0
  BY <1>1, FreeMeansQuiet DEF Shutdown, Owners
<1> QED
  BY <1>1, <1>2 DEF Shutdown, Abstract!Stop

\* Every step of a thread is a step of ApiSession or invisible to it.
LEMMA StepRefines ==
    ASSUME IndInv, [Next]_vars
    PROVE  Abstract!Next \/ UNCHANGED Abstract!vars
<1>1. CASE UNCHANGED vars
  BY <1>1, Invisible DEF vars
<1>2. ASSUME NEW t \in Thread, Begin(t)
      PROVE  UNCHANGED Abstract!vars
  BY <1>2, Invisible DEF Begin, Construct, UseManager, DestroyManager,
     UseInstance, Close, Attach, global
<1>3. ASSUME NEW t \in Thread, Step(t)
      PROVE  Abstract!Next \/ UNCHANGED Abstract!vars
  <2>1. CASE InitializeOk(t)
    BY <2>1, InitializeStarts DEF Abstract!Next
  <2>2. CASE AcquireCount(t) \/ CopyCount(t)
    BY <2>2, CountJoins DEF Abstract!Next, Handle
  <2>3. CASE Release(t) \/ CreateInterface(t) \/ DestroyInterface(t)
    BY <2>3, ReleaseLeaves, CreateOpens, DestroyCloses
  <2>4. CASE Shutdown(t)
    BY <2>4, ShutdownStops DEF Abstract!Next
  <2>5. CASE \/ AcquireLock(t) \/ InitializeFail(t) \/ CtorRead(t) \/ CtorProbe(t)
             \/ CopyFlag(t) \/ CopyLock(t) \/ Identify(t) \/ Return(t)
             \/ ReleaseLock(t) \/ ReleaseCount(t)
    BY <2>5, Invisible DEF AcquireLock, InitializeFail, CtorRead, CtorProbe,
       CopyFlag, CopyLock, Identify, Return, ReleaseLock, ReleaseCount, global
  <2> QED
    BY <1>3, <2>1, <2>2, <2>3, <2>4, <2>5 DEF Step
<1> QED
  BY <1>1, <1>2, <1>3 DEF Next

\* The mutex, the count and the handles together keep the promise stated in
\* SdkBridge.cpp:274-280: one initialisation for any number of users, no
\* interface outside its session, no DLL freed under anybody.
THEOREM Refinement == Spec => ImplementsSession
<1>1. Init => Abstract!Init
  BY DEF Init, Abstract!Init, Owners
<1>2. IndInv /\ [Next]_vars => [Abstract!Next]_(Abstract!vars)
  BY StepRefines
<1> QED
  BY Invariant, <1>1, <1>2, PTL DEF Spec, ImplementsSession, Abstract!Spec

\* InitializeApi() is never called inside a running session, nor while a thread
\* still holds an interface of an older one.
THEOREM InitializedWhenFree == Spec => InitOnlyWhenFree
<1>1. ASSUME IndInv, [Next]_vars, started' # started
      PROVE  sdk = 0 /\ \A i \in Inst : raw[i] = 0
  <2>1. PICK t \in Thread : InitializeOk(t)
    BY <1>1 DEF Next, vars, Begin, Step, global, Construct, UseManager,
       DestroyManager, UseInstance, Close, Attach, AcquireLock, InitializeFail,
       AcquireCount, CtorRead, CtorProbe, CreateInterface, CopyFlag, CopyLock,
       CopyCount, Identify, Return, DestroyInterface, Release, ReleaseLock,
       ReleaseCount, Shutdown
  <2>2. g_api_refcount = 0
    BY <1>1, <2>1 DEF InitializeOk, IndInv, SessionInv
  <2>3. sdk = 0
    BY <1>1, <2>1, InitializeStarts DEF Abstract!Start
  <2> QED
    BY <1>1, <2>2, <2>3, FreeMeansQuiet
<1>2. IndInv /\ [Next]_vars
        => [started' # started => sdk = 0 /\ \A i \in Inst : raw[i] = 0]_vars
  BY <1>1
<1> QED
  BY Invariant, <1>2, PTL DEF Spec, InitOnlyWhenFree

-----------------------------------------------------------------------------
(* Why operations end: nobody waits for somebody who waits, and every step of a *)
(* thread brings its operation nearer to its end.                               *)

\* How many steps an operation has left at most, from where its thread is.
StepsLeft(t) ==
    IF pc[t] \in {"describe", "call", "identify", "shutdown"} THEN 1
    ELSE IF pc[t] \in {"release_count", "copy_count"} THEN 2
    ELSE IF pc[t] \in {"release_lock", "copy_lock"} THEN 3
    ELSE IF pc[t] \in {"release", "copy_flag"} THEN 4
    ELSE IF pc[t] \in {"destroy", "ctor_probe", "create"} THEN 5
    ELSE IF pc[t] = "ctor_read" THEN 6
    ELSE IF pc[t] = "count" THEN 7
    ELSE IF pc[t] = "initialize" THEN 8
    ELSE IF pc[t] = "acquire_lock" THEN 9
    ELSE 0

\* The thread stands before a lock_guard while another one is inside.
Waits(t) == pc[t] \in {"acquire_lock", "copy_lock", "release_lock"} /\ g_api_mutex # None

\* A thread waits only for one that is in the middle of its own operation and waits
\* for nothing: the threads under the mutex take no second lock.
NoCircularWait ==
    \A t \in Thread : Waits(t) =>
        /\ g_api_mutex \in Thread \ {t}
        /\ pc[g_api_mutex] # "idle" /\ ~Waits(g_api_mutex)

\* An operation that is under way comes nearer to its end or is left alone: neither
\* its own steps nor those of other threads ever take it back.
OperationsRunDown ==
    [][\A t \in Thread : pc[t] # "idle" =>
          \/ StepsLeft(t)' < StepsLeft(t)
          \/ UNCHANGED <<pc[t], obj[t], rm[t], ptr[t]>>]_vars

\* Only an idle thread has no step left.
LEMMA StepsLeftBounds ==
    ASSUME TypeOK, NEW t \in Thread
    PROVE  StepsLeft(t) \in 0 .. 9 /\ (StepsLeft(t) = 0 <=> pc[t] = "idle")
  BY DEF TypeOK, PC, StepsLeft

\* Every action of a thread leads on, whichever way it ends.
LEMMA StepLeadsOn ==
    ASSUME TypeOK, NEW t \in Thread, Step(t)
    PROVE  StepsLeft(t)' < StepsLeft(t)
<1> USE ApiAssumption DEF TypeOK, PC, StepsLeft, Goto, Finish
<1>1. CASE AcquireLock(t) \/ CopyLock(t) \/ ReleaseLock(t)
  BY <1>1 DEF AcquireLock, CopyLock, ReleaseLock
<1>2. CASE InitializeOk(t) \/ InitializeFail(t) \/ AcquireCount(t) \/ CopyCount(t)
  BY <1>2 DEF InitializeOk, InitializeFail, AcquireCount, CopyCount
<1>3. CASE CtorRead(t) \/ CtorProbe(t) \/ CreateInterface(t) \/ CopyFlag(t)
  BY <1>3 DEF CtorRead, CtorProbe, CreateInterface, CopyFlag
<1>4. CASE Identify(t) \/ Return(t) \/ DestroyInterface(t) \/ Release(t)
  BY <1>4 DEF Identify, Return, DestroyInterface, Release
<1>5. CASE ReleaseCount(t) \/ Shutdown(t)
  BY <1>5 DEF ReleaseCount, Shutdown
<1> QED
  BY <1>1, <1>2, <1>3, <1>4, <1>5 DEF Step

\* What a thread does leaves the others where they are.
LEMMA OthersUntouched ==
    ASSUME TypeOK, NEW t \in Thread, Begin(t) \/ Step(t), NEW u \in Thread, u # t
    PROVE  UNCHANGED <<pc[u], obj[u], rm[u], ptr[u]>>
<1> USE DEF TypeOK, Goto, Finish, global
<1>1. CASE Begin(t)
  BY <1>1 DEF Begin, Construct, UseManager, DestroyManager, UseInstance, Close, Attach
<1>2. CASE AcquireLock(t) \/ CopyLock(t) \/ ReleaseLock(t) \/ InitializeOk(t)
  BY <1>2 DEF AcquireLock, CopyLock, ReleaseLock, InitializeOk
<1>3. CASE InitializeFail(t) \/ AcquireCount(t) \/ CopyCount(t) \/ ReleaseCount(t)
  BY <1>3 DEF InitializeFail, AcquireCount, CopyCount, ReleaseCount
<1>4. CASE CtorRead(t) \/ CtorProbe(t) \/ CreateInterface(t) \/ CopyFlag(t)
  BY <1>4 DEF CtorRead, CtorProbe, CreateInterface, CopyFlag
<1>5. CASE Identify(t) \/ Return(t) \/ DestroyInterface(t) \/ Release(t) \/ Shutdown(t)
  BY <1>5 DEF Identify, Return, DestroyInterface, Release, Shutdown
<1> QED
  BY <1>1, <1>2, <1>3, <1>4, <1>5 DEF Step

\* Nobody waits for g_api_mutex in a circle, for any number of threads: no path
\* through acquire(), copy or release() leaves the lock_guard with the mutex held.
THEOREM NobodyWaitsInACircle == Spec => []NoCircularWait
<1>1. IndInv => NoCircularWait
  BY ApiAssumption DEF IndInv, TypeOK, ThreadInv, Critical, NoCircularWait, Waits
<1> QED
  BY Invariant, <1>1, PTL

\* Every operation takes at most nine steps of its thread, throwing ones included:
\* with NobodyWaitsInACircle, what OperationsComplete needs but for fairness.
THEOREM OperationsAreFinite == Spec => [](\A t \in Thread : StepsLeft(t) \in 0 .. 9) /\ OperationsRunDown
<1>1. TypeOK => \A t \in Thread : StepsLeft(t) \in 0 .. 9
  BY StepsLeftBounds
<1>2. ASSUME TypeOK, [Next]_vars, NEW t \in Thread, pc[t] # "idle"
      PROVE  StepsLeft(t)' < StepsLeft(t) \/ UNCHANGED <<pc[t], obj[t], rm[t], ptr[t]>>
  <2>1. CASE UNCHANGED vars
    BY <2>1 DEF vars
  <2>2. ASSUME NEW u \in Thread, Begin(u) \/ Step(u)
        PROVE  StepsLeft(t)' < StepsLeft(t) \/ UNCHANGED <<pc[t], obj[t], rm[t], ptr[t]>>
    <3>1. CASE u = t /\ Step(t)
      BY <1>2, <3>1, StepLeadsOn
    <3>2. ~(u = t /\ Begin(t))
      BY <1>2 DEF Begin, Construct, UseManager, DestroyManager, UseInstance, Close, Attach
    <3> QED
      BY <1>2, <2>2, <3>1, <3>2, OthersUntouched
  <2> QED
    BY <1>2, <2>1, <2>2 DEF Next
<1>3. TypeOK /\ [Next]_vars => [\A t \in Thread : pc[t] # "idle" =>
          \/ StepsLeft(t)' < StepsLeft(t)
          \/ UNCHANGED <<pc[t], obj[t], rm[t], ptr[t]>>]_vars
  BY <1>2
<1> QED
  BY TypeCorrect, <1>1, <1>3, PTL DEF Spec, OperationsRunDown

=============================================================================
