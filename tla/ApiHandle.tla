------------------------------ MODULE ApiHandle ------------------------------
(***************************************************************************)
(* The process-wide lifetime of the Siemens API: the mutex-guarded         *)
(* reference count and the RAII class ApiHandle of SdkBridge.cpp, with the *)
(* RuntimeManager and Instance operations that take, copy, use and release *)
(* a handle, run by any number of threads.                                 *)
(*                                                                         *)
(* A thread runs one operation at a time. An operation is split where      *)
(* another thread can get in between: at the mutex, at the unlocked reads  *)
(* of owns_ and g_api_manager, and around every SDK call, so that "a call  *)
(* is in flight" is a state. Pointers into the SDK are modelled by the     *)
(* session they belong to, 0 for nullptr; using one is safe exactly when   *)
(* its session is the live one.                                            *)
(*                                                                         *)
(* Objects follow the rules the headers state: an Instance is used by one  *)
(* thread at a time, a RuntimeManager by any number of them, and neither   *)
(* is destroyed while one of its member functions runs.                    *)
(***************************************************************************)
EXTENDS Naturals, FiniteSets

CONSTANTS
    Thread,      \* threads of the process
    Manager,     \* RuntimeManager objects, constructed and destroyed at will
    Inst,        \* Instance objects
    MaxSession,  \* bound on the successful InitializeApi() calls of a run
    None         \* "no thread" and "no object"

Handle == Manager \cup Inst     \* each object holds one ApiHandle

ASSUME ApiAssumption ==
    /\ IsFiniteSet(Thread) /\ IsFiniteSet(Manager) /\ IsFiniteSet(Inst)
    /\ Manager \cap Inst = {}
    /\ None \notin Thread /\ None \notin Handle
    /\ MaxSession \in Nat

VARIABLES
    g_api_mutex,     \* the thread that holds the mutex, or None
    g_api_refcount,
    g_api_manager,   \* the session of the global manager pointer, 0 if null
    sdk,             \* the session the DLL is initialised for, 0 if unloaded
    started,         \* successful InitializeApi() calls so far
    owns,            \* owns_ of each object's handle
    raw,             \* the interface of each instance: its session, 0 if none
    live,            \* objects constructed and not yet being destroyed
    pc,              \* where each thread is
    obj,             \* the object a thread constructs, closes or uses
    rm,              \* the RuntimeManager whose member function it runs
    ptr              \* the SDK pointer the call in flight goes through

vars == <<g_api_mutex, g_api_refcount, g_api_manager, sdk, started, owns, raw,
          live, pc, obj, rm, ptr>>
global == <<g_api_mutex, g_api_refcount, g_api_manager, sdk, started>>

PC == {"idle", "acquire_lock", "initialize", "count", "ctor_read", "ctor_probe",
       "create", "describe", "copy_flag", "copy_lock", "copy_count", "identify",
       "call", "destroy", "release", "release_lock", "release_count", "shutdown"}

\* The statements executed under the lock_guard.
Critical == {"initialize", "count", "copy_count", "release_count", "shutdown"}

\* The SDK calls that go through ptr.
InCall == {"ctor_probe", "create", "describe", "call"}

Init ==
    /\ g_api_mutex = None
    /\ g_api_refcount = 0
    /\ g_api_manager = 0
    /\ sdk = 0
    /\ started = 0
    /\ owns = [h \in Handle |-> FALSE]
    /\ raw = [i \in Inst |-> 0]
    /\ live = {}
    /\ pc = [t \in Thread |-> "idle"]
    /\ obj = [t \in Thread |-> None]
    /\ rm = [t \in Thread |-> None]
    /\ ptr = [t \in Thread |-> 0]

-----------------------------------------------------------------------------
(* Helpers. *)

Unused(h) == \A t \in Thread : obj[t] # h /\ rm[t] # h

\* ApiHandle::manager(): an unlocked read of the global pointer.
ManagerOf(h) == IF owns[h] THEN g_api_manager ELSE 0

Goto(t, to) == pc' = [pc EXCEPT ![t] = to]

\* The operation returns or throws.
Finish(t) ==
    /\ Goto(t, "idle")
    /\ obj' = [obj EXCEPT ![t] = None]
    /\ rm' = [rm EXCEPT ![t] = None]
    /\ ptr' = [ptr EXCEPT ![t] = 0]

Lock(t) == g_api_mutex = None /\ g_api_mutex' = t

Unlock(t) == g_api_mutex' = None

\* acquire(): the DLL has to be initialised, ...
\* (mutant: the count is not consulted)
FirstUser_Always == TRUE
FirstUser == g_api_refcount = 0

\* ... release(): it can be freed.
\* (mutant: one release too early)
LastUser_OneEarly == g_api_refcount \in {1, 2} /\ g_api_manager # 0
LastUser == g_api_refcount = 1 /\ g_api_manager # 0

-----------------------------------------------------------------------------
(* RuntimeManager::RuntimeManager() and ApiHandle::acquire(). *)

Construct(t, o) ==
    /\ pc[t] = "idle"
    /\ o \notin live
    /\ Unused(o)
    /\ Goto(t, "acquire_lock")
    /\ obj' = [obj EXCEPT ![t] = o]
    /\ UNCHANGED <<global, owns, raw, live, rm, ptr>>

AcquireLock(t) ==
    /\ pc[t] = "acquire_lock"
    /\ Lock(t)
    /\ Goto(t, IF FirstUser THEN "initialize" ELSE "count")
    /\ UNCHANGED <<g_api_refcount, g_api_manager, sdk, started, owns, raw, live,
                   obj, rm, ptr>>

InitializeOk(t) ==
    /\ pc[t] = "initialize"
    /\ started < MaxSession
    /\ started' = started + 1
    /\ sdk' = started + 1
    /\ g_api_manager' = started + 1
    /\ Goto(t, "count")
    /\ UNCHANGED <<g_api_mutex, g_api_refcount, owns, raw, live, obj, rm, ptr>>

\* (mutant: the throwing path keeps the mutex)
InitializeFail_KeepsLock(t) ==
    /\ pc[t] = "initialize"
    /\ Finish(t)
    /\ UNCHANGED <<global, owns, raw, live>>

\* InitializeApi() fails or yields no manager: throw_error() unwinds the lock
\* and the half-constructed RuntimeManager, whose handle owns nothing.
InitializeFail(t) ==
    /\ pc[t] = "initialize"
    /\ Unlock(t)
    /\ Finish(t)
    /\ UNCHANGED <<g_api_refcount, g_api_manager, sdk, started, owns, raw, live>>

AcquireCount(t) ==
    /\ pc[t] = "count"
    /\ g_api_refcount' = g_api_refcount + 1
    /\ owns' = [owns EXCEPT ![obj[t]] = TRUE]
    /\ Unlock(t)
    /\ Goto(t, "ctor_read")
    /\ UNCHANGED <<g_api_manager, sdk, started, raw, live, obj, rm, ptr>>

CtorRead(t) ==
    /\ pc[t] = "ctor_read"
    /\ ptr' = [ptr EXCEPT ![t] = ManagerOf(obj[t])]
    /\ Goto(t, "ctor_probe")
    /\ UNCHANGED <<global, owns, raw, live, obj, rm>>

\* (mutant: the throwing constructor does not release its handle)
CtorProbe_Leaks(t) ==
    /\ pc[t] = "ctor_probe"
    /\ live' \in {live, live \cup {obj[t]}}
    /\ Finish(t)
    /\ UNCHANGED <<global, owns, raw>>

\* IsRuntimeManagerAvailable() answers; if false the constructor throws and
\* the destructor of impl_ releases the handle again.
CtorProbe(t) ==
    /\ pc[t] = "ctor_probe"
    /\ \/ /\ live' = live \cup {obj[t]}
          /\ Finish(t)
       \/ /\ Goto(t, "release")
          /\ ptr' = [ptr EXCEPT ![t] = 0]
          /\ UNCHANGED <<live, obj, rm>>
    /\ UNCHANGED <<global, owns, raw>>

-----------------------------------------------------------------------------
(* RuntimeManager::attach(), by name or by id. *)

Attach(t, o, i) ==
    /\ pc[t] = "idle"
    /\ o \in live
    /\ i \notin live
    /\ Unused(i)
    /\ ManagerOf(o) # 0     \* else throws ApiNotInitialized
    /\ Goto(t, "create")
    /\ obj' = [obj EXCEPT ![t] = i]
    /\ rm' = [rm EXCEPT ![t] = o]
    /\ ptr' = [ptr EXCEPT ![t] = ManagerOf(o)]
    /\ UNCHANGED <<global, owns, raw, live>>

\* CreateInterface() succeeds, is answered by "does not exist" (after which
\* registeredInstances() fetches the manager pointer again), or fails.
CreateInterface(t) ==
    /\ pc[t] = "create"
    /\ \/ /\ raw' = [raw EXCEPT ![obj[t]] = ptr[t]]
          /\ Goto(t, "copy_flag")
          /\ ptr' = [ptr EXCEPT ![t] = 0]
          /\ UNCHANGED <<obj, rm>>
       \/ /\ ManagerOf(rm[t]) # 0
          /\ Goto(t, "describe")
          /\ ptr' = [ptr EXCEPT ![t] = ManagerOf(rm[t])]
          /\ UNCHANGED <<raw, obj, rm>>
       \/ /\ Finish(t)
          /\ UNCHANGED raw
    /\ UNCHANGED <<global, owns, live>>

\* (mutant: the Instance gets no handle of its own)
CopyFlag_NoShare(t) ==
    /\ pc[t] = "copy_flag"
    /\ Goto(t, "identify")
    /\ UNCHANGED <<global, owns, raw, live, obj, rm, ptr>>

\* impl->api = impl_->api: the copy reads owns_ before it takes the lock. That the
\* allocation of impl fails, which would lose the interface, is left out.
CopyFlag(t) ==
    /\ pc[t] = "copy_flag"
    /\ Goto(t, IF owns[rm[t]] THEN "copy_lock" ELSE "identify")
    /\ UNCHANGED <<global, owns, raw, live, obj, rm, ptr>>

CopyLock(t) ==
    /\ pc[t] = "copy_lock"
    /\ Lock(t)
    /\ Goto(t, "copy_count")
    /\ UNCHANGED <<g_api_refcount, g_api_manager, sdk, started, owns, raw, live,
                   obj, rm, ptr>>

\* (mutant: the copy owns the API without counting)
CopyCount_Uncounted(t) ==
    /\ pc[t] = "copy_count"
    /\ owns' = [owns EXCEPT ![obj[t]] = TRUE]
    /\ Unlock(t)
    /\ Goto(t, "identify")
    /\ UNCHANGED <<g_api_refcount, g_api_manager, sdk, started, raw, live, obj, rm, ptr>>

CopyCount(t) ==
    /\ pc[t] = "copy_count"
    /\ g_api_refcount' = g_api_refcount + 1
    /\ owns' = [owns EXCEPT ![obj[t]] = TRUE]
    /\ Unlock(t)
    /\ Goto(t, "identify")
    /\ UNCHANGED <<g_api_manager, sdk, started, raw, live, obj, rm, ptr>>

\* GetID() or GetName() through the new interface, then the Instance is handed
\* to the caller.
Identify(t) ==
    /\ pc[t] = "identify"
    /\ live' = live \cup {obj[t]}
    /\ Finish(t)
    /\ UNCHANGED <<global, owns, raw>>

-----------------------------------------------------------------------------
(* Calls that only use the API. *)

\* isRuntimeManagerAvailable(), registeredInstances(), version(): one SDK call
\* through the manager pointer, concurrently from any number of threads.
UseManager(t, o) ==
    /\ pc[t] = "idle"
    /\ o \in live
    /\ ManagerOf(o) # 0     \* else returns false or throws ApiNotInitialized
    /\ Goto(t, "call")
    /\ rm' = [rm EXCEPT ![t] = o]
    /\ ptr' = [ptr EXCEPT ![t] = ManagerOf(o)]
    /\ UNCHANGED <<global, owns, raw, live, obj>>

\* Any operation of an Instance that passes live(), or isConnected(), which
\* asks the manager instead of the interface.
UseInstance(t, i) ==
    /\ pc[t] = "idle"
    /\ i \in live
    /\ Unused(i)
    /\ raw[i] # 0           \* else throws ConnectionLost or returns false
    /\ Goto(t, "call")
    /\ obj' = [obj EXCEPT ![t] = i]
    /\ \E p \in {raw[i], ManagerOf(i)} \ {0} : ptr' = [ptr EXCEPT ![t] = p]
    /\ UNCHANGED <<global, owns, raw, live, rm>>

\* The SDK call in flight returns and so does the operation.
Return(t) ==
    /\ pc[t] \in {"call", "describe"}
    /\ Finish(t)
    /\ UNCHANGED <<global, owns, raw, live>>

-----------------------------------------------------------------------------
(* Instance::close(), ~Instance(), ~RuntimeManager(), ApiHandle::release(). *)

\* close() keeps the object; the destructor ends its life.
Close(t, i) ==
    /\ pc[t] = "idle"
    /\ i \in live
    /\ Unused(i)
    /\ live' \in {live, live \ {i}}
    /\ Goto(t, "destroy")
    /\ obj' = [obj EXCEPT ![t] = i]
    /\ UNCHANGED <<global, owns, raw, rm, ptr>>

\* (mutant: destroy() releases the API but forgets the interface)
DestroyInterface_Forgotten(t) ==
    /\ pc[t] = "destroy"
    /\ Goto(t, "release")
    /\ UNCHANGED <<global, owns, raw, live, obj, rm, ptr>>

DestroyInterface(t) ==
    /\ pc[t] = "destroy"
    /\ raw' = [raw EXCEPT ![obj[t]] = 0]
    /\ Goto(t, "release")
    /\ UNCHANGED <<global, owns, live, obj, rm, ptr>>

DestroyManager(t, o) ==
    /\ pc[t] = "idle"
    /\ o \in live
    /\ Unused(o)
    /\ live' = live \ {o}
    /\ Goto(t, "release")
    /\ obj' = [obj EXCEPT ![t] = o]
    /\ UNCHANGED <<global, owns, raw, rm, ptr>>

\* (mutant: no early return for a handle that owns nothing)
Release_Unguarded(t) ==
    /\ pc[t] = "release"
    /\ owns' = [owns EXCEPT ![obj[t]] = FALSE]
    /\ Goto(t, "release_lock")
    /\ UNCHANGED <<global, raw, live, obj, rm, ptr>>

Release(t) ==
    /\ pc[t] = "release"
    /\ \/ /\ owns[obj[t]]
          /\ owns' = [owns EXCEPT ![obj[t]] = FALSE]
          /\ Goto(t, "release_lock")
          /\ UNCHANGED <<obj, rm, ptr>>
       \/ /\ ~owns[obj[t]]
          /\ Finish(t)
          /\ UNCHANGED owns
    /\ UNCHANGED <<global, raw, live>>

ReleaseLock(t) ==
    /\ pc[t] = "release_lock"
    /\ Lock(t)
    /\ Goto(t, "release_count")
    /\ UNCHANGED <<g_api_refcount, g_api_manager, sdk, started, owns, raw, live,
                   obj, rm, ptr>>

ReleaseCount(t) ==
    /\ pc[t] = "release_count"
    /\ g_api_refcount' = g_api_refcount - 1
    /\ \/ /\ LastUser
          /\ Goto(t, "shutdown")
          /\ UNCHANGED <<g_api_mutex, obj, rm, ptr>>
       \/ /\ ~LastUser
          /\ Unlock(t)
          /\ Finish(t)
    /\ UNCHANGED <<g_api_manager, sdk, started, owns, raw, live>>

Shutdown(t) ==
    /\ pc[t] = "shutdown"
    /\ sdk' = 0
    /\ g_api_manager' = 0
    /\ Unlock(t)
    /\ Finish(t)
    /\ UNCHANGED <<g_api_refcount, started, owns, raw, live>>

-----------------------------------------------------------------------------

\* The rest of an operation that has begun.
Step(t) ==
    \/ AcquireLock(t) \/ InitializeOk(t) \/ InitializeFail(t) \/ AcquireCount(t)
    \/ CtorRead(t) \/ CtorProbe(t) \/ CreateInterface(t) \/ CopyFlag(t)
    \/ CopyLock(t) \/ CopyCount(t) \/ Identify(t) \/ Return(t)
    \/ DestroyInterface(t) \/ Release(t) \/ ReleaseLock(t) \/ ReleaseCount(t)
    \/ Shutdown(t)

Begin(t) ==
    \/ \E o \in Manager : Construct(t, o) \/ UseManager(t, o) \/ DestroyManager(t, o)
    \/ \E i \in Inst : UseInstance(t, i) \/ Close(t, i)
    \/ \E o \in Manager, i \in Inst : Attach(t, o, i)

Next == \E t \in Thread : Begin(t) \/ Step(t)

\* A thread that has begun an operation keeps running, and SDK calls return.
\* Nothing stronger: std::mutex promises no order among waiting threads.
Fairness == \A t \in Thread : WF_vars(Step(t))

Spec == Init /\ [][Next]_vars

FairSpec == Spec /\ Fairness

-----------------------------------------------------------------------------
(* Correctness. *)

TypeOK ==
    /\ g_api_mutex \in Thread \cup {None}
    /\ g_api_refcount \in Nat
    /\ g_api_manager \in Nat
    /\ sdk \in Nat
    /\ started \in Nat
    /\ owns \in [Handle -> BOOLEAN]
    /\ raw \in [Inst -> Nat]
    /\ live \in SUBSET Handle
    /\ pc \in [Thread -> PC]
    /\ obj \in [Thread -> Handle \cup {None}]
    /\ rm \in [Thread -> Manager \cup {None}]
    /\ ptr \in [Thread -> Nat]

\* The handles that own the API, and the threads that have cleared owns_ of a
\* handle but have not yet given its count back (the window of release()
\* between "owns_ = false" and the lock).
Owners == {h \in Handle : owns[h]}
Leaving == {t \in Thread : pc[t] \in {"release_lock", "release_count"}}

\* The reference count counts exactly the owning handles and the releases
\* under way, whatever the interleaving of acquire, copy and release: a count
\* too low frees the DLL under a user, one too high never frees it.
RefcountExact == g_api_refcount = Cardinality(Owners) + Cardinality(Leaving)

\* "Two independent RuntimeManager objects tearing down at different times
\* would FreeLibrary the DLL out from under each other" (SdkBridge.cpp:277):
\* whoever owns a handle has an initialised DLL and a manager pointer of the
\* session that is live, so the unlocked read in manager() is never stale.
OwnersHaveLiveApi ==
    Owners # {} => sdk # 0 /\ g_api_manager = sdk

\* An interface created by attach() never outlives the session it came from,
\* also not in the window before the Instance has its own handle: every
\* DestroyInterface() and every call through it reaches a loaded DLL.
NoInterfaceOutlivesApi ==
    \A i \in Inst : raw[i] # 0 => raw[i] = sdk

\* No SDK call is in flight, on any thread, through a pointer of a session
\* that another thread has shut down meanwhile.
CallsReachLiveApi ==
    \A t \in Thread : pc[t] \in InCall => ptr[t] # 0 /\ ptr[t] = sdk

\* Once every object is gone and every thread has left the library, the DLL is
\* freed and the count is zero: no path, not even a throwing constructor or an
\* attach() the SDK fails, leaks a reference or an interface.
NothingLeaks ==
    (live = {} /\ \A t \in Thread : pc[t] = "idle")
        => g_api_refcount = 0 /\ sdk = 0 /\ \A i \in Inst : raw[i] = 0

\* InitializeApi() is never called inside a running session, nor while a
\* thread still holds an interface of an older one.
InitOnlyWhenFree ==
    [][started' # started => sdk = 0 /\ \A i \in Inst : raw[i] = 0]_vars

\* Once no new operation is begun, every operation under way ends, under weak
\* fairness alone: no path through acquire(), copy or release(), throwing ones
\* included, keeps g_api_mutex or waits for a thread that waits in turn.
OperationsComplete ==
    <>[][~ \E t \in Thread : Begin(t)]_vars => <>[](\A t \in Thread : pc[t] = "idle")

\* The reference-counted lifetime implements the promise of ApiSession.
Abstract == INSTANCE ApiSession
    WITH session <- sdk, users <- Owners, open <- raw

ImplementsSession == Abstract!Spec

-----------------------------------------------------------------------------
(* The inductive invariant behind the properties above. *)

Constructing == {"acquire_lock", "initialize", "count", "ctor_read", "ctor_probe"}
Copying == {"copy_flag", "copy_lock", "copy_count"}
Attaching == {"create", "describe", "identify"} \cup Copying
Releasing == {"release_lock", "release_count", "shutdown"}

\* Which objects the thread works on, and whether their handles own the API.
ThreadInv(t) ==
    /\ g_api_mutex = t <=> pc[t] \in Critical
    /\ pc[t] = "idle" => obj[t] = None
    /\ pc[t] \in Constructing => obj[t] \in Manager
    /\ pc[t] \in {"acquire_lock", "initialize", "count"} => ~owns[obj[t]]
    /\ pc[t] \in {"ctor_read", "ctor_probe"} => owns[obj[t]]
    /\ pc[t] \in Attaching => obj[t] \in Inst \ live /\ rm[t] \in Manager
    /\ pc[t] \in Attaching \ {"identify"} => ~owns[obj[t]]
    /\ pc[t] \in {"identify", "destroy"} => obj[t] \in Inst
    /\ pc[t] \in {"create", "describe"} => raw[obj[t]] = 0
    /\ pc[t] = "call" => rm[t] \in Manager \/ (obj[t] \in Inst /\ raw[obj[t]] # 0)
    /\ pc[t] = "call" => obj[t] = None \/ obj[t] \in Inst \cap live
    /\ pc[t] = "release" \/ pc[t] \in Releasing => obj[t] \in Handle
    /\ pc[t] = "release" \/ pc[t] \in Releasing => (obj[t] \in Inst => raw[obj[t]] = 0)
    /\ pc[t] \in Releasing => ~owns[obj[t]]
    /\ obj[t] \in Manager => obj[t] \notin live
    /\ rm[t] # None => rm[t] \in live

\* No two threads construct, close or use the same object.
Exclusive ==
    \A t, u \in Thread : t # u /\ obj[t] # None => obj[t] # obj[u]

OwnershipInv ==
    /\ \A o \in Manager : o \in live => owns[o]
    /\ \A h \in Handle : owns[h] => h \in live \/ \E t \in Thread : obj[t] = h
    /\ \A i \in Inst : raw[i] # 0 =>
          owns[i] \/ \E t \in Thread : obj[t] = i /\ pc[t] \in Copying

SessionInv ==
    /\ g_api_manager = sdk
    /\ sdk <= started
    /\ sdk # 0 <=> g_api_refcount > 0 \/ \E t \in Thread : pc[t] \in {"count", "shutdown"}
    /\ \A t \in Thread : pc[t] \in {"initialize", "shutdown"} => g_api_refcount = 0

\* Ownership, the count and the session agree in every interleaving: the
\* strengthening of RefcountExact, NoInterfaceOutlivesApi and CallsReachLiveApi
\* that every step preserves.
IndInv ==
    /\ TypeOK
    /\ \A t \in Thread : ThreadInv(t)
    /\ Exclusive
    /\ OwnershipInv
    /\ RefcountExact
    /\ SessionInv
    /\ NoInterfaceOutlivesApi
    /\ CallsReachLiveApi

=============================================================================
