--------------------------- MODULE PythonThreads ---------------------------
(***************************************************************************)
(* ApiHandle under the interpreter lock: the threads are Python threads,   *)
(* and each operation is a wrapper of bindings/python/module.cpp, which    *)
(* either releases the GIL around the native call or keeps it.             *)
(*                                                                         *)
(* A thread inside an operation holds the GIL exactly if the wrapper keeps *)
(* it. So a thread may wait for g_api_mutex with the GIL in its hands,     *)
(* while the owner of the mutex is inside InitializeApi().                 *)
(***************************************************************************)
EXTENDS ApiHandle

VARIABLES
    gil,         \* the thread that holds the GIL, or None
    overtaken    \* how often each other thread has taken g_api_mutex since the
                 \* GIL holder began the operation it is in (for a property)

pyvars == <<vars, gil, overtaken>>

\* The GIL holder is inside a native call.
Held == gil # None /\ pc[gil] # "idle"

PyInit ==
    /\ Init
    /\ gil = None
    /\ overtaken = [t \in Thread |-> 0]

\* The interpreter hands the GIL out, and takes it away only between two calls.
TakeGil(t) ==
    /\ gil = None
    /\ pc[t] = "idle"
    /\ gil' = t
    /\ UNCHANGED <<vars, overtaken>>

DropGil(t) ==
    /\ gil = t
    /\ pc[t] = "idle"
    /\ gil' = None
    /\ UNCHANGED <<vars, overtaken>>

\* (mutant: a thread that does not hold the GIL calls as well)
Caller_AnyThread(t) == gil' = IF gil = t THEN None ELSE gil

\* py::gil_scoped_release.
Caller(t) == gil = t /\ gil' = None

\* The wrappers with gil_scoped_release: RuntimeManager(), attach(),
\* attach_by_id(), try_attach(), registered_instances(); of an Instance every
\* bit access, area_size(), run() and stop(). A wrapper that does not reach the
\* SDK returns without changing anything.
CallReleased(t) ==
    /\ Caller(t)
    /\ \/ \E o \in Manager : Construct(t, o) \/ UseManager(t, o)
       \/ \E o \in Manager, i \in Inst : Attach(t, o, i)
       \/ \E i \in Inst : UseInstance(t, i)
    /\ UNCHANGED overtaken

\* The wrappers without: is_runtime_manager_available(), version,
\* operating_state, is_connected(), close(), __exit__(), and the deallocation of
\* either object.
CallHeld(t) ==
    /\ gil = t
    /\ \/ \E o \in Manager : UseManager(t, o) \/ DestroyManager(t, o)
       \/ \E i \in Inst : UseInstance(t, i) \/ Close(t, i)
    /\ UNCHANGED <<gil, overtaken>>

Overtakes(t) == Held' /\ gil # t /\ g_api_mutex # t /\ g_api_mutex' = t

\* The native code needs no GIL, whether the wrapper released it or not.
\* (mutant: whoever holds g_api_mutex calls back into Python)
MayRun_CallsBack(t) == pc[t] \in Critical => gil \in {t, None}
MayRun(t) == TRUE

NativeStep(t) ==
    /\ MayRun(t)
    /\ Step(t)
    /\ UNCHANGED gil
    /\ overtaken' = [u \in Thread |->
          IF ~Held' THEN 0 ELSE overtaken[u] + (IF u = t /\ Overtakes(t) THEN 1 ELSE 0)]

PyNext ==
    \E t \in Thread :
        TakeGil(t) \/ DropGil(t) \/ CallReleased(t) \/ CallHeld(t) \/ NativeStep(t)

PySpec == PyInit /\ [][PyNext]_pyvars

\* As in ApiHandle: threads run and SDK calls return, and nothing of the order
\* in which std::mutex or the interpreter serve those who wait.
PyFairSpec == PySpec /\ \A t \in Thread : WF_pyvars(NativeStep(t))

-----------------------------------------------------------------------------

PyTypeOK ==
    /\ TypeOK
    /\ gil \in Thread \cup {None}
    /\ overtaken \in [Thread -> Nat]

\* A wrapper that keeps the GIL returns, and with it the interpreter goes on:
\* close() or a destructor that waits for g_api_mutex is neither deadlocked with
\* the owner of the mutex nor overtaken for ever. ApiHandle cannot promise this,
\* since std::mutex is not fair; here whoever could overtake needs the GIL first.
HeldCallsReturn == \A t \in Thread : Held /\ gil = t ~> pc[t] = "idle"

\* How long that can take: each other thread takes the mutex at most twice
\* meanwhile, the constructor that fails and releases again being the worst case.
BoundedOvertaking == Held => \A t \in Thread : overtaken[t] <= 2

=============================================================================
