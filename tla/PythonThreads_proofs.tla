------------------------ MODULE PythonThreads_proofs ------------------------
(***************************************************************************)
(* Proofs about PythonThreads: it only restricts ApiHandle, so everything  *)
(* proved of the count and the handles holds for Python threads, and a     *)
(* call that keeps the GIL is overtaken at most twice by each thread.      *)
(***************************************************************************)
EXTENDS PythonThreads, ApiHandle_proofs

-----------------------------------------------------------------------------
(* How often a thread can still take g_api_mutex in its operation. *)

TakesLeft(t) ==
    IF pc[t] = "acquire_lock" THEN 2
    ELSE IF pc[t] \in {"initialize", "count", "ctor_read", "ctor_probe", "create",
                       "copy_flag", "copy_lock", "destroy", "release",
                       "release_lock"} THEN 1
    ELSE 0

PyTypes == gil \in Thread \cup {None} /\ overtaken \in [Thread -> Nat]

PyInv ==
    /\ PyTypes
    /\ Held => \A t \in Thread : t # gil => overtaken[t] + TakesLeft(t) <= 2
    /\ ~Held => \A t \in Thread : overtaken[t] = 0
    /\ Held => overtaken[gil] = 0

LEMMA TakesLeftBounds ==
    ASSUME NEW t \in Thread
    PROVE  TakesLeft(t) \in 0 .. 2 /\ TakesLeft(t)' \in 0 .. 2
  BY DEF TakesLeft

\* A thread between two calls takes no step, and the others keep their place.
\* Who takes the mutex has one take less before it, and no step adds one.
LEMMA StepCountsDown ==
    ASSUME TypeOK, NEW t \in Thread, Step(t)
    PROVE  /\ pc[t] # "idle"
           /\ pc' \in [Thread -> PC]
           /\ \A u \in Thread : u # t => pc'[u] = pc[u]
           /\ TakesLeft(t)' <= TakesLeft(t)
           /\ g_api_mutex # t /\ g_api_mutex' = t => TakesLeft(t)' + 1 <= TakesLeft(t)
<1> USE ApiAssumption DEF TypeOK, PC, TakesLeft, Goto, Finish, global
<1>1. CASE AcquireLock(t) \/ CopyLock(t) \/ ReleaseLock(t)
  BY <1>1 DEF AcquireLock, CopyLock, ReleaseLock, Lock, FirstUser
<1>2. CASE InitializeOk(t) \/ InitializeFail(t) \/ AcquireCount(t) \/ CopyCount(t)
  BY <1>2 DEF InitializeOk, InitializeFail, AcquireCount, CopyCount, Unlock
<1>3. CASE CtorRead(t) \/ CtorProbe(t) \/ CreateInterface(t) \/ CopyFlag(t)
  BY <1>3 DEF CtorRead, CtorProbe, CreateInterface, CopyFlag
<1>4. CASE Identify(t) \/ Return(t) \/ DestroyInterface(t) \/ Release(t)
  BY <1>4 DEF Identify, Return, DestroyInterface, Release
<1>5. CASE ReleaseCount(t) \/ Shutdown(t)
  BY <1>5 DEF ReleaseCount, Shutdown, Unlock, LastUser
<1> QED
  BY <1>1, <1>2, <1>3, <1>4, <1>5 DEF Step

\* An operation begins in a thread that is idle, and moves nobody else.
LEMMA BeginFromIdle ==
    ASSUME TypeOK, NEW t \in Thread, Begin(t)
    PROVE  /\ pc[t] = "idle"
           /\ \A u \in Thread : u # t => pc'[u] = pc[u]
  BY DEF TypeOK, Begin, Construct, UseManager, DestroyManager, UseInstance, Close,
     Attach, Goto

LEMMA CallsBegin ==
    ASSUME NEW t \in Thread, CallReleased(t) \/ CallHeld(t)
    PROVE  Begin(t) /\ gil = t /\ gil' \in {t, None} /\ UNCHANGED overtaken
  BY DEF CallReleased, CallHeld, Caller, Begin

-----------------------------------------------------------------------------

\* Python threads are threads of ApiHandle: no wrapper does what the C++ library
\* does not, so all that is proved of the library holds under the interpreter.
THEOREM PythonThreadsAreThreads == PySpec => Spec
<1>1. PyInit => Init
  BY DEF PyInit
<1>2. [PyNext]_pyvars => [Next]_vars
  <2>1. ASSUME NEW t \in Thread,
               TakeGil(t) \/ DropGil(t) \/ CallReleased(t) \/ CallHeld(t) \/ NativeStep(t)
        PROVE  [Next]_vars
    BY <2>1, CallsBegin DEF TakeGil, DropGil, NativeStep, Next
  <2> QED
    BY <2>1 DEF PyNext, pyvars
<1> QED
  BY <1>1, <1>2, PTL DEF PySpec, Spec

LEMMA PyInitInv == PyInit => PyInv
  BY ApiAssumption DEF PyInit, PyInv, PyTypes, Held

LEMMA CallKeeps ==
    ASSUME TypeOK, PyInv, NEW t \in Thread, CallReleased(t) \/ CallHeld(t)
    PROVE  PyInv'
<1>1. ~Held /\ \A u \in Thread : overtaken[u] = 0
  BY CallsBegin, BeginFromIdle DEF PyInv, Held
<1>2. UNCHANGED overtaken /\ gil' \in {t, None}
  BY CallsBegin
<1>3. PyTypes' /\ \A u \in Thread : overtaken'[u] = 0
  BY <1>1, <1>2 DEF PyInv, PyTypes
<1>4. \A u \in Thread : TakesLeft(u)' \in 0 .. 2
  BY TakesLeftBounds
<1>5. Held' => gil' \in Thread
  BY <1>3 DEF Held, PyTypes
<1> QED
  BY <1>3, <1>4, <1>5 DEF PyInv

LEMMA NativeStepKeeps ==
    ASSUME TypeOK, PyInv, NEW t \in Thread, NativeStep(t)
    PROVE  PyInv'
<1>1. Step(t) /\ UNCHANGED gil
  BY DEF NativeStep
<1>2. \A u \in Thread :
          overtaken'[u] = IF ~Held' THEN 0
                          ELSE overtaken[u] + (IF u = t /\ Overtakes(t) THEN 1 ELSE 0)
  BY DEF NativeStep
<1>3. PyTypes'
  BY <1>1 DEF NativeStep, PyInv, PyTypes
<1>4. \A u \in Thread : overtaken[u] \in Nat
  BY DEF PyInv, PyTypes
<1>5. ASSUME Held'
      PROVE  Held /\ gil \in Thread
  <2>1. gil \in Thread /\ pc'[gil] # "idle"
    BY <1>1, <1>5 DEF Held, PyInv, PyTypes
  <2>2. pc[gil] # "idle"
    BY <1>1, <2>1, StepCountsDown
  <2> QED
    BY <2>1, <2>2, ApiAssumption DEF Held
<1>6. ASSUME Held', NEW u \in Thread, u # gil
      PROVE  overtaken'[u] + TakesLeft(u)' <= 2
  <2>1. overtaken[u] + TakesLeft(u) <= 2
    BY <1>5, <1>6 DEF PyInv
  <2>2. TakesLeft(u) \in 0 .. 2 /\ TakesLeft(u)' \in 0 .. 2
    BY TakesLeftBounds
  <2>3. CASE u # t
    <3>1. TakesLeft(u)' = TakesLeft(u)
      BY <1>1, <2>3, StepCountsDown DEF TakesLeft
    <3> QED
      BY <1>2, <1>4, <1>6, <2>1, <2>2, <2>3, <3>1
  <2>4. CASE u = t
    <3>1. /\ TakesLeft(u)' <= TakesLeft(u)
          /\ Overtakes(t) => TakesLeft(u)' + 1 <= TakesLeft(u)
      BY <1>1, <2>4, StepCountsDown DEF Overtakes
    <3> QED
      BY <1>2, <1>4, <1>6, <2>1, <2>2, <2>4, <3>1
  <2> QED
    BY <2>3, <2>4
<1>7. Held' => overtaken'[gil] = 0
  BY <1>2, <1>4, <1>5 DEF PyInv, Overtakes
<1> QED
  BY <1>1, <1>2, <1>3, <1>6, <1>7 DEF PyInv

\* The strengthening of BoundedOvertaking that every step preserves.
THEOREM PyInvariant == PySpec => []PyInv
<1>1. TypeOK /\ PyInv /\ [PyNext]_pyvars => PyInv'
  <2> SUFFICES ASSUME TypeOK, PyInv, [PyNext]_pyvars
               PROVE  PyInv'
    OBVIOUS
  <2>1. ASSUME NEW t \in Thread, TakeGil(t) \/ DropGil(t)
        PROVE  PyInv'
    <3>1. ~Held /\ ~Held'
      BY <2>1, ApiAssumption DEF TakeGil, DropGil, Held, vars
    <3> QED
      BY <2>1, <3>1 DEF TakeGil, DropGil, PyInv, PyTypes
  <2>2. CASE UNCHANGED pyvars
    BY <2>2 DEF pyvars, vars, PyInv, PyTypes, Held, TakesLeft
  <2> QED
    BY <2>1, <2>2, CallKeeps, NativeStepKeeps DEF PyNext
<1> QED
  BY PyInitInv, <1>1, PythonThreadsAreThreads, TypeCorrect, PTL DEF PySpec

\* close() and the other wrappers that keep the GIL wait for g_api_mutex for at
\* most two turns of every other thread, for any number of threads and objects.
THEOREM OvertakingIsBounded == PySpec => []BoundedOvertaking
<1>1. PyInv => BoundedOvertaking
  <2> SUFFICES ASSUME PyInv, Held, NEW t \in Thread
               PROVE  overtaken[t] <= 2
    BY DEF BoundedOvertaking
  <2>1. TakesLeft(t) \in 0 .. 2 /\ overtaken[t] \in Nat
    BY TakesLeftBounds DEF PyInv, PyTypes
  <2> QED
    BY <2>1 DEF PyInv
<1> QED
  BY PyInvariant, <1>1, PTL

\* Type correctness.
THEOREM PyTypeCorrect == PySpec => []PyTypeOK
<1>1. TypeOK /\ PyInv => PyTypeOK
  BY DEF PyInv, PyTypes, PyTypeOK
<1> QED
  BY PyInvariant, PythonThreadsAreThreads, TypeCorrect, <1>1, PTL

-----------------------------------------------------------------------------
(* Why a wrapper that keeps the GIL returns. *)

\* While a call keeps the GIL, whatever happens in the process is one thread coming
\* nearer to the end of its operation: none begins, for who would call needs the GIL.
HeldCallsRunDown ==
    [][Held => \E t \in Thread :
          /\ StepsLeft(t)' < StepsLeft(t)
          /\ \A u \in Thread \ {t} : StepsLeft(u)' = StepsLeft(u)]_pyvars

\* With at most nine steps left for each thread (OperationsAreFinite), a wrapper that
\* keeps the GIL has returned after nine steps for each thread of the process, however the
\* mutex chooses among those who wait.
THEOREM HeldCallsAreFinite == PySpec => HeldCallsRunDown
<1>1. ASSUME TypeOK, [PyNext]_pyvars, Held
      PROVE  \/ \E t \in Thread : /\ StepsLeft(t)' < StepsLeft(t)
                                  /\ \A u \in Thread \ {t} : StepsLeft(u)' = StepsLeft(u)
             \/ UNCHANGED pyvars
  <2>1. ASSUME NEW t \in Thread
        PROVE  ~(TakeGil(t) \/ DropGil(t) \/ CallReleased(t) \/ CallHeld(t))
    <3>1. ~(TakeGil(t) \/ DropGil(t))
      BY <1>1, ApiAssumption DEF Held, TakeGil, DropGil
    <3>2. ~(CallReleased(t) \/ CallHeld(t))
      BY <1>1, CallsBegin, BeginFromIdle DEF Held
    <3> QED
      BY <3>1, <3>2
  <2>2. ASSUME NEW t \in Thread, NativeStep(t)
        PROVE  /\ StepsLeft(t)' < StepsLeft(t)
               /\ \A u \in Thread \ {t} : StepsLeft(u)' = StepsLeft(u)
    <3>1. Step(t) /\ StepsLeft(t)' < StepsLeft(t)
      BY <1>1, <2>2, StepLeadsOn DEF NativeStep
    <3>2. ASSUME NEW u \in Thread \ {t}
          PROVE  StepsLeft(u)' = StepsLeft(u)
      BY <1>1, <3>1, <3>2, OthersUntouched DEF StepsLeft
    <3> QED
      BY <3>1, <3>2
  <2> QED
    BY <1>1, <2>1, <2>2 DEF PyNext
<1>2. TypeOK /\ [PyNext]_pyvars
        => [Held => \E t \in Thread :
                /\ StepsLeft(t)' < StepsLeft(t)
                /\ \A u \in Thread \ {t} : StepsLeft(u)' = StepsLeft(u)]_pyvars
  BY <1>1
<1> QED
  BY PythonThreadsAreThreads, TypeCorrect, <1>2, PTL DEF PySpec, HeldCallsRunDown

=============================================================================
