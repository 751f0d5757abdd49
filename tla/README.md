# plcsim_connector in TLA+

This directory is a formal model of `plcsim_connector`, the C++20 library and
Python package that let a simulator read and write the process image of a PLC
simulated by Siemens S7-PLCSIM Advanced. It states what the code promises,
model-checks it with TLC on small instances, and proves most of the safety
properties with TLAPS for every value of the constants: the lifetime of the
process-wide Siemens API, that lifetime under Python's interpreter lock, the
reconnecting client, the deadline of the wait, the listing and the command line
over it, the handle of one instance, and the Webots controller.

Line numbers are those of the repository; paths are relative to its root, and
`__init__.py`, `__main__.py` and `module.cpp` are those of `bindings/python`.

## 1. Inventory

### Components

| Component | Where | State it keeps | Operations |
|---|---|---|---|
| API lifetime | `src/SdkBridge.cpp` 263-376 | `g_api_mutex`, `g_api_refcount`, `g_api_manager`, the loaded DLL; `owns_` of every `ApiHandle` | `acquire`, copy, move, `release`, `manager` |
| RuntimeManager | `src/SdkBridge.cpp` 545-720, `RuntimeManager.hpp` | one `ApiHandle` | constructor, `isRuntimeManagerAvailable`, `registeredInstances`, `version`, `attach` by name or id, `tryAttach` |
| Instance | `src/SdkBridge.cpp` 378-543, `Instance.hpp` | `raw`, one `ApiHandle`, `interface_removed`, `area_sizes` | `setAddressBit`/`getAddressBit`, `writeBit`/`readBit`, `areaSize`, `operatingState`, `run`, `stop`, `isConnected`, `close` |
| Errors | `src/Error.cpp`, `classify()` and `check()` of `SdkBridge.cpp`, exception types of `module.cpp` | none | code to kind, kind to "retryable", kind to exception type |
| Address parser | `src/Address.cpp` | none | `parse_bit_address`, `to_string` |
| Enumerations | `src/Types.cpp` | none | names of areas and states |
| Python bindings | `bindings/python/module.cpp` | the GIL, the exception registry | one wrapper per native call, with or without the GIL |
| `wait_for_instance` | `bindings/python/plcsim_connector/__init__.py` 230-271 | locals `rt`, `deadline` | the blocking wait |
| `ReconnectingInstance` | same file, 274-450 | `_runtime`, `_instance` | `connect`, `poll_connect`, `is_connected`, I/O through `_call`, `operating_state`, `close` |
| DLL search | same file, 51-177 | the cached directory | the candidates, `RuntimeManager.__init__`, the report |
| Command line | `bindings/python/plcsim_connector/__main__.py` | the rows of the list | list, attach to each, print |
| Webots controller | `examples/webots/di_do_controller.py` | the motor, one `ReconnectingInstance` | startup loop, simulation loop, hook |
| C++ demo, Win32 diagnostics, build files, tests | `examples/cpp/`, `SdkBridge.cpp` 38-72 and 146-239, `CMakeLists.txt`, `tests/` | - | - |

Outside the repository: the Siemens API DLL, the Runtime Manager ("Control
Panel"), and the simulated PLC. They are modelled from the way the bridge uses
them.

### How they interact

    Webots controller / script / command line
      |  calls                                 one Python thread per object
    ReconnectingInstance ---> wait_for_instance ---> DLL search     (Python)
      |  RuntimeManager(), try_attach(), I/O             GIL released, or kept
    RuntimeManager ---attach---> Instance                (C++, many threads)
      \___ ApiHandle __________ ApiHandle ___/           shared count + mutex
                     |
          InitializeApi / ShutdownAndFreeApi, one manager pointer per process
                     |
          Runtime Manager, PLC              come and go at any moment

A `RuntimeManager` and each `Instance` made by it hold an `ApiHandle` of their
own; the handles share one reference count. Only the first handle of the process
initialises the DLL, only the last frees it. That one decision couples every
object of the process: as long as any handle lives, all new ones share the
session of the first one, also after the Runtime Manager has been restarted.

### What is hard

* Threads: the count is guarded by a mutex, but `owns_` and `g_api_manager` are
  read outside it, and SDK calls run outside it.
* Objects that hold each other: an interface must be destroyed before the DLL is
  freed, on every path, including a constructor that throws and an `attach()`
  that fails half way.
* Two locks: some wrappers keep the interpreter lock while they wait for
  `g_api_mutex`, whose owner may be inside a slow SDK call.
* The world moves between two native calls of one operation: count and query,
  size and access, attach and I/O, failure and retry.
* Cached facts: the session, `interface_removed`, area sizes, the directory of
  the DLL.
* Callbacks: the hook of a reconnect writes to the same input as the call that
  had to reconnect, and may fail like it.
* Failure classification decides what is retried, and it is written down in three
  places.
* Reconnection: bounded work in a simulation step on the one hand, eventual
  recovery of all clients of a process on the other.
* Deadlines: the time calls take against the deadline of the wait.

PROJECT.json lists each of these as hazards at the line where they bite, with the
properties that answer them, and a note where no property does or only a part is covered.

### What makes each component correct

| Component | Correct means |
|---|---|
| API lifetime | the count counts the owners (`RefcountExact`); owners and calls in flight see a live DLL (`OwnersHaveLiveApi`, `CallsReachLiveApi`); no interface outlives its session (`NoInterfaceOutlivesApi`); nothing leaks (`NothingLeaks`); no initialisation inside a session (`InitOnlyWhenFree`); operations complete (`OperationsComplete`); all of it implements the abstract promise (`ImplementsSession`) |
| RuntimeManager | a listing holds nothing that was not there (`NoGhosts`), it is a snapshot while nothing leaves (`SnapshotWhileNothingLeaves`), and nothing but a bad name is fatal (`OnlyBadNamesAreFatal`) |
| Instance | dead stays dead (`FalseIsFinal`), alive is not called removed (`RemovedMeansGone`), only offsets outside the area are fatal and they are caught locally (`OnlyBadOffsetsAreFatal`, `OutOfRangeIsLocal`) |
| Errors | the C++ and the Python classification agree (`PythonAgrees`) |
| Address parser | accepts the documented grammar, with the right values, and nothing else (`ParserMeetsGrammar`); round trip (`RoundTrip`); rejections explain themselves (`ExplainsUnsupported`) |
| Python bindings | a wrapper that keeps the GIL returns (`HeldCallsReturn`), after a bounded number of others (`BoundedOvertaking`) |
| `wait_for_instance` | gives up on time and not before a last attempt (`GivesUpOnTime`), ends (`Ends`, `EndsOnceRegistered`), and does not retry what no retry will cure (`MissingInstallationEndsWait`) |
| DLL search | never a new way to fail (`SearchIsImprovement`) |
| Command line | a line for every instance of its list, whatever vanishes meanwhile (`VanishingCostsALine`) |
| Webots controller | once in its loop, only a fatal error ends it (`SurvivesInLoop`); no wheel turns on an old answer (`WheelNeedsPlc`); the hook never undoes a write (`WriteOutlivesHook`); it talks to the PLC again (`StepsSucceedAgain`) |
| `ReconnectingInstance` | bounded work per call (`BoundedWork`), hook first (`HookBeforeIo`), retry through a fresh handle (`RetryOnFreshInstance`), fatal errors untouched (`FatalEndsCall`), handles of one session (`InstanceBelongsToSession`), never blocks (`NeverBlocks`), recovers (`Recovers`); all of it implements the caller's view (`ImplementsReconnection`) |

## 2. The modules and the code

### ApiHandle, ApiSession, ApiHandle_proofs

`ApiHandle` models the lock-guarded count with any number of threads. Each thread
has a program counter; an operation is cut where another thread can get in
between: at the mutex, at each unlocked read, around each SDK call.

| Code | Action |
|---|---|
| `RuntimeManager()` | `Construct`, `AcquireLock`, `InitializeOk` / `InitializeFail`, `AcquireCount`, `CtorRead`, `CtorProbe` |
| `attach()` | `Attach`, `CreateInterface`, `CopyFlag`, `CopyLock`, `CopyCount`, `Identify`; or `Return` from the listing for the message |
| queries | `UseManager` / `UseInstance`, `Return` |
| `close()`, `~Instance()` | `Close`, `DestroyInterface`, `Release`, ... |
| `~RuntimeManager()` | `DestroyManager`, `Release`, ... |
| `release()` | `Release` (clears `owns_`), `ReleaseLock`, `ReleaseCount`, `Shutdown` |

SDK pointers are represented by the session they belong to (0 for null), so "the
pointer is good" is `ptr = sdk`. What the callers must observe is taken from the
headers: an `Instance` is used by one thread at a time, a `RuntimeManager` by any
number, no object is destroyed while one of its member functions runs. The
guards `Unused` state exactly this. Moving a handle hands `owns_` over without
touching the count; the owner keeps its identity in the model, so it is no action.

`ApiSession` is the abstract specification: sessions, users and open interfaces,
without threads, mutex or count. `ApiHandle` implements it with
`session <- sdk, users <- Owners, open <- raw`.

### PythonThreads, PythonThreads_proofs

`ApiHandle` again, by Python threads: a thread begins an operation only with the
GIL. `CallReleased` is a wrapper that releases it around the native call
(`module.cpp` 182-207 and 235-261: the constructor, the attach calls, the listing,
bit accesses, sizes, run, stop), `CallHeld` one that keeps it (209-224, 243, 263-266:
`operating_state`, `is_connected`, `close`, `__exit__`, the availability check,
`version`, and the deallocation of both objects). `NativeStep` is a step of `ApiHandle`,
which needs no GIL. The variable `overtaken` exists for one property: how often each other
thread has taken `g_api_mutex` since the GIL holder began its call.

### Simulation

The world outside: the Runtime Manager starts and stops (`epoch` counts the
stops), the PLC is registered and unregistered (`made` numbers the
registrations), switched on and off. `bound` is the run of the Runtime Manager for
which the process-wide pointer was initialised; the pointer answers only while
that run lasts ("A dropped Runtime Manager invalidates the manager handle too",
`__init__.py:356`). Shared by the modules below. Errors an SDK may answer at
any time are the constant `Faults`.

### ReconnectingInstance, Reconnection, ReconnectingInstance_proofs

One action per native call of the class, any number of objects in one process,
one thread each or, with `Serial`, one thread for all.

| Code | Action |
|---|---|
| entry of a method | `Begin` |
| `poll_connect()`/`connect()`: connected? else `_drop()` | `Check` |
| `RuntimeManager(...)` | `Build`, `Probe` |
| `_drop()` | `Drop`, of `Forget` and the release of the Runtime Manager, inside `Check`, `Close` and `Reattach` |
| `try_attach()`, `_attached()`, `on_reconnect` | `TryAttach` with `Attached`, `Hook` |
| `wait_for_instance(runtime=...)` inside `connect()` | `TryAttach`, `Sleep` |
| `_call()`: I/O, one retry after `_drop()` | `Io` with `Retries` and `Reattach`, `CallMethod` once attached |
| `operating_state` | `State` |
| `close()` | `Close` |

`run`, `stop`, `area_size`, `setAddressBit` and `getAddressBit` are all `_call`
with another method name and are one operation, "call". What the hook raises is the
constant `HookErrors`; `builds`, `attaches` and `ios` count the work of an
operation. Whether the API is in use
is computed from the handles the objects hold (`ApiInUse`); that the C++ count is
that number is `RefcountExact`, checked and proved in `ApiHandle`.

`Reconnection` is the abstract specification: the link of each object, "none", "new"
until the hook has been called, then "ready", the operation under way and how the last one
ended, without Runtime Manager, session or PLC, and without the other objects. A link
changes inside operations only (`Relink`, `End`); `Succeed`, `GiveUp`, `Unavailable`
and `Fail` say what each way to end an operation tells of the link. `ReconnectingInstance`
implements it with `link <- Link`, computed from `inst` and `hooked`, and `busy <- pc # "idle"`.
It is not the world that is promised: a "ready" link may be to a PLC that is gone.

### SimulationLoop

The Webots controller over one `ReconnectingInstance`, whose actions are used
unchanged except that the hook is the controller's.

| Code | Action |
|---|---|
| the startup loop (63-65) | `PollConnect`, `PollReturns` |
| `robot.step()`, `setAddressBit()` or `close()` (67-70, 85) | `RobotStep` |
| `getAddressBit()`, `setVelocity()` (73-75) | `SetReturns`, `GetReturns` |
| `except RetryableError` / `except PlcSimError` (77-83) | `CallRaises` |
| `on_reconnect()` (34-43) | `OnReconnect`: its write goes past the wrapper |

`input` is the one bit of the process image the program depends on: what the hook
and `setAddressBit()` have written, "lost" once the PLC was switched or replaced. A
write that fails while the PLC is there may have been carried out.

### DllSearch

Where the DLL is looked for, on a machine whose installation may change: the
directory the registry names, the default one, the application's folder with the
right DLL or a stale copy. `AutodetectApiDllDir` is the search with its cache,
`DirFor` what `RuntimeManager.__init__` hands down, `LoadCode` what
`InitializeApi()` answers with that directory, or on its own if there is none.

### WaitForInstance

The loop of `wait_for_instance()` with its clock (only advanced when there is a
timeout) and the local `rt` that survives from round to round: `Construct` (with
the search for the DLL) and `Probe` are `RuntimeManager()`, `UseGiven` the caller's
`runtime`; then `TryAttach`, then `Deadline`, the test between an attempt and the
sleep. Which errors are waited out is `Tolerated`, through the kinds and exception
types of `Errors`. `given`, `explicit` and `limited` are the arguments `runtime`,
`api_dll_dir` and `timeout`, chosen in `Init`.

### InstanceHandle

One `Instance` from `attach()` to `close()` and beyond: the cached sizes, the
sticky flag, every operation with its early returns, against a PLC that is
stopped, reconfigured (`Download`), removed and registered again. An operation by
address is two actions (`AddressBit`, `FinishAddressBit`), because it is two SDK
calls. Uses `Errors` for what an operation reports.

### Errors

The tables of `classify()`, `is_retryable()` and the exception types, with
`CaughtAsRetryable` following the Python class hierarchy.

### Discovery

The loop of `registeredInstances()`, one SDK call per action, and `attach()` and
`tryAttach()`, which run it for their message, while the list changes.

### CommandLine

`main()` of the command line as a client of `Discovery`: it lists (`Start`,
`ListReturns`), attaches to each row by name (`AttachReturns`), asks for state and
sizes (`Details`) and prints a line (`PrintLine`), or ends. `Except` is the one
`except` clause of its loop. Until it starts, any program may use the operations
of `Discovery`, so that the run of both covers either.

### AddressParser, AddressParser_proofs

`parse_bit_address()` as an operator with the tests in the order of the code and
`read_number()` in unsigned arithmetic of a given width: one round of its loop is
`Take`, and the loop a recursive function over the positions. The grammar it is compared
with is written independently, as the set of all spellings (`Body` and `Text` lay one
out).

## 3. The runs

All runs finish within two minutes or so on two workers; state counts are of distinct
states.

| Run | What it shows | Bounds, and why they are enough |
|---|---|---|
| `ApiHandle` | every safety property of the API lifetime, `InitOnlyWhenFree`, `ImplementsSession`, `OperationsComplete` | 3 threads, 2 managers, 2 instances, 2 sessions, no symmetry, because of the liveness formula; 235,657 states. Two releases that overlap an acquire need three threads; a session that is started again after a shutdown needs two sessions; a handle that outlives the manager it was copied from needs one of each, and a second of each covers sharing |
| `PythonThreads` | `BoundedOvertaking`, `HeldCallsReturn` | 3 threads, so that one waits with the GIL, one owns the mutex and one could overtake; 2 managers, 1 instance, 2 sessions; 76,900 states |
| `ReconnectingInstance_safety` | what holds of clients on threads of their own, with faults of both kinds, a hook that may raise, and all operations; `ImplementsReconnection` | 2 clients, symmetric, 1 restart of the Runtime Manager, 2 registrations; 1,771,294 states. One restart separates "the session of before" from "of now"; two registrations separate the instance attached from the one that runs. `ImplementsReconnection` speaks of single steps and of all clients alike, so the symmetry is sound for it |
| `ReconnectingInstance_liveness` | `NeverBlocks`, `Recovers` | 2 clients served by one thread, no faults that come and go for ever; 202,562 states |
| `SimulationLoop` | the properties of the controller | one client, 2 restarts and 3 registrations, so that the retry of a call can itself meet a replaced PLC; faults of both kinds; started with and without the Control Panel; 48,946 states |
| `WaitForInstance` | `GivesUpOnTime`, `MissingInstallationEndsWait`, `SearchIsImprovement`, `Ends`, `EndsOnceRegistered` | all combinations of the arguments; timeout 5, interval 2, calls up to 1, so that the deadline falls on, before and after the end of a round; five kinds of machine and one change between them, a build with and without a version; 1 restart; 143,540 states |
| `InstanceHandle` | the properties of a handle and `PythonAgrees` | 2 areas of 1 or 2 bytes and offsets up to 2 (inside, last byte, one past, far past); 1 restart, 2 registrations, 1 download; four codes, two of them not retryable, that any call may answer; 113,140 states |
| `Discovery` | the properties of the loop, of attach and of the command line | 3 names and one the SDK refuses, 4 registrations, so that a list of 3 can shrink under the loop and grow again; 2,249,548 states |
| `AddressParser` | the parser against the grammar | every string of up to 6 characters over 10, one for each branch of the parser, with a six-bit unsigned type so that two digits reach overflow; 1,111,111 states |
| `WaitForInstance_restart` | finding 1 | |
| `InstanceHandle_stale_size` | finding 2 | |
| `SimulationLoop_dies` | finding 3 | |

Deadlock is checked except in modules whose program really stops: the parser at the
bound on the length, the command line after its exit, the wait and the controller
once they have returned or died.

### Fairness

* `ApiHandle`: weak fairness of every thread's `Step`, the rest of an operation
  that has begun. It says that threads are scheduled and SDK calls return. It does
  not say that a waiting thread ever gets the mutex while others keep taking it:
  `std::mutex` does not promise that. `OperationsComplete` is therefore about
  runs in which no new operation begins from some moment on.
* `PythonThreads`: weak fairness of every thread's `NativeStep` and nothing else,
  neither of the mutex nor of the GIL. `HeldCallsReturn` holds all the same, for
  every call: whoever could overtake needs the GIL first to begin an operation.
* `ReconnectingInstance`: weak fairness of every client's `Step`; strong fairness
  of `Begin`, because with one thread for all clients it is disabled while another
  is served. The loop of the simulation serves its clients in turn. Which
  method the loop calls is not constrained. The premise of `Recovers` (`Ready`
  from some moment on) is about the world, not the code.
* `SimulationLoop`: weak fairness of the one thread's next step. `StepsSucceedAgain` has
  the premises that the world is `Ready` for good and that calls on a PLC that is
  there no longer fail for no reason (`SdkWorks`).
* `WaitForInstance`: weak fairness of the round. `EndsOnceRegistered` has three
  premises on the world: the Runtime Manager and the instance stay, the Runtime
  Manager has not been restarted (finding 1 says why), and the SDK stops failing
  without a reason (`SdkWorks`).

`Recovers` is checked with one thread. With a thread per client it does not hold:
after a Runtime Manager restart the dead session ends only at a moment when no
handle lives, and two clients whose constructors overlap keep it alive for each
other for ever. With one thread a client whose attempt has failed holds nothing
when its call ends, and the next one drops its own handles before it constructs:
the last one to fail initialises the API anew. Webots controllers, the use the
class is documented for, have one thread.

## 4. What is proved

Every proof holds for all values of the constants: any finite sets of threads,
managers, instances and clients, any bounds. The assumptions are the named `ASSUME`s
of the modules, which say of what kind each constant is and which TLC evaluates in the
runs, and two premises about the SDK, stated in the theorems that need them.

**`ApiHandle_proofs`.** The safety properties are not inductive. `RefcountExact` alone
says nothing of who is about to release; a thread that stands before the decrement must
be known to have given up a handle, the mutex must be known to be held by exactly
the thread in a critical section, and an interface must be known to be
covered by an owner. `IndInv` adds this: per thread, the object it works on, and
whether its handle owns the API (`ThreadInv`); no two threads on one object
(`Exclusive`); every live manager owns, every owner is live or being worked on,
every interface is covered (`OwnershipInv`); and session, pointer and count agree,
the exceptions being the two places inside the critical sections (`SessionInv`).
There is one lemma per action, and in it one step per conjunct. Cardinalities
are confined to four lemmas on how an acquire, a copy, a release and a decrement
change `Owners` and `Leaving`. `FreeMeansQuiet` is the heart: a count of zero
means no owner, no interface and no call in flight on any thread, which is what
makes `Shutdown` safe.

**`PythonThreads_proofs`.** `PySpec => Spec`, so that all of the above holds under the
GIL too. For the bound, `PyInv` relates what a thread has done to what it still can:
`TakesLeft(t)` is how often the operation it is in may yet take the mutex (at most two, for
the constructor that fails), and `overtaken[t] + TakesLeft(t) <= 2` while somebody
else is inside with the GIL, since no new operation can begin meanwhile.

**`ReconnectingInstance_proofs`.** `RIInv` is `TypeOK` with three parts, per client: which
place follows which (`Place`: where there is an instance, a manager, a hook that has
run), what has been spent at each place (`Cost`), and what the process-wide session
owes to the handles (`Session`: an instance of the present PLC was attached in the
present run). `BoundedWork` needs `Cost` because at the second reconnect the counters
already stand at one; `InstanceBelongsToSession` needs `Session` because any client may be the
one that rebinds. For the refinement, each action is shown to be one step of
`Reconnection` or a stutter, by way of four lemmas on how a step looks from outside
(`OneLinkMoves`, `GotoStutters`, `GotoRelinks`, `FinishEnds`); it needs `Place`, which
says where in an operation a link can be new, ready or missing.

**`SimulationLoop_proofs`.** Every step of the controller is a step of a client, so
`RIInv` holds of it (`ControllerIsClient`). `LoopInv` adds which call `main()` is in
(`Program`), what a call by address can have returned and that success means an
instance is held (`CallResult`), that the hook runs only in a call that has attached
(`HookAfterAttach`), and that a write stands at the moment it has returned (`Written`):
the argument for `WriteOutlivesHook` is that from there only a hook can clear the bit.

**`WaitForInstance_proofs`.** `GivesUpOnTime` speaks of the end; the invariant says for
every place how late the clock can be there (`Latest`), which is the argument that a
round begun before the deadline ends at most an interval and two calls after it. Of the
search, `CacheFresh` says that the cache holds what a search would find, until the
installation changes; a directory that was found holds the DLL (`FoundDirLoads`), and
no failure to load it is of a kind Python waits out (`LoadFailureIsFinal`).

**`Discovery_proofs`.** `DiscoveryInv`: what the loop has collected was registered
during the call (`Seen`), and as long as nothing has left, it is a prefix of the list at the
count (`Snapshot`). The command line is proved to do only what `Discovery` allows
(`MainPlace` relates its rows and lines to the operation it is in).

**`InstanceHandle_proofs`.** `HandleInv`: types; the session of the handle and what a
restart does to it (`Session`); a cached size is the size of the area, until a
download (`Sizes`); and a pending access by address has passed its check
(`Pending`). Two properties need more: that the registration of a handle marked
removed is gone and stays gone (`GoneForGood`), and whose fault the last error was
(`Blameless`).

**`AddressParser_proofs`.** The parser is a function, and what is proved of it is in two
directions, for texts of any length and every width of the unsigned type: a spelled
address is parsed to its value (`SpelledIsParsed`), and a text that is accepted is
spelled so (`AcceptedIsSpelled`). The bound on the length belongs to the run alone.
The first direction reads a laid-out spelling (`BodyShape` says which character is where), the
second cuts an accepted text into its parts; both rest on `ReadsNumeral`:
`read_number()` succeeds exactly if the digits at its position are a numeral whose value
fits, and then yields that value and the position behind it. That the guard
against overflow is exact (`GuardIsExact`) makes this true up to the largest `uint32_t`.

TLA+ defines a recursive function by `CHOOSE`, so that it satisfies its equation only if
some function does. The module proves this once, in a form the provers can use:
`Recursion` takes the step as a function of the argument and of the value at the smaller
argument it recurs to, and induction is a statement about least elements of sets of naturals
(`LeastElement`, `NoLeastNoOne`), from the well-foundedness of the naturals. `Value`,
`Decimal` and `ReadNumber` are then shown to obey their equations
(`ValueIsRecursive`, `DecimalIsRecursive`, `ReadNumberIsRecursive`).

**That operations end.** Liveness itself is out of the prover's reach, but what it rests on
besides scheduling is safety, and is proved in each of these modules: a number that counts
what an operation has left (`StepsLeft`, `LoopLeft`, `WaitLeft`, `CallsLeft`) is bounded, and
no step of anybody, in no order and with no failure, raises it or leaves it equal unless the
operation does not move at all. What remains for TLC is that a step can be taken (`ENABLED`)
and is taken (fairness).

* `ApiHandle`: nine steps; and a thread that waits for the mutex waits for one that is in
  the middle of its operation and waits for nothing (`NobodyWaitsInACircle`). Of this
  `OperationsComplete` is made.
* `PythonThreads`: while a call keeps the GIL, every step of the process lowers one thread's
  number and raises nobody's (`HeldCallsAreFinite`), so that the call returns within nine
  steps for each thread, however the mutex chooses: `HeldCallsReturn`.
* `ReconnectingInstance`: eleven steps for a call, six for a method without I/O; only
  `connect()` sleeps: `NeverBlocks`. The one way back, from a failed I/O call to `Check`, is
  paid for by the five that `StepsLeft` adds until the first I/O call.
* For `Recovers`, `DeadSessionsEnd` says how the session of a Runtime Manager that is gone
  comes to its end, for any number of clients and threads: nobody gets hold of anything
  through it, whoever begins an operation lets go with the first step, and it is
  initialised anew only when nobody holds a manager or an instance of it. What can still
  keep it is a constructor under way (section 3), which holds nothing else
  (`ConstructorsStartAfresh`).
* `SimulationLoop`: 24 steps between two calls of `robot.step()`, the two calls by address
  of an iteration included.
* `WaitForInstance`: a round is at most four steps and between two rounds the clock moves
  by the interval, hence four times the time that is left plus the rest of the round
  (`Ends`). For `EndsOnceRegistered`: `ReadyIsEnough`, that a round which meets the Runtime
  Manager of the start and the instance goes on for a passing failure of the SDK only.
* `Discovery`: one step for each entry of the count, and three more. For the command
  line the order is lexicographic: the lines to print, then the calls of the present line
  (`Advances`).

| Theorem | Statement |
|---|---|
| `Invariant` (`ApiHandle_proofs`) | `Spec => []IndInv` |
| `TypeCorrect`, `RefcountIsExact`, `OwnersAreSafe`, `InterfacesAreSafe`, `CallsAreSafe`, `NothingIsLeaked` | the invariants of the run, each from `Invariant` |
| `InitializedWhenFree`, `Refinement` | `InitOnlyWhenFree`; every step is a step of `ApiSession` or a stutter |
| `NobodyWaitsInACircle`, `OperationsAreFinite` (`ApiHandle_proofs`) | no deadlock on the mutex; at most nine steps of its thread to the end of every operation |
| `PythonThreadsAreThreads`, `PyInvariant`, `PyTypeCorrect`, `OvertakingIsBounded` | `PySpec => Spec`; `BoundedOvertaking` |
| `HeldCallsAreFinite` | a call that keeps the GIL returns within nine steps for each thread |
| `Invariant`, `TypeCorrect`, `WorkIsBounded`, `HookComesFirst`, `RetriesAreFresh`, `FatalErrorsEndCalls`, `InstancesBelongToSession` (`ReconnectingInstance_proofs`) | all invariants of the run |
| `LinkRefinement` | every step is a step of `Reconnection` or a stutter |
| `OperationsAreFinite` (`ReconnectingInstance_proofs`) | at most eleven steps of the client to the end of every operation but `connect()` |
| `ConstructorsStartAfresh`, `DeadSessionsEnd` | nobody takes anything of a dead session along, and it only loses clients |
| `LoopInvariant`, `LoopTypeCorrect`, `ControllerSurvivesRestarts`, `WheelFollowsPlc`, `WritesOutliveTheHook`, `ControllerWorkIsBounded` | all safety properties of the controller's run |
| `ControllerNeverFreezes` | at most 24 steps between two calls of `robot.step()` |
| `WaitInvariant`, `WaitTypeCorrect`, `GivingUpIsOnTime` | `GivesUpOnTime`, for every timeout, interval and call time |
| `MissingInstallationIsFinal`, `SearchNeverHurts` | `MissingInstallationEndsWait` and `SearchIsImprovement`, for every set of machines |
| `WaitIsFinite`, `ReadyIsEnough` | with a timeout, boundedly many steps; and once all is there only the SDK's own passing failures keep the wait going |
| `DiscoveryInvariant`, `DiscoveryTypeCorrect`, `ListsNoGhosts`, `ListsTheSnapshot`, `EveryInstanceHasItsLine` | the properties of the list and of the command line |
| `OnlyBadNamesFail` | `OnlyBadNamesAreFatal`, if the SDK's own failures are retryable |
| `QueriesAreFinite`, `TheListingIsFinite` | boundedly many steps of a query, and calls and lines of the command line, however the list changes |
| `HandleInvariant`, `HandleTypeCorrect`, `FalseStaysFalse`, `PythonAlwaysAgrees`, `FatalIsTheCallersMistake` | the invariants of the handle, with any SDK |
| `RemovedIsGone`, `OutOfRangeStaysLocal` | with an SDK that reports an interface as removed, or an offset as outside, only if it is so (`TrustedSdk`) |
| `GuardIsExact`, `TakenDigitsDoNotWrap` | the overflow test refuses a digit exactly if the value would not fit, and a digit that is taken does not wrap |
| `SpelledIsParsed`, `AcceptedIsSpelled` | the parser accepts the documented spellings, of any length, with their values, and nothing else |
| `AddressesRoundTrip` | every bit address, parsed or built by the caller, is printed as a text that parses to it |
| `TypeCorrect`, `ParserAcceptsTheGrammar`, `AcceptedAddressesRoundTrip`, `UnsupportedIsExplained` (`AddressParser_proofs`) | all invariants of the parser's run |

Type correctness is proved, and so not checked again in the runs of those modules;
only `ApiHandle` checks it.

Only model-checked: all liveness (`OperationsComplete`, `HeldCallsReturn`,
`NeverBlocks`, `Recovers`, `StepsSucceedAgain`, `Ends`, `EndsOnceRegistered`), since the
prover has no rule for fairness and `ENABLED`; of all but `StepsSucceedAgain` the safety half
is proved, as said above, and of that one that the controller gets to its next step. Every
safety property that a run checks is proved.

## 5. Findings

Each is a run that TLC refutes with a trace of the code's own steps.

1. **`wait_for_instance()` waits for ever after a restart** (`__init__.py:257`).
   The `rt` of a round is alive while the next `RuntimeManager()` is constructed.
   If the Runtime Manager is restarted after a round has found it up, the count
   never reaches zero, the API is never initialised for the new Runtime Manager,
   and the wait goes on although the instance is registered.
2. **The size is not live** (`SdkBridge.cpp:428`). `README.md:156` speaks of the
   "live area size"; after a download with a larger area, the cached size refuses
   valid offsets with an error that is not retryable.
3. **A PLC that is not up yet ends the controller** (`di_do_controller.py:63`). The
   docstring (line 16) says that it "does not kill or freeze the controller". With a PLC
   that is registered but not in RUN, the poll attaches and the hook's write raises
   `InstanceNotRunning` out of `main()`, the startup loop being outside any `try`.

### Further disagreements

Met while reading or modelling, too small or too close to another one to be a run:

* `poll_connect()` "never raises" (`README.md:219` and 230): `RuntimeManager()`
  raises while the Control Panel is not up (`__init__.py:382`), and so may the hook.
  Finding 3 is a consequence.
* "All instances currently registered" (`module.cpp:248`): if another one is
  unregistered during the loop, the later ones move down one index, and the one that
  moves across the loop's position is skipped (`SdkBridge.cpp:596`).
* `is_connected()` is true until a call fails (`Instance.hpp:75`,
  `SdkBridge.cpp:516`), so a client that only calls `poll_connect()` never
  notices that its PLC was registered anew (`__init__.py:374`). `Recovers` is
  about clients that do I/O.
* `tryAttach()` cannot tell a misspelt name from a PLC that is not there yet; both
  are `nullopt` for ever (`SdkBridge.cpp:707`).
* `connect()` blocks "until it succeeds or times out" (`__init__.py:345`), but
  raises at once when the Control Panel is not up, because it constructs the
  `RuntimeManager` before it waits (`__init__.py:358`).
* After a failed poll the `RuntimeManager` is always rebuilt: `_drop()` clears
  `_runtime`, so the test in line 381 never finds one; with no other handle in
  the process every step of an unconnected loop loads and frees the DLL.
* "At most one non-blocking attach attempt" per I/O call (`__init__.py:295`): the
  retry makes a second one (line 412). `BoundedWork` states two.
* Rebuilding manager and instance (`__init__.py:356`) does not renew the session
  while another object of the process holds a handle.
* An explicit `api_dll_dir` has no effect while the API is already initialised
  (`SdkBridge.cpp:294`).
* The directory found, or that none was found, is remembered for the life of the
  process (`__init__.py:99`): after a reinstallation elsewhere it is a new way to fail, and
  `describe_api_dll_search()` shows no candidate as found.
* The `InstanceNotFoundError` raised in Python (`__init__.py:269`) lacks the
  `.kind` that `README.md:196` gives every exception.
* A closed handle answers `area_size()` from its cache (`SdkBridge.cpp:428`), where
  `Instance.hpp:84` says that operations throw.
* If the listing for the message fails, `attach()` reports that failure and not
  `InstanceNotFound` (`SdkBridge.cpp:652`, `RuntimeManager.hpp:62`).
* A number too large for the byte offset is reported as a missing separator
  (`Address.cpp:145`), and `%DB1...` as an unknown area (`Address.cpp:92`).
* `module.cpp:172` says that the GIL is released around all SDK calls;
  `operating_state`, `is_connected`, `close`, the availability check and `version`
  (lines 209, 213, 216, 243, 263) keep it.
* When `getAddressBit()` has to attach anew, the hook clears the bit that
  `setAddressBit()` has just written in the same step, though it is there to keep
  controller and PLC "from disagreeing" (`di_do_controller.py:39`), until the next step
  writes it again. `WriteOutlivesHook` states the exception.
* A fatal error is raised again with the wheel turning (`di_do_controller.py:83`),
  and the startup loop goes on after `robot.step()` has returned -1 (line 65).
* The command line exits with 0 though every instance was unavailable, and lets errors of
  `registered_instances()` escape as a traceback (`__main__.py:27`).

## 6. What is not modelled

* The values of bits and the process image, but for the one input bit of the
  controller: no property of the code depends on them; the SDK keeps them.
* The texts of messages, except the parser's choice among them;
  `describe_api_dll_search()`, a report of the facts in `DllSearch`.
* `src/Types.cpp` and the conversions of enumerations: tables without control.
* Win32 diagnostics (`SdkBridge.cpp` 38-72 and 146-239): they compose messages.
* The C++ demo: a script of calls. Build files and tests have no run-time behaviour of
  the library; the tests were read for what they say of it.
* Misuse the headers forbid, such as one `Instance` on two threads.
* Allocation failures. Every allocation of the bridge may throw `std::bad_alloc`; where it
  does, the destructors of what has been built so far run, as after any other error,
  except at one point: `std::make_unique` in `attach()` (`SdkBridge.cpp` 660 and 688)
  runs after `CreateInterface()` has succeeded and before anything owns the interface,
  which is lost if it throws. `CopyFlag` has no step for this, and
  `NoInterfaceOutlivesApi` and `NothingLeaks` say nothing of it.
* How long an SDK call takes. A wrapper that keeps the interpreter lock during one stops
  every Python thread for that time; `HeldCallsReturn` says only that it ends.

## 7. Plan

Done, the most important first: API lifetime with its proof; `ReconnectingInstance`;
`wait_for_instance`; the handle and the errors; discovery; the parser; then the
interpreter lock over the lifetime, the DLL search inside the wait, the controller
over the reconnecting client, the command line over discovery, the proofs of their
safety properties, the caller's view of the reconnecting client, the parser's
theorems, and the bounds on every operation. Nothing of the
plan is left; what the project does not cover is listed in section 6.
