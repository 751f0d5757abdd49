------------------------ MODULE ReconnectingInstance ------------------------
(***************************************************************************)
(* The Python class ReconnectingInstance (plcsim_connector/__init__.py),   *)
(* several objects in one process, while the Runtime Manager and the PLC   *)
(* come and go.                                                            *)
(*                                                                         *)
(* One action per native call: the calls release the GIL or run between    *)
(* two bytecodes, so other threads and the world move between them. Each   *)
(* object is used by one thread. All objects share the API session:        *)
(* "in use" is derived from the handles the objects hold, which is what    *)
(* g_api_refcount counts (RefcountExact of ApiHandle).                     *)
(***************************************************************************)
EXTENDS Simulation, FiniteSets

CONSTANTS
    Client,      \* ReconnectingInstance objects
    Ops,         \* the operations clients call, a subset of AllOps
    Serial,      \* TRUE: one thread serves all clients, one call at a time
    HookErrors   \* what the on_reconnect hook may raise, as errors of an SDK call

\* "call" is every I/O method that goes through _call().
AllOps == {"poll", "connect", "call", "state", "close"}

ASSUME ReconnectingAssumption ==
    Ops \subseteq AllOps /\ Serial \in BOOLEAN /\ HookErrors \subseteq FaultKinds

VARIABLES
    runtime,    \* _runtime is set: the client holds a RuntimeManager
    inst,       \* _instance: the registration it was attached to, 0 for None
    removed,    \* interface_removed of that instance
    hooked,     \* on_reconnect has been called with that instance
    op,         \* the operation in progress, or the last one
    pc,
    outcome,    \* what the last finished operation returned or raised
    builds,     \* RuntimeManagers made by the operation
    attaches,   \* try_attach() calls made by it; the wait of connect() counts 1
    ios,        \* I/O calls made by it
    answer      \* the last answer to an I/O call of the operation, since the
                \* instance was attached: "none", or an error

conn == <<runtime, inst, removed, hooked>>
record == <<builds, attaches, ios, answer>>
client == <<conn, op, pc, outcome, record>>
vars == <<world, bound, client>>

RIInit(alreadyUp) ==
    /\ WorldInit(alreadyUp)
    /\ runtime = [c \in Client |-> FALSE]
    /\ inst = [c \in Client |-> 0]
    /\ removed = [c \in Client |-> FALSE]
    /\ hooked = [c \in Client |-> FALSE]
    /\ op = [c \in Client |-> "close"]
    /\ pc = [c \in Client |-> "idle"]
    /\ outcome = [c \in Client |-> "none"]
    /\ builds = [c \in Client |-> 0]
    /\ attaches = [c \in Client |-> 0]
    /\ ios = [c \in Client |-> 0]
    /\ answer = [c \in Client |-> "none"]

Init == RIInit(FALSE)

-----------------------------------------------------------------------------

\* Some handle owns the API: g_api_refcount > 0. A client at "probe" is inside
\* the RuntimeManager constructor, past ApiHandle::acquire().
ApiInUse == \E c \in Client : runtime[c] \/ inst[c] # 0 \/ pc[c] = "probe"

\* _instance is not None and _instance.is_connected()
IsConnected(c) == inst[c] # 0 /\ ~removed[c] /\ ManagerAnswers

Goto(c, to) == pc' = [pc EXCEPT ![c] = to] /\ UNCHANGED outcome

Finish(c, result) ==
    /\ pc' = [pc EXCEPT ![c] = "idle"]
    /\ outcome' = [outcome EXCEPT ![c] = result]

Forget(c) ==
    /\ inst' = [inst EXCEPT ![c] = 0]
    /\ removed' = [removed EXCEPT ![c] = FALSE]
    /\ hooked' = [hooked EXCEPT ![c] = FALSE]

\* _drop(): instance and Runtime Manager, each with its own API handle.
\* (mutant: the Runtime Manager is kept)
Drop_KeepsRuntime(c) == Forget(c) /\ UNCHANGED runtime
\* (mutant: the instance is not)
Drop_KeepsInstance(c) ==
    runtime' = [runtime EXCEPT ![c] = FALSE] /\ UNCHANGED <<inst, removed, hooked>>
Drop(c) == Forget(c) /\ runtime' = [runtime EXCEPT ![c] = FALSE]

\* (mutant: a call that had to attach again counts as done)
CallMethod_Once(c) == IF ios[c] = 0 THEN Goto(c, "io") ELSE Finish(c, "ok")
CallMethod(c) == Goto(c, "io")

\* What an operation does once an instance is attached and the hook has run.
Proceed(c) ==
    \/ op[c] = "call" /\ CallMethod(c)
    \/ op[c] = "state" /\ Goto(c, "state")
    \/ op[c] \in {"poll", "connect"} /\ Finish(c, "attached")

\* The constructor throws, and every operation lets it pass.
\* (mutant: an unavailable Runtime Manager is waited for)
Unavailable_Waits(c) == Goto(c, "probe")
Unavailable(c) == Finish(c, "unavailable")

\* _attached(): the hook comes first.
\* (mutant: on_reconnect is called by connect() and poll_connect() only)
Attached_HookForPolls(c) ==
    IF op[c] \in {"poll", "connect"} THEN Goto(c, "hook") ELSE Proceed(c)
Attached(c) == Goto(c, "hook")

-----------------------------------------------------------------------------
(* poll_connect() and connect(), alone and inside the other operations. *)

Begin(c, o) ==
    /\ pc[c] = "idle"
    /\ Serial => \A d \in Client : pc[d] = "idle"
    /\ op' = [op EXCEPT ![c] = o]
    /\ builds' = [builds EXCEPT ![c] = 0]
    /\ attaches' = [attaches EXCEPT ![c] = 0]
    /\ ios' = [ios EXCEPT ![c] = 0]
    /\ answer' = [answer EXCEPT ![c] = "none"]
    /\ Goto(c, IF o = "close" THEN "close" ELSE "check")
    /\ UNCHANGED <<world, bound, conn>>

\* The Runtime Manager of a client that is not connected is always dropped,
\* so the following "if self._runtime is None" never finds one.
Check(c) ==
    /\ pc[c] = "check"
    /\ \/ IsConnected(c) /\ Proceed(c) /\ UNCHANGED conn
       \/ ~IsConnected(c) /\ Drop(c) /\ Goto(c, "build")
    /\ UNCHANGED <<world, bound, op, record>>

\* RuntimeManager(): InitializeApi() for the first handle of the process, ...
Build(c) ==
    /\ pc[c] = "build"
    /\ builds' = [builds EXCEPT ![c] = @ + 1]
    /\ \/ BindManager(ApiInUse) /\ Goto(c, "probe")
       \/ /\ ~ApiInUse          \* InitializeApi() itself fails
          /\ \/ (~up \/ "retryable" \in Faults) /\ Unavailable(c)
             \/ "fatal" \in Faults /\ Finish(c, "fatal")
          /\ UNCHANGED bound
    /\ UNCHANGED <<world, conn, op, attaches, ios, answer>>

\* ... then IsRuntimeManagerAvailable(), or the handle is released again.
Probe(c) ==
    /\ pc[c] = "probe"
    /\ \/ /\ ManagerAnswers
          /\ runtime' = [runtime EXCEPT ![c] = TRUE]
          /\ Goto(c, "attach")
       \/ ~ManagerAnswers /\ Unavailable(c) /\ UNCHANGED runtime
    /\ UNCHANGED <<world, bound, inst, removed, hooked, op, record>>

\* try_attach(), after which _attached() stores the instance. connect() waits
\* with the Runtime Manager it built (wait_for_instance with a runtime).
TryAttach(c) ==
    /\ pc[c] = "attach"
    /\ attaches' = [attaches EXCEPT ![c] = IF op[c] = "connect" THEN 1 ELSE @ + 1]
    /\ \/ /\ "instance" \in AttachResults
          /\ inst' = [inst EXCEPT ![c] = plc]
          /\ answer' = [answer EXCEPT ![c] = "none"]
          /\ Attached(c)
       \/ /\ "nothing" \in AttachResults
          /\ \/ op[c] = "poll" /\ Finish(c, "not_attached")
             \/ op[c] \in {"call", "state"} /\ Finish(c, "not_connected")
             \/ op[c] = "connect" /\ Goto(c, "sleep")
          /\ UNCHANGED <<inst, answer>>
       \/ "fatal" \in AttachResults /\ Finish(c, "fatal") /\ UNCHANGED <<inst, answer>>
    /\ UNCHANGED <<world, bound, runtime, removed, hooked, op, builds, ios>>

\* connect() between two attempts: the deadline has passed, or it sleeps on.
Sleep(c) ==
    /\ pc[c] = "sleep"
    /\ Goto(c, "attach") \/ Finish(c, "timeout")
    /\ UNCHANGED <<world, bound, conn, op, record>>

\* A failed call may have told the bridge that the interface is gone.
MayFlagRemoved(c) == removed' \in {removed, [removed EXCEPT ![c] = inst[c] # plc]}

\* on_reconnect(instance). If it raises, as a call of its own through the instance
\* may make it, the instance stays attached.
Hook(c) ==
    /\ pc[c] = "hook"
    /\ hooked' = [hooked EXCEPT ![c] = TRUE]
    /\ \/ Proceed(c) /\ UNCHANGED removed
       \/ \E e \in HookErrors : Finish(c, e) /\ MayFlagRemoved(c)
    /\ UNCHANGED <<world, bound, runtime, inst, op, record>>

-----------------------------------------------------------------------------
(* The operations on an attached instance. *)

\* "except RetryableError", once.
\* (mutant: every retryable failure is retried)
Retries_Always(c, a) == a = "retryable"
\* (mutant: "except PlcSimError")
Retries_AlsoFatal(c, a) == a # "ok" /\ ios[c] = 0
Retries(c, a) == a = "retryable" /\ ios[c] = 0

\* poll_connect() finds no instance after _drop(), so the retry goes on at the
\* RuntimeManager constructor.
\* (mutant: the call is retried through the handle that failed)
Reattach_SameHandle(c) == Goto(c, "check") /\ UNCHANGED conn
Reattach(c) == Drop(c) /\ Goto(c, "build")

\* _call(): getattr(instance, method)(*args), retried once through a freshly
\* attached instance.
Io(c) ==
    /\ pc[c] = "io"
    /\ ios' = [ios EXCEPT ![c] = @ + 1]
    /\ \E a \in IoResults(inst[c]) :
          /\ answer' = [answer EXCEPT ![c] = IF a = "ok" THEN "none" ELSE a]
          /\ \/ Retries(c, a) /\ Reattach(c)
             \/ /\ ~Retries(c, a)
                /\ Finish(c, a)
                /\ IF a = "retryable" THEN MayFlagRemoved(c) ELSE UNCHANGED removed
                /\ UNCHANGED <<runtime, inst, hooked>>
    /\ UNCHANGED <<world, bound, op, builds, attaches>>

\* operating_state does not go through _call(); GetOperatingState() reports no
\* error.
State(c) ==
    /\ pc[c] = "state"
    /\ Finish(c, "ok")
    /\ UNCHANGED <<world, bound, conn, op, record>>

\* close() and __exit__().
Close(c) ==
    /\ pc[c] = "close"
    /\ Drop(c)
    /\ Finish(c, "closed")
    /\ UNCHANGED <<world, bound, op, record>>

-----------------------------------------------------------------------------

Step(c) ==
    \/ Check(c) \/ Build(c) \/ Probe(c) \/ TryAttach(c) \/ Sleep(c) \/ Hook(c)
    \/ Io(c) \/ State(c) \/ Close(c)

Next ==
    \/ \E c \in Client : Step(c) \/ \E o \in Ops : Begin(c, o)
    \/ WorldStep /\ UNCHANGED <<bound, client>>

Spec == Init /\ [][Next]_vars

\* A simulation loop calls each of its clients again and again and native calls
\* return. With one thread the loop's round makes every client's turn come,
\* although it cannot begin while another client is served.
Fairness ==
    \A c \in Client :
        /\ WF_vars(Step(c))
        /\ SF_vars(\E o \in Ops : Begin(c, o))

FairSpec == Spec /\ Fairness

-----------------------------------------------------------------------------
(* Correctness. *)

PC == {"idle", "check", "build", "probe", "attach", "sleep", "hook", "io",
       "state", "close"}

Outcomes == {"none", "attached", "not_attached", "not_connected", "timeout",
             "unavailable", "ok", "closed"} \cup FaultKinds

TypeOK ==
    /\ WorldTypeOK
    /\ runtime \in [Client -> BOOLEAN]
    /\ inst \in [Client -> 0 .. made]
    /\ removed \in [Client -> BOOLEAN]
    /\ hooked \in [Client -> BOOLEAN]
    /\ op \in [Client -> AllOps]
    /\ pc \in [Client -> PC]
    /\ outcome \in [Client -> Outcomes]
    /\ builds \in [Client -> 0 .. 2]
    /\ attaches \in [Client -> 0 .. 2]
    /\ ios \in [Client -> 0 .. 2]
    /\ answer \in [Client -> {"none"} \cup FaultKinds]

\* "One reconnect, one retry" (__init__.py:410): whatever fails, in whatever
\* order, a step of the caller's loop costs at most two RuntimeManagers (each an
\* InitializeApi() when nobody else holds one), two attempts to attach and two
\* I/O calls; the other operations cost one manager, one attempt and no I/O.
BoundedWork ==
    \A c \in Client :
        /\ builds[c] <= (IF op[c] = "call" THEN 2 ELSE 1)
        /\ attaches[c] <= builds[c]
        /\ ios[c] <= (IF op[c] = "call" THEN 2 ELSE 0)

\* "called with each freshly attached instance": no value is read or written
\* through an instance, by any method, retry or later call, before on_reconnect
\* has been called with it.
HookBeforeIo ==
    \A c \in Client :
        /\ pc[c] \in {"io", "state"} => hooked[c]
        /\ inst[c] # 0 => hooked[c] \/ pc[c] = "hook"

\* "the underlying handle is discarded and a new one is attached before the
\* call is retried" (__init__.py:278): no I/O call of an operation goes through
\* an instance on which a call of that operation has failed.
RetryOnFreshInstance ==
    \A c \in Client : pc[c] = "io" => answer[c] = "none"

\* "Non-retryable errors propagate untouched": a fatal answer to an I/O call
\* ends the operation at once, and it is neither retried nor does it cost the
\* caller the connection.
FatalEndsCall ==
    \A c \in Client :
        answer[c] = "fatal" => pc[c] = "idle" /\ outcome[c] = "fatal" /\ inst[c] # 0

\* "assert self._instance is not None" (__init__.py:419) and the handles behind
\* it: whenever a native method is about to run, the instance is there, its
\* Runtime Manager is held too, and the API session has not been rebound to
\* another run of the Runtime Manager since the instance was attached.
InstanceBelongsToSession ==
    \A c \in Client :
        /\ pc[c] \in {"io", "state", "hook"} => inst[c] # 0
        /\ inst[c] # 0 => runtime[c]
        /\ inst[c] # 0 /\ inst[c] = plc => bound = epoch

\* What the caller of a client's methods sees of it.
Link(c) == IF inst[c] = 0 THEN "none" ELSE IF hooked[c] THEN "ready" ELSE "new"

Caller == INSTANCE Reconnection
    WITH busy <- [c \in Client |-> pc[c] # "idle"],
         link <- [c \in Client |-> Link(c)],
         result <- outcome

\* The life of a link, and nothing more: it comes and goes inside operations
\* only, "the underlying handle is discarded and a new one is attached"
\* (__init__.py:278); how an operation ended tells whether there is one
\* afterwards, as poll_connect() "returns whether a connected instance is
\* available" (__init__.py:374); and an operation that ends with a failure over a
\* link, be it of the hook, keeps the link.
ImplementsReconnection == Caller!Spec

\* "without ever blocking the caller's loop" (__init__.py:284): every operation
\* but connect() ends, whatever the Runtime Manager and the PLC do meanwhile.
NeverBlocks ==
    \A c \in Client : pc[c] # "idle" /\ op[c] # "connect" ~> pc[c] = "idle"

\* The purpose of the class: once the Runtime Manager, the PLC and its power
\* stay, every client's I/O calls succeed from some point on, although the
\* clients share one API session that may belong to a Runtime Manager long gone,
\* and whatever other methods they call in between.
Recovers ==
    <>[]Ready =>
        \A c \in Client : <>[](op[c] = "call" /\ pc[c] = "idle" => outcome[c] = "ok")

=============================================================================
