--------------------------- MODULE WaitForInstance ---------------------------
(***************************************************************************)
(* wait_for_instance() of plcsim_connector/__init__.py: the blocking loop  *)
(* around RuntimeManager() and try_attach(), while the Runtime Manager and *)
(* the PLC come and go. No other user of the API lives in the process.     *)
(***************************************************************************)
EXTENDS Simulation, DllSearch, Errors

CONSTANTS
    Given,          \* whether the caller passes runtime=: a set of Booleans
    Explicit,       \* api_dll_dir=: a set of directories, NoDir for None
    Limited,        \* whether there is a timeout or timeout=None: a set of Booleans
    Timeout,        \* the deadline, in the units of now
    PollInterval,
    CallTime        \* the longest RuntimeManager() or try_attach() takes

ASSUME WaitAssumption ==
    /\ Given \subseteq BOOLEAN /\ Limited \subseteq BOOLEAN
    /\ Explicit \subseteq Dirs \cup {NoDir}
    /\ Timeout \in Nat /\ PollInterval \in Nat \ {0} /\ CallTime \in Nat

VARIABLES
    given,      \* the argument runtime is not None
    explicit,   \* the argument api_dll_dir
    limited,    \* the argument timeout is not None
    pc,
    rt,         \* the local rt, or the caller's runtime, holds the API
    now,        \* time.monotonic(), only advanced when there is a timeout
    tried,      \* when the last attempt ended
    outcome     \* how the function ended: "none" while it runs

args == <<given, explicit, limited>>
loop == <<pc, rt, now, tried, outcome>>
vars == <<world, bound, search, args, loop>>

Init ==
    /\ given \in Given
    /\ explicit \in Explicit
    /\ limited \in Limited
    /\ WorldInit(given)     \* the caller's RuntimeManager was made while it ran
    /\ SearchInit
    /\ pc = "try"
    /\ rt = given
    /\ now = 0
    /\ tried = 0
    /\ outcome = "none"

\* (mutant: the deadline is computed anew in every round)
Elapse_DeadlineMoves(d) == now' = IF limited THEN d ELSE now

Elapse(d) == now' = IF limited THEN now + d ELSE now

Return(result) == pc' = "done" /\ outcome' = result

\* (mutants: "except PlcSimError", and only the native timeout is caught)
Tolerated_AnyError(kind) == TRUE
Tolerated_Timeouts(kind) == kind = "Timeout"

\* "except RetryableError"
Tolerated(kind) == CaughtAsRetryable(kind)

\* An exception in the try block: keep waiting, or propagate.
Raised(kind, result) ==
    \/ Tolerated(kind) /\ pc' = "deadline" /\ UNCHANGED outcome
    \/ ~Tolerated(kind) /\ Return(result)

\* What InitializeApi() answers once the DLL is loaded.
HandshakeCodes ==
    {"SREC_OK"}
        \cup (IF ~up \/ "retryable" \in Faults THEN {"SREC_RUNTIME_NOT_AVAILABLE"} ELSE {})
        \cup (IF "fatal" \in Faults THEN {"SREC_WRONG_VERSION"} ELSE {})

\* The local of the previous round is still alive while RuntimeManager() runs,
\* so only a round that finds rt unset initialises the API again; the
\* directory is looked up in every round.
Construct ==
    /\ pc = "try"
    /\ ~given
    /\ \E d \in 0 .. CallTime : Elapse(d)
    /\ Search(explicit)
    /\ LET dir == DirFor(explicit) IN
       \/ /\ rt \/ Loads(dir)
          /\ BindManager(rt)
          /\ pc' = "probe"
          /\ UNCHANGED <<tried, outcome>>
       \/ /\ ~rt
          /\ \/ ~Loads(dir) /\ Raised(Classify(LoadCode(dir)), "no_dll")
             \/ /\ Loads(dir)
                /\ \E code \in HandshakeCodes \ {"SREC_OK"} :
                      Raised(Classify(code),
                             IF code = "SREC_WRONG_VERSION" THEN "fatal" ELSE "unavailable")
          /\ tried' = now'
          /\ UNCHANGED bound
    /\ UNCHANGED <<args, world, rt>>

\* The constructor's availability check. If it raises, rt keeps the
\* RuntimeManager of the round before.
Probe ==
    /\ pc = "probe"
    /\ \/ ManagerAnswers /\ rt' = TRUE /\ pc' = "attach" /\ UNCHANGED outcome
       \/ ~ManagerAnswers /\ Raised("RuntimeManagerUnavailable", "unavailable") /\ UNCHANGED rt
    /\ tried' = now
    /\ UNCHANGED <<args, world, bound, search, now>>

UseGiven ==
    /\ pc = "try"
    /\ given
    /\ pc' = "attach"
    /\ UNCHANGED <<args, world, bound, search, rt, now, tried, outcome>>

TryAttach ==
    /\ pc = "attach"
    /\ \E d \in 0 .. CallTime : Elapse(d)
    /\ tried' = now'
    /\ \E r \in AttachResults :
          \/ r = "nothing" /\ pc' = "deadline" /\ UNCHANGED outcome
          \/ r # "nothing" /\ Return(r)
    /\ UNCHANGED <<args, world, bound, search, rt>>

\* (mutant: the sleep to come is counted in)
Expired_BeforeSleep == limited /\ now + PollInterval >= Timeout

Expired == limited /\ now >= Timeout

\* Past the deadline InstanceNotFoundError, else time.sleep(poll_interval).
Deadline ==
    /\ pc = "deadline"
    /\ \/ Expired /\ Return("not_found") /\ UNCHANGED now
       \/ ~Expired /\ Elapse(PollInterval) /\ pc' = "try" /\ UNCHANGED outcome
    /\ UNCHANGED <<args, world, bound, search, rt, tried>>

Round == Construct \/ Probe \/ UseGiven \/ TryAttach \/ Deadline

\* The world goes on, also after the function has returned.
World ==
    /\ \/ WorldStep /\ UNCHANGED search
       \/ Install /\ UNCHANGED world
    /\ UNCHANGED <<bound, args, loop>>

Next == Round \/ World

Spec == Init /\ [][Next]_vars

\* The thread runs and SDK calls return.
FairSpec == Spec /\ WF_vars(Round)

-----------------------------------------------------------------------------

TypeOK ==
    /\ WorldTypeOK
    /\ SearchTypeOK
    /\ given \in Given /\ explicit \in Explicit /\ limited \in Limited
    /\ pc \in {"try", "probe", "attach", "deadline", "done"}
    /\ rt \in BOOLEAN
    /\ now \in 0 .. Timeout + PollInterval + 2 * CallTime
    /\ tried \in 0 .. now
    /\ outcome \in {"none", "instance", "not_found", "no_dll", "fatal"}

\* "if the timeout expires" (__init__.py:250): the function gives up neither
\* early nor more than an interval and an attempt late, and never without an
\* attempt that ended at the moment it gives up: an instance that was there when
\* the deadline passed is not missed.
GivesUpOnTime ==
    outcome = "not_found" =>
        /\ limited
        /\ now \in Timeout .. Timeout + PollInterval + 2 * CallTime
        /\ tried = now

\* "Non-retryable failures - ... a missing S7-PLCSIM Advanced installation -
\* propagate immediately rather than spinning" (__init__.py:242): a round of a
\* wait that has no API yet goes on only if the DLL it was directed to loads.
MissingInstallationEndsWait ==
    [][(pc = "try" /\ ~given /\ ~rt /\ pc' \notin {"try", "done"}) => Loads(DirFor(explicit))]_vars

\* "this is a strict improvement over the default behaviour rather than a new
\* way to fail" (__init__.py:105): where the search of InitializeApi() itself
\* would have found the DLL the detected directory does not keep the wait from
\* it, unless the installation has changed since the directory was cached.
SearchIsImprovement ==
    [][(outcome' = "no_dll" /\ outcome = "none" /\ explicit = NoDir)
          => stale \/ ~Loads(NoDir)]_vars

\* With a timeout the function ends, whatever happens outside.
Ends == limited => <>(pc = "done")

\* The SDK has stopped failing for no reason.
SdkWorks ==
    <>[][(pc \in {"try", "attach"} /\ up /\ plc # 0) => pc' # "deadline"]_vars

\* The loop does not need a deadline to end: once the Runtime Manager, which is
\* never restarted, and the instance stay, the function returns. What it meets
\* before, such as a Control Panel that is not up yet ("it tolerates the Control
\* Panel not being up yet"), is never what it ends with: only a timeout that has
\* expired or an error no retry will cure keeps the instance from the caller.
EndsOnceRegistered ==
    <>[](up /\ plc # 0) /\ [](epoch = 0) /\ SdkWorks
        => <>(outcome \in {"instance", "not_found", "no_dll", "fatal"})

\* "Block until an instance called *name* is registered, then attach to it"
\* (__init__.py:238): once the Runtime Manager and the instance stay, a wait
\* without a deadline attaches, whatever happened before.
AttachesOnceRegistered == <>[](up /\ plc # 0) => <>(outcome = "instance")

=============================================================================
