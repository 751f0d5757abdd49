------------------------ MODULE WaitForInstance_proofs ------------------------
(***************************************************************************)
(* Theorems about WaitForInstance, for every timeout, interval and call    *)
(* time, every machine and every bound on what happens outside.            *)
(***************************************************************************)
EXTENDS WaitForInstance, TLAPS

Outcomes == {"none", "instance", "not_found", "no_dll", "fatal"}

\* Where the clock may stand in each place of the loop.
Latest(place) ==
    CASE place = "try"      -> Timeout + PollInterval
      [] place = "probe"    -> Timeout + PollInterval + CallTime
      [] place = "attach"   -> Timeout + PollInterval + CallTime
      [] OTHER              -> Timeout + PollInterval + 2 * CallTime

Clock ==
    /\ now \in Nat /\ tried \in Nat
    /\ now <= Latest(pc)
    /\ tried <= now
    /\ ~limited => now = 0
    /\ pc = "deadline" => tried = now

\* The inductive invariant: the types, the clock, and how the function ended.
WaitInv ==
    /\ WorldTypeOK
    /\ SearchTypeOK
    /\ given \in Given /\ explicit \in Explicit /\ limited \in Limited
    /\ pc \in {"try", "probe", "attach", "deadline", "done"}
    /\ rt \in BOOLEAN
    /\ outcome \in Outcomes
    /\ outcome # "none" => pc = "done"
    /\ Clock
    /\ GivesUpOnTime

-----------------------------------------------------------------------------

\* A Runtime Manager that is not available is waited for: its code and its kind
\* reach Python as an exception the try block catches.
LEMMA UnavailableIsTolerated ==
    /\ Tolerated("RuntimeManagerUnavailable")
    /\ Tolerated(Classify("SREC_RUNTIME_NOT_AVAILABLE"))
<1>1. Tolerated("RuntimeManagerUnavailable")
  BY DEF Tolerated, CaughtAsRetryable, Parent, ForKind, ExceptionTable
<1>2. Classify("SREC_RUNTIME_NOT_AVAILABLE") = "RuntimeManagerUnavailable"
  BY DEF Classify, KindTable
<1> QED BY <1>1, <1>2

\* A caught or propagated exception leaves the loop in one of two places.
LEMMA RaisedEnds ==
    ASSUME NEW kind, NEW result, Raised(kind, result), outcome = "none"
    PROVE  \/ pc' = "deadline" /\ outcome' = "none"
           \/ ~Tolerated(kind) /\ pc' = "done" /\ outcome' = result
BY DEF Raised, Return

LEMMA InitWait == Init => WaitInv
<1> SUFFICES ASSUME Init PROVE WaitInv
  OBVIOUS
<1>0. up \in BOOLEAN /\ rt \in BOOLEAN
  BY WaitAssumption, Zenon DEF Init, WorldInit
<1>1. WorldTypeOK
  <2>1. /\ epoch \in 0 .. MaxEpoch /\ plc \in 0 .. MaxPlc
        /\ made \in plc .. MaxPlc /\ bound \in 0 .. epoch
    BY SimulationAssumption DEF Init, WorldInit
  <2>2. running \in BOOLEAN
    BY Zenon DEF Init, WorldInit
  <2> QED BY <1>0, <2>1, <2>2, Zenon DEF WorldTypeOK
<1>2. SearchTypeOK
  <2>1. installs \in 0 .. MaxInstalls
    BY DllSearchAssumption DEF Init, SearchInit
  <2>2. stale \in BOOLEAN /\ cache \in {NoDir, "unset"}
    BY Zenon DEF Init, SearchInit
  <2> QED BY <2>1, <2>2, Zenon DEF Init, SearchInit, SearchTypeOK
<1>3. Clock
  BY WaitAssumption DEF Init, Clock, Latest
<1> QED BY <1>0, <1>1, <1>2, <1>3, WaitAssumption DEF Init, WaitInv, Outcomes, GivesUpOnTime

\* The directory found, or none, is all the cache can come to hold.
LEMMA SearchTypes ==
    ASSUME SearchTypeOK, NEW dir, Search(dir)
    PROVE  SearchTypeOK'
<1>1. disk.holds \subseteq Dirs
  BY DllSearchAssumption DEF SearchTypeOK
<1>2. Locate \in Dirs \cup {NoDir}
  BY <1>1 DEF Locate
<1>3. AutodetectApiDllDir \in Dirs \cup {NoDir, "unset"}
  BY <1>2 DEF SearchTypeOK, AutodetectApiDllDir
<1> QED BY <1>3 DEF Search, SearchTypeOK

\* A sleep or a call of at most CallTime, seen from where it began.
LEMMA ElapseClock ==
    ASSUME WaitInv, NEW d \in Nat, Elapse(d), limited' = limited
    PROVE  now' \in Nat /\ now' <= now + d /\ now <= now' /\ (~limited => now' = 0)
BY DEF WaitInv, Clock, Elapse

-----------------------------------------------------------------------------

LEMMA ConstructWait == WaitInv /\ Construct => WaitInv'
<1> SUFFICES ASSUME WaitInv, Construct PROVE WaitInv'
  OBVIOUS
<1> USE WaitAssumption
<1>1. PICK d \in 0 .. CallTime : Elapse(d)
  BY DEF Construct
<1>2. /\ pc = "try" /\ outcome = "none" /\ UNCHANGED args /\ UNCHANGED world /\ UNCHANGED rt
  BY DEF Construct, WaitInv
<1>3. now' \in Nat /\ now' <= now + CallTime /\ now <= now' /\ (~limited => now' = 0)
  <2>1. now' \in Nat /\ now' <= now + d /\ now <= now' /\ (~limited => now' = 0)
    BY <1>1, <1>2, ElapseClock DEF args
  <2>2. d <= CallTime /\ now \in Nat
    BY DEF WaitInv, Clock
  <2> QED BY <2>1, <2>2
<1>4. WorldTypeOK'
  <2>1. bound' = bound \/ bound' = epoch
    BY DEF Construct, BindManager
  <2> QED BY <2>1, <1>2, SimulationAssumption DEF WaitInv, WorldTypeOK, world
<1>5. SearchTypeOK'
  BY SearchTypes DEF Construct, WaitInv
<1>6. \/ pc' = "probe" /\ tried' = tried /\ outcome' = "none"
      \/ pc' = "deadline" /\ tried' = now' /\ outcome' = "none"
      \/ pc' = "done" /\ tried' = now' /\ outcome' \in {"no_dll", "fatal"}
  <2> DEFINE dir == DirFor(explicit)
  <2>1. CASE pc' = "probe" /\ UNCHANGED <<tried, outcome>>
    BY <2>1, <1>2
  <2>2. CASE Raised(Classify(LoadCode(dir)), "no_dll") /\ tried' = now'
    BY <2>2, <1>2, RaisedEnds
  <2>3. ASSUME NEW code \in HandshakeCodes \ {"SREC_OK"}, tried' = now',
               Raised(Classify(code),
                      IF code = "SREC_WRONG_VERSION" THEN "fatal" ELSE "unavailable")
        PROVE  <1>6!1 \/ <1>6!2 \/ <1>6!3
    <3>1. code \in {"SREC_RUNTIME_NOT_AVAILABLE", "SREC_WRONG_VERSION"}
      BY DEF HandshakeCodes
    <3>2. CASE code = "SREC_WRONG_VERSION"
      BY <3>2, <2>3, <1>2, RaisedEnds
    <3>3. CASE code = "SREC_RUNTIME_NOT_AVAILABLE"
      BY <3>3, <2>3, <1>2, RaisedEnds, UnavailableIsTolerated
    <3> QED BY <3>1, <3>2, <3>3
  <2> QED BY <2>1, <2>2, <2>3 DEF Construct
<1>7. Clock'
  BY <1>2, <1>3, <1>6 DEF WaitInv, Clock, Latest, args
<1>8. GivesUpOnTime'
  BY <1>6 DEF GivesUpOnTime
<1> QED BY <1>2, <1>4, <1>5, <1>6, <1>7, <1>8 DEF WaitInv, Outcomes, args

LEMMA ProbeWait == WaitInv /\ Probe => WaitInv'
<1> SUFFICES ASSUME WaitInv, Probe PROVE WaitInv'
  OBVIOUS
<1> USE WaitAssumption
<1>1. pc = "probe" /\ outcome = "none" /\ UNCHANGED <<args, world, bound, search, now>>
  BY DEF Probe, WaitInv
<1>2. rt' \in BOOLEAN /\ outcome' = "none" /\ pc' \in {"attach", "deadline"} /\ tried' = now
  BY <1>1, RaisedEnds, UnavailableIsTolerated DEF Probe, WaitInv
<1>3. Clock'
  BY <1>1, <1>2 DEF WaitInv, Clock, Latest, args
<1> QED
  BY <1>1, <1>2, <1>3
  DEF WaitInv, Outcomes, GivesUpOnTime, WorldTypeOK, SearchTypeOK, args, world, search

LEMMA UseGivenWait == WaitInv /\ UseGiven => WaitInv'
<1> SUFFICES ASSUME WaitInv, UseGiven PROVE WaitInv'
  OBVIOUS
<1>1. Clock'
  BY WaitAssumption DEF UseGiven, WaitInv, Clock, Latest, args
<1> QED
  BY <1>1
  DEF UseGiven, WaitInv, Outcomes, GivesUpOnTime, WorldTypeOK, SearchTypeOK, args, world, search

LEMMA TryAttachWait == WaitInv /\ TryAttach => WaitInv'
<1> SUFFICES ASSUME WaitInv, TryAttach PROVE WaitInv'
  OBVIOUS
<1> USE WaitAssumption
<1>1. PICK d \in 0 .. CallTime : Elapse(d)
  BY DEF TryAttach
<1>2. /\ pc = "attach" /\ outcome = "none" /\ tried' = now'
      /\ UNCHANGED <<args, world, bound, search, rt>>
  BY DEF TryAttach, WaitInv
<1>3. now' \in Nat /\ now' <= now + CallTime /\ now <= now' /\ (~limited => now' = 0)
  <2>1. now' \in Nat /\ now' <= now + d /\ now <= now' /\ (~limited => now' = 0)
    BY <1>1, <1>2, ElapseClock DEF args
  <2>2. d <= CallTime /\ now \in Nat
    BY DEF WaitInv, Clock
  <2> QED BY <2>1, <2>2
<1>4. \/ pc' = "deadline" /\ outcome' = "none"
      \/ pc' = "done" /\ outcome' \in {"instance", "fatal"}
  BY <1>2, SimulationAssumption DEF TryAttach, Return, AttachResults, FaultKinds
<1>5. Clock'
  BY <1>2, <1>3, <1>4 DEF WaitInv, Clock, Latest, args
<1> QED
  BY <1>2, <1>4, <1>5
  DEF WaitInv, Outcomes, GivesUpOnTime, WorldTypeOK, SearchTypeOK, args, world, search

\* The one step that gives up does so in the deadline's window, right after an
\* attempt; a sleep begins before the deadline.
LEMMA DeadlineWait == WaitInv /\ Deadline => WaitInv'
<1> SUFFICES ASSUME WaitInv, Deadline PROVE WaitInv'
  OBVIOUS
<1> USE WaitAssumption
<1>1. /\ pc = "deadline" /\ outcome = "none" /\ tried = now
      /\ UNCHANGED <<args, world, bound, search, rt, tried>>
  BY DEF Deadline, WaitInv, Clock
<1>2. CASE Expired /\ Return("not_found") /\ UNCHANGED now
  <2>1. Clock' /\ GivesUpOnTime'
    BY <1>1, <1>2 DEF WaitInv, Clock, Latest, Expired, Return, GivesUpOnTime, args
  <2> QED
    BY <1>1, <1>2, <2>1
    DEF WaitInv, Outcomes, Return, WorldTypeOK, SearchTypeOK, args, world, search
<1>3. CASE ~Expired /\ Elapse(PollInterval) /\ pc' = "try" /\ UNCHANGED outcome
  <2>1. now' \in Nat /\ now' <= now + PollInterval /\ now <= now' /\ (~limited => now' = 0)
    BY <1>1, <1>3, ElapseClock DEF args
  <2>2. limited => now < Timeout
    BY <1>3 DEF Expired, WaitInv, Clock
  <2>3. Clock'
    BY <1>1, <1>3, <2>1, <2>2 DEF WaitInv, Clock, Latest, args
  <2> QED
    BY <1>1, <1>3, <2>3
    DEF WaitInv, Outcomes, GivesUpOnTime, WorldTypeOK, SearchTypeOK, args, world, search
<1> QED BY <1>2, <1>3 DEF Deadline

LEMMA WorldWait == WaitInv /\ World => WaitInv'
<1> SUFFICES ASSUME WaitInv, World PROVE WaitInv'
  OBVIOUS
<1>1. UNCHANGED <<bound, args, loop>>
  BY DEF World
<1>2. CASE WorldStep /\ UNCHANGED search
  <2>1. WorldTypeOK'
    <3> USE SimulationAssumption DEF WaitInv, WorldTypeOK, WorldStep, RuntimeManagerStarts,
            RuntimeManagerStops, PlcRegistered, PlcUnregistered, PlcPower
    <3>1. up' \in BOOLEAN /\ running' \in BOOLEAN
      BY <1>2, Zenon
    <3>2. /\ epoch' \in 0 .. MaxEpoch /\ plc' \in 0 .. MaxPlc
          /\ made' \in plc' .. MaxPlc /\ bound' \in 0 .. epoch'
      BY <1>1, <1>2
    <3> QED BY <3>1, <3>2
  <2> QED
    BY <1>1, <1>2, <2>1
    DEF WaitInv, Outcomes, Clock, Latest, GivesUpOnTime, SearchTypeOK, args, loop, search
<1>3. CASE Install /\ UNCHANGED world
  <2>1. SearchTypeOK'
    <3>1. disk' \in Installations /\ stale' \in BOOLEAN
      BY <1>3 DEF Install
    <3>2. installs' \in 0 .. MaxInstalls /\ UNCHANGED <<version, cache>>
      BY <1>3, DllSearchAssumption DEF WaitInv, Install, SearchTypeOK
    <3> QED BY <3>1, <3>2 DEF WaitInv, SearchTypeOK
  <2> QED
    BY <1>1, <1>3, <2>1
    DEF WaitInv, Outcomes, Clock, Latest, GivesUpOnTime, WorldTypeOK, args, loop, world
<1> QED BY <1>2, <1>3 DEF World

-----------------------------------------------------------------------------

\* Every reachable state satisfies the inductive invariant.
THEOREM WaitInvariant == Spec => []WaitInv
<1>1. Init => WaitInv
  BY InitWait
<1>2. WaitInv /\ [Next]_vars => WaitInv'
  <2> SUFFICES ASSUME WaitInv, [Next]_vars PROVE WaitInv'
    OBVIOUS
  <2>1. CASE Round
    BY <2>1, ConstructWait, ProbeWait, UseGivenWait, TryAttachWait, DeadlineWait DEF Round
  <2>2. CASE World
    BY <2>2, WorldWait
  <2>3. CASE UNCHANGED vars
    BY <2>3
    DEF vars, world, search, args, loop, WaitInv, Outcomes, Clock, Latest, GivesUpOnTime,
        WorldTypeOK, SearchTypeOK
  <2> QED BY <2>1, <2>2, <2>3 DEF Next
<1> QED BY <1>1, <1>2, PTL DEF Spec

\* The types, with the bound on the clock: wait_for_instance() never runs past
\* its deadline by more than one interval and one attempt, however it ends.
THEOREM WaitTypeCorrect == Spec => []TypeOK
<1>1. WaitInv => TypeOK
  BY WaitAssumption DEF WaitInv, TypeOK, Outcomes, Clock, Latest
<1> QED BY <1>1, WaitInvariant, PTL

\* InstanceNotFoundError means that the deadline passed and that the last
\* attempt ended at that very moment.
THEOREM GivingUpIsOnTime == Spec => []GivesUpOnTime
<1>1. WaitInv => GivesUpOnTime
  BY DEF WaitInv
<1> QED BY <1>1, WaitInvariant, PTL

-----------------------------------------------------------------------------
(* The search for the DLL. *)

\* What the process remembers is what a search would find, until the installation
\* changes.
CacheFresh == cache = "unset" \/ stale \/ cache = Locate

\* A DLL that does not load is no passing failure.
LEMMA LoadFailureIsFinal ==
    ASSUME NEW dir, ~Loads(dir)
    PROVE  ~Tolerated(Classify(LoadCode(dir)))
<1>1. LoadCode(dir) \in {"SREC_INVALID_ERROR_CODE", "SREC_ERROR_LOADING_DLL"}
  BY DEF Loads, LoadCode
<1>2. ~Tolerated(Classify("SREC_INVALID_ERROR_CODE"))
  <2>1. Classify("SREC_INVALID_ERROR_CODE") = "Other"
    BY DEF Classify, KindTable
  <2> QED
    BY <2>1 DEF Tolerated, CaughtAsRetryable, ForKind, ExceptionTable, Parent
<1>3. ~Tolerated(Classify("SREC_ERROR_LOADING_DLL"))
  <2>1. Classify("SREC_ERROR_LOADING_DLL") = "ApiNotInitialized"
    BY DEF Classify, KindTable
  <2> QED
    BY <2>1 DEF Tolerated, CaughtAsRetryable, ForKind, ExceptionTable, Parent
<1> QED
  BY <1>1, <1>2, <1>3

\* The directory a search hands over holds the DLL.
LEMMA FoundDirLoads ==
    ASSUME SearchTypeOK, Locate # NoDir
    PROVE  Loads(Locate)
<1>1. disk.holds \subseteq Dirs
  BY DllSearchAssumption DEF SearchTypeOK
<1>2. Locate \in disk.holds
  BY DEF Locate
<1> QED
  BY <1>1, <1>2 DEF Loads, LoadCode, Dirs, NoDir

LEMMA CacheStaysFresh == CacheFresh /\ [Next]_vars => CacheFresh'
<1> SUFFICES ASSUME CacheFresh, [Next]_vars PROVE CacheFresh'
  OBVIOUS
<1>1. CASE Construct
  BY <1>1 DEF Construct, Search, AutodetectApiDllDir, CacheFresh, Locate
<1>2. CASE World /\ ~UNCHANGED search
  BY <1>2 DEF World, Install, CacheFresh
<1>3. CASE UNCHANGED search
  BY <1>3 DEF search, CacheFresh, Locate
<1> QED
  BY <1>1, <1>2, <1>3 DEF Next, Round, Probe, UseGiven, TryAttach, Deadline, vars

\* A wait goes on only if the DLL it was directed to loads: a missing or stale
\* installation ends it, on every machine.
THEOREM MissingInstallationIsFinal == Spec => MissingInstallationEndsWait
<1>1. ASSUME [Next]_vars, pc = "try", ~given, ~rt, pc' \notin {"try", "done"}
      PROVE  Loads(DirFor(explicit))
  <2>1. Construct
    BY <1>1 DEF Next, Round, World, Probe, UseGiven, TryAttach, Deadline, loop, vars
  <2> SUFFICES ASSUME ~Loads(DirFor(explicit)) PROVE FALSE
    OBVIOUS
  <2>2. Raised(Classify(LoadCode(DirFor(explicit))), "no_dll")
    BY <1>1, <2>1 DEF Construct
  <2> QED
    BY <1>1, <2>2, LoadFailureIsFinal DEF Raised, Return
<1> QED
  BY <1>1, PTL DEF Spec, MissingInstallationEndsWait

\* The directory that is handed over never keeps a wait from a DLL that
\* InitializeApi() would have found, on every machine.
THEOREM SearchNeverHurts == Spec => SearchIsImprovement
<1>1. Init => CacheFresh
  BY DEF Init, SearchInit, CacheFresh
<1>2. ASSUME WaitInv, CacheFresh, [Next]_vars,
             outcome' = "no_dll", outcome = "none", explicit = NoDir
      PROVE  stale \/ ~Loads(NoDir)
  <2>1. Construct
    BY <1>2, SimulationAssumption
    DEF Next, Round, World, Probe, UseGiven, TryAttach, Deadline, Raised, Return, loop, vars,
        AttachResults, FaultKinds
  <2>2. ~Loads(AutodetectApiDllDir)
    BY <1>2, <2>1 DEF Construct, Raised, Return, DirFor
  <2>3. stale \/ AutodetectApiDllDir = Locate
    BY <1>2 DEF CacheFresh, AutodetectApiDllDir
  <2> QED
    BY <1>2, <2>2, <2>3, FoundDirLoads DEF WaitInv
<1>3. Spec => []CacheFresh
  BY <1>1, CacheStaysFresh, PTL DEF Spec
<1> QED
  BY <1>2, <1>3, WaitInvariant, PTL DEF Spec, SearchIsImprovement

-----------------------------------------------------------------------------
(* That the wait ends. *)

\* Steps to the end of a round.
RoundLeft ==
    IF pc = "try" THEN 4
    ELSE IF pc = "probe" THEN 3
    ELSE IF pc = "attach" THEN 2
    ELSE IF pc = "deadline" THEN 1
    ELSE 0

\* The time that is left, in steps: no round takes more than four, and between two
\* rounds the clock moves.
WaitLeft == 4 * (Timeout + PollInterval + 2 * CallTime - now) + RoundLeft

\* With a timeout, whatever the function does brings it nearer to its end.
WaitRunsDown == [][(limited /\ pc # "done" => WaitLeft' < WaitLeft \/ UNCHANGED loop)]_vars

\* With a timeout the function takes a bounded number of steps, whatever the Runtime
\* Manager, the PLC and the installation do meanwhile: what Ends says, but for the
\* steps being taken.
THEOREM WaitIsFinite == Spec => [](WaitLeft \in Nat) /\ WaitRunsDown
<1> USE WaitAssumption
<1>1. WaitInv => WaitLeft \in Nat
  BY DEF WaitInv, Clock, Latest, WaitLeft, RoundLeft
<1>2. ASSUME WaitInv, [Next]_vars, limited, pc # "done"
      PROVE  WaitLeft' < WaitLeft \/ UNCHANGED loop
  <2>1. now \in Nat /\ outcome = "none"
    BY <1>2 DEF WaitInv, Clock
  <2>2. ASSUME NEW d \in Nat, Elapse(d) PROVE now' = now + d
    BY <1>2, <2>2 DEF Elapse
  <2>3. CASE Construct
    <3>1. PICK d \in 0 .. CallTime : Elapse(d)
      BY <2>3 DEF Construct
    <3>2. now' = now + d /\ d \in Nat
      BY <2>2, <3>1
    <3>3. pc = "try" /\ pc' \in {"probe", "deadline", "done"}
      BY <2>3 DEF Construct, Raised, Return
    <3> QED BY <2>1, <3>2, <3>3 DEF WaitLeft, RoundLeft
  <2>4. CASE Probe
    <3>1. pc = "probe" /\ pc' \in {"attach", "deadline", "done"} /\ now' = now
      BY <2>4 DEF Probe, Raised, Return
    <3> QED BY <2>1, <3>1 DEF WaitLeft, RoundLeft
  <2>5. CASE UseGiven
    BY <2>1, <2>5 DEF UseGiven, WaitLeft, RoundLeft
  <2>6. CASE TryAttach
    <3>1. PICK d \in 0 .. CallTime : Elapse(d)
      BY <2>6 DEF TryAttach
    <3>2. now' = now + d /\ d \in Nat
      BY <2>2, <3>1
    <3>3. pc = "attach" /\ pc' \in {"deadline", "done"}
      BY <2>6 DEF TryAttach, Return
    <3> QED BY <2>1, <3>2, <3>3 DEF WaitLeft, RoundLeft
  <2>7. CASE Deadline
    <3>1. CASE Return("not_found") /\ UNCHANGED now
      BY <2>1, <2>7, <3>1 DEF Deadline, Return, WaitLeft, RoundLeft
    <3>2. CASE Elapse(PollInterval) /\ pc' = "try"
      <4>1. now' = now + PollInterval
        BY <2>2, <3>2
      <4> QED BY <2>1, <2>7, <3>2, <4>1 DEF Deadline, WaitLeft, RoundLeft
    <3> QED BY <2>7, <3>1, <3>2 DEF Deadline
  <2>8. CASE World \/ UNCHANGED vars
    BY <2>8 DEF World, vars
  <2> QED BY <1>2, <2>3, <2>4, <2>5, <2>6, <2>7, <2>8 DEF Next, Round
<1>3. WaitInv /\ [Next]_vars
        => [(limited /\ pc # "done" => WaitLeft' < WaitLeft \/ UNCHANGED loop)]_vars
  BY <1>2
<1> QED BY <1>1, <1>3, WaitInvariant, PTL DEF Spec, WaitRunsDown

\* While the Runtime Manager that never stopped and the instance are there, only a
\* passing failure of the SDK makes the wait go on.
OnlyTheSdkDelays ==
    [][(epoch = 0 /\ up /\ plc # 0 /\ pc # "deadline" /\ pc' = "deadline"
          => "retryable" \in Faults)]_vars

\* The handshake, the availability check and the attachment each succeed or fail for
\* good once both are there: with an SDK that does not fail by itself the round that
\* finds them there is the last one. A restart is excluded, since it leaves the
\* manager pointer of a handle that is still held behind.
THEOREM ReadyIsEnough == Spec => OnlyTheSdkDelays
<1>1. ASSUME WaitInv, [Next]_vars, epoch = 0, up, plc # 0, pc # "deadline", pc' = "deadline"
      PROVE  "retryable" \in Faults
  <2>1. ManagerAnswers
    BY <1>1 DEF WaitInv, WorldTypeOK, ManagerAnswers
  <2>2. CASE Construct
    <3> SUFFICES ASSUME "retryable" \notin Faults PROVE FALSE
      OBVIOUS
    <3> DEFINE dir == DirFor(explicit)
    <3>1. CASE ~Loads(dir) /\ Raised(Classify(LoadCode(dir)), "no_dll")
      BY <1>1, <3>1, LoadFailureIsFinal DEF Raised, Return
    <3>2. ASSUME NEW code \in HandshakeCodes \ {"SREC_OK"}, Tolerated(Classify(code))
          PROVE  FALSE
      <4>1. code = "SREC_WRONG_VERSION"
        BY <1>1, <3>2 DEF HandshakeCodes
      <4>2. Classify(code) = "ApiNotInitialized"
        BY <4>1 DEF Classify, KindTable
      <4> QED
        BY <3>2, <4>2 DEF Tolerated, CaughtAsRetryable, ForKind, ExceptionTable, Parent
    <3> QED
      BY <1>1, <2>2, <3>1, <3>2 DEF Construct, Raised, Return
  <2>3. CASE Probe
    BY <1>1, <2>1, <2>3 DEF Probe
  <2>4. CASE UseGiven
    BY <1>1, <2>4 DEF UseGiven
  <2>5. CASE TryAttach
    <3>1. PICK r \in AttachResults : \/ r = "nothing" /\ pc' = "deadline"
                                     \/ r # "nothing" /\ Return(r)
      BY <2>5 DEF TryAttach
    <3>2. "nothing" \in AttachResults
      BY <1>1, <3>1 DEF Return
    <3> QED BY <1>1, <2>1, <3>2, SimulationAssumption DEF AttachResults, FaultKinds
  <2>6. CASE World \/ UNCHANGED vars
    BY <1>1, <2>6 DEF World, vars, loop
  <2> QED BY <1>1, <2>2, <2>3, <2>4, <2>5, <2>6 DEF Next, Round, Deadline
<1>2. WaitInv /\ [Next]_vars
        => [(epoch = 0 /\ up /\ plc # 0 /\ pc # "deadline" /\ pc' = "deadline"
               => "retryable" \in Faults)]_vars
  BY <1>1
<1> QED BY <1>2, WaitInvariant, PTL DEF Spec, OnlyTheSdkDelays

=============================================================================
