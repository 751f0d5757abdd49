------------------------ MODULE SimulationLoop_proofs ------------------------
(***************************************************************************)
(* Proofs about the Webots controller, for any bounds on the world, any    *)
(* faults of the SDK and whether the Control Panel runs or not.            *)
(*                                                                         *)
(* The argument: the controller only does what a client of                 *)
(* ReconnectingInstance does, so RIInv holds of it; what main() may        *)
(* conclude from a call that has returned is CallResult, and what the hook *)
(* may have done to the input is told by the attempts the call has made.   *)
(***************************************************************************)
EXTENDS SimulationLoop, ReconnectingInstance_proofs

-----------------------------------------------------------------------------

\* Which call main() is in.
Program ==
    /\ at \in {"startup", "step", "ended", "died"} => pc[me] = "idle"
    /\ at = "polling" => op[me] = "poll"
    /\ at \in {"setting", "getting"} => op[me] = "call"
    /\ at = "closing" => op[me] = "close"
    /\ at \in {"startup", "polling"} => ~motor
    /\ pc[me] = "close" => op[me] = "close"

\* What setAddressBit() and getAddressBit() can have done once they return.
CallResult ==
    op[me] = "call" /\ pc[me] = "idle" =>
        /\ outcome[me] \in {"ok", "retryable", "unavailable", "not_connected", "fatal"}
        /\ outcome[me] = "ok" => inst[me] # 0

\* The hook runs only in a call that has attached.
HookAfterAttach == pc[me] = "hook" => attaches[me] >= 1

\* A write that has just returned stands.
Written ==
    at = "setting" /\ pc[me] = "idle" /\ outcome[me] = "ok" => input \in {sensed, "lost"}

LoopTypes ==
    /\ at \in At
    /\ sensed \in {"on", "off"}
    /\ motor \in BOOLEAN
    /\ input \in {"on", "off", "lost"}

\* The inductive invariant.
LoopInv ==
    /\ RIInv
    /\ LoopTypes
    /\ Program
    /\ CallResult
    /\ HookAfterAttach
    /\ Written
    /\ SurvivesInLoop
    /\ WheelNeedsPlc
    /\ WriteOutlivesHook

-----------------------------------------------------------------------------

LEMMA OneClient == me \in Client
  BY SimulationLoopAssumption DEF me

\* The controller is a client like any other.
LEMMA ControllerIsClient == [LoopNext]_loopvars => [Next]_vars
<1> SUFFICES ASSUME [LoopNext]_loopvars PROVE [Next]_vars
  OBVIOUS
<1>1. CASE Connecting \/ OnReconnect \/ InputOutput
  BY <1>1, OneClient DEF Connecting, OnReconnect, InputOutput, Step, Next
<1>2. CASE PollConnect \/ RobotStep \/ SetReturns
  BY <1>2, OneClient, SimulationLoopAssumption DEF PollConnect, RobotStep, SetReturns, Next
<1>3. CASE PollReturns \/ GetReturns \/ CallRaises \/ CloseReturns
  BY <1>3 DEF PollReturns, GetReturns, CallRaises, CloseReturns
<1>4. CASE World
  BY <1>4 DEF World, Next
<1>5. CASE UNCHANGED loopvars
  BY <1>5 DEF loopvars
<1> QED
  BY <1>1, <1>2, <1>3, <1>4, <1>5 DEF LoopNext, Controller

LEMMA LoopInitInv == LoopInit => LoopInv
<1> SUFFICES ASSUME LoopInit PROVE LoopInv
  OBVIOUS
<1>1. PICK alreadyUp \in BOOLEAN : RIInit(alreadyUp)
  BY SimulationLoopAssumption DEF LoopInit
<1>2. RIInv
  BY <1>1, InitInv
<1>3. pc[me] = "idle" /\ op[me] = "close" /\ outcome[me] = "none"
  BY <1>1, OneClient DEF RIInit
<1> QED
  BY <1>2, <1>3 DEF LoopInit, LoopInv, LoopTypes, At, Program, CallResult, HookAfterAttach,
     Written, SurvivesInLoop, WheelNeedsPlc, WriteOutlivesHook

-----------------------------------------------------------------------------

\* Inside a call, before or after the hook: the input is left alone.
LEMMA ConnectingKeeps ==
    ASSUME LoopInv, Connecting, RIInv'
    PROVE  LoopInv'
<1> USE OneClient DEF Connecting, loop, LoopInv
<1>1. pc[me] # "idle"
  BY DEF Check, Build, Probe, TryAttach, Close
<1>2. LoopTypes' /\ at \in {"polling", "setting", "getting", "closing"}
  BY <1>1 DEF LoopTypes, Program, At
<1>3. Program'
  BY <1>2 DEF Program, Check, Build, Probe, TryAttach, Close, Drop, Forget, Attached,
     Proceed, CallMethod, Unavailable, Goto, Finish, record, RIInv, TypeOK
<1>4. CallResult'
  BY <1>2 DEF Program, CallResult, Check, Build, Probe, TryAttach, Close, Drop, Forget,
     Attached, Proceed, CallMethod, Unavailable, Goto, Finish, record, RIInv, TypeOK
<1>5. HookAfterAttach'
  BY DEF HookAfterAttach, Check, Build, Probe, TryAttach, Close, Attached,
     Proceed, CallMethod, Unavailable, Goto, Finish, record, RIInv, TypeOK, Cost
<1>6. Written' /\ WriteOutlivesHook'
  <2>1. attaches'[me] = 0 => attaches[me] = 0
    BY DEF Check, Build, Probe, TryAttach, Close, record, RIInv, TypeOK
  <2>2. ~Written' => at = "setting" /\ pc'[me] = "idle" /\ outcome'[me] = "ok"
    BY DEF Written
  <2>3. at = "setting" /\ pc'[me] = "idle" => outcome'[me] # "ok"
    BY DEF Program, Check, Build, Probe, TryAttach, Close, Attached,
       Proceed, CallMethod, Unavailable, Goto, Finish, RIInv, TypeOK
  <2> QED
    BY <1>2, <2>1, <2>2, <2>3 DEF WriteOutlivesHook
<1>7. SurvivesInLoop' /\ WheelNeedsPlc'
  BY <1>2 DEF SurvivesInLoop, WheelNeedsPlc
<1> QED
  BY <1>2, <1>3, <1>4, <1>5, <1>6, <1>7

\* The hook, or what it raises; it may clear the input, in a call that has attached.
LEMMA HookKeepsLoop ==
    ASSUME LoopInv, OnReconnect, RIInv'
    PROVE  LoopInv'
<1> USE OneClient DEF loop, LoopInv
<1>1. PICK a \in {"ok"} \cup FaultKinds :
          /\ Hook(me)
          /\ IF a = "ok" THEN Proceed(me) ELSE Finish(me, a)
          /\ WriteInput("off", a)
          /\ UNCHANGED loop
  BY Answers DEF OnReconnect
<1>2. /\ at \in {"polling", "setting", "getting", "closing"}
      /\ pc[me] = "hook" /\ op' = op /\ attaches' = attaches /\ attaches[me] # 0
      /\ inst' = inst
  BY <1>1 DEF Hook, HookAfterAttach, Program, LoopTypes, At, record, RIInv, TypeOK
<1>3. LoopTypes'
  BY <1>1 DEF LoopTypes, WriteInput
<1>4. Program' /\ CallResult' /\ HookAfterAttach'
  BY <1>1, <1>2 DEF Program, CallResult, HookAfterAttach, Hook, Proceed, CallMethod, Goto,
     Finish, FaultKinds, RIInv, TypeOK
<1>5. at = "setting" => pc'[me] # "idle" \/ outcome'[me] # "ok"
  BY <1>1, <1>2 DEF Program, Proceed, CallMethod, Goto, Finish, FaultKinds, RIInv, TypeOK
<1>6. Written' /\ WriteOutlivesHook' /\ SurvivesInLoop' /\ WheelNeedsPlc'
  BY <1>1, <1>2, <1>5 DEF Written, WriteOutlivesHook, SurvivesInLoop, WheelNeedsPlc
<1> QED
  BY <1>3, <1>4, <1>6

\* A write that succeeds stands; one that fails may stand too.
LEMMA InputOutputKeeps ==
    ASSUME LoopInv, InputOutput, RIInv'
    PROVE  LoopInv'
<1> USE OneClient DEF loop, LoopInv
<1>1. PICK a \in {"ok"} \cup FaultKinds :
          /\ Io(me)
          /\ answer'[me] = IF a = "ok" THEN "none" ELSE a
          /\ IF at = "setting" THEN WriteInput(sensed, a) ELSE UNCHANGED input
          /\ UNCHANGED loop
  BY Answers DEF InputOutput
<1>2. PICK b \in {"ok"} \cup FaultKinds :
          /\ answer' = [answer EXCEPT ![me] = IF b = "ok" THEN "none" ELSE b]
          /\ \/ Retries(me, b) /\ Reattach(me)
             \/ /\ ~Retries(me, b)
                /\ Finish(me, b)
                /\ UNCHANGED <<runtime, inst, hooked>>
  BY <1>1, Answers DEF Io
<1>3. a = b
  BY <1>1, <1>2 DEF FaultKinds, RIInv, TypeOK
<1>4. /\ at \in {"polling", "setting", "getting", "closing"}
      /\ pc[me] = "io" /\ op' = op /\ attaches' = attaches /\ inst[me] # 0
  BY <1>1 DEF Io, Program, LoopTypes, At, RIInv, Place
<1>5. LoopTypes'
  BY <1>1 DEF LoopTypes, WriteInput
<1>6. Program' /\ CallResult' /\ HookAfterAttach'
  BY <1>2, <1>1, <1>4 DEF Program, CallResult, HookAfterAttach, Retries, Reattach, Goto,
     Finish, FaultKinds, RIInv, TypeOK
<1>7. at = "setting" /\ pc'[me] = "idle" /\ outcome'[me] = "ok" => a = "ok"
  BY <1>2, <1>3 DEF Reattach, Goto, Finish, RIInv, TypeOK
<1>8. Written' /\ WriteOutlivesHook' /\ SurvivesInLoop' /\ WheelNeedsPlc'
  BY <1>1, <1>4, <1>7 DEF Written, WriteInput, WriteOutlivesHook, SurvivesInLoop, WheelNeedsPlc
<1> QED
  BY <1>5, <1>6, <1>8

\* main() between two calls, each action with what it may rely on.
LEMMA MainKeeps ==
    ASSUME LoopInv, RIInv',
           PollConnect \/ PollReturns \/ RobotStep \/ SetReturns \/ GetReturns
              \/ CallRaises \/ CloseReturns
    PROVE  LoopInv'
<1> USE OneClient DEF LoopInv
<1>1. CASE PollConnect
  BY <1>1 DEF PollConnect, Begin, Goto, LoopTypes, At, Program, CallResult, HookAfterAttach,
     Written, SurvivesInLoop, WheelNeedsPlc, WriteOutlivesHook, RIInv, TypeOK
<1>2. CASE PollReturns
  BY <1>2 DEF PollReturns, vars, client, conn, record, LoopTypes, At, Program, CallResult,
     HookAfterAttach, Written, SurvivesInLoop, WheelNeedsPlc, WriteOutlivesHook, RIInv, TypeOK
<1>3. CASE RobotStep
  BY <1>3 DEF RobotStep, Begin, Goto, conn, LoopTypes, At, Program, CallResult,
     HookAfterAttach, Written, SurvivesInLoop, WheelNeedsPlc, WriteOutlivesHook, RIInv, TypeOK
<1>4. CASE SetReturns
  BY <1>4 DEF SetReturns, Begin, Goto, conn, LoopTypes, At, Program, CallResult,
     HookAfterAttach, Written, SurvivesInLoop, WheelNeedsPlc, WriteOutlivesHook, RIInv, TypeOK
<1>5. CASE GetReturns
  BY <1>5 DEF GetReturns, vars, client, conn, record, LoopTypes, At, Program, CallResult,
     HookAfterAttach, Written, SurvivesInLoop, WheelNeedsPlc, WriteOutlivesHook
<1>6. CASE CallRaises
  BY <1>6 DEF CallRaises, Caught, Coast, vars, client, conn, record, LoopTypes, At, Program,
     CallResult, HookAfterAttach, Written, SurvivesInLoop, WheelNeedsPlc, WriteOutlivesHook
<1>7. CASE CloseReturns
  BY <1>7 DEF CloseReturns, vars, client, conn, record, LoopTypes, At, Program, CallResult,
     HookAfterAttach, Written, SurvivesInLoop, WheelNeedsPlc, WriteOutlivesHook
<1> QED
  BY <1>1, <1>2, <1>3, <1>4, <1>5, <1>6, <1>7

\* The world takes the input away with its PLC and touches nothing else.
LEMMA WorldKeepsLoop ==
    ASSUME LoopInv, World, RIInv'
    PROVE  LoopInv'
<1>1. input' \in {input, "lost"} /\ UNCHANGED <<client, loop>>
  BY DEF World
<1> QED
  BY <1>1 DEF client, conn, record, loop, LoopInv, LoopTypes, Program, CallResult,
     HookAfterAttach, Written, SurvivesInLoop, WheelNeedsPlc, WriteOutlivesHook

-----------------------------------------------------------------------------

\* The controller, its calls and the input of the PLC agree at every step.
THEOREM LoopInvariant == LoopSpec => []LoopInv
<1>1. LoopInv /\ [LoopNext]_loopvars => LoopInv'
  <2> SUFFICES ASSUME LoopInv, [LoopNext]_loopvars PROVE LoopInv'
    OBVIOUS
  <2>1. RIInv'
    BY ControllerIsClient, StepKeeps DEF LoopInv
  <2>2. CASE UNCHANGED loopvars
    BY <2>1, <2>2 DEF loopvars, vars, client, conn, record, loop, LoopInv, LoopTypes, Program,
       CallResult, HookAfterAttach, Written, SurvivesInLoop, WheelNeedsPlc, WriteOutlivesHook
  <2> QED
    BY <2>1, <2>2, ConnectingKeeps, HookKeepsLoop, InputOutputKeeps, MainKeeps, WorldKeepsLoop
       DEF LoopNext, Controller
<1> QED
  BY LoopInitInv, <1>1, PTL DEF LoopSpec

\* Type correctness.
THEOREM LoopTypeCorrect == LoopSpec => []LoopTypeOK
<1>1. LoopInv => LoopTypeOK
  BY DEF LoopInv, LoopTypes, LoopTypeOK, RIInv
<1> QED
  BY LoopInvariant, <1>1, PTL

\* What a restart brings about never ends a controller that is in its loop.
THEOREM ControllerSurvivesRestarts == LoopSpec => []SurvivesInLoop
<1>1. LoopInv => SurvivesInLoop
  BY DEF LoopInv
<1> QED
  BY LoopInvariant, <1>1, PTL

\* No wheel turns on an answer of an earlier step.
THEOREM WheelFollowsPlc == LoopSpec => []WheelNeedsPlc
<1>1. LoopInv => WheelNeedsPlc
  BY DEF LoopInv
<1> QED
  BY LoopInvariant, <1>1, PTL

\* The hook never undoes a write that has returned.
THEOREM WritesOutliveTheHook == LoopSpec => []WriteOutlivesHook
<1>1. LoopInv => WriteOutlivesHook
  BY DEF LoopInv
<1> QED
  BY LoopInvariant, <1>1, PTL

\* What is proved of a client's operations holds of the controller's.
THEOREM ControllerWorkIsBounded == LoopSpec => [](BoundedWork /\ HookBeforeIo)
<1>1. LoopInv => BoundedWork /\ HookBeforeIo
  BY DEF LoopInv, RIInv, TypeOK, Place, Cost, BoundedWork, HookBeforeIo
<1> QED
  BY LoopInvariant, <1>1, PTL

-----------------------------------------------------------------------------
(* Why the controller does not freeze. *)

\* How many native calls and decisions of main() lie at most before the next
\* robot.step(), or the end: after setAddressBit() comes getAddressBit(), which takes
\* twelve.
LoopLeft ==
    IF at \in {"polling", "getting", "closing"} THEN StepsLeft(me) + 1
    ELSE IF at = "setting" THEN StepsLeft(me) + 13
    ELSE 0

\* Between two calls of robot.step() the controller comes nearer to the second one, or
\* nothing of it moves.
LoopRunsDown ==
    [][(at \in {"polling", "setting", "getting", "closing"} =>
          LoopLeft' < LoopLeft \/ UNCHANGED <<client, loop>>)]_loopvars

\* "does not kill or freeze the controller" (di_do_controller.py:16), the second half:
\* whatever the PLC does, at most 24 steps lie between two calls of robot.step(), for
\* any bounds on the restarts and any failures.
THEOREM ControllerNeverFreezes == LoopSpec => [](LoopLeft \in 0 .. 24) /\ LoopRunsDown
<1> USE OneClient
<1>1. LoopInv => LoopLeft \in 0 .. 24
  BY StepsLeftBounds DEF LoopInv, RIInv, LoopLeft
<1>2. ASSUME LoopInv, [LoopNext]_loopvars, at \in {"polling", "setting", "getting", "closing"}
      PROVE  LoopLeft' < LoopLeft \/ UNCHANGED <<client, loop>>
  <2>1. CASE World \/ UNCHANGED loopvars
    BY <2>1 DEF World, loopvars, vars
  <2>2. CASE Connecting \/ OnReconnect \/ InputOutput
    <3>1. Step(me) /\ UNCHANGED loop
      BY <2>2 DEF Connecting, OnReconnect, InputOutput, Step
    <3>2. pc[me] # "sleep"
      BY <1>2 DEF LoopInv, Program, RIInv, Place
    <3>3. StepsLeft(me)' < StepsLeft(me)
      BY <1>2, <3>1, <3>2, StepLeadsOn DEF LoopInv
    <3>4. at' = at
      BY <3>1 DEF loop
    <3>5. RIInv'
      BY <1>2, ControllerIsClient, StepKeeps DEF LoopInv
    <3>6. StepsLeft(me) \in Nat /\ StepsLeft(me)' \in Nat
      BY <1>2, <3>5 DEF LoopInv, RIInv, TypeOK, StepsLeft
    <3> QED
      BY <1>2, <3>3, <3>4, <3>6 DEF LoopLeft
  <2>3. CASE PollReturns \/ GetReturns \/ CallRaises \/ CloseReturns
    BY <1>2, <2>3 DEF PollReturns, GetReturns, CallRaises, CloseReturns, LoopLeft, StepsLeft
  <2>4. CASE SetReturns
    BY <1>2, <2>4 DEF SetReturns, Begin, Goto, LoopLeft, StepsLeft, LoopInv, RIInv, TypeOK
  <2>5. ~(PollConnect \/ RobotStep)
    BY <1>2 DEF PollConnect, RobotStep
  <2> QED
    BY <1>2, <2>1, <2>2, <2>3, <2>4, <2>5 DEF LoopNext, Controller
<1>3. LoopInv /\ [LoopNext]_loopvars
        => [(at \in {"polling", "setting", "getting", "closing"} =>
               LoopLeft' < LoopLeft \/ UNCHANGED <<client, loop>>)]_loopvars
  BY <1>2
<1> QED
  BY LoopInvariant, <1>1, <1>3, PTL DEF LoopSpec, LoopRunsDown

=============================================================================
