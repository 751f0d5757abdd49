--------------------------- MODULE SimulationLoop ---------------------------
(***************************************************************************)
(* The Webots controller examples/webots/di_do_controller.py: a robot that *)
(* tells the PLC about an obstacle and lets the PLC decide whether its     *)
(* wheel turns, over one ReconnectingInstance, for as long as the          *)
(* simulation runs. Each step of the loop writes the sensor to an input of *)
(* the PLC and reads an output into the motor.                             *)
(*                                                                         *)
(* The hook is the controller's: it clears the input bit of every instance *)
(* it is given. What the PLC's own program answers is left open.           *)
(***************************************************************************)
EXTENDS ReconnectingInstance

CONSTANT ControlPanel   \* whether it runs when the controller is started

ASSUME SimulationLoopAssumption ==
    /\ \E c \in Client : Client = {c}
    /\ {"poll", "call", "close"} \subseteq Ops
    /\ ControlPanel \subseteq BOOLEAN

me == CHOOSE c \in Client : TRUE

VARIABLES
    at,       \* where main() is: before, in or after a call to the instance
    sensed,   \* the sensor bit of the step
    motor,    \* the wheel turns
    input     \* the input bit in the PLC, "lost" after it was switched or replaced

loop == <<at, sensed, motor>>
loopvars == <<vars, loop, input>>

At == {"startup", "polling", "step", "setting", "getting", "closing", "ended", "died"}

LoopInit ==
    /\ \E alreadyUp \in ControlPanel : RIInit(alreadyUp)
    /\ at = "startup"
    /\ sensed = "off"
    /\ motor = FALSE
    /\ input = "lost"

-----------------------------------------------------------------------------
(* Calls through the instance. *)

\* A write that fails on a PLC that is there may have been carried out all the
\* same: a timeout does not tell.
WriteInput(v, a) ==
    input' \in (IF a = "ok" THEN {v} ELSE {input})
               \cup (IF inst[me] = plc /\ running THEN {v} ELSE {})

\* on_reconnect(): operating_state, which reports no error, then
\* setAddressBit(SENSOR_INPUT_BIT, False), past the wrapper.
OnReconnect ==
    \E a \in IoResults(inst[me]) :
        /\ Hook(me)
        /\ IF a = "ok" THEN Proceed(me) ELSE Finish(me, a)
        /\ WriteInput("off", a)
        /\ UNCHANGED loop

InputOutput ==
    \E a \in IoResults(inst[me]) :
        /\ Io(me)
        /\ answer'[me] = IF a = "ok" THEN "none" ELSE a
        /\ IF at = "setting" THEN WriteInput(sensed, a) ELSE UNCHANGED input
        /\ UNCHANGED loop

Connecting ==
    /\ Check(me) \/ Build(me) \/ Probe(me) \/ TryAttach(me) \/ Close(me)
    /\ UNCHANGED <<loop, input>>

-----------------------------------------------------------------------------
(* main() *)

\* while not plc.poll_connect(): robot.step(2000)
PollConnect ==
    /\ at = "startup"
    /\ Begin(me, "poll")
    /\ at' = "polling"
    /\ UNCHANGED <<sensed, motor, input>>

\* No try surrounds the call: what poll_connect() or the hook raises ends main().
PollReturns ==
    /\ at = "polling"
    /\ pc[me] = "idle"
    /\ \/ outcome[me] = "attached" /\ at' = "step"
       \/ outcome[me] = "not_attached" /\ at' = "startup"
       \/ outcome[me] \notin {"attached", "not_attached"} /\ at' = "died"
    /\ UNCHANGED <<vars, sensed, motor, input>>

\* robot.step(timestep): a new value of the sensor to write, or the simulation is
\* over and the instance is closed.
RobotStep ==
    /\ at = "step"
    /\ \/ /\ Begin(me, "call")
          /\ at' = "setting"
          /\ sensed' \in {"on", "off"}
       \/ /\ Begin(me, "close")
          /\ at' = "closing"
          /\ UNCHANGED sensed
    /\ UNCHANGED <<motor, input>>

\* plc.setAddressBit() has returned: plc.getAddressBit().
SetReturns ==
    /\ at = "setting"
    /\ pc[me] = "idle"
    /\ outcome[me] = "ok"
    /\ Begin(me, "call")
    /\ at' = "getting"
    /\ UNCHANGED <<sensed, motor, input>>

\* motor.setVelocity() follows the answer.
GetReturns ==
    /\ at = "getting"
    /\ pc[me] = "idle"
    /\ outcome[me] = "ok"
    /\ motor' \in BOOLEAN
    /\ at' = "step"
    /\ UNCHANGED <<vars, sensed, input>>

\* except plcsim.RetryableError
\* (mutant: NotConnectedError is not a RetryableError)
Caught_NotConnectedEscapes == {"retryable", "unavailable"}
Caught == {"retryable", "unavailable", "not_connected"}

\* (mutant: only a failed read stops the wheel)
Coast_AfterReadOnly == motor' = (motor /\ at = "setting")
Coast == motor' = FALSE

CallRaises ==
    /\ at \in {"setting", "getting"}
    /\ pc[me] = "idle"
    /\ outcome[me] # "ok"
    /\ \/ outcome[me] \in Caught /\ Coast /\ at' = "step"
       \/ outcome[me] \notin Caught /\ UNCHANGED motor /\ at' = "died"
    /\ UNCHANGED <<vars, sensed, input>>

CloseReturns ==
    /\ at = "closing"
    /\ pc[me] = "idle"
    /\ at' = "ended"
    /\ UNCHANGED <<vars, sensed, motor, input>>

-----------------------------------------------------------------------------

Controller ==
    \/ PollConnect \/ PollReturns \/ RobotStep \/ SetReturns \/ GetReturns
    \/ CallRaises \/ CloseReturns
    \/ Connecting \/ OnReconnect \/ InputOutput

World ==
    /\ WorldStep
    /\ input' = IF <<plc, running>>' = <<plc, running>> THEN input ELSE "lost"
    /\ UNCHANGED <<bound, client, loop>>

LoopNext == Controller \/ World

LoopSpec == LoopInit /\ [][LoopNext]_loopvars

\* One thread, and SDK calls return.
LoopFairSpec == LoopSpec /\ WF_loopvars(Controller)

-----------------------------------------------------------------------------

LoopTypeOK ==
    /\ TypeOK
    /\ at \in At
    /\ sensed \in {"on", "off"}
    /\ motor \in BOOLEAN
    /\ input \in {"on", "off", "lost"}

\* "restarting the PLC ... does not kill ... the controller"
\* (di_do_controller.py:16): once in its loop, it dies of a fatal error only. What
\* a restart brings about, inside the call, in the reconnect or in the hook, is
\* caught.
SurvivesInLoop == at = "died" => op[me] = "poll" \/ outcome[me] = "fatal"

\* "lost connection, coasting": no step of the loop ends with the wheel turning
\* unless the PLC was asked in that step and answered, through an instance that
\* is still held.
WheelNeedsPlc == at = "step" /\ motor => outcome[me] = "ok" /\ inst[me] # 0

\* "keeps the controller and the PLC from disagreeing" (di_do_controller.py:39):
\* the bit the hook clears never stands against a write that has returned. When
\* setAddressBit() is done, at the first attempt or through a new instance, the
\* PLC has the sensor's value, until it is restarted or getAddressBit() attaches
\* anew and the hook runs again.
WriteOutlivesHook ==
    (at = "getting" \/ (at = "step" /\ outcome[me] = "ok")) /\ attaches[me] = 0
        => input \in {sensed, "lost"}

\* The SDK has stopped failing for no reason.
SdkWorks ==
    <>[][/\ pc[me] = "build" /\ up => pc'[me] \in {"build", "probe"}
         /\ pc[me] = "attach" /\ ManagerAnswers /\ plc # 0 => pc'[me] \in {"attach", "hook"}
         /\ pc[me] = "hook" /\ inst[me] = plc /\ running =>
               pc'[me] \in {"hook", "io"} \/ outcome'[me] = "attached"
         /\ pc[me] = "io" /\ inst[me] = plc /\ running => pc'[me] = "io" \/ outcome'[me] = "ok"
        ]_loopvars

\* Once the Runtime Manager, the PLC and its power stay, whatever happened before,
\* every step of the loop talks to the PLC: no restart leaves a controller behind
\* that coasts for ever.
StepsSucceedAgain ==
    <>[]Ready /\ SdkWorks => <>[](at = "step" => outcome[me] = "ok")

-----------------------------------------------------------------------------
(* What the documentation says of the same operations. *)

\* "restarting the PLC - or it not being up yet at all - does not kill or freeze
\* the controller" (di_do_controller.py:16), where the Control Panel runs.
ControllerSurvives == at # "died"

=============================================================================
