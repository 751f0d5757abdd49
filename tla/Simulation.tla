----------------------------- MODULE Simulation -----------------------------
(***************************************************************************)
(* The world outside the process, as far as the Python package can see it: *)
(* the Runtime Manager, one simulated PLC, and what the bridge's calls     *)
(* answer in each of their states. None of it is code of this repository   *)
(* except the translation of the answers into errors, which follows        *)
(* SdkBridge.cpp.                                                          *)
(*                                                                         *)
(* A manager pointer belongs to the run of the Runtime Manager it was      *)
(* initialised for: "A dropped Runtime Manager invalidates the manager     *)
(* handle too" (__init__.py:356). Interfaces belong to one registration of *)
(* the PLC.                                                                *)
(***************************************************************************)
EXTENDS Naturals

CONSTANTS
    MaxEpoch,   \* bound on the restarts of the Runtime Manager
    MaxPlc,     \* bound on the registrations of the PLC
    Faults      \* errors any SDK call may also answer: a subset of FaultKinds

\* A retryable code such as SREC_TIMEOUT, and one no retry will cure.
FaultKinds == {"retryable", "fatal"}

ASSUME SimulationAssumption ==
    MaxEpoch \in Nat /\ MaxPlc \in Nat /\ Faults \subseteq FaultKinds

VARIABLES
    up,        \* the Runtime Manager runs
    epoch,     \* how often it has stopped
    plc,       \* the registration of the PLC, 0 when none
    made,      \* registrations so far
    running,   \* the PLC has a configuration loaded and is powered on
    bound      \* the epoch g_api_manager was initialised in

world == <<up, epoch, plc, made, running>>

WorldInit(alreadyUp) ==
    /\ up = alreadyUp
    /\ epoch = 0
    /\ plc = 0
    /\ made = 0
    /\ running = FALSE
    /\ bound = 0

RuntimeManagerStarts ==
    /\ ~up
    /\ up' = TRUE
    /\ UNCHANGED <<epoch, plc, made, running>>

\* Its instances go with it.
RuntimeManagerStops ==
    /\ up
    /\ epoch < MaxEpoch
    /\ up' = FALSE
    /\ epoch' = epoch + 1
    /\ plc' = 0
    /\ running' = FALSE
    /\ UNCHANGED made

PlcRegistered ==
    /\ up
    /\ plc = 0
    /\ made < MaxPlc
    /\ made' = made + 1
    /\ plc' = made + 1
    /\ UNCHANGED <<up, epoch, running>>

PlcUnregistered ==
    /\ plc # 0
    /\ plc' = 0
    /\ running' = FALSE
    /\ UNCHANGED <<up, epoch, made>>

PlcPower ==
    /\ plc # 0
    /\ running' = ~running
    /\ UNCHANGED <<up, epoch, plc, made>>

WorldStep ==
    \/ RuntimeManagerStarts \/ RuntimeManagerStops
    \/ PlcRegistered \/ PlcUnregistered \/ PlcPower

\* The conditions every reconnect helper waits for.
Ready == up /\ plc # 0 /\ running

-----------------------------------------------------------------------------
(* What the bridge answers. *)

\* IsRuntimeManagerAvailable() through the process-wide manager pointer.
ManagerAnswers == up /\ bound = epoch

\* ApiHandle::acquire(): InitializeApi() only for the first handle.
BindManager(inUse) == bound' = IF inUse THEN bound ELSE epoch

\* try_attach(): an interface, nothing (any retryable error), or an exception.
AttachResults ==
    (IF ManagerAnswers /\ plc # 0 THEN {"instance"} ELSE {"nothing"})
        \cup (IF "retryable" \in Faults THEN {"nothing"} ELSE {})
        \cup (Faults \ {"retryable"})

\* An I/O call through the interface of registration i.
IoResults(i) ==
    (IF i = plc /\ running THEN {"ok"} ELSE {"retryable"}) \cup Faults

WorldTypeOK ==
    /\ up \in BOOLEAN
    /\ epoch \in 0 .. MaxEpoch
    /\ plc \in 0 .. MaxPlc
    /\ made \in plc .. MaxPlc
    /\ running \in BOOLEAN
    /\ bound \in 0 .. epoch

=============================================================================
