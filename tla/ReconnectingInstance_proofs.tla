--------------------- MODULE ReconnectingInstance_proofs ---------------------
(***************************************************************************)
(* Proofs about ReconnectingInstance, for any set of clients and bounds on *)
(* the world, any faults of the SDK and any hook.                          *)
(*                                                                         *)
(* The argument: Place says what is known of a client at each point of an  *)
(* operation, above all that the counters are tied to the program counter. *)
(* A step moves one client, so it keeps the Place of the others; the       *)
(* session is the only thing the clients share.                            *)
(***************************************************************************)
EXTENDS ReconnectingInstance, TLAPS

-----------------------------------------------------------------------------

\* Between the reaction to a lost connection and the next attached instance.
Attaching == {"build", "probe", "attach", "sleep"}

\* What is known of a client from the place it has reached.
Place(c) ==
    /\ pc[c] \in Attaching => inst[c] = 0
    /\ pc[c] \in {"attach", "sleep"} => runtime[c]
    /\ pc[c] \in {"hook", "io", "state"} => inst[c] # 0
    /\ inst[c] # 0 => runtime[c] /\ (hooked[c] \/ pc[c] = "hook")
    /\ pc[c] \in {"io", "state"} => hooked[c]
    /\ pc[c] = "io" => op[c] = "call"
    /\ pc[c] = "sleep" => op[c] = "connect"
    /\ pc[c] = "state" => op[c] = "state"
    /\ pc[c] # "idle" => (pc[c] = "close" <=> op[c] = "close")
    /\ inst[c] = 0 => ~hooked[c]
    /\ pc[c] \in {"check", "hook", "io"} => answer[c] = "none"
    /\ answer[c] = "fatal" => pc[c] = "idle" /\ outcome[c] = "fatal" /\ inst[c] # 0

\* What the operation has cost when it gets there.
Cost(c) ==
    /\ op[c] # "call" => ios[c] = 0 /\ builds[c] <= 1
    /\ pc[c] = "check" => ios[c] = 0 /\ builds[c] = 0
    /\ pc[c] = "build" => builds[c] <= ios[c]
    /\ pc[c] # "idle" => ios[c] <= 1 /\ builds[c] <= ios[c] + 1
    /\ attaches[c] <= builds[c]
    /\ pc[c] \in {"probe", "attach", "sleep"} => builds[c] >= 1
    /\ pc[c] \in {"probe", "attach"} /\ op[c] # "connect" => attaches[c] < builds[c]

\* No client is attached to the PLC that runs through a session of an older run
\* of the Runtime Manager.
Session == \A c \in Client : inst[c] # 0 /\ inst[c] = plc => bound = epoch

RIInv ==
    /\ TypeOK
    /\ \A c \in Client : Place(c) /\ Cost(c)
    /\ Session

-----------------------------------------------------------------------------

\* The SDK answers with success or an error of one of two kinds.
LEMMA Answers ==
    /\ \A i : IoResults(i) \subseteq {"ok"} \cup FaultKinds
    /\ "instance" \in AttachResults => ManagerAnswers /\ plc # 0
  BY SimulationAssumption DEF IoResults, AttachResults, FaultKinds

\* A client no variable of which has moved is where it was.
LEMMA OthersStay ==
    ASSUME RIInv, NEW c \in Client,
           inst'[c] = inst[c], runtime'[c] = runtime[c], hooked'[c] = hooked[c],
           pc'[c] = pc[c], op'[c] = op[c], outcome'[c] = outcome[c],
           builds'[c] = builds[c], attaches'[c] = attaches[c], ios'[c] = ios[c],
           answer'[c] = answer[c]
    PROVE  Place(c)' /\ Cost(c)'
  BY DEF RIInv, Place, Cost

LEMMA InitInv ==
    ASSUME NEW alreadyUp \in BOOLEAN, RIInit(alreadyUp)
    PROVE  RIInv
<1>1. TypeOK
  <2>1. up \in BOOLEAN /\ running \in BOOLEAN
    BY DEF RIInit, WorldInit
  <2>2. WorldTypeOK
    BY <2>1, SimulationAssumption DEF RIInit, WorldInit, WorldTypeOK
  <2> QED
    BY <2>2 DEF RIInit, WorldInit, TypeOK, AllOps, PC, Outcomes
<1>2. Session /\ \A c \in Client : Place(c) /\ Cost(c)
  BY DEF RIInit, WorldInit, Session, Place, Cost, Attaching
<1> QED
  BY <1>1, <1>2 DEF RIInv

\* A new operation starts from nothing.
LEMMA BeginKeeps ==
    ASSUME RIInv, NEW c \in Client, NEW o \in Ops, Begin(c, o)
    PROVE  RIInv'
<1> USE DEF Begin, Goto, conn, world
<1>1. TypeOK'
  BY ReconnectingAssumption DEF RIInv, TypeOK, WorldTypeOK, PC, AllOps
<1>2. Place(c)' /\ Cost(c)'
  BY DEF RIInv, TypeOK, Place, Cost, Attaching
<1>3. \A d \in Client \ {c} : Place(d)' /\ Cost(d)'
  BY OthersStay DEF RIInv, TypeOK
<1>4. Session'
  BY DEF RIInv, Session
<1> QED
  BY <1>1, <1>2, <1>3, <1>4 DEF RIInv

LEMMA CheckKeeps ==
    ASSUME RIInv, NEW c \in Client, Check(c)
    PROVE  RIInv'
<1> USE DEF Check, Drop, Forget, Proceed, CallMethod, Goto, Finish, conn, record,
    world
<1>1. TypeOK'
  <2>1. WorldTypeOK'
    BY DEF RIInv, TypeOK, WorldTypeOK
  <2>2. CASE UNCHANGED conn /\ Proceed(c)
    BY <2>1, <2>2 DEF RIInv, TypeOK, PC, Outcomes
  <2>3. CASE Drop(c) /\ Goto(c, "build")
    BY <2>1, <2>3 DEF RIInv, TypeOK, WorldTypeOK, PC
  <2> QED
    BY <2>2, <2>3
<1>2. Place(c)' /\ Cost(c)'
  BY DEF RIInv, TypeOK, Place, Cost, Attaching, IsConnected
<1>3. \A d \in Client \ {c} : Place(d)' /\ Cost(d)'
  BY OthersStay DEF RIInv, TypeOK
<1>4. Session'
  BY DEF RIInv, TypeOK, Session
<1> QED
  BY <1>1, <1>2, <1>3, <1>4 DEF RIInv

\* Whoever is attached uses the API, so the session is not rebound under it.
LEMMA BuildKeeps ==
    ASSUME RIInv, NEW c \in Client, Build(c)
    PROVE  RIInv'
<1> USE DEF Build, Unavailable, Goto, Finish, conn, world
<1>1. TypeOK'
  <2>1. builds[c] + 1 \in 0 .. 2
    BY DEF RIInv, TypeOK, Cost
  <2> QED
    BY <2>1 DEF RIInv, TypeOK, WorldTypeOK, PC, Outcomes, FaultKinds, BindManager
<1>2. Place(c)' /\ Cost(c)'
  BY DEF RIInv, TypeOK, Place, Cost, Attaching
<1>3. \A d \in Client \ {c} : Place(d)' /\ Cost(d)'
  BY OthersStay DEF RIInv, TypeOK
<1>4. Session'
  BY DEF RIInv, Session, BindManager, ApiInUse
<1> QED
  BY <1>1, <1>2, <1>3, <1>4 DEF RIInv

LEMMA ProbeKeeps ==
    ASSUME RIInv, NEW c \in Client, Probe(c)
    PROVE  RIInv'
<1> USE DEF Probe, Unavailable, Goto, Finish, record, world
<1>1. TypeOK'
  BY DEF RIInv, TypeOK, WorldTypeOK, PC, Outcomes
<1>2. Place(c)' /\ Cost(c)'
  BY DEF RIInv, TypeOK, Place, Cost, Attaching
<1>3. \A d \in Client \ {c} : Place(d)' /\ Cost(d)'
  BY OthersStay DEF RIInv, TypeOK
<1>4. Session'
  BY DEF RIInv, Session
<1> QED
  BY <1>1, <1>2, <1>3, <1>4 DEF RIInv

\* An interface is made only through a pointer that answers: the session is that
\* of the Runtime Manager that runs.
LEMMA TryAttachKeeps ==
    ASSUME RIInv, NEW c \in Client, TryAttach(c)
    PROVE  RIInv'
<1> USE DEF TryAttach, Attached, Goto, Finish, world
<1>1. TypeOK'
  <2>1. attaches[c] + 1 \in 0 .. 2 \/ op[c] = "connect"
    BY DEF RIInv, TypeOK, Cost
  <2> QED
    BY <2>1 DEF RIInv, TypeOK, WorldTypeOK, PC, Outcomes, FaultKinds
<1>2. Place(c)'
  <2>1. inst[c] = 0 /\ (pc'[c] = "hook" => inst'[c] # 0 /\ runtime[c])
    BY Answers DEF RIInv, TypeOK, Place, Attaching, Cost
  <2> QED
    BY <2>1 DEF RIInv, TypeOK, Place, Attaching, FaultKinds
<1>3. Cost(c)'
  BY DEF RIInv, TypeOK, Cost
<1>4. \A d \in Client \ {c} : Place(d)' /\ Cost(d)'
  BY OthersStay DEF RIInv, TypeOK
<1>5. Session'
  BY Answers DEF RIInv, TypeOK, Session, ManagerAnswers
<1> QED
  BY <1>1, <1>2, <1>3, <1>4, <1>5 DEF RIInv

LEMMA SleepKeeps ==
    ASSUME RIInv, NEW c \in Client, Sleep(c)
    PROVE  RIInv'
<1> USE DEF Sleep, Goto, Finish, conn, record, world
<1>1. TypeOK'
  BY DEF RIInv, TypeOK, WorldTypeOK, PC, Outcomes
<1>2. Place(c)' /\ Cost(c)'
  BY DEF RIInv, TypeOK, Place, Cost, Attaching
<1>3. \A d \in Client \ {c} : Place(d)' /\ Cost(d)'
  BY OthersStay DEF RIInv, TypeOK
<1>4. Session'
  BY DEF RIInv, Session
<1> QED
  BY <1>1, <1>2, <1>3, <1>4 DEF RIInv

LEMMA HookKeeps ==
    ASSUME RIInv, NEW c \in Client, Hook(c)
    PROVE  RIInv'
<1> USE DEF Hook, Proceed, CallMethod, MayFlagRemoved, Goto, Finish, record, world
<1>1. TypeOK'
  <2>1. WorldTypeOK'
    BY DEF RIInv, TypeOK, WorldTypeOK
  <2>2. removed' \in [Client -> BOOLEAN]
    BY DEF RIInv, TypeOK
  <2>3. HookErrors \subseteq Outcomes
    BY ReconnectingAssumption DEF Outcomes
  <2> QED
    BY <2>1, <2>2, <2>3 DEF RIInv, TypeOK, PC, Outcomes
<1>2. Place(c)' /\ Cost(c)'
  BY DEF RIInv, TypeOK, Place, Cost, Attaching
<1>3. \A d \in Client \ {c} : Place(d)' /\ Cost(d)'
  BY OthersStay DEF RIInv, TypeOK
<1>4. Session'
  BY DEF RIInv, Session
<1> QED
  BY <1>1, <1>2, <1>3, <1>4 DEF RIInv

\* The first retryable failure drops the instance, everything else ends the call.
LEMMA IoKeeps ==
    ASSUME RIInv, NEW c \in Client, Io(c)
    PROVE  RIInv'
<1> USE DEF Io, world
<1>1. PICK a \in {"ok"} \cup FaultKinds :
          /\ answer' = [answer EXCEPT ![c] = IF a = "ok" THEN "none" ELSE a]
          /\ \/ Retries(c, a) /\ Reattach(c)
             \/ /\ ~Retries(c, a)
                /\ Finish(c, a)
                /\ IF a = "retryable" THEN MayFlagRemoved(c) ELSE UNCHANGED removed
                /\ UNCHANGED <<runtime, inst, hooked>>
  BY Answers
<1> USE DEF Retries, Reattach, Drop, Forget, MayFlagRemoved, Goto, Finish, FaultKinds
<1>2. TypeOK'
  <2>1. ios[c] + 1 \in 0 .. 2
    BY DEF RIInv, TypeOK, Cost
  <2>2. WorldTypeOK'
    BY DEF RIInv, TypeOK, WorldTypeOK
  <2>3. removed' \in [Client -> BOOLEAN]
    <3>1. removed \in [Client -> BOOLEAN]
      BY DEF RIInv, TypeOK
    <3>2. \/ removed' = removed
          \/ removed' = [removed EXCEPT ![c] = FALSE]
          \/ removed' = [removed EXCEPT ![c] = inst[c] # plc]
      BY <1>1
    <3> QED
      BY <3>1, <3>2
  <2>4. inst' \in [Client -> 0 .. made]
    BY <1>1 DEF RIInv, TypeOK, WorldTypeOK
  <2>5. runtime' \in [Client -> BOOLEAN] /\ hooked' \in [Client -> BOOLEAN]
    BY <1>1 DEF RIInv, TypeOK
  <2>6. pc' \in [Client -> PC] /\ outcome' \in [Client -> Outcomes]
    BY <1>1 DEF RIInv, TypeOK, PC, Outcomes
  <2>7. answer' \in [Client -> {"none"} \cup FaultKinds] /\ ios' \in [Client -> 0 .. 2]
    BY <1>1, <2>1 DEF RIInv, TypeOK
  <2> QED
    BY <2>2, <2>3, <2>4, <2>5, <2>6, <2>7 DEF RIInv, TypeOK
<1>3. Place(c)'
  BY <1>1 DEF RIInv, TypeOK, Place, Attaching
<1>4. Cost(c)'
  BY <1>1 DEF RIInv, TypeOK, Place, Cost
<1>5. \A d \in Client \ {c} : Place(d)' /\ Cost(d)'
  BY <1>1, OthersStay DEF RIInv, TypeOK
<1>6. Session'
  BY <1>1 DEF RIInv, TypeOK, Session
<1> QED
  BY <1>2, <1>3, <1>4, <1>5, <1>6 DEF RIInv

LEMMA StateKeeps ==
    ASSUME RIInv, NEW c \in Client, State(c)
    PROVE  RIInv'
<1> USE DEF State, Finish, conn, record, world
<1>1. TypeOK'
  BY DEF RIInv, TypeOK, WorldTypeOK, PC, Outcomes
<1>2. Place(c)' /\ Cost(c)'
  BY DEF RIInv, TypeOK, Place, Cost, Attaching
<1>3. \A d \in Client \ {c} : Place(d)' /\ Cost(d)'
  BY OthersStay DEF RIInv, TypeOK
<1>4. Session'
  BY DEF RIInv, Session
<1> QED
  BY <1>1, <1>2, <1>3, <1>4 DEF RIInv

LEMMA CloseKeeps ==
    ASSUME RIInv, NEW c \in Client, Close(c)
    PROVE  RIInv'
<1> USE DEF Close, Drop, Forget, Finish, record, world
<1>1. TypeOK'
  BY DEF RIInv, TypeOK, WorldTypeOK, PC, Outcomes
<1>2. Place(c)' /\ Cost(c)'
  BY DEF RIInv, TypeOK, Place, Cost, Attaching
<1>3. \A d \in Client \ {c} : Place(d)' /\ Cost(d)'
  BY OthersStay DEF RIInv, TypeOK
<1>4. Session'
  BY DEF RIInv, TypeOK, Session
<1> QED
  BY <1>1, <1>2, <1>3, <1>4 DEF RIInv

\* A new run of the Runtime Manager has no PLC yet, and a new registration is
\* nobody's: the world never makes an old instance a current one.
LEMMA WorldKeeps ==
    ASSUME RIInv, WorldStep, UNCHANGED <<bound, client>>
    PROVE  RIInv'
<1> USE SimulationAssumption DEF WorldStep, RuntimeManagerStarts, RuntimeManagerStops,
    PlcRegistered, PlcUnregistered, PlcPower, client, conn, record
<1>1. WorldTypeOK' /\ made <= made'
  <2>1. up' \in BOOLEAN /\ running' \in BOOLEAN
    BY Zenon DEF RIInv, TypeOK, WorldTypeOK
  <2>2. /\ epoch' \in 0 .. MaxEpoch /\ plc' \in 0 .. MaxPlc
        /\ made' \in plc' .. MaxPlc /\ bound' \in 0 .. epoch' /\ made <= made'
    BY DEF RIInv, TypeOK, WorldTypeOK
  <2> QED
    BY <2>1, <2>2 DEF WorldTypeOK
<1>2. TypeOK'
  BY <1>1 DEF RIInv, TypeOK, WorldTypeOK
<1>3. \A c \in Client : Place(c)' /\ Cost(c)'
  BY OthersStay
<1>4. Session'
  <2> SUFFICES ASSUME NEW c \in Client, inst[c] # 0, inst[c] = plc'
               PROVE  bound = epoch'
    BY DEF Session
  <2>1. inst[c] \in 0 .. made /\ made \in Nat /\ plc \in Nat
    BY DEF RIInv, TypeOK, WorldTypeOK
  <2>2. plc' = plc /\ epoch' = epoch
    BY <2>1
  <2> QED
    BY <2>2 DEF RIInv, Session
<1> QED
  BY <1>2, <1>3, <1>4 DEF RIInv

-----------------------------------------------------------------------------

\* No step of a client, and none of the world, breaks the invariant.
LEMMA StepKeeps == RIInv /\ [Next]_vars => RIInv'
<1> SUFFICES ASSUME RIInv, [Next]_vars PROVE RIInv'
  OBVIOUS
<1>1. ASSUME NEW c \in Client, Step(c)
      PROVE  RIInv'
  BY <1>1, CheckKeeps, BuildKeeps, ProbeKeeps, TryAttachKeeps, SleepKeeps, HookKeeps,
     IoKeeps, StateKeeps, CloseKeeps DEF Step
<1>2. CASE UNCHANGED vars
  <2>1. TypeOK' /\ Session'
    BY <1>2 DEF vars, world, client, conn, record, RIInv, TypeOK, WorldTypeOK, Session
  <2>2. \A c \in Client : Place(c)' /\ Cost(c)'
    BY <1>2, OthersStay DEF vars, client, conn, record
  <2> QED
    BY <2>1, <2>2 DEF RIInv
<1> QED
  BY <1>1, <1>2, BeginKeeps, WorldKeeps DEF Next

\* The clients, their session and what their calls have cost agree whatever the
\* interleaving: the strengthening of the theorems below.
THEOREM Invariant == Spec => []RIInv
<1>1. Init => RIInv
  BY InitInv DEF Init
<1> QED
  BY <1>1, StepKeeps, PTL DEF Spec

\* Type correctness.
THEOREM TypeCorrect == Spec => []TypeOK
<1>1. RIInv => TypeOK
  BY DEF RIInv
<1> QED
  BY Invariant, <1>1, PTL

\* "One reconnect, one retry": at most two constructors, attempts and I/O calls.
THEOREM WorkIsBounded == Spec => []BoundedWork
<1>1. RIInv => BoundedWork
  BY DEF RIInv, TypeOK, Cost, BoundedWork
<1> QED
  BY Invariant, <1>1, PTL

\* on_reconnect has seen an instance before any value goes through it.
THEOREM HookComesFirst == Spec => []HookBeforeIo
<1>1. RIInv => HookBeforeIo
  BY DEF RIInv, Place, HookBeforeIo
<1> QED
  BY Invariant, <1>1, PTL

\* No call is retried through the handle it failed on.
THEOREM RetriesAreFresh == Spec => []RetryOnFreshInstance
<1>1. RIInv => RetryOnFreshInstance
  BY DEF RIInv, Place, RetryOnFreshInstance
<1> QED
  BY Invariant, <1>1, PTL

\* Non-retryable errors propagate untouched and cost no connection.
THEOREM FatalErrorsEndCalls == Spec => []FatalEndsCall
<1>1. RIInv => FatalEndsCall
  BY DEF RIInv, Place, FatalEndsCall
<1> QED
  BY Invariant, <1>1, PTL

\* An attached instance belongs to the session its client and the others share.
THEOREM InstancesBelongToSession == Spec => []InstanceBelongsToSession
<1>1. RIInv => InstanceBelongsToSession
  BY DEF RIInv, Place, Session, InstanceBelongsToSession
<1> QED
  BY Invariant, <1>1, PTL

-----------------------------------------------------------------------------
(* The refinement of Reconnection. *)

Links == [c \in Client |-> Link(c)]
Busy == [c \in Client |-> pc[c] # "idle"]

\* How a step of one client looks from outside.
LEMMA OneLinkMoves ==
    ASSUME NEW c \in Client,
           \A d \in Client \ {c} : inst'[d] = inst[d] /\ hooked'[d] = hooked[d]
    PROVE  Links' = [Links EXCEPT ![c] = Link(c)']
  BY DEF Links, Link

\* A step that neither ends an operation nor changes the link is invisible.
LEMMA GotoStutters ==
    ASSUME TypeOK, NEW c \in Client, NEW to \in PC \ {"idle"}, pc[c] # "idle",
           Goto(c, to), op' = op, Links' = Links
    PROVE  UNCHANGED Caller!vars
<1>1. Busy' = Busy
  BY DEF Goto, Busy, TypeOK
<1> QED
  BY <1>1 DEF Goto, Caller!vars, Links, Busy

LEMMA GotoRelinks ==
    ASSUME TypeOK, NEW c \in Client, NEW to \in PC \ {"idle"}, pc[c] # "idle",
           Goto(c, to), op' = op, Links' = [Links EXCEPT ![c] = Link(c)'],
           <<Link(c), Link(c)'>> \in {<<"ready", "none">>, <<"none", "new">>, <<"new", "ready">>}
    PROVE  Caller!Relink(c)
<1>1. Busy' = Busy /\ Busy[c] /\ Links[c] = Link(c)
  BY DEF Goto, Busy, Links, TypeOK
<1> QED
  BY <1>1 DEF Goto, Caller!Relink, Links, Busy

LEMMA FinishEnds ==
    ASSUME TypeOK, NEW c \in Client, NEW r, NEW after, pc[c] # "idle", Finish(c, r),
           op' = op, Links' = [Links EXCEPT ![c] = Link(c)'], Link(c)' = after
    PROVE  Caller!End(c, r, after)
<1>1. Busy' = [Busy EXCEPT ![c] = FALSE] /\ Busy[c]
  BY DEF Finish, Busy, TypeOK
<1> QED
  BY <1>1 DEF Finish, Caller!End, Links, Busy

\* What remains to be said of a client's step: how its own link and its operation
\* go on.
LEMMA EndsAre ==
    ASSUME TypeOK, NEW c \in Client, NEW r, NEW after, Caller!End(c, r, after),
           \/ /\ op[c] # "close" /\ r = Caller!Success[op[c]] /\ after = "ready"
              /\ \/ Link(c) = "ready"
                 \/ Link(c) = "new" /\ op[c] \in {"poll", "connect"}
           \/ /\ r = Caller!Absence[op[c]] /\ after = "none"
              /\ Link(c) = "none" \/ op[c] = "close"
           \/ op[c] # "close" /\ r = "unavailable" /\ Link(c) = "none" /\ after = "none"
           \/ /\ op[c] # "close" /\ r \in FaultKinds
              /\ r = "retryable" => Link(c) # "none"
              /\ after = IF Link(c) = "none" THEN "none" ELSE "ready"
    PROVE  Caller!Next
<1>1. op[c] \in AllOps /\ Links[c] = Link(c)
  BY DEF TypeOK, Links
<1>2. CASE /\ op[c] # "close" /\ r = Caller!Success[op[c]] /\ after = "ready"
           /\ \/ Link(c) = "ready"
              \/ Link(c) = "new" /\ op[c] \in {"poll", "connect"}
  <2>1. Caller!Succeed(c)
    BY <1>1, <1>2 DEF Caller!Succeed, Links
  <2> QED
    BY <2>1 DEF Caller!Next
<1>3. CASE /\ r = Caller!Absence[op[c]] /\ after = "none"
           /\ Link(c) = "none" \/ op[c] = "close"
  <2>1. Caller!GiveUp(c)
    BY <1>1, <1>3 DEF Caller!GiveUp, Links
  <2> QED
    BY <2>1 DEF Caller!Next
<1>4. CASE op[c] # "close" /\ r = "unavailable" /\ Link(c) = "none" /\ after = "none"
  <2>1. Caller!Unavailable(c)
    BY <1>1, <1>4 DEF Caller!Unavailable, Links
  <2> QED
    BY <2>1 DEF Caller!Next
<1>5. CASE /\ op[c] # "close" /\ r \in FaultKinds
           /\ r = "retryable" => Link(c) # "none"
           /\ after = IF Link(c) = "none" THEN "none" ELSE "ready"
  <2>1. Caller!End(c, r, IF Links[c] = "none" THEN "none" ELSE "ready")
    BY <1>1, <1>5 DEF Caller!End
  <2>2. r \in {"retryable", "fatal"} /\ (r = "retryable" => Links[c] # "none")
    BY <1>1, <1>5 DEF FaultKinds
  <2>3. Caller!Fail(c)
    BY <1>5, <2>1, <2>2, Zenon DEF Caller!Fail, Links
  <2> QED
    BY <2>3 DEF Caller!Next
<1> QED
  BY <1>2, <1>3, <1>4, <1>5

LEMMA CheckRefines ==
    ASSUME RIInv, NEW c \in Client, Check(c)
    PROVE  Caller!Next \/ UNCHANGED Caller!vars
<1>1. TypeOK /\ Place(c) /\ pc[c] = "check" /\ op' = op /\ op[c] # "close"
  BY DEF RIInv, Check, Place
<1>2. CASE Proceed(c) /\ UNCHANGED conn /\ IsConnected(c)
  <2>1. Links' = Links /\ Links' = [Links EXCEPT ![c] = Link(c)']
    BY <1>2, OneLinkMoves DEF conn, Links, Link
  <2>2. Link(c) = "ready" /\ Link(c)' = "ready"
    BY <1>1, <1>2 DEF conn, Link, Place, IsConnected
  <2>3. CASE Goto(c, "io") \/ Goto(c, "state")
    BY <1>1, <2>1, <2>3, GotoStutters DEF PC
  <2>4. CASE op[c] \in {"poll", "connect"} /\ Finish(c, "attached")
    BY <1>1, <2>1, <2>2, <2>4, FinishEnds, EndsAre DEF Caller!Success
  <2> QED
    BY <1>2, <2>3, <2>4 DEF Proceed, CallMethod
<1>3. CASE Drop(c) /\ Goto(c, "build")
  <2>1. Links' = [Links EXCEPT ![c] = Link(c)'] /\ Link(c)' = "none"
    BY <1>1, <1>3, OneLinkMoves DEF Drop, Forget, Link, TypeOK
  <2>2. CASE Link(c) = "none"
    BY <1>1, <1>3, <2>1, <2>2, GotoStutters DEF PC, Links
  <2>3. CASE Link(c) = "ready"
    BY <1>1, <1>3, <2>1, <2>3, GotoRelinks DEF PC, Caller!Next
  <2> QED
    BY <1>1, <2>2, <2>3 DEF Link, Place
<1> QED
  BY <1>2, <1>3 DEF Check

LEMMA BuildRefines ==
    ASSUME RIInv, NEW c \in Client, Build(c) \/ Probe(c)
    PROVE  Caller!Next \/ UNCHANGED Caller!vars
<1>1. TypeOK /\ Place(c) /\ pc[c] \in {"build", "probe"} /\ op' = op /\ op[c] # "close"
  BY DEF RIInv, Build, Probe, Place
<1>2. Links' = Links /\ Links' = [Links EXCEPT ![c] = Link(c)'] /\ Link(c) = "none"
      /\ Link(c)' = "none"
  BY <1>1, OneLinkMoves DEF Build, Probe, conn, Links, Link, Place, Attaching
<1>3. \/ Goto(c, "probe") \/ Goto(c, "attach")
      \/ Finish(c, "unavailable") \/ Finish(c, "fatal")
  BY DEF Build, Probe, Unavailable
<1>4. CASE Goto(c, "probe") \/ Goto(c, "attach")
  BY <1>1, <1>2, <1>4, GotoStutters DEF PC
<1>5. CASE Finish(c, "unavailable") \/ Finish(c, "fatal")
  BY <1>1, <1>2, <1>5, FinishEnds, EndsAre DEF FaultKinds
<1> QED
  BY <1>3, <1>4, <1>5

LEMMA TryAttachRefines ==
    ASSUME RIInv, NEW c \in Client, TryAttach(c) \/ Sleep(c)
    PROVE  Caller!Next \/ UNCHANGED Caller!vars
<1>1. TypeOK /\ Place(c) /\ pc[c] \in {"attach", "sleep"} /\ op' = op /\ op[c] # "close"
  BY DEF RIInv, TryAttach, Sleep, Place
<1>2. Link(c) = "none" /\ ~hooked[c]
  BY <1>1 DEF Link, Place, Attaching
<1>3. Links' = [Links EXCEPT ![c] = Link(c)']
  BY <1>1, OneLinkMoves DEF TryAttach, Sleep, conn, TypeOK
<1>4. CASE "instance" \in AttachResults /\ inst' = [inst EXCEPT ![c] = plc] /\ Attached(c)
           /\ UNCHANGED hooked
  <2>1. Link(c)' = "new"
    BY <1>1, <1>2, <1>4, Answers DEF Link, TypeOK
  <2> QED
    BY <1>1, <1>2, <1>3, <1>4, <2>1, GotoRelinks DEF PC, Attached, Caller!Next
<1>5. CASE UNCHANGED <<inst, hooked>>
  <2>1. Link(c)' = "none" /\ Links' = Links
    BY <1>2, <1>5 DEF Link, Links
  <2>2. \/ Goto(c, "sleep") \/ Goto(c, "attach") \/ Finish(c, "fatal")
        \/ op[c] = "poll" /\ Finish(c, "not_attached")
        \/ op[c] \in {"call", "state"} /\ Finish(c, "not_connected")
        \/ op[c] = "connect" /\ Finish(c, "timeout")
        \/ inst'[c] # 0
    BY <1>1, Answers DEF TryAttach, Sleep, Place, TypeOK
  <2>3. CASE Goto(c, "sleep") \/ Goto(c, "attach")
    BY <1>1, <2>1, <2>3, GotoStutters DEF PC
  <2>4. CASE Finish(c, "fatal")
    BY <1>1, <1>2, <1>3, <2>1, <2>4, FinishEnds, EndsAre DEF FaultKinds
  <2>5. CASE \/ op[c] = "poll" /\ Finish(c, "not_attached")
             \/ op[c] \in {"call", "state"} /\ Finish(c, "not_connected")
             \/ op[c] = "connect" /\ Finish(c, "timeout")
    BY <1>1, <1>2, <1>3, <2>1, <2>5, FinishEnds, EndsAre DEF Caller!Absence
  <2>6. inst'[c] = 0
    BY <1>1, <1>5 DEF Place, Attaching
  <2> QED
    BY <2>2, <2>3, <2>4, <2>5, <2>6
<1> QED
  BY <1>4, <1>5 DEF TryAttach, Sleep, conn

\* A hook that raises has been called all the same, and the link is kept.
LEMMA HookRefines ==
    ASSUME RIInv, NEW c \in Client, Hook(c)
    PROVE  Caller!Next \/ UNCHANGED Caller!vars
<1>1. TypeOK /\ Place(c) /\ pc[c] = "hook" /\ op' = op /\ op[c] # "close"
  BY DEF RIInv, Hook, Place
<1>2. Links' = [Links EXCEPT ![c] = Link(c)']
  BY <1>1, OneLinkMoves DEF Hook, TypeOK
<1>3. Link(c) \in {"new", "ready"} /\ Link(c)' = "ready"
  BY <1>1 DEF Hook, Link, Place, TypeOK
<1>4. CASE Goto(c, "io") \/ Goto(c, "state")
  <2>1. CASE Link(c) = "new"
    BY <1>1, <1>2, <1>3, <1>4, <2>1, GotoRelinks DEF PC, Caller!Next
  <2>2. CASE Link(c) = "ready"
    BY <1>1, <1>2, <1>3, <1>4, <2>2, GotoStutters DEF PC, Links
  <2> QED
    BY <1>3, <2>1, <2>2
<1>5. CASE op[c] \in {"poll", "connect"} /\ Finish(c, "attached")
  BY <1>1, <1>2, <1>3, <1>5, FinishEnds, EndsAre DEF Caller!Success
<1>6. ASSUME NEW e \in FaultKinds, Finish(c, e)
      PROVE  Caller!Next
  BY <1>1, <1>2, <1>3, <1>6, FinishEnds, EndsAre
<1> QED
  BY <1>4, <1>5, <1>6, ReconnectingAssumption DEF Hook, Proceed, CallMethod

LEMMA IoRefines ==
    ASSUME RIInv, NEW c \in Client, Io(c)
    PROVE  Caller!Next \/ UNCHANGED Caller!vars
<1>1. TypeOK /\ Place(c) /\ pc[c] = "io" /\ op' = op /\ op[c] = "call" /\ Link(c) = "ready"
  BY DEF RIInv, Io, Place, Link
<1>2. PICK a \in {"ok"} \cup FaultKinds :
          \/ Reattach(c)
          \/ Finish(c, a) /\ UNCHANGED <<inst, hooked>>
  BY Answers DEF Io
<1>3. CASE Reattach(c)
  <2>1. Links' = [Links EXCEPT ![c] = Link(c)'] /\ Link(c)' = "none"
    BY <1>1, <1>3, OneLinkMoves DEF Reattach, Drop, Forget, Link, TypeOK
  <2> QED
    BY <1>1, <1>3, <2>1, GotoRelinks DEF PC, Reattach, Caller!Next
<1>4. CASE Finish(c, a) /\ UNCHANGED <<inst, hooked>>
  <2>1. Links' = [Links EXCEPT ![c] = Link(c)'] /\ Link(c)' = "ready"
    BY <1>1, <1>4, OneLinkMoves DEF Link
  <2> QED
    BY <1>1, <1>4, <2>1, FinishEnds, EndsAre DEF Caller!Success
<1> QED
  BY <1>2, <1>3, <1>4

LEMMA StateRefines ==
    ASSUME RIInv, NEW c \in Client, State(c)
    PROVE  Caller!Next
<1>1. TypeOK /\ pc[c] = "state" /\ op' = op /\ op[c] = "state" /\ Link(c) = "ready"
  BY DEF RIInv, State, Place, Link
<1>2. Links' = [Links EXCEPT ![c] = Link(c)'] /\ Link(c)' = "ready"
  BY <1>1, OneLinkMoves DEF State, conn, Link
<1> QED
  BY <1>1, <1>2, FinishEnds, EndsAre DEF State, Caller!Success

LEMMA CloseRefines ==
    ASSUME RIInv, NEW c \in Client, Close(c)
    PROVE  Caller!Next
<1>1. TypeOK /\ pc[c] = "close" /\ op' = op /\ op[c] = "close"
  BY DEF RIInv, Close, Place
<1>2. Links' = [Links EXCEPT ![c] = Link(c)'] /\ Link(c)' = "none"
  BY <1>1, OneLinkMoves DEF Close, Drop, Forget, Link, TypeOK
<1> QED
  BY <1>1, <1>2, FinishEnds, EndsAre DEF Close, Caller!Absence

LEMMA BeginRefines ==
    ASSUME RIInv, NEW c \in Client, NEW o \in Ops, Begin(c, o)
    PROVE  Caller!Next
<1>1. Links' = Links
  BY DEF Begin, conn, Links, Link
<1>2. Busy' = [Busy EXCEPT ![c] = TRUE] /\ ~Busy[c] /\ outcome' = outcome
  BY DEF RIInv, TypeOK, Begin, Goto, Busy
<1>3. o \in DOMAIN Caller!Absence
  BY ReconnectingAssumption DEF AllOps, Caller!Absence
<1>4. Caller!Begin(c)
  BY <1>1, <1>2, <1>3 DEF Begin, Caller!Begin, Links, Busy
<1> QED
  BY <1>4 DEF Caller!Next

\* A caller of the class sees the life of a link and nothing else: neither the
\* Runtime Manager, nor the session the objects share, nor the other objects.
THEOREM LinkRefinement == Spec => ImplementsReconnection
<1>1. Init => Caller!Init
  BY DEF Init, RIInit, Caller!Init, Link
<1>2. RIInv /\ [Next]_vars => [Caller!Next]_(Caller!vars)
  <2> SUFFICES ASSUME RIInv, [Next]_vars PROVE Caller!Next \/ UNCHANGED Caller!vars
    OBVIOUS
  <2>1. CASE (WorldStep /\ UNCHANGED <<bound, client>>) \/ UNCHANGED vars
    <3>1. UNCHANGED <<inst, hooked, pc, op, outcome>>
      BY <2>1 DEF vars, client, conn
    <3> QED
      BY <3>1 DEF Caller!vars, Link
  <2>2. ASSUME NEW c \in Client, Step(c)
        PROVE  Caller!Next \/ UNCHANGED Caller!vars
    BY <2>2, CheckRefines, BuildRefines, TryAttachRefines, HookRefines, IoRefines,
       StateRefines, CloseRefines DEF Step
  <2> QED
    BY <2>1, <2>2, BeginRefines DEF Next
<1> QED
  BY Invariant, <1>1, <1>2, PTL DEF Spec, ImplementsReconnection, Caller!Spec

-----------------------------------------------------------------------------
(* Why operations end. *)

\* How many native calls an operation makes at most from here: a call through the
\* instance may go round once more, from the constructor on.
StepsLeft(c) ==
    IF pc[c] = "idle" THEN 0
    ELSE (IF pc[c] = "check" THEN 6
          ELSE IF pc[c] = "build" THEN 5
          ELSE IF pc[c] = "probe" THEN 4
          ELSE IF pc[c] = "attach" THEN 3
          ELSE IF pc[c] = "hook" THEN 2
          ELSE 1)
         + (IF op[c] = "call" /\ ios[c] = 0 THEN 5 ELSE 0)

Untouched(c) ==
    UNCHANGED <<runtime[c], inst[c], removed[c], hooked[c], op[c], pc[c], outcome[c],
                builds[c], attaches[c], ios[c], answer[c]>>

\* An operation comes nearer to its end or is left alone, whatever the Runtime Manager,
\* the PLC and the other clients do; only connect(), between two of its attempts, may
\* start over.
OperationsRunDown ==
    [][\A c \in Client : pc[c] \notin {"idle", "sleep"} =>
          StepsLeft(c)' < StepsLeft(c) \/ Untouched(c)]_vars

\* At most eleven native calls, and no less than one before the end.
LEMMA StepsLeftBounds ==
    ASSUME TypeOK, NEW c \in Client
    PROVE  /\ StepsLeft(c) \in 0 .. (IF op[c] = "call" THEN 11 ELSE 6)
           /\ StepsLeft(c) = 0 <=> pc[c] = "idle"
  BY DEF TypeOK, StepsLeft

\* Each place of an operation leads to a later one; the retry is the one way back, and
\* it is taken once.
LEMMA StepLeadsOn ==
    ASSUME RIInv, NEW c \in Client, Step(c), pc[c] # "sleep"
    PROVE  StepsLeft(c)' < StepsLeft(c)
<1> USE DEF StepsLeft, RIInv, TypeOK, Goto, Finish
<1>1. CASE Check(c) \/ Build(c) \/ Probe(c)
  BY <1>1 DEF Check, Build, Probe, Proceed, CallMethod, Unavailable, record, Place
<1>2. CASE TryAttach(c) \/ Hook(c)
  BY <1>2 DEF TryAttach, Hook, Attached, Proceed, CallMethod, record, Place
<1>3. CASE Io(c)
  BY <1>3 DEF Io, Retries, Reattach, Place, Cost
<1>4. CASE State(c) \/ Close(c) \/ Sleep(c)
  BY <1>4 DEF State, Close, Sleep, record
<1> QED
  BY <1>1, <1>2, <1>3, <1>4 DEF Step

\* A client's step leaves the others where they are.
LEMMA OthersUntouched ==
    ASSUME TypeOK, NEW c \in Client, Step(c) \/ \E o \in Ops : Begin(c, o),
           NEW d \in Client \ {c}
    PROVE  Untouched(d)
<1> USE DEF TypeOK, Goto, Finish, Untouched, conn, record, Drop, Forget
<1>1. CASE \E o \in Ops : Begin(c, o)
  BY <1>1 DEF Begin
<1>2. CASE Check(c) \/ Build(c) \/ Probe(c)
  BY <1>2 DEF Check, Build, Probe, Proceed, CallMethod, Unavailable
<1>3. CASE TryAttach(c)
  BY <1>3 DEF TryAttach, Attached
<1>4. CASE Hook(c)
  BY <1>4 DEF Hook, Proceed, CallMethod, MayFlagRemoved
<1>5. CASE Io(c)
  BY <1>5 DEF Io, Reattach, MayFlagRemoved
<1>6. CASE State(c) \/ Close(c) \/ Sleep(c)
  BY <1>6 DEF State, Close, Sleep
<1> QED
  BY <1>1, <1>2, <1>3, <1>4, <1>5, <1>6 DEF Step

\* "Without ever blocking the caller's loop" (__init__.py:284), but for fairness: a
\* method other than connect() returns after at most eleven native calls, six if it
\* exchanges no I/O, for any number of clients, restarts and failures.
THEOREM OperationsAreFinite ==
    Spec => /\ [](\A c \in Client : /\ StepsLeft(c) \in 0 .. (IF op[c] = "call" THEN 11 ELSE 6)
                                    /\ pc[c] = "sleep" => op[c] = "connect")
            /\ OperationsRunDown
<1>1. RIInv => \A c \in Client : /\ StepsLeft(c) \in 0 .. (IF op[c] = "call" THEN 11 ELSE 6)
                                 /\ pc[c] = "sleep" => op[c] = "connect"
  BY StepsLeftBounds DEF RIInv, Place
<1>2. ASSUME RIInv, [Next]_vars, NEW c \in Client, pc[c] \notin {"idle", "sleep"}
      PROVE  StepsLeft(c)' < StepsLeft(c) \/ Untouched(c)
  <2>1. CASE (WorldStep /\ UNCHANGED <<bound, client>>) \/ UNCHANGED vars
    BY <2>1 DEF vars, client, conn, record, Untouched
  <2>2. ASSUME NEW d \in Client, Step(d) \/ \E o \in Ops : Begin(d, o)
        PROVE  StepsLeft(c)' < StepsLeft(c) \/ Untouched(c)
    <3>1. CASE d = c /\ Step(c)
      BY <1>2, <3>1, StepLeadsOn
    <3>2. ~(d = c /\ \E o \in Ops : Begin(c, o))
      BY <1>2 DEF Begin
    <3>3. CASE d # c
      BY <1>2, <2>2, <3>3, OthersUntouched DEF RIInv
    <3> QED
      BY <2>2, <3>1, <3>2, <3>3
  <2> QED
    BY <1>2, <2>1, <2>2 DEF Next
<1>3. RIInv /\ [Next]_vars
        => [\A c \in Client : pc[c] \notin {"idle", "sleep"} =>
              StepsLeft(c)' < StepsLeft(c) \/ Untouched(c)]_vars
  BY <1>2
<1> QED
  BY Invariant, <1>1, <1>3, PTL DEF Spec, OperationsRunDown

-----------------------------------------------------------------------------
(* Why clients come back after a restart of the Runtime Manager. *)

\* The clients that keep the API session alive between two calls.
Holders == {c \in Client : runtime[c] \/ inst[c] # 0}

\* A session of a Runtime Manager that is gone only loses clients: none joins it, by
\* any method, and whoever begins an operation leaves it with the first step. It is
\* renewed for the Runtime Manager of that moment, and never under anybody who holds it.
DeadSessionsDrain ==
    [][/\ bound # epoch =>
             /\ Holders' \subseteq Holders
             /\ \A c \in Client :
                   pc[c] \in {"check", "close"} /\ pc'[c] # pc[c] => c \notin Holders'
       /\ bound' # bound => Holders = {} /\ bound' = epoch']_vars

\* Through a manager pointer that does not answer nothing can be got hold of.
LEMMA NobodyJoins ==
    ASSUME RIInv, NEW c \in Client, Step(c), bound # epoch
    PROVE  /\ runtime'[c] => runtime[c]
           /\ inst'[c] # 0 => inst[c] # 0
           /\ pc[c] \in {"check", "close"} => ~runtime'[c] /\ inst'[c] = 0
<1> USE DEF RIInv, TypeOK, conn, Drop, Forget
<1>1. ~ManagerAnswers
  BY DEF ManagerAnswers
<1>2. CASE Check(c)
  BY <1>1, <1>2 DEF Check, IsConnected
<1>3. CASE Build(c) \/ Sleep(c) \/ State(c) \/ Close(c)
  BY <1>3 DEF Build, Sleep, State, Close
<1>4. CASE Probe(c) \/ TryAttach(c)
  BY <1>1, <1>4, Answers DEF Probe, TryAttach
<1>5. CASE Hook(c) \/ Io(c)
  BY <1>5 DEF Hook, Io, Reattach
<1> QED
  BY <1>2, <1>3, <1>4, <1>5 DEF Step

\* A client inside RuntimeManager(), or whose last operation ended there, holds
\* nothing: neither the manager nor the instance of before.
EmptyHanded ==
    \A c \in Client :
        /\ pc[c] \in {"build", "probe"} => c \notin Holders
        /\ pc[c] = "idle" /\ outcome[c] = "unavailable" => c \notin Holders

LEMMA StepKeepsEmptyHanded ==
    ASSUME RIInv, EmptyHanded, NEW c \in Client, Step(c)
    PROVE  EmptyHanded'
<1> DEFINE Empty(d) ==
      pc[d] \in {"build", "probe"} \/ (pc[d] = "idle" /\ outcome[d] = "unavailable")
         => ~runtime[d] /\ inst[d] = 0
<1>1. \A d \in Client : Empty(d)
  BY DEF EmptyHanded, Holders
<1>2. Empty(c)'
  <2> USE <1>1 DEF RIInv, TypeOK, Goto, Finish, Drop, Forget, Outcomes, FaultKinds
  <2>1. CASE Check(c)
    BY <2>1 DEF Check, Proceed, CallMethod
  <2>2. CASE Build(c) \/ Probe(c)
    BY <2>2 DEF Build, Probe, Unavailable, conn
  <2>3. CASE TryAttach(c) \/ Sleep(c) \/ State(c) \/ Close(c)
    BY <2>3 DEF TryAttach, Attached, Sleep, State, Close, conn
  <2>4. CASE Hook(c)
    BY <2>4, ReconnectingAssumption DEF Hook, Proceed, CallMethod
  <2>5. CASE Io(c)
    BY <2>5, Answers DEF Io, Reattach
  <2> QED
    BY <2>1, <2>2, <2>3, <2>4, <2>5 DEF Step
<1>3. \A d \in Client \ {c} : Empty(d)'
  BY <1>1, OthersUntouched DEF RIInv, Untouched
<1> QED
  BY <1>2, <1>3 DEF EmptyHanded, Holders

\* Nothing goes back to the session of before: RuntimeManager() is reached empty-handed.
THEOREM ConstructorsStartAfresh == Spec => []EmptyHanded
<1>1. Init => EmptyHanded
  BY DEF Init, RIInit, EmptyHanded
<1>2. ASSUME RIInv, EmptyHanded, [Next]_vars
      PROVE  EmptyHanded'
  <2>1. CASE (WorldStep /\ UNCHANGED <<bound, client>>) \/ UNCHANGED vars
    BY <1>2, <2>1 DEF vars, client, conn, EmptyHanded, Holders
  <2>2. ASSUME NEW c \in Client, NEW o \in Ops, Begin(c, o)
        PROVE  EmptyHanded'
    <3>1. /\ pc'[c] \in {"check", "close"} /\ UNCHANGED <<conn, outcome>>
          /\ \A d \in Client \ {c} : pc'[d] = pc[d]
      BY <1>2, <2>2 DEF Begin, Goto, RIInv, TypeOK
    <3> QED
      BY <1>2, <3>1 DEF conn, EmptyHanded, Holders
  <2> QED
    BY <1>2, <2>1, <2>2, StepKeepsEmptyHanded DEF Next
<1> QED
  BY Invariant, <1>1, <1>2, PTL DEF Spec

\* The argument of Recovers: once the Runtime Manager stays up, a dead session has ever
\* fewer holders, and the first RuntimeManager constructed after the last has gone is
\* initialised anew.
THEOREM DeadSessionsEnd == Spec => DeadSessionsDrain
<1> DEFINE Drain ==
      /\ bound # epoch =>
            /\ Holders' \subseteq Holders
            /\ \A c \in Client :
                  pc[c] \in {"check", "close"} /\ pc'[c] # pc[c] => c \notin Holders'
      /\ bound' # bound => Holders = {} /\ bound' = epoch'
<1>1. ASSUME RIInv, [Next]_vars
      PROVE  Drain
  <2>1. CASE (WorldStep /\ UNCHANGED <<bound, client>>) \/ UNCHANGED vars
    BY <2>1 DEF vars, client, conn, Holders
  <2>2. ASSUME NEW c \in Client, NEW o \in Ops, Begin(c, o)
        PROVE  Drain
    BY <1>1, <2>2 DEF Begin, Goto, conn, Holders, RIInv, TypeOK
  <2>3. ASSUME NEW c \in Client, Step(c)
        PROVE  Drain
    <3>1. \A d \in Client \ {c} : Untouched(d)
      BY <1>1, <2>3, OthersUntouched DEF RIInv
    <3>2. bound # epoch => Drain!1!2
      BY <1>1, <2>3, <3>1, NobodyJoins DEF Holders, Untouched
    <3>3. bound' # bound => Holders = {} /\ bound' = epoch'
      BY <2>3 DEF Step, Check, Build, Probe, TryAttach, Sleep, Hook, Io, State, Close,
         BindManager, ApiInUse, Holders, world
    <3> QED
      BY <3>2, <3>3
  <2> QED
    BY <1>1, <2>1, <2>2, <2>3 DEF Next
<1>2. RIInv /\ [Next]_vars => [Drain]_vars
  BY <1>1
<1> QED
  BY Invariant, <1>2, PTL DEF Spec, DeadSessionsDrain

=============================================================================
