------------------------- MODULE InstanceHandle_proofs -------------------------
(***************************************************************************)
(* Theorems about InstanceHandle, for any areas and sizes, any number of   *)
(* restarts, registrations and downloads. Some hold of an SDK that does    *)
(* not answer a call through a good interface with one of the two codes    *)
(* the handle draws conclusions from.                                      *)
(***************************************************************************)
EXTENDS InstanceHandle, TLAPS

TrustedSdk == {"SREC_INTERFACE_REMOVED", "SREC_INDEX_OUT_OF_RANGE"} \cap SdkFaults = {}

\* The manager pointer is of the first run of the Runtime Manager, and so is
\* the registration the handle is attached to, if it still exists.
Session ==
    /\ bound = 0
    /\ ~up => epoch > 0 /\ plc = 0
    /\ epoch > 0 /\ reg # 0 => plc # reg

\* A cached size is the size of the area until a download.
Sizes == downloads = 0 => \A a \in Areas : area_sizes[a] \in {0, size[a]}

\* An access that has passed its bounds check.
Pending ==
    pending # None =>
        /\ reg # 0
        /\ pending.area \in Areas /\ pending.byte \in Offsets
        /\ downloads = 0 => pending.byte < size[pending.area]

HandleInv == TypeOK /\ Session /\ Sizes /\ Pending

OpNames == {"attach", "addressBit", "areaSize", "bit", "switch", "operatingState", "close"}

-----------------------------------------------------------------------------

\* The kinds of the codes the interface answers with.
LEMMA Kinds ==
    /\ Classify("SREC_INTERFACE_REMOVED") = "ConnectionLost"
    /\ Classify("SREC_CONNECTION_ERROR") = "RuntimeManagerUnavailable"
    /\ Classify("SREC_DOES_NOT_EXIST") = "InstanceNotFound"
    /\ Classify("SREC_INSTANCE_NOT_RUNNING") = "InstanceNotRunning"
    /\ \A code : Classify(code) \in ErrorKinds
BY DEF Classify, KindTable, ErrorKinds

\* A step that ends an operation with a result.
LEMMA EndedFacts ==
    ASSUME NEW o \in OpNames, NEW a \in Areas \cup {"none"}, NEW byte \in Offsets,
           NEW code \in Codes \cup {"none"}, NEW kind \in ErrorKinds \cup {"ok"},
           Ended(o, a, byte, code, kind)
    PROVE  /\ last' \in Results /\ last' # None /\ pending' = None
           /\ last'.op = o /\ last'.area = a /\ last'.byte = byte
           /\ last'.code = code /\ last'.kind = kind
BY DEF Ended, Results, None, OpNames

\* Whatever the interface answers is a code.
LEMMA AnswersAreCodes == \A a, byte : Answers(a, byte) \subseteq Codes
BY HandleAssumption DEF Answers, Codes

\* verify() of an answer: the result, and the flag, which only rises.
LEMMA VerifyFacts ==
    ASSUME HandleInv, NEW o \in OpNames, NEW a \in Areas \cup {"none"}, NEW byte \in Offsets,
           NEW code \in Codes, Verify(o, a, byte, code)
    PROVE  /\ last' \in Results /\ last' # None /\ pending' = None
           /\ last'.op = o /\ last'.area = a /\ last'.byte = byte /\ last'.code = code
           /\ last'.kind = "ok" \/ last'.kind = Classify(code)
           /\ removed' \in BOOLEAN /\ (removed => removed')
           /\ removed' => removed \/ code = "SREC_INTERFACE_REMOVED"
<1> DEFINE kind == IF Succeeded(code) THEN "ok" ELSE Classify(code)
<1>1. kind \in ErrorKinds \cup {"ok"} /\ (kind = "ok" \/ kind = Classify(code))
  BY Kinds
<1>2. Ended(o, a, byte, code, kind)
  BY DEF Verify
<1>3. removed' \in BOOLEAN /\ (removed => removed')
      /\ (removed' => removed \/ code = "SREC_INTERFACE_REMOVED")
  BY Zenon DEF Verify
<1> HIDE DEF kind
<1> QED BY <1>1, <1>2, <1>3, EndedFacts

-----------------------------------------------------------------------------

LEMMA InitHandle == Init => HandleInv
<1> SUFFICES ASSUME Init PROVE HandleInv
  OBVIOUS
<1>1. WorldTypeOK
  <2>1. up \in BOOLEAN /\ running \in BOOLEAN
    BY Zenon DEF Init, WorldInit
  <2> QED BY <2>1, SimulationAssumption DEF Init, WorldInit, WorldTypeOK
<1>2. raw \in BOOLEAN /\ removed \in BOOLEAN
  BY Zenon DEF Init
<1>3. TypeOK
  BY <1>1, <1>2, HandleAssumption DEF Init, WorldInit, TypeOK, Results
<1> QED BY <1>3 DEF Init, WorldInit, HandleInv, Session, Sizes, Pending

\* What an operation that moves neither the PLC nor the registration keeps.
LEMMA OperationKeeps ==
    ASSUME HandleInv,
           UNCHANGED <<up, epoch, plc, made, bound, size, downloads, reg>>,
           running' \in BOOLEAN, raw' \in BOOLEAN, removed' \in BOOLEAN,
           area_sizes' \in [Areas -> 0 .. MaxSize], Sizes',
           last' \in Results, pending' = None
    PROVE  HandleInv'
BY DEF HandleInv, TypeOK, WorldTypeOK, Session, Sizes, Pending

\* area_size() caches what the interface reports, a size that is not 0.
LEMMA KnownSizeFacts ==
    ASSUME HandleInv, NEW a \in Areas, KnownSize(a), UNCHANGED plcvars
    PROVE  /\ area_sizes' \in [Areas -> 0 .. MaxSize] /\ Sizes'
           /\ downloads = 0 => area_sizes'[a] = size[a]
<1>1. /\ area_sizes \in [Areas -> 0 .. MaxSize] /\ size \in [Areas -> 1 .. MaxSize]
      /\ Sizes /\ MaxSize \in Nat
  BY HandleAssumption DEF HandleInv, TypeOK
<1>2. CASE area_sizes[a] # 0 /\ UNCHANGED area_sizes
  BY <1>1, <1>2 DEF Sizes, plcvars
<1>3. CASE /\ GetAreaSize(a) # 0
           /\ area_sizes' = [area_sizes EXCEPT ![a] = GetAreaSize(a)]
  <2>1. GetAreaSize(a) = size[a]
    BY <1>3 DEF GetAreaSize
  <2> QED BY <1>1, <1>3, <2>1 DEF Sizes, plcvars
<1> QED BY <1>2, <1>3 DEF KnownSize

LEMMA AttachKeeps == HandleInv /\ Attach => HandleInv'
<1> SUFFICES ASSUME HandleInv, Attach PROVE HandleInv'
  OBVIOUS
<1>1. UNCHANGED <<world, bound, plcvars, removed, area_sizes>>
  BY DEF Attach
<1>2. CASE ManagerAnswers /\ plc # 0 /\ reg' = plc /\ raw' = TRUE /\ UNCHANGED <<pending, last>>
  <2>1. raw' \in BOOLEAN
    BY <1>2
  <2> QED
    BY <1>1, <1>2, <2>1
    DEF HandleInv, TypeOK, WorldTypeOK, Session, Sizes, Pending, ManagerAnswers, world, plcvars
<1>3. ASSUME NEW code \in SdkFaults
                  \cup (IF ~ManagerAnswers THEN {"SREC_CONNECTION_ERROR"}
                       ELSE IF plc = 0 THEN {"SREC_DOES_NOT_EXIST"} ELSE {}),
             Ended("attach", "none", 0, code, Classify(code)), UNCHANGED <<reg, raw>>
      PROVE  HandleInv'
  <2>1. code \in Codes /\ 0 \in Offsets
    BY <1>3, HandleAssumption DEF Codes, Offsets
  <2>2. last' \in Results /\ pending' = None
    BY <1>3, <2>1, EndedFacts, Kinds DEF OpNames
  <2> QED
    BY <1>1, <1>3, <2>2, OperationKeeps
    DEF HandleInv, TypeOK, WorldTypeOK, Sizes, world, plcvars
<1> QED BY <1>2, <1>3 DEF Attach

LEMMA AddressBitKeeps ==
    ASSUME HandleInv, NEW a \in Areas, NEW byte \in Offsets, AddressBit(a, byte)
    PROVE  HandleInv'
<1>1. UNCHANGED <<world, bound, plcvars, reg, raw, removed>> /\ reg # 0
  BY DEF AddressBit
<1>2. /\ area_sizes' \in [Areas -> 0 .. MaxSize] /\ Sizes'
      /\ downloads = 0 => area_sizes'[a] = size[a]
  BY <1>1, KnownSizeFacts DEF AddressBit
<1>3. CASE /\ CheckBounds(a, byte, area_sizes'[a]) /\ last' = None
           /\ pending' = [op |-> "addressBit", area |-> a, byte |-> byte]
  <2>1. pending'.area = a /\ pending'.byte = byte /\ last' \in Results
    BY <1>3 DEF Results
  <2>2. Pending'
    BY <1>1, <1>2, <1>3, <2>1 DEF Pending, CheckBounds, plcvars
  <2> QED
    BY <1>1, <1>2, <2>1, <2>2 DEF HandleInv, TypeOK, WorldTypeOK, Session, world, plcvars
<1>4. CASE Ended("addressBit", a, byte, "none", "IndexOutOfRange")
  <2>1. last' \in Results /\ pending' = None
    BY <1>4, EndedFacts DEF OpNames, ErrorKinds
  <2> QED
    BY <1>1, <1>2, <2>1, OperationKeeps DEF HandleInv, TypeOK, WorldTypeOK, world, plcvars
<1> QED BY <1>3, <1>4 DEF AddressBit

\* Operations that only report: nothing but last and pending moves.
LEMMA ReportKeeps ==
    ASSUME HandleInv, UNCHANGED <<world, bound, plcvars, reg, removed, area_sizes>>,
           raw' \in BOOLEAN,
           NEW o \in OpNames, NEW a \in Areas \cup {"none"}, NEW byte \in Offsets,
           NEW kind \in ErrorKinds \cup {"ok"}, Ended(o, a, byte, "none", kind)
    PROVE  HandleInv'
<1>1. last' \in Results /\ pending' = None
  BY EndedFacts
<1> QED
  BY <1>1, OperationKeeps DEF HandleInv, TypeOK, WorldTypeOK, Sizes, world, plcvars

LEMMA SizeUnknownKeeps ==
    ASSUME HandleInv, NEW o \in OpNames, NEW a \in Areas, NEW byte \in Offsets,
           SizeUnknown(o, a, byte)
    PROVE  HandleInv'
<1>1. \E kind \in ErrorKinds : Ended(o, a, byte, "none", kind)
  BY DEF SizeUnknown, NotLive, ErrorKinds
<1>2. raw' \in BOOLEAN /\ UNCHANGED <<world, bound, plcvars, reg, removed, area_sizes>>
  BY DEF SizeUnknown, handle, HandleInv, TypeOK
<1> QED BY <1>1, <1>2, ReportKeeps

LEMMA BitKeeps ==
    ASSUME HandleInv, NEW o \in OpNames, NEW a \in Areas, NEW byte \in Offsets,
           BitAccess(o, a, byte)
    PROVE  HandleInv'
<1>1. UNCHANGED <<world, bound, plcvars, reg, raw, area_sizes>> /\ raw \in BOOLEAN
  BY DEF BitAccess, HandleInv, TypeOK
<1>2. CASE NotLive(o, a, byte) /\ UNCHANGED removed
  BY <1>1, <1>2, ReportKeeps DEF NotLive, ErrorKinds
<1>3. ASSUME NEW code \in Answers(a, byte), Verify(o, a, byte, code)
      PROVE  HandleInv'
  <2>1. last' \in Results /\ pending' = None /\ removed' \in BOOLEAN
    BY <1>3, AnswersAreCodes, VerifyFacts
  <2> QED
    BY <1>1, <2>1, OperationKeeps DEF HandleInv, TypeOK, WorldTypeOK, Sizes, world, plcvars
<1> QED BY <1>2, <1>3 DEF BitAccess

LEMMA SwitchKeeps ==
    ASSUME HandleInv, NEW on \in BOOLEAN, Switch(on)
    PROVE  HandleInv'
<1>1. /\ UNCHANGED <<up, epoch, plc, made, bound, plcvars, reg, raw, area_sizes>>
      /\ raw \in BOOLEAN /\ running \in BOOLEAN /\ removed \in BOOLEAN /\ 0 \in Offsets
  BY HandleAssumption DEF Switch, HandleInv, TypeOK, WorldTypeOK, Offsets
<1>2. running' \in BOOLEAN
  BY <1>1 DEF Switch
<1>3. CASE NotLive("switch", "none", 0) /\ UNCHANGED <<removed, running>>
  <2>1. last' \in Results /\ pending' = None
    BY <1>1, <1>3, EndedFacts DEF NotLive, ErrorKinds, OpNames
  <2> QED
    BY <1>1, <1>2, <1>3, <2>1, OperationKeeps DEF HandleInv, TypeOK, Sizes, plcvars
<1>4. ASSUME NEW code \in Codes, Verify("switch", "none", 0, code)
      PROVE  HandleInv'
  <2>1. last' \in Results /\ pending' = None /\ removed' \in BOOLEAN
    BY <1>1, <1>4, VerifyFacts DEF OpNames
  <2> QED
    BY <1>1, <1>2, <2>1, OperationKeeps DEF HandleInv, TypeOK, Sizes, plcvars
<1> QED BY <1>3, <1>4, HandleAssumption DEF Switch, Codes

LEMMA DownloadKeeps == HandleInv /\ Download => HandleInv'
BY HandleAssumption
DEF Download, HandleInv, TypeOK, WorldTypeOK, Session, Sizes, Pending, Results,
    world, handle

\* The session is over for good once the Runtime Manager has stopped, and a new
\* registration never takes the number of an old one.
LEMMA WorldKeeps == HandleInv /\ World => HandleInv'
<1> SUFFICES ASSUME HandleInv, World PROVE HandleInv'
  OBVIOUS
<1>1. UNCHANGED <<bound, plcvars, handle, pending>> /\ last' \in Results
  BY DEF World, Results
<1> USE SimulationAssumption DEF WorldStep, RuntimeManagerStarts, RuntimeManagerStops,
        PlcRegistered, PlcUnregistered, PlcPower
<1>2. up' \in BOOLEAN /\ running' \in BOOLEAN
  BY Zenon DEF World, HandleInv, TypeOK, WorldTypeOK
<1>3. /\ epoch' \in 0 .. MaxEpoch /\ plc' \in 0 .. MaxPlc /\ made' \in plc' .. MaxPlc
      /\ bound' \in 0 .. epoch' /\ made <= made' /\ reg' \in 0 .. made'
  BY <1>1 DEF World, HandleInv, TypeOK, WorldTypeOK, handle
<1>4. Session'
  BY <1>1 DEF World, HandleInv, TypeOK, WorldTypeOK, Session, handle
<1>5. TypeOK'
  BY <1>1, <1>2, <1>3 DEF HandleInv, TypeOK, WorldTypeOK, handle, plcvars
<1> QED BY <1>1, <1>4, <1>5 DEF HandleInv, Sizes, Pending, handle, plcvars

LEMMA AreaSizeKeeps ==
    ASSUME HandleInv, NEW a \in Areas, AreaSize(a)
    PROVE  HandleInv'
<1>1. UNCHANGED <<world, bound, plcvars, reg, raw, removed>> /\ 0 \in Offsets
  BY HandleAssumption DEF AreaSize, Offsets
<1>2. area_sizes' \in [Areas -> 0 .. MaxSize] /\ Sizes'
  BY <1>1, KnownSizeFacts DEF AreaSize
<1>3. last' \in Results /\ pending' = None
  BY <1>1, EndedFacts DEF AreaSize, OpNames
<1> QED
  BY <1>1, <1>2, <1>3, OperationKeeps DEF HandleInv, TypeOK, WorldTypeOK, world, plcvars

LEMMA StepKeeps == HandleInv /\ [Next]_vars => HandleInv'
<1> SUFFICES ASSUME HandleInv, [Next]_vars PROVE HandleInv'
  OBVIOUS
<1> USE DEF OpNames
<1>0. 0 \in Offsets /\ raw \in BOOLEAN
  BY HandleAssumption DEF Offsets, HandleInv, TypeOK
<1>1. CASE Close
  <2>1. raw' \in BOOLEAN
    BY <1>1 DEF Close
  <2> QED BY <1>0, <1>1, <2>1, ReportKeeps DEF Close
<1>2. CASE OperatingState
  BY <1>0, <1>2, ReportKeeps DEF OperatingState, NotLive, handle, ErrorKinds
<1>3. CASE FinishAddressBit
  BY <1>3, BitKeeps DEF FinishAddressBit, HandleInv, Pending
<1>4. ASSUME NEW a \in Areas, AreaSize(a) \/ SizeUnknown("areaSize", a, 0)
      PROVE  HandleInv'
  BY <1>0, <1>4, AreaSizeKeeps, SizeUnknownKeeps
<1>5. ASSUME NEW a \in Areas, NEW byte \in Offsets,
             AddressBit(a, byte) \/ SizeUnknown("addressBit", a, byte) \/ Bit(a, byte)
      PROVE  HandleInv'
  BY <1>5, AddressBitKeeps, SizeUnknownKeeps, BitKeeps DEF Bit
<1>6. CASE UNCHANGED vars
  BY <1>6
  DEF vars, world, plcvars, handle, HandleInv, TypeOK, WorldTypeOK, Session, Sizes, Pending
<1> QED
  BY <1>1, <1>2, <1>3, <1>4, <1>5, <1>6, AttachKeeps, SwitchKeeps, DownloadKeeps, WorldKeeps
  DEF Next

\* Every reachable state satisfies the inductive invariant.
THEOREM HandleInvariant == Spec => []HandleInv
BY InitHandle, StepKeeps, PTL DEF Spec

\* The types of a handle and of what an operation on it may answer.
THEOREM HandleTypeCorrect == Spec => []TypeOK
<1>1. HandleInv => TypeOK
  BY DEF HandleInv
<1> QED BY <1>1, HandleInvariant, PTL

-----------------------------------------------------------------------------
(* The properties. *)

\* The handle has been attached, to a registration that is gone.
GoneForGood == removed => reg # 0 /\ reg # plc

\* An interface that answers "removed" was of a registration that is gone: the
\* Runtime Manager the handle was attached through takes its PLCs with it.
LEMMA RemovedStep ==
    TrustedSdk /\ HandleInv /\ GoneForGood /\ [Next]_vars => GoneForGood'
<1> SUFFICES ASSUME TrustedSdk, HandleInv, GoneForGood, [Next]_vars
             PROVE  GoneForGood'
  OBVIOUS
<1>1. ASSUME UNCHANGED removed, UNCHANGED <<reg, plc>> PROVE GoneForGood'
  BY <1>1 DEF GoneForGood
<1>2. ASSUME ~InterfaceAlive, reg # 0 PROVE reg # plc
  BY <1>2 DEF InterfaceAlive, ManagerAnswers, HandleInv, Session, TypeOK, WorldTypeOK
<1>3. ASSUME NEW o \in OpNames, NEW b \in Areas \cup {"none"}, NEW byte \in Offsets,
             NEW code \in Codes, Verify(o, b, byte, code), UNCHANGED <<reg, plc>>, reg # 0,
             code = "SREC_INTERFACE_REMOVED" => ~InterfaceAlive
      PROVE  GoneForGood'
  BY <1>2, <1>3, VerifyFacts DEF GoneForGood
<1>4. ASSUME NEW o \in OpNames, NEW b \in Areas, NEW byte \in Offsets, reg # 0,
             BitAccess(o, b, byte)
      PROVE  GoneForGood'
  <2>1. ASSUME NEW code \in Answers(b, byte), Verify(o, b, byte, code)
        PROVE  GoneForGood'
    <3>1. code \in Codes /\ (code = "SREC_INTERFACE_REMOVED" => ~InterfaceAlive)
      BY <2>1, AnswersAreCodes DEF Answers, TrustedSdk
    <3> QED BY <1>3, <1>4, <2>1, <3>1 DEF BitAccess, world
  <2> QED BY <1>1, <1>4, <2>1 DEF BitAccess, world
<1>5. CASE FinishAddressBit
  BY <1>4, <1>5 DEF FinishAddressBit, HandleInv, Pending, OpNames
<1>6. ASSUME NEW b \in Areas, NEW byte \in Offsets, Bit(b, byte) PROVE GoneForGood'
  BY <1>4, <1>6 DEF Bit, OpNames
<1>7. ASSUME NEW on \in BOOLEAN, Switch(on) PROVE GoneForGood'
  <2>1. UNCHANGED <<reg, plc>> /\ reg # 0 /\ 0 \in Offsets
    BY <1>7, HandleAssumption DEF Switch, Offsets
  <2>2. CASE UNCHANGED removed
    BY <1>1, <2>1, <2>2
  <2>3. CASE Verify("switch", "none", 0, "SREC_OK")
    BY <1>3, <2>1, <2>3 DEF OpNames, Codes
  <2>4. ASSUME NEW code \in SdkFaults
                    \cup (IF InterfaceAlive THEN {} ELSE {"SREC_INTERFACE_REMOVED"}),
               Verify("switch", "none", 0, code)
        PROVE  GoneForGood'
    <3>1. code \in Codes /\ (code = "SREC_INTERFACE_REMOVED" => ~InterfaceAlive)
      BY <2>4, HandleAssumption DEF TrustedSdk, Codes
    <3> QED BY <1>3, <2>1, <2>4, <3>1 DEF OpNames
  <2> QED BY <1>7, <2>2, <2>3, <2>4 DEF Switch
<1>8. CASE Attach
  BY <1>8 DEF Attach, GoneForGood
<1>9. CASE World
  <2>1. plc' \in {plc, 0, made + 1} /\ UNCHANGED <<reg, removed>>
    BY <1>9
    DEF World, WorldStep, RuntimeManagerStarts, RuntimeManagerStops, PlcRegistered,
        PlcUnregistered, PlcPower, handle
  <2>2. reg # made + 1
    BY DEF HandleInv, TypeOK, WorldTypeOK
  <2> QED BY <2>1, <2>2 DEF GoneForGood
<1>10. CASE UNCHANGED removed /\ UNCHANGED <<reg, plc>>
  BY <1>1, <1>10
<1> QED
  BY <1>5, <1>6, <1>7, <1>8, <1>9, <1>10
  DEF Next, Close, OperatingState, AreaSize, SizeUnknown, AddressBit, Download, world, handle,
      vars

\* The sticky flag is only ever set when the registration behind the handle is
\* gone, if the SDK reports a removed interface only then.
THEOREM RemovedIsGone == TrustedSdk => (Spec => []RemovedMeansGone)
<1> SUFFICES ASSUME TrustedSdk PROVE Spec => []RemovedMeansGone
  OBVIOUS
<1>1. Init => GoneForGood
  BY DEF Init, GoneForGood
<1>2. HandleInv /\ GoneForGood /\ [Next]_vars => GoneForGood'
  BY RemovedStep
<1>3. GoneForGood => RemovedMeansGone
  BY DEF GoneForGood, RemovedMeansGone
<1> QED BY <1>1, <1>2, <1>3, HandleInvariant, PTL DEF Spec

\* A handle that has reported that it is not connected never is again.
THEOREM FalseStaysFalse == Spec => FalseIsFinal
<1>1. HandleInv /\ [Next]_vars => (reg # 0 /\ ~IsConnected => ~IsConnected')
  <2> SUFFICES ASSUME HandleInv, [Next]_vars, reg # 0, ~IsConnected
               PROVE  ~IsConnected'
    OBVIOUS
  <2>1. ~raw => ~raw'
    BY DEF Next, Attach, Close, OperatingState, FinishAddressBit, BitAccess, AreaSize, KnownSize,
           SizeUnknown, AddressBit, Bit, Switch, Download, World, handle, vars
  <2>2. removed => removed'
    BY DEF Next, Attach, Close, OperatingState, FinishAddressBit, BitAccess, AreaSize,
           SizeUnknown, AddressBit, Bit, Switch, Download, World, handle, vars, Verify
  <2>3. ~ManagerAnswers => ~ManagerAnswers'
    <3>1. HandleInv'
      BY StepKeeps
    <3>2. /\ bound = 0 /\ bound' = 0 /\ (~up => epoch > 0)
          /\ epoch \in Nat /\ epoch' \in Nat
      BY <3>1 DEF HandleInv, Session, TypeOK, WorldTypeOK
    <3>3. epoch' >= epoch
      BY <3>2
      DEF Next, Attach, Close, OperatingState, FinishAddressBit, BitAccess, AreaSize, SizeUnknown,
          AddressBit, Bit, Switch, Download, World, WorldStep, RuntimeManagerStarts,
          RuntimeManagerStops, PlcRegistered, PlcUnregistered, PlcPower, world, vars
    <3>4. CASE ~up
      BY <3>2, <3>3, <3>4 DEF ManagerAnswers
    <3>5. CASE bound # epoch
      BY <3>2, <3>3, <3>5 DEF ManagerAnswers
    <3> QED BY <3>4, <3>5 DEF ManagerAnswers
  <2> QED BY <2>1, <2>2, <2>3 DEF IsConnected
<1>2. HandleInv /\ [Next]_vars => [reg # 0 /\ ~IsConnected => ~IsConnected']_vars
  BY <1>1
<1> QED BY <1>2, HandleInvariant, PTL DEF Spec, FalseIsFinal

\* Python's "except RetryableError" catches what is_retryable() says, whatever
\* the kind of the error.
THEOREM PythonAlwaysAgrees == Spec => []PythonAgrees
<1>1. \A kind \in ErrorKinds : CaughtAsRetryable(kind) <=> IsRetryable(kind)
  BY DEF ErrorKinds, CaughtAsRetryable, IsRetryable, Parent, ForKind, ExceptionTable
<1>2. TypeOK => PythonAgrees
  BY <1>1 DEF TypeOK, Results, PythonAgrees, None
<1> QED BY <1>2, HandleTypeCorrect, PTL

\* One access to a bit, alone or behind a bounds check.
LEMMA BitResult ==
    ASSUME HandleInv, NEW o \in {"bit", "addressBit"}, NEW a \in Areas, NEW byte \in Offsets,
           BitAccess(o, a, byte)
    PROVE  /\ last' # None /\ last'.op = o /\ last'.area = a /\ last'.byte = byte
           /\ UNCHANGED <<size, downloads>>
           /\ \/ last'.kind = "ok" /\ last'.code # "SREC_INDEX_OUT_OF_RANGE"
              \/ IsRetryable(last'.kind) /\ last'.code # "SREC_INDEX_OUT_OF_RANGE"
              \/ last'.code \in SdkFaults
              \/ last'.code = "SREC_INDEX_OUT_OF_RANGE" /\ byte >= size[a]
<1>1. UNCHANGED <<size, downloads>> /\ o \in OpNames
  BY DEF BitAccess, plcvars, OpNames
<1>2. CASE NotLive(o, a, byte)
  <2>1. last' # None /\ last'.op = o /\ last'.area = a /\ last'.byte = byte
        /\ last'.kind = "ConnectionLost" /\ last'.code = "none"
    BY <1>1, <1>2, EndedFacts DEF NotLive, ErrorKinds
  <2> QED BY <1>1, <2>1 DEF IsRetryable
<1>3. ASSUME NEW code \in Answers(a, byte), Verify(o, a, byte, code)
      PROVE  /\ last' # None /\ last'.op = o /\ last'.area = a /\ last'.byte = byte
             /\ UNCHANGED <<size, downloads>>
             /\ \/ last'.kind = "ok" /\ last'.code # "SREC_INDEX_OUT_OF_RANGE"
                \/ IsRetryable(last'.kind) /\ last'.code # "SREC_INDEX_OUT_OF_RANGE"
                \/ last'.code \in SdkFaults
                \/ last'.code = "SREC_INDEX_OUT_OF_RANGE" /\ byte >= size[a]
  <2>1. /\ last' # None /\ last'.op = o /\ last'.area = a /\ last'.byte = byte
        /\ last'.code = code /\ (last'.kind = "ok" \/ last'.kind = Classify(code))
    BY <1>1, <1>3, AnswersAreCodes, VerifyFacts
  <2>2. \/ code \in SdkFaults
        \/ code \in {"SREC_INTERFACE_REMOVED", "SREC_CONNECTION_ERROR",
                     "SREC_INSTANCE_NOT_RUNNING"}
        \/ code = "SREC_INDEX_OUT_OF_RANGE" /\ byte >= size[a]
        \/ code \in {"SREC_OK", "SREC_WARNING_TRIAL_MODE_ACTIVE"}
    BY <1>3 DEF Answers
  <2>3. code \in {"SREC_OK", "SREC_WARNING_TRIAL_MODE_ACTIVE"} => last'.kind = "ok"
    BY <1>3 DEF Verify, Ended, Succeeded
  <2> QED BY <1>1, <2>1, <2>2, <2>3, Kinds DEF IsRetryable
<1> QED BY <1>2, <1>3 DEF BitAccess

\* What an operation may end with while the configuration is the one the handle
\* was attached with.
Blameless ==
    last # None /\ downloads = 0 =>
        \/ last.kind = "ok" /\ last.code # "SREC_INDEX_OUT_OF_RANGE"
        \/ last.kind \in ErrorKinds /\ IsRetryable(last.kind)
              /\ last.code # "SREC_INDEX_OUT_OF_RANGE"
        \/ last.code \in SdkFaults
        \/ /\ last.byte >= size[last.area]
           /\ last.op = "addressBit" => last.code # "SREC_INDEX_OUT_OF_RANGE"

LEMMA BlamelessStep == HandleInv /\ Blameless /\ [Next]_vars => Blameless'
<1> SUFFICES ASSUME HandleInv, Blameless, [Next]_vars PROVE Blameless'
  OBVIOUS
<1> USE DEF OpNames
<1>0. 0 \in Offsets /\ last' \in Results
  BY HandleAssumption, StepKeeps DEF Offsets, HandleInv, TypeOK
<1>1. ASSUME NEW o \in OpNames, NEW a \in Areas \cup {"none"}, NEW byte \in Offsets,
             NEW kind \in {"ok", "ConnectionLost", "InstanceNotRunning"},
             Ended(o, a, byte, "none", kind)
      PROVE  Blameless'
  <2>1. last'.kind = kind /\ last'.code = "none"
    BY <1>1, EndedFacts DEF ErrorKinds
  <2> QED BY <2>1 DEF Blameless, IsRetryable, ErrorKinds
<1>2. CASE last' = None
  BY <1>2 DEF Blameless
<1>3. CASE Attach
  <2>1. ASSUME NEW code \in SdkFaults \cup {"SREC_CONNECTION_ERROR", "SREC_DOES_NOT_EXIST"},
               Ended("attach", "none", 0, code, Classify(code))
        PROVE  Blameless'
    <3>1. last'.kind = Classify(code) /\ last'.code = code
      BY <1>0, <2>1, EndedFacts, Kinds, HandleAssumption DEF Codes
    <3> QED BY <2>1, <3>1, Kinds DEF Blameless, IsRetryable
  <2>2. CASE UNCHANGED <<pending, last>>
    BY <1>3, <2>2 DEF Attach, Blameless, plcvars
  <2> QED BY <1>3, <2>1, <2>2 DEF Attach
<1>4. CASE Close \/ OperatingState
  BY <1>0, <1>1, <1>4 DEF Close, OperatingState, NotLive
<1>5. CASE FinishAddressBit
  <2>1. /\ pending.area \in Areas /\ pending.byte \in Offsets
        /\ downloads = 0 => pending.byte < size[pending.area]
        /\ BitAccess("addressBit", pending.area, pending.byte)
    BY <1>5 DEF FinishAddressBit, HandleInv, Pending
  <2>2. size[pending.area] \in Nat /\ pending.byte \in Nat
    BY <2>1, HandleAssumption DEF HandleInv, TypeOK, Offsets
  <2>3. downloads = 0 => ~(pending.byte >= size[pending.area])
    BY <2>1, <2>2
  <2> QED BY <1>0, <2>1, <2>3, BitResult DEF Blameless, Results
<1>6. ASSUME NEW a \in Areas, AreaSize(a) \/ SizeUnknown("areaSize", a, 0)
      PROVE  Blameless'
  BY <1>0, <1>1, <1>6 DEF AreaSize, SizeUnknown, NotLive
<1>7. ASSUME NEW a \in Areas, NEW byte \in Offsets, SizeUnknown("addressBit", a, byte)
      PROVE  Blameless'
  BY <1>1, <1>7 DEF SizeUnknown, NotLive
<1>8. ASSUME NEW a \in Areas, NEW byte \in Offsets, Bit(a, byte)
      PROVE  Blameless'
  <2>1. BitAccess("bit", a, byte)
    BY <1>8 DEF Bit
  <2> QED BY <1>0, <2>1, BitResult DEF Blameless, Results
<1>9. ASSUME NEW a \in Areas, NEW byte \in Offsets, AddressBit(a, byte)
      PROVE  Blameless'
  <2>1. CASE /\ ~CheckBounds(a, byte, area_sizes'[a])
             /\ Ended("addressBit", a, byte, "none", "IndexOutOfRange")
    <3>1. /\ last'.code = "none" /\ last'.area = a /\ last'.byte = byte
      BY <1>9, <2>1, EndedFacts DEF ErrorKinds
    <3>2. UNCHANGED plcvars /\ (downloads = 0 => area_sizes'[a] = size[a])
      BY <1>9, KnownSizeFacts DEF AddressBit
    <3>3. size[a] \in Nat /\ byte \in Nat
      BY HandleAssumption DEF HandleInv, TypeOK, Offsets
    <3> QED BY <2>1, <3>1, <3>2, <3>3 DEF Blameless, CheckBounds, plcvars
  <2> QED BY <1>2, <1>9, <2>1 DEF AddressBit
<1>10. ASSUME NEW on \in BOOLEAN, Switch(on)
       PROVE  Blameless'
  <2>1. CASE NotLive("switch", "none", 0)
    BY <1>0, <1>1, <2>1 DEF NotLive
  <2>2. CASE Verify("switch", "none", 0, "SREC_OK")
    <3>1. Ended("switch", "none", 0, "SREC_OK", "ok")
      BY <2>2 DEF Verify, Succeeded
    <3>2. last'.kind = "ok" /\ last'.code = "SREC_OK"
      BY <1>0, <3>1, EndedFacts DEF Codes
    <3> QED BY <3>2 DEF Blameless
  <2>3. ASSUME NEW code \in SdkFaults \cup {"SREC_INTERFACE_REMOVED"},
               Verify("switch", "none", 0, code)
        PROVE  Blameless'
    <3>1. code \in Codes
      BY HandleAssumption DEF Codes
    <3>2. last'.code = code /\ (code \notin SdkFaults => last'.kind = "ConnectionLost")
      BY <1>0, <2>3, <3>1, VerifyFacts, Kinds DEF Verify, Ended, Succeeded
    <3> QED BY <2>3, <3>2 DEF Blameless, IsRetryable, ErrorKinds
  <2> QED BY <1>10, <2>1, <2>2, <2>3 DEF Switch
<1>11. CASE UNCHANGED vars
  BY <1>11 DEF vars, plcvars, Blameless
<1> QED
  BY <1>2, <1>3, <1>4, <1>5, <1>6, <1>7, <1>8, <1>9, <1>10, <1>11 DEF Next, Download, World

\* A caller that takes errors that are not retryable for its own mistakes is
\* right: unless an SDK call failed with one, and without a download, only an
\* offset outside the area is answered with one.
THEOREM FatalIsTheCallersMistake == Spec => []OnlyBadOffsetsAreFatal
<1>1. Init => Blameless
  BY DEF Init, Blameless
<1>2. HandleInv /\ Blameless => OnlyBadOffsetsAreFatal
  BY DEF HandleInv, TypeOK, Blameless, OnlyBadOffsetsAreFatal, Fatal
<1> QED BY <1>1, <1>2, BlamelessStep, HandleInvariant, PTL DEF Spec

\* An operation by address never asks the SDK for a byte it would refuse.
THEOREM OutOfRangeStaysLocal == TrustedSdk => (Spec => []OutOfRangeIsLocal)
<1> SUFFICES ASSUME TrustedSdk PROVE Spec => []OutOfRangeIsLocal
  OBVIOUS
<1>1. Init => Blameless
  BY DEF Init, Blameless
<1>2. HandleInv /\ Blameless => OutOfRangeIsLocal
  BY DEF HandleInv, TypeOK, Blameless, OutOfRangeIsLocal, TrustedSdk
<1> QED BY <1>1, <1>2, BlamelessStep, HandleInvariant, PTL DEF Spec

=============================================================================
