--------------------------- MODULE InstanceHandle ---------------------------
(***************************************************************************)
(* The class Instance of SdkBridge.cpp: one handle, used by one thread,    *)
(* from attach() to close(), while the PLC behind it is stopped, given a   *)
(* new configuration, removed and registered again.                        *)
(*                                                                         *)
(* An operation by address makes two SDK calls, GetAreaSize() and the bit  *)
(* access; the world may move between them. Values of bits are left out.   *)
(***************************************************************************)
EXTENDS Simulation, Errors

CONSTANTS
    Areas,          \* areas of the PLC
    MaxSize,        \* bound on the size of an area; offsets are 0 .. MaxSize
    MaxDownloads,   \* bound on the downloads of a new configuration
    SdkFaults       \* error codes any call through the interface may answer

ASSUME HandleAssumption ==
    MaxSize \in Nat \ {0} /\ MaxDownloads \in Nat /\ SdkFaults \subseteq Codes

VARIABLES
    size,           \* the area sizes of the configuration in the PLC
    downloads,
    reg,            \* the registration attached to, 0 before attach()
    raw,            \* the interface pointer is not null
    removed,        \* interface_removed
    area_sizes,     \* the cached sizes, 0 for nullopt
    pending,        \* the bit access an operation by address goes on with
    last            \* the operation that has just ended

plcvars == <<size, downloads>>
handle == <<reg, raw, removed, area_sizes>>
vars == <<world, bound, plcvars, handle, pending, last>>

None == [op |-> "none"]

Init ==
    /\ WorldInit(TRUE)
    /\ size \in [Areas -> 1 .. MaxSize]
    /\ downloads = 0
    /\ reg = 0
    /\ raw = FALSE
    /\ removed = FALSE
    /\ area_sizes = [a \in Areas |-> 0]
    /\ pending = None
    /\ last = None

-----------------------------------------------------------------------------
(* What the interface answers: the SDK, as the bridge relies on it.          *)

InterfaceAlive == reg = plc /\ ManagerAnswers

Answers(a, byte) ==
    SdkFaults \cup
    (IF ~InterfaceAlive
     THEN {"SREC_INTERFACE_REMOVED"} \cup (IF up THEN {} ELSE {"SREC_CONNECTION_ERROR"})
     ELSE IF ~running THEN {"SREC_INSTANCE_NOT_RUNNING"}
     ELSE IF byte >= size[a] THEN {"SREC_INDEX_OUT_OF_RANGE"}
     ELSE {"SREC_OK", "SREC_WARNING_TRIAL_MODE_ACTIVE"})

GetAreaSize(a) == IF InterfaceAlive /\ running THEN size[a] ELSE 0

-----------------------------------------------------------------------------

Ended(o, a, byte, code, kind) ==
    /\ last' = [op |-> o, area |-> a, byte |-> byte, code |-> code, kind |-> kind]
    /\ pending' = None

\* live(): a closed handle.
NotLive(o, a, byte) ==
    /\ ~raw
    /\ Ended(o, a, byte, "none", "ConnectionLost")

\* (mutant: any failure marks the interface as removed)
Verify_AnyFailure(o, a, byte, code) ==
    /\ removed' = (removed \/ ~Succeeded(code))
    /\ Ended(o, a, byte, code, IF Succeeded(code) THEN "ok" ELSE Classify(code))

\* (mutant: the flag says what the last call reported)
Verify_NotSticky(o, a, byte, code) ==
    /\ removed' = (code = "SREC_INTERFACE_REMOVED")
    /\ Ended(o, a, byte, code, IF Succeeded(code) THEN "ok" ELSE Classify(code))

\* verify() and check().
Verify(o, a, byte, code) ==
    /\ removed' = (removed \/ code = "SREC_INTERFACE_REMOVED")
    /\ Ended(o, a, byte, code, IF Succeeded(code) THEN "ok" ELSE Classify(code))

\* attach(): a new handle with nothing cached, or the error CreateInterface()
\* or a second look at the registered instances reports.
Attach ==
    /\ reg = 0
    /\ \/ /\ ManagerAnswers /\ plc # 0
          /\ reg' = plc
          /\ raw' = TRUE
          /\ UNCHANGED <<pending, last>>
       \/ /\ \E code \in SdkFaults
                  \cup (IF ~ManagerAnswers THEN {"SREC_CONNECTION_ERROR"}
                       ELSE IF plc = 0 THEN {"SREC_DOES_NOT_EXIST"} ELSE {}) :
                Ended("attach", "none", 0, code, Classify(code))
          /\ UNCHANGED <<reg, raw>>
    /\ UNCHANGED <<world, bound, plcvars, removed, area_sizes>>

\* area_size() where it does not throw: the cached size, or the answer of the
\* interface, which is cached. The cache is asked before live().
KnownSize(a) ==
    \/ area_sizes[a] # 0 /\ UNCHANGED area_sizes
    \/ /\ area_sizes[a] = 0 /\ raw /\ GetAreaSize(a) # 0
       /\ area_sizes' = [area_sizes EXCEPT ![a] = GetAreaSize(a)]

\* (mutant: the bounds check refuses the last offset of the area)
CheckBounds_LastRefused(a, byte, s) == byte + 1 < s

\* (mutant: the bounds check admits the offset that equals the size)
CheckBounds_OffByOne(a, byte, s) == byte <= s

CheckBounds(a, byte, s) == byte < s

\* setAddressBit() and getAddressBit(), from area_size() to the bounds check.
AddressBit(a, byte) ==
    /\ reg # 0 /\ pending = None
    /\ KnownSize(a)
    /\ \/ /\ CheckBounds(a, byte, area_sizes'[a])
          /\ pending' = [op |-> "addressBit", area |-> a, byte |-> byte]
          /\ last' = None
       \/ /\ ~CheckBounds(a, byte, area_sizes'[a])
          /\ Ended("addressBit", a, byte, "none", "IndexOutOfRange")
    /\ UNCHANGED <<world, bound, plcvars, reg, raw, removed>>

\* area_size() throws: a closed handle, or the answer 0, the only failure signal
\* of GetAreaSize(), which a faulty call gives too.
SizeUnknown(o, a, byte) ==
    /\ reg # 0 /\ pending = None
    /\ area_sizes[a] = 0
    /\ \/ NotLive(o, a, byte)
       \/ /\ raw /\ (GetAreaSize(a) = 0 \/ SdkFaults # {})
          /\ Ended(o, a, byte, "none", "InstanceNotRunning")
    /\ UNCHANGED <<world, bound, plcvars, handle>>

AreaSize(a) ==
    /\ reg # 0 /\ pending = None
    /\ KnownSize(a)
    /\ Ended("areaSize", a, 0, "none", "ok")
    /\ UNCHANGED <<world, bound, plcvars, reg, raw, removed>>

\* writeBit() and readBit(), alone or as the end of an operation by address.
BitAccess(o, a, byte) ==
    /\ \/ /\ NotLive(o, a, byte)
          /\ UNCHANGED removed
       \/ /\ raw
          /\ \E code \in Answers(a, byte) : Verify(o, a, byte, code)
    /\ UNCHANGED <<world, bound, plcvars, reg, raw, area_sizes>>

Bit(a, byte) == reg # 0 /\ pending = None /\ BitAccess("bit", a, byte)

FinishAddressBit ==
    pending # None /\ BitAccess("addressBit", pending.area, pending.byte)

\* run() and stop().
Switch(on) ==
    /\ reg # 0 /\ pending = None
    /\ \/ NotLive("switch", "none", 0) /\ UNCHANGED <<removed, running>>
       \/ /\ raw /\ InterfaceAlive
          /\ Verify("switch", "none", 0, "SREC_OK")
          /\ running' = on
       \/ /\ raw
          /\ \E code \in SdkFaults \cup (IF InterfaceAlive THEN {}
                                      ELSE {"SREC_INTERFACE_REMOVED"}) :
                Verify("switch", "none", 0, code)
          /\ UNCHANGED running
    /\ UNCHANGED <<up, epoch, plc, made, bound, plcvars, reg, raw, area_sizes>>

\* operatingState(): GetOperatingState() reports no error.
OperatingState ==
    /\ reg # 0 /\ pending = None
    /\ \/ NotLive("operatingState", "none", 0)
       \/ raw /\ Ended("operatingState", "none", 0, "none", "ok")
    /\ UNCHANGED <<world, bound, plcvars, handle>>

IsConnected == raw /\ ~removed /\ ManagerAnswers

\* close(): the sizes stay cached.
Close ==
    /\ reg # 0 /\ pending = None
    /\ raw' = FALSE
    /\ Ended("close", "none", 0, "none", "ok")
    /\ UNCHANGED <<world, bound, plcvars, reg, removed, area_sizes>>

-----------------------------------------------------------------------------

\* A new configuration, with areas of other sizes.
Download ==
    /\ plc # 0
    /\ downloads < MaxDownloads
    /\ downloads' = downloads + 1
    /\ size' \in [Areas -> 1 .. MaxSize]
    /\ last' = None
    /\ UNCHANGED <<world, bound, handle, pending>>

World ==
    /\ WorldStep
    /\ last' = None
    /\ UNCHANGED <<bound, plcvars, handle, pending>>

Offsets == 0 .. MaxSize

Next ==
    \/ Attach \/ Close \/ OperatingState \/ FinishAddressBit
    \/ \E a \in Areas : AreaSize(a) \/ SizeUnknown("areaSize", a, 0)
    \/ \E a \in Areas, byte \in Offsets :
          AddressBit(a, byte) \/ SizeUnknown("addressBit", a, byte) \/ Bit(a, byte)
    \/ \E on \in BOOLEAN : Switch(on)
    \/ Download \/ World

Spec == Init /\ [][Next]_vars

-----------------------------------------------------------------------------
(* Correctness. *)

Results ==
    {None} \cup
    [op : {"attach", "addressBit", "areaSize", "bit", "switch", "operatingState", "close"},
     area : Areas \cup {"none"}, byte : Offsets, code : Codes \cup {"none"},
     kind : ErrorKinds \cup {"ok"}]

TypeOK ==
    /\ WorldTypeOK
    /\ size \in [Areas -> 1 .. MaxSize]
    /\ downloads \in 0 .. MaxDownloads
    /\ reg \in 0 .. made
    /\ raw \in BOOLEAN
    /\ removed \in BOOLEAN
    /\ area_sizes \in [Areas -> 0 .. MaxSize]
    /\ pending = None \/ pending.byte \in Offsets
    /\ last \in Results

\* "A false result means this handle is dead for good" (Instance.hpp:76): neither
\* another call, nor close(), nor a Runtime Manager or a PLC that comes back ever
\* makes a handle connected again that has reported that it is not.
FalseIsFinal ==
    [][reg # 0 /\ ~IsConnected => ~IsConnected']_vars

\* "Sticky: once the Runtime Manager reports the interface gone" (SdkBridge.cpp):
\* the flag is only ever set on a handle whose interface really is gone, never by
\* a timeout or a stopped PLC, after which the handle stays usable.
RemovedMeansGone == removed => reg # plc

Fatal == last # None /\ last.kind # "ok" /\ ~IsRetryable(last.kind)

\* A caller that treats non-retryable errors as its own mistake is right, whatever
\* the PLC does between two calls or inside one: unless an SDK call failed with
\* one, only an offset outside the area is answered with one. The PLC keeps the
\* configuration it was attached with.
OnlyBadOffsetsAreFatal ==
    downloads = 0 /\ Fatal /\ last.code \notin SdkFaults
        => last.byte >= size[last.area]

\* The local check spares the round trip: an operation by address never asks the
\* SDK for a byte it would refuse, as long as the configuration stays.
OutOfRangeIsLocal ==
    downloads = 0 /\ last # None /\ last.op = "addressBit" => last.code # "SREC_INDEX_OUT_OF_RANGE"

\* "In Python the classification is the exception type" (README.md): an error is
\* caught by "except RetryableError" exactly if is_retryable() says so.
PythonAgrees ==
    last # None /\ last.kind # "ok" =>
        (CaughtAsRetryable(last.kind) <=> IsRetryable(last.kind))

-----------------------------------------------------------------------------
(* What the documentation says of the same operations. *)

\* "Offsets are also bounds-checked locally against the live area size"
\* (README.md:156): what is refused locally really is outside the area.
LiveSizeChecked ==
    last # None /\ last.kind = "IndexOutOfRange" => last.byte >= size[last.area]

=============================================================================
