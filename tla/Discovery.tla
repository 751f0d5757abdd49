------------------------------ MODULE Discovery ------------------------------
(***************************************************************************)
(* The queries of the class RuntimeManager (SdkBridge.cpp): the loop of    *)
(* registeredInstances(), and attach() and tryAttach(), which run the same *)
(* loop for their message when there is no such instance. One SDK call per *)
(* action: instances are registered and unregistered between two of them.  *)
(*                                                                         *)
(* Instances are identified by their names; attach() by id takes the same  *)
(* path. The life of the interface itself is the subject of ApiHandle.     *)
(***************************************************************************)
EXTENDS Errors, Naturals, SequencesExt

CONSTANTS
    Names,          \* names an instance may have, or a caller may ask for
    BadNames,       \* names CreateInterface() refuses as a wrong argument
    MaxRegister,    \* bound on the registrations
    SdkFaults       \* codes any SDK call that reports one may answer

ASSUME DiscoveryAssumption ==
    /\ BadNames \subseteq Names
    /\ MaxRegister \in Nat /\ SdkFaults \subseteq Codes

VARIABLES
    up,         \* the Runtime Manager runs; the pointer dies with it
    registered, \* its list of instances
    made,       \* registrations so far
    op,         \* the operation that runs or has run
    target,     \* the name it asks for
    pc,
    count,
    infos,      \* its length is the loop's index
    result,     \* how the operation ended: "ok", "nothing", or an error kind
    before,     \* the list when it was counted
    ever,       \* instances registered at some time during the operation
    left        \* instances unregistered during the operation

manager == <<up, registered, made>>
call == <<op, target, pc, count, infos, result>>
history == <<before, ever, left>>
vars == <<manager, call, history>>

Ops == {"list", "attach", "tryAttach"}

Init ==
    /\ up = TRUE
    /\ registered = <<>>
    /\ made = 0
    /\ op = "list"
    /\ target \in Names
    /\ pc = "idle"
    /\ count = 0
    /\ infos = <<>>
    /\ result = "none"
    /\ before = <<>>
    /\ ever = {}
    /\ left = {}

-----------------------------------------------------------------------------

Begin(o, name) ==
    /\ pc = "idle"
    /\ op' = o
    /\ target' = name
    /\ pc' = IF o = "list" THEN "count" ELSE "create"
    /\ count' = 0
    /\ infos' = <<>>
    /\ result' = "none"
    /\ before' = <<>>
    /\ ever' = ToSet(registered)
    /\ left' = {}
    /\ UNCHANGED manager

End(r) ==
    /\ pc' = "idle"
    /\ result' = r

\* The operation throws; tryAttach() turns what is retryable into nullopt.
Throw(kind) ==
    End(IF op = "tryAttach" /\ IsRetryable(kind) THEN "nothing" ELSE kind)

Failures == SdkFaults \cup (IF up THEN {} ELSE {"SREC_CONNECTION_ERROR"})

\* CreateInterface(): an interface, an error, or no such instance, which is
\* also what success without an interface is taken for.
CreateInterface ==
    /\ pc = "create"
    /\ \/ up /\ target \in ToSet(registered) /\ End("ok")
       \/ up /\ target \notin BadNames /\ pc' = "count" /\ UNCHANGED result
       \/ \E code \in Failures
              \cup (IF up /\ target \in BadNames THEN {"SREC_WRONG_ARGUMENT"} ELSE {}) :
            Throw(Classify(code))
    /\ UNCHANGED <<manager, op, target, count, infos, history>>

\* GetRegisteredInstancesCount() reports no error.
GetCount ==
    /\ pc = "count"
    /\ count' = IF up THEN Len(registered) ELSE 0
    /\ before' = registered
    /\ pc' = "query"
    /\ UNCHANGED <<manager, op, target, infos, result, ever, left>>

\* registeredInstances() returns: to the caller, or into the message.
Listed == IF op = "list" THEN End("ok") ELSE Throw("InstanceNotFound")

\* (mutant: the loop leaves out the last index)
More_OneFewer == Len(infos) + 1 < count

More == Len(infos) < count

EndLoop ==
    /\ pc = "query"
    /\ ~More
    /\ Listed
    /\ UNCHANGED <<manager, op, target, count, infos, history>>

\* (mutant: the answer is used whatever the code says)
StaleIndex_Ignored == FALSE

StaleIndex == Len(infos) >= Len(registered)

\* (mutant: a stale index is an error like any other)
AtStaleIndex_Throws == Throw(Classify("SREC_INDEX_OUT_OF_RANGE"))

AtStaleIndex == Listed

\* What is in the buffer: the entry, or the zeros it was initialised with.
InfoAt(index) == IF index < Len(registered) THEN registered[index + 1] ELSE ""

\* GetRegisteredInstanceInfoAt(): an entry, an index the list no longer has,
\* which ends the loop, or an error.
Query ==
    /\ pc = "query" /\ More
    /\ \/ /\ up /\ ~StaleIndex
          /\ infos' = Append(infos, InfoAt(Len(infos)))
          /\ UNCHANGED <<pc, result>>
       \/ up /\ StaleIndex /\ AtStaleIndex /\ UNCHANGED infos
       \/ /\ \E code \in Failures : Throw(Classify(code))
          /\ UNCHANGED infos
    /\ UNCHANGED <<manager, op, target, count, history>>

-----------------------------------------------------------------------------
(* The Control Panel. *)

\* What the history keeps of a change.
During(S) == IF pc = "idle" THEN {} ELSE S

Register(name) ==
    /\ up
    /\ made < MaxRegister
    /\ name \notin ToSet(registered) \cup BadNames
    /\ registered' = Append(registered, name)
    /\ made' = made + 1
    /\ ever' = ever \cup During({name})
    /\ UNCHANGED <<up, call, before, left>>

Unregister(i) ==
    /\ registered' = RemoveAt(registered, i)
    /\ left' = left \cup During({registered[i]})
    /\ UNCHANGED <<up, made, call, before, ever>>

Stop ==
    /\ up
    /\ up' = FALSE
    /\ registered' = <<>>
    /\ left' = left \cup During(ToSet(registered))
    /\ UNCHANGED <<made, call, before, ever>>

ControlPanel ==
    \/ Stop
    \/ \E name \in Names : Register(name)
    \/ \E i \in DOMAIN registered : Unregister(i)

Next ==
    \/ \E o \in Ops, name \in Names : Begin(o, name)
    \/ CreateInterface \/ GetCount \/ Query \/ EndLoop
    \/ ControlPanel

Spec == Init /\ [][Next]_vars

-----------------------------------------------------------------------------
(* Correctness. *)

TypeOK ==
    /\ up \in BOOLEAN
    /\ registered \in Seq(Names)
    /\ made \in 0 .. MaxRegister
    /\ op \in Ops
    /\ target \in Names
    /\ pc \in {"idle", "create", "count", "query"}
    /\ count \in 0 .. MaxRegister
    /\ infos \in Seq(Names) /\ Len(infos) <= count
    /\ result \in {"none", "ok", "nothing"} \cup ErrorKinds
    /\ before \in Seq(Names)
    /\ ever \in SUBSET Names
    /\ left \in SUBSET Names

Listing == pc = "idle" /\ op = "list" /\ result = "ok"

\* However the list changes between the count and the queries: whatever is
\* returned was registered while the call ran, never a leftover or an entry
\* that was not filled in.
NoGhosts == Listing => ToSet(infos) \subseteq ever

\* As long as nothing is unregistered meanwhile, the loop of single queries is
\* as good as one atomic query at the moment of the count, although other
\* instances are registered in between.
SnapshotWhileNothingLeaves == Listing /\ left = {} => infos = before

\* "a stale index is not an error worth propagating" (SdkBridge.cpp:600), and
\* "Non-throwing attach, for polling reconnect loops" (RuntimeManager.hpp:69):
\* with an SDK whose own failures are retryable, the only error a caller has to
\* treat as its own is a name the SDK refuses, also when the list shrinks under
\* the loop that composes the message.
OnlyBadNamesAreFatal ==
    result \in ErrorKinds /\ ~IsRetryable(result) => op # "list" /\ target \in BadNames

=============================================================================
