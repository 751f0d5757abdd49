----------------------------- MODULE ApiSession -----------------------------
(***************************************************************************)
(* What the process-wide API lifetime promises, free of threads, of the    *)
(* mutex and of the reference count (SdkBridge.cpp:274-280): the Siemens   *)
(* DLL is initialised once for any number of users, an interface to an     *)
(* instance is only ever open inside the session it was created in, and    *)
(* the DLL is freed only when nobody uses it and no interface is open.     *)
(***************************************************************************)
EXTENDS Naturals

CONSTANTS
    Manager,     \* RuntimeManager objects
    Inst,        \* Instance objects
    MaxSession   \* bound on the successful InitializeApi calls

VARIABLES
    session,     \* the initialised session, 0 when the DLL is not loaded
    started,     \* how many sessions have been started
    users,       \* the objects that hold the API
    open         \* the interface of each instance: its session, or 0

vars == <<session, started, users, open>>

Init ==
    /\ session = 0
    /\ started = 0
    /\ users = {}
    /\ open = [i \in Inst |-> 0]

\* The DLL is loaded for the first user. A session never starts inside another.
Start ==
    /\ session = 0
    /\ started < MaxSession
    /\ session' = started + 1
    /\ started' = started + 1
    /\ UNCHANGED <<users, open>>

Join(h) ==
    /\ session # 0
    /\ h \notin users
    /\ users' = users \cup {h}
    /\ UNCHANGED <<session, started, open>>

\* An instance gives up the API only after its interface is gone.
Leave(h) ==
    /\ h \in users
    /\ h \in Inst => open[h] = 0
    /\ users' = users \ {h}
    /\ UNCHANGED <<session, started, open>>

\* An interface is created for somebody who holds the API, in that session.
OpenInterface(i) ==
    /\ users # {}
    /\ open[i] = 0
    /\ open' = [open EXCEPT ![i] = session]
    /\ UNCHANGED <<session, started, users>>

\* DestroyInterface() needs the DLL it came from.
CloseInterface(i) ==
    /\ open[i] # 0
    /\ open[i] = session
    /\ open' = [open EXCEPT ![i] = 0]
    /\ UNCHANGED <<session, started, users>>

\* The DLL is freed from under nobody.
Stop ==
    /\ session # 0
    /\ users = {}
    /\ \A i \in Inst : open[i] = 0
    /\ session' = 0
    /\ UNCHANGED <<started, users, open>>

Next ==
    \/ Start
    \/ \E h \in Manager \cup Inst : Join(h) \/ Leave(h)
    \/ \E i \in Inst : OpenInterface(i) \/ CloseInterface(i)
    \/ Stop

Spec == Init /\ [][Next]_vars

=============================================================================
