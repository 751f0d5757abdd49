---------------------------- MODULE Reconnection ----------------------------
(***************************************************************************)
(* What the caller of a ReconnectingInstance may rely on, without Runtime  *)
(* Manager, session or PLC: how its link to an instance comes and goes     *)
(* while an operation is under way, and what the way an operation ended    *)
(* tells of the link.                                                      *)
(***************************************************************************)

CONSTANT Client

VARIABLES
    op,       \* the operation under way, or the last one
    busy,     \* one is under way
    link,     \* "none", "new" until the hook has been called, then "ready"
    result    \* how the last one that has ended did

vars == <<op, busy, link, result>>

\* What an operation ends with over a link, and without one.
Success == [o \in {"poll", "connect", "call", "state"} |->
               IF o \in {"poll", "connect"} THEN "attached" ELSE "ok"]

Absence == [o \in {"poll", "connect", "call", "state", "close"} |->
               CASE o = "poll" -> "not_attached"
                 [] o = "connect" -> "timeout"
                 [] o = "close" -> "closed"
                 [] OTHER -> "not_connected"]

Init ==
    /\ op = [c \in Client |-> "close"]
    /\ busy = [c \in Client |-> FALSE]
    /\ link = [c \in Client |-> "none"]
    /\ result = [c \in Client |-> "none"]

Begin(c) ==
    /\ ~busy[c]
    /\ busy' = [busy EXCEPT ![c] = TRUE]
    /\ \E o \in DOMAIN Absence : op' = [op EXCEPT ![c] = o]
    /\ UNCHANGED <<link, result>>

\* A link is lost, made, or shown to the hook, only inside an operation.
Relink(c) ==
    /\ busy[c]
    /\ \E change \in {<<"ready", "none">>, <<"none", "new">>, <<"new", "ready">>} :
          link[c] = change[1] /\ link' = [link EXCEPT ![c] = change[2]]
    /\ UNCHANGED <<op, busy, result>>

\* No operation leaves a new link behind.
End(c, r, after) ==
    /\ busy[c]
    /\ busy' = [busy EXCEPT ![c] = FALSE]
    /\ result' = [result EXCEPT ![c] = r]
    /\ link' = [link EXCEPT ![c] = after]
    /\ UNCHANGED op

\* No value is exchanged before the hook has been called.
Succeed(c) ==
    /\ op[c] # "close"
    /\ link[c] \in (IF op[c] \in {"poll", "connect"} THEN {"new", "ready"} ELSE {"ready"})
    /\ End(c, Success[op[c]], "ready")

\* Only close() gives a link up as it ends.
GiveUp(c) ==
    /\ link[c] = "none" \/ op[c] = "close"
    /\ End(c, Absence[op[c]], "none")

\* There is no Runtime Manager to make a link with.
Unavailable(c) == op[c] # "close" /\ link[c] = "none" /\ End(c, "unavailable", "none")

\* A failure over a link leaves the link, whoever has failed.
Fail(c) ==
    /\ op[c] # "close"
    /\ \E r \in {"retryable", "fatal"} :
          /\ r = "retryable" => link[c] # "none"
          /\ End(c, r, IF link[c] = "none" THEN "none" ELSE "ready")

Next ==
    \E c \in Client :
        Begin(c) \/ Relink(c) \/ Succeed(c) \/ GiveUp(c) \/ Unavailable(c) \/ Fail(c)

Spec == Init /\ [][Next]_vars

=============================================================================
