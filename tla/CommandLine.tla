----------------------------- MODULE CommandLine -----------------------------
(***************************************************************************)
(* main() of plcsim_connector/__main__.py: it lists the instances, then    *)
(* attaches to each by name, while the Control Panel goes on registering   *)
(* and unregistering them. Its calls are the operations of Discovery; what *)
(* an attached instance is asked for is one step, the texts are left out.  *)
(***************************************************************************)
EXTENDS Discovery

VARIABLES
    place,      \* where main() is: "off" before it starts, "exit" at the end
    rows,       \* the instances it goes through
    lines,      \* what it has printed of each
    status      \* of the program: "success" (0), "failure" (1), or "raised"

main == <<place, rows, lines, status>>

MainInit ==
    /\ Init
    /\ place = "off"
    /\ rows = <<>>
    /\ lines = <<>>
    /\ status = "none"

Exit(code) == place' = "exit" /\ status' = code

\* RuntimeManager(), whose every error ends the program, then version, which
\* reports no error, then registered_instances().
Start ==
    /\ place = "off" /\ pc = "idle"
    /\ \/ up /\ Begin("list", target) /\ place' = "list" /\ UNCHANGED status
       \/ (~up \/ SdkFaults # {}) /\ Exit("failure") /\ UNCHANGED <<manager, call, history>>
    /\ UNCHANGED <<rows, lines>>

\* The call is outside any try block.
ListReturns ==
    /\ place = "list" /\ pc = "idle"
    /\ \/ /\ result = "ok" /\ infos # <<>>
          /\ rows' = infos
          /\ Begin("attach", Head(infos))
          /\ place' = "attach"
          /\ UNCHANGED status
       \/ /\ result = "ok" /\ infos = <<>>
          /\ Exit("failure")
          /\ UNCHANGED <<manager, call, history, rows>>
       \/ /\ result # "ok"
          /\ Exit("raised")
          /\ UNCHANGED <<manager, call, history, rows>>
    /\ UNCHANGED lines

\* One more line is printed, and the loop goes on or ends.
PrintLine(line) ==
    /\ lines' = Append(lines, line)
    /\ \/ /\ Len(lines') < Len(rows)
          /\ Begin("attach", rows[Len(lines') + 1])
          /\ place' = "attach"
          /\ UNCHANGED status
       \/ /\ Len(lines') = Len(rows)
          /\ Exit("success")
          /\ UNCHANGED <<manager, call, history>>

\* (mutant: "except InstanceNotFoundError")
Except_NotFound(kind) ==
    \/ kind = "InstanceNotFound" /\ PrintLine("unavailable")
    \/ /\ kind # "InstanceNotFound" /\ Exit("raised")
       /\ UNCHANGED <<manager, call, history, lines>>

\* "except PlcSimError", the base of every exception of the extension module.
Except(kind) == kind \in ErrorKinds /\ PrintLine("unavailable")

AttachReturns ==
    /\ place = "attach" /\ pc = "idle"
    /\ \/ /\ result = "ok"
          /\ place' = "details"
          /\ UNCHANGED <<manager, call, history, lines, status>>
       \/ result # "ok" /\ Except(result)
    /\ UNCHANGED rows

\* operating_state, and for an instance that exchanges I/O the three area
\* sizes: none of them can be had from an instance that is gone, which answers
\* with a state that is not RUN.
Details ==
    /\ place = "details"
    /\ \/ target \in ToSet(registered) /\ PrintLine("sizes")
       \/ PrintLine("inactive")
       \/ Except("InstanceNotRunning")
    /\ UNCHANGED rows

MainNext ==
    \/ Start \/ ListReturns \/ AttachReturns \/ Details
    \/ (CreateInterface \/ GetCount \/ Query \/ EndLoop) /\ UNCHANGED main
    \/ ControlPanel /\ UNCHANGED main
    \/ \* a program of its own, instead of main()
       /\ place = "off"
       /\ \E o \in Ops, name \in Names : Begin(o, name)
       /\ UNCHANGED main

MainSpec == MainInit /\ [][MainNext]_<<vars, main>>

-----------------------------------------------------------------------------

\* Every instance that was listed gets its line and the program its exit status,
\* whatever becomes of the instances, or of the Runtime Manager, after the list
\* was made: between the list and attach(), inside the listing attach() makes
\* for its message, and between attach() and the questions that follow it.
VanishingCostsALine ==
    rows # <<>> /\ place = "exit" => status = "success" /\ Len(lines) = Len(rows)

=============================================================================
