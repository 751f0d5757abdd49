------------------------------ MODULE DllSearch ------------------------------
(***************************************************************************)
(* Where the Siemens API DLL is looked for: _autodetect_api_dll_dir() of   *)
(* plcsim_connector/__init__.py with its process-wide cache, and the       *)
(* search InitializeApi() makes of its own when it is given no directory.  *)
(* The installation may change while the process lives.                    *)
(*                                                                         *)
(* A directory stands for the folder API\<version> below it. An            *)
(* installation says which directory the registry names, which directories *)
(* hold the DLL of this version and bitness, and what lies in the          *)
(* application's folder: no DLL, the right one, or "a stale copy".         *)
(***************************************************************************)
EXTENDS Naturals

CONSTANTS
    Installations,  \* the installations the machine may be in
    BuildVersions,  \* __api_version__: a set of versions, "" when unknown
    MaxInstalls     \* bound on the changes of the installation

Dirs == {"registry", "default"}

NoDir == "none"

ASSUME DllSearchAssumption ==
    /\ Installations \subseteq
          [registry : Dirs \cup {NoDir}, holds : SUBSET Dirs, app : {"none", "good", "stale"}]
    /\ "unset" \notin Dirs
    /\ MaxInstalls \in Nat

VARIABLES
    version,    \* __api_version__ of this build
    disk,       \* the installation
    installs,   \* how often it has changed
    cache,      \* what lru_cache remembers: "unset", NoDir or a directory
    stale       \* the installation has changed since (only for the properties)

search == <<version, disk, installs, cache, stale>>

SearchInit ==
    /\ version \in BuildVersions
    /\ disk \in Installations
    /\ installs = 0
    /\ cache = "unset"
    /\ stale = FALSE

\* Setup, removal, or an upgrade in another place.
Install ==
    /\ installs < MaxInstalls
    /\ disk' \in Installations \ {disk}
    /\ installs' = installs + 1
    /\ stale' = (cache # "unset")
    /\ UNCHANGED <<version, cache>>

\* (mutant: the first candidate is taken without looking for the DLL in it)
Locate_Unchecked ==
    IF version = "" THEN NoDir ELSE IF disk.registry # NoDir THEN disk.registry ELSE "default"

\* The candidates in order: the directory of the registry, then the default one.
Locate ==
    IF version = "" THEN NoDir
    ELSE IF disk.registry \in disk.holds THEN disk.registry
    ELSE IF "default" \in disk.holds THEN "default" ELSE NoDir

AutodetectApiDllDir == IF cache = "unset" THEN Locate ELSE cache

\* RuntimeManager.__init__: the directory handed to the native constructor.
DirFor(explicit) == IF explicit # NoDir THEN explicit ELSE AutodetectApiDllDir

\* None is remembered too.
Search(explicit) ==
    /\ cache' = IF explicit # NoDir THEN cache ELSE AutodetectApiDllDir
    /\ UNCHANGED <<version, disk, installs, stale>>

\* InitializeApi(dir), and with no dir its own search: "it stops at the first
\* folder where a same-named DLL exists" (__init__.py:55).
LoadCode(dir) ==
    LET folder == IF dir = NoDir THEN disk.registry ELSE dir
    IN  IF dir = NoDir /\ disk.app = "stale" THEN "SREC_INVALID_ERROR_CODE"
        ELSE IF dir = NoDir /\ disk.app = "good" THEN "SREC_OK"
        ELSE IF folder \in disk.holds THEN "SREC_OK" ELSE "SREC_ERROR_LOADING_DLL"

Loads(dir) == LoadCode(dir) = "SREC_OK"

SearchTypeOK ==
    /\ version \in BuildVersions
    /\ disk \in Installations
    /\ installs \in 0 .. MaxInstalls
    /\ cache \in Dirs \cup {NoDir, "unset"}
    /\ stale \in BOOLEAN

=============================================================================
