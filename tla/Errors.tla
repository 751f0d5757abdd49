------------------------------- MODULE Errors -------------------------------
(***************************************************************************)
(* From a Siemens error code to an exception: classify() of SdkBridge.cpp, *)
(* is_retryable() of Error.cpp, and the Python exception types of          *)
(* bindings/python/module.cpp.                                             *)
(***************************************************************************)

\* Codes the bridge names, a warning (positive), and one it does not name.
Codes == {"SREC_OK", "SREC_WARNING_TRIAL_MODE_ACTIVE", "SREC_DOES_NOT_EXIST",
          "SREC_INTERFACE_REMOVED", "SREC_TIMEOUT", "SREC_INSTANCE_NOT_RUNNING",
          "SREC_NOT_RUNNING", "SREC_INDEX_OUT_OF_RANGE", "SREC_WRONG_ARGUMENT",
          "SREC_LIMIT_REACHED", "SREC_RUNTIME_NOT_AVAILABLE",
          "SREC_CONNECTION_ERROR", "SREC_API_NOT_INITIALIZED",
          "SREC_ERROR_LOADING_DLL", "SREC_WRONG_VERSION", "SREC_INVALID_ERROR_CODE"}

\* Zero is success and a positive code a warning.
Succeeded(code) == code \in {"SREC_OK", "SREC_WARNING_TRIAL_MODE_ACTIVE"}

KindTable ==
    [SREC_DOES_NOT_EXIST        |-> "InstanceNotFound",
     SREC_INTERFACE_REMOVED     |-> "ConnectionLost",
     SREC_TIMEOUT               |-> "Timeout",
     SREC_INSTANCE_NOT_RUNNING  |-> "InstanceNotRunning",
     SREC_NOT_RUNNING           |-> "InstanceNotRunning",
     SREC_INDEX_OUT_OF_RANGE    |-> "IndexOutOfRange",
     SREC_WRONG_ARGUMENT        |-> "WrongArgument",
     SREC_LIMIT_REACHED         |-> "LimitReached",
     SREC_RUNTIME_NOT_AVAILABLE |-> "RuntimeManagerUnavailable",
     SREC_CONNECTION_ERROR      |-> "RuntimeManagerUnavailable",
     SREC_API_NOT_INITIALIZED   |-> "ApiNotInitialized",
     SREC_ERROR_LOADING_DLL     |-> "ApiNotInitialized",
     SREC_WRONG_VERSION         |-> "ApiNotInitialized"]

Classify(code) == IF code \in DOMAIN KindTable THEN KindTable[code] ELSE "Other"

ErrorKinds ==
    {"InvalidAddress", "ApiNotInitialized", "RuntimeManagerUnavailable",
     "InstanceNotFound", "ConnectionLost", "Timeout", "InstanceNotRunning",
     "IndexOutOfRange", "WrongArgument", "LimitReached", "Other"}

IsRetryable(kind) ==
    kind \in {"RuntimeManagerUnavailable", "InstanceNotFound", "ConnectionLost",
              "Timeout", "InstanceNotRunning"}

\* (mutant: Timeout is registered under the base class)
Parent_TimeoutUnderBase(exception) ==
    IF exception \in {"RuntimeManagerUnavailableError", "InstanceNotFoundError",
                      "ConnectionLostError", "InstanceNotRunningError"}
    THEN "RetryableError" ELSE "PlcSimError"

\* The class an exception type of the extension module is derived from.
Parent(exception) ==
    IF exception \in {"RuntimeManagerUnavailableError", "InstanceNotFoundError",
                      "ConnectionLostError", "TimeoutError", "InstanceNotRunningError"}
    THEN "RetryableError" ELSE "PlcSimError"

\* for_kind(): the exception raised for an error of a kind.
ExceptionTable ==
    [InvalidAddress            |-> "InvalidAddressError",
     IndexOutOfRange           |-> "IndexOutOfRangeError",
     ApiNotInitialized         |-> "ApiNotInitializedError",
     RuntimeManagerUnavailable |-> "RuntimeManagerUnavailableError",
     InstanceNotFound          |-> "InstanceNotFoundError",
     ConnectionLost            |-> "ConnectionLostError",
     Timeout                   |-> "TimeoutError",
     InstanceNotRunning        |-> "InstanceNotRunningError"]

ForKind(kind) ==
    IF kind \in DOMAIN ExceptionTable THEN ExceptionTable[kind] ELSE "PlcSimError"

\* "except RetryableError" in Python catches the error.
CaughtAsRetryable(kind) == Parent(ForKind(kind)) = "RetryableError"

=============================================================================
