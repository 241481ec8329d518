----------------------------- MODULE ErrorCodes -----------------------------
(***************************************************************************)
(* The u8 that carries the result of a runtime method from Python to Rust. *)
(* A method of the runtime answers a PythonRuntimeResult or a ServiceError;*)
(* its callback makes a byte of it, and Rust an ExecutionError of the byte.*)
(***************************************************************************)
EXTENDS Integers

\* PythonRuntimeResult
Ok == 0
UnknownService == 18
ServiceErrorsStart == 65

\* GenericServiceError
WrongServiceImplementation == 0
MalformedConfig == 1
MethodNotFound == 2

\* ServiceError.__init__: the code an error is given, and the one it has.
\* Only the base class may use the codes below 16, and no lower bound is
\* enforced for it.
StoredCode(base, code) == IF (~base /\ code < 16) \/ code > 128 THEN 128 ELSE code

\* What a method of the runtime does: it answers a result, or a ServiceError,
\* or its callback raises (an error that never got a code, say).
Result(value) == [kind |-> "result", code |-> value]
Error(base, code) == [kind |-> "error", code |-> StoredCode(base, code)]
Raises == [kind |-> "raises", code |-> 0]

\* Fault: the code of a ServiceError is returned as it is.
CallbackByteWithoutStart(answer) == answer.code % 256

\* The byte: ctypes keeps the low 8 bits of what the callback returns, and
\* returns 0 for a callback that raises.
CallbackByte(answer) ==
    IF answer.kind = "error" THEN (ServiceErrorsStart + answer.code) % 256
                             ELSE answer.code

\* PythonRuntimeResult::from_value in Rust.
Succeeded == [kind |-> "success", code |-> 0]

FromValue(byte) ==
    IF byte = Ok THEN Succeeded
    ELSE IF byte < ServiceErrorsStart THEN [kind |-> "runtime", code |-> byte]
    ELSE [kind |-> "service", code |-> byte - ServiceErrorsStart]
=============================================================================
