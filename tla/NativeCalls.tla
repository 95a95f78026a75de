----------------------------- MODULE NativeCalls -----------------------------
(***************************************************************************)
(* The native adapters of the plugin host (crates/webplus-native): how the *)
(* values of a request become arguments of a DLL export, of a COM method   *)
(* or of a process, and what is answered.  PluginContract has the          *)
(* declarations; here is what a call does with them.                       *)
(*                                                                         *)
(* A value of a request is one of the classes the adapters tell apart.     *)
(* "control" is a text with a control character of cmd.exe, "foreign" one  *)
(* that GBK lacks, "nul" one that has a NUL.  What the native code itself  *)
(* answers is any value of the type it writes.                             *)
(***************************************************************************)
EXTENDS PluginContract

CONSTANT Error      \* InvokeResponse::error

Integral == {"small", "negative", "wide", "huge"}   \* < 2^31, < 0, < 2^32, larger
Numbers == Integral \cup {"vast", "fraction"}       \* vast: beyond 64 bits signed
Texts == {"text", "control", "foreign", "nul"}
Values == Numbers \cup Texts \cup {"null", "flag", "object"}

\* A request is a function from the fields it has; an absent one is null.
ValueOf(request, field) == IF field \in DOMAIN request THEN request[field] ELSE "null"

-----------------------------------------------------------------------------
(***************************************************************************)
(* DLL: every argument is one machine word.                                *)
(***************************************************************************)
ResolvedDllType(p, value) ==
    IF Declared(p) \notin Untyped THEN Declared(p)
    ELSE CASE value \in Texts \cup {"null"} -> "string"
           [] value = "flag" -> "bool"
           [] value \in Numbers -> "int"
           [] OTHER -> "unsupported"

\* TextEncoding::for_parameter
Charset(service, p) == IF p.typed /\ p.charset # None THEN p.charset ELSE service.charset

\* A value of another class than the declared one is an empty text or false.
DllInput(service, p, value) ==
    CASE ResolvedDllType(p, value) = "string" ->
           value # "nul" /\ (value = "foreign" => Charset(service, p) # "gbk")
      [] ResolvedDllType(p, value) = "bool" -> TRUE
      [] ResolvedDllType(p, value) \in IntTypes \cup {"uint", "uint32"} -> value \in Integral
      [] OTHER -> FALSE

DllOutput(p) ==
    CASE Declared(p) \in IntTypes -> TRUE
      [] Declared(p) \in {"string", "buffer"} \cup Untyped -> ~p.typed \/ p.len \in 1..MaxBuffer
      [] OTHER -> FALSE

DllPrepares(service, method, request) ==
    /\ Len(method.params) <= MaxArguments
    /\ \A p \in Inputs(method) : DllInput(service, p, ValueOf(request, p.name))
    /\ \A p \in Outputs(method) : DllOutput(p)

\* The classes of JSON an output parameter and a returned word can be.
DllOutputKinds(p) == IF Declared(p) \in IntTypes THEN {"number"} ELSE {"string"}

DllReturnKinds(declared) ==
    CASE declared = "void" -> {"null"}
      [] declared \in {"string", "char*", "pointer_string"} -> {"string", "null"}
      [] declared \in BoolTypes -> {"boolean"}
      [] declared \in {""} \cup IntTypes \cup UIntTypes \cup {"pointer", "uintptr", "usize"} -> {"number"}
      [] OTHER -> {}                                   \* the answer is an error

-----------------------------------------------------------------------------
(***************************************************************************)
(* COM: every argument is a VARIANT of the declared type; null is an empty *)
(* text whatever was declared.  What the method returns is converted by    *)
(* the VARIANT that comes back, whatever return type was declared.         *)
(***************************************************************************)
ComInput(p, value) ==
    \/ value = "null"
    \/ Declared(p) \in {"string", "buffer"} \cup Untyped /\ value \in Texts
    \/ Declared(p) \in BoolTypes \cup Untyped /\ value = "flag"
    \/ Declared(p) \in IntTypes /\ value \in {"small", "negative"}
    \/ Declared(p) \in UIntTypes /\ value \in {"small", "wide"}
    \/ Declared(p) \in FloatTypes \cup Untyped /\ value \in Numbers

ComOutput(p) ==
    Declared(p) \in {"string", "buffer"} \cup Untyped \cup BoolTypes \cup IntTypes \cup UIntTypes
                    \cup FloatTypes

ComPrepares(method, request) ==
    /\ \A p \in Inputs(method) : ComInput(p, ValueOf(request, p.name))
    /\ \A p \in Outputs(method) : ComOutput(p)

ComOutputKinds(p) ==
    CASE Declared(p) \in IntTypes \cup UIntTypes \cup FloatTypes -> {"number"}
      [] Declared(p) \in BoolTypes -> {"boolean"}
      [] OTHER -> {"string"}

AnyKind == {"null", "string", "boolean", "number", "object"}

-----------------------------------------------------------------------------
(***************************************************************************)
(* EXE and BAT: every parameter, $ or not, is an argument made of the      *)
(* value of that name.  A method that waits answers what the process       *)
(* wrote; one that does not answers a plain text.                          *)
(***************************************************************************)
ProcessPrepares(service, method, request) ==
    service.main = "bat" => \A p \in Inputs(method) : ValueOf(request, p.name) # "control"

ProcessAnswer(method) ==
    IF method.wait
    THEN [field \in {ReturnValue, "stdout", "stderr", "stdoutTruncated", "stderrTruncated"} |->
             CASE field = ReturnValue -> {"number"}
               [] field \in {"stdout", "stderr"} -> {"string"}
               [] OTHER -> {"boolean"}]
    ELSE <<>>

-----------------------------------------------------------------------------
(***************************************************************************)
(* NativePlugin::try_invoke: the answer is Error, or a function from its   *)
(* fields to the classes they can be.                                      *)
(***************************************************************************)
Prepares(service, method, request) ==
    CASE service.main = "dll" -> DllPrepares(service, method, request)
      [] service.main = "com" -> ComPrepares(method, request)
      [] OTHER -> ProcessPrepares(service, method, request)

OutputKinds(service, p) ==
    IF service.main = "dll" THEN DllOutputKinds(p) ELSE ComOutputKinds(p)

\* An answer is Error too when insert_result_field finds the field there.
Answer(service, method) ==
    IF service.main \notin {"dll", "com"} THEN ProcessAnswer(method)
    ELSE IF ~IsInjective(AnswerFields(method)) THEN Error
    ELSE [field \in ToSet(AnswerFields(method)) |->
             CASE field = ReturnValue /\ service.main = "dll" -> DllReturnKinds(method.returns)
               [] field = ReturnValue \/ field \in ToSet(method.props) -> AnyKind
               [] OTHER -> OutputKinds(service, CHOOSE p \in Outputs(method) : p.name = field)]

Invoke(service, route, request) ==
    IF route \notin Routes(service) THEN Error
    ELSE IF ~Prepares(service, Served(service, route), request) THEN Error
    ELSE Answer(service, Served(service, route))

-----------------------------------------------------------------------------
(***************************************************************************)
(* What the generated clients of a page send and expect                    *)
(***************************************************************************)
ConformingInputs(type) ==
    CASE type = "string" -> {"text"}
      [] type = "boolean" -> {"flag"}
      [] type = "int32" -> {"small", "negative"}
      [] type = "uint32" -> {"small", "wide"}
      [] type = "number" -> {"small", "fraction"}
      [] OTHER -> {"text", "flag", "small", "negative", "null"}

\* typescript_native_type, for a parameter and for a returned value
TypescriptType(declared) ==
    CASE declared = "string" -> "string"
      [] declared \in BoolTypes -> "boolean"
      [] declared \in IntTypes \cup UIntTypes \cup FloatTypes -> "number"
      [] declared = "void" -> "null"
      [] OTHER -> "JsonValue"

KindsOf(typescript) == IF typescript = "JsonValue" THEN AnyKind ELSE {typescript}

\* The result type of a client method (generate_typescript_client).
ClientResult(method) ==
    [field \in ToSet(AnswerFields(method)) |->
        IF field = ReturnValue THEN TypescriptType(method.returns)
        ELSE IF field \in ToSet(method.props) THEN "JsonValue"
        ELSE TypescriptType(Declared(CHOOSE p \in Outputs(method) : p.name = field))]

ConformingRequests(method) ==
    {request \in [DOMAIN InputContract(method) -> Values] :
       \A field \in DOMAIN request : request[field] \in ConformingInputs(InputContract(method)[field])}
=============================================================================
