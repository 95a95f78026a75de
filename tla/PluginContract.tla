--------------------------- MODULE PluginContract ---------------------------
(***************************************************************************)
(* What a plugin may declare and what a change of it means                 *)
(* (crates/webplus-plugin-config/src/lib.rs): which services are accepted, *)
(* how a directory of plugins is discovered, how two versions of a service *)
(* are compared, and which files of a local mapping are protected.         *)
(*                                                                         *)
(* A service has one native entry and a sequence of methods:               *)
(*   [main |-> "dll", "com" or "exe", binding, charset, timeout, methods]  *)
(* A method, with alias = None when it has none:                           *)
(*   [name, alias, tracked, returns, params, props, wait, timeout]         *)
(* A parameter: [name, out, typed, type, len, charset]. out is the leading *)
(* $ of an output; a parameter that is only a name is not typed. Types are *)
(* the lower-case words of the declaration, "" when there is none. A       *)
(* charset is "gbk" or "utf8", that of a parameter (charset, or decode     *)
(* where it has none) None when it has that of the service. Lengths of     *)
(* names, counts of services and byte limits are left out.                 *)
(***************************************************************************)
EXTENDS Naturals, Sequences, SequencesExt

CONSTANTS
    None,
    Link,           \* what is there instead of a regular file
    MaxArguments,   \* MAX_DLL_ARGUMENTS
    MaxBuffer       \* longest output buffer of a DLL call

ASSUME ContractAssumption == MaxArguments \in Nat /\ MaxBuffer \in Nat

ReturnValue == "returnValue"       \* NATIVE_RETURN_VALUE_FIELD

IntTypes == {"int", "int32", "long"}
UIntTypes == {"uint", "uint32", "dword"}
FloatTypes == {"float", "double"}
BoolTypes == {"bool", "boolean"}
Untyped == {"", "inferred"}

\* What a parameter is read as: one that is only a name is inferred.
Declared(p) == IF p.typed THEN p.type ELSE "inferred"

Params(method) == ToSet(method.params)
Inputs(method) == {p \in Params(method) : ~p.out}
Outputs(method) == {p \in Params(method) : p.out}

-----------------------------------------------------------------------------
(***************************************************************************)
(* validate_service: names are unique, the fields of an answer are unique  *)
(* and do not take the place of the return value, and the types are ones   *)
(* the native adapter of the service has.                                  *)
(***************************************************************************)
MethodNames(method) == <<method.name>> \o (IF method.alias = None THEN <<>> ELSE <<method.alias>>)

AllNames(service) ==
    FlattenSeq([i \in DOMAIN service.methods |-> MethodNames(service.methods[i])])

UniqueRoutes(service) == IsInjective(AllNames(service))

UniqueParameters(method) ==
    IsInjective([i \in DOMAIN method.params |-> method.params[i].name])

AnswerFields(method) ==
    <<ReturnValue>>
    \o LET outputs == SelectSeq(method.params, LAMBDA p : p.out)
       IN  [i \in DOMAIN outputs |-> outputs[i].name]
    \o method.props

\* Mutant: properties are only compared with one another.
UniqueOutputs(method) ==
    IsInjective(method.props) /\ IsInjective(SubSeq(AnswerFields(method), 1, Len(AnswerFields(method)) - Len(method.props)))

UniqueAnswerFields(method) == IsInjective(AnswerFields(method))

DllReturns == {"", "void", "string", "char*", "pointer_string", "pointer", "uintptr", "usize"}
              \cup BoolTypes \cup IntTypes \cup UIntTypes

DllParameter(p) ==
    \/ ~p.typed
    \/ p.out /\ p.type \in {"", "inferred", "string", "buffer"} /\ p.len \in 1..MaxBuffer
    \/ p.out /\ p.type \in IntTypes
    \/ ~p.out /\ p.type \in {"", "inferred", "string", "bool", "uint", "uint32"} \cup IntTypes

ValidDll(service) ==
    \A method \in ToSet(service.methods) :
        /\ method.props = <<>>
        /\ method.returns \in DllReturns
        /\ Len(method.params) <= MaxArguments
        /\ \A p \in Params(method) : DllParameter(p)

ComParameter(p) ==
    ~p.typed \/ p.type \in {"", "inferred", "string", "buffer"} \cup BoolTypes \cup IntTypes
                            \cup UIntTypes \cup FloatTypes

ValidCom(service) ==
    \A method \in ToSet(service.methods) : \A p \in Params(method) : ComParameter(p)

ValidService(service) ==
    /\ UniqueRoutes(service)
    /\ \A method \in ToSet(service.methods) :
         /\ UniqueParameters(method) /\ UniqueAnswerFields(method)
         /\ method.props # <<>> => service.main \in {"dll", "com"}
    /\ CASE service.main = "dll" -> ValidDll(service)
         [] service.main = "com" -> ValidCom(service)
         [] OTHER -> TRUE

-----------------------------------------------------------------------------
(***************************************************************************)
(* compare_public_api: what a new version of the services takes away from  *)
(* a page written for the old one (breaking), changes behind the same      *)
(* contract (review), and adds. A version is a function from the ids of    *)
(* its services; a change is <<code, service, route, field>>.              *)
(***************************************************************************)
ContractType(p, output) ==
    LET declared == Declared(p) IN
    CASE declared \in Untyped -> IF output THEN "string" ELSE "inferred"
      [] declared \in {"string", "buffer"} -> "string"
      [] declared \in BoolTypes -> "boolean"
      [] declared \in IntTypes -> "int32"
      [] declared \in UIntTypes -> "uint32"
      [] declared \in FloatTypes -> "number"
      [] OTHER -> declared

ReturnContract(service, declared) ==
    CASE declared = "" -> IF service.main = "dll" THEN "int32" ELSE "json"
      [] declared = "void" -> "null"
      [] declared \in {"string", "char*", "pointer_string"} -> "string"
      [] declared \in BoolTypes -> "boolean"
      [] declared \in IntTypes -> "int32"
      [] declared \in UIntTypes -> "uint32"
      [] declared \in FloatTypes -> "number"
      [] declared \in {"pointer", "uintptr", "usize"} -> "pointer"
      [] OTHER -> declared

\* Both contracts are functions from the names of the fields to their types.
InputContract(method) ==
    [field \in {p.name : p \in Inputs(method)} |->
        ContractType(CHOOSE p \in Inputs(method) : p.name = field, FALSE)]

ResponseContract(service, method) ==
    [field \in ToSet(AnswerFields(method)) |->
        IF field \in ToSet(method.props) THEN "json"
        ELSE IF field = ReturnValue THEN ReturnContract(service, method.returns)
        ELSE ContractType(CHOOSE p \in Outputs(method) : p.name = field, TRUE)]

\* The routes of a service; of two methods with a name the later one counts.
Routes(service) == ToSet(AllNames(service))
Answers(method, route) == route \in ToSet(MethodNames(method))
Answering(service, route) == {i \in DOMAIN service.methods : Answers(service.methods[i], route)}
Target(service, route) == service.methods[Max(Answering(service, route))]

\* The method a request is served by (ServiceDefinition::method): the first.
Served(service, route) == service.methods[Min(Answering(service, route))]

ServiceReview(old, new) ==
    (IF old.main # new.main \/ old.binding # new.binding \/ old.charset # new.charset
     THEN {"service-native-binding-changed"} ELSE {})
    \cup (IF old.timeout # new.timeout THEN {"service-timeout-changed"} ELSE {})

Retyped(old, new) == {f \in DOMAIN old \cap DOMAIN new : old[f] # new[f]}

\* Mutant: an input that a page of the old version does not send may be added.
InputBreaksKnown(old, new) ==
    ({"input-removed"} \X (DOMAIN old \ DOMAIN new)) \cup ({"input-type-changed"} \X Retyped(old, new))

InputBreaks(old, new) ==
    ({"input-removed"} \X (DOMAIN old \ DOMAIN new))
    \cup ({"input-type-changed"} \X Retyped(old, new))
    \cup ({"required-input-added"} \X (DOMAIN new \ DOMAIN old))

ResponseBreaks(old, new) ==
    ({"response-field-removed"} \X (DOMAIN old \ DOMAIN new))
    \cup ({"response-type-changed"} \X Retyped(old, new))

\* The changes of one route, as <<code, field>>.
MethodBreaks(oldService, old, newService, new) ==
    (IF old.tracked # new.tracked THEN {<<"tracked-invocation-policy-changed", None>>} ELSE {})
    \cup InputBreaks(InputContract(old), InputContract(new))
    \cup ResponseBreaks(ResponseContract(oldService, old), ResponseContract(newService, new))

Names(method) == [i \in DOMAIN method.params |-> <<method.params[i].out, method.params[i].name>>]

MethodReview(oldService, old, newService, new) ==
    LET sameInputs == InputContract(old) = InputContract(new)
        sameAnswers == ResponseContract(oldService, old) = ResponseContract(newService, new)
        sameOrder == Names(old) = Names(new)
        sameFields == Len(Names(old)) = Len(Names(new)) /\ ToSet(Names(old)) = ToSet(Names(new))
        When(condition, code) == IF condition THEN {code} ELSE {}
    IN  When(old.name # new.name, "route-native-target-changed")
        \cup When(old.timeout # new.timeout, "method-timeout-changed")
        \cup When(~sameOrder /\ sameFields, "native-parameter-order-changed")
        \cup When(~sameOrder /\ ~sameFields, "native-parameter-layout-changed")
        \cup When(sameOrder /\ old.params # new.params /\ sameInputs /\ sameAnswers,
                  "native-parameter-options-changed")
        \cup When(old.props # new.props /\ sameAnswers, "native-property-order-changed")
        \cup When(old.wait # new.wait, "method-extension-changed")

Kept(old, new) == DOMAIN old \cap DOMAIN new
KeptRoutes(old, new, id) == Routes(old[id]) \cap Routes(new[id])

BreakingChanges(old, new) ==
    {<<"service-removed", id, None, None>> : id \in DOMAIN old \ DOMAIN new}
    \cup UNION {{<<"route-removed", id, route, None>> : route \in Routes(old[id]) \ Routes(new[id])}
                : id \in Kept(old, new)}
    \cup UNION {UNION {{<<change[1], id, route, change[2]>> :
                         change \in MethodBreaks(old[id], Target(old[id], route),
                                                 new[id], Target(new[id], route))}
                       : route \in KeptRoutes(old, new, id)} : id \in Kept(old, new)}

ReviewChanges(old, new) ==
    UNION {{<<code, id, None>> : code \in ServiceReview(old[id], new[id])} : id \in Kept(old, new)}
    \cup UNION {UNION {{<<code, id, route>> :
                         code \in MethodReview(old[id], Target(old[id], route),
                                               new[id], Target(new[id], route))}
                       : route \in KeptRoutes(old, new, id)} : id \in Kept(old, new)}

Additions(old, new) ==
    {<<"service-added", id, None>> : id \in DOMAIN new \ DOMAIN old}
    \cup UNION {{<<"route-added", id, route>> : route \in Routes(new[id]) \ Routes(old[id])}
                : id \in Kept(old, new)}
    \cup UNION {UNION {{<<"response-field-added", id, route>> :
                         field \in DOMAIN ResponseContract(new[id], Target(new[id], route))
                                   \ DOMAIN ResponseContract(old[id], Target(old[id], route))}
                       : route \in KeptRoutes(old, new, id)} : id \in Kept(old, new)}

Compatible(old, new) == BreakingChanges(old, new) = {}

-----------------------------------------------------------------------------
(***************************************************************************)
(* discover_plugins: every directory that is not hidden is loaded; two     *)
(* directories whose names differ in case only are both refused.           *)
(* A directory is [key, hidden, loads, plugin], key being the folded name. *)
(***************************************************************************)
Discovered(directories) == {d \in directories : ~d.hidden}
Alone(d, directories) == \A other \in Discovered(directories) : other.key = d.key => other = d
Manifests(directories) == {d \in Discovered(directories) : Alone(d, directories) /\ d.loads}
LoadFailures(directories) == Discovered(directories) \ Manifests(directories)

-----------------------------------------------------------------------------
(***************************************************************************)
(* The integrity document of a local mapping. A path is [key, spelling];   *)
(* a directory maps paths to contents, Link when no regular file is there. *)
(* deps and the entry of a DLL or EXE are protected, with the two          *)
(* documents of the mapping. None is a build that failed.                  *)
(***************************************************************************)

ProtectedPaths(fixed, service) ==
    fixed \cup service.deps \cup (IF service.main = "com" THEN {} ELSE {service.entry})

CaseCollision(paths) == \E a, b \in paths : a.key = b.key /\ a # b

Buildable(paths, directory) ==
    /\ ~CaseCollision(paths)
    /\ \A path \in paths : path \in DOMAIN directory /\ directory[path] # Link

BuildIntegrity(paths, directory) ==
    IF Buildable(paths, directory) THEN [path \in paths |-> directory[path]] ELSE None

VerifyIntegrity(document, paths, directory) ==
    /\ document # None
    /\ ~CaseCollision(paths) /\ DOMAIN document = paths
    /\ \A path \in paths :
         path \in DOMAIN directory /\ directory[path] # Link /\ directory[path] = document[path]
=============================================================================
