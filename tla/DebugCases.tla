------------------------------ MODULE DebugCases ------------------------------
(***************************************************************************)
(* A local mapping on the desktop where it is worked on (local_mappings.rs *)
(* and its commands in lib.rs): it is prepared from native files, debug    *)
(* cases are saved with it and run against the device, and a source and a  *)
(* seed of golden cases are exported for ssdev-plugin-tool.                *)
(*                                                                         *)
(* A service is one of PluginContract with [entry, deps, arch, installRun] *)
(* more: what it calls and needs are paths [key, spelling, suffix], key    *)
(* being the path in lower case without the suffixes.  A mapping is [id,   *)
(* services, cases, files], files a function from paths; a case is [name,  *)
(* service, route, given, code, asserts, expected], given being the values *)
(* of its inputs.  A name is [of, safe]: safe without blanks at its ends   *)
(* and control characters.  A value is <<kind, of>>: an object is of a     *)
(* function, an array of a sequence.  Limits of counts and bytes are left  *)
(* out, but for the depth of an expected value.                            *)
(***************************************************************************)
EXTENDS GoldenMatrix, PluginClient

CONSTANTS
    Wildcard,       \* the dependency "*"
    Placeholder,    \* the text that stands for a value yet to be given
    MaxDepth        \* MAX_EXPECTED_RES_DATA_DEPTH

ASSUME CasesAssumption == MaxDepth \in Nat

-----------------------------------------------------------------------------
(* Values.                                                                 *)

Null == <<"null", None>>
Draft == <<"text", Placeholder>>

Children(value) ==
    CASE value[1] = "object" -> Range(value[2])
      [] value[1] = "array" -> ToSet(value[2])
      [] OTHER -> {}

RECURSIVE Parts(_)
Parts(value) == {value} \cup UNION {Parts(child) : child \in Children(value)}

RECURSIVE DepthOf(_)
DepthOf(value) == Max({0} \cup {1 + DepthOf(child) : child \in Children(value)})

\* res_data_mismatch_path has nothing to say: objects may hold more.
RECURSIVE Conforms(_, _)
Conforms(expected, actual) ==
    /\ expected[1] = actual[1]
    /\ CASE expected[1] = "object" ->
              \A field \in DOMAIN expected[2] :
                field \in DOMAIN actual[2] /\ Conforms(expected[2][field], actual[2][field])
         [] expected[1] = "array" ->
              /\ Len(expected[2]) = Len(actual[2])
              /\ \A i \in DOMAIN expected[2] : Conforms(expected[2][i], actual[2][i])
         [] OTHER -> expected = actual

-----------------------------------------------------------------------------
(* Mappings.                                                               *)

Native(service) == service.main \in {"dll", "exe", "bat"}
Components(service) == (IF Native(service) THEN {service.entry} ELSE {}) \cup ToSet(service.deps)
AllComponents(services) == UNION {Components(services[id]) : id \in DOMAIN services}

\* PluginManifest::load
ServicesLoad(services) ==
    DOMAIN services # {} /\ \A id \in DOMAIN services : ValidService(services[id])

\* validate_expected_res_data
ExpectedValid(case) ==
    IF case.asserts THEN DepthOf(case.expected) <= MaxDepth ELSE case.expected = Null

CaseAccepted(services, case) ==
    /\ case.service \in DOMAIN services /\ case.route \in Routes(services[case.service])
    /\ DOMAIN case.given \subseteq DOMAIN InputContract(Served(services[case.service], case.route))
    /\ ExpectedValid(case)

\* validate_debug_cases
CasesAccepted(mapping) ==
    /\ IsInjective([i \in DOMAIN mapping.cases |-> mapping.cases[i].name])
    /\ \A case \in ToSet(mapping.cases) : CaseAccepted(mapping.services, case)

Regular(files, path) == path \in DOMAIN files /\ files[path] # Link

\* load_validated_stored_definition
StoredDefinition(mapping) ==
    /\ CasesAccepted(mapping) /\ ServicesLoad(mapping.services)
    /\ \A path \in AllComponents(mapping.services) : path # Wildcard /\ Regular(mapping.files, path)

\* copy_component: where a file is copied to, by the place it is used in.
CopyOf(path, id, place) == [path EXCEPT !.key = <<id, place, path.key>>]
Source(copy) == [copy EXCEPT !.key = copy.key[3]]

CopiedService(service, id) ==
    [service EXCEPT
       !.entry = IF Native(service) THEN CopyOf(service.entry, id, 0) ELSE service.entry,
       !.deps = [i \in DOMAIN service.deps |-> CopyOf(service.deps[i], id, i)]]

\* prepare: from a definition whose paths are those of the files on disk.
PrepareMapping(definition, disk) ==
    LET services == [id \in DOMAIN definition.services |-> CopiedService(definition.services[id], id)]
    IN  IF /\ CasesAccepted(definition)
           /\ \A path \in AllComponents(definition.services) : path # Wildcard /\ Regular(disk, path)
           /\ ServicesLoad(services)
        THEN [definition EXCEPT !.services = services,
                                !.files = [copy \in AllComponents(services) |-> disk[Source(copy)]]]
        ELSE None

-----------------------------------------------------------------------------
(* Cases are edited and run when the mapping is the one that was approved. *)
(* None is a command that was refused.                                     *)

\* upsert_debug_case
UpsertCase(mapping, approved, case) ==
    LET i == SelectInSeq(mapping.cases, LAMBDA c : c.name = case.name)
        edited == [mapping EXCEPT !.cases = IF i = 0 THEN Append(@, case) ELSE [@ EXCEPT ![i] = case]]
    IN  IF StoredDefinition(mapping) /\ mapping = approved /\ CasesAccepted(edited)
        THEN edited ELSE None

\* delete_debug_case
DeleteCase(mapping, approved, name) ==
    LET edited == [mapping EXCEPT !.cases = SelectSeq(@, LAMBDA c : c.name # name)]
    IN  IF StoredDefinition(mapping) /\ mapping = approved /\ edited.cases # mapping.cases
        THEN edited ELSE None

\* What the controller says of a case: [state, code, data].
Passed(case, outcome) ==
    /\ outcome.state = "completed" /\ outcome.code = case.code
    /\ case.asserts => Conforms(case.expected, outcome.data)

\* debug_case_batch_stop_reason
Stops(outcome, passed) == outcome.state # "completed" \/ ~passed

\* run_local_mapping_debug_cases; outcomes are what the device would answer.
RunCases(mapping, approved, outcomes) ==
    LET results == [i \in DOMAIN mapping.cases |-> Passed(mapping.cases[i], outcomes[i])]
        stops == {i \in DOMAIN results : Stops(outcomes[i], results[i])}
        executed == IF stops = {} THEN Len(results) ELSE Min(stops)
    IN  IF StoredDefinition(mapping) /\ mapping = approved
        THEN [cases |-> SubSeq(mapping.cases, 1, executed), passed |-> SubSeq(results, 1, executed),
              skipped |-> Len(results) - executed, stopped |-> stops # {}]
        ELSE None

-----------------------------------------------------------------------------
(* The release source and the matrix seed.                                 *)

\* export_release_source: the declared files and nothing else.
ExportSource(mapping) ==
    IF StoredDefinition(mapping)
    THEN [services |-> mapping.services,
          files |-> Restrict(mapping.files, AllComponents(mapping.services))]
    ELSE None

MatrixCase(name, service, route, values, response) ==
    [name |-> name, service |-> service, route |-> route, values |-> values, response |-> response,
     inputs |-> DOMAIN values, enabled |-> TRUE, review |-> TRUE,
     placeholder |-> \E data \in Range(values) \cup {response.data} : Draft \in Parts(data)]

\* A debug case, with a placeholder for what it does not say.
SeededCase(services, case) ==
    LET inputs == DOMAIN InputContract(Served(services[case.service], case.route)) IN
    MatrixCase(case.name, case.service, case.route,
               [input \in inputs |-> IF input \in DOMAIN case.given THEN case.given[input] ELSE Draft],
               [code |-> case.code, data |-> IF case.asserts THEN case.expected ELSE Draft])

\* unique_matrix_case_name
UniqueName(called, names) ==
    LET Name(n) == [of |-> called \o <<n>>, safe |-> TRUE]
    IN  Name(CHOOSE n \in 1..(Cardinality(names) + 1) :
               Name(n) \notin names /\ \A k \in 1..(n - 1) : Name(k) \in names)

DraftedCase(services, called, name) ==
    LET method == Served(services[called[1]], called[2]) IN
    MatrixCase(name, called[1], RequestName(method),
               [input \in DOMAIN InputContract(method) |-> Draft], [code |-> 0, data |-> Draft])

\* release_matrix_seed: the debug cases, and a draft for every other method.
MatrixSeed(mapping) ==
    LET services == mapping.services
        seeded == [i \in DOMAIN mapping.cases |-> SeededCase(services, mapping.cases[i])]
        covered == {<<c.service, Served(services[c.service], c.route).name>> : c \in ToSet(mapping.cases)}
        drafted(cases, called) ==
          Append(cases, DraftedCase(services, called, UniqueName(called, {c.name : c \in ToSet(cases)})))
        cases == FoldLeft(drafted, seeded, SetToSeq(Methods({mapping}) \ covered))
    IN  IF cases = <<>> THEN None ELSE [draft |-> TRUE, targets |-> <<>>, cases |-> cases]
=============================================================================
