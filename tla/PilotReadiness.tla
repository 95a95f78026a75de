---------------------------- MODULE PilotReadiness ----------------------------
(***************************************************************************)
(* The intake of a pilot's materials (ssdev-pilot-readiness): a manifest   *)
(* declares inputs by category, a report says what was collected and what  *)
(* is missing, and the tools that come after verify the report against the *)
(* materials and read their inputs through it.                             *)
(*                                                                         *)
(* A manifest is [categories, bindings].  A category is [id, status,       *)
(* inputs, approval]; inputs are paths, [name, form], where form is        *)
(* "plain", "doubled" (another spelling of the same path) or "invalid".    *)
(* Bindings say which inputs play which role in the migration audit.       *)
(* Materials map the names that exist to [kind, content, parts]: a file,   *)
(* a directory with the names of its parts, a link or another thing.  A    *)
(* digest is what it is taken of; byte and depth limits are left out.      *)
(***************************************************************************)
EXTENDS PluginContract

CONSTANTS
    MaxInputs,    \* MAX_INPUTS_PER_CATEGORY
    MaxFiles      \* MAX_FILES_PER_CATEGORY

ASSUME PilotAssumption == MaxInputs \in Nat /\ MaxFiles \in Nat

Required == {"legacy-config", "production-native-assets", "golden-cases", "business-assets",
             "business-hars", "signed-origin-policy", "plugin-release-set",
             "organization-public-trust", "previous-windows-release", "windows-hardware-plan"}
Conditional == {"legacy-keymap", "legacy-processes", "external-local-http-callers"}
CategoryIds == Required \cup Conditional

MinimumInputs(id) ==
    CASE id = "signed-origin-policy" -> 3
      [] id = "plugin-release-set" -> 2
      [] OTHER -> 1

If(code, condition) == IF condition THEN {code} ELSE {}

\* normalize_relative_path: the name, or None.
Normal(path) == IF path.form = "invalid" THEN None ELSE path.name
Normals(inputs) == {Normal(inputs[i]) : i \in DOMAIN inputs} \ {None}

\* normalize_binding_paths: a set of names, or None.
BindingPaths(inputs) ==
    IF /\ Len(inputs) <= MaxInputs
       /\ \A i \in DOMAIN inputs : Normal(inputs[i]) # None
       /\ IsInjective([i \in DOMAIN inputs |-> Normal(inputs[i])])
    THEN {Normals(inputs)} ELSE {}

-----------------------------------------------------------------------------
(* Scanning one input: its files, or the code of the failure.              *)

RECURSIVE Scan(_, _, _)
Scan(materials, name, public) ==
    IF name \notin DOMAIN materials THEN [files |-> {}, failures |-> {"input-unavailable"}]
    ELSE LET node == materials[name] IN
      CASE node.kind = "link" -> [files |-> {}, failures |-> {"input-symlink"}]
        [] node.kind = "file" ->
             IF public /\ node.content = "private"
             THEN [files |-> {}, failures |-> {"private-material-forbidden"}]
             ELSE [files |-> {<<name, node.content>>}, failures |-> {}]
        [] node.kind = "directory" ->
             LET parts == {Scan(materials, part, public) : part \in node.parts}
                 failures == UNION {part.failures : part \in parts}
             IN  \* The scan ends at its first failure, whichever it is.
                 [files |-> UNION {part.files : part \in parts},
                  failures |-> IF failures = {} THEN {} ELSE {CHOOSE f \in failures : TRUE}]
        [] OTHER -> [files |-> {}, failures |-> {"input-type-unsupported"}]

\* previous_windows_bundle_layout_is_valid; a bundle's metadata and its one
\* installer are its content here.
LayoutValid(materials, names) ==
    /\ Cardinality(names) = 1
    /\ \A name \in names :
         /\ name \in DOMAIN materials /\ materials[name].kind = "directory"
         /\ materials[name].content = "bundle"

-----------------------------------------------------------------------------
(* The report of a category: [id, status, count, files, content, approval, *)
(* blockers], where a blocker is <<id, code>>.                             *)

CategoryReport(id, status, count, files, content, approval, codes) ==
    [id |-> id, status |-> status, count |-> count, files |-> files, content |-> content,
     approval |-> approval, blockers |-> {id} \X codes]

MissingReport(id) == CategoryReport(id, "missing", 0, 0, None, None, {"missing"})

Reported(count) == IF count > MaxInputs + 1 THEN MaxInputs + 1 ELSE count

InspectNotApplicable(category) ==
    LET id == category.id codes ==
          If("not-applicable-has-inputs", category.inputs # <<>>)
          \cup If("required", id \in Required)
          \cup If("approval-missing", id \in Conditional /\ category.approval = None)
    IN  CategoryReport(id, "notApplicable", Reported(Len(category.inputs)), 0, None,
                       category.approval, codes)

InspectProvided(materials, category) ==
    LET id == category.id
        inputs == category.inputs
        names == Normals(inputs)
        declared ==
          If("provided-has-approval", category.approval # None)
          \cup If("inputs-empty", inputs = <<>>)
          \cup If("input-count-below-minimum", inputs # <<>> /\ Len(inputs) < MinimumInputs(id))
          \cup If("input-limit-exceeded", Len(inputs) > MaxInputs)
          \cup If("input-path-invalid", \E i \in DOMAIN inputs : Normal(inputs[i]) = None)
          \cup If("input-duplicate", \E i, j \in DOMAIN inputs :
                     i # j /\ Normal(inputs[i]) = Normal(inputs[j]) /\ Normal(inputs[i]) # None)
        shaped == declared
          \cup If("layout-invalid", declared = {} /\ id = "previous-windows-release"
                                    /\ ~LayoutValid(materials, names))
        scans == IF shaped # {} THEN {}
                 ELSE {<<name, Scan(materials, name, id = "organization-public-trust")>> :
                         name \in names}
        files == UNION {scan[2].files : scan \in scans}
        scanned == shaped \cup UNION {scan[2].failures : scan \in scans}
                   \cup If("input-limit-exceeded", Cardinality(files) > MaxFiles)
        blockers == scanned \cup If("content-empty", scanned = {} /\ files = {})
    IN  CategoryReport(id, "provided", Reported(Len(inputs)),
                       IF Cardinality(files) > MaxFiles THEN MaxFiles ELSE Cardinality(files),
                       IF blockers = {} THEN scans ELSE None, None, blockers)

Supplied(manifest, id) == {c \in ToSet(manifest.categories) : c.id = id}
\* A later entry of a category takes the place of an earlier one.
Effective(manifest, id) ==
    LET places == {i \in DOMAIN manifest.categories : manifest.categories[i].id = id}
    IN  manifest.categories[CHOOSE i \in places : \A j \in places : j <= i]

InspectCategory(materials, manifest, id) ==
    IF Supplied(manifest, id) = {} THEN MissingReport(id)
    ELSE LET category == Effective(manifest, id) IN
         IF category.status = "provided" THEN InspectProvided(materials, category)
         ELSE InspectNotApplicable(category)

-----------------------------------------------------------------------------
(* Bindings.                                                               *)

Roles == [configs |-> "legacy-config", pluginRoots |-> "production-native-assets",
          keymaps |-> "legacy-keymap", assets |-> "business-assets", hars |-> "business-hars"]
PolicyRoles == {"policy", "envelope", "trust"}

BindingsValid(bindings) ==
    /\ \A role \in DOMAIN Roles : BindingPaths(bindings[role]) # {}
    /\ \A role \in PolicyRoles : Normal(bindings[role]) # None
    /\ \A role \in DOMAIN Roles \ {"keymaps"} : bindings[role] # <<>>

\* Mutant: a role that may be empty is not compared.
BindingsMatchRequired(manifest, bindings) ==
    /\ \A role \in DOMAIN Roles \ {"keymaps"} : Supplied(manifest, Roles[role]) # {}
         /\ BindingPaths(Effective(manifest, Roles[role]).inputs) = BindingPaths(bindings[role])
    /\ Supplied(manifest, "signed-origin-policy") # {}
    /\ BindingPaths(Effective(manifest, "signed-origin-policy").inputs)
         = {{Normal(bindings[role]) : role \in PolicyRoles}}

\* migration_audit_bindings_match_categories, of bindings that are valid.
BindingsMatch(manifest, bindings) ==
    /\ \A role \in DOMAIN Roles : Supplied(manifest, Roles[role]) # {}
         /\ BindingPaths(Effective(manifest, Roles[role]).inputs) = BindingPaths(bindings[role])
    /\ Supplied(manifest, "signed-origin-policy") # {}
    /\ BindingPaths(Effective(manifest, "signed-origin-policy").inputs)
         = {{Normal(bindings[role]) : role \in PolicyRoles}}

-----------------------------------------------------------------------------
(* The report, and what later tools do with it.                            *)

InspectMaterials(materials, manifest) ==
    LET categories == {InspectCategory(materials, manifest, id) : id \in CategoryIds}
        declared == manifest.categories
        blockers ==
          UNION {category.blockers : category \in categories}
          \cup If(<<None, "unknown-material-category">>,
                  \E i \in DOMAIN declared : declared[i].id \notin CategoryIds)
          \cup If(<<None, "duplicate-material-category">>,
                  \E i, j \in DOMAIN declared :
                     i # j /\ declared[i].id = declared[j].id /\ declared[i].id \in CategoryIds)
          \cup If(<<None, "migration-audit-binding-mismatch">>,
                  ~(BindingsValid(manifest.bindings) /\ BindingsMatch(manifest, manifest.bindings)))
    IN  [manifest |-> manifest, categories |-> categories, blockers |-> blockers,
         complete |-> blockers = {}]

\* is_allowed_category_blocker
AllowedBlocker(id, code) ==
    CASE code = "required" -> id \in Required
      [] code = "approval-missing" -> id \in Conditional
      [] code = "input-count-below-minimum" -> MinimumInputs(id) > 1
      [] code = "private-material-forbidden" -> id = "organization-public-trust"
      [] code = "layout-invalid" -> id = "previous-windows-release"
      [] OTHER -> code \in {"missing", "not-applicable-has-inputs", "provided-has-approval",
                            "inputs-empty", "input-limit-exceeded", "input-duplicate",
                            "input-path-invalid", "input-name-invalid", "input-changed",
                            "input-symlink", "input-unavailable", "input-type-unsupported",
                            "content-empty", "identity-failed"}

\* is_allowed_status_blocker
AllowedFor(status, code) ==
    CASE status = "missing" -> code = "missing"
      [] status = "notApplicable" ->
           code \in {"not-applicable-has-inputs", "required", "approval-missing"}
      [] status = "provided" ->
           code \notin {"missing", "not-applicable-has-inputs", "required", "approval-missing"}

ValidCategory(category) ==
    LET Has(code) == <<category.id, code>> \in category.blockers IN
    /\ category.count <= MaxInputs + 1 /\ category.files <= MaxFiles
    /\ \A blocker \in category.blockers :
         /\ blocker[1] = category.id
         /\ AllowedBlocker(category.id, blocker[2]) /\ AllowedFor(category.status, blocker[2])
    /\ category.status = "missing" =>
         /\ category = MissingReport(category.id)
    /\ category.status = "notApplicable" =>
         /\ category.id \in Required => Has("required")
         /\ category.id \in Conditional /\ category.approval = None => Has("approval-missing")
         /\ category.count > 0 => Has("not-applicable-has-inputs")
         /\ category.files = 0 /\ category.content = None
    /\ category.status = "provided" =>
         /\ category.approval = None
         /\ category.count = 0 => Has("inputs-empty")
         /\ category.count \in 1..(MinimumInputs(category.id) - 1) => Has("input-count-below-minimum")
         /\ category.count > MaxInputs => Has("input-limit-exceeded")
         /\ (category.blockers = {}) = (category.content # None)
         /\ category.blockers = {} => category.files > 0

ValidReport(report) ==
    LET ofCategories == UNION {category.blockers : category \in report.categories} IN
    /\ report.complete = (report.blockers = {})
    /\ {category.id : category \in report.categories} = CategoryIds
    /\ \A category \in report.categories : ValidCategory(category)
    /\ ofCategories \subseteq report.blockers
    /\ report.blockers \ ofCategories \subseteq
         {None} \X {"unknown-material-category", "duplicate-material-category",
                    "migration-audit-binding-mismatch"}

VerifyMaterials(materials, manifest, report) ==
    ValidReport(report) /\ InspectMaterials(materials, manifest) = report

\* resolve_without_symlink, resolve_binding_paths: all of the names, or none.
Resolve(materials, names) ==
    IF \A name \in names : name \in DOMAIN materials /\ materials[name].kind # "link"
    THEN names ELSE {}

\* resolve_migration_audit_inputs: what the audit reads, by role.
AuditInputs(materials, manifest) ==
    LET bindings == manifest.bindings
        Bound(role) == IF role \in PolicyRoles THEN {Normal(bindings[role])}
                       ELSE Normals(bindings[role])
        roles == DOMAIN Roles \cup PolicyRoles
    IN  IF /\ BindingsValid(bindings)
           /\ IsInjective([i \in DOMAIN manifest.categories |-> manifest.categories[i].id])
           /\ BindingsMatch(manifest, bindings)
           /\ \A role \in roles : Resolve(materials, Bound(role)) = Bound(role)
        THEN [role \in roles |-> Bound(role)] ELSE None

\* resolve_material_category_inputs: what the preparation of a policy reads.
CategoryInputs(materials, manifest, id) ==
    LET supplied == Supplied(manifest, id) IN
    IF /\ Cardinality({i \in DOMAIN manifest.categories : manifest.categories[i].id = id}) = 1
       /\ \A category \in supplied :
            /\ category.status = "provided" /\ category.approval = None
            /\ BindingPaths(category.inputs) \notin {{}, {{}}}
    THEN UNION {Resolve(materials, Normals(category.inputs)) : category \in supplied}
    ELSE {}
=============================================================================
