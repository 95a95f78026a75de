----------------------------- MODULE GoldenMatrix -----------------------------
(***************************************************************************)
(* The golden cases of plugins (ssdev-plugin-tool): a matrix is drafted    *)
(* from what a plugin declares, reviewed, and then bound to the packages   *)
(* of a release and to the plugin root they are tested in.                 *)
(*                                                                         *)
(* A matrix is [draft, targets, cases]: targets are [id, version], a case  *)
(* is [name, service, route, inputs, enabled, review, placeholder], with   *)
(* inputs the names of the parameters it gives, review that its expected   *)
(* response has yet to be looked at, and placeholder that some value of it *)
(* is a drafted one. A plugin here is the content of a directory.          *)
(***************************************************************************)
EXTENDS PluginSupply

MatrixTarget(content) == [id |-> content.id, version |-> content.version]
Contents(packages) == {package.content : package \in packages}

\* Methods as <<service, name>>, over all plugins.
Methods(contents) ==
    UNION {UNION {{<<service, method.name>> : method \in ToSet(content.services[service].methods)}
                  : service \in DOMAIN content.services} : content \in contents}

\* What a case calls: services are unique over the plugins of a matrix.
Declares(contents, case) ==
    \E content \in contents : /\ case.service \in DOMAIN content.services
                              /\ case.route \in Routes(content.services[case.service])
CalledMethod(contents, case) ==
    LET content == CHOOSE c \in contents : case.service \in DOMAIN c.services
    IN  Served(content.services[case.service], case.route)

CaseValid(contents, case) ==
    /\ Declares(contents, case)
    /\ case.inputs = DOMAIN InputContract(CalledMethod(contents, case))

Enabled(matrix) == {case \in ToSet(matrix.cases) : case.enabled}
Covered(contents, matrix) ==
    {<<case.service, CalledMethod(contents, case).name>> : case \in Enabled(matrix)}

CasesValid(contents, matrix) ==
    /\ matrix.cases # <<>>
    /\ IsInjective([i \in DOMAIN matrix.cases |-> matrix.cases[i].name])
    /\ \A case \in ToSet(matrix.cases) : CaseValid(contents, case)

\* Services and plugins are named once.
Distinct(contents) ==
    /\ \A a, b \in contents : a # b =>
         a.id.key # b.id.key /\ DOMAIN a.services \cap DOMAIN b.services = {}

\* validate_matrix_targets: unbound, or bound to exactly these plugins.
TargetsValid(contents, targets) ==
    targets # <<>> =>
      /\ \A content \in contents : content.meta # None
      /\ \A i, j \in DOMAIN targets : i # j => targets[i].id.key # targets[j].id.key
      /\ ToSet(targets) = {MatrixTarget(content) : content \in contents}

-----------------------------------------------------------------------------
\* draft_matrix: one case for each method, in the order they are declared.
DraftMatrix(content) ==
    LET Case(called) ==
          [name |-> called, service |-> called[1], route |-> called[2],
           inputs |-> DOMAIN InputContract(Served(content.services[called[1]], called[2])),
           enabled |-> TRUE, review |-> TRUE, placeholder |-> TRUE]
        methods == SetToSeq(Methods({content}))
    IN  [draft |-> TRUE, targets |-> <<MatrixTarget(content)>>,
         cases |-> [i \in DOMAIN methods |-> Case(methods[i])]]

\* load_matrix_seed: a draft that is kept, bound to the plugin it is for.
SeedMatrix(content, matrix) ==
    IF /\ matrix.draft
       /\ CasesValid({content}, matrix)
       /\ Covered({content}, matrix) = Methods({content})
       /\ content.meta # None /\ TargetsValid({content}, matrix.targets)
    THEN [matrix EXCEPT !.targets = <<MatrixTarget(content)>>] ELSE None

\* What a reviewer makes of a draft.
Reviewed(matrix) ==
    [matrix EXCEPT !.draft = FALSE,
                   !.cases = [i \in DOMAIN matrix.cases |->
                                [matrix.cases[i] EXCEPT !.review = FALSE, !.placeholder = FALSE]]]

\* Mutant: cases that are not enabled count as cover.
ExecutableByAny(contents, matrix) ==
    /\ ~matrix.draft
    /\ Distinct(contents) /\ Methods(contents) # {}
    /\ TargetsValid(contents, matrix.targets)
    /\ CasesValid(contents, matrix)
    /\ \A case \in Enabled(matrix) : ~case.review /\ ~case.placeholder
    /\ {<<case.service, CalledMethod(contents, case).name>> : case \in ToSet(matrix.cases)}
         = Methods(contents)

\* validate_executable_matrix
Executable(contents, matrix) ==
    /\ ~matrix.draft
    /\ Distinct(contents) /\ Methods(contents) # {}
    /\ TargetsValid(contents, matrix.targets)
    /\ CasesValid(contents, matrix)
    /\ \A case \in Enabled(matrix) : ~case.review /\ ~case.placeholder
    /\ Covered(contents, matrix) = Methods(contents)

-----------------------------------------------------------------------------
\* check_release_packages: signed to be issued, for declared desktops, and
\* bound to a matrix that names them.
ReleaseChecked(store, matrix, packages) ==
    /\ packages # {}
    /\ \A package \in packages :
         /\ PreparePackage(store, package) # None /\ VerifyPlugin(store, package, "issue")
         /\ package.content.requirement # None
    /\ Executable(Contents(packages), matrix) /\ matrix.targets # <<>>

\* check_release_root_against_set: the root holds the packages, rebuilt.
RootChecked(store, matrix, packages, root) ==
    /\ ReleaseChecked(store, matrix, packages)
    /\ \A directory \in root : VerifyPlugin(store, directory, "issue")
    /\ Executable(Contents(root), matrix)
    /\ root = packages

\* materialize_release_set: what a fresh root holds, None if it is refused.
Materialize(store, matrix, packages) ==
    IF ReleaseChecked(store, matrix, packages) /\ RootChecked(store, matrix, packages, packages)
    THEN packages ELSE None
=============================================================================
