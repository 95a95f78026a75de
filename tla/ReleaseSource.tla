---------------------------- MODULE ReleaseSource ----------------------------
(***************************************************************************)
(* What ssdev-plugin-tool makes of a plugin's source directory before and  *)
(* after it is signed: the source is checked, staged with the matrix that  *)
(* its golden cases are reviewed in, compared with what was released, and  *)
(* handed to those who write the pages as a kit of a client and fixtures.  *)
(*                                                                         *)
(* A source is [services, files] as in DebugCases; a file is [arch,        *)
(* exports] (arch None for what is no PE file).  An identity is [id,       *)
(* version, requirement, display].  Parsing of PE files, paths outside the *)
(* source and limits are left out.                                         *)
(***************************************************************************)
EXTENDS DebugCases

CONSTANTS
    Excluded,     \* keys of plugin.json, its signature and the old license
    MaxSafe       \* the largest integer a page can hold

-----------------------------------------------------------------------------
(* copy_legacy_plugin and validate_release_manifest.                       *)

CopySource(source) ==
    IF Link \in Range(source.files) \/ CaseCollision(DOMAIN source.files) THEN None
    ELSE Restrict(source.files, {path \in DOMAIN source.files : path.key \notin Excluded})

\* resolve_component: the extension may be left out.
ResolveComponent(files, service) ==
    LET direct == service.entry IN
    IF direct \in DOMAIN files \/ (direct.suffix # <<>> /\ Last(direct.suffix) = service.main)
    THEN direct ELSE [direct EXCEPT !.suffix = Append(@, service.main)]

\* inspect_pe_file, held against what the service declares.
FitsService(file, service) ==
    /\ service.main \in {"dll", "exe"} => file.arch # None /\ file.arch = service.arch
    /\ service.main = "dll" => {method.name : method \in ToSet(service.methods)} \subseteq file.exports

ReleaseManifestValid(services, files) ==
    \A id \in DOMAIN services :
      LET service == services[id] path == ResolveComponent(files, service) IN
      /\ ~service.installRun /\ service.methods # <<>>
      /\ Native(service) => path \in DOMAIN files /\ FitsService(files[path], service)
      /\ \A dependency \in ToSet(service.deps) : dependency = Wildcard \/ dependency \in DOMAIN files

\* check_source: the files that are staged, None if the source is refused.
CheckSource(source) ==
    LET files == CopySource(source) IN
    IF files = None THEN None
    ELSE IF ServicesLoad(source.services) /\ ReleaseManifestValid(source.services, files)
         THEN files ELSE None

-----------------------------------------------------------------------------
\* The names of a matrix that is read.
NamesSafe(matrix) == \A case \in ToSet(matrix.cases) : case.name.safe

\* The staging directory: what is copied, and new metadata.
ContentOf(identity, source) ==
    [id |-> identity.id, meta |-> identity.id, version |-> identity.version,
     requirement |-> identity.requirement, services |-> source.services, files |-> CopySource(source)]

\* prepare
StageRelease(store, key, source, identity, seed) ==
    LET content == ContentOf(identity, source)
        request == SigningRequest(store, content, key)
        matrix == IF seed = None THEN DraftMatrix(content)
                  ELSE IF NamesSafe(seed) THEN SeedMatrix(content, seed) ELSE None
    IN  IF request # None /\ CheckSource(source) # None /\ matrix # None
        THEN [content |-> content, request |-> request, matrix |-> matrix] ELSE None

\* check_api_compatibility
CheckApi(store, baseline, id, source) ==
    IF PreparePackage(store, baseline) = None \/ baseline.content.id # id \/ CheckSource(source) = None
    THEN None
    ELSE [compatible |-> Compatible(baseline.content.services, source.services),
          breaking |-> BreakingChanges(baseline.content.services, source.services)]

-----------------------------------------------------------------------------
(* The kit.                                                                *)

\* A case under the name the client calls.
PublicRoute(services, case) ==
    <<case.service, RequestName(Served(services[case.service], case.route))>>

\* web_fixture_value_is_javascript_safe
JavascriptSafe(value) ==
    \A part \in Parts(value) : part[1] = "number" => part[2] \in -MaxSafe..MaxSafe

\* generate_web_fixtures
WebFixtures(content, matrix) ==
    LET enabled == SelectSeq(matrix.cases, LAMBDA case : case.enabled)
        fixtures == [i \in DOMAIN enabled |->
                       [called |-> PublicRoute(content.services, enabled[i]),
                        values |-> enabled[i].values, response |-> enabled[i].response]]
    IN  IF /\ Executable({content}, matrix) /\ NamesSafe(matrix) /\ matrix.targets # <<>>
           /\ \A fixture \in ToSet(fixtures) :
                \A data \in Range(fixture.values) \cup {fixture.response.data} : JavascriptSafe(data)
           /\ IsInjective([i \in DOMAIN fixtures |-> <<fixtures[i].called, fixtures[i].values>>])
        THEN fixtures ELSE None

\* What the generated client calls.
ClientCalls(services) ==
    LET listed == SetToSeq({<<id, services[id]>> : id \in DOMAIN services})
    IN  {ClientRoute(listed, i) : i \in DOMAIN Planned(listed)}

MethodCount(services) ==
    FoldSet(LAMBDA id, sum : sum + Len(services[id].methods), 0, DOMAIN services)
OrdinaryCount(services) ==
    FoldSet(LAMBDA id, sum : sum + Len(SelectSeq(services[id].methods, LAMBDA m : ~m.tracked)),
            0, DOMAIN services)

\* generate_web_kit, from what is there at first, when the manifest is loaded,
\* when the fixtures are made, and last: [content, display, matrix] each.
GenerateKit(at) ==
    LET services == at[2].content.services
        fixtures == WebFixtures(at[3].content, at[3].matrix)
        client == [id |-> at[2].content.id, version |-> at[2].content.version,
                   api |-> at[1].content.services, calls |-> ClientCalls(services)]
        fixed == [matrix |-> at[3].matrix, fixtures |-> fixtures]
        counts == [services |-> Cardinality(DOMAIN services), methods |-> MethodCount(services),
                   ordinary |-> OrdinaryCount(services), fixtures |-> Len(fixtures)]
    IN  IF /\ fixtures # None /\ at[3].matrix = at[1].matrix
           /\ at[4] = at[1]
        THEN [manifest |-> [id |-> at[2].content.id, version |-> at[2].content.version,
                            display |-> at[2].display, api |-> at[1].content.services,
                            metadata |-> <<at[1].content.version, at[1].display>>,
                            matrix |-> at[1].matrix, counts |-> counts,
                            client |-> client, fixtures |-> fixed],
              client |-> client, fixtures |-> fixed]
        ELSE None

\* check_web_kit
KitChecked(kit) ==
    LET manifest == kit.manifest counts == manifest.counts IN
    /\ manifest.display.safe
    /\ 0 < counts.services /\ counts.services <= counts.methods
    /\ counts.ordinary <= counts.methods /\ counts.methods <= counts.fixtures
    /\ kit.client = manifest.client /\ kit.fixtures = manifest.fixtures
    /\ kit.client.id = manifest.id /\ kit.client.version = manifest.version
    /\ kit.client.api = manifest.api /\ kit.fixtures.matrix = manifest.matrix
=============================================================================
