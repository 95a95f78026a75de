----------------------------- MODULE MCReleases -----------------------------
\* Instances for TLC: of the decisions about declared services, of those about
\* deliveries, and of the release procedures.
EXTENDS Releases, Cutover

CONSTANTS n1, n2, n3

Param(name, out, type) == [name |-> name, out |-> out, typed |-> TRUE, type |-> type, len |-> 1,
                           charset |-> None]
Bare(name, out) == [name |-> name, out |-> out, typed |-> FALSE, type |-> "", len |-> 0, charset |-> None]
Method(name, params, returns, props) ==
  [name |-> name, alias |-> None, tracked |-> FALSE, returns |-> returns, params |-> params,
   props |-> props, wait |-> TRUE, timeout |-> 1]
Service(main, methods) ==
  [main |-> main, binding |-> 1, charset |-> "utf8", timeout |-> 1, methods |-> methods]

Types == {"", "buffer", "bool", "boolean", "int", "uint", "dword", "double"}
OneParam == {Param(n1, out, type) : out \in BOOLEAN, type \in Types} \cup {Bare(n1, FALSE), Bare(n1, TRUE)}
NoOutput == [Param(n1, TRUE, "buffer") EXCEPT !.len = 0]
Coded == {[Param(n1, out, "") EXCEPT !.charset = charset] : out \in BOOLEAN, charset \in {"utf8", "gbk"}}
Lists == {<<>>} \cup {<<p>> : p \in OneParam \cup {NoOutput} \cup Coded}
         \cup {<<p, q>> : p \in {Param(n1, FALSE, "int"), Param(n1, TRUE, "")},
                          q \in {Param(n2, FALSE, "uint"), Bare(n2, TRUE), Param(n1, FALSE, "int")}}
         \cup {<<Param(n2, FALSE, "uint"), Param(n1, FALSE, "int")>>, <<Bare(n1, FALSE), Bare(n2, FALSE), Bare(n3, FALSE)>>}
Returns == {"", "string", "char*", "int", "uint", "double"}
Mains == {"dll", "com", "bat"}

OneMethod == {Service(main, <<Method(n1, list, returns, <<>>)>>) :
                main \in Mains, list \in Lists, returns \in Returns}
             \cup {Service("com", <<Method(n1, list, "", props)>>) :
                     list \in Lists, props \in {<<n1>>, <<n2, n3>>, <<n3, n2>>}}

Aliased(method, alias) == [method EXCEPT !.alias = alias]
First == Method(n1, <<Param(n1, FALSE, "int")>>, "int", <<>>)
Texted == Method(n1, <<Param(n1, FALSE, "")>>, "int", <<>>)
Second == [Method(n2, <<Param(n1, FALSE, "uint")>>, "int", <<>>) EXCEPT !.wait = FALSE]
TwoMethods == {Service(main, <<Aliased(First, a), Aliased(Second, b)>>) :
                 main \in Mains, a \in {None, n1, n2, n3}, b \in {None, n1, n3}}
              \cup {Service("dll", <<[First EXCEPT !.tracked = TRUE]>>),
                    Service("dll", <<[First EXCEPT !.name = n2, !.alias = n1, !.timeout = 2]>>),
                    [Service("dll", <<First>>) EXCEPT !.binding = 2],
                    Service("dll", <<Texted>>), [Service("dll", <<Texted>>) EXCEPT !.charset = "gbk"],
                    [Service("com", <<Second>>) EXCEPT !.timeout = 2],
                    Service("bat", <<[First EXCEPT !.wait = FALSE]>>)}

MCCalls == OneMethod \cup TwoMethods
Simple == {s \in OneMethod : s.methods[1].returns \in {"", "int", "uint"}}
Fresh1 == Service("dll", <<First>>)
MCVersions ==
  {pair \in (Simple \cup TwoMethods \cup {Fresh1}) \X (Simple \cup TwoMethods) :
     \/ pair[1] \in Simple /\ pair[2] \in Simple /\ pair[1].main = pair[2].main
        /\ \/ pair[1].methods[1].params = pair[2].methods[1].params
           \/ /\ pair[1].methods[1].returns = "" /\ pair[2].methods[1].returns = ""
              /\ pair[1].methods[1].props = pair[2].methods[1].props
     \/ pair[1] \notin Simple \ {Fresh1} /\ pair[2] \in TwoMethods}

\* Names that give the same identifiers as others do
Words == {"read", "Read", "read2", "getReadStatus", "constructor", "a", "aRead"}
MCCamel == [w \in Words |-> IF w = "Read" THEN "read" ELSE w]
Capital == [read |-> "Read", Read |-> "Read", read2 |-> "Read2", getReadStatus |-> "GetReadStatus",
            constructor |-> "Constructor", a |-> "A", aRead |-> "ARead",
            invokeConstructor |-> "InvokeConstructor", aGetReadStatus |-> "AGetReadStatus",
            aConstructor |-> "AConstructor", aRead2 |-> "ARead2", aARead |-> "AARead",
            readRead |-> "ReadRead", readRead2 |-> "ReadRead2", readGetReadStatus |-> "ReadGetReadStatus",
            readConstructor |-> "ReadConstructor", readARead |-> "ReadARead"]
Endings == {"", "2", "3"}
Spelled == {base \o suffix : base \in DOMAIN Capital, suffix \in Endings}
MCPascal == [word \in Spelled |->
               LET parts == CHOOSE parts \in (DOMAIN Capital) \X Endings : parts[1] \o parts[2] = word
               IN  Capital[parts[1]] \o parts[2]]
Named(word, alias) == Aliased(Method(word, <<>>, "", <<>>), alias)
WordSet == Words \ {"a"}
MCClients ==
  {<<<<"a", Service("dll", <<Named(w, None), Named(x, alias)>>)>>, <<"read", Service("dll", <<Named(y, None)>>)>>>> :
     w \in WordSet, x \in WordSet, y \in WordSet, alias \in {None, "Read", "read2"}}

Path(key, spelling) == [key |-> key, spelling |-> spelling]
MCApi == Path("api.json", 1)
MCMetadata == Path("plugin.json", 1)
Entry == Path("entry", 1)
Library == Path("library", 1)
Declaring(main, deps) == [main |-> main, entry |-> Entry, deps |-> deps]
Apis == {Declaring(main, deps) : main \in {"dll", "com"},
                                deps \in {{}, {Library}, {Path("entry", 2)}}}
Directories == UNION {[{MCApi, MCMetadata, Entry} \cup others -> {1, 2, Link}] :
                        others \in {{}, {Library}, {Path("entry", 2)}}}
Declared2(directory, api) == [directory EXCEPT ![MCApi] = api]
Original == {d \in Directories : d[MCApi] = 1 /\ d[MCMetadata] = 1}
\* At most one file that both have is another one later.
Near(d, e) == Cardinality({path \in DOMAIN d \cap DOMAIN e : d[path] # e[path]}) <= 1
MCMappings ==
  {<<Declared2(pair[1], api), Declared2(pair[2], api)>> :
     pair \in {p \in Original \X {e \in Directories : e[MCApi] = 1} : Near(p[1], p[2])}, api \in Apis}
  \cup {<<Declared2(d, api), Declared2(d, other)>> : d \in Original, api \in Apis, other \in Apis}

-----------------------------------------------------------------------------
(* Deliveries.                                                             *)

\* Three versions of an API: a second adds a route that a third lacks.
Base == [m |-> Service("dll", <<First>>)]
More == [m |-> Service("dll", <<First, Second>>)]
Other == [m |-> Service("dll", <<Second>>)]

Id(key, spelling) == [key |-> key, spelling |-> spelling]
One == Id(1, "p")
Content(id, version, services) ==
  [id |-> id, meta |-> id, version |-> version, requirement |-> {1}, services |-> services]
SignedBy(content, key) ==
  [content |-> content,
   signature |-> [id |-> content.id, key |-> key, files |-> content, genuine |-> TRUE]]
Package(version, services) == SignedBy(Content(One, version, services), "k1")

Key(purposes, status) == [purposes |-> purposes, status |-> status]
Uses == {"plugin", "plugin-catalog"}
Store == [k1 |-> Key(Uses, "active"), k2 |-> Key(Uses, "retired"), k3 |-> Key(Uses, "revoked")]
Later == [k1 |-> Key({"plugin-catalog"}, "active"), k2 |-> Key(Uses, "active")]

MCStagings ==
  LET contents == {Content(One, 1, Base), Content(One, 1, More),
                   [Content(One, 1, Base) EXCEPT !.meta = None],
                   [Content(One, 1, Base) EXCEPT !.meta = Id(1, "P")],
                   [Content(One, 1, Base) EXCEPT !.requirement = None]}
  IN  [store : {Store}, later : {Store, Later}, requested : contents, staged : contents,
       key : DOMAIN Store, genuine : BOOLEAN]

File(package) == [package |-> package, after |-> package]
Packages == {Package(v, s) : v \in 1..3, s \in {Base, More, Other}}
            \cup {SignedBy(Content(One, 2, Base), "k2"), SignedBy(Content(One, 2, Base), "k3"),
                  SignedBy(Content(Id(1, "P"), 2, Base), "k1"),
                  SignedBy(Content(Id(2, "q"), 1, Other), "k1"),
                  SignedBy([Content(One, 2, Base) EXCEPT !.requirement = None], "k1"),
                  SignedBy([Content(One, 2, Base) EXCEPT !.requirement = {2}], "k1")}
Lists3 == UNION {{<<File(Package(1, Base))>> \o rest : rest \in [1..n -> {File(p) : p \in Packages}]}
                 : n \in 0..2}
          \cup {<<[package |-> Package(1, Base), after |-> Package(1, More)]>>}
MCPublications ==
  [store : {Store}, files : Lists3, withdrawals : {<<>>, <<[id |-> One, version |-> 2]>>},
   issued : {0}, expires : {2}, now : {1}]
  \cup [store : {Store}, files : {<<File(Package(1, Base))>>},
        withdrawals : {<<>>, <<[id |-> Id(1, "P"), version |-> 4]>>,
                       <<[id |-> One, version |-> 4], [id |-> One, version |-> 4]>>},
        issued : 0..3, expires : 0..4, now : {1}]

Entries == {<<EntryOf(Package(1, Base)), EntryOf(Package(2, More)), EntryOf(Package(3, More))>>,
            <<EntryOf(Package(2, Base)), EntryOf(SignedBy(Content(One, 3, Base), "k2"))>>,
            <<EntryOf(SignedBy(Content(One, 2, Base), "k3")),
              EntryOf([Package(3, Base) EXCEPT !.content.requirement = {2}])>>,
            <<EntryOf(SignedBy(Content(Id(1, "P"), 2, Base), "k1"))>>}
Catalogs == [issued : {0}, expires : {2}, entries : Entries, withdrawals : {<<>>, <<[id |-> One, version |-> 1]>>}]
Directories2 == {None, Package(1, Base), Package(2, More), SignedBy(Content(One, 1, Base), "k3")}
Desktops == [store : {Store}, version : {1, 2}, mappings : {{}, {One}}, directory : Directories2]
Signature(catalog, key, genuine) == [key |-> key, catalog |-> catalog, genuine |-> genuine]
\* A desktop as it is seen, now and later: it changes once, and back or not.
Changing(desktops) ==
  UNION {{<<d, d, e>>, <<d, e, d>>, <<d, e, e>>} : d \in desktops, e \in desktops}
MCOffers ==
  {[seen |-> d[1], now |-> d[2], later |-> d[3], offered |-> c[1], catalog |-> c[2],
    signature |-> Signature(c[2], "k1", TRUE), time |-> 1, id |-> One, served |-> s] :
     d \in Changing({x \in Desktops : x.version = 1}),
     c \in {p \in Catalogs \X Catalogs :
              /\ p[1].withdrawals = <<>>
              /\ \/ p[1].entries = p[2].entries
                 \/ p[2].withdrawals = <<>> /\ 3 \in {Len(p[1].entries), Len(p[2].entries)}},
     s \in {Package(2, More), SignedBy(Content(One, 2, Base), "k3"),
            SignedBy(Content(One, 2, Base), "k2"), Package(1, Base)}}
MCRefusals ==
  {[seen |-> d, now |-> [d EXCEPT !.version = v], later |-> [d EXCEPT !.version = v],
         offered |-> c, catalog |-> c, signature |-> Signature(c, key, genuine), time |-> t,
         id |-> One, served |-> Package(2, More)] :
          d \in Desktops, v \in {1, 2}, c \in {c \in Catalogs : Len(c.entries) = 3},
          key \in DOMAIN Store, genuine \in BOOLEAN, t \in {0, 1, 3}}
MCHandovers ==
  {[seen |-> d[1], now |-> d[2], later |-> d[3], package |-> package, served |-> served] :
     d \in {e \in Changing(Desktops) : e[2].version = 1 /\ e[3].version = 1},
     package \in {Package(2, More), Package(1, Base), SignedBy(Content(One, 2, Base), "k3")},
     served \in {Package(2, More), Package(2, Base), Package(1, Base)}}

\* Pages and routes of a project.
Url(scheme, host, path) == [scheme |-> scheme, host |-> host, path |-> path]
Home == Url("https", "a", "/")
Away == Url("https", "b", "")
Plain == Url("http", "a", "/")
Environment(name, url) == [name |-> name, url |-> url]
Config(website, environments) ==
  [website |-> website, environments |-> environments, trusted |-> <<>>, external |-> <<>>,
   bindings |-> <<>>, processes |-> <<>>, catalog |-> None, catalogSignature |-> None]
Configs ==
  {Config(w, e) : w \in {None, Home, Away, Plain},
                  e \in {<<>>, <<Environment("e", Away)>>,
                         <<Environment("e", Home), Environment("f", [Home EXCEPT !.path = ""])>>}}
  \cup {[Config(Home, <<>>) EXCEPT !.trusted = <<Away>>], [Config(Home, <<>>) EXCEPT !.external = <<Away>>],
        [Config(Home, <<>>) EXCEPT !.catalog = Home]}
Grant(url, methods) == [origin |-> Origin(url), services |-> <<[service |-> "m", methods |-> methods]>>]
Policies ==
  {p \in [grants : {<<Grant(Home, <<n1>>)>>, <<Grant(Home, <<n1, n3>>), Grant(Away, <<n2>>)>>,
                    <<Grant(Plain, <<n1, n2>>), Grant(Away, <<n1, n2, n3>>)>>, <<>>},
          configured : BOOLEAN, navigation : {<<>>, <<Origin(Away)>>}, external : {<<>>, <<Origin(Away)>>},
          http : BOOLEAN] : ValidPolicy(p)}
Routed(local, methods) == [local |-> local, services |-> [m |-> Service("dll", methods)]]
PluginSets == {{}, {Routed(FALSE, <<First>>)}, {Routed(FALSE, <<Aliased(First, n3)>>)},
               {Routed(TRUE, <<Second>>)}, {Routed(FALSE, <<First>>), Routed(TRUE, <<Second>>)}}
MCProjects ==
  [policy : {p \in Policies : p.navigation = p.external}, config : Configs, candidate : Configs, added : {{}},
   plugins : {{Routed(FALSE, <<First>>)}, {Routed(FALSE, <<First>>), Routed(TRUE, <<Second>>)}}]
  \cup [policy : Policies, config : Configs, candidate : {Config(Home, <<>>)}, plugins : PluginSets,
        added : {{}, {Routed(FALSE, <<Second>>)}, {Routed(TRUE, <<Second>>)}}]

-----------------------------------------------------------------------------
(* Projects that travel: a signed plugin and a mapping.                    *)
ProjectStore == Store @@ [b1 |-> Key({"project-bundle"}, "active"), b2 |-> Key({"project-bundle"}, "revoked")]
SignedFolder(version, services) ==
  [local |-> FALSE, of |-> SignedBy([Content(One, version, services) EXCEPT !.requirement = {2}], "k1")]
MappingOf(schema, native) ==
  [id |-> Id(2, "m"), named |-> Id(2, "m"), schema |-> schema,
   services |-> [k |-> Service("dll", <<Second>>)], api |-> [k |-> Service("dll", <<Second>>)],
   native |-> native, integrity |-> None]
MappingFolder(native) == [local |-> TRUE, of |-> Pinned(MappingOf(2, native))]
Legacy == [local |-> TRUE, of |-> MappingOf(1, 1)]
Open1 == [grants |-> <<Grant(Home, <<n1>>)>>, configured |-> TRUE, navigation |-> <<>>, external |-> <<>>, http |-> FALSE]
Narrow == [Open1 EXCEPT !.configured = FALSE]
DesktopOf(disk) ==
  [store |-> ProjectStore, version |-> 2, strict |-> TRUE, policy |-> Open1,
   project |-> [config |-> Config(Home, <<>>), identity |-> TRUE], disk |-> disk,
   active |-> {ManifestOf(folder) : folder \in MigrateLegacyIntegrity(disk)}, startable |-> TRUE]
Disks ==
  {{}, {SignedFolder(1, Base)}, {SignedFolder(2, Base), MappingFolder(1)},
   {SignedFolder(1, Base), MappingFolder(1)}, {SignedFolder(1, Base), MappingFolder(2)},
   {SignedFolder(2, [m |-> Service("dll", <<First>>), j |-> Service("dll", <<Second>>)]), MappingFolder(1)},
   {SignedFolder(1, Base), Legacy}, {SignedFolder(1, Base), [Legacy EXCEPT !.of.native = Link]},
   {SignedFolder(1, Base), [MappingFolder(1) EXCEPT !.of.native = 2]},
   {SignedFolder(1, Base), [MappingFolder(1) EXCEPT !.of.api = Other]},
   {[local |-> FALSE, of |-> SignedBy([Content(One, 1, Base) EXCEPT !.requirement = {2}], "k2")]},
   {SignedFolder(1, [k |-> Service("dll", <<First>>)]), MappingFolder(1)},
   {SignedFolder(1, Base), [MappingFolder(1) EXCEPT !.of.id = Id(1, "P"), !.of.named = Id(1, "P")]}}
Places ==
  {[DesktopOf(disk) EXCEPT !.policy = policy, !.active = IF stale = {} THEN @ ELSE {ManifestOf(f) : f \in stale}] :
     disk \in Disks, policy \in {Open1, Narrow},
     stale \in {{}, {SignedFolder(1, Base)}, {SignedFolder(1, Base), MappingFolder(2)}}}
  \cup {[DesktopOf({SignedFolder(1, Base), MappingFolder(1)}) EXCEPT !.project = project, !.startable = start] :
          project \in [config : {Config(Home, <<>>), Config(Away, <<>>), Config(Plain, <<>>)}, identity : BOOLEAN],
          start \in BOOLEAN}
MCExports ==
  [source : Places, staged : {MigrateLegacyIntegrity(disk) : disk \in Disks}, drifted : {{}, {One}}]

BundleOf(disk) == 
  CreateBundle(DesktopOf(disk).project,
               PrepareInputs({StageComponent(DesktopOf(disk), disk, ManifestOf(f)) : f \in disk}), {})
BundleDisks == {{SignedFolder(1, Base), MappingFolder(1)}, {SignedFolder(2, Base), MappingFolder(2)},
                {SignedFolder(2, Other), MappingFolder(1)}, {SignedFolder(1, Base)}}
Torn == [Pinned(MappingOf(2, 2)) EXCEPT !.native = 1]
ProjectBundles ==
  {BundleOf(disk) : disk \in BundleDisks}
  \cup {[BundleOf({SignedFolder(1, Base), MappingFolder(1)}) EXCEPT !.components =
           {IF c.local THEN [c EXCEPT !.of = of, !.digest = digest] ELSE c : c \in @}] :
          of \in {MappingOf(1, 1), MappingOf(2, 1), Pinned(MappingOf(2, 2)), Torn, [MappingOf(1, 1) EXCEPT !.named = Id(2, "M")]},
          digest \in {MappingOf(1, 1), Pinned(MappingOf(2, 2)), Torn, [MappingOf(1, 1) EXCEPT !.named = Id(2, "M")]}}
BundleSignature(bundle, key) == [key |-> key, bundle |-> bundle, genuine |-> TRUE]
Whole == BundleOf({SignedFolder(1, Base), MappingFolder(1)})
Later2 == BundleOf({SignedFolder(2, Base), MappingFolder(2)})
Targets2 ==
  {DesktopOf(disk) : disk \in {{}, {SignedFolder(1, Base)}, {SignedFolder(1, Base), MappingFolder(2)},
                            {SignedFolder(2, Base), MappingFolder(1)}, {SignedFolder(1, Other)}, {MappingFolder(1)},
                            {[local |-> FALSE, of |-> SignedBy([Content(Id(2, "m"), 1, Base) EXCEPT !.requirement = {2}], "k1")]},
                            {[MappingFolder(1) EXCEPT !.of.id = Id(2, "M"), !.of.named = Id(2, "M")]}}}
MCImports ==
  {[seen |-> d, now |-> d, later |-> d, file |-> <<b, b>>, again |-> <<b, b>>, signature |-> BundleSignature(b, key)] :
     d \in Targets2 \cup {[e EXCEPT !.strict = FALSE] : e \in Targets2} \cup {[e EXCEPT !.policy = Narrow] : e \in Targets2},
     b \in ProjectBundles, key \in {"b1", "b2", "k1"}}
  \cup {[seen |-> d[1], now |-> d[2], later |-> d[3], file |-> f[1], again |-> f[2], signature |-> BundleSignature(b, "b1")] :
          d \in Changing({DesktopOf(disk) : disk \in {{}, {SignedFolder(1, Base)}, {SignedFolder(1, Base), MappingFolder(2)}}}
                         \cup {[DesktopOf({}) EXCEPT !.active = {ManifestOf(SignedFolder(1, Base))}]}),
          f \in {g \in (([1..2 -> {Whole, Later2}]) \X ([1..2 -> {Whole, Later2}])) : g[1][2] = Whole},
          b \in {Whole, Later2}}

Process(id, singleton) == [id |-> id, path |-> "x", content |-> 1, singleton |-> singleton]

-----------------------------------------------------------------------------
(* A desktop that is ready for delivery.                                   *)
Released == SignedBy([Content(One, 1, Base) EXCEPT !.requirement = {2}], "k1")
OriginDocument ==
  [kind |-> "originPolicy",
   policy |-> [grants |-> <<Grant(Home, <<n1>>)>>, configured |-> FALSE, navigation |-> <<>>,
               external |-> <<>>, http |-> FALSE]]
LocalView(package) == [local |-> FALSE, services |-> package.content.services]
Folders(plugins) ==
  {[key |-> plugin, hidden |-> FALSE, loads |-> TRUE, plugin |-> plugin] : plugin \in plugins}
Pages(ready, loading, timedOut) ==
  [ready |-> ready, loading |-> loading, navigating |-> 0, timedOut |-> timedOut]
Site ==
  [windows |-> TRUE, architecture |-> "x86_64", version |-> 2, policy |-> OriginDocument.policy,
   config |-> Config(Home, <<>>), identity |-> TRUE, store |-> Store, hosts |-> {"x86", "x64"},
   readable |-> TRUE, directories |-> Folders({LocalView(Released)}),
   active |-> {LocalView(Released)}, startable |-> TRUE, after |-> {LocalView(Released)},
   ledger |-> [accepting |-> TRUE, failures |-> 0], pages |-> Pages(1, 0, 0),
   start |-> [policy |-> None, selected |-> <<>>, files |-> <<>>, running |-> {}], preflights |-> 0, diagnostics |-> TRUE]

-----------------------------------------------------------------------------
(* A release: its stores, materials, bundles and runners.                  *)
Approval == [k1 |-> Key({"plugin", "origin-policy"}, "active"), d1 |-> Key({"cutover-decision"}, "active")]
EvidenceKeys == [e1 |-> Key({"cutover-evidence"}, "active"), e2 |-> Key({"cutover-evidence"}, "active"),
                 e3 |-> Key({"cutover-evidence"}, "active")]
With2(store, status) == [key \in DOMAIN store |-> [store[key] EXCEPT !.status = status]]
Findings ==
  [coverage |-> 2, critical |-> 0, warnings |-> 0, http |-> FALSE, authorized |-> 1, insecure |-> 1]
Case(name, enabled) ==
  [name |-> name, service |-> "m", route |-> n1, inputs |-> {n1}, enabled |-> enabled,
   review |-> FALSE, placeholder |-> FALSE]
GoldenCases == [draft |-> FALSE, targets |-> <<MatrixTarget(Released.content)>>,
                cases |-> <<Case("first", TRUE), Case("second", FALSE)>>]
Workspace == [revision |-> 1, dirty |-> FALSE, environment |-> 1]
Bundle(version) ==
  CreateManifest(
    [metadata |-> [version |-> version, authenticode |-> TRUE, synthetic |-> FALSE,
                   revision |-> 0, dirty |-> FALSE, environment |-> 0],
     payload |-> version, installers |-> {"setup"}, manifest |-> None])
Materials ==
  [configs |-> Findings,
   origin |-> [document |-> OriginDocument,
               envelope |-> [key |-> "k1", document |-> OriginDocument, genuine |-> TRUE]],
   set |-> {Released}, matrix |-> GoldenCases, previous |-> Bundle(1),
   approval |-> Approval, evidence |-> EvidenceKeys]
ReportOf(materials) == [materials |-> materials, complete |-> TRUE]
World0 ==
  Materials @@
  [build |-> [version |-> 2, authenticode |-> TRUE, synthetic |-> FALSE, allowDirty |-> FALSE,
              payload |-> 2, installers |-> {"setup"}],
   report |-> ReportOf(Materials), source |-> Workspace,
   approvals |-> [evidenceAge |-> 2, decisionAge |-> 2, minimum |-> 1,
                  signers |-> [plugin |-> "e1", migration |-> "e2", windows |-> "e3", decision |-> "d1"]],
   hosts |-> 1, answers |-> TRUE,
   check |-> [record |-> Export(Site), at |-> 5],
   smoke |-> [trust |-> Approval, origin |-> OriginDocument, hosts |-> 1, authenticode |-> TRUE,
              launch |-> TRUE, state |-> TRUE, previousGiven |-> TRUE],
   clock |-> 5, currentApproval |-> Approval, currentEvidence |-> EvidenceKeys,
   candidate |-> None, root |-> None, policy |-> None, plugin |-> None, migration |-> None,
   windows |-> None, decision |-> None, policyEnvelope |-> None, pluginEnvelope |-> None,
   migrationEnvelope |-> None, windowsEnvelope |-> None, decisionEnvelope |-> None]
MCWorlds == {World0}

Tampered == [Released EXCEPT !.signature.genuine = FALSE]
MCOthers ==
  [field \in DOMAIN World0 |->
     CASE field = "source" -> {[Workspace EXCEPT !.revision = 2, !.dirty = d] : d \in BOOLEAN}
       [] field = "build" -> {[World0.build EXCEPT !.authenticode = FALSE],
                              [World0.build EXCEPT !.synthetic = TRUE]}
       [] field = "configs" -> {[Findings EXCEPT !.critical = 1]}
       [] field = "report" ->
            {ReportOf([Materials EXCEPT !.configs.critical = 1]), [ReportOf(Materials) EXCEPT !.complete = FALSE]}
       [] field = "origin" -> {[World0.origin EXCEPT !.envelope.genuine = FALSE],
                               [World0.origin EXCEPT !.document.policy.http = TRUE]}
       [] field \in {"set", "root"} -> {{Package(2, Base)}, {Tampered}}
       [] field = "matrix" -> {[GoldenCases EXCEPT !.draft = TRUE],
                               [GoldenCases EXCEPT !.cases = <<Case("first", FALSE)>>]}
       [] field = "previous" -> {Bundle(2)}
       [] field \in {"approval", "evidence"} -> {With2(World0[field], "retired")}
       [] field = "currentApproval" -> {With2(Approval, s) : s \in {"retired", "revoked"}}
       [] field = "currentEvidence" -> {With2(EvidenceKeys, "revoked")}
       [] field = "approvals" -> {[World0.approvals EXCEPT !.minimum = 3],
                                  [World0.approvals EXCEPT !.signers["plugin"] = "e2"]}
       [] field = "hosts" -> {2}
       [] field = "answers" -> {FALSE}
       [] field = "check" -> {None, [World0.check EXCEPT !.at = 1],
                              [World0.check EXCEPT !.record = Export([Site EXCEPT !.pages = Pages(0, 1, 0)])]}
       [] field = "smoke" -> {[World0.smoke EXCEPT !.launch = FALSE], [World0.smoke EXCEPT !.previousGiven = FALSE],
                              [World0.smoke EXCEPT !.state = FALSE]}
       [] field = "clock" -> {2, 4, 7, 8}
       [] OTHER -> {}]


-----------------------------------------------------------------------------
(* Desktops that are checked: each differs from one that is ready in one   *)
(* or two ways.                                                            *)
Agent == [policy |-> <<Process("a", TRUE)>>, selected |-> <<"a">>, files |-> [x |-> 1],
          running |-> {"x"}]
Two == [policy |-> <<Process("a", FALSE), Process("b", FALSE)>>, selected |-> <<"a", "b">>,
        files |-> [x |-> 1], running |-> {}]
Starts == {Site.start, Agent, Two, [Agent EXCEPT !.files = [x |-> 2]],
           [Agent EXCEPT !.files = [y |-> 1]], [Agent EXCEPT !.selected = <<"a", "a">>],
           [Agent EXCEPT !.policy = <<Process("b", TRUE)>>], [Agent EXCEPT !.policy = None],
           [Two EXCEPT !.policy = <<Process("a", FALSE), Process("a", TRUE)>>],
           [Site.start EXCEPT !.policy = <<Process("a", FALSE), Process("a", TRUE)>>]}
Known == {Routed(FALSE, <<First>>), Routed(FALSE, <<Aliased(First, n3)>>), Routed(TRUE, <<Second>>)}
Strange == [key |-> None, hidden |-> FALSE, loads |-> TRUE, plugin |-> Routed(TRUE, <<Second>>)]
MCSites ==
  {[Site EXCEPT !.start = s, !.config.processes = p, !.pages = g] :
     s \in Starts, p \in {<<>>, <<"a">>, <<"a", "b">>},
     g \in {Pages(r, l, t) : r \in {0, 1}, l \in {0, 1}, t \in {0, 1}}}
  \cup {[Site EXCEPT !.policy = policy, !.config = config, !.directories = Folders(set), !.active = set, !.after = set] :
          policy \in Policies, config \in {c \in Configs : c.environments = <<>> \/ Len(c.environments) = 1},
          set \in {{}, {LocalView(Released)}, {Routed(FALSE, <<Aliased(First, n3)>>)},
                   {Routed(FALSE, <<Aliased(First, n3), Second>>)},
                   {Routed(FALSE, <<First>>), [local |-> TRUE, services |-> [k |-> Service("dll", <<Second>>)]]}}}
  \cup {[Site EXCEPT !.directories = Folders(a) \cup x, !.active = b, !.after = c] :
          a \in SUBSET Known, b \in SUBSET Known, c \in {{}, {Routed(FALSE, <<First>>)}},
          x \in {{}, {Strange}, {[Strange EXCEPT !.hidden = TRUE]}, {[Strange EXCEPT !.loads = FALSE]},
                 {[Strange EXCEPT !.key = Routed(FALSE, <<First>>)]}}}
  \cup {[Site EXCEPT !.windows = FALSE, !.ledger = ledger] : ledger \in {None, Site.ledger}}
  \cup [windows : {TRUE}, architecture : {"x86_64", "arm64"}, version : {2}, policy : {Site.policy},
        config : {Site.config}, identity : BOOLEAN, store : {Store, None, [k |-> Key(Uses, "retired")]},
        hosts : {Site.hosts, {"x86"}}, readable : BOOLEAN, directories : {Site.directories},
        active : {Site.active}, startable : BOOLEAN, after : {Site.active},
        ledger : {None, [accepting |-> TRUE, failures |-> 0], [accepting |-> TRUE, failures |-> 1]},
        pages : {Site.pages}, start : {Site.start}, preflights : {0, 1}, diagnostics : BOOLEAN]

-----------------------------------------------------------------------------
(* Materials of a pilot: one input or as many as needed in each category.  *)
Plain1(name) == [name |-> name, form |-> "plain"]
Doubled(name) == [name |-> name, form |-> "doubled"]
Broken == [name |-> "root", form |-> "invalid"]
Provided(id, inputs) == [id |-> id, status |-> "provided", inputs |-> inputs, approval |-> None]
Waived(id, approval) == [id |-> id, status |-> "notApplicable", inputs |-> <<>>, approval |-> approval]
InputNames(id) ==
  CASE id = "signed-origin-policy" -> <<"policy", "envelope", "trust">>
    [] id = "plugin-release-set" -> <<"set", "package">>
    [] OTHER -> <<id>>
ProvidedAs(id) == Provided(id, [i \in DOMAIN InputNames(id) |-> Plain1(InputNames(id)[i])])
Common == [id \in Required |-> ProvidedAs(id)]
Bindings ==
  [role \in DOMAIN Roles |-> IF role = "keymaps" THEN <<>> ELSE <<Plain1(Roles[role])>>]
  @@ [role \in PolicyRoles |-> Plain1(role)]
Order == <<"legacy-config", "production-native-assets", "golden-cases", "business-assets",
           "business-hars", "signed-origin-policy", "plugin-release-set",
           "organization-public-trust", "previous-windows-release", "windows-hardware-plan">>
MaterialsOf(categories, waived, bindings) ==
  [categories |-> [i \in DOMAIN Order |-> categories[Order[i]]] \o waived, bindings |-> bindings]
AllWaived == <<Waived("legacy-keymap", "signed"), Waived("legacy-processes", "signed"),
               Waived("external-local-http-callers", "signed")>>
WithKeymap == <<ProvidedAs("legacy-keymap")>> \o SubSeq(AllWaived, 2, 3)
Keymapped == [Bindings EXCEPT !["keymaps"] = <<Plain1("legacy-keymap")>>]
FileNode(content) == [kind |-> "file", content |-> content, parts |-> {}]
Folder(content, parts) == [kind |-> "directory", content |-> content, parts |-> parts]
LinkNode == [kind |-> "link", content |-> None, parts |-> {}]
OnDisk ==
  [name \in UNION {ToSet(InputNames(id)) : id \in CategoryIds} \cup {"inner", "other", "leaf"} |->
     CASE name = "previous-windows-release" -> Folder("bundle", {"inner"})
       [] name = "business-assets" -> Folder("assets", {"inner"})
       [] OTHER -> FileNode("public")]
Manifests2 ==
  {MaterialsOf(Common, waived, bindings) :
     waived \in {AllWaived, WithKeymap, <<>>, AllWaived \o AllWaived,
                 <<Waived("legacy-keymap", None)>> \o SubSeq(AllWaived, 2, 3),
                 AllWaived \o <<Waived("unknown", "signed")>>},
     bindings \in {Bindings, Keymapped, [Bindings EXCEPT !["policy"] = Plain1("trust")],
                   [Bindings EXCEPT !["configs"] = <<Doubled("legacy-config")>>],
                   [Bindings EXCEPT !["configs"] = <<Plain1("other")>>]}}
  \cup {MaterialsOf([Common EXCEPT ![id] = c], AllWaived, Bindings) :
          id \in {"legacy-config"},
          c \in {Waived("legacy-config", "signed"), Provided("legacy-config", <<>>),
                 Provided("legacy-config", <<Broken>>),
                 [ProvidedAs("legacy-config") EXCEPT !.approval = "signed"],
                 Provided("legacy-config", <<Plain1("legacy-config"), Doubled("legacy-config")>>),
                 Provided("legacy-config", <<Plain1("other"), Plain1("inner")>>)}}
  \cup {MaterialsOf([Common EXCEPT !["plugin-release-set"] = Provided("plugin-release-set", <<Plain1("set")>>)],
                   AllWaived, Bindings)}
Intact == MaterialsOf(Common, WithKeymap, Keymapped)
Changes ==
  {[OnDisk EXCEPT ![name] = node] : name \in {"legacy-config", "inner", "policy", "other", "legacy-keymap",
                                              "organization-public-trust", "previous-windows-release"},
     node \in {LinkNode, FileNode("private"), FileNode("new"), Folder("bundle", {}), Folder("new", {"leaf"})}}
  \cup {[name \in DOMAIN OnDisk \ {"legacy-config"} |-> OnDisk[name]]}
MCIntakes ==
  [manifest : Manifests2, before : {OnDisk}, after : {OnDisk}]
  \cup {[manifest |-> Intact, before |-> OnDisk, after |-> disk] : disk \in Changes}
  \cup {[manifest |-> manifest, before |-> disk, after |-> disk] :
          manifest \in {Intact, MaterialsOf(Common, AllWaived, Keymapped)}, disk \in Changes}

-----------------------------------------------------------------------------
(* Golden cases of one plugin or of two.                                   *)
Second2 == SignedBy([Content(Id(2, "q"), 1, [k |-> Service("dll", <<Aliased(Second, n3)>>)])
                       EXCEPT !.requirement = {2}], "k1")
Clash == SignedBy([Content(Id(2, "q"), 1, Other) EXCEPT !.requirement = {2}], "k1")
GoldenFor(name, service, route) == [Case(name, TRUE) EXCEPT !.service = service, !.route = route]
CaseLists ==
  {<<GoldenFor("first", "m", n1)>>} \cup
  {<<[GoldenFor("first", "m", n1) EXCEPT !.enabled = "enabled" \in s, !.review = "review" \in s,
                                         !.placeholder = "placeholder" \in s, !.inputs = i],
     [GoldenFor(name, "k", route) EXCEPT !.enabled = f]>> :
     s \in {{}, {"enabled"}, {"enabled", "review"}, {"enabled", "placeholder"}}, i \in {{n1}, {}}, name \in {"first", "second"},
     route \in {n1, n2, n3}, f \in BOOLEAN}
Sets == {{Released}, {Second2}, {Released, Second2}, {Released, Clash}, {Tampered},
         {SignedBy(Released.content, "k2")}, {SignedBy(Content(One, 1, More), "k1")},
         {SignedBy([Released.content EXCEPT !.requirement = None], "k1")}, {Released, Package(2, More)}}
Targets == {<<>>, <<MatrixTarget(Released.content)>>, <<MatrixTarget(Second2.content)>>,
            <<MatrixTarget(Released.content), MatrixTarget(Second2.content)>>}
MCDrafts ==
  [store : {Store}, packages : Sets,
   matrix : [draft : BOOLEAN, targets : Targets, cases : CaseLists \cup {<<>>}]]
  \cup [store : {Store}, matrix : {None},
        packages : {s \in Sets : Cardinality(s) = 1}
                   \cup {{SignedBy([Content(One, 1, Base) EXCEPT !.meta = None], "k1")},
                         {SignedBy(Content(One, 1, [m |-> Service("com", <<Aliased(First, n3), Second>>)]), "k1")}}]

-----------------------------------------------------------------------------
(* Local mappings with their cases, on the way to a release.               *)
Number(n) == <<"number", n>>
Text == <<"text", n2>>
FilePath(key, suffix) == [key |-> key, spelling |-> key, suffix |-> suffix]
MainFile == FilePath(n1, <<"dll">>)
Helper == FilePath(n2, <<>>)
Runs(main, methods, entry, deps) ==
  [entry |-> entry, deps |-> deps, arch |-> "x64", installRun |-> FALSE] @@ Service(main, methods)
Tried(of, service, route, given, code, asserts, expected) ==
  [name |-> [of |-> of, safe |-> TRUE], service |-> service, route |-> route, given |-> given,
   code |-> code, asserts |-> asserts, expected |-> expected]
Given1 == n1 :> Number(1)
Plain2 == Tried(<<1>>, "m", n1, Given1, 1, TRUE, Number(1))
Loose == Tried(<<2>>, "m", n1, <<>>, 1, FALSE, Null)
ObjectOf(fields) == <<"object", fields>>
Deep == Tried(<<3>>, "m", n1, Given1, 1, TRUE, ObjectOf([a |-> Number(1)]))
TooDeep == Tried(<<3>>, "m", n1, Given1, 1, TRUE, <<"array", <<ObjectOf([a |-> <<"array", <<Number(1)>>>>])>>>>)
Drawn == [Plain2 EXCEPT !.name.of = <<"m", n2, 1>>, !.expected = Text]
Pe(arch, exports) == [arch |-> arch, exports |-> exports]
Pes == [path \in {MainFile, Helper} |-> IF path = MainFile THEN Pe("x64", {n1, n2}) ELSE Pe(None, {})]
Tried1(services, cases) == [id |-> One, services |-> services, cases |-> cases, files |-> <<>>]
Dll1(deps) == [m |-> Runs("dll", <<First>>, MainFile, deps)]
CaseSequences == {<<>>, <<Plain2>>, <<Loose>>, <<Plain2, Loose>>, <<Plain2, Loose, Deep>>, <<TooDeep>>, <<Plain2, Plain2>>,
           <<[Plain2 EXCEPT !.route = n2]>>, <<[Loose EXCEPT !.expected = Number(1)]>>,
           <<[Plain2 EXCEPT !.given = n2 :> Number(1)]>>}
NativeDisks == {Pes, [Pes EXCEPT ![Helper] = Link], MainFile :> Pes[MainFile]}
Ending(state, code, data) == [state |-> state, code |-> code, data |-> data]
Done == Ending("completed", 1, ObjectOf([a |-> Number(1), b |-> Text]))
Outcomes == {Ending("completed", 1, Number(1)), Ending("completed", 2, Number(1)), Done,
             Ending("indeterminate", 1, Number(1)), Ending("notExecuted", 1, Number(1))}
MCEdits ==
  [definition : {Tried1(services, cases) : services \in {Dll1(<<>>), Dll1(<<Helper>>), Dll1(<<Wildcard>>)}, cases \in CaseSequences},
   disk : NativeDisks, same : BOOLEAN, case : {Plain2, [Loose EXCEPT !.code = 2], Deep, TooDeep, [Deep EXCEPT !.service = "k"]},
   outcomes : {<<Done, Done, Done>>}]
  \cup [definition : {Tried1(Dll1(<<>>), <<Plain2, Loose, Deep>>)}, disk : {Pes}, same : BOOLEAN, case : {Plain2},
        outcomes : [1..3 -> Outcomes]]

Both == [m |-> Runs("dll", <<Aliased(First, n3), Second>>, MainFile, <<Helper>>), k |-> Runs("com", <<First>>, None, <<>>)]
Definitions ==
  {Tried1(services, cases) :
     services \in {Dll1(<<>>), Both, [Both EXCEPT !["k"].methods = <<>>], [Both EXCEPT !["m"].arch = "x86"],
                   [Both EXCEPT !["k"].installRun = TRUE], [Both EXCEPT !["m"].deps = <<Helper, MainFile>>]},
     cases \in {<<>>, <<Plain2>>, <<Plain2, Loose>>, <<Drawn>>, <<[Plain2 EXCEPT !.name.safe = FALSE]>>,
                <<Plain2, [Plain2 EXCEPT !.name.of = <<2>>, !.route = n3]>>, <<[Plain2 EXCEPT !.expected = Number(3)]>>,
                <<Plain2, [Plain2 EXCEPT !.name.of = <<2>>, !.code = 2]>>, <<[Plain2 EXCEPT !.given = <<>>]>>,
                <<[Plain2 EXCEPT !.expected = ObjectOf([a |-> Draft])], Deep>>}}
  \cup {Tried1([m |-> Runs("dll", <<>>, MainFile, <<>>)], <<>>)}
Identity2(version, safe) ==
  [id |-> One, version |-> version, requirement |-> {1, 2}, display |-> [safe |-> safe]]
Way ==
  [definition |-> Tried1(Both, <<Plain2>>), disk |-> Pes, added |-> <<>>, store |-> Store, key |-> "k1",
   identity |-> Identity2(2, TRUE), baseline |-> Package(1, Base), answer |-> Number(0), from |-> 5, api |-> More]
Copied == CopyOf(MainFile, "m", 0)
MCPromoted ==
  {[Way EXCEPT !.definition = d, !.from = f, !.baseline = b] :
     d \in Definitions, f \in {1, 5}, b \in {Package(1, Base), Package(1, More), Package(1, Other)}}
  \cup {[Way EXCEPT !.definition = d, !.disk = [Pes EXCEPT ![MainFile] = pe], !.added = a] :
          d \in {Way.definition, Tried1(Dll1(<<>>), <<>>)},
          pe \in {Pes[MainFile], Pe(None, {n1, n2}), Pe("x64", {n1}), Pe("x86", {n1, n2})},
          a \in {<<>>, FilePath(n3, <<>>) :> Link, FilePath(n3, <<>>) :> Pe(None, {}),
                 [Copied EXCEPT !.spelling = n3] :> Pe("x64", {n1, n2})}}
  \cup {[Way EXCEPT !.key = key, !.identity = Identity2(version, safe), !.answer = answer, !.from = f] :
          key \in DOMAIN Store, version \in {0, 1, 2}, safe \in BOOLEAN, answer \in {Number(0), Number(3), Text}, f \in 1..5}
  \cup {[Way EXCEPT !.from = f, !.api = api] :
          f \in 1..5, api \in {[Both EXCEPT !["m"].methods = <<First, Second>>], [Both EXCEPT !["m"].timeout = 2]}}

-----------------------------------------------------------------------------
(* All the questions with the answers of the program, and the release that *)
(* is taken to its rollout: a behaviour is about the one or the other.     *)

allVars == <<vars, cutoverVars>>

NoRelease ==
    /\ world = None /\ step = 0 /\ failed = FALSE /\ kept = None
    /\ changed = <<>> /\ harmless = TRUE /\ truth = <<>>

Init ==
    /\ decision = Open
    /\ \/ NoRelease /\ (AskContract \/ AskDelivery \/ AskRelease)
       \/ CutoverInit /\ question = [kind |-> "cutover", of |-> None]

Next ==
    \/ (DecideContract \/ DecideDelivery \/ DecideRelease) /\ UNCHANGED cutoverVars
    \/ CutoverNext /\ UNCHANGED vars

Spec == Init /\ [][Next]_allVars
=============================================================================
