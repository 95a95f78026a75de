------------------------------- MODULE Releases -------------------------------
(***************************************************************************)
(* Questions to the tools that prepare a release: the self-check of a      *)
(* desktop, the intake of a pilot's materials and the golden cases.        *)
(***************************************************************************)
EXTENDS Promotions, DeploymentCheck, PilotReadiness

CONSTANTS
    Sites,     \* desktops that are checked
    Intakes,   \* [manifest, before, after]: materials when reported and later
    Drafts     \* [store, packages, matrix]; matrix is None to draft one

AskRelease ==
    \/ question \in [kind : {"deployment"}, of : Sites]
    \/ question \in [kind : {"intake"}, of : Intakes]
    \/ question \in [kind : {"golden"}, of : Drafts]
    \/ AskPromotion

CheckDeployment ==
    /\ Decide("deployment")
    /\ decision' = [shown |-> Evaluate(question.of, FALSE), exported |-> Export(question.of)]

\* The report is made of the materials as they are, and used later.
CheckIntake ==
    /\ Decide("intake")
    /\ LET q == question.of report == InspectMaterials(q.before, q.manifest) IN
       decision' =
         [report |-> report,
          verified |-> [before |-> VerifyMaterials(q.before, q.manifest, report),
                        after |-> VerifyMaterials(q.after, q.manifest, report)],
          audit |-> AuditInputs(q.before, q.manifest),
          inputs |-> [id \in {"plugin-release-set", "golden-cases", "previous-windows-release",
                              "organization-public-trust"} |-> CategoryInputs(q.before, q.manifest, id)]]

\* One matrix for all the packages: drafted for a single one, or given.
CheckGoldenCases ==
    /\ Decide("golden")
    /\ LET q == question.of
           content == (CHOOSE package \in q.packages : TRUE).content
           matrix == IF q.matrix # None THEN q.matrix
                     ELSE LET seed == SeedMatrix(content, DraftMatrix(content))
                          IN  IF seed = None THEN None ELSE Reviewed(seed)
       IN  decision' = IF matrix = None THEN Refused
                       ELSE [matrix |-> matrix,
                             released |-> ReleaseChecked(q.store, matrix, q.packages),
                             root |-> Materialize(q.store, matrix, q.packages)]

DecideRelease == CheckDeployment \/ CheckIntake \/ CheckGoldenCases \/ DecidePromotion

-----------------------------------------------------------------------------
(***************************************************************************)
(* A desktop that reports itself ready for delivery is one: its record is  *)
(* the one that the evidence of a release is made of, the pages of its     *)
(* configuration are allowed and can call something, each route can be     *)
(* called by some page, what is served is what is on disk, the programs of *)
(* the configured processes are approved, and a business page is up.       *)
(***************************************************************************)
DeliveryIsReady ==
    Decided("deployment") =>
      LET site == question.of
          report == decision.exported.report
          routes == PolicyRoutes(site.active)
          origins == BusinessOrigins(site.config)
          May(origin, route) == MayInvoke(site.policy, site.config, origin, route)
      IN  /\ decision.shown.ready /\ decision.exported.report.ready => ~decision.shown.deliveryReady
          /\ report.deliveryReady /\ site.architecture \in {"x86", "x86_64"} <=>
               ValidForDelivery(decision.exported, site.version)
          /\ report.deliveryReady =>
               /\ ValidConfig(site.config) /\ Authorize(site.policy, site.config)
               /\ routes # {} =>
                    /\ \A origin \in origins : \E route \in routes : May(origin, route)
                    /\ \A route \in routes : \E origin \in origins : May(origin, route)
               /\ site.active = {directory.plugin : directory \in Discovered(site.directories)}
               /\ site.after = site.active /\ site.startable
               /\ \A id \in ToSet(site.config.processes) : \E process \in ToSet(site.start.policy) :
                    /\ process.id = id
                    /\ process.path \in DOMAIN site.start.files
                    /\ site.start.files[process.path] = process.content
               /\ site.pages.ready > 0 /\ site.pages.timedOut = 0

(***************************************************************************)
(* A report of materials is one that later tools accept, and they accept   *)
(* it as long as nothing they read through it has changed: a complete      *)
(* report gives the audit and the preparation of a policy their inputs,    *)
(* and whatever the audit would read is covered by the report.             *)
(***************************************************************************)
Read(materials, name) == Scan(materials, name, FALSE)

PilotReportsHold ==
    Decided("intake") =>
      LET q == question.of IN
      /\ ValidReport(decision.report) /\ decision.verified.before
      /\ decision.report.complete =>
           /\ decision.audit # None
           /\ \A id \in DOMAIN decision.inputs : decision.inputs[id] # {}
           /\ decision.verified.after =>
                \A role \in DOMAIN decision.audit : \A name \in decision.audit[role] :
                  Read(q.after, name) = Read(q.before, name)

(***************************************************************************)
(* The golden cases that a release is made with call every method that its *)
(* packages serve, by a name it is served under and with the inputs that   *)
(* it takes, and are neither drafts nor for other packages; and a draft    *)
(* that was reviewed is such a set of cases.                               *)
(***************************************************************************)
ReviewedCasesCover ==
    Decided("golden") /\ decision # Refused =>
      LET q == question.of cases == ToSet(decision.matrix.cases) IN
      /\ decision.released =>
           /\ decision.root = q.packages
           /\ {target.id : target \in ToSet(decision.matrix.targets)}
                = {package.content.id : package \in q.packages}
           /\ \A package \in q.packages : \A service \in DOMAIN package.content.services :
                LET of == package.content.services[service] IN
                \A i \in DOMAIN of.methods :
                  \E case \in cases :
                    /\ case.enabled /\ ~case.review /\ ~case.placeholder
                    /\ case.service = service /\ case.route \in Routes(of)
                    /\ Served(of, case.route) = of.methods[i]
                    /\ case.inputs = DOMAIN InputContract(of.methods[i])
      /\ q.matrix = None =>
           decision.released = \A package \in q.packages :
             /\ VerifyPlugin(q.store, package, "issue") /\ package.content.requirement # None

\* Golden cases cover what is released, wherever they come from: drafted or
\* given to the tool, or the cases a local mapping was tried out with, as far
\* as the tool takes their names (MappingsCanBeReleased).
GoldenCasesCoverTheRelease == ReviewedCasesCover /\ MappingsCanBeReleased
=============================================================================
