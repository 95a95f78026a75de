------------------------------ MODULE Contracts ------------------------------
(***************************************************************************)
(* Decisions about declared services, taken one question at a time: a new  *)
(* version is compared with the one in use, a request of a page is served, *)
(* a client is generated, the files of a local mapping are verified.  The  *)
(* question is chosen at first and the program's decision is then taken;   *)
(* the properties say what a page, an operator or a mapping may rely on.   *)
(***************************************************************************)
EXTENDS PluginClient

CONSTANTS
    Versions,     \* <<old, new>> services of one id that are compared
    Calls,        \* services that are called
    Clients,      \* sequences of <<id, service>> a client is generated for
    Mappings,     \* <<before, after>>: a directory of a mapping, later
    ApiPath, MetadataPath,   \* paths of api.json and plugin.json
    Open, Refused

VARIABLES question, decision
vars == <<question, decision>>

AskContract ==
    \/ question \in [kind : {"compare"}, versions : Versions]
    \/ question \in [kind : {"call"}, service : Calls]
    \/ question \in [kind : {"generate"}, services : Clients]
    \/ question \in [kind : {"verify"}, mapping : Mappings]

Decide(kind) == decision = Open /\ question.kind = kind /\ UNCHANGED question

\* A version that is not accepted is not compared: its manifest is a failure.
Compare ==
    /\ Decide("compare")
    /\ LET old == [id \in {"service"} |-> question.versions[1]]
           new == [id \in {"service"} |-> question.versions[2]]
       IN  decision' = IF ValidService(new["service"]) /\ ValidService(old["service"])
                       THEN [breaking |-> BreakingChanges(old, new), review |-> ReviewChanges(old, new),
                             added |-> Additions(old, new)]
                       ELSE Refused

Call ==
    /\ Decide("call")
    /\ decision' = IF ValidService(question.service)
                   THEN {<<route, request, Invoke(question.service, route, request)>> :
                          <<route, request>> \in
                            UNION {{route} \X ConformingRequests(Served(question.service, route))
                                   : route \in Routes(question.service)}}
                   ELSE Refused

Generate ==
    /\ Decide("generate")
    /\ decision' = IF \A i \in DOMAIN question.services : ValidService(question.services[i][2])
                   THEN [methods |-> ClientMethods(question.services),
                         statuses |-> StatusMethods(question.services),
                         types |-> TypeNames(question.services)]
                   ELSE Refused

\* What api.json holds says what is protected, before and after.
Protected(directory) == ProtectedPaths({ApiPath, MetadataPath}, directory[ApiPath])

Verify ==
    /\ Decide("verify")
    /\ LET before == question.mapping[1] after == question.mapping[2] IN
       decision' = VerifyIntegrity(BuildIntegrity(Protected(before), before), Protected(after), after)

DecideContract == Compare \/ Call \/ Generate \/ Verify

-----------------------------------------------------------------------------
Decided(kind) == question.kind = kind /\ decision \notin {Open, Refused}

(***************************************************************************)
(* A page that works keeps working with a version that is reported neither *)
(* as breaking nor as another way to call: each request the adapters took  *)
(* before is taken by the new version, and each field they answered is     *)
(* answered with no type that the page has not met.  An exception is a DLL *)
(* whose inputs change their charset: GBK refuses texts that UTF-8 took    *)
(* (TextEncoding::encode_nul_terminated).  Those texts are excepted, and   *)
(* the change is at least marked for review.  A version that breaks and    *)
(* adds nothing can be taken back: the old one is compatible with it.      *)
(***************************************************************************)
Unbroken(old, new, route, request) ==
    LET before == Invoke(old, route, request)
        after == Invoke(new, route, request)
    IN  before # Error =>
          /\ after # Error /\ DOMAIN before \subseteq DOMAIN after
          /\ \A field \in DOMAIN before : after[field] \subseteq before[field]

CallsAlike(review) ==
    \A change \in review :
       change[1] \notin {"service-native-binding-changed", "method-extension-changed"}

\* An input of the route has another charset than before.
Recoded(old, new, route) ==
    old.main = "dll" /\ new.main = "dll" /\
    \E p \in Inputs(Served(old, route)), q \in Inputs(Served(new, route)) :
      p.name = q.name /\ Charset(old, p) # Charset(new, q)

MarkedForReview(review, route) ==
    \E change \in review :
      change[1] \in {"native-parameter-options-changed", "native-parameter-order-changed",
                    "native-parameter-layout-changed"} /\ change[3] = route

CompatibleVersionsServeOldPages ==
    Decided("compare") =>
      LET old == question.versions[1] new == question.versions[2] IN
      /\ decision.breaking = {} /\ CallsAlike(decision.review) =>
           \A route \in Routes(old) :
             /\ Recoded(old, new, route) => MarkedForReview(decision.review, route)
             /\ \A request \in [DOMAIN InputContract(Served(old, route)) -> Values] :
                  \/ Recoded(old, new, route)
                     /\ \E field \in DOMAIN request : request[field] = "foreign"
                  \/ Unbroken(old, new, route, request)
      /\ decision.breaking \cup decision.added = {} =>
           Compatible([id \in {"service"} |-> new], [id \in {"service"} |-> old])

(***************************************************************************)
(* What validate_service accepts the adapters can call: a page that sends  *)
(* what was declared gets every field that the generated client promises,  *)
(* with the promised type. What a COM method returns is only known when it *)
(* returns, and a DLL text that is a null pointer is answered as null.     *)
(***************************************************************************)
Promised(method, field) ==
    KindsOf(ClientResult(method)[field])
    \cup (IF ClientResult(method)[field] = "string" /\ field = ReturnValue THEN {"null"} ELSE {})

DeclaredCallsAreAnswered ==
    Decided("call") /\ question.service.main \in {"dll", "com"} =>
      \A call \in decision :
        LET method == Target(question.service, call[1]) answer == call[3] IN
        /\ answer # Error /\ DOMAIN answer = DOMAIN ClientResult(method)
        /\ \A field \in DOMAIN answer :
             \/ answer[field] \subseteq Promised(method, field)
             \/ question.service.main = "com" /\ field = ReturnValue

(***************************************************************************)
(* A generated client is a program: no two of its methods or types have a  *)
(* name in common, and each method calls the method it was generated from, *)
(* whatever names the services share.                                      *)
(***************************************************************************)
ClientsAreComplete ==
    Decided("generate") =>
      LET services == question.services plans == Planned(services) IN
      /\ IsInjective(decision.methods \o decision.statuses) /\ IsInjective(decision.types)
      /\ Len(decision.methods) = Len(plans) /\ Len(decision.statuses) = Len(plans)
      /\ ToSet(decision.methods) \cap {"constructor", "bridge"} = {}
      /\ \A i \in DOMAIN plans : \E s \in ToSet(services) :
           s[1] = ClientRoute(services, i)[1]
           /\ Served(s[2], ClientRoute(services, i)[2]) = plans[i].method

(***************************************************************************)
(* A mapping that verifies runs what was there when its document was made: *)
(* its declaration, its entry and every library it loads first.            *)
(***************************************************************************)
Loaded(directory) ==
    {ApiPath, MetadataPath}
    \cup (IF directory[ApiPath].main = "com" THEN {}
          ELSE directory[ApiPath].deps \cup {directory[ApiPath].entry})

VerifiedMappingsAreUnchanged ==
    question.kind = "verify" /\ decision = TRUE =>
      LET before == question.mapping[1] after == question.mapping[2] IN
      \A path \in Loaded(after) :
        path \in DOMAIN before \cap DOMAIN after /\ before[path] = after[path]

\* A declaration that is accepted is served: by the adapters, and through the
\* client that is generated from it.
DeclarationsAreServed == DeclaredCallsAreAnswered /\ ClientsAreComplete

=============================================================================
