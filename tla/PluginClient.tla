---------------------------- MODULE PluginClient ----------------------------
(***************************************************************************)
(* The names of a generated page client (generate_typescript_client and    *)
(* typescript_method_plans of crates/webplus-plugin-config): one client    *)
(* method and one status method for each method of the services, in their  *)
(* order, and one pair of types.  Several names can give one identifier.   *)
(***************************************************************************)
EXTENDS NativeCalls, TLC

CONSTANT Pascal      \* typescript_pascal_identifier, a function of names
CONSTANT Camel       \* typescript_camel_identifier

\* A plan before it is named: the route it calls.
RequestName(method) == IF method.alias = None THEN method.name ELSE method.alias

\* The methods of a sequence of <<id, service>>, as [id, method] in order.
Planned(services) ==
    LET MethodsOf(id, service) ==
          [i \in DOMAIN service.methods |-> [id |-> id, method |-> service.methods[i]]]
    IN  FlattenSeq([i \in DOMAIN services |-> MethodsOf(services[i][1], services[i][2])])

SimpleName(plan) == Camel[RequestName(plan.method)]

\* Names that several methods share are prefixed by their service.
BaseName(plan, plans) ==
    LET name == RequestName(plan.method)
        alone == Len(SelectSeq(plans, LAMBDA other : SimpleName(other) = SimpleName(plan))) = 1
        base == IF alone THEN SimpleName(plan) ELSE Camel[plan.id] \o Pascal[name]
    IN  IF base \in {"constructor", "bridge"} THEN "invoke" \o Pascal[base] ELSE base

UniqueIdentifier(base, used) ==
    IF base \notin used THEN base
    ELSE base \o ToString(CHOOSE n \in 2..(Cardinality(used) + 2) :
                            /\ base \o ToString(n) \notin used
                            /\ \A k \in 2..(n - 1) : base \o ToString(k) \in used)

\* Names given one after the other; used holds those that are taken.
NamedFrom(bases, used) ==
    FoldLeft(LAMBDA names, base :
               Append(names, UniqueIdentifier(base, used \cup ToSet(names))),
             <<>>, bases)

ClientMethods(services) ==
    LET plans == Planned(services)
    IN  NamedFrom([i \in DOMAIN plans |-> BaseName(plans[i], plans)], {})

StatusMethods(services) ==
    LET methods == ClientMethods(services)
    IN  NamedFrom([i \in DOMAIN methods |-> "get" \o Pascal[methods[i]] \o "Status"], ToSet(methods))

TypeNames(services) ==
    LET methods == ClientMethods(services)
    IN  [i \in DOMAIN methods |-> Pascal[methods[i]] \o "Data"]

\* What client method i calls.
ClientRoute(services, i) ==
    LET plan == Planned(services)[i] IN <<plan.id, RequestName(plan.method)>>
=============================================================================
