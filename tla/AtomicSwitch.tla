---------------------------- MODULE AtomicSwitch ----------------------------
(***************************************************************************)
(* What a change of the installed components promises (docs/project-       *)
(* bundles.md: components and configuration are switched as one): what a   *)
(* restart finds changes in one step from everything before to everything  *)
(* that was requested, or not at all.                                      *)
(***************************************************************************)
CONSTANTS Component, Version, Config, None

VARIABLES
  view,     \* [components, config]: what a restart finds
  wanted,   \* the configurations that may show: the one asked for last, and an
            \* earlier one in its place
  request,  \* the change under way: {[goal, config]}, or {}
  broken    \* a failure that is not undone has happened

vars == <<view, wanted, request, broken>>

Init ==
  /\ view \in [components : [Component -> Version \cup {None}], config : Config]
  /\ wanted = {view.config}
  /\ request = {}
  /\ broken = FALSE

\* A change of some components, with a configuration or (None) without.
Ask(goal, config) ==
  /\ request = {}
  /\ request' = {[goal |-> goal, config |-> config]}
  /\ UNCHANGED <<view, wanted>>

Switch ==
  /\ \E r \in request :
       /\ view' = [components |-> [c \in Component |->
                      IF c \in DOMAIN r.goal THEN r.goal[c] ELSE view.components[c]],
                   config |-> IF r.config = None THEN view.config ELSE r.config]
       /\ wanted' = IF r.config = None THEN wanted ELSE {r.config}
  /\ UNCHANGED request

\* The user saves a configuration, which may show only later.
Save(config) ==
  /\ view' \in {view, [view EXCEPT !.config = config]}
  /\ wanted' = {config, view'.config}
  /\ UNCHANGED request

\* It shows, or the earlier one again.
Shows == \E config \in wanted : view' = [view EXCEPT !.config = config]

Show == Shows /\ UNCHANGED <<wanted, request>>

\* The change is over or was interrupted.
End ==
  /\ request' = {}
  /\ UNCHANGED view \/ Shows
  /\ UNCHANGED wanted

\* The configuration of a change may stay although the change is taken back.
Keep ==
  /\ \E r \in request : wanted' = wanted \cup {r.config}
  /\ UNCHANGED <<view, request>>

\* A failure that cannot be undone; nothing is promised from here on.
Break == broken' = TRUE

Change ==
  \/ \E S \in SUBSET Component : \E goal \in [S -> Version \cup {None}] :
       \E config \in Config \cup {None} : Ask(goal, config)
  \/ Switch \/ End \/ Keep \/ Show
  \/ \E config \in Config : Save(config)

Next == Break \/ (Change /\ UNCHANGED broken)

Spec == Init /\ [][Next]_vars

=============================================================================
