----------------------- MODULE CapabilityBaseline_proofs -----------------------
(***************************************************************************)
(* Proofs about the capability baseline, for any number of identities,     *)
(* commands, changes from outside, failures and crashes: nothing runs that *)
(* nobody confirmed, no accepted contract is lost, between commands one    *)
(* accepted set is served, and commands answer what the next start serves. *)
(*                                                                         *)
(* The lemmas on maps, contents and entries come first, then what each     *)
(* action does, then, for each part of IInv, the lemmas that show a step   *)
(* keeps it.  The parts build on each other in this order: the shape of a  *)
(* command (Basis), the directories, what was approved, the contracts,     *)
(* what a start decides, what the accepted entries serve, the routes, the  *)
(* answers.                                                                *)
(***************************************************************************)
EXTENDS CapabilityBaseline, TLAPS, SequenceTheorems


(***************************************************************************)
(* Maps.                                                                   *)
(***************************************************************************)

\* A partial map is a function from a part of the set.
LEMMA PartialIs ==
  ASSUME NEW S, NEW T, NEW f \in Partial(S, T)
  PROVE  /\ DOMAIN f \subseteq S /\ f \in [DOMAIN f -> T]
         /\ f = [x \in DOMAIN f |-> f[x]]
         /\ \A x \in DOMAIN f : f[x] \in T
<1>1. PICK D \in SUBSET S : f \in [D -> T]
  BY DEF Partial
<1> QED BY <1>1

\* And every such function is one.
LEMMA PartialFrom ==
  ASSUME NEW S, NEW T, NEW D \in SUBSET S, NEW f \in [D -> T]
  PROVE  f \in Partial(S, T)
BY DEF Partial

LEMMA EmptyMap ==
  ASSUME NEW S, NEW T
  PROVE  <<>> \in Partial(S, T) /\ DOMAIN <<>> = {}
<1>1. [x \in {} |-> x] \in [{} -> T] /\ {} \in SUBSET S
  OBVIOUS
<1>2. <<>> = [x \in {} |-> x]
  OBVIOUS
<1>3. [x \in {} |-> x] \in Partial(S, T)
  BY <1>1, PartialFrom
<1> QED BY <1>2, <1>3

\* Partial maps are equal when they have the same values at the same places.
LEMMA SameMap ==
  ASSUME NEW S, NEW T, NEW U, NEW f \in Partial(S, T), NEW g \in Partial(S, U),
         DOMAIN f = DOMAIN g, \A x \in DOMAIN f : f[x] = g[x]
  PROVE  f = g
<1>1. f = [x \in DOMAIN f |-> f[x]] /\ g = [x \in DOMAIN g |-> g[x]]
  BY PartialIs
<1> QED BY <1>1

LEMMA WiderMap ==
  ASSUME NEW S, NEW T, NEW U, T \subseteq U, NEW f \in Partial(S, T)
  PROVE  f \in Partial(S, U)
<1>1. DOMAIN f \in SUBSET S /\ f \in [DOMAIN f -> U]
  BY PartialIs
<1> QED BY <1>1, PartialFrom

LEMMA WithIs ==
  ASSUME NEW f, NEW g
  PROVE  /\ DOMAIN With(f, g) = DOMAIN f \cup DOMAIN g
         /\ \A p \in DOMAIN g : With(f, g)[p] = g[p]
         /\ \A p \in DOMAIN f \ DOMAIN g : With(f, g)[p] = f[p]
BY DEF With

LEMMA WithPartial ==
  ASSUME NEW S, NEW T, NEW f \in Partial(S, T), NEW g \in Partial(S, T)
  PROVE  With(f, g) \in Partial(S, T)
<1>1. DOMAIN f \subseteq S /\ DOMAIN g \subseteq S
      /\ (\A p \in DOMAIN f : f[p] \in T) /\ (\A p \in DOMAIN g : g[p] \in T)
  BY PartialIs
<1>2. With(f, g) \in [DOMAIN f \cup DOMAIN g -> T]
  BY <1>1 DEF With
<1> QED BY <1>1, <1>2, PartialFrom

\* Some directories replaced in a full map.
LEMMA WithFull ==
  ASSUME NEW S, NEW T, NEW f \in [S -> T], NEW g \in Partial(S, T)
  PROVE  With(f, g) \in [S -> T]
<1>1. DOMAIN g \subseteq S /\ \A p \in DOMAIN g : g[p] \in T
  BY PartialIs
<1> QED BY <1>1 DEF With

LEMMA WithoutIs ==
  ASSUME NEW f, NEW S
  PROVE  /\ DOMAIN Without(f, S) = DOMAIN f \ S
         /\ \A p \in DOMAIN f \ S : Without(f, S)[p] = f[p]
BY DEF Without

LEMMA WithoutPartial ==
  ASSUME NEW S, NEW T, NEW f \in Partial(S, T), NEW G
  PROVE  Without(f, G) \in Partial(S, T)
<1>1. DOMAIN f \subseteq S /\ \A p \in DOMAIN f : f[p] \in T
  BY PartialIs
<1>2. Without(f, G) \in [DOMAIN f \ G -> T]
  BY <1>1 DEF Without
<1> QED BY <1>1, <1>2, PartialFrom

(***************************************************************************)
(* Contents, routes and directories.                                       *)
(***************************************************************************)

LEMMA KnownIs ==
  /\ Content \subseteq Known /\ Mapping \subseteq Content /\ Signed \subseteq Content
  /\ None \notin Known /\ None \notin Content /\ None \notin Cases
  /\ \A c \in Known : /\ c.kind \in {"signed", "mapping"}
                      /\ c.kind = "signed" => c \in Signed /\ c.contract \in Nat /\ c.cases = None
                      /\ c.kind = "mapping" => c.contract \in Runtime /\ c.cases \in Cases \cup {None}
                      /\ c \in Mapping <=> c.kind = "mapping" /\ c.cases # None
  /\ \A c \in Content : c.kind = "mapping" => c \in Mapping
  /\ \A c \in Mapping : c.kind = "mapping" /\ c.cases \in Cases /\ c.contract \in Runtime
  /\ \A c \in Signed : c.kind = "signed" /\ c.contract \in Nat /\ c.cases = None
<1>1. None \notin Cases /\ None \notin Known
  BY NoneAssumption
<1>2. Api \subseteq Nat
  BY BaselineAssumption
<1>3. Content \subseteq Known /\ Mapping \subseteq Content /\ Signed \subseteq Content
  BY DEF Content, Known, Mapping, Signed
<1>4. \A c \in Signed : c.kind = "signed" /\ c.contract \in Nat /\ c.cases = None
  BY <1>2 DEF Signed
<1>5. \A c \in Mapping : c.kind = "mapping" /\ c.cases \in Cases /\ c.contract \in Runtime
  BY DEF Mapping
<1>6. \A c \in Content : c.kind = "mapping" => c \in Mapping
  BY <1>4 DEF Content
<1>7. ASSUME NEW c \in Known
      PROVE  /\ c.kind \in {"signed", "mapping"}
             /\ c.kind = "signed" => c \in Signed /\ c.contract \in Nat /\ c.cases = None
             /\ c.kind = "mapping" => c.contract \in Runtime /\ c.cases \in Cases \cup {None}
             /\ c \in Mapping <=> c.kind = "mapping" /\ c.cases # None
  <2>1. CASE c \in Signed
    BY <2>1, <1>4, <1>5
  <2>2. CASE c \in [kind : {"mapping"}, contract : Runtime, cases : Cases \cup {None}]
    <3>1. c.kind = "mapping" /\ c.contract \in Runtime /\ c.cases \in Cases \cup {None}
      BY <2>2
    <3>2. c.cases \in Cases => c \in Mapping
      BY <2>2, <3>1 DEF Mapping
    <3> QED BY <3>1, <3>2, <1>1, <1>5
  <2> QED BY <2>1, <2>2 DEF Known
<1> QED BY <1>1, <1>3, <1>4, <1>5, <1>6, <1>7

\* A content is its kind, its contract and its cases.
LEMMA SameContent ==
  ASSUME NEW c \in Known, NEW d \in Known, c.kind = d.kind, c.contract = d.contract,
         c.cases = d.cases
  PROVE  c = d
BY DEF Known, Signed

LEMMA RouteIs ==
  ASSUME NEW c \in Known
  PROVE  /\ Route(c) \in Known /\ Route(c).cases = None
         /\ Route(c).kind = c.kind /\ Route(c).contract = c.contract
<1>1. CASE c \in Signed
  BY <1>1 DEF Route, Known, Signed
<1>2. CASE c \in [kind : {"mapping"}, contract : Runtime, cases : Cases \cup {None}]
  BY <1>2 DEF Route, Known
<1> QED BY <1>1, <1>2 DEF Known

LEMMA SameRoute ==
  ASSUME NEW c \in Known, NEW d \in Known
  PROVE  Route(c) = Route(d) <=> c.kind = d.kind /\ c.contract = d.contract
BY RouteIs, SameContent

\* Other debug cases make the same route.
LEMMA OtherCases ==
  ASSUME NEW c \in Known, c.kind = "mapping", NEW k \in Cases
  PROVE  /\ [c EXCEPT !.cases = k] \in Mapping /\ [c EXCEPT !.cases = k].cases = k
         /\ [c EXCEPT !.cases = k].contract = c.contract
         /\ Route([c EXCEPT !.cases = k]) = Route(c)
<1>1. c \in [kind : {"mapping"}, contract : Runtime, cases : Cases \cup {None}]
  BY DEF Known, Signed
<1>2. /\ [c EXCEPT !.cases = k] \in Mapping /\ [c EXCEPT !.cases = k].cases = k
      /\ [c EXCEPT !.cases = k].contract = c.contract
  BY <1>1 DEF Mapping
<1>3. [c EXCEPT !.cases = k] \in Known /\ [c EXCEPT !.cases = k].kind = "mapping"
  BY <1>2, KnownIs
<1> QED BY <1>2, <1>3, SameRoute

LEMMA RoutesIs ==
  ASSUME NEW m \in Partial(Plugin, Known)
  PROVE  /\ DOMAIN Routes(m) = DOMAIN m
         /\ \A p \in DOMAIN m : Routes(m)[p] = Route(m[p])
         /\ Routes(m) \in RouteMaps
<1>1. DOMAIN m \in SUBSET Plugin /\ \A p \in DOMAIN m : m[p] \in Known
  BY PartialIs
<1>2. \A p \in DOMAIN m : Route(m[p]) \in {c \in Known : c.cases = None}
  BY <1>1, RouteIs
<1>3. Routes(m) \in [DOMAIN m -> {c \in Known : c.cases = None}]
  BY <1>2 DEF Routes
<1>4. Routes(m) \in RouteMaps
  BY <1>1, <1>3, PartialFrom DEF RouteMaps
<1> QED BY <1>4 DEF Routes

LEMMA RouteMapIs ==
  ASSUME NEW r \in RouteMaps
  PROVE  /\ r \in Partial(Plugin, Known) /\ DOMAIN r \subseteq Plugin
         /\ \A p \in DOMAIN r : r[p] \in Known /\ r[p].cases = None
<1>1. r \in Partial(Plugin, Known)
  BY WiderMap DEF RouteMaps
<1>2. \A p \in DOMAIN r : r[p] \in {c \in Known : c.cases = None}
  BY PartialIs DEF RouteMaps
<1> QED BY <1>1, <1>2, PartialIs

LEMMA PresentIs ==
  ASSUME NEW d \in [Plugin -> Content \cup {None}]
  PROVE  /\ Present(d) \in Partial(Plugin, Content)
         /\ DOMAIN Present(d) = {p \in Plugin : d[p] # None}
         /\ \A p \in DOMAIN Present(d) : Present(d)[p] = d[p] /\ d[p] \in Content
<1>1. /\ DOMAIN Present(d) = {p \in Plugin : d[p] # None}
      /\ \A p \in DOMAIN Present(d) : Present(d)[p] = d[p] /\ d[p] \in Content
      /\ Present(d) \in [{p \in Plugin : d[p] # None} -> Content]
  BY DEF Present
<1>2. {p \in Plugin : d[p] # None} \in SUBSET Plugin
  OBVIOUS
<1> QED BY <1>1, <1>2, PartialFrom

LEMMA ContentsKnown ==
  ASSUME NEW m \in Partial(Plugin, Content)
  PROVE  m \in Partial(Plugin, Known)
BY KnownIs, WiderMap

LEMMA EntryIs ==
  ASSUME NEW e \in Entries
  PROVE  /\ DOMAIN e \subseteq Plugin
         /\ e = [p \in DOMAIN e |-> e[p]]
         /\ \A p \in DOMAIN e : /\ e[p].content \in Known /\ e[p].installed \in BOOLEAN
                                /\ e[p] \in [content : Known, installed : BOOLEAN]
<1>1. /\ DOMAIN e \subseteq Plugin /\ e = [p \in DOMAIN e |-> e[p]]
      /\ \A p \in DOMAIN e : e[p] \in [content : Known, installed : BOOLEAN]
  <2> DEFINE T == [content : Known, installed : BOOLEAN]
  <2>1. e \in Partial(Plugin, T)
    BY DEF Entries
  <2> HIDE DEF T
  <2>2. DOMAIN e \subseteq Plugin /\ e = [p \in DOMAIN e |-> e[p]] /\ \A p \in DOMAIN e : e[p] \in T
    BY <2>1, PartialIs
  <2> QED BY <2>2 DEF T
<1> QED BY <1>1

LEMMA EntriesFrom ==
  ASSUME NEW D \in SUBSET Plugin, NEW e \in [D -> [content : Known, installed : BOOLEAN]]
  PROVE  e \in Entries
BY PartialFrom DEF Entries

LEMMA DocumentIs ==
  ASSUME NEW e \in Entries
  PROVE  /\ Document(4, e) \in Documents /\ Document(4, e) # None
         /\ Document(4, e).schema = 4 /\ Document(4, e).plugins = e
<1>1. Document(4, e) \in Documents
  BY DEF Document, Documents
<1> QED BY <1>1, NoneAssumption DEF Document

(***************************************************************************)
(* What of the candidates is accepted.                                     *)
(***************************************************************************)

\* The capabilities of schema 4 are the whole content.
LEMMA SameCapabilityIs ==
  ASSUME NEW a \in Known, NEW b \in Known
  PROVE  SameCapability(a, b, 4) <=> a = b
BY SameContent DEF SameCapability

LEMMA CompatibleIs ==
  ASSUME NEW a \in Known, NEW b \in Known, NEW c \in Known,
         a.kind = "signed", b.kind = "signed", c.kind = "signed"
  PROVE  /\ Compatible(a, a)
         /\ Compatible(a, b) /\ Compatible(b, c) => Compatible(a, c)
         /\ a.contract = b.contract => Compatible(a, b)
<1>1. a.contract \in Nat /\ b.contract \in Nat /\ c.contract \in Nat
  BY KnownIs
<1> QED BY <1>1 DEF Compatible

LEMMA MergedIs ==
  ASSUME NEW e \in Entries, NEW m \in Partial(Plugin, Known), NEW B
  PROVE  /\ Merged(e, m, B) \in Entries
         /\ \A p : p \in DOMAIN Merged(e, m, B) <=> p \in DOMAIN e \/ (p \in DOMAIN m /\ p \notin B)
         /\ \A p \in DOMAIN m \ B : Merged(e, m, B)[p].content = m[p] /\ Merged(e, m, B)[p].installed
         /\ \A p \in DOMAIN e \ (DOMAIN m \ B) :
              Merged(e, m, B)[p].content = e[p].content /\ ~Merged(e, m, B)[p].installed
<1> DEFINE old == [p \in DOMAIN e |-> Entry(e[p].content, FALSE)]
           new == [p \in DOMAIN m \ B |-> Entry(m[p], TRUE)]
<1>1. DOMAIN e \subseteq Plugin /\ \A p \in DOMAIN e : e[p].content \in Known
  BY EntryIs
<1>2. DOMAIN m \subseteq Plugin /\ \A p \in DOMAIN m : m[p] \in Known
  BY PartialIs
<1>3. old \in [DOMAIN e -> [content : Known, installed : BOOLEAN]]
  BY <1>1 DEF Entry
<1>4. new \in [DOMAIN m \ B -> [content : Known, installed : BOOLEAN]]
  BY <1>2 DEF Entry
<1>5. old \in Entries /\ new \in Entries
  BY <1>1, <1>2, <1>3, <1>4, EntriesFrom
<1>6. Merged(e, m, B) = With(old, new)
  BY DEF Merged
<1>7. With(old, new) \in Entries
  BY <1>5, WithPartial DEF Entries
<1>8. /\ DOMAIN With(old, new) = DOMAIN e \cup (DOMAIN m \ B)
      /\ \A p \in DOMAIN m \ B : With(old, new)[p] = Entry(m[p], TRUE)
      /\ \A p \in DOMAIN e \ (DOMAIN m \ B) : With(old, new)[p] = Entry(e[p].content, FALSE)
  <2>1. DOMAIN old = DOMAIN e /\ \A p \in DOMAIN e : old[p] = Entry(e[p].content, FALSE)
    OBVIOUS
  <2>2. DOMAIN new = DOMAIN m \ B /\ \A p \in DOMAIN m \ B : new[p] = Entry(m[p], TRUE)
    OBVIOUS
  <2> HIDE DEF old, new
  <2>3. /\ DOMAIN With(old, new) = DOMAIN old \cup DOMAIN new
        /\ \A p \in DOMAIN new : With(old, new)[p] = new[p]
        /\ \A p \in DOMAIN old \ DOMAIN new : With(old, new)[p] = old[p]
    BY WithIs
  <2> QED BY <2>1, <2>2, <2>3
<1> HIDE DEF old, new
<1>9. \A c \in Known, i \in BOOLEAN : Entry(c, i).content = c /\ Entry(c, i).installed = i
  BY DEF Entry
<1>10. With(old, new) \in Entries /\ Merged(e, m, B) = With(old, new)
  BY <1>6, <1>7
<1>11. \A p \in DOMAIN m \ B : /\ With(old, new)[p] = Entry(m[p], TRUE)
                                /\ With(old, new)[p].content = m[p] /\ With(old, new)[p].installed
  BY <1>2, <1>8, <1>9
<1>12. \A p \in DOMAIN e \ (DOMAIN m \ B) :
         With(old, new)[p].content = e[p].content /\ ~With(old, new)[p].installed
  BY <1>1, <1>8, <1>9
<1> QED BY <1>8, <1>10, <1>11, <1>12

LEMMA BlockedIs ==
  ASSUME NEW e \in Entries, NEW m \in Partial(Plugin, Known), NEW p
  PROVE  /\ p \in Breaking(e, m) <=>
              /\ p \in DOMAIN m /\ p \in DOMAIN e /\ m[p].kind = "signed"
              /\ e[p].content.kind = "signed" => ~Compatible(e[p].content, m[p])
         /\ p \in Changed(e, m) <=>
              /\ p \in DOMAIN m /\ m[p].kind = "mapping"
              /\ p \in DOMAIN e => e[p].content # m[p]
<1>1. p \in DOMAIN m => m[p] \in Known
  BY PartialIs
<1>2. p \in DOMAIN e => e[p].content \in Known
  BY EntryIs
<1>3. p \in DOMAIN m /\ p \in DOMAIN e => (SameCapability(e[p].content, m[p], 4) <=> e[p].content = m[p])
  BY <1>1, <1>2, SameCapabilityIs
<1> QED BY <1>3 DEF Breaking, Changed

LEMMA MatchesIs ==
  ASSUME NEW e \in Entries, NEW m \in Partial(Plugin, Known)
  PROVE  Matches(Document(4, e), m) <=>
           /\ DOMAIN m = {p \in DOMAIN e : e[p].installed}
           /\ \A p \in DOMAIN m : e[p].content = m[p]
<1>1. DOMAIN m \subseteq Plugin /\ \A p \in DOMAIN m : m[p] \in Known
  BY PartialIs
<1>2. \A p \in DOMAIN e : e[p].content \in Known
  BY EntryIs
<1>3. \A p \in DOMAIN m \cap DOMAIN e : SameCapability(e[p].content, m[p], 4) <=> e[p].content = m[p]
  BY <1>1, <1>2, SameCapabilityIs
<1>4. {p \in DOMAIN m : 4 >= 3 \/ m[p].kind = "signed"} = DOMAIN m
  OBVIOUS
<1>5. Matches(Document(4, e), m) <=>
        /\ DOMAIN m = {p \in DOMAIN e : e[p].installed}
        /\ \A p \in DOMAIN m : SameCapability(e[p].content, m[p], 4)
  BY <1>4 DEF Matches, Document
<1> QED BY <1>3, <1>5


(***************************************************************************)
(* What is inspected, adopted, recorded and served next.                   *)
(***************************************************************************)

\* Inspected, for any entries, accepted mappings and directories.
Shown(e, a, d) == Without(Present(d), Breaking(e, Present(d)) \cup Changed(a, Present(d)))

LEMMA InspectedIsShown == Inspected = Shown(entries, AcceptedMappings, disk)
BY DEF Inspected, Shown

LEMMA ShownIs ==
  ASSUME NEW e \in Entries, NEW a \in Entries, NEW d \in [Plugin -> Content \cup {None}]
  PROVE  /\ Shown(e, a, d) \in Partial(Plugin, Content)
         /\ \A p \in DOMAIN Shown(e, a, d) :
              p \in Plugin /\ Shown(e, a, d)[p] = d[p] /\ d[p] \in Content
         /\ \A p : p \in DOMAIN Shown(e, a, d) <=>
              /\ p \in Plugin /\ d[p] # None
              /\ d[p].kind = "signed" /\ p \in DOMAIN e =>
                   e[p].content.kind = "signed" /\ Compatible(e[p].content, d[p])
              /\ d[p].kind = "mapping" => p \in DOMAIN a /\ a[p].content = d[p]
<1> DEFINE m == Present(d)
           B == Breaking(e, m) \cup Changed(a, m)
<1>1. /\ m \in Partial(Plugin, Content) /\ m \in Partial(Plugin, Known)
      /\ DOMAIN m = {p \in Plugin : d[p] # None}
      /\ \A p \in DOMAIN m : m[p] = d[p] /\ d[p] \in Content
  BY PresentIs, ContentsKnown
<1>2. Shown(e, a, d) = Without(m, B)
  BY DEF Shown
<1> HIDE DEF m
<1>3. \A p : /\ p \in Breaking(e, m) <=>
                  /\ p \in DOMAIN m /\ p \in DOMAIN e /\ m[p].kind = "signed"
                  /\ e[p].content.kind = "signed" => ~Compatible(e[p].content, m[p])
             /\ p \in Changed(a, m) <=>
                  /\ p \in DOMAIN m /\ m[p].kind = "mapping"
                  /\ p \in DOMAIN a => a[p].content # m[p]
  BY <1>1, BlockedIs
<1>4. \A p : p \in B <=> p \in Breaking(e, m) \/ p \in Changed(a, m)
  OBVIOUS
<1> HIDE DEF B
<1>5. /\ Without(m, B) \in Partial(Plugin, Content)
      /\ DOMAIN Without(m, B) = DOMAIN m \ B
      /\ \A p \in DOMAIN m \ B : Without(m, B)[p] = m[p]
  BY <1>1, WithoutIs, WithoutPartial
<1>6. \A p \in DOMAIN m : m[p].kind \in {"signed", "mapping"}
  BY <1>1, KnownIs
<1>7. ASSUME NEW p
      PROVE  p \in DOMAIN Without(m, B) <=>
              /\ p \in Plugin /\ d[p] # None
              /\ d[p].kind = "signed" /\ p \in DOMAIN e =>
                   e[p].content.kind = "signed" /\ Compatible(e[p].content, d[p])
              /\ d[p].kind = "mapping" => p \in DOMAIN a /\ a[p].content = d[p]
  <2>1. p \in DOMAIN m <=> p \in Plugin /\ d[p] # None
    BY <1>1
  <2>2. CASE p \in DOMAIN m
    <3>1. m[p] = d[p] /\ d[p].kind \in {"signed", "mapping"}
      BY <1>1, <1>6, <2>2
    <3>2. p \in B <=> \/ /\ p \in DOMAIN e /\ d[p].kind = "signed"
                         /\ e[p].content.kind = "signed" => ~Compatible(e[p].content, d[p])
                      \/ /\ d[p].kind = "mapping"
                         /\ p \in DOMAIN a => a[p].content # d[p]
      BY <1>3, <1>4, <2>2, <3>1
    <3> QED BY <1>5, <2>1, <2>2, <3>1, <3>2
  <2> QED BY <2>1, <2>2, <1>5
<1> QED BY <1>1, <1>2, <1>5, <1>7

LEMMA AdoptedIs ==
  ASSUME NEW b \in Documents, NEW m \in Partial(Plugin, Content)
  PROVE  /\ Adopted(b, m) \in Entries
         /\ DOMAIN b.plugins \subseteq DOMAIN Adopted(b, m)
         /\ b.schema = 4 => Adopted(b, m) = b.plugins
         /\ \A p \in DOMAIN Adopted(b, m) :
              LET c == Adopted(b, m)[p].content IN
              \/ p \in DOMAIN b.plugins /\ c = b.plugins[p].content
              \/ /\ b.schema < 4 /\ p \in DOMAIN m /\ m[p].kind = "mapping" /\ c = m[p]
                 /\ p \in DOMAIN b.plugins => b.plugins[p].content.kind = "mapping"
<1> DEFINE T == [content : Known, installed : BOOLEAN]
           ms == {p \in DOMAIN m : m[p].kind = "mapping"}
           new == [p \in ms |-> Entry(m[p], TRUE)]
           accepts(p) == /\ b.plugins[p].installed /\ p \in ms
                         /\ SameCapability(b.plugins[p].content, m[p], 3)
           one(p) == IF accepts(p) THEN Entry([b.plugins[p].content EXCEPT !.cases = m[p].cases], TRUE)
                     ELSE b.plugins[p]
<1>1. b.schema \in 2..4 /\ b.plugins \in Entries
  BY DEF Documents
<1>2. /\ DOMAIN b.plugins \subseteq Plugin
      /\ \A p \in DOMAIN b.plugins : b.plugins[p] \in T /\ b.plugins[p].content \in Known
  BY <1>1, EntryIs
<1>3. DOMAIN m \subseteq Plugin /\ \A p \in DOMAIN m : m[p] \in Content /\ m[p] \in Known
  BY PartialIs, KnownIs
<1>4. \A c \in Known, i \in BOOLEAN : Entry(c, i) \in T /\ Entry(c, i).content = c
  BY DEF Entry
<1>5. CASE b.schema < 3
  <2>1. Adopted(b, m) = With(new, b.plugins)
    BY <1>5 DEF Adopted
  <2>2. DOMAIN new = ms /\ \A p \in ms : new[p] = Entry(m[p], TRUE) /\ new[p] \in T /\ new[p].content = m[p]
    BY <1>3, <1>4
  <2>3. ms \in SUBSET Plugin /\ new \in [ms -> T]
    BY <1>3, <1>4
  <2> HIDE DEF new, T
  <2>4. new \in Entries
    BY <2>3, EntriesFrom DEF T
  <2>5. With(new, b.plugins) \in Entries
    BY <1>1, <2>4, WithPartial DEF Entries
  <2>6. /\ DOMAIN With(new, b.plugins) = DOMAIN new \cup DOMAIN b.plugins
        /\ \A p \in DOMAIN b.plugins : With(new, b.plugins)[p] = b.plugins[p]
        /\ \A p \in DOMAIN new \ DOMAIN b.plugins : With(new, b.plugins)[p] = new[p]
    BY WithIs
  <2>7. \A p \in DOMAIN With(new, b.plugins) \ DOMAIN b.plugins :
          p \in DOMAIN m /\ m[p].kind = "mapping" /\ With(new, b.plugins)[p].content = m[p]
    BY <2>2, <2>6
  <2>8. DOMAIN b.plugins \subseteq DOMAIN With(new, b.plugins) /\ b.schema < 4 /\ b.schema # 4
    BY <1>1, <1>5, <2>6
  <2> QED BY <2>1, <2>5, <2>6, <2>7, <2>8
<1>6. CASE b.schema = 3
  <2>1. Adopted(b, m) = [p \in DOMAIN b.plugins |-> one(p)]
    BY <1>6 DEF Adopted
  <2>2. ASSUME NEW p \in DOMAIN b.plugins
        PROVE  /\ one(p) \in T
               /\ \/ one(p).content = b.plugins[p].content
                  \/ /\ p \in DOMAIN m /\ m[p].kind = "mapping" /\ one(p).content = m[p]
                     /\ b.plugins[p].content.kind = "mapping"
    <3>1. CASE accepts(p)
      <4>1. /\ b.plugins[p].content \in Known /\ b.plugins[p].content.kind = "mapping"
            /\ p \in DOMAIN m /\ m[p].kind = "mapping" /\ m[p] \in Mapping
            /\ b.plugins[p].content.contract = m[p].contract
        BY <1>2, <1>3, <3>1, KnownIs DEF SameCapability
      <4>2. m[p].cases \in Cases /\ m[p].kind = "mapping" /\ m[p] \in Known
        BY <1>3, <4>1, KnownIs
      <4> DEFINE c == [b.plugins[p].content EXCEPT !.cases = m[p].cases]
      <4>3. /\ c \in Mapping /\ c.cases = m[p].cases /\ c.contract = m[p].contract
        BY <4>1, <4>2, OtherCases
      <4>4. one(p) = Entry(c, TRUE)
        BY <3>1
      <4> HIDE DEF c, one
      <4>5. c \in Known /\ c.kind = "mapping"
        BY <4>3, KnownIs
      <4>6. c = m[p]
        BY <4>2, <4>3, <4>5, SameContent
      <4> QED BY <1>4, <4>1, <4>2, <4>4, <4>6
    <3>2. CASE ~accepts(p)
      BY <3>2, <1>2
    <3> QED BY <3>1, <3>2
  <2> HIDE DEF one, T
  <2>3. Adopted(b, m) \in [DOMAIN b.plugins -> T]
    BY <2>1, <2>2
  <2>4. Adopted(b, m) \in Entries
    BY <1>2, <2>3, EntriesFrom DEF T
  <2> QED BY <1>6, <2>1, <2>2, <2>4
<1>7. CASE b.schema = 4
  <2>1. Adopted(b, m) = b.plugins
    BY <1>7 DEF Adopted
  <2> QED BY <1>1, <1>7, <2>1
<1> QED BY <1>1, <1>5, <1>6, <1>7

LEMMA ServedWithout ==
  ASSUME NEW m \in Partial(Plugin, Content), NEW B
  PROVE  /\ Without(m, B) \in Partial(Plugin, Known) /\ Without(m, B) \in Partial(Plugin, Content)
         /\ Routes(Without(m, B)) \in RouteMaps
         /\ DOMAIN Routes(Without(m, B)) = DOMAIN m \ B
         /\ \A p \in DOMAIN m \ B : Routes(Without(m, B))[p] = Route(m[p])
<1>1. Without(m, B) \in Partial(Plugin, Content)
  BY WithoutPartial
<1>2. Without(m, B) \in Partial(Plugin, Known)
  BY <1>1, ContentsKnown
<1>3. DOMAIN Without(m, B) = DOMAIN m \ B /\ \A p \in DOMAIN m \ B : Without(m, B)[p] = m[p]
  BY WithoutIs
<1> QED BY <1>1, <1>2, <1>3, RoutesIs

(***************************************************************************)
(* Types, and where a command is.                                          *)
(***************************************************************************)

Basis == TypeOK /\ GoalFits /\ StepsFit /\ MemoryFits /\ TransactionFits

LEMMA TaskIs ==
  ASSUME NEW t \in Tasks
  PROVE  /\ t.kind \in {"none", "install", "uninstall", "save", "delete", "import", "reload", "cases"}
         /\ t.goal \in Directories /\ t.seen \in Directories /\ t.routes \in RouteMaps
         /\ t.candidates \in Partial(Plugin, Content) /\ t.todo \in Seq(Points)
         /\ t.prepared \in BOOLEAN /\ t.answer \in {"none", "ok", "failed"}
         /\ t.expect \in RouteMaps \cup {None}
         /\ DOMAIN t.goal \subseteq Plugin
         /\ \A p \in DOMAIN t.goal : t.goal[p] \in Content \cup {None}
<1>1. t.goal \in Directories
  BY DEF Tasks
<1>2. DOMAIN t.goal \subseteq Plugin /\ \A p \in DOMAIN t.goal : t.goal[p] \in Content \cup {None}
  BY <1>1, PartialIs DEF Directories
<1> QED BY <1>2 DEF Tasks

LEMMA NoTaskIs ==
  /\ NoTask \in Tasks /\ NoTask.kind = "none" /\ NoTask.prepared = FALSE /\ NoTask.goal = <<>>
  /\ NoTask.candidates = <<>> /\ NoTask.routes = <<>> /\ NoTask.answer = "none" /\ NoTask.todo = <<>>
<1>1. <<>> \in Directories /\ <<>> \in RouteMaps /\ <<>> \in Partial(Plugin, Content) /\ <<>> \in Seq(Points)
  BY EmptyMap DEF Directories, RouteMaps
<1> QED BY <1>1 DEF NoTask, Tasks

LEMMA FullMap ==
  ASSUME NEW d \in [Plugin -> Content \cup {None}]
  PROVE  d \in Directories
BY PartialFrom DEF Directories

LEMMA TypesAre ==
  ASSUME TypeOK
  PROVE  /\ AcceptedMappings \in Entries
         /\ Inspected \in Partial(Plugin, Content) /\ Inspected = Shown(entries, AcceptedMappings, disk)
         /\ Restored \in [Plugin -> Content \cup {None}]
         /\ Present(disk) \in Partial(Plugin, Content)
         /\ Present(Restored) \in Partial(Plugin, Content)
         /\ task.goal \in Directories /\ task.candidates \in Partial(Plugin, Content)
         /\ task.candidates \in Partial(Plugin, Known)
         /\ DOMAIN task.goal \subseteq Plugin
         /\ With(disk, task.goal) \in [Plugin -> Content \cup {None}]
<1>1. AcceptedMappings \in Entries
  BY DEF TypeOK, AcceptedMappings
<1>2. Inspected = Shown(entries, AcceptedMappings, disk)
  BY InspectedIsShown
<1>3. Inspected \in Partial(Plugin, Content)
  BY <1>1, <1>2, ShownIs DEF TypeOK
<1>4. Restored \in [Plugin -> Content \cup {None}]
  <2>1. txn # None => txn \in Directories
    BY DEF TypeOK
  <2>2. txn # None => With(disk, txn) \in [Plugin -> Content \cup {None}]
    BY <2>1, WithFull DEF TypeOK, Directories
  <2> QED BY <2>2 DEF Restored, TypeOK
<1>5. task \in Tasks
  BY DEF TypeOK
<1>6. task.goal \in Directories /\ task.candidates \in Partial(Plugin, Content) /\ DOMAIN task.goal \subseteq Plugin
  BY <1>5, TaskIs
<1>7. With(disk, task.goal) \in [Plugin -> Content \cup {None}]
  BY <1>6, WithFull DEF TypeOK, Directories
<1>8. Present(disk) \in Partial(Plugin, Content) /\ Present(Restored) \in Partial(Plugin, Content)
  BY <1>4, PresentIs DEF TypeOK
<1> QED BY <1>1, <1>2, <1>3, <1>4, <1>6, <1>7, <1>8, ContentsKnown

\* The commands about one identity.
LEMMA TargetIs ==
  ASSUME TypeOK, GoalFits, task.kind \in {"install", "save", "cases", "uninstall", "delete"}
  PROVE  /\ Members = {Target} /\ Target \in Plugin /\ Wanted = task.goal[Target]
         /\ task.kind = "install" => Wanted \in Signed
         /\ task.kind \in {"save", "cases"} => Wanted \in Mapping
         /\ task.kind \in {"uninstall", "delete"} => Wanted = None
         /\ task.kind \in {"install", "save", "cases"} =>
              Wanted \in Content /\ task.goal \in Partial(Plugin, Content)
<1>1. PICK p \in Plugin, c \in Content \cup {None} :
        /\ task.goal = [q \in {p} |-> c]
        /\ task.kind = "install" => c \in Signed
        /\ task.kind \in {"save", "cases"} => c \in Mapping
        /\ task.kind \in {"uninstall", "delete"} => c = None
  <2>1. CASE task.kind = "install"
    <3>1. PICK p \in Plugin, c \in Signed : task.goal = [q \in {p} |-> c]
      BY <2>1 DEF GoalFits
    <3> QED BY <2>1, <3>1, KnownIs
  <2>2. CASE task.kind \in {"save", "cases"}
    <3>1. PICK p \in Plugin, c \in Mapping : task.goal = [q \in {p} |-> c]
      BY <2>2 DEF GoalFits
    <3> QED BY <2>2, <3>1, KnownIs
  <2>3. CASE task.kind \in {"uninstall", "delete"}
    <3>1. PICK p \in Plugin : task.goal = [q \in {p} |-> None]
      BY <2>3 DEF GoalFits
    <3> QED BY <2>3, <3>1
  <2> QED BY <2>1, <2>2, <2>3
<1>2. Members = {p}
  BY <1>1 DEF Members
<1>3. Target = p
  BY <1>2 DEF Target
<1>4. Wanted = c
  BY <1>1, <1>3 DEF Wanted
<1>5. c \in Content => task.goal \in Partial(Plugin, Content)
  <2>1. c \in Content => [q \in {p} |-> c] \in [{p} -> Content]
    OBVIOUS
  <2> QED BY <1>1, <2>1, PartialFrom
<1>6. Signed \subseteq Content /\ Mapping \subseteq Content
  BY KnownIs
<1> QED BY <1>1, <1>2, <1>3, <1>4, <1>5, <1>6 DEF Wanted

LEMMA StartTyped ==
  ASSUME TypeOK, NEW d \in [Plugin -> Content \cup {None}]
  PROVE  StartFrom(d) \in RouteMaps \cup {None}
<1> DEFINE m == Present(d)
           doc == IF PendingWins(m) THEN pending ELSE base
           a == Adopted(doc, m)
           signed == {q \in DOMAIN m : m[q].kind = "signed"}
<1>1. m \in Partial(Plugin, Content)
  BY PresentIs
<1>2. StartFrom(d) = IF Undecided(m) THEN None ELSE IF base = None
                     THEN Routes([p \in signed |-> m[p]])
                     ELSE Routes(Without(m, Breaking(a, m) \cup Changed(a, m)))
  BY DEF StartFrom
<1>3. Routes(Without(m, Breaking(a, m) \cup Changed(a, m))) \in RouteMaps
  BY <1>1, ServedWithout
<1>4. [p \in signed |-> m[p]] \in Partial(Plugin, Known)
  <2>1. DOMAIN m \subseteq Plugin /\ \A p \in DOMAIN m : m[p] \in Known
    BY <1>1, PartialIs, KnownIs
  <2>2. signed \in SUBSET Plugin /\ [p \in signed |-> m[p]] \in [signed -> Known]
    BY <2>1
  <2> HIDE DEF signed
  <2> QED BY <2>2, PartialFrom
<1>5. Routes([p \in signed |-> m[p]]) \in RouteMaps
  BY <1>4, RoutesIs
<1> QED BY <1>2, <1>3, <1>5

\* What the next baseline is made from.
LEMMA RecordedIs ==
  ASSUME TypeOK, Preparable
  PROVE  /\ Candidates \in Partial(Plugin, Content) /\ Recorded \in Partial(Plugin, Content)
         /\ Recorded \in Partial(Plugin, Known)
         /\ DOMAIN Recorded = DOMAIN Candidates
         /\ \A p \in DOMAIN Recorded :
              /\ Recorded[p].kind = Candidates[p].kind /\ Recorded[p].contract = Candidates[p].contract
              /\ Route(Recorded[p]) = Route(Candidates[p])
              /\ p \notin Definitions => Recorded[p] = Candidates[p]
              /\ p \in Definitions => disk[p] \in Mapping /\ Recorded[p].cases = disk[p].cases
<1>1. Candidates \in Partial(Plugin, Content)
  BY TypesAre DEF Candidates
<1>2. DOMAIN Candidates \subseteq Plugin /\ \A p \in DOMAIN Candidates : Candidates[p] \in Content /\ Candidates[p] \in Known
  BY <1>1, PartialIs, KnownIs
<1>3. /\ DOMAIN Recorded = DOMAIN Candidates
      /\ \A p \in DOMAIN Candidates : p \notin Definitions => Recorded[p] = Candidates[p]
      /\ \A p \in DOMAIN Candidates : p \in Definitions =>
           Recorded[p] = [Candidates[p] EXCEPT !.cases = disk[p].cases]
  BY DEF Recorded
<1>4. ASSUME NEW p \in Definitions
      PROVE  /\ p \in DOMAIN Candidates /\ Candidates[p].kind = "mapping"
             /\ disk[p] \in Mapping /\ disk[p].cases \in Cases
  <2>1. p \in DOMAIN Candidates /\ Candidates[p].kind = "mapping"
    BY DEF Definitions
  <2>2. p \in DOMAIN Present(disk) /\ Present(disk)[p].kind = "mapping"
    BY DEF Preparable, Is
  <2>3. disk[p] \in Content /\ disk[p].kind = "mapping"
    BY <2>2, PresentIs DEF TypeOK
  <2> QED BY <2>1, <2>3, KnownIs
<1>5. ASSUME NEW p \in Definitions
      PROVE  /\ Recorded[p] \in Mapping /\ Recorded[p].contract = Candidates[p].contract
             /\ Recorded[p].kind = "mapping" /\ Recorded[p].cases = disk[p].cases
             /\ Route(Recorded[p]) = Route(Candidates[p])
  <2> DEFINE c == Candidates[p]
             k == disk[p].cases
  <2>1. c \in Known /\ c.kind = "mapping" /\ k \in Cases
    BY <1>2, <1>4
  <2>2. Recorded[p] = [c EXCEPT !.cases = k]
    BY <1>3, <1>4
  <2> HIDE DEF c, k
  <2>3. /\ [c EXCEPT !.cases = k] \in Mapping /\ [c EXCEPT !.cases = k].cases = k
        /\ [c EXCEPT !.cases = k].contract = c.contract
        /\ Route([c EXCEPT !.cases = k]) = Route(c)
    BY <2>1, OtherCases
  <2>4. Recorded[p].kind = "mapping"
    BY <2>2, <2>3, KnownIs
  <2> QED BY <2>2, <2>3, <2>4 DEF c, k
<1>6. \A p \in DOMAIN Candidates : Recorded[p] \in Content
  BY <1>2, <1>3, <1>5, KnownIs
<1>7. Recorded \in [DOMAIN Candidates -> Content]
  BY <1>6 DEF Recorded
<1>8. Recorded \in Partial(Plugin, Content)
  BY <1>2, <1>7, PartialFrom
<1> QED BY <1>1, <1>3, <1>4, <1>5, <1>8, ContentsKnown

\* The entries of the next baseline.
LEMMA NextIs ==
  ASSUME TypeOK, NEW m \in Partial(Plugin, Known), NEW R
  PROVE  /\ NextEntries(m, R) \in Entries
         /\ \A p : p \in DOMAIN NextEntries(m, R) <=>
                     p \in DOMAIN m \/ (p \in DOMAIN entries /\ p \notin R)
         /\ \A p \in DOMAIN m : NextEntries(m, R)[p].content = m[p] /\ NextEntries(m, R)[p].installed
         /\ \A p \in DOMAIN NextEntries(m, R) \ DOMAIN m :
              /\ p \in DOMAIN entries /\ p \notin R
              /\ NextEntries(m, R)[p].content = entries[p].content /\ ~NextEntries(m, R)[p].installed
<1> DEFINE e == Without(entries, R \ DOMAIN m)
           B == {}
<1>1. e \in Entries
  BY WithoutPartial DEF TypeOK, Entries
<1>2. DOMAIN e = DOMAIN entries \ (R \ DOMAIN m) /\ \A p \in DOMAIN e : e[p] = entries[p]
  <2> DEFINE G == R \ DOMAIN m
  <2>1. DOMAIN Without(entries, G) = DOMAIN entries \ G
        /\ \A p \in DOMAIN entries \ G : Without(entries, G)[p] = entries[p]
    BY WithoutIs
  <2> QED BY <2>1
<1>3. NextEntries(m, R) = Merged(e, m, B)
  BY DEF NextEntries
<1>4. \A p : p \notin B
  OBVIOUS
<1> HIDE DEF e, B
<1>5. /\ Merged(e, m, B) \in Entries
      /\ \A p : p \in DOMAIN Merged(e, m, B) <=> p \in DOMAIN e \/ (p \in DOMAIN m /\ p \notin B)
      /\ \A p \in DOMAIN m \ B : Merged(e, m, B)[p].content = m[p] /\ Merged(e, m, B)[p].installed
      /\ \A p \in DOMAIN e \ (DOMAIN m \ B) :
           Merged(e, m, B)[p].content = e[p].content /\ ~Merged(e, m, B)[p].installed
  BY <1>1, MergedIs
<1>6. \A p : p \in DOMAIN e <=> p \in DOMAIN entries /\ (p \in DOMAIN m \/ p \notin R)
  BY <1>2
<1>7. \A p : p \in DOMAIN Merged(e, m, B) <=> p \in DOMAIN m \/ (p \in DOMAIN entries /\ p \notin R)
  BY <1>4, <1>5, <1>6
<1>8. \A p \in DOMAIN m : Merged(e, m, B)[p].content = m[p] /\ Merged(e, m, B)[p].installed
  BY <1>4, <1>5
<1>9. \A p \in DOMAIN Merged(e, m, B) \ DOMAIN m :
        /\ p \in DOMAIN entries /\ p \notin R
        /\ Merged(e, m, B)[p].content = entries[p].content /\ ~Merged(e, m, B)[p].installed
  BY <1>2, <1>4, <1>5, <1>7
<1> QED BY <1>3, <1>5, <1>7, <1>8, <1>9


\* How a plan begins.
Goals(kind, goal) ==
  \/ kind = "install" /\ \E p \in Plugin, c \in Signed : goal = [q \in {p} |-> c]
  \/ kind \in {"save", "cases"} /\ \E p \in Plugin, c \in Mapping : goal = [q \in {p} |-> c]
  \/ kind \in {"uninstall", "delete"} /\ \E p \in Plugin : goal = [q \in {p} |-> None]
  \/ kind = "import" /\ goal \in [Plugin -> Content]
  \/ kind = "reload" /\ goal = <<>>

LEMMA PlanIs ==
  ASSUME PlanNext
  PROVE  \E kind, goal : Plan(kind, goal) /\ Goals(kind, goal)
<1>1. ASSUME NEW p \in Plugin, NEW c \in Signed, InspectPackage(p, c)
      PROVE  \E kind, goal : Plan(kind, goal) /\ Goals(kind, goal)
  <2>1. Plan("install", [q \in {p} |-> c]) /\ Goals("install", [q \in {p} |-> c])
    BY <1>1 DEF InspectPackage, Goals
  <2> QED BY <2>1
<1>2. ASSUME NEW p \in Plugin, NEW c \in Mapping, InspectMapping(p, c) \/ EditCases(p, c)
      PROVE  \E kind, goal : Plan(kind, goal) /\ Goals(kind, goal)
  <2>1. Goals("save", [q \in {p} |-> c]) /\ Goals("cases", [q \in {p} |-> c])
    BY DEF Goals
  <2>2. Plan("save", [q \in {p} |-> c]) \/ Plan("cases", [q \in {p} |-> c])
    BY <1>2 DEF InspectMapping, EditCases
  <2> QED BY <2>1, <2>2
<1>3. ASSUME NEW p \in Plugin, InspectUninstall(p) \/ InspectMappingRemoval(p)
      PROVE  \E kind, goal : Plan(kind, goal) /\ Goals(kind, goal)
  <2>1. Goals("uninstall", [q \in {p} |-> None]) /\ Goals("delete", [q \in {p} |-> None])
    BY DEF Goals
  <2>2. Plan("uninstall", [q \in {p} |-> None]) \/ Plan("delete", [q \in {p} |-> None])
    BY <1>3 DEF InspectUninstall, InspectMappingRemoval
  <2> QED BY <2>1, <2>2
<1>4. ASSUME NEW goal \in [Plugin -> Content], InspectProject(goal)
      PROVE  \E kind, g : Plan(kind, g) /\ Goals(kind, g)
  <2>1. Plan("import", goal) /\ Goals("import", goal)
    BY <1>4 DEF InspectProject, Goals
  <2> QED BY <2>1
<1>5. ASSUME InspectReload
      PROVE  \E kind, goal : Plan(kind, goal) /\ Goals(kind, goal)
  <2>1. Plan("reload", <<>>) /\ Goals("reload", <<>>)
    BY <1>5 DEF InspectReload, Goals
  <2> QED BY <2>1
<1> QED BY <1>1, <1>2, <1>3, <1>4, <1>5 DEF PlanNext

LEMMA BoundsTyped ==
  ASSUME TypeOK, [Next]_vars
  PROVE  {tasks, faults, crashes, outside}' \subseteq Nat
<1> USE DEF TypeOK, vars, bounds, files, memory, history
<1>1. CASE Fault
  BY <1>1 DEF Fault
<1>2. CASE UNCHANGED bounds
  BY <1>2
<1>3. CASE StartupNext
  <2>1. CASE Startup BY <2>1, <1>2 DEF Startup
  <2>2. CASE OpenWithoutBaseline BY <2>2, <1>2 DEF OpenWithoutBaseline
  <2>3. CASE AdoptPending BY <2>3, <1>2 DEF AdoptPending
  <2>4. CASE Refuse BY <2>4, <1>2 DEF Refuse
  <2>5. CASE ForgetPending BY <2>5, <1>2 DEF ForgetPending
  <2>6. CASE Review BY <2>6, <1>2 DEF Review
  <2>7. CASE StartupFails BY <2>7, <1>1 DEF StartupFails
  <2> QED BY <1>3, <2>1, <2>2, <2>3, <2>4, <2>5, <2>6, <2>7 DEF StartupNext
<1>4. CASE PlanNext
  <2>1. PICK kind, goal : Plan(kind, goal)
    BY <1>4, PlanIs
  <2> QED BY <2>1 DEF Plan
<1>5. CASE CommandNext
  BY <1>5 DEF CommandNext, Check, Recover, Decline, Begin, Prepare, PrepareFails, Activate,
     ActivateFails, Switch, SwitchFails, Verify, Commit, CommitFails, Promote, Forget, PromoteFails,
     RollBack, RollBackFails, Abort, AbortFails, Fault
<1>6. CASE (\E p \in Plugin, c \in Content \cup {None} : ChangeOutside(p, c)) \/ LoseBaseline \/ Crash
  BY <1>6 DEF ChangeOutside, LoseBaseline, Crash
<1>7. CASE UNCHANGED vars
  BY <1>7
<1> QED BY <1>3, <1>4, <1>5, <1>6, <1>7 DEF Next

\* What a plan keeps.
LEMMA PlanKeeps ==
  ASSUME TypeOK, PlanNext
  PROVE  /\ pc = "idle" /\ pc' = "plan"
         /\ task' \in Tasks /\ task'.todo = <<>> /\ task'.prepared = FALSE /\ task'.candidates = <<>>
         /\ task'.seen = disk /\ task'.routes = served /\ task'.expect = NextStart
         /\ task'.answer = "none"
         /\ task'.kind # "none" /\ GoalFits'
         /\ blame' = IF pending = None THEN blame \cap {"raced"} ELSE blame
         /\ UNCHANGED <<files, memory, approved, retired, outside>>
<1>1. PICK kind, goal : Plan(kind, goal) /\ Goals(kind, goal)
  BY PlanIs
<1>2. goal \in Directories
  <2>1. ASSUME NEW p \in Plugin, NEW c \in Content \cup {None} PROVE [q \in {p} |-> c] \in Directories
    <3>1. [q \in {p} |-> c] \in [{p} -> Content \cup {None}] /\ {p} \in SUBSET Plugin
      OBVIOUS
    <3> QED BY <3>1, PartialFrom DEF Directories
  <2>2. goal \in [Plugin -> Content] => goal \in [Plugin -> Content \cup {None}]
    OBVIOUS
  <2>3. goal \in [Plugin -> Content] => goal \in Directories
    BY <2>2, FullMap
  <2>4. <<>> \in Directories
    BY EmptyMap DEF Directories
  <2>5. Signed \subseteq Content /\ Mapping \subseteq Content
    BY KnownIs
  <2>6. CASE kind = "install" /\ \E p \in Plugin, c \in Signed : goal = [q \in {p} |-> c]
    BY <2>1, <2>5, <2>6
  <2>7. CASE \E p \in Plugin, c \in Mapping : goal = [q \in {p} |-> c]
    BY <2>1, <2>5, <2>7
  <2>8. CASE \E p \in Plugin : goal = [q \in {p} |-> None]
    BY <2>1, <2>8
  <2> QED BY <1>1, <2>3, <2>4, <2>6, <2>7, <2>8 DEF Goals
<1>3. disk \in Directories /\ served \in RouteMaps /\ NextStart \in RouteMaps \cup {None}
  <2>1. Restored \in [Plugin -> Content \cup {None}]
    BY TypesAre
  <2>2. NextStart \in RouteMaps \cup {None}
    BY <2>1, StartTyped DEF NextStart
  <2> QED BY <2>2, FullMap DEF TypeOK
<1>4. /\ pc = "idle" /\ pc' = "plan"
      /\ task' = [NoTask EXCEPT !.kind = kind, !.goal = goal, !.seen = disk,
                                !.routes = served, !.expect = NextStart]
      /\ blame' = IF pending = None THEN blame \cap {"raced"} ELSE blame
      /\ UNCHANGED <<files, memory, approved, retired, outside>>
  BY <1>1 DEF Plan
<1>5. kind \in {"install", "uninstall", "save", "delete", "import", "reload", "cases"}
  BY <1>1 DEF Goals
<1>6. /\ task' \in Tasks /\ task'.todo = <<>> /\ task'.prepared = FALSE /\ task'.candidates = <<>>
      /\ task'.seen = disk /\ task'.routes = served /\ task'.expect = NextStart
      /\ task'.answer = "none" /\ task'.kind = kind /\ task'.goal = goal
  BY <1>2, <1>3, <1>4, <1>5, NoTaskIs DEF Tasks
<1>7. GoalFits'
  <2>1. ~Working'
    BY <1>4 DEF Working, Closed
  <2> QED BY <1>1, <1>6, <2>1 DEF GoalFits, Goals
<1> QED BY <1>4, <1>5, <1>6, <1>7

(***************************************************************************)
(* What the larger actions do.                                             *)
(***************************************************************************)

LEMMA OpenDoes ==
  ASSUME Basis, OpenWithoutBaseline
  PROVE  /\ entries' \in Entries /\ base' = Document(4, entries') /\ waiting' = None
         /\ served' \in RouteMaps
         /\ DOMAIN served' = DOMAIN entries'
         /\ DOMAIN entries' = {p \in DOMAIN task.candidates : task.candidates[p].kind = "signed"}
         /\ \A p \in DOMAIN entries' :
              /\ entries'[p].content = task.candidates[p] /\ entries'[p].installed
              /\ served'[p] = Route(task.candidates[p])
         /\ pc = "open" /\ pc' = "idle" /\ task' = NoTask /\ base = None /\ pending = None
         /\ UNCHANGED <<disk, txn, pending, outside, history>>
<1> DEFINE m == task.candidates
           signed == {p \in DOMAIN m : m[p].kind = "signed"}
<1>1. m \in Partial(Plugin, Content)
  BY TypesAre DEF Basis
<1>2. DOMAIN m \subseteq Plugin /\ \A p \in DOMAIN m : m[p] \in Content /\ m[p] \in Known
  BY <1>1, PartialIs, KnownIs
<1>3. /\ entries' = [p \in signed |-> Entry(m[p], TRUE)] /\ base' = Document(4, entries')
      /\ waiting' = None /\ served' = [p \in signed |-> Route(m[p])]
      /\ pc = "open" /\ pc' = "idle" /\ task' = NoTask /\ base = None /\ pending = None
      /\ UNCHANGED <<disk, txn, pending, outside, history>>
  BY DEF OpenWithoutBaseline, bounds
<1>4. \A p \in signed : /\ Entry(m[p], TRUE) \in [content : Known, installed : BOOLEAN]
                        /\ Entry(m[p], TRUE).content = m[p] /\ Entry(m[p], TRUE).installed
  BY <1>2 DEF Entry
<1>5. [p \in signed |-> Entry(m[p], TRUE)] \in Entries
  <2>1. [p \in signed |-> Entry(m[p], TRUE)] \in [signed -> [content : Known, installed : BOOLEAN]]
    BY <1>4
  <2>2. signed \in SUBSET Plugin
    BY <1>2
  <2> QED BY <2>1, <2>2, EntriesFrom
<1>6. [p \in signed |-> Route(m[p])] \in RouteMaps
  <2>1. \A p \in signed : Route(m[p]) \in {c \in Known : c.cases = None}
    BY <1>2, RouteIs
  <2>2. [p \in signed |-> Route(m[p])] \in [signed -> {c \in Known : c.cases = None}]
    BY <2>1
  <2>3. signed \in SUBSET Plugin
    BY <1>2
  <2> HIDE DEF signed
  <2> QED BY <2>2, <2>3, PartialFrom DEF RouteMaps
<1> QED BY <1>3, <1>4, <1>5, <1>6

ReviewBlocks == LET a == Adopted(base, task.candidates)
                IN Breaking(a, task.candidates) \cup Changed(a, task.candidates)

LEMMA ReviewDoes ==
  ASSUME Basis, Review
  PROVE  LET a == Adopted(base, task.candidates)
             m == task.candidates
         IN
         /\ a \in Entries /\ m \in Partial(Plugin, Content) /\ base \in Documents
         /\ entries' = Merged(a, m, ReviewBlocks) /\ entries' \in Entries
         /\ base' = Document(4, entries') /\ waiting' = None
         /\ served' = Routes(Without(m, ReviewBlocks)) /\ served' \in RouteMaps
         /\ DOMAIN served' = DOMAIN m \ ReviewBlocks
         /\ \A p \in DOMAIN served' : served'[p] = Route(m[p])
         /\ \A p : p \in DOMAIN entries' <=> p \in DOMAIN a \/ (p \in DOMAIN m /\ p \notin ReviewBlocks)
         /\ \A p \in DOMAIN m \ ReviewBlocks : entries'[p].content = m[p] /\ entries'[p].installed
         /\ \A p \in DOMAIN a \ (DOMAIN m \ ReviewBlocks) :
              entries'[p].content = a[p].content /\ ~entries'[p].installed
         /\ approved' = approved \cup
              {<<p, m[p]>> : p \in {q \in DOMAIN m \ ReviewBlocks : base.schema < 4 /\ m[q].kind = "mapping"}}
         /\ pc = "review" /\ pc' = "idle" /\ task' = NoTask
         /\ UNCHANGED <<disk, txn, pending, outside, retired, blame>>
<1> DEFINE a == Adopted(base, task.candidates)
           m == task.candidates
           B == ReviewBlocks
<1>1. m \in Partial(Plugin, Content) /\ m \in Partial(Plugin, Known)
  BY TypesAre DEF Basis
<1>2. base \in Documents
  BY DEF Basis, MemoryFits, TypeOK, Review
<1>3. a \in Entries
  BY <1>1, <1>2, AdoptedIs
<1>4. /\ entries' = Merged(a, m, B) /\ waiting' = None
      /\ base' = Document(IF base.schema = 4 THEN base.schema ELSE 4, entries')
      /\ served' = Routes(Without(m, B))
      /\ approved' = approved \cup
           {<<p, m[p]>> : p \in {q \in DOMAIN m \ B : base.schema < 4 /\ m[q].kind = "mapping"}}
      /\ pc = "review" /\ pc' = "idle" /\ task' = NoTask
      /\ UNCHANGED <<disk, txn, pending, outside, retired, blame>>
  BY DEF Review, ReviewBlocks, bounds
<1>5. base' = Document(4, entries')
  BY <1>4
<1> HIDE DEF a, m, B
<1>6. /\ Merged(a, m, B) \in Entries
      /\ \A p : p \in DOMAIN Merged(a, m, B) <=> p \in DOMAIN a \/ (p \in DOMAIN m /\ p \notin B)
      /\ \A p \in DOMAIN m \ B : Merged(a, m, B)[p].content = m[p] /\ Merged(a, m, B)[p].installed
      /\ \A p \in DOMAIN a \ (DOMAIN m \ B) :
           Merged(a, m, B)[p].content = a[p].content /\ ~Merged(a, m, B)[p].installed
  BY <1>1, <1>3, MergedIs
<1>7. /\ Routes(Without(m, B)) \in RouteMaps
      /\ DOMAIN Routes(Without(m, B)) = DOMAIN m \ B
      /\ \A p \in DOMAIN m \ B : Routes(Without(m, B))[p] = Route(m[p])
  BY <1>1, ServedWithout
<1>8. /\ entries' \in Entries
      /\ \A p : p \in DOMAIN entries' <=> p \in DOMAIN a \/ (p \in DOMAIN m /\ p \notin B)
      /\ \A p \in DOMAIN m \ B : entries'[p].content = m[p] /\ entries'[p].installed
      /\ \A p \in DOMAIN a \ (DOMAIN m \ B) : entries'[p].content = a[p].content /\ ~entries'[p].installed
  BY <1>4, <1>6
<1>9. served' \in RouteMaps /\ DOMAIN served' = DOMAIN m \ B /\ \A p \in DOMAIN served' : served'[p] = Route(m[p])
  BY <1>4, <1>7
<1> QED BY <1>1, <1>2, <1>3, <1>4, <1>5, <1>8, <1>9 DEF a, m, B

LEMMA PrepareDoes ==
  ASSUME Basis, Preparable
  PROVE  /\ NextDocument \in Documents /\ NextDocument # None
         /\ NextDocument = Document(4, NextDocument.plugins)
         /\ NextDocument.plugins = NextEntries(Recorded, Retiring)
         /\ NextDocument.plugins \in Entries /\ NextDocument.plugins # None
         /\ NextDocument.schema = 4
         /\ \A p : p \in DOMAIN NextDocument.plugins <=>
                     p \in DOMAIN Recorded \/ (p \in DOMAIN entries /\ p \notin Retiring)
         /\ \A p \in DOMAIN Recorded :
              NextDocument.plugins[p].content = Recorded[p] /\ NextDocument.plugins[p].installed
         /\ \A p \in DOMAIN NextDocument.plugins \ DOMAIN Recorded :
              /\ p \in DOMAIN entries /\ p \notin Retiring
              /\ NextDocument.plugins[p].content = entries[p].content
              /\ ~NextDocument.plugins[p].installed
<1>1. Recorded \in Partial(Plugin, Known)
  BY RecordedIs DEF Basis
<1> DEFINE n == NextEntries(Recorded, Retiring)
<1>2. n \in Entries
  BY <1>1, NextIs DEF Basis
<1>3. NextDocument = Document(4, n)
  BY DEF NextDocument
<1>4. n # None
  BY <1>2, NoneAssumption
<1>5. /\ \A p : p \in DOMAIN n <=> p \in DOMAIN Recorded \/ (p \in DOMAIN entries /\ p \notin Retiring)
      /\ \A p \in DOMAIN Recorded : n[p].content = Recorded[p] /\ n[p].installed
      /\ \A p \in DOMAIN n \ DOMAIN Recorded :
           p \in DOMAIN entries /\ p \notin Retiring /\ n[p].content = entries[p].content /\ ~n[p].installed
  BY <1>1, NextIs DEF Basis
<1> HIDE DEF n
<1>6. /\ Document(4, n) \in Documents /\ Document(4, n) # None
      /\ Document(4, n).plugins = n /\ Document(4, n).schema = 4
  BY <1>2, DocumentIs
<1> QED BY <1>2, <1>3, <1>4, <1>5, <1>6 DEF n

\* The values a check leaves in the command.
LEMMA CheckDoes ==
  ASSUME Basis, Check
  PROVE  /\ pc = "plan" /\ pc' = "begin" /\ txn = None
         /\ task' \in Tasks /\ task'.kind = task.kind /\ task'.goal = task.goal
         /\ task'.todo = task.todo /\ task'.prepared = task.prepared /\ task'.expect = task.expect
         /\ task'.answer = task.answer /\ task'.routes = served
         /\ task'.seen = IF task.kind = "cases" THEN disk ELSE task.seen
         /\ task.kind \in {"install", "save", "cases"} => task'.candidates = With(Inspected, task.goal)
         /\ task.kind \in {"uninstall", "delete"} => task'.candidates = task.candidates
         /\ task.kind = "import" => task'.candidates = task.goal
         /\ task.kind = "reload" => task'.candidates = Present(disk)
         /\ approved' = approved \cup Confirmed
         /\ retired' = retired \cup (IF task.kind \in {"uninstall", "delete"} THEN Members ELSE {})
         /\ UNCHANGED <<files, memory, outside, blame>>
<1>1. /\ pc = "plan" /\ pc' = "begin" /\ txn = None /\ May
      /\ approved' = approved \cup Confirmed
      /\ retired' = retired \cup (IF task.kind \in {"uninstall", "delete"} THEN Members ELSE {})
      /\ UNCHANGED <<files, memory, outside, blame>>
  BY DEF Check, bounds
<1>2. /\ task \in Tasks /\ served \in RouteMaps /\ task.kind # "none" /\ disk \in Directories
      /\ Inspected \in Partial(Plugin, Content) /\ Present(disk) \in Partial(Plugin, Content)
  BY <1>1, TypesAre, FullMap DEF Basis, TypeOK, StepsFit
<1>3. task.kind \in {"install", "uninstall", "save", "delete", "import", "reload", "cases"}
  BY <1>2, TaskIs
<1>4. task.kind \in {"install", "save", "cases"} => With(Inspected, task.goal) \in Partial(Plugin, Content)
  <2>1. task.kind \in {"install", "save", "cases"} => task.goal \in Partial(Plugin, Content)
    BY TargetIs DEF Basis
  <2> QED BY <1>2, <2>1, WithPartial
<1>5. task.kind = "import" => task.goal \in Partial(Plugin, Content)
  BY PartialFrom DEF Basis, GoalFits
<1>6. CASE task.kind = "install"
  <2>1. task' = [task EXCEPT !.candidates = With(Inspected, task.goal), !.routes = served]
    BY <1>1, <1>6 DEF May, MayInstall
  <2> QED BY <1>1, <1>2, <1>4, <1>6, <2>1 DEF Tasks
<1>7. CASE task.kind \in {"uninstall", "delete"}
  <2>1. task' = [task EXCEPT !.routes = served]
    BY <1>1, <1>7 DEF May, MayRemove
  <2> QED BY <1>1, <1>2, <1>7, <2>1 DEF Tasks
<1>8. CASE task.kind = "save"
  <2>1. task' = [task EXCEPT !.candidates = With(Inspected, task.goal), !.routes = served]
    BY <1>1, <1>8 DEF May, MaySave
  <2> QED BY <1>1, <1>2, <1>4, <1>8, <2>1 DEF Tasks
<1>9. CASE task.kind = "import"
  <2>1. task' = [task EXCEPT !.candidates = task.goal, !.routes = served]
    BY <1>1, <1>9 DEF May, MayImport
  <2> QED BY <1>1, <1>2, <1>5, <1>9, <2>1 DEF Tasks
<1>10. CASE task.kind = "reload"
  <2>1. task' = [task EXCEPT !.candidates = Present(disk)] /\ served = task.routes
    BY <1>1, <1>10 DEF May, MayReload
  <2> QED BY <1>1, <1>2, <1>10, <2>1 DEF Tasks
<1>11. CASE task.kind = "cases"
  <2>1. task' = [task EXCEPT !.candidates = With(Inspected, task.goal), !.routes = served, !.seen = disk]
    BY <1>1, <1>11 DEF May, MayEditCases
  <2> QED BY <1>1, <1>2, <1>4, <1>11, <2>1 DEF Tasks
<1> QED BY <1>3, <1>6, <1>7, <1>8, <1>9, <1>10, <1>11

\* Debug cases are edited of an accepted mapping that is served.
LEMMA EditDoes ==
  ASSUME Basis, Check, task.kind = "cases"
  PROVE  /\ Target \in DOMAIN Inspected /\ Inspected[Target] = disk[Target] /\ disk[Target] \in Mapping
         /\ Wanted # disk[Target] /\ Wanted.cases # disk[Target].cases
         /\ Wanted = [disk[Target] EXCEPT !.cases = Wanted.cases]
         /\ Route(Wanted) = Route(disk[Target])
         /\ Target \in DOMAIN AcceptedMappings
         /\ AcceptedMappings[Target].content = disk[Target]
<1>1. /\ RoutesMatch /\ Target \in DOMAIN Inspected /\ Inspected[Target].kind = "mapping"
      /\ Wanted = [Inspected[Target] EXCEPT !.cases = Wanted.cases] /\ Wanted # Inspected[Target]
  BY DEF Check, May, MayEditCases, MayDebug, Is
<1>2. /\ AcceptedMappings \in Entries /\ Inspected = Shown(entries, AcceptedMappings, disk)
      /\ entries \in Entries /\ disk \in [Plugin -> Content \cup {None}]
  BY TypesAre DEF Basis, TypeOK
<1>3. /\ Inspected[Target] = disk[Target] /\ disk[Target] \in Content
      /\ disk[Target].kind = "mapping" =>
           Target \in DOMAIN AcceptedMappings /\ AcceptedMappings[Target].content = disk[Target]
  BY <1>1, <1>2, ShownIs
<1>4. Wanted \in Mapping /\ Wanted.cases \in Cases
  BY TargetIs, KnownIs DEF Basis
<1>5. disk[Target] \in Mapping /\ disk[Target] \in Known /\ disk[Target].kind = "mapping"
  BY <1>1, <1>3, KnownIs
<1> DEFINE k == Wanted.cases
<1>6. k \in Cases /\ Wanted = [disk[Target] EXCEPT !.cases = k]
  BY <1>1, <1>3, <1>4
<1> HIDE DEF k
<1>7. Route([disk[Target] EXCEPT !.cases = k]) = Route(disk[Target])
      /\ [disk[Target] EXCEPT !.cases = k].contract = disk[Target].contract
      /\ [disk[Target] EXCEPT !.cases = k] \in Mapping
  BY <1>5, <1>6, OtherCases
<1>8. Wanted.cases # disk[Target].cases
  <2>1. Wanted \in Known /\ Wanted.kind = disk[Target].kind /\ Wanted.contract = disk[Target].contract
    BY <1>4, <1>5, <1>6, <1>7, KnownIs
  <2> QED BY <1>1, <1>3, <1>5, <2>1, SameContent
<1> QED BY <1>1, <1>3, <1>5, <1>6, <1>7, <1>8 DEF k

LEMMA AnswerIs ==
  ASSUME TypeOK, NEW a \in {"ok", "failed"}, Answer(a)
  PROVE  /\ pc' = "idle" /\ task' \in Tasks /\ task'.answer = a /\ task'.kind = task.kind
         /\ task'.goal = task.goal /\ task'.expect = task.expect /\ task'.prepared = FALSE
         /\ task'.candidates = <<>> /\ task'.routes = <<>> /\ task'.todo = <<>>
<1>1. /\ pc' = "idle"
      /\ task' = [NoTask EXCEPT !.answer = a, !.kind = task.kind, !.goal = task.goal, !.expect = task.expect]
  BY DEF Answer
<1>2. /\ task.goal \in Directories /\ task.expect \in RouteMaps \cup {None}
      /\ task.kind \in {"none", "install", "uninstall", "save", "delete", "import", "reload", "cases"}
  BY TaskIs DEF TypeOK
<1>3. /\ task' \in Tasks /\ task'.answer = a /\ task'.kind = task.kind
      /\ task'.goal = task.goal /\ task'.expect = task.expect /\ task'.prepared = FALSE
      /\ task'.candidates = <<>> /\ task'.routes = <<>> /\ task'.todo = <<>>
  BY <1>1, <1>2, NoTaskIs DEF Tasks
<1> QED BY <1>1, <1>3

\* What is left to do, by the initials of the steps.
TodoASC == <<"activate", "switch", "commit">>
TodoPSC == <<"prepare", "switch", "commit">>
TodoPSVC == <<"prepare", "switch", "verify", "commit">>
TodoSVC == <<"switch", "verify", "commit">>
TodoSV == <<"switch", "verify">>
TodoSC == <<"switch", "commit">>
TodoVC == <<"verify", "commit">>
TodoP == <<"prepare">>
TodoV == <<"verify">>
TodoC == <<"commit">>

\* What is left to do, one step later.
LEMMA TodoIs ==
  /\ TodoASC # <<>> /\ Head(TodoASC) = "activate" /\ Tail(TodoASC) = TodoSC
  /\ TodoPSC # <<>> /\ Head(TodoPSC) = "prepare" /\ Tail(TodoPSC) = TodoSC
  /\ TodoPSVC # <<>> /\ Head(TodoPSVC) = "prepare" /\ Tail(TodoPSVC) = TodoSVC
  /\ TodoSVC # <<>> /\ Head(TodoSVC) = "switch" /\ Tail(TodoSVC) = TodoVC
  /\ TodoSV # <<>> /\ Head(TodoSV) = "switch" /\ Tail(TodoSV) = TodoV
  /\ TodoSC # <<>> /\ Head(TodoSC) = "switch" /\ Tail(TodoSC) = TodoC
  /\ TodoVC # <<>> /\ Head(TodoVC) = "verify" /\ Tail(TodoVC) = TodoC
  /\ TodoP # <<>> /\ Head(TodoP) = "prepare" /\ Tail(TodoP) = <<>>
  /\ TodoV # <<>> /\ Head(TodoV) = "verify" /\ Tail(TodoV) = <<>>
  /\ TodoC # <<>> /\ Head(TodoC) = "commit" /\ Tail(TodoC) = <<>>
<1>1. TodoASC # <<>> /\ Head(TodoASC) = "activate" /\ Tail(TodoASC) = TodoSC
  BY DEF TodoASC, TodoSC
<1>2. TodoPSC # <<>> /\ Head(TodoPSC) = "prepare" /\ Tail(TodoPSC) = TodoSC
  BY DEF TodoPSC, TodoSC
<1>3. TodoPSVC # <<>> /\ Head(TodoPSVC) = "prepare" /\ Tail(TodoPSVC) = TodoSVC
  BY DEF TodoPSVC, TodoSVC
<1>4. TodoSVC # <<>> /\ Head(TodoSVC) = "switch" /\ Tail(TodoSVC) = TodoVC
  BY DEF TodoSVC, TodoVC
<1>5. TodoSV # <<>> /\ Head(TodoSV) = "switch" /\ Tail(TodoSV) = TodoV
  BY DEF TodoSV, TodoV
<1>6. TodoSC # <<>> /\ Head(TodoSC) = "switch" /\ Tail(TodoSC) = TodoC
  BY DEF TodoSC, TodoC
<1>7. TodoVC # <<>> /\ Head(TodoVC) = "verify" /\ Tail(TodoVC) = TodoC
  BY DEF TodoVC, TodoC
<1>8. TodoP # <<>> /\ Head(TodoP) = "prepare" /\ Tail(TodoP) = <<>>
  BY DEF TodoP
<1>9. TodoV # <<>> /\ Head(TodoV) = "verify" /\ Tail(TodoV) = <<>>
  BY DEF TodoV
<1>10. TodoC # <<>> /\ Head(TodoC) = "commit" /\ Tail(TodoC) = <<>>
  BY DEF TodoC
<1> QED BY <1>1, <1>2, <1>3, <1>4, <1>5, <1>6, <1>7, <1>8, <1>9, <1>10

TodoPASC == <<"prepare", "activate", "switch", "commit">>
TodoAPSC == <<"activate", "prepare", "switch", "commit">>
TodoAPSVC == <<"activate", "prepare", "switch", "verify", "commit">>
TodoPSV == <<"prepare", "switch", "verify">>
TodoAP == <<"activate", "prepare">>

LEMMA StepsFirst ==
  /\ Head(TodoPASC) = "prepare" /\ Tail(TodoPASC) = TodoASC /\ TodoASC \in Seq(Points)
  /\ Head(TodoAPSC) = "activate" /\ Tail(TodoAPSC) = TodoPSC /\ TodoPSC \in Seq(Points)
  /\ Head(TodoAPSVC) = "activate" /\ Tail(TodoAPSVC) = TodoPSVC /\ TodoPSVC \in Seq(Points)
  /\ Head(TodoPSV) = "prepare" /\ Tail(TodoPSV) = TodoSV /\ TodoSV \in Seq(Points)
  /\ Head(TodoAP) = "activate" /\ Tail(TodoAP) = TodoP /\ TodoP \in Seq(Points)
<1>1. Head(TodoPASC) = "prepare" /\ Tail(TodoPASC) = TodoASC /\ TodoASC \in Seq(Points)
  <2>1. Head(TodoPASC) = "prepare"
    BY DEF TodoPASC
  <2>2. Tail(TodoPASC) = TodoASC
    BY DEF TodoPASC, TodoASC
  <2>3. TodoASC \in Seq(Points)
    BY DEF TodoASC, Points
  <2> QED BY <2>1, <2>2, <2>3
<1>2. Head(TodoAPSC) = "activate" /\ Tail(TodoAPSC) = TodoPSC /\ TodoPSC \in Seq(Points)
  <2>1. Head(TodoAPSC) = "activate"
    BY DEF TodoAPSC
  <2>2. Tail(TodoAPSC) = TodoPSC
    BY DEF TodoAPSC, TodoPSC
  <2>3. TodoPSC \in Seq(Points)
    BY DEF TodoPSC, Points
  <2> QED BY <2>1, <2>2, <2>3
<1>3. Head(TodoAPSVC) = "activate" /\ Tail(TodoAPSVC) = TodoPSVC /\ TodoPSVC \in Seq(Points)
  <2>1. Head(TodoAPSVC) = "activate"
    BY DEF TodoAPSVC
  <2>2. Tail(TodoAPSVC) = TodoPSVC
    BY DEF TodoAPSVC, TodoPSVC
  <2>3. TodoPSVC \in Seq(Points)
    BY DEF TodoPSVC, Points
  <2> QED BY <2>1, <2>2, <2>3
<1>4. Head(TodoPSV) = "prepare" /\ Tail(TodoPSV) = TodoSV /\ TodoSV \in Seq(Points)
  <2>1. Head(TodoPSV) = "prepare"
    BY DEF TodoPSV
  <2>2. Tail(TodoPSV) = TodoSV
    BY DEF TodoPSV, TodoSV
  <2>3. TodoSV \in Seq(Points)
    BY DEF TodoSV, Points
  <2> QED BY <2>1, <2>2, <2>3
<1>5. Head(TodoAP) = "activate" /\ Tail(TodoAP) = TodoP /\ TodoP \in Seq(Points)
  <2>1. Head(TodoAP) = "activate"
    BY DEF TodoAP
  <2>2. Tail(TodoAP) = TodoP
    BY DEF TodoAP, TodoP
  <2>3. TodoP \in Seq(Points)
    BY DEF TodoP, Points
  <2> QED BY <2>1, <2>2, <2>3
<1> QED BY <1>1, <1>2, <1>3, <1>4, <1>5

\* Where a command stands (the last conjunct of StepsFit).
Stands ==
  LET at(step, rest, done) == pc = step /\ task.todo = rest /\ task.prepared = done
  IN
  \/ /\ task.kind \in {"install", "save"}
     /\ \/ at("prepare", TodoASC, FALSE)
        \/ at("activate", TodoSC, TRUE)
        \/ at("switch", TodoC, TRUE)
        \/ at("commit", <<>>, TRUE)
  \/ /\ task.kind \in {"uninstall", "delete"}
     /\ \/ at("activate", TodoPSC, FALSE)
        \/ at("prepare", TodoSC, FALSE)
        \/ at("switch", TodoC, TRUE)
        \/ at("commit", <<>>, TRUE)
  \/ /\ task.kind = "import"
     /\ \/ at("activate", TodoPSVC, FALSE)
        \/ at("prepare", TodoSVC, FALSE)
        \/ at("switch", TodoVC, TRUE)
        \/ at("verify", TodoC, TRUE)
        \/ at("commit", <<>>, TRUE)
  \/ /\ task.kind = "reload"
     /\ \/ at("prepare", TodoSV, FALSE)
        \/ at("switch", TodoV, TRUE)
        \/ at("verify", <<>>, TRUE)
  \/ /\ task.kind = "cases"
     /\ at("activate", TodoP, FALSE) \/ at("prepare", <<>>, FALSE)

LEMMA StandsIs ==
  ASSUME StepsFit, pc \in {"prepare", "activate", "switch", "verify", "commit"}
  PROVE  Stands
BY DEF StepsFit, Stands, TodoASC, TodoPSC, TodoPSVC, TodoSVC, TodoSV, TodoSC, TodoVC, TodoP, TodoV, TodoC

\* The next step of a command that goes on.
LEMMA AdvanceDoes ==
  ASSUME Basis, Advance, pc \in {"activate", "switch", "verify", "commit"}
  PROVE  /\ task' \in Tasks
         /\ task'.kind = task.kind /\ task'.goal = task.goal /\ task'.seen = task.seen
         /\ task'.routes = task.routes /\ task'.candidates = task.candidates
         /\ task'.prepared = task.prepared /\ task'.answer = task.answer /\ task'.expect = task.expect
         /\ \/ pc' \in {"prepare", "switch", "verify", "commit"} /\ Stands'
            \/ pc' = "promote" /\ task.prepared
         /\ pc = "activate" => pc' = IF task.kind \in {"install", "save"} THEN "switch" ELSE "prepare"
         /\ pc = "switch" => pc' = IF task.kind \in {"import", "reload"} THEN "verify" ELSE "commit"
         /\ pc = "verify" => pc' = IF task.kind = "import" THEN "commit" ELSE "promote"
         /\ pc = "commit" => pc' = "promote"
         /\ pc \in {"switch", "verify", "commit"} => task.prepared
<1>1. task \in Tasks
  BY DEF Basis, TypeOK
<1>2. Stands
  BY StandsIs DEF Basis
<1>3. /\ pc' = IF task.todo = <<>> THEN "promote" ELSE Head(task.todo)
      /\ task' = [task EXCEPT !.todo = IF task.todo = <<>> THEN task.todo ELSE Tail(task.todo)]
  BY DEF Advance
<1> DEFINE todo == IF task.todo = <<>> THEN task.todo ELSE Tail(task.todo)
<1>4. task.todo \in Seq(Points)
  BY <1>1, TaskIs
<1>5. todo \in Seq(Points)
  BY <1>4, HeadTailProperties
<1>6. /\ task' \in Tasks /\ task'.todo = todo
      /\ task'.kind = task.kind /\ task'.goal = task.goal /\ task'.seen = task.seen
      /\ task'.routes = task.routes /\ task'.candidates = task.candidates
      /\ task'.prepared = task.prepared /\ task'.answer = task.answer /\ task'.expect = task.expect
  BY <1>1, <1>3, <1>5 DEF Tasks
<1> HIDE DEF todo
<1>7. task.kind \in {"install", "save"} =>
        \/ pc = "activate" /\ pc' = "switch" /\ todo = TodoC /\ task.prepared = TRUE
        \/ pc = "switch" /\ pc' = "commit" /\ todo = <<>> /\ task.prepared = TRUE
        \/ pc = "commit" /\ pc' = "promote" /\ task.prepared = TRUE
  BY <1>2, <1>3, TodoIs DEF Stands, todo
<1>8. task.kind \in {"uninstall", "delete"} =>
        \/ pc = "activate" /\ pc' = "prepare" /\ todo = TodoSC /\ task.prepared = FALSE
        \/ pc = "switch" /\ pc' = "commit" /\ todo = <<>> /\ task.prepared = TRUE
        \/ pc = "commit" /\ pc' = "promote" /\ task.prepared = TRUE
  BY <1>2, <1>3, TodoIs DEF Stands, todo
<1>9. task.kind = "import" =>
        \/ pc = "activate" /\ pc' = "prepare" /\ todo = TodoSVC /\ task.prepared = FALSE
        \/ pc = "switch" /\ pc' = "verify" /\ todo = TodoC /\ task.prepared = TRUE
        \/ pc = "verify" /\ pc' = "commit" /\ todo = <<>> /\ task.prepared = TRUE
        \/ pc = "commit" /\ pc' = "promote" /\ task.prepared = TRUE
  BY <1>2, <1>3, TodoIs DEF Stands, todo
<1>10. task.kind = "reload" =>
        \/ pc = "switch" /\ pc' = "verify" /\ todo = <<>> /\ task.prepared = TRUE
        \/ pc = "verify" /\ pc' = "promote" /\ task.prepared = TRUE
  BY <1>2, <1>3, TodoIs DEF Stands, todo
<1>11. task.kind = "cases" =>
        pc = "activate" /\ pc' = "prepare" /\ todo = <<>> /\ task.prepared = FALSE
  BY <1>2, <1>3, TodoIs DEF Stands, todo
<1>12. task.kind \in {"install", "uninstall", "save", "delete", "import", "reload", "cases"}
  BY <1>2 DEF Stands
<1>13. \/ pc' \in {"prepare", "switch", "verify", "commit"} /\ Stands'
       \/ pc' = "promote" /\ task.prepared
  <2>1. CASE task.kind \in {"install", "save"}
    BY <1>6, <1>7, <2>1 DEF Stands
  <2>2. CASE task.kind \in {"uninstall", "delete"}
    BY <1>6, <1>8, <2>2 DEF Stands
  <2>3. CASE task.kind = "import"
    BY <1>6, <1>9, <2>3 DEF Stands
  <2>4. CASE task.kind = "reload"
    BY <1>6, <1>10, <2>4 DEF Stands
  <2>5. CASE task.kind = "cases"
    BY <1>6, <1>11, <2>5 DEF Stands
  <2> QED BY <1>12, <2>1, <2>2, <2>3, <2>4, <2>5
<1>14. /\ pc = "activate" => pc' = IF task.kind \in {"install", "save"} THEN "switch" ELSE "prepare"
       /\ pc = "switch" => pc' = IF task.kind \in {"import", "reload"} THEN "verify" ELSE "commit"
       /\ pc = "verify" => pc' = IF task.kind = "import" THEN "commit" ELSE "promote"
       /\ pc = "commit" => pc' = "promote"
       /\ pc \in {"switch", "verify", "commit"} => task.prepared
  BY <1>7, <1>8, <1>9, <1>10, <1>11, <1>12
<1> QED BY <1>6, <1>13, <1>14

\* The directories after the change of the command.
LEMMA ActivateDoes ==
  ASSUME Basis, Activate
  PROVE  /\ disk' \in [Plugin -> Content \cup {None}] /\ disk' = With(disk, task.goal)
         /\ txn' \in Directories \cup {None}
         /\ task.kind = "cases" => txn' = None
         /\ task.kind # "cases" => txn' # None /\ txn' = [p \in Members |-> disk[p]] /\ DOMAIN txn' = Members
         /\ task' \in Tasks
         /\ task'.kind = task.kind /\ task'.goal = task.goal /\ task'.seen = task.seen
         /\ task'.routes = task.routes /\ task'.candidates = task.candidates
         /\ task'.prepared = task.prepared /\ task'.answer = task.answer /\ task'.expect = task.expect
         /\ pc = "activate" /\ pc' = (IF task.kind \in {"install", "save"} THEN "switch" ELSE "prepare")
         /\ Stands'
         /\ UNCHANGED <<base, pending, memory, outside, approved, retired>>
<1>1. task \in Tasks /\ DOMAIN task.goal \subseteq Plugin /\ task.todo \in Seq(Points)
  BY TypesAre, TaskIs DEF Basis, TypeOK
<1>2. /\ disk' = With(disk, task.goal) /\ pc = "activate"
      /\ txn' = IF task.kind = "cases" THEN None ELSE [p \in Members |-> disk[p]]
      /\ UNCHANGED <<base, pending, memory, outside, approved, retired>>
  BY DEF Activate, bounds
<1>3. With(disk, task.goal) \in [Plugin -> Content \cup {None}]
  BY TypesAre DEF Basis
<1>4. [p \in Members |-> disk[p]] \in Directories
  <2>1. Members \in SUBSET Plugin
    BY <1>1 DEF Members
  <2>2. [p \in Members |-> disk[p]] \in [Members -> Content \cup {None}]
    BY <2>1 DEF Basis, TypeOK
  <2> QED BY <2>1, <2>2, PartialFrom DEF Directories
<1>5. Advance
  BY DEF Activate
<1>6. /\ task' \in Tasks
      /\ task'.kind = task.kind /\ task'.goal = task.goal /\ task'.seen = task.seen
      /\ task'.routes = task.routes /\ task'.candidates = task.candidates
      /\ task'.prepared = task.prepared /\ task'.answer = task.answer /\ task'.expect = task.expect
      /\ pc' = IF task.kind \in {"install", "save"} THEN "switch" ELSE "prepare"
      /\ Stands'
  BY <1>2, <1>5, AdvanceDoes
<1>9. [p \in Members |-> disk[p]] # None
  BY <1>4, NoneAssumption
<1> QED BY <1>2, <1>3, <1>4, <1>6, <1>9

(***************************************************************************)
(* The types, the place of a command and the store.                        *)
(***************************************************************************)

LEMMA PreparedTask ==
  ASSUME Basis, Prepare
  PROVE  /\ task' \in Tasks /\ task'.kind = task.kind /\ task'.goal = task.goal /\ task'.seen = task.seen
         /\ task'.routes = task.routes /\ task'.candidates = Recorded /\ task'.prepared = TRUE
         /\ task'.answer = task.answer /\ task'.expect = task.expect
         /\ pc = "prepare" /\ waiting = None /\ pending = None /\ Preparable
         /\ pending' = NextDocument /\ waiting' = NextDocument.plugins /\ blame' = blame \cup Drift
         /\ \/ pc' \in {"activate", "switch"} /\ Stands'
            \/ pc' = "promote" /\ task.kind = "cases"
         /\ task.kind \in {"install", "save"} => pc' = "activate"
         /\ task.kind \in {"uninstall", "delete", "import", "reload"} => pc' = "switch"
         /\ task.kind = "cases" => pc' = "promote"
         /\ UNCHANGED <<disk, txn, base, entries, served, outside, approved, retired>>
<1>1. task \in Tasks
  BY DEF Basis, TypeOK
<1>2. /\ pc = "prepare" /\ waiting = None /\ pending = None /\ Preparable
      /\ pending' = NextDocument /\ waiting' = NextDocument.plugins /\ blame' = blame \cup Drift
      /\ UNCHANGED <<disk, txn, base, entries, served, outside, approved, retired>>
      /\ pc' = Head(task.todo \o <<"promote">>)
      /\ task' = [task EXCEPT !.prepared = TRUE, !.todo = IF @ = <<>> THEN @ ELSE Tail(@),
                              !.candidates = Recorded]
  BY DEF Prepare, bounds
<1>3. Recorded \in Partial(Plugin, Content)
  BY <1>2, RecordedIs DEF Basis
<1> DEFINE todo == IF task.todo = <<>> THEN task.todo ELSE Tail(task.todo)
<1>4. task.todo \in Seq(Points) /\ todo \in Seq(Points)
  BY <1>1, TaskIs, HeadTailProperties
<1>5. pc' = IF task.todo = <<>> THEN "promote" ELSE Head(task.todo)
  <2>1. CASE task.todo = <<>>
    <3>1. Head(<<>> \o <<"promote">>) = "promote"
      OBVIOUS
    <3> QED BY <1>2, <2>1, <3>1
  <2>2. CASE task.todo # <<>>
    <3>1. Head(task.todo \o <<"promote">>) = Head(task.todo)
      BY <1>4, <2>2
    <3> QED BY <1>2, <2>2, <3>1
  <2> QED BY <2>1, <2>2
<1>6. /\ task' \in Tasks /\ task'.todo = todo
      /\ task'.kind = task.kind /\ task'.goal = task.goal /\ task'.seen = task.seen
      /\ task'.routes = task.routes /\ task'.candidates = Recorded
      /\ task'.prepared = TRUE /\ task'.answer = task.answer /\ task'.expect = task.expect
  BY <1>1, <1>2, <1>3, <1>4 DEF Tasks
<1> HIDE DEF todo
<1>7. Stands
  BY <1>2, StandsIs DEF Basis
<1>8. task.kind \in {"install", "save"} => pc' = "activate" /\ todo = TodoSC
  BY <1>2, <1>5, <1>7, TodoIs DEF Stands, todo
<1>9. task.kind \in {"uninstall", "delete"} => pc' = "switch" /\ todo = TodoC
  BY <1>2, <1>5, <1>7, TodoIs DEF Stands, todo
<1>10. task.kind = "import" => pc' = "switch" /\ todo = TodoVC
  BY <1>2, <1>5, <1>7, TodoIs DEF Stands, todo
<1>11. task.kind = "reload" => pc' = "switch" /\ todo = TodoV
  BY <1>2, <1>5, <1>7, TodoIs DEF Stands, todo
<1>12. task.kind = "cases" => pc' = "promote" /\ todo = <<>>
  BY <1>2, <1>5, <1>7, TodoIs DEF Stands, todo
<1>13. task.kind \in {"install", "uninstall", "save", "delete", "import", "reload", "cases"}
  BY <1>7 DEF Stands
<1>14. \/ pc' \in {"activate", "switch"} /\ Stands'
       \/ pc' = "promote" /\ task.kind = "cases"
  BY <1>6, <1>8, <1>9, <1>10, <1>11, <1>12, <1>13 DEF Stands
<1> QED BY <1>2, <1>6, <1>8, <1>9, <1>10, <1>11, <1>12, <1>14

\* The steps of a command are its kind's.
LEMMA StepsAre ==
  ASSUME task.kind \in {"install", "uninstall", "save", "delete", "import", "reload", "cases"}
  PROVE  /\ task.kind \in {"install", "save"} => Steps(task.kind) = TodoPASC
         /\ task.kind \in {"uninstall", "delete"} => Steps(task.kind) = TodoAPSC
         /\ task.kind = "import" => Steps(task.kind) = TodoAPSVC
         /\ task.kind = "reload" => Steps(task.kind) = TodoPSV
         /\ task.kind = "cases" => Steps(task.kind) = TodoAP
BY DEF Steps, InstallSteps, SaveSteps, UninstallSteps, DeleteSteps, ImportSteps, ReloadSteps,
       CasesSteps, TodoPASC, TodoAPSC, TodoAPSVC, TodoPSV, TodoAP

LEMMA BeginDoes ==
  ASSUME Basis, Begin
  PROVE  /\ task' \in Tasks /\ task'.kind = task.kind /\ task'.goal = task.goal /\ task'.seen = task.seen
         /\ task'.routes = task.routes /\ task'.candidates = task.candidates
         /\ task'.prepared = FALSE /\ task'.answer = task.answer /\ task'.expect = task.expect
         /\ pc = "begin" /\ task.prepared = FALSE
         /\ pc' \in {"prepare", "activate"} /\ Stands'
         /\ pc' = IF task.kind \in {"install", "save", "reload"} THEN "prepare" ELSE "activate"
         /\ UNCHANGED <<files, memory, outside, history>>
<1>1. /\ task \in Tasks /\ pc = "begin" /\ task.prepared = FALSE /\ task.kind # "none"
      /\ pc' = Head(Steps(task.kind)) /\ task' = [task EXCEPT !.todo = Tail(Steps(task.kind))]
      /\ UNCHANGED <<files, memory, outside, history>>
  BY DEF Begin, Basis, TypeOK, StepsFit, Working, Closed, bounds, Tasks
<1>2. task.kind \in {"install", "uninstall", "save", "delete", "import", "reload", "cases"}
  BY <1>1, TaskIs
<1> DEFINE todo == Tail(Steps(task.kind))
<1>3. task.kind \in {"install", "save"} => pc' = "prepare" /\ todo = TodoASC
  BY <1>1, <1>2, StepsAre, StepsFirst
<1>4. task.kind \in {"uninstall", "delete"} => pc' = "activate" /\ todo = TodoPSC
  BY <1>1, <1>2, StepsAre, StepsFirst
<1>5. task.kind = "import" => pc' = "activate" /\ todo = TodoPSVC
  BY <1>1, <1>2, StepsAre, StepsFirst
<1>6. task.kind = "reload" => pc' = "prepare" /\ todo = TodoSV
  BY <1>1, <1>2, StepsAre, StepsFirst
<1>7. task.kind = "cases" => pc' = "activate" /\ todo = TodoP
  BY <1>1, <1>2, StepsAre, StepsFirst
<1>8. {TodoASC, TodoPSC, TodoPSVC, TodoSV, TodoP} \subseteq Seq(Points)
  BY StepsFirst
<1> HIDE DEF todo
<1>9. todo \in Seq(Points)
  BY <1>2, <1>3, <1>4, <1>5, <1>6, <1>7, <1>8
<1>10. /\ task' \in Tasks /\ task'.todo = todo
       /\ task'.kind = task.kind /\ task'.goal = task.goal /\ task'.seen = task.seen
       /\ task'.routes = task.routes /\ task'.candidates = task.candidates
       /\ task'.prepared = FALSE /\ task'.answer = task.answer /\ task'.expect = task.expect
  BY <1>1, <1>9 DEF Tasks, todo
<1>11. Stands'
  BY <1>2, <1>3, <1>4, <1>5, <1>6, <1>7, <1>10 DEF Stands
<1> QED BY <1>1, <1>2, <1>3, <1>4, <1>5, <1>6, <1>7, <1>10, <1>11

LEMMA DriftIs == Drift \subseteq {"drift"} /\ (Drift = {} <=> Matches(Document(4, entries), Present(Restored)))
BY DEF Drift

\* The routes a switch leaves.
LEMMA SwitchTyped ==
  ASSUME Basis, Switch
  PROVE  served' \in RouteMaps
<1>1. pc = "switch" /\ FoundAsWanted
      /\ served' = CASE task.kind \in {"reload", "import"} -> Routes(task.candidates)
                     [] task.kind \in {"uninstall", "delete"} -> Without(served, Members)
                     [] OTHER -> With(served, [p \in Members |-> Route(Inspected[p])])
  BY DEF Switch
<1>2. /\ served \in RouteMaps /\ task.candidates \in Partial(Plugin, Known)
      /\ Inspected \in Partial(Plugin, Content)
  BY TypesAre DEF Basis, TypeOK
<1>3. Routes(task.candidates) \in RouteMaps
  BY <1>2, RoutesIs
<1>4. Without(served, Members) \in RouteMaps
  BY <1>2, WithoutPartial DEF RouteMaps
<1>5. CASE task.kind \in {"install", "save"}
  <2>1. Members = {Target} /\ Target \in Plugin /\ Members \subseteq DOMAIN task.candidates
    BY <1>1, <1>5, TargetIs DEF Basis, GoalFits, Working, Closed
  <2>2. task.kind = "install" => Target \in DOMAIN Inspected
    BY <1>1 DEF FoundAsWanted, Is
  <2>3. task.kind = "save" => Routes(Inspected) = Routes(task.candidates)
    BY <1>1 DEF FoundAsWanted
  <2>4. DOMAIN Routes(Inspected) = DOMAIN Inspected /\ DOMAIN Routes(task.candidates) = DOMAIN task.candidates
    BY <1>2, RoutesIs, ContentsKnown
  <2>5. Target \in DOMAIN Inspected
    BY <1>5, <2>1, <2>2, <2>3, <2>4
  <2> DEFINE new == [p \in Members |-> Route(Inspected[p])]
  <2>6. Inspected[Target] \in Known
    BY <1>2, <2>5, PartialIs, KnownIs
  <2>7. new \in [Members -> {c \in Known : c.cases = None}] /\ Members \in SUBSET Plugin
    BY <2>1, <2>6, RouteIs
  <2> HIDE DEF new
  <2>8. new \in RouteMaps
    BY <2>7, PartialFrom DEF RouteMaps
  <2>9. With(served, new) \in RouteMaps
    BY <1>2, <2>8, WithPartial DEF RouteMaps
  <2>10. served' = With(served, new)
    BY <1>1, <1>5 DEF new
  <2> QED BY <2>9, <2>10
<1>6. task.kind \in {"install", "save", "uninstall", "delete", "import", "reload"}
  <2>1. Stands
    BY <1>1, StandsIs DEF Basis
  <2> QED BY <1>1, <2>1 DEF Stands
<1> QED BY <1>1, <1>3, <1>4, <1>5, <1>6

\* What is left of debug cases that could not be accepted: what was read.
LEMMA RollBackDoes ==
  ASSUME Basis, RollBack
  PROVE  /\ disk' \in [Plugin -> Content \cup {None}] /\ txn' = None
         /\ task.kind # "cases" => disk' = Restored
         /\ task.kind = "cases" => disk' = IF disk[Target] = Wanted
                                           THEN [disk EXCEPT ![Target] = task.seen[Target]] ELSE disk
         /\ served' = task.routes /\ served' \in RouteMaps
         /\ pc = "undo" /\ pc' = "abort"
         /\ UNCHANGED <<base, pending, entries, waiting, task, outside, history>>
<1>1. /\ disk' = IF task.kind = "cases"
                 THEN IF disk[Target] = Wanted /\ Wanted # task.seen[Target]
                      THEN [disk EXCEPT ![Target] = [@ EXCEPT !.cases = task.seen[Target].cases]] ELSE disk
                 ELSE Restored
      /\ txn' = None /\ served' = task.routes /\ pc = "undo" /\ pc' = "abort"
      /\ UNCHANGED <<base, pending, entries, waiting, task, outside, history>>
  BY DEF RollBack, bounds
<1>2. task.routes \in RouteMaps /\ disk \in [Plugin -> Content \cup {None}]
      /\ Restored \in [Plugin -> Content \cup {None}]
  BY TypesAre, TaskIs DEF Basis, TypeOK
<1>3. CASE task.kind = "cases"
  <2>1. /\ Target \in Plugin /\ task.seen[Target] \in Mapping /\ Wanted # task.seen[Target]
        /\ Wanted = [task.seen[Target] EXCEPT !.cases = Wanted.cases] /\ Wanted \in Mapping
    BY <1>1, <1>3, TargetIs DEF Basis, GoalFits, Working, Closed
  <2> DEFINE s == task.seen[Target]
             w == Wanted
  <2>2. [w EXCEPT !.cases = s.cases] = s
    <3>1. s \in Mapping /\ w \in Mapping /\ w = [s EXCEPT !.cases = w.cases]
      BY <2>1
    <3> HIDE DEF s, w
    <3>2. s \in Known /\ w \in Known /\ s.cases \in Cases /\ w.cases \in Cases /\ s.kind = "mapping" /\ w.kind = "mapping"
      BY <3>1, KnownIs
    <3> DEFINE k == w.cases
               j == s.cases
    <3>3. w = [s EXCEPT !.cases = k] /\ k \in Cases /\ j \in Cases
      BY <3>1, <3>2
    <3> HIDE DEF k
    <3>4. w.contract = s.contract
      BY <3>2, <3>3, OtherCases
    <3> HIDE DEF j
    <3>5. /\ [w EXCEPT !.cases = j] \in Mapping /\ [w EXCEPT !.cases = j].cases = j
          /\ [w EXCEPT !.cases = j].contract = w.contract
      BY <3>2, <3>3, OtherCases
    <3>6. [w EXCEPT !.cases = j] \in Known /\ [w EXCEPT !.cases = j].kind = "mapping" /\ j = s.cases
      BY <3>5, KnownIs DEF j
    <3>7. [w EXCEPT !.cases = j] = s
      BY <3>2, <3>4, <3>5, <3>6, SameContent
    <3> QED BY <3>7 DEF j
  <2>3. CASE disk[Target] = Wanted
    <3>1. disk' = [disk EXCEPT ![Target] = [disk[Target] EXCEPT !.cases = task.seen[Target].cases]]
      BY <1>1, <1>3, <2>1, <2>3
    <3>2. disk' = [disk EXCEPT ![Target] = task.seen[Target]]
      BY <2>2, <2>3, <3>1
    <3>3. task.seen[Target] \in Content
      BY <2>1, KnownIs
    <3>4. [disk EXCEPT ![Target] = task.seen[Target]] \in [Plugin -> Content \cup {None}]
      BY <1>2, <3>3
    <3> QED BY <1>1, <1>2, <1>3, <2>3, <3>2, <3>4
  <2>4. CASE disk[Target] # Wanted
    BY <1>1, <1>2, <1>3, <2>4
  <2> QED BY <2>3, <2>4
<1> QED BY <1>1, <1>2, <1>3

LEMMA StartTypes ==
  ASSUME Basis, StartupNext
  PROVE  /\ disk' \in [Plugin -> Content \cup {None}] /\ txn' \in Directories \cup {None}
         /\ base' \in Documents \cup {None} /\ pending' \in Documents \cup {None}
         /\ entries' \in Entries /\ waiting' \in Entries \cup {None} /\ served' \in RouteMaps
         /\ pc' \in Points /\ task' \in Tasks
         /\ approved' \subseteq Plugin \X Mapping /\ retired' \subseteq Plugin
         /\ blame' \subseteq {"outside", "raced", "drift", "leftover"}
<1> USE DEF Basis, TypeOK, Points
<1>1. CASE Startup
  <2>1. Restored \in [Plugin -> Content \cup {None}] /\ Present(Restored) \in Partial(Plugin, Content)
    BY TypesAre
  <2>2. task' \in Tasks
    BY <1>1, <2>1, NoTaskIs DEF Startup, Tasks
  <2> QED BY <1>1, <2>1, <2>2 DEF Startup, memory, history
<1>2. CASE OpenWithoutBaseline
  <2>1. entries' \in Entries /\ base' = Document(4, entries') /\ waiting' = None /\ served' \in RouteMaps
        /\ pc' = "idle" /\ task' = NoTask /\ UNCHANGED <<disk, txn, pending, history>>
    BY <1>2, OpenDoes
  <2>2. base' \in Documents
    BY <2>1, DocumentIs
  <2> QED BY <2>1, <2>2, NoTaskIs DEF history
<1>3. CASE AdoptPending
  BY <1>3 DEF AdoptPending, memory, history
<1>4. CASE Refuse
  BY <1>4, NoTaskIs DEF Refuse, files, memory, history
<1>5. CASE ForgetPending
  BY <1>5 DEF ForgetPending, memory, history
<1>6. CASE Review
  <2>1. /\ entries' \in Entries /\ base' = Document(4, entries') /\ waiting' = None /\ served' \in RouteMaps
        /\ pc' = "idle" /\ task' = NoTask /\ UNCHANGED <<disk, txn, pending, retired, blame>>
        /\ task.candidates \in Partial(Plugin, Content)
    BY <1>6, ReviewDoes
  <2> DEFINE m == task.candidates
             taken == {q \in DOMAIN m \ ReviewBlocks : base.schema < 4 /\ m[q].kind = "mapping"}
  <2>2. approved' = approved \cup {<<p, m[p]>> : p \in taken}
    BY <1>6, ReviewDoes
  <2>3. \A p \in taken : p \in Plugin /\ m[p] \in Mapping
    <3>1. m \in Partial(Plugin, Content)
      BY <2>1
    <3> HIDE DEF m
    <3>2. DOMAIN m \subseteq Plugin /\ \A p \in DOMAIN m : m[p] \in Content
      BY <3>1, PartialIs
    <3> QED BY <3>2, KnownIs
  <2> HIDE DEF m, taken
  <2>4. base' \in Documents
    BY <2>1, DocumentIs
  <2>5. approved' \subseteq Plugin \X Mapping
    <3>1. approved \subseteq Plugin \X Mapping
      OBVIOUS
    <3>2. {<<p, m[p]>> : p \in taken} \subseteq Plugin \X Mapping
      <4>1. ASSUME NEW p \in taken
            PROVE  <<p, m[p]>> \in Plugin \X Mapping
        <5>1. p \in Plugin /\ m[p] \in Mapping
          BY <2>3
        <5> QED BY <5>1
      <4> QED BY <4>1
    <3> QED BY <2>2, <3>1, <3>2
  <2> QED BY <2>1, <2>4, <2>5, NoTaskIs
<1>7. CASE StartupFails
  BY <1>7, NoTaskIs DEF StartupFails, files, memory, history
<1> QED BY <1>1, <1>2, <1>3, <1>4, <1>5, <1>6, <1>7 DEF StartupNext

\* What an operator confirms are contents of mappings.
LEMMA ConfirmedIs ==
  ASSUME Basis
  PROVE  /\ Confirmed \subseteq Plugin \X Mapping
         /\ \A p, c : <<p, c>> \in Confirmed <=>
              /\ p \in Plugin /\ c \in Mapping
              /\ \/ task.kind = "reload" /\ disk[p] = c
                 \/ task.kind # "reload" /\ p \in Members /\ task.goal[p] = c
<1>1. CASE task.kind = "reload"
  <2> DEFINE new == Present(disk)
  <2>1. /\ DOMAIN new = {p \in Plugin : disk[p] # None}
        /\ \A p \in DOMAIN new : new[p] = disk[p] /\ disk[p] \in Content
    BY PresentIs DEF Basis, TypeOK
  <2>2. Confirmed = {<<p, new[p]>> : p \in {q \in DOMAIN new : new[q].kind = "mapping"}}
    BY <1>1 DEF Confirmed
  <2> HIDE DEF new
  <2>3. \A p \in DOMAIN new : new[p].kind = "mapping" => new[p] \in Mapping
    BY <2>1, KnownIs
  <2>4. \A c \in Mapping : c.kind = "mapping" /\ c # None
    BY KnownIs
  <2> QED BY <1>1, <2>1, <2>2, <2>3, <2>4
<1>2. CASE task.kind # "reload"
  <2> DEFINE d == With(disk, task.goal)
             new == Present(d)
  <2>1. d \in [Plugin -> Content \cup {None}] /\ Members \subseteq Plugin
        /\ \A p \in Members : d[p] = task.goal[p]
    <3>1. d \in [Plugin -> Content \cup {None}] /\ Members \subseteq Plugin
      BY TypesAre DEF Basis, Members
    <3>2. \A p \in DOMAIN task.goal : With(disk, task.goal)[p] = task.goal[p]
      BY DEF With
    <3> QED BY <3>1, <3>2 DEF Members
  <2> HIDE DEF d
  <2>2. /\ DOMAIN new = {p \in Plugin : d[p] # None}
        /\ \A p \in DOMAIN new : new[p] = d[p] /\ d[p] \in Content
    BY <2>1, PresentIs
  <2>3. Confirmed = {<<p, new[p]>> : p \in {q \in DOMAIN new : new[q].kind = "mapping" /\ q \in Members}}
    BY <1>2 DEF Confirmed, d
  <2> HIDE DEF new
  <2>4. \A p \in DOMAIN new : new[p].kind = "mapping" => new[p] \in Mapping
    BY <2>2, KnownIs
  <2>5. \A c \in Mapping : c.kind = "mapping" /\ c # None
    BY KnownIs
  <2> QED BY <1>2, <2>1, <2>2, <2>3, <2>4, <2>5
<1> QED BY <1>1, <1>2

Typed ==
  /\ disk \in [Plugin -> Content \cup {None}] /\ txn \in Directories \cup {None}
  /\ base \in Documents \cup {None} /\ pending \in Documents \cup {None}
  /\ entries \in Entries /\ waiting \in Entries \cup {None} /\ served \in RouteMaps
  /\ pc \in Points /\ task \in Tasks
  /\ approved \subseteq Plugin \X Mapping /\ retired \subseteq Plugin
  /\ blame \subseteq {"outside", "raced", "drift", "leftover"}

LEMMA CheckTypes == ASSUME Basis, Check PROVE Typed'
<1>1. /\ pc' = "begin" /\ task' \in Tasks
      /\ approved' = approved \cup Confirmed
      /\ retired' = retired \cup (IF task.kind \in {"uninstall", "delete"} THEN Members ELSE {})
      /\ UNCHANGED <<files, memory, outside, blame>>
  BY CheckDoes
<1>2. Confirmed \subseteq Plugin \X Mapping /\ Members \subseteq Plugin
  BY ConfirmedIs, TypesAre DEF Basis, Members
<1>3. Typed
  BY DEF Basis, TypeOK, Typed
<1>4. "begin" \in Points
  BY DEF Points
<1>5. approved' \subseteq Plugin \X Mapping /\ retired' \subseteq Plugin
  BY <1>1, <1>2, <1>3 DEF Typed
<1> QED BY <1>1, <1>3, <1>4, <1>5 DEF Typed, files, memory

LEMMA CommandTypes == ASSUME Basis, CommandNext PROVE Typed'
<1>0. Typed
  BY DEF Basis, TypeOK, Typed
<1> DEFINE Rest == /\ approved \subseteq Plugin \X Mapping /\ retired \subseteq Plugin
                   /\ blame \subseteq {"outside", "raced", "drift", "leftover"}
<1>1. CASE Check BY <1>1, CheckTypes
<1>2. CASE Recover
  <2>1. Restored \in [Plugin -> Content \cup {None}]
    BY TypesAre DEF Basis
  <2> QED BY <1>0, <1>2, <2>1 DEF Recover, Typed, memory, history
<1>3. ASSUME NEW a \in {"ok", "failed"}, Answer(a) PROVE pc' \in Points /\ task' \in Tasks
  BY <1>3, AnswerIs DEF Points, Basis
<1>4. CASE Decline
  BY <1>0, <1>3, <1>4 DEF Decline, Typed, files, memory, history
<1>5. CASE Begin
  <2>1. task' \in Tasks /\ pc' \in Points /\ UNCHANGED <<files, memory, history>>
    BY <1>5, BeginDoes DEF Points
  <2> QED BY <1>0, <2>1 DEF Typed, files, memory, history
<1>6. CASE Prepare
  <2>1. /\ task' \in Tasks /\ pc' \in {"activate", "switch", "promote"} /\ Preparable
        /\ pending' = NextDocument /\ waiting' = NextDocument.plugins /\ blame' = blame \cup Drift
        /\ UNCHANGED <<disk, txn, base, entries, served, approved, retired>>
    BY <1>6, PreparedTask
  <2>2. NextDocument \in Documents /\ NextDocument.plugins \in Entries
    BY <2>1, PrepareDoes
  <2>3. blame' \subseteq {"outside", "raced", "drift", "leftover"}
    BY <1>0, <2>1, DriftIs DEF Typed
  <2>4. pc' \in Points
    BY <2>1 DEF Points
  <2> QED BY <1>0, <2>1, <2>2, <2>3, <2>4 DEF Typed
<1>7. CASE PrepareFails
  <2>1. /\ pc' = "undo" /\ task' = task /\ UNCHANGED <<disk, txn, base, memory, approved, retired>>
        /\ \/ UNCHANGED <<pending, blame>>
           \/ Preparable /\ pending' = NextDocument /\ blame' = blame \cup Drift
    BY <1>7 DEF PrepareFails, Undo
  <2>2. Preparable => NextDocument \in Documents
    BY PrepareDoes
  <2>3. blame' \subseteq {"outside", "raced", "drift", "leftover"} /\ pending' \in Documents \cup {None}
    BY <1>0, <2>1, <2>2, DriftIs DEF Typed
  <2>4. pc' \in Points
    BY <2>1 DEF Points
  <2> QED BY <1>0, <2>1, <2>3, <2>4 DEF Typed, memory
<1>8. CASE Activate
  <2>1. /\ disk' \in [Plugin -> Content \cup {None}] /\ txn' \in Directories \cup {None}
        /\ task' \in Tasks /\ pc' \in {"switch", "prepare"}
        /\ UNCHANGED <<base, pending, memory, approved, retired>>
    BY <1>8, ActivateDoes
  <2>2. blame' \subseteq {"outside", "raced", "drift", "leftover"}
    BY <1>0, <1>8 DEF Typed, Activate
  <2>3. pc' \in Points
    BY <2>1 DEF Points
  <2> QED BY <1>0, <2>1, <2>2, <2>3 DEF Typed, memory
<1>9. CASE ActivateFails
  BY <1>0, <1>9 DEF ActivateFails, Typed, Points, files, memory, history
<1>10. ASSUME Advance, pc \in {"activate", "switch", "verify", "commit"} PROVE task' \in Tasks /\ pc' \in Points
  <2>1. task' \in Tasks /\ pc' \in {"prepare", "switch", "verify", "commit", "promote"}
    BY <1>10, AdvanceDoes
  <2> QED BY <2>1 DEF Points
<1>11. CASE Switch
  <2>1. Advance /\ pc = "switch" /\ UNCHANGED <<files, entries, waiting, history>>
    BY <1>11 DEF Switch
  <2>2. served' \in RouteMaps
    BY <1>11, SwitchTyped
  <2>3. task' \in Tasks /\ pc' \in Points
    BY <1>10, <2>1
  <2> QED BY <1>0, <2>1, <2>2, <2>3 DEF Typed, files, history
<1>12. CASE SwitchFails
  BY <1>0, <1>12 DEF SwitchFails, Undo, Typed, Points, files, memory, history
<1>13. CASE Verify
  <2>1. pc = "verify" /\ (Advance \/ Undo) /\ UNCHANGED <<files, memory, history>>
    BY <1>13 DEF Verify
  <2>2. task' \in Tasks /\ pc' \in Points
    BY <1>0, <1>10, <2>1 DEF Undo, Points, Typed
  <2> QED BY <1>0, <2>1, <2>2 DEF Typed, files, memory, history
<1>14. CASE Commit
  <2>1. pc = "commit" /\ Advance /\ txn' = None /\ UNCHANGED <<disk, base, pending, memory, history>>
    BY <1>14 DEF Commit
  <2>2. task' \in Tasks /\ pc' \in Points
    BY <1>10, <2>1
  <2> QED BY <1>0, <2>1, <2>2 DEF Typed, memory, history
<1>15. CASE CommitFails
  BY <1>0, <1>15 DEF CommitFails, Undo, Typed, Points, files, memory, history
<1>16. pc \in {"promote", "forget"} => waiting # None
  BY DEF Basis, StepsFit, MemoryFits
<1>17. waiting # None => Document(4, waiting) \in Documents
  BY <1>0, DocumentIs DEF Typed
<1>18. CASE Promote
  BY <1>0, <1>16, <1>17, <1>18 DEF Promote, Typed, Points, history
<1>19. CASE Forget
  <2>1. Answer("ok") /\ pending' = None /\ waiting' = None /\ approved' \subseteq approved
        /\ UNCHANGED <<disk, txn, base, entries, served, retired, blame>>
    BY <1>19 DEF Forget
  <2> QED BY <1>0, <1>3, <2>1 DEF Typed
<1>20. CASE PromoteFails
  <2>1. /\ Answer("ok") /\ UNCHANGED <<disk, txn, pending, memory, history>>
        /\ base' = base \/ (pc = "promote" /\ base' = Document(4, waiting))
    BY <1>20 DEF PromoteFails
  <2> QED BY <1>0, <1>3, <1>16, <1>17, <2>1 DEF Typed, memory, history
<1>21. CASE RollBack
  <2>1. /\ disk' \in [Plugin -> Content \cup {None}] /\ txn' = None /\ served' \in RouteMaps /\ pc' = "abort"
        /\ UNCHANGED <<base, pending, entries, waiting, task, history>>
    BY <1>21, RollBackDoes
  <2> QED BY <1>0, <2>1 DEF Typed, Points, history
<1>22. CASE RollBackFails
  <2>1. task.routes \in RouteMaps
    BY <1>0, TaskIs DEF Typed
  <2> QED BY <1>0, <1>22, <2>1 DEF RollBackFails, Typed, Points, files, history
<1>23. CASE Abort
  <2>1. /\ Answer("failed") /\ (pending' = None \/ pending' = pending) /\ (waiting' = None \/ waiting' = waiting)
        /\ UNCHANGED <<disk, txn, base, entries, served, history>>
    BY <1>23 DEF Abort
  <2> QED BY <1>0, <1>3, <2>1 DEF Typed, history
<1>24. CASE AbortFails
  BY <1>0, <1>3, <1>24 DEF AbortFails, Typed, files, memory, history
<1> QED
  BY <1>1, <1>2, <1>4, <1>5, <1>6, <1>7, <1>8, <1>9, <1>11, <1>12, <1>13, <1>14, <1>15, <1>18,
     <1>19, <1>20, <1>21, <1>22, <1>23, <1>24 DEF CommandNext

LEMMA TypeStep == ASSUME Basis, [Next]_vars PROVE TypeOK'
<1>0. Typed
  BY DEF Basis, TypeOK, Typed
<1>1. {tasks, faults, crashes, outside}' \subseteq Nat
  BY BoundsTyped DEF Basis
<1>2. CASE StartupNext
  BY <1>1, <1>2, StartTypes DEF TypeOK
<1>3. CASE PlanNext
  <2>1. /\ pc' = "plan" /\ task' \in Tasks /\ blame' = IF pending = None THEN blame \cap {"raced"} ELSE blame
        /\ UNCHANGED <<files, memory, approved, retired>>
    BY <1>3, PlanKeeps DEF Basis
  <2>2. blame' \subseteq {"outside", "raced", "drift", "leftover"} /\ pc' \in Points
    BY <1>0, <2>1 DEF Typed, Points
  <2>3. Typed'
    BY <1>0, <2>1, <2>2 DEF Typed, files, memory
  <2> QED BY <1>1, <2>3 DEF Typed, TypeOK
<1>4. CASE CommandNext
  BY <1>1, <1>4, CommandTypes DEF Typed, TypeOK
<1>5. CASE \E p \in Plugin, c \in Content \cup {None} : ChangeOutside(p, c)
  <2>1. PICK p \in Plugin, c \in Content \cup {None} : ChangeOutside(p, c)
    BY <1>5
  <2>2. Typed'
    BY <1>0, <2>1 DEF ChangeOutside, Typed, memory
  <2> QED BY <1>1, <2>2 DEF Typed, TypeOK
<1>6. CASE LoseBaseline
  <2>1. Typed'
    BY <1>0, <1>6 DEF LoseBaseline, Typed, memory
  <2> QED BY <1>1, <2>1 DEF Typed, TypeOK
<1>7. CASE Crash
  <2>1. <<>> \in Entries /\ <<>> \in RouteMaps
    BY EmptyMap DEF Entries, RouteMaps
  <2>2. Typed'
    BY <1>0, <1>7, <2>1, NoTaskIs DEF Crash, Typed, Points, files, history
  <2> QED BY <1>1, <2>2 DEF Typed, TypeOK
<1>8. CASE UNCHANGED vars
  <2>1. Typed'
    BY <1>0, <1>8 DEF Typed, vars, files, memory, history
  <2> QED BY <1>1, <2>1 DEF Typed, TypeOK
<1> QED BY <1>2, <1>3, <1>4, <1>5, <1>6, <1>7, <1>8 DEF Next

\* The first conjuncts of GoalFits.
GoalShape(kind, goal) ==
  /\ kind = "install" => \E p \in Plugin, c \in Signed : goal = [q \in {p} |-> c]
  /\ kind \in {"save", "cases"} => \E p \in Plugin, c \in Mapping : goal = [q \in {p} |-> c]
  /\ kind \in {"uninstall", "delete"} => \E p \in Plugin : goal = [q \in {p} |-> None]
  /\ kind = "import" => goal \in [Plugin -> Content]
  /\ kind \in {"reload", "none"} => goal = <<>>

LEMMA GoalParts ==
  ASSUME GoalShape(task.kind, task.goal)',
         (Working /\ task.kind \in {"install", "save", "cases"} => Members \subseteq DOMAIN task.candidates)',
         (Working /\ task.kind = "cases" =>
            /\ task.seen \in [Plugin -> Content \cup {None}]
            /\ task.seen[Target] \in Mapping /\ Wanted # task.seen[Target]
            /\ Wanted = [task.seen[Target] EXCEPT !.cases = Wanted.cases])'
  PROVE  GoalFits'
BY DEF GoalFits, GoalShape

LEMMA SameGoal ==
  ASSUME task'.goal = task.goal
  PROVE  Members' = Members /\ Target' = Target /\ Wanted' = Wanted
BY DEF Members, Target, Wanted

\* A command that goes on is about the same.
LEMMA GoalKept ==
  ASSUME GoalFits, task'.goal = task.goal, task'.kind = task.kind,
         Working' => /\ Working /\ task'.seen = task.seen
                     /\ task.kind \in {"install", "save", "cases"} =>
                          DOMAIN task'.candidates = DOMAIN task.candidates
  PROVE  GoalFits'
<1>1. Members' = Members /\ Target' = Target /\ Wanted' = Wanted
  BY SameGoal
<1>2. Working => /\ task.kind \in {"install", "save", "cases"} => Members \subseteq DOMAIN task.candidates
                 /\ task.kind = "cases" =>
                      /\ task.seen \in [Plugin -> Content \cup {None}]
                      /\ task.seen[Target] \in Mapping /\ Wanted # task.seen[Target]
                      /\ Wanted = [task.seen[Target] EXCEPT !.cases = Wanted.cases]
  BY DEF GoalFits
<1>3. (Working /\ task.kind \in {"install", "save", "cases"} => Members \subseteq DOMAIN task.candidates)'
  BY <1>1, <1>2
<1>4. (Working /\ task.kind = "cases" =>
         /\ task.seen \in [Plugin -> Content \cup {None}]
         /\ task.seen[Target] \in Mapping /\ Wanted # task.seen[Target]
         /\ Wanted = [task.seen[Target] EXCEPT !.cases = Wanted.cases])'
  BY <1>1, <1>2
<1>5. GoalShape(task.kind, task.goal)
  BY DEF GoalFits, GoalShape
<1>6. GoalShape(task'.kind, task'.goal)
  BY <1>5
<1> QED BY <1>3, <1>4, <1>6, GoalParts

\* Nothing runs.
LEMMA GoalNone ==
  ASSUME task'.kind = "none", task'.goal = <<>>
  PROVE  GoalFits'
BY DEF GoalFits

LEMMA GoalStep == ASSUME Basis, [Next]_vars PROVE GoalFits'
<1>0. GoalFits /\ (Working <=> pc \notin {"down", "refused", "open", "forget pending", "review", "idle", "plan"})
  BY DEF Basis, Working, Closed
<1>1. CASE StartupNext
  <2>1. task.kind = "none" /\ task.goal = <<>> /\ task' \in {task, NoTask, [NoTask EXCEPT !.candidates = Present(Restored)]}
    BY <1>1 DEF StartupNext, Startup, OpenWithoutBaseline, AdoptPending, Refuse, ForgetPending, Review,
       StartupFails, Basis, StepsFit, GoalFits, Closed
  <2>2. task'.kind = "none" /\ task'.goal = <<>>
    BY <2>1, NoTaskIs DEF NoTask
  <2> QED BY <2>2, GoalNone
<1>2. CASE PlanNext
  BY <1>2, PlanKeeps DEF Basis
<1>3. CASE CommandNext
  <2>1. CASE Check
    <3>1. /\ task'.kind = task.kind /\ task'.goal = task.goal
          /\ task'.seen = IF task.kind = "cases" THEN disk ELSE task.seen
          /\ task.kind \in {"install", "save", "cases"} => task'.candidates = With(Inspected, task.goal)
      BY <2>1, CheckDoes
    <3>2. Members' = Members /\ Target' = Target /\ Wanted' = Wanted
      BY <3>1, SameGoal
    <3>3. task.kind \in {"install", "save", "cases"} => Members' \subseteq DOMAIN task'.candidates
      BY <3>1, <3>2 DEF With, Members
    <3>4. task.kind = "cases" =>
            /\ task'.seen \in [Plugin -> Content \cup {None}]
            /\ task'.seen[Target'] \in Mapping /\ Wanted' # task'.seen[Target']
            /\ Wanted' = [task'.seen[Target'] EXCEPT !.cases = Wanted'.cases]
      <4>1. task.kind = "cases" =>
              /\ disk[Target] \in Mapping /\ Wanted # disk[Target]
              /\ Wanted = [disk[Target] EXCEPT !.cases = Wanted.cases]
              /\ disk \in [Plugin -> Content \cup {None}]
        BY <2>1, EditDoes DEF Basis, TypeOK
      <4> QED BY <3>1, <3>2, <4>1
    <3>5. GoalShape(task.kind, task.goal)
      BY <1>0 DEF GoalFits, GoalShape
    <3>6. GoalShape(task'.kind, task'.goal)
      BY <3>1, <3>5
    <3> QED BY <3>1, <3>3, <3>4, <3>6, GoalParts
  <2>2. CASE Recover
    BY <1>0, <2>2, GoalKept DEF Recover, Working, Closed
  <2>3. ASSUME NEW a \in {"ok", "failed"}, Answer(a) PROVE GoalFits'
    <3>1. pc' = "idle" /\ task'.goal = task.goal /\ task'.kind = task.kind
      BY <2>3, AnswerIs DEF Basis
    <3> QED BY <1>0, <3>1, GoalKept DEF Working, Closed
  <2>4. CASE Decline \/ Forget \/ PromoteFails \/ Abort \/ AbortFails
    BY <2>3, <2>4 DEF Decline, Forget, PromoteFails, Abort, AbortFails
  <2>5. CASE Begin
    <3>1. /\ task'.kind = task.kind /\ task'.goal = task.goal /\ task'.seen = task.seen
          /\ task'.candidates = task.candidates /\ pc = "begin"
      BY <2>5, BeginDoes
    <3> QED BY <1>0, <3>1, GoalKept
  <2>6. CASE Prepare
    <3>1. /\ task'.kind = task.kind /\ task'.goal = task.goal /\ task'.seen = task.seen
          /\ task'.candidates = Recorded /\ pc = "prepare" /\ Preparable
      BY <2>6, PreparedTask
    <3>2. task.kind \in {"install", "save", "cases"} => DOMAIN Recorded = DOMAIN task.candidates
      BY DEF Recorded, Candidates
    <3> QED BY <1>0, <3>1, <3>2, GoalKept
  <2>7. CASE PrepareFails \/ ActivateFails \/ SwitchFails \/ CommitFails \/ RollBack \/ RollBackFails \/ Promote
    <3>1. task' = task /\ Working
      BY <1>0, <2>7 DEF PrepareFails, ActivateFails, SwitchFails, CommitFails, RollBack, RollBackFails, Promote, Undo
    <3> QED BY <1>0, <3>1, GoalKept
  <2>8. CASE Activate
    <3>1. /\ task'.kind = task.kind /\ task'.goal = task.goal /\ task'.seen = task.seen
          /\ task'.candidates = task.candidates /\ pc = "activate"
      BY <2>8, ActivateDoes
    <3> QED BY <1>0, <3>1, GoalKept
  <2>9. CASE Switch \/ Verify \/ Commit
    <3>1. CASE Advance /\ pc \in {"switch", "verify", "commit"}
      <4>1. /\ task'.kind = task.kind /\ task'.goal = task.goal /\ task'.seen = task.seen
            /\ task'.candidates = task.candidates
        BY <3>1, AdvanceDoes
      <4> QED BY <1>0, <3>1, <4>1, GoalKept
    <3>2. CASE Undo /\ pc \in {"switch", "verify", "commit"}
      BY <1>0, <3>2, GoalKept DEF Undo
    <3> QED BY <2>9, <3>1, <3>2 DEF Switch, Verify, Commit
  <2> QED BY <1>3, <2>1, <2>2, <2>4, <2>5, <2>6, <2>7, <2>8, <2>9 DEF CommandNext
<1>4. CASE (\E p \in Plugin, c \in Content \cup {None} : ChangeOutside(p, c)) \/ LoseBaseline \/ UNCHANGED vars
  <2>1. task' = task /\ pc' = pc
    BY <1>4 DEF ChangeOutside, LoseBaseline, vars
  <2> QED BY <1>0, <2>1, GoalKept DEF Working, Closed
<1>5. CASE Crash
  BY <1>5, NoTaskIs, GoalNone DEF Crash
<1> QED BY <1>1, <1>2, <1>3, <1>4, <1>5 DEF Next

\* Where a command is when the list of its steps fits.
LEMMA StepsFrom ==
  ASSUME (pc = "plan" \/ Working => task.kind # "none")', (~Working \/ pc = "begin" => ~task.prepared)',
         (Closed => task.kind = "none")', (pc \in {"promote", "forget"} => task.prepared)',
         (pc \in {"prepare", "activate", "switch", "verify", "commit"} => Stands)'
  PROVE  StepsFit'
BY DEF StepsFit, Stands, TodoASC, TodoPSC, TodoPSVC, TodoSVC, TodoSV, TodoSC, TodoVC, TodoP, TodoV, TodoC

LEMMA StepsStep == ASSUME Basis, [Next]_vars PROVE StepsFit'
<1>0. /\ pc = "plan" \/ Working => task.kind # "none"
      /\ ~Working \/ pc = "begin" => ~task.prepared
      /\ Closed => task.kind = "none"
      /\ pc \in {"promote", "forget"} => task.prepared
      /\ pc \in {"prepare", "activate", "switch", "verify", "commit"} => Stands
  BY StandsIs DEF Basis, StepsFit
<1>1. CASE StartupNext
  <2>1. /\ task.kind = "none" /\ task' \in {task, NoTask, [NoTask EXCEPT !.candidates = Present(Restored)]}
        /\ pc' \in {"down", "refused", "open", "forget pending", "review", "idle"} /\ ~task.prepared
    BY <1>0, <1>1 DEF StartupNext, Startup, OpenWithoutBaseline, AdoptPending, Refuse, ForgetPending, Review,
       StartupFails, Closed, Working
  <2>2. task'.kind = "none" /\ ~task'.prepared
    BY <2>1, NoTaskIs DEF NoTask
  <2> QED BY <2>1, <2>2, StepsFrom DEF Closed, Working
<1>2. CASE PlanNext
  <2>1. pc' = "plan" /\ task'.kind # "none" /\ task'.prepared = FALSE
    BY <1>2, PlanKeeps DEF Basis
  <2> QED BY <2>1, StepsFrom DEF Closed, Working
<1>3. CASE CommandNext
  <2>1. CASE Check
    <3>1. pc = "plan" /\ pc' = "begin" /\ task'.kind = task.kind /\ task'.prepared = task.prepared
      BY <2>1, CheckDoes
    <3> QED BY <1>0, <3>1, StepsFrom DEF Closed, Working
  <2>2. CASE Recover
    <3>1. pc = "plan" /\ pc' = "plan" /\ task' = task
      BY <2>2 DEF Recover
    <3> QED BY <1>0, <3>1, StepsFrom DEF Closed, Working
  <2>3. ASSUME NEW a \in {"ok", "failed"}, Answer(a) PROVE StepsFit'
    <3>1. pc' = "idle" /\ task'.prepared = FALSE
      BY <2>3, AnswerIs DEF Basis
    <3> QED BY <3>1, StepsFrom DEF Working, Closed
  <2>4. CASE Decline \/ Forget \/ PromoteFails \/ Abort \/ AbortFails
    BY <2>3, <2>4 DEF Decline, Forget, PromoteFails, Abort, AbortFails
  <2>5. CASE Begin
    <3>1. task'.kind = task.kind /\ task'.prepared = FALSE /\ pc = "begin" /\ pc' \in {"prepare", "activate"} /\ Stands'
      BY <2>5, BeginDoes
    <3> QED BY <1>0, <3>1, StepsFrom DEF Closed, Working
  <2>6. CASE Prepare
    <3>1. /\ task'.kind = task.kind /\ task'.prepared = TRUE /\ pc = "prepare"
          /\ (pc' \in {"activate", "switch"} /\ Stands') \/ pc' = "promote"
      BY <2>6, PreparedTask
    <3> QED BY <1>0, <3>1, StepsFrom DEF Closed, Working
  <2>7. CASE PrepareFails \/ ActivateFails \/ SwitchFails \/ CommitFails \/ RollBack \/ RollBackFails
    <3>1. /\ task' = task /\ pc' \in {"undo", "abort"}
          /\ pc \in {"prepare", "activate", "switch", "commit", "undo"}
      BY <2>7 DEF PrepareFails, ActivateFails, SwitchFails, CommitFails, RollBack, RollBackFails, Undo
    <3> QED BY <1>0, <3>1, StepsFrom DEF Closed, Working
  <2>8. CASE Activate
    <3>1. task'.kind = task.kind /\ pc = "activate" /\ pc' \in {"switch", "prepare"} /\ Stands'
      BY <2>8, ActivateDoes
    <3> QED BY <1>0, <3>1, StepsFrom DEF Closed, Working
  <2>9. CASE Switch \/ Verify \/ Commit
    <3>1. CASE Advance /\ pc \in {"switch", "verify", "commit"}
      <4>1. /\ task'.kind = task.kind /\ task'.prepared = task.prepared
            /\ (pc' \in {"prepare", "switch", "verify", "commit"} /\ Stands') \/ (pc' = "promote" /\ task.prepared)
        BY <3>1, AdvanceDoes
      <4> QED BY <1>0, <3>1, <4>1, StepsFrom DEF Closed, Working
    <3>2. CASE Undo /\ pc \in {"switch", "verify", "commit"}
      BY <1>0, <3>2, StepsFrom DEF Undo, Closed, Working
    <3> QED BY <2>9, <3>1, <3>2 DEF Switch, Verify, Commit
  <2>10. CASE Promote
    BY <1>0, <2>10, StepsFrom DEF Promote, Closed, Working
  <2> QED BY <1>3, <2>1, <2>2, <2>4, <2>5, <2>6, <2>7, <2>8, <2>9, <2>10 DEF CommandNext
<1>4. CASE (\E p \in Plugin, c \in Content \cup {None} : ChangeOutside(p, c)) \/ LoseBaseline \/ UNCHANGED vars
  <2>1. task' = task /\ pc' = pc
    BY <1>4 DEF ChangeOutside, LoseBaseline, vars
  <2>2. Working' = Working /\ Closed' = Closed /\ Stands' = Stands
    BY <2>1 DEF Working, Closed, Stands
  <2> QED BY <1>0, <2>1, <2>2, StepsFrom
<1>5. CASE Crash
  BY <1>5, NoTaskIs, StepsFrom DEF Crash, Closed, Working
<1> QED BY <1>1, <1>2, <1>3, <1>4, <1>5 DEF Next

\* The conjuncts of MemoryFits, for a step that ends with a document of schema 4.
LEMMA MemoryStep == ASSUME Basis, [Next]_vars PROVE MemoryFits'
<1>0. /\ Closed => entries = <<>> /\ waiting = None /\ served = <<>>
      /\ ~Closed => base = Document(4, entries) \/ (waiting # None /\ base = Document(4, waiting))
      /\ waiting # None => pending = Document(4, waiting)
      /\ pending # None => pending.schema = 4
      /\ task.prepared => waiting # None
      /\ task.prepared /\ pc # "forget" => base = Document(4, entries)
      /\ pc = "forget" => entries = waiting /\ base = Document(4, waiting)
      /\ pc \in {"forget pending", "review"} => base # None
      /\ pc = "review" => pending = None
      /\ base # None /\ base.schema < 4 =>
           \A p \in DOMAIN base.plugins : base.plugins[p].content.cases = None
  <2>1. MemoryFits
    BY DEF Basis
  <2> QED BY <2>1 DEF MemoryFits
<1>1. /\ ~Working \/ pc = "begin" => ~task.prepared
      /\ Closed => task.kind = "none"
      /\ pc \in {"promote", "forget"} => task.prepared
      /\ pc \in {"promote", "forget"} => waiting # None
  BY <1>0 DEF Basis, StepsFit
<1>2. \A e : Document(4, e).schema = 4
  BY DEF Document
<1> DEFINE M == /\ Closed => entries = <<>> /\ waiting = None /\ served = <<>>
                /\ ~Closed => base = Document(4, entries) \/ (waiting # None /\ base = Document(4, waiting))
                /\ waiting # None => pending = Document(4, waiting)
                /\ pending # None => pending.schema = 4
                /\ task.prepared => waiting # None
                /\ task.prepared /\ pc # "forget" => base = Document(4, entries)
                /\ pc = "forget" => entries = waiting /\ base = Document(4, waiting)
                /\ pc \in {"forget pending", "review"} => base # None
                /\ pc = "review" => pending = None
                /\ base # None /\ base.schema < 4 =>
                     \A p \in DOMAIN base.plugins : base.plugins[p].content.cases = None
<1> SUFFICES M'
  BY DEF MemoryFits
<1>3. CASE StartupNext
  <2>1. CASE Startup
    <3>1. pc' = "open" /\ pc \in {"down", "refused"} /\ task'.prepared = FALSE /\ UNCHANGED <<base, pending, memory>>
      BY <2>1, NoTaskIs DEF Startup, NoTask
    <3> QED BY <1>0, <3>1 DEF Closed, memory
  <2>2. CASE OpenWithoutBaseline
    <3>1. entries' \in Entries /\ base' = Document(4, entries') /\ waiting' = None /\ pc' = "idle"
          /\ task'.prepared = FALSE /\ pending' = pending
      BY <2>2, OpenDoes, NoTaskIs
    <3>2. base'.schema = 4 /\ ~(base'.schema < 4) /\ (pending' # None => pending'.schema = 4)
      <4>1. base'.schema = 4
        BY <1>2, <3>1
      <4>2. ~(base'.schema < 4)
        BY <4>1
      <4>3. pending' # None => pending'.schema = 4
        BY <1>0, <3>1
      <4> QED BY <4>1, <4>2, <4>3
    <3> QED BY <3>1, <3>2 DEF Closed
  <2>3. CASE AdoptPending
    <3>1. /\ pc = "open" /\ pc' = "forget pending" /\ base # None /\ UNCHANGED <<pending, memory, task>>
          /\ base' = base \/ (pending # None /\ base' = pending)
      BY <2>3 DEF AdoptPending, PendingWins
    <3>2. CASE base' = base
      BY <1>0, <3>1, <3>2 DEF Closed, memory
    <3>3. CASE pending # None /\ base' = pending
      <4>1. base'.schema = 4 /\ ~(base'.schema < 4) /\ base' # None
        <5>1. pending.schema = 4 /\ pending # None
          BY <1>0, <3>3
        <5>2. base'.schema = 4
          BY <3>3, <5>1
        <5>3. ~(base'.schema < 4)
          BY <5>2
        <5> QED BY <3>3, <5>1, <5>2, <5>3
      <4> QED BY <1>0, <3>1, <4>1 DEF Closed, memory
    <3> QED BY <3>1, <3>2, <3>3
  <2>4. CASE Refuse \/ StartupFails
    <3>1. /\ pc' \in {"refused", "down"} /\ Closed /\ task'.prepared = FALSE /\ UNCHANGED <<base, pending, memory>>
      BY <2>4, NoTaskIs DEF Refuse, StartupFails, Closed, files
    <3> QED BY <1>0, <3>1 DEF Closed, memory
  <2>5. CASE ForgetPending
    BY <1>0, <2>5 DEF ForgetPending, Closed, memory
  <2>6. CASE Review
    <3>1. base' = Document(4, entries') /\ waiting' = None /\ pc' = "idle"
          /\ task'.prepared = FALSE /\ pending' = pending
      BY <2>6, ReviewDoes, NoTaskIs
    <3>2. base'.schema = 4 /\ ~(base'.schema < 4) /\ (pending' # None => pending'.schema = 4)
      <4>1. base'.schema = 4
        BY <1>2, <3>1
      <4>2. ~(base'.schema < 4)
        BY <4>1
      <4>3. pending' # None => pending'.schema = 4
        BY <1>0, <3>1
      <4> QED BY <4>1, <4>2, <4>3
    <3> QED BY <3>1, <3>2 DEF Closed
  <2> QED BY <1>3, <2>1, <2>2, <2>3, <2>4, <2>5, <2>6 DEF StartupNext
<1>4. CASE PlanNext
  <2>1. pc = "idle" /\ pc' = "plan" /\ task'.prepared = FALSE /\ UNCHANGED <<files, memory>>
    BY <1>4, PlanKeeps DEF Basis
  <2> QED BY <1>0, <2>1 DEF Closed, files, memory
<1>5. CASE CommandNext
  <2>1. CASE Check
    <3>1. pc = "plan" /\ pc' = "begin" /\ task'.prepared = task.prepared /\ UNCHANGED <<files, memory>>
      BY <2>1, CheckDoes
    <3> QED BY <1>0, <3>1 DEF Closed, files, memory
  <2>2. CASE Recover
    BY <1>0, <2>2 DEF Recover, Closed, memory
  <2>3. ASSUME NEW a \in {"ok", "failed"}, Answer(a) PROVE pc' = "idle" /\ task'.prepared = FALSE
    BY <2>3, AnswerIs DEF Basis
  <2>4. CASE Decline
    BY <1>0, <2>3, <2>4 DEF Decline, Closed, files, memory
  <2>5. CASE Begin
    <3>1. pc = "begin" /\ pc' \in {"prepare", "activate"} /\ task'.prepared = FALSE /\ UNCHANGED <<files, memory>>
      BY <2>5, BeginDoes
    <3> QED BY <1>0, <3>1 DEF Closed, files, memory
  <2>6. CASE Prepare
    <3>1. /\ pc = "prepare" /\ pc' \in {"activate", "switch", "promote"} /\ Preparable /\ waiting = None
          /\ pending' = NextDocument /\ waiting' = NextDocument.plugins /\ UNCHANGED <<base, entries, served>>
      BY <2>6, PreparedTask
    <3>2. NextDocument = Document(4, NextDocument.plugins) /\ NextDocument.plugins # None
      BY <3>1, PrepareDoes
    <3> QED BY <1>0, <1>2, <3>1, <3>2 DEF Closed
  <2>7. CASE PrepareFails
    <3>1. /\ pc = "prepare" /\ pc' = "undo" /\ UNCHANGED <<base, memory, task>>
          /\ pending' = pending \/ (Preparable /\ waiting = None /\ pending' = NextDocument)
      BY <2>7 DEF PrepareFails, Undo
    <3>2. Preparable => NextDocument = Document(4, NextDocument.plugins)
      BY PrepareDoes
    <3> QED BY <1>0, <1>2, <3>1, <3>2 DEF Closed, memory
  <2>8. CASE ActivateFails \/ SwitchFails \/ CommitFails
    <3>1. /\ pc' \in {"undo", "abort"} /\ UNCHANGED <<base, pending, memory, task>> /\ ~Closed
          /\ pc \in {"activate", "switch", "commit"}
      BY <2>8 DEF ActivateFails, SwitchFails, CommitFails, Undo, files, Closed
    <3> QED BY <1>0, <3>1 DEF Closed, memory
  <2>9. CASE Activate
    <3>1. /\ pc = "activate" /\ pc' \in {"switch", "prepare"} /\ task'.prepared = task.prepared
          /\ UNCHANGED <<base, pending, memory>>
      BY <2>9, ActivateDoes
    <3> QED BY <1>0, <3>1 DEF Closed, memory
  <2>10. CASE Switch \/ Verify \/ Commit
    <3>1. /\ (Advance \/ Undo) /\ pc \in {"switch", "verify", "commit"} /\ UNCHANGED <<base, pending, entries, waiting>>
      BY <2>10 DEF Switch, Verify, Commit, files, memory
    <3>2. task'.prepared = task.prepared /\ pc' \in {"prepare", "switch", "verify", "commit", "promote", "undo"}
      BY <3>1, AdvanceDoes DEF Undo
    <3> QED BY <1>0, <3>1, <3>2 DEF Closed
  <2>11. CASE Promote
    <3>1. pc = "promote" /\ pc' = "forget" /\ base' = Document(4, waiting) /\ entries' = waiting
          /\ UNCHANGED <<pending, waiting, served, task>>
      BY <2>11 DEF Promote
    <3> QED BY <1>0, <1>1, <1>2, <3>1 DEF Closed
  <2>12. CASE Forget
    <3>1. pc = "forget" /\ Answer("ok") /\ pending' = None /\ waiting' = None /\ UNCHANGED <<base, entries, served>>
      BY <2>12 DEF Forget
    <3> QED BY <1>0, <1>2, <2>3, <3>1 DEF Closed
  <2>13. CASE PromoteFails
    <3>1. /\ pc \in {"promote", "forget"} /\ Answer("ok") /\ UNCHANGED <<pending, memory>>
          /\ base' = base \/ (pc = "promote" /\ base' = Document(4, waiting))
      BY <2>13 DEF PromoteFails
    <3>2. pc' = "idle" /\ task'.prepared = FALSE
      BY <2>3, <3>1
    <3>3. base = Document(4, entries) \/ (waiting # None /\ base = Document(4, waiting))
      BY <1>0, <3>1 DEF Closed
    <3>4. base' = Document(4, entries) \/ (waiting # None /\ base' = Document(4, waiting))
      BY <1>1, <3>1, <3>3
    <3>5. base'.schema = 4 /\ ~(base'.schema < 4)
      BY <1>2, <3>4
    <3> QED BY <1>0, <3>1, <3>2, <3>4, <3>5 DEF Closed, memory
  <2>14. CASE RollBack \/ RollBackFails
    <3>1. pc = "undo" /\ pc' = "abort" /\ UNCHANGED <<base, pending, entries, waiting, task>>
      BY <2>14 DEF RollBack, RollBackFails, files
    <3> QED BY <1>0, <3>1 DEF Closed
  <2>15. CASE Abort
    <3>1. /\ pc = "abort" /\ Answer("failed") /\ UNCHANGED <<base, entries, served>>
          /\ IF task.prepared THEN pending' = None /\ waiting' = None ELSE UNCHANGED <<pending, waiting>>
      BY <2>15 DEF Abort
    <3> QED BY <1>0, <2>3, <3>1 DEF Closed
  <2>16. CASE AbortFails
    <3>1. pc = "abort" /\ Answer("failed") /\ UNCHANGED <<base, pending, memory>>
      BY <2>16 DEF AbortFails, files
    <3> QED BY <1>0, <2>3, <3>1 DEF Closed, memory
  <2> QED BY <1>5, <2>1, <2>2, <2>4, <2>5, <2>6, <2>7, <2>8, <2>9, <2>10, <2>11, <2>12, <2>13,
             <2>14, <2>15, <2>16 DEF CommandNext
<1>6. CASE (\E p \in Plugin, c \in Content \cup {None} : ChangeOutside(p, c)) \/ UNCHANGED vars
  <2>1. UNCHANGED <<base, pending, memory, pc, task>>
    BY <1>6 DEF ChangeOutside, vars, files
  <2> QED BY <1>0, <2>1 DEF Closed, memory
<1>7. CASE LoseBaseline
  <2>1. pc = "down" /\ base' = None /\ UNCHANGED <<pending, memory, pc, task>>
    BY <1>7 DEF LoseBaseline
  <2> QED BY <1>0, <1>1, <2>1 DEF Closed, Working, memory
<1>8. CASE Crash
  <2>1. /\ pc' = "down" /\ task'.prepared = FALSE /\ entries' = <<>> /\ waiting' = None /\ served' = <<>>
        /\ UNCHANGED <<base, pending>>
    BY <1>8, NoTaskIs DEF Crash, files
  <2> QED BY <1>0, <2>1 DEF Closed
<1> QED BY <1>3, <1>4, <1>5, <1>6, <1>7, <1>8 DEF Next

LEMMA TransactionStep == ASSUME Basis, [Next]_vars PROVE TransactionFits'
<1>0. /\ pc \in {"begin", "activate"} => txn = None
      /\ pc = "prepare" /\ task.kind \in {"install", "save"} => txn = None
      /\ Working /\ task.kind \in {"reload", "cases"} => txn = None
      /\ pc \in {"promote", "forget"} => txn = None
      /\ pc \in {"undo", "abort"} /\ txn # None => DOMAIN txn = Members
      /\ pc \in {"switch", "verify", "commit"} /\ task.kind # "reload" => txn # None /\ DOMAIN txn = Members
      /\ pc = "prepare" /\ task.kind \in {"uninstall", "delete", "import"} => txn # None /\ DOMAIN txn = Members
  BY DEF Basis, TransactionFits
<1> DEFINE T ==
      /\ pc \in {"begin", "activate"} => txn = None
      /\ pc = "prepare" /\ task.kind \in {"install", "save"} => txn = None
      /\ Working /\ task.kind \in {"reload", "cases"} => txn = None
      /\ pc \in {"promote", "forget"} => txn = None
      /\ pc \in {"undo", "abort"} /\ txn # None => DOMAIN txn = Members
      /\ pc \in {"switch", "verify", "commit"} /\ task.kind # "reload" => txn # None /\ DOMAIN txn = Members
      /\ pc = "prepare" /\ task.kind \in {"uninstall", "delete", "import"} => txn # None /\ DOMAIN txn = Members
<1> SUFFICES T'
  BY DEF TransactionFits
<1>1. ~Working' => T'
  BY DEF Working, Closed
<1>2. CASE StartupNext \/ PlanNext \/ LoseBaseline \/ Crash
  <2>1. ~Working'
    <3>1. CASE StartupNext
      BY <3>1 DEF StartupNext, Startup, OpenWithoutBaseline, AdoptPending, Refuse, ForgetPending, Review,
         StartupFails, Working, Closed
    <3>2. CASE PlanNext
      BY <3>2, PlanKeeps DEF Basis, Working, Closed
    <3>3. CASE LoseBaseline \/ Crash
      BY <3>3 DEF LoseBaseline, Crash, Working, Closed
    <3> QED BY <1>2, <3>1, <3>2, <3>3
  <2> QED BY <1>1, <2>1
<1>3. CASE CommandNext
  <2>1. CASE Check
    <3>1. pc = "plan" /\ pc' = "begin" /\ txn = None /\ UNCHANGED files
      BY <2>1, CheckDoes
    <3> QED BY <3>1 DEF files
  <2>2. CASE Recover
    BY <1>1, <2>2 DEF Recover, Working, Closed
  <2>3. ASSUME NEW a \in {"ok", "failed"}, Answer(a) PROVE ~Working'
    BY <2>3, AnswerIs DEF Basis, Working, Closed
  <2>4. CASE Decline \/ Forget \/ PromoteFails \/ Abort \/ AbortFails
    BY <1>1, <2>3, <2>4 DEF Decline, Forget, PromoteFails, Abort, AbortFails
  <2>5. CASE Begin
    <3>1. /\ pc = "begin" /\ task'.kind = task.kind /\ UNCHANGED files
          /\ pc' = IF task.kind \in {"install", "save", "reload"} THEN "prepare" ELSE "activate"
      BY <2>5, BeginDoes
    <3> QED BY <1>0, <3>1 DEF files
  <2>6. CASE Prepare
    <3>1. /\ task'.kind = task.kind /\ task'.goal = task.goal /\ pc = "prepare" /\ txn' = txn
          /\ task.kind \in {"install", "save"} => pc' = "activate"
          /\ task.kind \in {"uninstall", "delete", "import", "reload"} => pc' = "switch"
          /\ task.kind = "cases" => pc' = "promote"
      BY <2>6, PreparedTask
    <3>2. task.kind \in {"install", "save", "uninstall", "delete", "import", "reload", "cases"}
      BY <3>1, StandsIs DEF Basis, Stands
    <3> QED BY <1>0, <3>1, <3>2 DEF Members, Working, Closed
  <2>7. CASE PrepareFails \/ ActivateFails \/ SwitchFails \/ CommitFails
    <3>1. /\ task' = task /\ txn' = txn /\ pc' \in {"undo", "abort"} /\ Working
          /\ pc \in {"prepare", "activate", "switch", "commit"}
      BY <2>7 DEF PrepareFails, ActivateFails, SwitchFails, CommitFails, Undo, files, Working, Closed
    <3>2. task.kind \in {"install", "save", "uninstall", "delete", "import", "reload", "cases"}
      BY <3>1, StandsIs DEF Basis, Stands
    <3> QED BY <1>0, <3>1, <3>2 DEF Members
  <2>8. CASE Activate
    <3>1. /\ task'.kind = task.kind /\ task'.goal = task.goal
          /\ pc' = (IF task.kind \in {"install", "save"} THEN "switch" ELSE "prepare")
          /\ task.kind = "cases" => txn' = None
          /\ task.kind # "cases" => txn' # None /\ DOMAIN txn' = Members
          /\ pc = "activate"
      BY <2>8, ActivateDoes
    <3>2. task.kind # "reload"
      BY <3>1, StandsIs DEF Basis, Stands
    <3> QED BY <3>1, <3>2 DEF Members
  <2>9. CASE (Switch \/ Verify \/ Commit) /\ Advance
    <3>1. /\ task'.kind = task.kind /\ task'.goal = task.goal
          /\ pc = "switch" => pc' = IF task.kind \in {"import", "reload"} THEN "verify" ELSE "commit"
          /\ pc = "verify" => pc' = IF task.kind = "import" THEN "commit" ELSE "promote"
          /\ pc = "commit" => pc' = "promote"
          /\ pc \in {"switch", "verify", "commit"}
          /\ IF pc = "commit" THEN txn' = None ELSE txn' = txn
      BY <2>9, AdvanceDoes DEF Switch, Verify, Commit, files
    <3>2. pc = "verify" => task.kind \in {"import", "reload"}
      BY StandsIs DEF Basis, Stands
    <3> QED BY <1>0, <3>1, <3>2 DEF Members, Working, Closed
  <2>10. CASE Verify /\ Undo
    BY <1>0, <2>10 DEF Verify, Undo, files, Members, Working, Closed
  <2>11. CASE RollBack \/ RollBackFails
    <3>1. pc = "undo" /\ pc' = "abort" /\ task' = task /\ txn' \in {None, txn}
      BY <2>11 DEF RollBack, RollBackFails, files
    <3> QED BY <1>0, <3>1 DEF Members, Working, Closed
  <2>12. CASE Promote
    BY <1>0, <2>12 DEF Promote
  <2> QED BY <1>3, <2>1, <2>2, <2>4, <2>5, <2>6, <2>7, <2>8, <2>9, <2>10, <2>11, <2>12
          DEF CommandNext, Switch, Verify, Commit
<1>4. CASE (\E p \in Plugin, c \in Content \cup {None} : ChangeOutside(p, c)) \/ UNCHANGED vars
  <2>1. txn' = txn /\ task' = task /\ pc' = pc
    BY <1>4 DEF ChangeOutside, vars, files
  <2> QED BY <1>0, <2>1 DEF Members, Working, Closed
<1> QED BY <1>2, <1>3, <1>4 DEF Next

LEMMA BasisStep == ASSUME Basis, [Next]_vars PROVE Basis'
BY TypeStep, GoalStep, StepsStep, MemoryStep, TransactionStep DEF Basis

LEMMA BasisInit == Init => Basis
<1> SUFFICES ASSUME Init PROVE Basis
  OBVIOUS
<1>1. <<>> \in Entries /\ <<>> \in RouteMaps
  BY EmptyMap DEF Entries, RouteMaps
<1>2. \A s \in Schemas : /\ InitialDocument(s) \in Documents /\ InitialDocument(s).schema = s
                         /\ s < 4 => \A p \in DOMAIN InitialDocument(s).plugins :
                                       InitialDocument(s).plugins[p].content.cases = None
  <2> SUFFICES ASSUME NEW s \in Schemas
               PROVE  /\ InitialDocument(s) \in Documents /\ InitialDocument(s).schema = s
                      /\ s < 4 => \A p \in DOMAIN InitialDocument(s).plugins :
                                    InitialDocument(s).plugins[p].content.cases = None
    OBVIOUS
  <2> DEFINE known == {p \in DOMAIN Present(disk) : s >= 3 \/ disk[p].kind = "signed"}
             one(p) == [disk[p] EXCEPT !.cases = IF s = 4 THEN disk[p].cases ELSE None]
             e == [p \in known |-> Entry(one(p), TRUE)]
  <2>1. disk \in [Plugin -> Content \cup {None}]
    BY DEF Init
  <2>2. DOMAIN Present(disk) = {p \in Plugin : disk[p] # None} /\ s \in 2..4
    BY <2>1, PresentIs, BaselineAssumption
  <2>3. ASSUME NEW p \in known PROVE one(p) \in Known /\ (s < 4 => one(p).cases = None)
    <3>1. disk[p] \in Content /\ disk[p] \in Known
      BY <2>1, <2>2, KnownIs
    <3>2. CASE s = 4
      BY <3>1, <3>2 DEF Known, Content, Signed, Mapping
    <3>3. CASE s < 4
      BY <3>1, <3>3 DEF Known, Content, Signed, Mapping
    <3> QED BY <2>2, <3>2, <3>3
  <2>4. InitialDocument(s) = Document(s, e)
    BY DEF InitialDocument
  <2> HIDE DEF one
  <2>5. \A p \in known : Entry(one(p), TRUE) \in [content : Known, installed : BOOLEAN] /\ Entry(one(p), TRUE).content = one(p)
    BY <2>3 DEF Entry
  <2>6. known \in SUBSET Plugin /\ e \in [known -> [content : Known, installed : BOOLEAN]]
    BY <2>2, <2>5
  <2>7. e \in Entries /\ DOMAIN e = known /\ \A p \in known : e[p].content = one(p)
    BY <2>5, <2>6, EntriesFrom
  <2> HIDE DEF e, known
  <2>8. Document(s, e) \in Documents /\ Document(s, e).schema = s /\ Document(s, e).plugins = e
    BY <2>2, <2>7 DEF Document, Documents
  <2> QED BY <2>3, <2>4, <2>7, <2>8
<1>3. TypeOK
  <2>1. disk \in [Plugin -> Content \cup {None}] /\ base \in Documents \cup {None} /\ task \in Tasks
    BY <1>2, NoTaskIs DEF Init
  <2>2. approved \subseteq Plugin \X Mapping
    <3>1. ASSUME NEW p \in {q \in Plugin : disk[q] \in Mapping}
          PROVE  <<p, disk[p]>> \in Plugin \X Mapping
      OBVIOUS
    <3>2. approved = {} \/ approved = {<<p, disk[p]>> : p \in {q \in Plugin : disk[q] \in Mapping}}
      BY DEF Init
    <3> QED BY <3>1, <3>2
  <2> QED BY <1>1, <2>1, <2>2 DEF Init, TypeOK, Points
<1>4. task.kind = "none" /\ task.goal = <<>> /\ ~task.prepared /\ pc = "down"
  BY NoTaskIs DEF Init
<1>5. GoalFits /\ StepsFit /\ TransactionFits
  BY <1>4 DEF GoalFits, StepsFit, TransactionFits, Working, Closed
<1>6. MemoryFits
  <2>1. base = None \/ \E s \in Schemas : base = InitialDocument(s)
    BY DEF Init
  <2>2. base # None /\ base.schema < 4 => \A p \in DOMAIN base.plugins : base.plugins[p].content.cases = None
    BY <1>2, <2>1
  <2> QED BY <1>4, <2>2 DEF Init, MemoryFits, Closed
<1> QED BY <1>3, <1>5, <1>6 DEF Basis

(***************************************************************************)
(* The directories while a command runs.                                   *)
(***************************************************************************)

\* The actions of a command, by what they do to its place and its records.
LEMMA CommandSplit ==
  ASSUME CommandNext
  PROVE  \/ Check \/ Recover \/ Begin \/ Prepare \/ Activate \/ Switch \/ Forget \/ RollBack
         \/ PrepareFails
         \/ Decline \/ Abort \/ AbortFails \/ PromoteFails
         \/ ((Verify \/ Commit) /\ Advance)
         \/ Promote
         \/ ActivateFails \/ SwitchFails \/ CommitFails \/ RollBackFails \/ (Verify /\ Undo)
BY DEF CommandNext, Verify, Commit

\* What is shown does not depend on what is replaced.
LEMMA ShownElsewhere ==
  ASSUME NEW e \in Entries, NEW a \in Entries, NEW d \in [Plugin -> Content \cup {None}],
         NEW g \in Partial(Plugin, Content)
  PROVE  With(Shown(e, a, With(d, g)), g) = With(Shown(e, a, d), g)
<1> DEFINE w == With(d, g)
           s == Shown(e, a, d)
           t == Shown(e, a, w)
<1>1. g \in Partial(Plugin, Content \cup {None})
  BY WiderMap
<1>2. w \in [Plugin -> Content \cup {None}]
  BY <1>1, WithFull
<1>3. \A p \in Plugin : p \notin DOMAIN g => w[p] = d[p]
  BY DEF With
<1> HIDE DEF w
<1>4. \A p \in Plugin : p \notin DOMAIN g => (p \in DOMAIN t <=> p \in DOMAIN s)
  BY <1>2, <1>3, ShownIs
<1>5. /\ s \in Partial(Plugin, Content) /\ t \in Partial(Plugin, Content)
      /\ \A p \in DOMAIN s : s[p] = d[p] /\ p \in Plugin
      /\ \A p \in DOMAIN t : t[p] = w[p] /\ p \in Plugin
  BY <1>2, ShownIs
<1> HIDE DEF s, t
<1>6. With(t, g) \in Partial(Plugin, Content) /\ With(s, g) \in Partial(Plugin, Content)
  BY <1>5, WithPartial
<1>7. \A p : p \in DOMAIN With(t, g) <=> p \in DOMAIN With(s, g)
  <2>1. DOMAIN With(t, g) = DOMAIN t \cup DOMAIN g
    BY DEF With
  <2>2. DOMAIN With(s, g) = DOMAIN s \cup DOMAIN g
    BY DEF With
  <2> QED BY <1>4, <1>5, <2>1, <2>2
<1>8. \A p \in DOMAIN With(t, g) : With(t, g)[p] = With(s, g)[p]
  BY <1>3, <1>4, <1>5 DEF With
<1>9. DOMAIN With(t, g) = DOMAIN With(s, g)
  BY <1>7
<1> QED BY <1>6, <1>8, <1>9, SameMap DEF s, t, w

\* Nothing of it changed, so what is inspected is the same.
LEMMA SameInspected ==
  ASSUME UNCHANGED <<disk, entries, waiting>>
  PROVE  Inspected' = Inspected /\ AcceptedMappings' = AcceptedMappings
BY DEF Inspected, AcceptedMappings, Present

\* What prepare records is what the command found, unless the directories were
\* changed meanwhile.
LEMMA RecordedStays ==
  ASSUME Basis, DirectoriesFit, pc = "prepare", Preparable,
         Undisturbed \/ task.kind \in {"uninstall", "delete", "import"}
  PROVE  Recorded = Candidates
<1>1. /\ Candidates \in Partial(Plugin, Content) /\ Recorded \in Partial(Plugin, Content)
      /\ DOMAIN Recorded = DOMAIN Candidates
      /\ \A p \in DOMAIN Recorded :
           /\ p \notin Definitions => Recorded[p] = Candidates[p]
           /\ Recorded[p].kind = Candidates[p].kind /\ Recorded[p].contract = Candidates[p].contract
           /\ p \in Definitions => Recorded[p].cases = disk[p].cases
  BY RecordedIs DEF Basis
<1>2. SUFFICES ASSUME NEW p \in Definitions
               PROVE  Recorded[p] = Candidates[p]
  BY <1>1, SameMap
<1>3. p \in DOMAIN Candidates /\ p \notin Staged /\ Candidates[p] \in Known /\ Recorded[p] \in Known
  BY <1>1, PartialIs, KnownIs DEF Definitions
<1>4. SUFFICES Candidates[p] = disk[p]
  BY <1>1, <1>3, SameContent
<1>5. disk \in [Plugin -> Content \cup {None}] /\ entries \in Entries /\ AcceptedMappings \in Entries
      /\ Inspected = Shown(entries, AcceptedMappings, disk)
  BY TypesAre DEF Basis, TypeOK
<1>6. \A q \in DOMAIN Inspected : Inspected[q] = disk[q]
  BY <1>5, ShownIs
<1>7. \A q \in DOMAIN Present(disk) : Present(disk)[q] = disk[q]
  BY <1>5, PresentIs
<1>8. CASE task.kind \in {"uninstall", "delete", "import"}
  BY <1>3, <1>6, <1>7, <1>8 DEF Candidates
<1>9. CASE task.kind = "reload" /\ Undisturbed
  BY <1>3, <1>7, <1>9 DEF Candidates, DirectoriesFit, Working, Closed
<1>10. CASE task.kind \in {"install", "save", "cases"} /\ Undisturbed
  <2>1. ~task.prepared
    BY <1>10, StandsIs DEF Stands, Basis
  <2>2. task.candidates = With(Inspected, task.goal) /\ Candidates = task.candidates
    BY <1>10, <2>1 DEF DirectoriesFit, Unprepared, Candidates
  <2>3. task.kind = "cases" => \A q \in Members : disk[q] = task.goal[q]
    BY <1>10 DEF DirectoriesFit
  <2>4. CASE p \in Members
    <3>1. task.kind = "cases"
      BY <1>3, <1>10, <2>4 DEF Staged
    <3>2. Candidates[p] = task.goal[p]
      BY <2>2, <2>4 DEF With, Members
    <3> QED BY <2>3, <2>4, <3>1, <3>2
  <2>5. CASE p \notin Members
    <3>1. p \in DOMAIN Inspected /\ Candidates[p] = Inspected[p]
      BY <1>3, <2>2, <2>5 DEF With, Members
    <3> QED BY <1>6, <3>1
  <2> QED BY <2>4, <2>5
<1>11. task.kind \in {"install", "save", "cases", "reload", "uninstall", "delete", "import"}
  BY StandsIs DEF Stands, Basis
<1> QED BY <1>8, <1>9, <1>10, <1>11

LEMMA DirectoriesStep == ASSUME Basis, DirectoriesFit, [Next]_vars PROVE DirectoriesFit'
<1>0. Undisturbed =>
        /\ Unprepared /\ task.kind \in {"install", "save", "cases"} =>
             task.candidates = With(Inspected, task.goal)
        /\ Working /\ task.kind = "reload" /\ pc \notin {"undo", "abort"} =>
             task.candidates = Present(disk)
        /\ \/ pc \in {"switch", "verify", "commit", "promote", "forget"}
           \/ pc = "prepare" /\ task.kind \notin {"install", "save"}
           => \A p \in Members : disk[p] = task.goal[p]
  BY DEF DirectoriesFit
<1> DEFINE D == Undisturbed =>
        /\ Unprepared /\ task.kind \in {"install", "save", "cases"} =>
             task.candidates = With(Inspected, task.goal)
        /\ Working /\ task.kind = "reload" /\ pc \notin {"undo", "abort"} =>
             task.candidates = Present(disk)
        /\ \/ pc \in {"switch", "verify", "commit", "promote", "forget"}
           \/ pc = "prepare" /\ task.kind \notin {"install", "save"}
           => \A p \in Members : disk[p] = task.goal[p]
<1> SUFFICES D'
  BY DEF DirectoriesFit
<1>1. ~Working' \/ pc' \in {"undo", "abort"} => D'
  BY DEF Working, Closed, Unprepared
<1>2. CASE StartupNext \/ PlanNext \/ LoseBaseline \/ Crash
  <2>1. ~Working'
    <3>1. CASE StartupNext
      BY <3>1 DEF StartupNext, Startup, OpenWithoutBaseline, AdoptPending, Refuse, ForgetPending, Review,
         StartupFails, Working, Closed
    <3>2. CASE PlanNext
      BY <3>2, PlanKeeps DEF Basis, Working, Closed
    <3>3. CASE LoseBaseline \/ Crash
      BY <3>3 DEF LoseBaseline, Crash, Working, Closed
    <3> QED BY <1>2, <3>1, <3>2, <3>3
  <2> QED BY <1>1, <2>1
<1>3. CASE CommandNext
  <2>1. CASE Check
    <3>1. /\ pc' = "begin" /\ task'.kind = task.kind /\ task'.goal = task.goal
          /\ task.kind \in {"install", "save", "cases"} => task'.candidates = With(Inspected, task.goal)
          /\ task.kind = "reload" => task'.candidates = Present(disk)
          /\ UNCHANGED <<disk, entries, waiting>>
      BY <2>1, CheckDoes DEF files, memory
    <3>2. Inspected' = Inspected /\ Present(disk)' = Present(disk)
      BY <3>1, SameInspected
    <3> QED BY <3>1, <3>2 DEF Members
  <2>2. CASE Recover
    BY <1>1, <2>2 DEF Recover, Working, Closed
  <2>3. CASE Decline \/ Abort \/ AbortFails \/ PromoteFails \/ Forget
    BY <1>1, <2>3 DEF Decline, Abort, AbortFails, PromoteFails, Forget, Answer, Working, Closed
  <2>4. CASE Begin
    <3>1. /\ pc = "begin" /\ task'.kind = task.kind /\ task'.goal = task.goal /\ task.prepared = FALSE
          /\ task'.candidates = task.candidates /\ UNCHANGED <<disk, entries, waiting, blame>>
          /\ pc' = IF task.kind \in {"install", "save", "reload"} THEN "prepare" ELSE "activate"
      BY <2>4, BeginDoes DEF files, memory, history
    <3>2. Inspected' = Inspected /\ Present(disk)' = Present(disk)
      BY <3>1, SameInspected
    <3>3. task.kind = "reload" => Members = {}
      BY DEF Basis, GoalFits, Members
    <3> QED BY <1>0, <3>1, <3>2, <3>3 DEF Members, Unprepared, Working, Closed, Undisturbed
  <2>5. CASE Prepare
    <3>1. /\ task'.kind = task.kind /\ task'.goal = task.goal /\ pc = "prepare" /\ disk' = disk
          /\ task'.candidates = Recorded /\ task'.prepared = TRUE /\ Preparable
          /\ blame' = blame \cup Drift
          /\ task.kind \in {"install", "save"} => pc' = "activate"
      BY <2>5, PreparedTask
    <3>2. Undisturbed' => Undisturbed
      BY <3>1 DEF Undisturbed
    <3>3. task.kind = "reload" /\ Undisturbed => Recorded = Present(disk)
      <4>1. task.kind = "reload" /\ Undisturbed => Recorded = Candidates /\ Candidates = task.candidates
        BY <3>1, RecordedStays DEF Candidates
      <4> QED BY <1>0, <3>1, <4>1 DEF Working, Closed
    <3>4. Present(disk)' = Present(disk)
      BY <3>1
    <3> QED BY <1>0, <3>1, <3>2, <3>3, <3>4 DEF Members, Unprepared
  <2>6. CASE Activate
    <3>1. /\ disk' = With(disk, task.goal) /\ task'.kind = task.kind /\ task'.goal = task.goal
          /\ task'.candidates = task.candidates /\ task'.prepared = task.prepared
          /\ pc = "activate" /\ UNCHANGED memory /\ pc' \in {"switch", "prepare"}
      BY <2>6, ActivateDoes
    <3>2. Undisturbed' => Undisturbed
      BY <2>6 DEF Undisturbed, Activate
    <3>3. \A p \in Members : disk'[p] = task.goal[p]
      <4>1. \A p \in DOMAIN task.goal : With(disk, task.goal)[p] = task.goal[p]
        BY DEF With
      <4>2. DOMAIN task.goal \subseteq Plugin
        BY TypesAre DEF Basis
      <4> QED BY <3>1, <4>1, <4>2 DEF Members
    <3>4. task.kind # "reload"
      BY <3>1, StandsIs DEF Basis, Stands
    <3>5. task.kind \in {"install", "save"} => task.prepared
      BY <3>1, StandsIs DEF Basis, Stands
    <3>6. task.kind = "cases" => With(Inspected', task.goal) = With(Inspected, task.goal)
      <4>1. /\ Inspected = Shown(entries, AcceptedMappings, disk) /\ AcceptedMappings \in Entries
            /\ entries \in Entries /\ disk \in [Plugin -> Content \cup {None}]
        BY TypesAre DEF Basis, TypeOK
      <4>2. Inspected' = Shown(entries', AcceptedMappings', disk')
        BY DEF Inspected, Shown
      <4>3. AcceptedMappings' = AcceptedMappings /\ entries' = entries
        BY <3>1 DEF AcceptedMappings, memory
      <4>4. task.kind = "cases" => task.goal \in Partial(Plugin, Content)
        BY TargetIs DEF Basis
      <4> QED BY <3>1, <4>1, <4>2, <4>3, <4>4, ShownElsewhere
    <3> QED BY <1>0, <3>1, <3>2, <3>3, <3>4, <3>5, <3>6 DEF Members, Unprepared
  <2>7. CASE Switch \/ ((Verify \/ Commit) /\ Advance)
    <3>1. /\ Advance /\ pc \in {"switch", "verify", "commit"} /\ UNCHANGED <<disk, blame>>
      BY <2>7 DEF Switch, Verify, Commit, files, history
    <3>2. /\ task'.kind = task.kind /\ task'.goal = task.goal /\ task'.candidates = task.candidates
          /\ task'.prepared = task.prepared /\ task.prepared
      BY <3>1, AdvanceDoes
    <3>3. Present(disk)' = Present(disk)
      BY <3>1
    <3> QED BY <1>0, <3>1, <3>2, <3>3 DEF Members, Unprepared, Undisturbed, Working, Closed
  <2>8. CASE RollBack \/ PrepareFails \/ ActivateFails \/ SwitchFails \/ CommitFails \/ RollBackFails \/ (Verify /\ Undo)
    BY <1>1, <2>8 DEF RollBack, PrepareFails, ActivateFails, SwitchFails, CommitFails, RollBackFails, Undo
  <2>9. CASE Promote
    <3>1. pc = "promote" /\ pc' = "forget" /\ task' = task /\ disk' = disk /\ blame' = blame
      BY <2>9 DEF Promote, history
    <3>2. Present(disk)' = Present(disk) /\ Members' = Members
      BY <3>1 DEF Members
    <3>3. Undisturbed' = Undisturbed /\ ~Unprepared' /\ Working
      BY <3>1 DEF Undisturbed, Unprepared, Working, Closed
    <3>4. Undisturbed => /\ task.kind = "reload" => task.candidates = Present(disk)
                         /\ \A p \in Members : disk[p] = task.goal[p]
      BY <1>0, <3>1, <3>3
    <3> QED BY <3>1, <3>2, <3>3, <3>4
  <2> QED BY <1>3, <2>1, <2>2, <2>3, <2>4, <2>5, <2>6, <2>7, <2>8, <2>9, CommandSplit
<1>4. CASE \E p \in Plugin, c \in Content \cup {None} : ChangeOutside(p, c)
  <2>1. pc' = pc /\ task' = task /\ (Working => blame' = blame \cup {"outside", "raced"})
    BY <1>4 DEF ChangeOutside, Working, Closed
  <2>2. Working' => ~Undisturbed'
    BY <2>1 DEF Undisturbed, Working, Closed
  <2> QED BY <1>1, <2>2
<1>5. CASE UNCHANGED vars
  <2>1. UNCHANGED <<disk, entries, waiting, task, pc, blame>>
    BY <1>5 DEF vars, files, memory, history
  <2>2. Inspected' = Inspected /\ Present(disk)' = Present(disk)
    BY <2>1, SameInspected
  <2> QED BY <1>0, <2>1, <2>2 DEF Members, Unprepared, Undisturbed, Working, Closed
<1> QED BY <1>2, <1>3, <1>4, <1>5 DEF Next

(***************************************************************************)
(* What was approved.                                                      *)
(***************************************************************************)

\* The same of given approvals; after a change meanwhile only the route counts.
Approves(A, b, p, c) ==
  IF "raced" \in b THEN \E d \in Mapping : <<p, d>> \in A /\ Route(d) = Route(c) ELSE <<p, c>> \in A
ApprovesAll(A, b, e) ==
  \A p \in DOMAIN e : e[p].content \in Mapping => Approves(A, b, p, e[p].content)
ApprovesManifests(A, b, m) ==
  \A p \in DOMAIN m : m[p] \in Mapping => Approves(A, b, p, m[p])
ApprovesRoutes(A, r) ==
  \A p \in DOMAIN r : r[p].kind = "mapping" => \E c \in Mapping : <<p, c>> \in A /\ Route(c) = r[p]

ApprovalFits ==
  /\ base # None => ApprovesAll(approved, blame, base.plugins)
  /\ pending # None => ApprovesAll(approved, blame, pending.plugins)
  /\ ApprovesAll(approved, blame, entries)
  /\ waiting # None => ApprovesAll(approved, blame, waiting)
  /\ ApprovesRoutes(approved, served) /\ ApprovesRoutes(approved, task.routes)
  /\ pc = "plan" \/ Working => ApprovesManifests(approved, blame, task.candidates)
  /\ Unprepared /\ task.kind = "import" => task.candidates = task.goal

LEMMA ApprovalIs == AcceptedAreApproved <=> ApprovalFits
BY DEF AcceptedAreApproved, ApprovalFits, AllApproved, RoutesApproved, ContentApproved, ApprovesAll,
   ApprovesManifests, ApprovesRoutes, Approves

LEMMA ApprovalNext == AcceptedAreApproved' <=> ApprovalFits'
BY DEF AcceptedAreApproved, ApprovalFits, AllApproved, RoutesApproved, ContentApproved, ApprovesAll,
   ApprovesManifests, ApprovesRoutes, Approves

\* More approvals, or less to be approved.
LEMMA ApprovesMore ==
  ASSUME NEW A, NEW B, A \subseteq B, NEW r, NEW s, "raced" \in r => "raced" \in s
  PROVE  /\ \A p, c : c \in Mapping /\ Approves(A, r, p, c) => Approves(B, s, p, c)
         /\ \A e : ApprovesAll(A, r, e) => ApprovesAll(B, s, e)
         /\ \A m : ApprovesManifests(A, r, m) => ApprovesManifests(B, s, m)
         /\ \A m : ApprovesRoutes(A, m) => ApprovesRoutes(B, m)
<1>1. ASSUME NEW p, NEW c, c \in Mapping, Approves(A, r, p, c) PROVE Approves(B, s, p, c)
  <2>1. CASE "raced" \in r
    BY <1>1, <2>1 DEF Approves
  <2>2. CASE "raced" \notin r
    BY <1>1, <2>2 DEF Approves
  <2> QED BY <2>1, <2>2
<1>2. \A e : ApprovesAll(A, r, e) => ApprovesAll(B, s, e)
  BY <1>1 DEF ApprovesAll
<1>3. \A m : ApprovesManifests(A, r, m) => ApprovesManifests(B, s, m)
  BY <1>1 DEF ApprovesManifests
<1>4. \A m : ApprovesRoutes(A, m) => ApprovesRoutes(B, m)
  BY DEF ApprovesRoutes
<1> QED BY <1>1, <1>2, <1>3, <1>4

\* An approval of a content is one of its route.
LEMMA ApprovesRoute ==
  ASSUME NEW A, NEW r, NEW p, NEW c \in Mapping, Approves(A, r, p, c)
  PROVE  \E d \in Mapping : <<p, d>> \in A /\ Route(d) = Route(c)
BY DEF Approves

LEMMA EmptyApproved == \A A : ApprovesRoutes(A, <<>>) /\ (\A r : ApprovesAll(A, r, <<>>) /\ ApprovesManifests(A, r, <<>>))
<1>1. DOMAIN <<>> = {}
  BY EmptyMap
<1> QED BY <1>1 DEF ApprovesRoutes, ApprovesAll, ApprovesManifests

\* The routes of approved contents are approved.
LEMMA RoutesOfApproved ==
  ASSUME NEW A, NEW r, NEW m \in Partial(Plugin, Content), ApprovesManifests(A, r, m)
  PROVE  ApprovesRoutes(A, Routes(m))
<1>1. /\ DOMAIN Routes(m) = DOMAIN m /\ \A p \in DOMAIN m : Routes(m)[p] = Route(m[p])
  BY ContentsKnown, RoutesIs
<1>2. \A p \in DOMAIN m : m[p] \in Content /\ m[p] \in Known
  BY PartialIs, KnownIs
<1>3. ASSUME NEW p \in DOMAIN m, Route(m[p]).kind = "mapping"
      PROVE  \E c \in Mapping : <<p, c>> \in A /\ Route(c) = Route(m[p])
  <2>1. m[p] \in Mapping
    BY <1>2, <1>3, RouteIs, KnownIs
  <2> QED BY <2>1, ApprovesRoute DEF ApprovesManifests
<1> QED BY <1>1, <1>3 DEF ApprovesRoutes

LEMMA RoutesWithout ==
  ASSUME NEW A, NEW m, NEW B, ApprovesRoutes(A, m)
  PROVE  ApprovesRoutes(A, Without(m, B))
BY DEF ApprovesRoutes, Without

LEMMA RoutesWith ==
  ASSUME NEW A, NEW m, NEW n, ApprovesRoutes(A, m), ApprovesRoutes(A, n)
  PROVE  ApprovesRoutes(A, With(m, n))
BY DEF ApprovesRoutes, With

\* Inspected mappings are accepted, so they are approved.
LEMMA InspectedApproved ==
  ASSUME Basis, ApprovalFits
  PROVE  /\ ApprovesManifests(approved, blame, Inspected)
         /\ \A p \in DOMAIN Inspected : Inspected[p] = disk[p]
<1>1. /\ AcceptedMappings \in Entries /\ Inspected = Shown(entries, AcceptedMappings, disk)
      /\ entries \in Entries /\ disk \in [Plugin -> Content \cup {None}]
  BY TypesAre DEF Basis, TypeOK
<1>2. ApprovesAll(approved, blame, AcceptedMappings)
  BY DEF ApprovalFits, AcceptedMappings
<1>3. \A p \in DOMAIN Inspected : /\ Inspected[p] = disk[p]
                                  /\ disk[p].kind = "mapping" =>
                                       p \in DOMAIN AcceptedMappings /\ AcceptedMappings[p].content = disk[p]
  BY <1>1, ShownIs
<1>4. \A c \in Mapping : c.kind = "mapping"
  BY KnownIs
<1> QED BY <1>2, <1>3, <1>4 DEF ApprovesManifests, ApprovesAll

\* Nothing new is accepted, and what was approved stays so.
LEMMA ApprovalKept ==
  ASSUME ApprovalFits, approved \subseteq approved', "raced" \in blame => "raced" \in blame',
         base' \in {base, pending, None}, pending' \in {pending, None},
         entries' = entries \/ entries' = <<>>, waiting' \in {waiting, None},
         served' \in {served, task.routes, <<>>}, task'.routes \in {task.routes, <<>>},
         (pc = "plan" \/ Working)' => (pc = "plan" \/ Working) /\ task'.candidates = task.candidates,
         Unprepared' => Unprepared /\ task'.kind = task.kind /\ task'.goal = task.goal
  PROVE  ApprovalFits'
<1> DEFINE A == approved
           B == approved'
           r == blame
           s == blame'
<1>1. A \subseteq B /\ ("raced" \in r => "raced" \in s)
  OBVIOUS
<1> HIDE DEF A, B, r, s
<1>2. /\ \A e : ApprovesAll(A, r, e) => ApprovesAll(B, s, e)
      /\ \A m : ApprovesManifests(A, r, m) => ApprovesManifests(B, s, m)
      /\ \A m : ApprovesRoutes(A, m) => ApprovesRoutes(B, m)
  BY <1>1, ApprovesMore
<1>3. ApprovesRoutes(B, <<>>) /\ ApprovesAll(B, s, <<>>)
  BY EmptyApproved
<1>4. /\ base # None => ApprovesAll(A, r, base.plugins)
      /\ pending # None => ApprovesAll(A, r, pending.plugins)
      /\ ApprovesAll(A, r, entries)
      /\ waiting # None => ApprovesAll(A, r, waiting)
      /\ ApprovesRoutes(A, served) /\ ApprovesRoutes(A, task.routes)
      /\ pc = "plan" \/ Working => ApprovesManifests(A, r, task.candidates)
      /\ Unprepared /\ task.kind = "import" => task.candidates = task.goal
  BY DEF ApprovalFits, A, r
<1>5. base' # None => ApprovesAll(B, s, base'.plugins)
  BY <1>2, <1>4
<1>6. pending' # None => ApprovesAll(B, s, pending'.plugins)
  BY <1>2, <1>4
<1>7. ApprovesAll(B, s, entries') /\ (waiting' # None => ApprovesAll(B, s, waiting'))
  BY <1>2, <1>3, <1>4
<1>8. ApprovesRoutes(B, served') /\ ApprovesRoutes(B, task'.routes)
  BY <1>2, <1>3, <1>4
<1>9. (pc = "plan" \/ Working)' => ApprovesManifests(B, s, task'.candidates)
  BY <1>2, <1>4
<1>10. Unprepared' /\ task'.kind = "import" => task'.candidates = task'.goal
  BY <1>4 DEF Unprepared, Working, Closed
<1> QED BY <1>5, <1>6, <1>7, <1>8, <1>9, <1>10 DEF ApprovalFits, B, s

LEMMA OpenApproval == ASSUME Basis, ApprovalFits, OpenWithoutBaseline PROVE ApprovalFits'
<1>1. /\ base' = Document(4, entries') /\ entries' \in Entries /\ waiting' = None /\ pending' = None
      /\ DOMAIN entries' = {p \in DOMAIN task.candidates : task.candidates[p].kind = "signed"}
      /\ \A p \in DOMAIN entries' : entries'[p].content = task.candidates[p]
      /\ DOMAIN served' = DOMAIN entries' /\ \A p \in DOMAIN entries' : served'[p] = Route(task.candidates[p])
      /\ pc' = "idle" /\ task' = NoTask
  BY OpenDoes
<1>2. task.candidates \in Partial(Plugin, Content)
  BY TypesAre DEF Basis
<1> DEFINE m == task.candidates
<1>3. \A p \in DOMAIN m : m[p] \in Content /\ m[p] \in Known
  BY <1>2, PartialIs, KnownIs
<1>4. \A p \in DOMAIN entries' : m[p].kind = "signed" /\ m[p] \notin Mapping /\ Route(m[p]).kind = "signed"
  BY <1>1, <1>3, KnownIs, RouteIs
<1>5. \A A, b : ApprovesAll(A, b, entries')
  BY <1>1, <1>4 DEF ApprovesAll
<1>6. \A A : ApprovesRoutes(A, served')
  BY <1>1, <1>4 DEF ApprovesRoutes
<1>7. base'.plugins = entries' /\ task'.routes = <<>>
  BY <1>1, DocumentIs, NoTaskIs
<1>8. ~Working' /\ pc' # "plan" /\ ~Unprepared'
  BY <1>1 DEF Working, Closed, Unprepared
<1> QED BY <1>1, <1>5, <1>6, <1>7, <1>8, EmptyApproved DEF ApprovalFits

LEMMA ReviewApproval == ASSUME Basis, ApprovalFits, Review PROVE ApprovalFits'
<1> DEFINE a == Adopted(base, task.candidates)
           m == task.candidates
           B == ReviewBlocks
           new == {<<p, m[p]>> : p \in {q \in DOMAIN m \ B : base.schema < 4 /\ m[q].kind = "mapping"}}
<1>1. /\ a \in Entries /\ m \in Partial(Plugin, Content) /\ base \in Documents
      /\ entries' \in Entries /\ base' = Document(4, entries') /\ waiting' = None /\ pending' = pending
      /\ DOMAIN served' = DOMAIN m \ B
      /\ \A p \in DOMAIN served' : served'[p] = Route(m[p])
      /\ \A p : p \in DOMAIN entries' <=> p \in DOMAIN a \/ (p \in DOMAIN m /\ p \notin B)
      /\ \A p \in DOMAIN m \ B : entries'[p].content = m[p]
      /\ \A p \in DOMAIN a \ (DOMAIN m \ B) : entries'[p].content = a[p].content
      /\ approved' = approved \cup new /\ blame' = blame
      /\ pc = "review" /\ pc' = "idle" /\ task' = NoTask
  BY ReviewDoes
<1>2. pending = None /\ base # None /\ ApprovesAll(approved, blame, base.plugins)
  BY <1>1 DEF Basis, MemoryFits, ApprovalFits
<1>3. B = Breaking(a, m) \cup Changed(a, m)
  BY DEF ReviewBlocks
<1>4. \A p \in DOMAIN a :
        \/ p \in DOMAIN base.plugins /\ a[p].content = base.plugins[p].content
        \/ base.schema < 4 /\ p \in DOMAIN m /\ m[p].kind = "mapping" /\ a[p].content = m[p]
  BY <1>1, AdoptedIs
<1> HIDE DEF a, m, B
<1>5. \A p \in DOMAIN m : m[p] \in Content /\ m[p] \in Known
  BY <1>1, PartialIs, KnownIs
<1>6. m \in Partial(Plugin, Known)
  BY <1>1, ContentsKnown
<1>7. \A p : /\ p \in Breaking(a, m) => m[p].kind = "signed"
             /\ p \in Changed(a, m) <=>
                  /\ p \in DOMAIN m /\ m[p].kind = "mapping"
                  /\ p \in DOMAIN a => a[p].content # m[p]
  BY <1>1, <1>6, BlockedIs
<1>8. approved \subseteq approved' /\ \A p \in DOMAIN m \ B : base.schema < 4 /\ m[p].kind = "mapping" => <<p, m[p]>> \in approved'
  BY <1>1
<1> HIDE DEF new
<1>9. \A p, c : c \in Mapping /\ Approves(approved, blame, p, c) => Approves(approved', blame', p, c)
  BY <1>1, <1>8, ApprovesMore
<1>10. \A p, c : c \in Mapping /\ <<p, c>> \in approved' => Approves(approved', blame', p, c)
  BY DEF Approves
<1>11. ASSUME NEW p \in DOMAIN a, a[p].content \in Mapping,
              \/ p \in DOMAIN base.plugins /\ a[p].content = base.plugins[p].content
              \/ p \in DOMAIN m \ B /\ base.schema < 4 /\ m[p].kind = "mapping" /\ a[p].content = m[p]
       PROVE  Approves(approved', blame', p, a[p].content)
  <2>1. CASE p \in DOMAIN base.plugins /\ a[p].content = base.plugins[p].content
    BY <1>2, <1>9, <1>11, <2>1 DEF ApprovesAll
  <2>2. CASE p \in DOMAIN m \ B /\ base.schema < 4 /\ m[p].kind = "mapping" /\ a[p].content = m[p]
    BY <1>8, <1>10, <1>11, <2>2
  <2> QED BY <1>11, <2>1, <2>2
<1>12. ASSUME NEW p \in DOMAIN m \ B, m[p] \in Mapping
       PROVE  Approves(approved', blame', p, m[p])
  <2>1. m[p].kind = "mapping" /\ p \notin Changed(a, m)
    BY <1>3, <1>12, KnownIs
  <2>2. p \in DOMAIN a /\ a[p].content = m[p]
    BY <1>7, <2>1
  <2>3. \/ p \in DOMAIN base.plugins /\ a[p].content = base.plugins[p].content
        \/ p \in DOMAIN m \ B /\ base.schema < 4 /\ m[p].kind = "mapping" /\ a[p].content = m[p]
    BY <1>4, <2>2
  <2> QED BY <1>11, <1>12, <2>2, <2>3
<1>13. ApprovesAll(approved', blame', entries')
  <2> SUFFICES ASSUME NEW p \in DOMAIN entries', entries'[p].content \in Mapping
               PROVE  Approves(approved', blame', p, entries'[p].content)
    BY DEF ApprovesAll
  <2>1. CASE p \in DOMAIN m \ B
    BY <1>1, <1>12, <2>1
  <2>2. CASE p \notin DOMAIN m \ B
    <3>1. p \in DOMAIN a /\ entries'[p].content = a[p].content
      BY <1>1, <2>2
    <3>2. CASE p \in DOMAIN base.plugins /\ a[p].content = base.plugins[p].content
      BY <1>11, <3>1, <3>2
    <3>3. CASE base.schema < 4 /\ p \in DOMAIN m /\ m[p].kind = "mapping" /\ a[p].content = m[p]
      <4>1. p \notin Changed(a, m) /\ p \notin Breaking(a, m)
        BY <1>7, <3>1, <3>3
      <4> QED BY <1>3, <2>2, <3>3, <4>1
    <3> QED BY <1>4, <3>1, <3>2, <3>3
  <2> QED BY <2>1, <2>2
<1>14. ApprovesRoutes(approved', served')
  <2> SUFFICES ASSUME NEW p \in DOMAIN m \ B, Route(m[p]).kind = "mapping"
               PROVE  \E c \in Mapping : <<p, c>> \in approved' /\ Route(c) = Route(m[p])
    BY <1>1 DEF ApprovesRoutes
  <2>1. m[p] \in Mapping
    BY <1>5, RouteIs, KnownIs
  <2> QED BY <1>12, <2>1, ApprovesRoute
<1>15. base'.plugins = entries' /\ task'.routes = <<>>
  BY <1>1, DocumentIs, NoTaskIs
<1>16. ~Working' /\ pc' # "plan" /\ ~Unprepared'
  BY <1>1 DEF Working, Closed, Unprepared
<1> QED BY <1>1, <1>2, <1>13, <1>14, <1>15, <1>16, EmptyApproved DEF ApprovalFits

LEMMA PlanApproval == ASSUME Basis, ApprovalFits, PlanNext PROVE ApprovalFits'
<1>1. /\ pc' = "plan" /\ task'.candidates = <<>> /\ task'.routes = served
      /\ blame' = IF pending = None THEN blame \cap {"raced"} ELSE blame
      /\ UNCHANGED <<files, memory, approved>>
  BY PlanKeeps DEF Basis
<1>2. /\ \A e : ApprovesAll(approved, blame, e) => ApprovesAll(approved', blame', e)
      /\ \A m : ApprovesRoutes(approved, m) => ApprovesRoutes(approved', m)
  <2>1. approved \subseteq approved' /\ ("raced" \in blame => "raced" \in blame')
    BY <1>1
  <2> QED BY <2>1, ApprovesMore
<1>3. ~Unprepared'
  BY <1>1 DEF Unprepared
<1> QED BY <1>1, <1>2, <1>3, EmptyApproved DEF ApprovalFits, files, memory

LEMMA CheckApproval == ASSUME Basis, ApprovalFits, Check PROVE ApprovalFits'
<1>1. /\ pc = "plan" /\ pc' = "begin" /\ task'.kind = task.kind /\ task'.goal = task.goal
      /\ task'.routes = served
      /\ task.kind \in {"install", "save", "cases"} => task'.candidates = With(Inspected, task.goal)
      /\ task.kind \in {"uninstall", "delete"} => task'.candidates = task.candidates
      /\ task.kind = "import" => task'.candidates = task.goal
      /\ task.kind = "reload" => task'.candidates = Present(disk)
      /\ approved' = approved \cup Confirmed
      /\ UNCHANGED <<files, memory, blame>>
  BY CheckDoes
<1>2. /\ \A p, c : c \in Mapping /\ Approves(approved, blame, p, c) => Approves(approved', blame', p, c)
      /\ \A e : ApprovesAll(approved, blame, e) => ApprovesAll(approved', blame', e)
      /\ \A m : ApprovesManifests(approved, blame, m) => ApprovesManifests(approved', blame', m)
      /\ \A m : ApprovesRoutes(approved, m) => ApprovesRoutes(approved', m)
  <2>1. approved \subseteq approved' /\ ("raced" \in blame => "raced" \in blame')
    BY <1>1
  <2> QED BY <2>1, ApprovesMore
<1>3. \A p, c : c \in Mapping /\ <<p, c>> \in approved' => Approves(approved', blame', p, c)
  BY DEF Approves
<1>4. \A p, c : /\ p \in Plugin /\ c \in Mapping
                /\ \/ task.kind = "reload" /\ disk[p] = c
                   \/ task.kind # "reload" /\ p \in Members /\ task.goal[p] = c
                => <<p, c>> \in approved'
  BY <1>1, ConfirmedIs
<1>5. task.kind # "reload" => ApprovesManifests(approved', blame', task.goal)
  <2>1. DOMAIN task.goal = Members /\ Members \subseteq Plugin
    BY TypesAre DEF Members, Basis
  <2> QED BY <1>3, <1>4, <2>1 DEF ApprovesManifests
<1>6. task.kind = "reload" => ApprovesManifests(approved', blame', Present(disk))
  <2>1. \A p \in DOMAIN Present(disk) : p \in Plugin /\ Present(disk)[p] = disk[p]
    BY PresentIs DEF Basis, TypeOK
  <2> QED BY <1>3, <1>4, <2>1 DEF ApprovesManifests
<1>7. ApprovesManifests(approved', blame', Inspected)
  BY <1>2, InspectedApproved
<1>8. task.kind # "reload" => ApprovesManifests(approved', blame', With(Inspected, task.goal))
  BY <1>5, <1>7 DEF ApprovesManifests, With
<1>9. ApprovesManifests(approved', blame', task'.candidates)
  <2>1. task.kind \in {"install", "save", "cases", "uninstall", "delete", "import", "reload"}
    BY <1>1, TaskIs DEF Basis, StepsFit, TypeOK
  <2>2. ApprovesManifests(approved', blame', task.candidates)
    BY <1>1, <1>2 DEF ApprovalFits
  <2> QED BY <1>1, <1>5, <1>6, <1>8, <2>1, <2>2
<1> QED BY <1>1, <1>2, <1>9 DEF ApprovalFits, files, memory

\* What prepare records is approved.
LEMMA RecordedApproved ==
  ASSUME Basis, DirectoriesFit, ApprovalFits, pc = "prepare", Preparable
  PROVE  ApprovesManifests(approved, blame, Recorded)
<1>1. /\ Candidates \in Partial(Plugin, Content) /\ Recorded \in Partial(Plugin, Content)
      /\ DOMAIN Recorded = DOMAIN Candidates
      /\ \A p \in DOMAIN Recorded : /\ Route(Recorded[p]) = Route(Candidates[p])
                                    /\ Recorded[p].kind = Candidates[p].kind
  BY RecordedIs DEF Basis
<1>2. \A p \in DOMAIN Candidates : Candidates[p] \in Content /\ Candidates[p] \in Known
  BY <1>1, PartialIs, KnownIs
<1>3. Working /\ ~Closed
  BY DEF Working, Closed
<1>4. ~task.prepared
  BY StandsIs DEF Stands, Basis
<1>5. task.kind \in {"install", "save", "cases", "uninstall", "delete", "import", "reload"}
  BY StandsIs DEF Stands, Basis
<1>6. CASE task.kind # "import"
  <2>1. ApprovesManifests(approved, blame, Candidates)
    <3>1. ApprovesManifests(approved, blame, Inspected) /\ ApprovesManifests(approved, blame, task.candidates)
      BY <1>3, InspectedApproved DEF ApprovalFits
    <3> QED BY <1>6, <3>1 DEF Candidates
  <2>2. CASE "raced" \in blame
    <3> SUFFICES ASSUME NEW p \in DOMAIN Recorded, Recorded[p] \in Mapping
                 PROVE  Approves(approved, blame, p, Recorded[p])
      BY DEF ApprovesManifests
    <3>1. Candidates[p] \in Mapping
      BY <1>1, <1>2, KnownIs
    <3>2. Approves(approved, blame, p, Candidates[p])
      BY <1>1, <2>1, <3>1 DEF ApprovesManifests
    <3> QED BY <1>1, <2>2, <3>2 DEF Approves
  <2>3. CASE "raced" \notin blame
    <3>1. Recorded = Candidates
      BY <2>3, RecordedStays DEF Undisturbed
    <3> QED BY <2>1, <3>1
  <2> QED BY <2>2, <2>3
<1>7. CASE task.kind = "import"
  <2>1. /\ ApprovesManifests(approved, blame, task.goal)
        /\ Candidates = Present(disk) /\ Routes(Candidates) = Routes(task.goal)
        /\ task.goal \in [Plugin -> Content] /\ Recorded = Candidates
    <3>1. task.candidates = task.goal
      BY <1>4, <1>7 DEF ApprovalFits, Unprepared
    <3>2. Recorded = Candidates
      BY <1>7, RecordedStays
    <3> QED BY <1>3, <1>7, <3>1, <3>2 DEF ApprovalFits, Candidates, Preparable, Basis, GoalFits
  <2>2. task.goal \in Partial(Plugin, Content)
    BY <2>1, PartialFrom
  <2>3. /\ DOMAIN Routes(Candidates) = DOMAIN Candidates /\ DOMAIN Routes(task.goal) = DOMAIN task.goal
        /\ \A p \in DOMAIN Candidates : Routes(Candidates)[p] = Route(Candidates[p])
        /\ \A p \in DOMAIN task.goal : Routes(task.goal)[p] = Route(task.goal[p])
    <3>1. Candidates \in Partial(Plugin, Known) /\ task.goal \in Partial(Plugin, Known)
      BY <1>1, <2>2, ContentsKnown
    <3> QED BY <3>1, RoutesIs
  <2>4. \A p \in DOMAIN Candidates : p \in DOMAIN task.goal /\ Route(Candidates[p]) = Route(task.goal[p])
                                     /\ task.goal[p] \in Content /\ task.goal[p] \in Known
    BY <2>1, <2>3, KnownIs
  <2> SUFFICES ASSUME NEW p \in DOMAIN Candidates, Candidates[p] \in Mapping
               PROVE  Approves(approved, blame, p, Candidates[p])
    BY <2>1 DEF ApprovesManifests
  <2>5. task.goal[p] \in Mapping
    BY <1>2, <2>4, KnownIs, SameRoute
  <2>6. Approves(approved, blame, p, task.goal[p])
    BY <2>1, <2>4, <2>5 DEF ApprovesManifests
  <2>7. CASE "raced" \in blame
    BY <2>4, <2>6, <2>7 DEF Approves
  <2>8. CASE "raced" \notin blame
    <3>1. \A q \in Members : disk[q] = task.goal[q]
      BY <1>7, <2>8 DEF DirectoriesFit, Undisturbed
    <3>2. Candidates[p] = disk[p] /\ p \in Members
      BY <2>1, <2>4, PresentIs DEF Basis, TypeOK, Members
    <3> QED BY <2>6, <3>1, <3>2
  <2> QED BY <2>7, <2>8
<1> QED BY <1>6, <1>7

LEMMA NextApproved ==
  ASSUME Basis, DirectoriesFit, ApprovalFits, pc = "prepare", Preparable
  PROVE  ApprovesAll(approved, blame, NextDocument.plugins)
<1>1. ApprovesManifests(approved, blame, Recorded) /\ ApprovesAll(approved, blame, entries)
  BY RecordedApproved DEF ApprovalFits
<1>2. \A p \in DOMAIN NextDocument.plugins :
        \/ p \in DOMAIN Recorded /\ NextDocument.plugins[p].content = Recorded[p]
        \/ p \in DOMAIN entries /\ NextDocument.plugins[p].content = entries[p].content
  BY PrepareDoes
<1> QED BY <1>1, <1>2 DEF ApprovesAll, ApprovesManifests

\* Only what nothing refers to any more loses its approval.
LEMMA ForgetApproval == ASSUME Basis, DeletedAreGone, ApprovalFits, Forget PROVE ApprovalFits'
<1>1. /\ pc = "forget" /\ Answer("ok") /\ pending' = None /\ waiting' = None
      /\ approved' = IF task.kind = "delete" /\ "raced" \notin blame
                     THEN {x \in approved : x[1] \notin Members} ELSE approved
      /\ UNCHANGED <<base, entries, served, blame>>
  BY DEF Forget
<1>2. pc' = "idle" /\ task'.routes = <<>>
  BY <1>1, AnswerIs DEF Basis
<1>3. ~Working' /\ ~Unprepared' /\ pc' # "plan"
  BY <1>2 DEF Working, Closed, Unprepared
<1>4. CASE ~(task.kind = "delete" /\ "raced" \notin blame)
  <2>1. approved' = approved
    BY <1>1, <1>4
  <2> QED BY <1>1, <1>2, <1>3, <2>1, ApprovalKept
<1>5. CASE task.kind = "delete" /\ "raced" \notin blame
  <2>1. /\ entries = waiting /\ base = Document(4, waiting) /\ waiting # None /\ waiting \in Entries
        /\ Members \cap DOMAIN waiting = {} /\ Members \cap DOMAIN served = {}
    BY <1>1, <1>5 DEF Basis, MemoryFits, DeletedAreGone, StepsFit, TypeOK
  <2>2. base.plugins = entries
    BY <2>1, DocumentIs
  <2>3. \A p, c : <<p, c>> \in approved /\ p \notin Members => <<p, c>> \in approved'
    BY <1>1, <1>5
  <2>4. ApprovesAll(approved', blame', entries)
    <3>1. ApprovesAll(approved, blame, entries)
      BY DEF ApprovalFits
    <3>2. \A p \in DOMAIN entries : p \notin Members
      BY <2>1
    <3> QED BY <1>1, <1>5, <2>3, <3>1, <3>2 DEF ApprovesAll, Approves
  <2>5. ApprovesRoutes(approved', served)
    <3>1. ApprovesRoutes(approved, served)
      BY DEF ApprovalFits
    <3>2. \A p \in DOMAIN served : p \notin Members
      BY <2>1
    <3> QED BY <2>3, <3>1, <3>2 DEF ApprovesRoutes
  <2> QED BY <1>1, <1>2, <1>3, <2>1, <2>2, <2>4, <2>5, EmptyApproved DEF ApprovalFits
<1> QED BY <1>4, <1>5

LEMMA SwitchApproval == ASSUME Basis, ApprovalFits, Switch PROVE ApprovalFits'
<1>1. /\ pc = "switch" /\ FoundAsWanted /\ Advance
      /\ served' = CASE task.kind \in {"reload", "import"} -> Routes(task.candidates)
                     [] task.kind \in {"uninstall", "delete"} -> Without(served, Members)
                     [] OTHER -> With(served, [p \in Members |-> Route(Inspected[p])])
      /\ UNCHANGED <<files, entries, waiting, history>>
  BY DEF Switch
<1>2. /\ task'.kind = task.kind /\ task'.goal = task.goal /\ task'.candidates = task.candidates
      /\ task'.routes = task.routes /\ task'.prepared = task.prepared /\ task.prepared
  BY <1>1, AdvanceDoes
<1>3. Working /\ ~Unprepared'
  BY <1>1, <1>2 DEF Working, Closed, Unprepared
<1>4. /\ task.candidates \in Partial(Plugin, Content) /\ ApprovesManifests(approved, blame, task.candidates)
      /\ ApprovesRoutes(approved, served) /\ Inspected \in Partial(Plugin, Content)
      /\ ApprovesManifests(approved, blame, Inspected)
  BY <1>3, TypesAre, InspectedApproved DEF Basis, ApprovalFits
<1>5. ApprovesRoutes(approved, Routes(task.candidates))
  BY <1>4, RoutesOfApproved
<1>6. ApprovesRoutes(approved, Without(served, Members))
  BY <1>4, RoutesWithout
<1>7. task.kind \in {"install", "save", "uninstall", "delete", "import", "reload"}
  BY <1>1, StandsIs DEF Stands, Basis
<1>8. ApprovesRoutes(approved, served')
  <2>1. CASE task.kind \in {"reload", "import"}
    BY <1>1, <1>5, <2>1
  <2>2. CASE task.kind \in {"uninstall", "delete"}
    BY <1>1, <1>6, <2>2
  <2>3. CASE task.kind \in {"install", "save"}
    <3>1. \A p \in {"install", "save"} : p \notin {"reload", "import"} /\ p \notin {"uninstall", "delete"}
      OBVIOUS
    <3>2. Members = {Target} /\ Target \in DOMAIN Inspected
      <4>1. Members = {Target} /\ Members \subseteq DOMAIN task.candidates
        BY <1>3, <2>3, TargetIs DEF Basis, GoalFits
      <4>2. task.kind = "install" => Target \in DOMAIN Inspected
        BY <1>1 DEF FoundAsWanted, Is
      <4>3. task.kind = "save" => Routes(Inspected) = Routes(task.candidates)
        BY <1>1 DEF FoundAsWanted
      <4>4. DOMAIN Routes(Inspected) = DOMAIN Inspected /\ DOMAIN Routes(task.candidates) = DOMAIN task.candidates
        BY <1>4, RoutesIs, ContentsKnown
      <4> QED BY <2>3, <4>1, <4>2, <4>3, <4>4
    <3> DEFINE new == [p \in Members |-> Route(Inspected[p])]
    <3>3. ApprovesRoutes(approved, Routes(Inspected))
      BY <1>4, RoutesOfApproved
    <3>4. /\ DOMAIN Routes(Inspected) = DOMAIN Inspected
          /\ \A p \in DOMAIN Inspected : Routes(Inspected)[p] = Route(Inspected[p])
      BY <1>4, RoutesIs, ContentsKnown
    <3>5. ApprovesRoutes(approved, new)
      BY <3>2, <3>3, <3>4 DEF ApprovesRoutes
    <3> HIDE DEF new
    <3>6. ApprovesRoutes(approved, With(served, new))
      BY <1>4, <3>5, RoutesWith
    <3>7. served' = With(served, new)
      BY <1>1, <2>3, <3>1 DEF new
    <3> QED BY <3>6, <3>7
  <2> QED BY <1>7, <2>1, <2>2, <2>3
<1> QED BY <1>1, <1>2, <1>3, <1>4, <1>8 DEF ApprovalFits, files, history

LEMMA ApprovalStep ==
  ASSUME Basis, DirectoriesFit, DeletedAreGone, ApprovalFits, [Next]_vars
  PROVE  ApprovalFits'
<1>1. CASE StartupNext
  <2>1. CASE Startup
    <3>1. /\ pc' = "open" /\ task'.routes = <<>> /\ UNCHANGED <<base, pending, memory, approved, blame>>
      BY <2>1, NoTaskIs DEF Startup, NoTask, history
    <3> QED BY <3>1, ApprovalKept DEF memory, Working, Closed, Unprepared
  <2>2. CASE OpenWithoutBaseline BY <2>2, OpenApproval
  <2>3. CASE AdoptPending \/ Refuse \/ ForgetPending \/ StartupFails
    <3>1. /\ base' \in {base, pending} /\ pending' \in {pending, None} /\ UNCHANGED <<memory, approved, blame>>
          /\ pc' \in {"forget pending", "refused", "review", "down"} /\ task' \in {task, NoTask}
      BY <2>3 DEF AdoptPending, Refuse, ForgetPending, StartupFails, files, history
    <3>2. task'.routes \in {task.routes, <<>>}
      BY <3>1, NoTaskIs
    <3> QED BY <3>1, <3>2, ApprovalKept DEF memory, Working, Closed, Unprepared
  <2>4. CASE Review BY <2>4, ReviewApproval
  <2> QED BY <1>1, <2>1, <2>2, <2>3, <2>4 DEF StartupNext
<1>2. CASE PlanNext BY <1>2, PlanApproval
<1>3. CASE CommandNext
  <2>1. CASE Check BY <2>1, CheckApproval
  <2>2. CASE Recover
    <3>1. pc = "plan" /\ UNCHANGED <<base, pending, memory, pc, task, approved, blame>>
      BY <2>2 DEF Recover, history
    <3> QED BY <3>1, ApprovalKept DEF memory, Working, Closed, Unprepared
  <2>3. CASE Begin
    <3>1. /\ pc = "begin" /\ task'.kind = task.kind /\ task'.goal = task.goal /\ task'.routes = task.routes
          /\ task'.candidates = task.candidates /\ task.prepared = FALSE /\ UNCHANGED <<files, memory, history>>
      BY <2>3, BeginDoes
    <3> QED BY <3>1, ApprovalKept DEF files, memory, history, Working, Closed, Unprepared
  <2>4. CASE Prepare
    <3>1. /\ task'.routes = task.routes /\ task'.candidates = Recorded /\ task'.prepared = TRUE
          /\ pc = "prepare" /\ Preparable /\ waiting = None
          /\ pending' = NextDocument /\ waiting' = NextDocument.plugins /\ blame' = blame \cup Drift
          /\ UNCHANGED <<base, entries, served, approved>>
      BY <2>4, PreparedTask
    <3>2. /\ \A e : ApprovesAll(approved, blame, e) => ApprovesAll(approved', blame', e)
          /\ \A m : ApprovesManifests(approved, blame, m) => ApprovesManifests(approved', blame', m)
          /\ \A m : ApprovesRoutes(approved, m) => ApprovesRoutes(approved', m)
      <4>1. approved \subseteq approved' /\ ("raced" \in blame => "raced" \in blame')
        BY <3>1
      <4> QED BY <4>1, ApprovesMore
    <3>3. ApprovesAll(approved, blame, NextDocument.plugins) /\ ApprovesManifests(approved, blame, Recorded)
      BY <3>1, NextApproved, RecordedApproved
    <3>4. ~Unprepared'
      BY <3>1 DEF Unprepared
    <3> QED BY <3>1, <3>2, <3>3, <3>4 DEF ApprovalFits
  <2>5. CASE PrepareFails
    <3>1. /\ pc = "prepare" /\ pc' = "undo" /\ task' = task /\ UNCHANGED <<base, memory, approved>>
          /\ \/ pending' = pending /\ blame' = blame
             \/ Preparable /\ pending' = NextDocument /\ blame' = blame \cup Drift
      BY <2>5 DEF PrepareFails, Undo
    <3>2. CASE pending' = pending /\ blame' = blame
      BY <3>1, <3>2, ApprovalKept DEF memory, Working, Closed, Unprepared
    <3>3. CASE Preparable /\ pending' = NextDocument /\ blame' = blame \cup Drift
      <4>1. /\ \A e : ApprovesAll(approved, blame, e) => ApprovesAll(approved', blame', e)
            /\ \A m : ApprovesManifests(approved, blame, m) => ApprovesManifests(approved', blame', m)
            /\ \A m : ApprovesRoutes(approved, m) => ApprovesRoutes(approved', m)
        <5>1. approved \subseteq approved' /\ ("raced" \in blame => "raced" \in blame')
          BY <3>1, <3>3
        <5> QED BY <5>1, ApprovesMore
      <4>2. ApprovesAll(approved, blame, NextDocument.plugins)
        BY <3>1, <3>3, NextApproved
      <4>3. ~Unprepared' /\ Working
        BY <3>1 DEF Unprepared, Working, Closed
      <4> QED BY <3>1, <3>3, <4>1, <4>2, <4>3 DEF ApprovalFits, memory
    <3> QED BY <3>1, <3>2, <3>3
  <2>6. CASE Activate
    <3>1. /\ pc = "activate" /\ task'.kind = task.kind /\ task'.goal = task.goal /\ task'.routes = task.routes
          /\ task'.candidates = task.candidates /\ task'.prepared = task.prepared
          /\ UNCHANGED <<base, pending, memory, approved>>
      BY <2>6, ActivateDoes
    <3>2. "raced" \in blame => "raced" \in blame'
      BY <2>6 DEF Activate
    <3> QED BY <3>1, <3>2, ApprovalKept DEF memory, Working, Closed, Unprepared
  <2>7. CASE Switch BY <2>7, SwitchApproval
  <2>8. CASE (Verify \/ Commit) /\ Advance
    <3>1. /\ pc \in {"verify", "commit"} /\ UNCHANGED <<base, pending, memory, approved, blame>>
      BY <2>8 DEF Verify, Commit, files, history
    <3>2. /\ task'.candidates = task.candidates /\ task'.routes = task.routes /\ task.prepared
          /\ task'.prepared = task.prepared
      BY <2>8, <3>1, AdvanceDoes
    <3> QED BY <3>1, <3>2, ApprovalKept DEF memory, Working, Closed, Unprepared
  <2>9. CASE Forget BY <2>9, ForgetApproval
  <2>10. CASE Promote
    <3>1. pc = "promote" /\ pc' = "forget" /\ base' = Document(4, waiting) /\ entries' = waiting
          /\ UNCHANGED <<pending, waiting, served, task, approved, blame>>
      BY <2>10 DEF Promote, history
    <3>2. waiting \in Entries /\ waiting # None
      BY <3>1 DEF Basis, StepsFit, MemoryFits, TypeOK
    <3>3. base'.plugins = waiting
      BY <3>1, <3>2, DocumentIs
    <3>4. ~Unprepared' /\ Working
      BY <3>1 DEF Unprepared, Working, Closed
    <3> QED BY <3>1, <3>2, <3>3, <3>4 DEF ApprovalFits
  <2>11. CASE Decline \/ Abort \/ AbortFails \/ PromoteFails
    <3>1. Answer("ok") \/ Answer("failed")
      BY <2>11 DEF Decline, Abort, AbortFails, PromoteFails
    <3>2. pc' = "idle" /\ task'.routes = <<>>
      BY <3>1, AnswerIs DEF Basis
    <3>3. /\ pending' \in {pending, None} /\ waiting' \in {waiting, None} /\ UNCHANGED <<entries, served, approved, blame>>
          /\ base' = base \/ (pc = "promote" /\ base' = Document(4, waiting))
      BY <2>11 DEF Decline, Abort, AbortFails, PromoteFails, files, memory, history
    <3>4. CASE base' = base
      BY <3>2, <3>3, <3>4, ApprovalKept DEF Working, Closed, Unprepared
    <3>5. CASE pc = "promote" /\ base' = Document(4, waiting)
      <4>1. pending = Document(4, waiting)
        BY <3>5 DEF Basis, StepsFit, MemoryFits
      <4> QED BY <3>2, <3>3, <3>5, <4>1, ApprovalKept DEF Working, Closed, Unprepared
    <3> QED BY <3>3, <3>4, <3>5
  <2>12. CASE ActivateFails \/ SwitchFails \/ CommitFails \/ RollBackFails \/ RollBack \/ (Verify /\ Undo)
    <3>1. /\ pc \in {"activate", "switch", "commit", "undo", "verify"} /\ pc' \in {"undo", "abort"} /\ task' = task
          /\ served' \in {served, task.routes}
          /\ UNCHANGED <<base, pending, entries, waiting, approved, blame>>
      BY <2>12 DEF ActivateFails, SwitchFails, CommitFails, RollBackFails, RollBack, Verify, Undo, files, memory, history
    <3> QED BY <3>1, ApprovalKept DEF Working, Closed, Unprepared
  <2> QED BY <1>3, <2>1, <2>2, <2>3, <2>4, <2>5, <2>6, <2>7, <2>8, <2>9, <2>10, <2>11, <2>12, CommandSplit
<1>4. CASE \E p \in Plugin, c \in Content \cup {None} : ChangeOutside(p, c)
  <2>1. UNCHANGED <<base, pending, memory, pc, task, approved>> /\ blame \subseteq blame'
    BY <1>4 DEF ChangeOutside
  <2> QED BY <2>1, ApprovalKept DEF memory, Working, Closed, Unprepared
<1>5. CASE LoseBaseline
  <2>1. base' = None /\ UNCHANGED <<pending, memory, pc, task, approved>> /\ blame \subseteq blame'
    BY <1>5 DEF LoseBaseline
  <2> QED BY <2>1, ApprovalKept DEF memory, Working, Closed, Unprepared
<1>6. CASE Crash
  <2>1. /\ pc' = "down" /\ task'.routes = <<>> /\ entries' = <<>> /\ waiting' = None /\ served' = <<>>
        /\ UNCHANGED <<base, pending, approved, blame>>
    BY <1>6, NoTaskIs DEF Crash, files, history
  <2> QED BY <2>1, ApprovalKept DEF Working, Closed, Unprepared
<1>7. CASE UNCHANGED vars
  <2>1. UNCHANGED <<base, pending, memory, pc, task, approved, blame>>
    BY <1>7 DEF vars, files, history
  <2> QED BY <2>1, ApprovalKept DEF memory, Working, Closed, Unprepared
<1> QED BY <1>1, <1>2, <1>3, <1>4, <1>5, <1>6, <1>7 DEF Next

LEMMA DeletedStep == ASSUME Basis, DirectoriesFit, DeletedAreGone, [Next]_vars PROVE DeletedAreGone'
<1>0. task.kind = "delete" /\ "raced" \notin blame =>
        /\ pc \in {"switch", "commit", "promote", "forget"} => Members \cap DOMAIN waiting = {}
        /\ pc \in {"commit", "promote", "forget"} => Members \cap DOMAIN served = {}
  BY DEF DeletedAreGone
<1>1. pc' \notin {"switch", "commit", "promote", "forget"} => DeletedAreGone'
  BY DEF DeletedAreGone
<1>2. CASE StartupNext \/ PlanNext \/ LoseBaseline \/ Crash
  <2>1. pc' \notin {"switch", "commit", "promote", "forget"}
    <3>1. CASE StartupNext
      BY <3>1 DEF StartupNext, Startup, OpenWithoutBaseline, AdoptPending, Refuse, ForgetPending, Review, StartupFails
    <3>2. CASE PlanNext
      BY <3>2, PlanKeeps DEF Basis
    <3>3. CASE LoseBaseline \/ Crash
      BY <3>3 DEF LoseBaseline, Crash
    <3> QED BY <1>2, <3>1, <3>2, <3>3
  <2> QED BY <1>1, <2>1
<1>3. CASE CommandNext
  <2>1. CASE Check \/ Recover \/ Begin \/ Forget \/ RollBack \/ PrepareFails \/ Decline \/ Abort \/ AbortFails
             \/ PromoteFails \/ ActivateFails \/ SwitchFails \/ CommitFails \/ RollBackFails \/ (Verify /\ Undo)
    <3>1. CASE Check BY <1>1, <3>1, CheckDoes
    <3>2. CASE Begin BY <1>1, <3>2, BeginDoes
    <3>3. CASE Recover \/ Forget \/ RollBack \/ PrepareFails \/ Decline \/ Abort \/ AbortFails
             \/ PromoteFails \/ ActivateFails \/ SwitchFails \/ CommitFails \/ RollBackFails \/ (Verify /\ Undo)
      BY <1>1, <3>3 DEF Recover, Forget, RollBack, PrepareFails, Decline, Abort, AbortFails, PromoteFails,
         ActivateFails, SwitchFails, CommitFails, RollBackFails, Undo, Answer
    <3> QED BY <2>1, <3>1, <3>2, <3>3
  <2>2. CASE Prepare
    <3>1. /\ pc = "prepare" /\ Preparable /\ waiting' = NextDocument.plugins /\ blame' = blame \cup Drift
          /\ task'.kind = task.kind /\ task'.goal = task.goal
          /\ task.kind \in {"uninstall", "delete", "import", "reload"} => pc' = "switch"
      BY <2>2, PreparedTask
    <3> SUFFICES ASSUME task.kind = "delete", "raced" \notin blame
                 PROVE  Members \cap DOMAIN NextDocument.plugins = {}
      BY <3>1 DEF DeletedAreGone, Members
    <3>2. Members = {Target} /\ Target \in Plugin /\ Wanted = None /\ Wanted = task.goal[Target]
      BY TargetIs DEF Basis
    <3>3. disk[Target] = None
      BY <3>1, <3>2 DEF DirectoriesFit, Undisturbed
    <3>4. Target \notin DOMAIN Inspected
      <4>1. /\ AcceptedMappings \in Entries /\ Inspected = Shown(entries, AcceptedMappings, disk)
            /\ entries \in Entries /\ disk \in [Plugin -> Content \cup {None}]
        BY TypesAre DEF Basis, TypeOK
      <4> QED BY <3>3, <4>1, ShownIs
    <3>5. Target \notin DOMAIN Recorded
      BY <3>4 DEF Recorded, Candidates
    <3>6. Retiring = Members
      BY DEF Retiring
    <3>7. Target \notin DOMAIN NextDocument.plugins
      BY <3>1, <3>2, <3>5, <3>6, PrepareDoes
    <3> QED BY <3>2, <3>7
  <2>3. CASE Activate
    <3>1. /\ pc = "activate" /\ task'.kind = task.kind /\ pc' = (IF task.kind \in {"install", "save"} THEN "switch" ELSE "prepare")
      BY <2>3, ActivateDoes
    <3> QED BY <3>1 DEF DeletedAreGone
  <2>4. CASE Switch
    <3>1. /\ pc = "switch" /\ Advance /\ UNCHANGED <<waiting, blame>>
          /\ served' = CASE task.kind \in {"reload", "import"} -> Routes(task.candidates)
                         [] task.kind \in {"uninstall", "delete"} -> Without(served, Members)
                         [] OTHER -> With(served, [p \in Members |-> Route(Inspected[p])])
      BY <2>4 DEF Switch, history
    <3>2. task'.kind = task.kind /\ task'.goal = task.goal
      BY <3>1, AdvanceDoes
    <3>3. task.kind = "delete" => Members \cap DOMAIN served' = {}
      <4>1. DOMAIN Without(served, Members) = DOMAIN served \ Members
        BY DEF Without
      <4> QED BY <3>1, <4>1
    <3> QED BY <1>0, <3>1, <3>2, <3>3 DEF DeletedAreGone, Members
  <2>5. CASE (Verify \/ Commit) /\ Advance
    <3>1. pc \in {"verify", "commit"} /\ UNCHANGED <<waiting, served, blame>>
      BY <2>5 DEF Verify, Commit, memory, history
    <3>2. /\ task'.kind = task.kind /\ task'.goal = task.goal
      BY <2>5, <3>1, AdvanceDoes
    <3>3. pc = "verify" => task.kind # "delete"
      BY StandsIs DEF Basis, Stands
    <3> QED BY <1>0, <3>1, <3>2, <3>3 DEF DeletedAreGone, Members
  <2>6. CASE Promote
    <3>1. pc = "promote" /\ UNCHANGED <<waiting, served, blame, task>>
      BY <2>6 DEF Promote, history
    <3> QED BY <1>0, <3>1 DEF DeletedAreGone, Members
  <2> QED BY <1>3, <2>1, <2>2, <2>3, <2>4, <2>5, <2>6, CommandSplit
<1>4. CASE (\E p \in Plugin, c \in Content \cup {None} : ChangeOutside(p, c)) \/ UNCHANGED vars
  <2>1. UNCHANGED <<waiting, served, task, pc>> /\ blame \subseteq blame'
    BY <1>4 DEF ChangeOutside, vars, memory, history
  <2> QED BY <1>0, <2>1 DEF DeletedAreGone, Members
<1> QED BY <1>2, <1>3, <1>4 DEF Next

(***************************************************************************)
(* The contracts of what was accepted.                                     *)
(***************************************************************************)

\* The same with the identities that were retired.
KeepsBut(R, old, new) ==
  \A p \in DOMAIN old \ R :
    /\ p \in DOMAIN new
    /\ old[p].content.kind = "signed" /\ new[p].content.kind = "signed" =>
         Compatible(old[p].content, new[p].content)

LEMMA KeepsItself ==
  ASSUME NEW e \in Entries, NEW R
  PROVE  KeepsBut(R, e, e)
<1>1. \A p \in DOMAIN e : e[p].content \in Known
  BY EntryIs
<1> QED BY <1>1, CompatibleIs DEF KeepsBut

LEMMA KeepsMore ==
  ASSUME NEW R, NEW S, R \subseteq S
  PROVE  \A e, f : KeepsBut(R, e, f) => KeepsBut(S, e, f)
BY DEF KeepsBut

ContractsFit ==
  /\ base # None /\ pending # None => KeepsBut(retired, base.plugins, pending.plugins)
  /\ Unprepared /\ task.kind \notin {"uninstall", "delete"} => Breaking(entries, task.candidates) = {}
  /\ Working /\ task.kind \in {"uninstall", "delete"} => Members \subseteq retired

LEMMA ContractsAre == ContractsAreKept <=> ContractsFit
BY DEF ContractsAreKept, ContractsFit, Keeps, KeepsBut

LEMMA ContractsNext == ContractsAreKept' <=> ContractsFit'
BY DEF ContractsAreKept, ContractsFit, Keeps, KeepsBut

\* Nothing that breaks a contract passes the checks of a command.
LEMMA CheckedContracts ==
  ASSUME Basis, Check, task.kind \notin {"uninstall", "delete"}
  PROVE  Breaking(entries, task'.candidates) = {}
<1>1. /\ pc = "plan" /\ May
      /\ task.kind \in {"install", "save", "cases"} => task'.candidates = With(Inspected, task.goal)
      /\ task.kind = "import" => task'.candidates = task.goal
      /\ task.kind = "reload" => task'.candidates = Present(disk)
  BY CheckDoes DEF Check
<1>2. task.kind \in {"install", "save", "cases", "import", "reload"}
  BY <1>1, TaskIs DEF Basis, StepsFit, TypeOK
<1>3. CASE task.kind = "install"
  BY <1>1, <1>3 DEF May, MayInstall
<1>4. CASE task.kind \in {"save", "cases"}
  <2>1. /\ entries \in Entries /\ AcceptedMappings \in Entries /\ disk \in [Plugin -> Content \cup {None}]
        /\ Inspected = Shown(entries, AcceptedMappings, disk) /\ Inspected \in Partial(Plugin, Content)
    BY TypesAre DEF Basis, TypeOK
  <2>2. /\ task.goal \in Partial(Plugin, Content) /\ DOMAIN task.goal = {Target} /\ task.goal[Target] \in Mapping
    BY <1>4, TargetIs DEF Basis, Members
  <2> DEFINE m == With(Inspected, task.goal)
  <2>3. m \in Partial(Plugin, Known)
    BY <2>1, <2>2, WithPartial, ContentsKnown
  <2>4. \A p \in DOMAIN m : p \notin DOMAIN task.goal => p \in DOMAIN Inspected /\ m[p] = Inspected[p]
    BY DEF With
  <2>5. \A p \in DOMAIN task.goal : m[p] = task.goal[p]
    BY DEF With
  <2> HIDE DEF m
  <2>6. \A p : p \in Breaking(entries, m) =>
                 /\ p \in DOMAIN m /\ p \in DOMAIN entries /\ m[p].kind = "signed"
                 /\ entries[p].content.kind = "signed" => ~Compatible(entries[p].content, m[p])
    BY <2>1, <2>3, BlockedIs
  <2>7. \A p \in DOMAIN Inspected : /\ Inspected[p] = disk[p]
                                    /\ disk[p].kind = "signed" /\ p \in DOMAIN entries =>
                                        entries[p].content.kind = "signed" /\ Compatible(entries[p].content, disk[p])
    BY <2>1, ShownIs
  <2>8. ASSUME NEW p \in Breaking(entries, m) PROVE FALSE
    <3>1. CASE p \in DOMAIN task.goal
      <4>1. m[p] \in Mapping
        BY <2>2, <2>5, <3>1
      <4> QED BY <2>6, <4>1, <2>8, KnownIs
    <3>2. CASE p \notin DOMAIN task.goal
      BY <2>4, <2>6, <2>7, <2>8, <3>2
    <3> QED BY <3>1, <3>2
  <2>9. Breaking(entries, m) = {}
    BY <2>8
  <2> QED BY <1>1, <1>4, <2>9 DEF m
<1>5. CASE task.kind = "import"
  BY <1>1, <1>5 DEF May, MayImport
<1>6. CASE task.kind = "reload"
  BY <1>1, <1>6 DEF May, MayReload
<1> QED BY <1>2, <1>3, <1>4, <1>5, <1>6

\* The next baseline keeps what the current one has.
LEMMA NextKeeps ==
  ASSUME Basis, ApprovalFits, ContractsFit, pc = "prepare", Preparable, waiting = None
  PROVE  base # None /\ base.plugins = entries /\ KeepsBut(retired, entries, NextDocument.plugins)
<1>1. base = Document(4, entries) /\ entries \in Entries
  BY DEF Basis, MemoryFits, TypeOK, Closed
<1>2. base # None /\ base.plugins = entries
  BY <1>1, DocumentIs
<1>3. /\ Candidates \in Partial(Plugin, Content) /\ Recorded \in Partial(Plugin, Content)
      /\ DOMAIN Recorded = DOMAIN Candidates
      /\ \A p \in DOMAIN Recorded :
           Recorded[p].kind = Candidates[p].kind /\ Recorded[p].contract = Candidates[p].contract
  BY RecordedIs DEF Basis
<1>4. /\ \A p : p \in DOMAIN NextDocument.plugins <=>
                  p \in DOMAIN Recorded \/ (p \in DOMAIN entries /\ p \notin Retiring)
      /\ \A p \in DOMAIN Recorded : NextDocument.plugins[p].content = Recorded[p]
      /\ \A p \in DOMAIN NextDocument.plugins \ DOMAIN Recorded :
           NextDocument.plugins[p].content = entries[p].content
  BY PrepareDoes
<1>5. Retiring \subseteq retired
  BY DEF ContractsFit, Retiring, Working, Closed
<1>6. Unprepared
  BY StandsIs DEF Unprepared, Stands, Basis
<1>7. task.kind \in {"install", "save", "cases", "uninstall", "delete", "import", "reload"}
  BY StandsIs DEF Stands, Basis
<1>8. \A p \in DOMAIN entries : entries[p].content \in Known
  BY <1>1, EntryIs
<1>9. \A p \in DOMAIN Candidates : Candidates[p] \in Known
  BY <1>3, PartialIs, KnownIs
<1>10. ASSUME NEW p \in DOMAIN Candidates, p \in DOMAIN entries, entries[p].content.kind = "signed",
              Candidates[p].kind = "signed"
       PROVE  Candidates[p].contract >= entries[p].content.contract
  <2>1. CASE task.kind \in {"uninstall", "delete"}
    <3>1. /\ AcceptedMappings \in Entries /\ disk \in [Plugin -> Content \cup {None}]
          /\ Inspected = Shown(entries, AcceptedMappings, disk) /\ Candidates = Inspected
      BY <2>1, TypesAre DEF Basis, TypeOK, Candidates
    <3>2. Candidates[p] = disk[p] /\ Compatible(entries[p].content, disk[p])
      BY <1>1, <1>10, <3>1, ShownIs
    <3> QED BY <3>2 DEF Compatible
  <2>2. CASE task.kind \in {"install", "save", "cases", "reload"}
    <3>1. Candidates = task.candidates /\ Breaking(entries, task.candidates) = {}
      BY <1>6, <2>2 DEF Candidates, ContractsFit
    <3>2. Candidates \in Partial(Plugin, Known)
      BY <1>3, ContentsKnown
    <3>3. Compatible(entries[p].content, Candidates[p])
      <4>1. p \notin Breaking(entries, Candidates)
        BY <3>1
      <4> QED BY <1>1, <1>10, <3>2, <4>1, BlockedIs
    <3> QED BY <3>3 DEF Compatible
  <2>3. CASE task.kind = "import"
    <3>1. /\ task.candidates = task.goal /\ Breaking(entries, task.candidates) = {}
          /\ Routes(Candidates) = Routes(task.goal) /\ task.goal \in [Plugin -> Content]
      BY <1>6, <2>3 DEF ApprovalFits, ContractsFit, Preparable, Basis, GoalFits
    <3>2. task.goal \in Partial(Plugin, Known) /\ Candidates \in Partial(Plugin, Known)
      BY <1>3, <3>1, PartialFrom, ContentsKnown
    <3>3. /\ DOMAIN Routes(Candidates) = DOMAIN Candidates /\ DOMAIN Routes(task.goal) = DOMAIN task.goal
          /\ \A q \in DOMAIN Candidates : Routes(Candidates)[q] = Route(Candidates[q])
          /\ \A q \in DOMAIN task.goal : Routes(task.goal)[q] = Route(task.goal[q])
      BY <3>2, RoutesIs
    <3>4. p \in DOMAIN task.goal /\ task.goal[p] \in Known
      BY <3>1, <3>2, <3>3, PartialIs
    <3>5. task.goal[p].kind = "signed" /\ task.goal[p].contract = Candidates[p].contract
      BY <1>9, <1>10, <3>1, <3>3, <3>4, SameRoute
    <3>6. Compatible(entries[p].content, task.goal[p])
      <4>1. p \notin Breaking(entries, task.goal)
        BY <3>1
      <4> QED BY <1>1, <1>10, <3>2, <3>4, <3>5, <4>1, BlockedIs
    <3> QED BY <3>5, <3>6 DEF Compatible
  <2> QED BY <1>7, <2>1, <2>2, <2>3
<1>11. ASSUME NEW p \in DOMAIN entries \ retired
       PROVE  /\ p \in DOMAIN NextDocument.plugins
              /\ entries[p].content.kind = "signed" /\ NextDocument.plugins[p].content.kind = "signed" =>
                   Compatible(entries[p].content, NextDocument.plugins[p].content)
  <2>1. p \in DOMAIN NextDocument.plugins
    BY <1>4, <1>5
  <2>2. CASE p \in DOMAIN Recorded
    BY <1>3, <1>4, <1>10, <2>1, <2>2 DEF Compatible
  <2>3. CASE p \notin DOMAIN Recorded
    <3>1. NextDocument.plugins[p].content = entries[p].content /\ entries[p].content \in Known
      BY <1>4, <1>8, <2>1, <2>3
    <3> QED BY <2>1, <3>1, CompatibleIs
  <2> QED BY <2>2, <2>3
<1> QED BY <1>2, <1>11 DEF KeepsBut

LEMMA ContractsStep ==
  ASSUME Basis, ApprovalFits, ContractsFit, [Next]_vars
  PROVE  ContractsFit'
<1>0. /\ base # None /\ pending # None => KeepsBut(retired, base.plugins, pending.plugins)
      /\ Unprepared /\ task.kind \notin {"uninstall", "delete"} => Breaking(entries, task.candidates) = {}
      /\ Working /\ task.kind \in {"uninstall", "delete"} => Members \subseteq retired
  BY DEF ContractsFit
\* Nothing is written, and the command stays what it is.
<1>1. ASSUME base' = base \/ base' = None, pending' = pending \/ pending' = None, retired \subseteq retired',
             Unprepared' => Unprepared /\ task'.candidates = task.candidates /\ entries' = entries,
             Working' => Working /\ task'.kind = task.kind /\ task'.goal = task.goal
      PROVE  ContractsFit'
  <2>1. \A e, f : KeepsBut(retired, e, f) => KeepsBut(retired', e, f)
    BY <1>1, KeepsMore
  <2>2. Unprepared' => Working'
    BY DEF Unprepared, Working, Closed
  <2>3. base' # None /\ pending' # None => KeepsBut(retired', base'.plugins, pending'.plugins)
    BY <1>0, <1>1, <2>1
  <2>4. Unprepared' /\ task'.kind \notin {"uninstall", "delete"} => Breaking(entries', task'.candidates) = {}
    BY <1>0, <1>1, <2>2
  <2>5. Working' /\ task'.kind \in {"uninstall", "delete"} => Members' \subseteq retired'
    BY <1>0, <1>1, SameGoal
  <2> QED BY <2>3, <2>4, <2>5 DEF ContractsFit
<1>2. CASE StartupNext
  <2>1. CASE AdoptPending
    <3>1. /\ pc = "open" /\ pc' = "forget pending" /\ base' \in {base, pending} /\ pending' = pending
          /\ base # None /\ UNCHANGED <<task, retired>>
      BY <2>1 DEF AdoptPending, history
    <3>2. ~Working' /\ ~Unprepared'
      BY <3>1 DEF Working, Closed, Unprepared
    <3>3. pending # None => pending.plugins \in Entries
      BY DEF Basis, TypeOK, Documents
    <3>4. base' # None /\ pending' # None => KeepsBut(retired', base'.plugins, pending'.plugins)
      BY <1>0, <3>1, <3>3, KeepsItself
    <3> QED BY <3>2, <3>4 DEF ContractsFit
  <2>2. CASE OpenWithoutBaseline \/ Review
    <3>1. pending' = None /\ pc' = "idle"
      BY <2>2, OpenDoes, ReviewDoes DEF Basis, MemoryFits
    <3> QED BY <3>1 DEF ContractsFit, Working, Closed, Unprepared
  <2>3. CASE Startup \/ Refuse \/ ForgetPending \/ StartupFails
    <3>1. base' = base /\ pending' \in {pending, None} /\ retired' = retired /\ pc' \in {"open", "refused", "review", "down"}
      BY <2>3 DEF Startup, Refuse, ForgetPending, StartupFails, files, history
    <3> QED BY <1>1, <3>1 DEF Working, Closed, Unprepared
  <2> QED BY <1>2, <2>1, <2>2, <2>3 DEF StartupNext
<1>3. CASE PlanNext
  <2>1. pc' = "plan" /\ UNCHANGED <<files, retired>>
    BY <1>3, PlanKeeps DEF Basis
  <2> QED BY <1>1, <2>1 DEF files, Working, Closed, Unprepared
<1>4. CASE CommandNext
  <2>1. CASE Check
    <3>1. /\ pc' = "begin" /\ task'.kind = task.kind /\ task'.goal = task.goal
          /\ retired' = retired \cup (IF task.kind \in {"uninstall", "delete"} THEN Members ELSE {})
          /\ UNCHANGED <<files, memory>>
      BY <2>1, CheckDoes
    <3>2. base' # None /\ pending' # None => KeepsBut(retired', base'.plugins, pending'.plugins)
      <4>1. retired \subseteq retired' /\ base' = base /\ pending' = pending
        BY <3>1 DEF files
      <4> QED BY <1>0, <4>1, KeepsMore
    <3>3. task'.kind \notin {"uninstall", "delete"} => Breaking(entries', task'.candidates) = {}
      BY <2>1, <3>1, CheckedContracts DEF memory
    <3>4. task'.kind \in {"uninstall", "delete"} => Members' \subseteq retired'
      BY <3>1, SameGoal
    <3> QED BY <3>2, <3>3, <3>4 DEF ContractsFit
  <2>2. CASE Begin
    <3>1. /\ pc = "begin" /\ task'.kind = task.kind /\ task'.goal = task.goal /\ task.prepared = FALSE
          /\ task'.candidates = task.candidates /\ UNCHANGED <<files, memory, history>>
      BY <2>2, BeginDoes
    <3> QED BY <1>1, <3>1 DEF files, memory, history, Working, Closed, Unprepared
  <2>3. CASE Prepare
    <3>1. /\ task'.kind = task.kind /\ task'.goal = task.goal /\ task'.prepared = TRUE
          /\ pc = "prepare" /\ Preparable /\ waiting = None
          /\ pending' = NextDocument /\ UNCHANGED <<base, retired>>
      BY <2>3, PreparedTask
    <3>2. KeepsBut(retired', base'.plugins, pending'.plugins)
      BY <3>1, NextKeeps
    <3>3. ~Unprepared' /\ Working
      BY <3>1 DEF Unprepared, Working, Closed
    <3>4. task'.kind \in {"uninstall", "delete"} => Members' \subseteq retired'
      BY <1>0, <3>1, <3>3, SameGoal
    <3> QED BY <3>2, <3>3, <3>4 DEF ContractsFit
  <2>4. CASE PrepareFails
    <3>1. /\ pc = "prepare" /\ pc' = "undo" /\ task' = task /\ UNCHANGED <<base, memory, retired>>
          /\ pending' = pending \/ (Preparable /\ waiting = None /\ pending' = NextDocument)
      BY <2>4 DEF PrepareFails, Undo
    <3>2. CASE pending' = pending
      BY <1>1, <3>1, <3>2 DEF memory, Working, Closed, Unprepared
    <3>3. CASE Preparable /\ waiting = None /\ pending' = NextDocument
      <4>1. KeepsBut(retired', base'.plugins, pending'.plugins)
        BY <3>1, <3>3, NextKeeps
      <4>2. ~Unprepared' /\ Working
        BY <3>1 DEF Unprepared, Working, Closed
      <4>3. task'.kind \in {"uninstall", "delete"} => Members' \subseteq retired'
        BY <1>0, <3>1, <4>2, SameGoal
      <4> QED BY <4>1, <4>2, <4>3 DEF ContractsFit
    <3> QED BY <3>1, <3>2, <3>3
  <2>5. CASE Activate
    <3>1. /\ pc = "activate" /\ task'.kind = task.kind /\ task'.goal = task.goal
          /\ task'.candidates = task.candidates /\ task'.prepared = task.prepared
          /\ UNCHANGED <<base, pending, memory, retired>>
      BY <2>5, ActivateDoes
    <3> QED BY <1>1, <3>1 DEF memory, Working, Closed, Unprepared
  <2>6. CASE Switch \/ ((Verify \/ Commit) /\ Advance)
    <3>1. /\ Advance /\ pc \in {"switch", "verify", "commit"} /\ UNCHANGED <<base, pending, entries, retired>>
      BY <2>6 DEF Switch, Verify, Commit, files, memory, history
    <3>2. /\ task'.kind = task.kind /\ task'.goal = task.goal /\ task'.prepared = task.prepared /\ task.prepared
      BY <3>1, AdvanceDoes
    <3> QED BY <1>1, <3>1, <3>2 DEF Working, Closed, Unprepared
  <2>7. CASE Promote
    <3>1. pc = "promote" /\ pc' = "forget" /\ base' = Document(4, waiting) /\ UNCHANGED <<pending, task, retired>>
      BY <2>7 DEF Promote, history
    <3>2. waiting \in Entries /\ pending = Document(4, waiting)
      BY <3>1 DEF Basis, StepsFit, MemoryFits, TypeOK
    <3>3. KeepsBut(retired', base'.plugins, pending'.plugins)
      BY <3>1, <3>2, DocumentIs, KeepsItself
    <3>4. ~Unprepared' /\ Working
      BY <3>1 DEF Unprepared, Working, Closed
    <3>5. task'.kind \in {"uninstall", "delete"} => Members' \subseteq retired'
      BY <1>0, <3>1, <3>4, SameGoal
    <3> QED BY <3>3, <3>4, <3>5 DEF ContractsFit
  <2>8. CASE Decline \/ Abort \/ AbortFails \/ PromoteFails \/ Forget \/ Recover
    <3>1. CASE Recover
      BY <1>1, <3>1 DEF Recover, history, memory, Working, Closed, Unprepared
    <3>2. CASE Decline \/ Abort \/ AbortFails \/ PromoteFails \/ Forget
      <4>1. /\ pc' = "idle" /\ pending' \in {pending, None} /\ retired' = retired
            /\ base' = base \/ (pc = "promote" /\ base' = Document(4, waiting))
        BY <3>2 DEF Decline, Abort, AbortFails, PromoteFails, Forget, files, history, Answer
      <4>2. CASE base' = base
        BY <1>1, <4>1, <4>2 DEF Working, Closed, Unprepared
      <4>3. CASE pc = "promote" /\ base' = Document(4, waiting)
        <5>1. waiting \in Entries /\ pending = Document(4, waiting)
          BY <4>3 DEF Basis, StepsFit, MemoryFits, TypeOK
        <5>2. pending' # None => KeepsBut(retired', base'.plugins, pending'.plugins)
          BY <4>1, <4>3, <5>1, DocumentIs, KeepsItself
        <5>3. ~Unprepared' /\ ~Working'
          BY <4>1 DEF Unprepared, Working, Closed
        <5> QED BY <5>2, <5>3 DEF ContractsFit
      <4> QED BY <4>1, <4>2, <4>3
    <3> QED BY <2>8, <3>1, <3>2
  <2>9. CASE ActivateFails \/ SwitchFails \/ CommitFails \/ RollBackFails \/ RollBack \/ (Verify /\ Undo)
    <3>1. /\ pc \in {"activate", "switch", "commit", "undo", "verify"} /\ pc' \in {"undo", "abort"} /\ task' = task
          /\ UNCHANGED <<base, pending, entries, retired>>
      BY <2>9 DEF ActivateFails, SwitchFails, CommitFails, RollBackFails, RollBack, Verify, Undo, files, memory, history
    <3> QED BY <1>1, <3>1 DEF Working, Closed, Unprepared
  <2> QED BY <1>4, <2>1, <2>2, <2>3, <2>4, <2>5, <2>6, <2>7, <2>8, <2>9, CommandSplit
<1>5. CASE (\E p \in Plugin, c \in Content \cup {None} : ChangeOutside(p, c)) \/ UNCHANGED vars
  <2>1. UNCHANGED <<base, pending, entries, pc, task, retired>>
    BY <1>5 DEF ChangeOutside, vars, files, memory, history
  <2> QED BY <1>1, <2>1 DEF Working, Closed, Unprepared
<1>6. CASE LoseBaseline
  <2>1. base' = None /\ UNCHANGED <<pending, entries, pc, task>> /\ retired \subseteq retired'
    BY <1>6 DEF LoseBaseline, memory, Basis, TypeOK
  <2> QED BY <1>1, <2>1 DEF Working, Closed, Unprepared
<1>7. CASE Crash
  <2>1. pc' = "down" /\ UNCHANGED <<base, pending, retired>>
    BY <1>7 DEF Crash, files, history
  <2> QED BY <1>1, <2>1 DEF Working, Closed, Unprepared
<1> QED BY <1>2, <1>3, <1>4, <1>5, <1>6, <1>7 DEF Next

LEMMA StartsFit == Init => DirectoriesFit /\ ApprovalFits /\ DeletedAreGone /\ ContractsFit
<1> SUFFICES ASSUME Init PROVE DirectoriesFit /\ ApprovalFits /\ DeletedAreGone /\ ContractsFit
  OBVIOUS
<1>0. Basis /\ disk \in [Plugin -> Content \cup {None}]
  BY BasisInit DEF Init
<1>1. /\ pc = "down" /\ pending = None /\ waiting = None /\ entries = <<>> /\ served = <<>> /\ blame = {}
      /\ task.kind = "none" /\ task.routes = <<>>
      /\ ~Working /\ ~Unprepared
  BY NoTaskIs DEF Init, Working, Closed, Unprepared
<1>2. DirectoriesFit /\ DeletedAreGone /\ ContractsFit
  BY <1>1 DEF DirectoriesFit, DeletedAreGone, ContractsFit
<1>3. ASSUME base # None PROVE ApprovesAll(approved, blame, base.plugins)
  <2>1. /\ base \in Documents /\ base.plugins \in Entries /\ base.schema \in 2..4
        /\ base.schema < 4 => \A p \in DOMAIN base.plugins : base.plugins[p].content.cases = None
    BY <1>0, <1>3 DEF Basis, TypeOK, MemoryFits, Documents
  <2>2. CASE base.schema < 4
    <3>1. \A p \in DOMAIN base.plugins : base.plugins[p].content \notin Mapping
      BY <2>1, <2>2, KnownIs
    <3> QED BY <3>1 DEF ApprovesAll
  <2>3. CASE base.schema = 4
    <3>1. approved = {<<p, disk[p]>> : p \in {q \in Plugin : disk[q] \in Mapping}}
      BY <1>3, <2>3 DEF Init
    <3>2. PICK s \in Schemas : base = InitialDocument(s)
      BY <1>3 DEF Init
    <3> DEFINE known == {p \in DOMAIN Present(disk) : s >= 3 \/ disk[p].kind = "signed"}
               one(p) == [disk[p] EXCEPT !.cases = IF s = 4 THEN disk[p].cases ELSE None]
    <3>3. base = Document(s, [p \in known |-> Entry(one(p), TRUE)])
      BY <3>2 DEF InitialDocument
    <3>4. s = 4 /\ base.plugins = [p \in known |-> Entry(one(p), TRUE)]
      BY <2>3, <3>3 DEF Document
    <3>5. \A p \in known : p \in Plugin /\ disk[p] \in Content /\ disk[p] \in Known
      <4>1. DOMAIN Present(disk) = {p \in Plugin : disk[p] # None}
        BY <1>0, PresentIs
      <4> QED BY <1>0, <4>1, KnownIs
    <3>6. \A p \in known : one(p) = disk[p]
      BY <3>4, <3>5 DEF Known, Content, Signed, Mapping
    <3> HIDE DEF known, one
    <3>7. ASSUME NEW p \in DOMAIN base.plugins, base.plugins[p].content \in Mapping
          PROVE  <<p, base.plugins[p].content>> \in approved
      <4>1. base.plugins[p].content = disk[p] /\ p \in Plugin
        BY <3>4, <3>5, <3>6 DEF Entry
      <4> QED BY <3>1, <3>7, <4>1
    <3> QED BY <1>1, <3>7 DEF ApprovesAll, Approves
  <2> QED BY <2>1, <2>2, <2>3
<1>4. ApprovalFits
  BY <1>1, <1>3, EmptyApproved DEF ApprovalFits
<1> QED BY <1>2, <1>4

(***************************************************************************)
(* What was approved runs, and what was accepted is kept.                  *)
(***************************************************************************)

AcceptedInv == Basis /\ DirectoriesFit /\ ApprovalFits /\ DeletedAreGone /\ ContractsFit

LEMMA AcceptedInit == Init => AcceptedInv
BY BasisInit, StartsFit DEF AcceptedInv

LEMMA AcceptedStep == ASSUME AcceptedInv, [Next]_vars PROVE AcceptedInv'
BY BasisStep, DirectoriesStep, ApprovalStep, DeletedStep, ContractsStep DEF AcceptedInv

LEMMA ApprovedRuns == ASSUME AcceptedInv PROVE OnlyApprovedRuns
<1>1. Basis /\ ApprovalFits /\ disk \in [Plugin -> Content \cup {None}]
  BY DEF AcceptedInv, Basis, TypeOK
<1>2. OnlyApprovedMappingsRun
  BY <1>1 DEF ApprovalFits, ApprovesRoutes, OnlyApprovedMappingsRun
<1>3. ASSUME NEW p \in Plugin, pc = "idle", MayDebug(p), "raced" \notin blame
      PROVE  <<p, disk[p]>> \in approved
  <2>1. p \in DOMAIN Inspected /\ Inspected[p].kind = "mapping"
    BY <1>3 DEF MayDebug, Is
  <2>2. ApprovesManifests(approved, blame, Inspected) /\ Inspected[p] = disk[p]
    BY <1>1, <2>1, InspectedApproved
  <2>3. Inspected \in Partial(Plugin, Content)
    BY <1>1, TypesAre DEF Basis
  <2>4. Inspected[p] \in Mapping
    BY <2>1, <2>3, PartialIs, KnownIs
  <2> QED BY <1>3, <2>1, <2>2, <2>4 DEF ApprovesManifests, Approves
<1> QED BY <1>2, <1>3 DEF OnlyApprovedRuns, OnlyApprovedCasesRun

\* The contract of an identity in a baseline.
LEMMA ContractIs ==
  ASSUME NEW doc, NEW p
  PROVE  /\ doc # None /\ p \in DOMAIN doc.plugins => Contract(doc, p) = doc.plugins[p].content
         /\ Contract(doc, p) # None => doc # None /\ p \in DOMAIN doc.plugins
BY DEF Contract

LEMMA KeptContracts ==
  ASSUME NEW e \in Entries, NEW f \in Entries, NEW R, KeepsBut(R, e, f),
         base # None, base.plugins = e, base' # None, base'.plugins = f,
         NEW p \in Plugin, p \notin R, Contract(base, p) # None
  PROVE  /\ Contract(base', p) # None
         /\ Contract(base, p).kind = "signed" /\ Contract(base', p).kind = "signed" =>
              Compatible(Contract(base, p), Contract(base', p))
<1>1. p \in DOMAIN e /\ Contract(base, p) = e[p].content
  BY DEF Contract
<1>2. p \in DOMAIN f
  BY <1>1 DEF KeepsBut
<1>3. Contract(base', p) = f[p].content
  BY <1>2 DEF Contract
<1>4. f[p].content # None
  BY <1>2, EntryIs, KnownIs
<1> QED BY <1>1, <1>2, <1>3, <1>4 DEF KeepsBut

Kept ==
  \A p \in Plugin \ retired' : Contract(base, p) # None =>
       /\ Contract(base', p) # None
       /\ Contract(base, p).kind = "signed" /\ Contract(base', p).kind = "signed" =>
            Compatible(Contract(base, p), Contract(base', p))

\* A start accepts what does not break the contracts it finds.
LEMMA ReviewKeeps == ASSUME Basis, Review PROVE KeepsBut(retired', base.plugins, base'.plugins)
<1> DEFINE a == Adopted(base, task.candidates)
           m == task.candidates
           B == ReviewBlocks
<1>1. /\ a \in Entries /\ m \in Partial(Plugin, Content) /\ base \in Documents
      /\ entries' \in Entries /\ base' = Document(4, entries')
      /\ \A p : p \in DOMAIN entries' <=> p \in DOMAIN a \/ (p \in DOMAIN m /\ p \notin B)
      /\ \A p \in DOMAIN m \ B : entries'[p].content = m[p]
      /\ \A p \in DOMAIN a \ (DOMAIN m \ B) : entries'[p].content = a[p].content
  BY ReviewDoes
<1>2. base'.plugins = entries'
  BY <1>1, DocumentIs
<1>3. /\ DOMAIN base.plugins \subseteq DOMAIN a
      /\ \A p \in DOMAIN a :
           \/ p \in DOMAIN base.plugins /\ a[p].content = base.plugins[p].content
           \/ /\ m[p].kind = "mapping" /\ a[p].content = m[p]
              /\ p \in DOMAIN base.plugins => base.plugins[p].content.kind = "mapping"
  BY <1>1, AdoptedIs
<1>4. m \in Partial(Plugin, Known)
  BY <1>1, ContentsKnown
<1>5. \A p : p \in B <=> p \in Breaking(a, m) \/ p \in Changed(a, m)
  BY DEF ReviewBlocks
<1>6. base.plugins \in Entries
  BY <1>1 DEF Documents
<1>7. \A p \in DOMAIN base.plugins : base.plugins[p].content \in Known
  BY <1>6, EntryIs
<1> HIDE DEF a, m, B
<1>8. ASSUME NEW p \in DOMAIN base.plugins
      PROVE  /\ p \in DOMAIN entries'
             /\ base.plugins[p].content.kind = "signed" /\ entries'[p].content.kind = "signed" =>
                  Compatible(base.plugins[p].content, entries'[p].content)
  <2>1. p \in DOMAIN a /\ p \in DOMAIN entries'
    BY <1>1, <1>3
  <2> SUFFICES ASSUME base.plugins[p].content.kind = "signed", entries'[p].content.kind = "signed"
               PROVE  Compatible(base.plugins[p].content, entries'[p].content)
    BY <2>1
  <2>2. a[p].content = base.plugins[p].content
    BY <1>3, <2>1
  <2>3. CASE p \in DOMAIN m \ B
    <3>1. entries'[p].content = m[p] /\ p \notin Breaking(a, m)
      BY <1>1, <1>5, <2>3
    <3> QED BY <1>1, <1>4, <2>1, <2>2, <2>3, <3>1, BlockedIs
  <2>4. CASE p \notin DOMAIN m \ B
    <3>1. entries'[p].content = base.plugins[p].content
      BY <1>1, <2>1, <2>2, <2>4
    <3> QED BY <1>7, <3>1, CompatibleIs
  <2> QED BY <2>3, <2>4
<1> QED BY <1>2, <1>8 DEF KeepsBut

LEMMA KeptStep == ASSUME AcceptedInv, [Next]_vars PROVE Kept
<1>1. Basis /\ ContractsFit
  BY DEF AcceptedInv
<1>2. /\ base # None => base.plugins \in Entries
      /\ pending # None => pending.plugins \in Entries
      /\ entries \in Entries /\ (waiting # None => waiting \in Entries)
  BY <1>1 DEF Basis, TypeOK, Documents
<1>3. ASSUME base' = base PROVE Kept
  <2>1. \A p \in Plugin : Contract(base, p) # None =>
          base # None /\ p \in DOMAIN base.plugins /\ Contract(base, p) = base.plugins[p].content
    BY ContractIs
  <2>2. \A p \in Plugin : Contract(base, p) # None => Contract(base, p) \in Known
    BY <1>2, <2>1, EntryIs
  <2>3. \A p : Contract(base', p) = Contract(base, p)
    BY <1>3 DEF Contract
  <2>4. \A p \in Plugin : Contract(base, p) # None /\ Contract(base, p).kind = "signed" =>
           Compatible(Contract(base, p), Contract(base, p))
    BY <2>2, CompatibleIs
  <2> QED BY <2>3, <2>4 DEF Kept
<1>4. ASSUME base # None, base' # None, base'.plugins \in Entries, KeepsBut(retired', base.plugins, base'.plugins)
      PROVE  Kept
  BY <1>2, <1>4, KeptContracts DEF Kept
\* The record a command or a start left is the next baseline.
<1>5. ASSUME pending # None, base' = pending, base # None, retired' = retired PROVE Kept
  <2>1. KeepsBut(retired', base.plugins, base'.plugins) /\ base'.plugins \in Entries
    BY <1>1, <1>2, <1>5 DEF ContractsFit
  <2> QED BY <1>4, <1>5, <2>1
<1>6. ASSUME pc \in {"promote", "forget"}, pc = "promote", base' = Document(4, waiting), retired' = retired PROVE Kept
  <2>1. waiting # None /\ pending = Document(4, waiting) /\ base = Document(4, entries)
    BY <1>1, <1>6 DEF Basis, StepsFit, MemoryFits
  <2>2. pending # None /\ base # None
    BY <1>2, <2>1, DocumentIs
  <2> QED BY <1>5, <1>6, <2>1, <2>2
<1>7. CASE StartupNext
  <2>1. CASE AdoptPending
    <3>1. base # None /\ retired' = retired /\ (base' = base \/ (pending # None /\ base' = pending))
      BY <2>1 DEF AdoptPending, history, PendingWins
    <3> QED BY <1>3, <1>5, <3>1
  <2>2. CASE Review
    <3>1. base # None /\ base'.plugins \in Entries /\ base' # None
      <4>1. pc = "review" /\ entries' \in Entries /\ base' = Document(4, entries')
        BY <1>1, <2>2, ReviewDoes
      <4>2. base # None
        BY <1>1, <4>1 DEF Basis, MemoryFits
      <4> QED BY <4>1, <4>2, DocumentIs
    <3> QED BY <1>1, <1>4, <2>2, <3>1, ReviewKeeps
  <2>3. CASE OpenWithoutBaseline
    <3>1. base = None
      BY <2>3 DEF OpenWithoutBaseline
    <3> QED BY <3>1 DEF Kept, Contract
  <2>4. CASE Startup \/ Refuse \/ ForgetPending \/ StartupFails
    <3>1. base' = base
      BY <2>4 DEF Startup, Refuse, ForgetPending, StartupFails, files
    <3> QED BY <1>3, <3>1
  <2> QED BY <1>7, <2>1, <2>2, <2>3, <2>4 DEF StartupNext
<1>8. CASE PlanNext
  <2>1. base' = base
    BY <1>1, <1>8, PlanKeeps DEF Basis, files
  <2> QED BY <1>3, <2>1
<1>9. CASE CommandNext
  <2>1. \/ base' = base
        \/ pc \in {"promote", "forget"} /\ pc = "promote" /\ base' = Document(4, waiting) /\ retired' = retired
    BY <1>9 DEF CommandNext, Check, Recover, Decline, Begin, Prepare, PrepareFails, Activate, ActivateFails,
       Switch, SwitchFails, Verify, Commit, CommitFails, Promote, Forget, PromoteFails, RollBack,
       RollBackFails, Abort, AbortFails, files, history
  <2> QED BY <1>3, <1>6, <2>1
<1>10. CASE (\E p \in Plugin, c \in Content \cup {None} : ChangeOutside(p, c)) \/ UNCHANGED vars \/ Crash
  <2>1. base' = base
    BY <1>10 DEF ChangeOutside, vars, files, Crash
  <2> QED BY <1>3, <2>1
<1>11. CASE LoseBaseline
  BY <1>11 DEF LoseBaseline, Kept
<1> QED BY <1>7, <1>8, <1>9, <1>10, <1>11 DEF Next

\* No mapping is ever served, and no debug case run, that no operator confirmed
\* (inspect_all_plugins_for_state and its quarantine, the activations and their
\* rollbacks, approved_local_mapping_debug_context), whatever is put into the
\* directories, whichever commands fail and whenever the process crashes.
THEOREM ApprovedRun == Spec => []OnlyApprovedRuns
<1>1. Init => AcceptedInv
  BY AcceptedInit
<1>2. AcceptedInv /\ [Next]_vars => AcceptedInv'
  BY AcceptedStep
<1>3. AcceptedInv => OnlyApprovedRuns
  BY ApprovedRuns
<1> QED BY <1>1, <1>2, <1>3, PTL DEF Spec

\* A step of a command, a start or a crash neither drops an accepted identity
\* from the baseline on disk, except its own removal, nor narrows the API of a
\* signed plugin there (prepare_retiring, merge_reviewed_entries,
\* recover_pending_transition, commit_transition).
THEOREM ContractsKept == Spec => AcceptedContractsAreKept
<1>1. Init => AcceptedInv
  BY AcceptedInit
<1>2. AcceptedInv /\ [Next]_vars => AcceptedInv'
  BY AcceptedStep
<1>3. AcceptedInv /\ [Next]_vars => [Kept]_vars
  BY KeptStep
<1>4. Spec => [][Kept]_vars
  BY <1>1, <1>2, <1>3, PTL DEF Spec
<1> QED BY <1>4 DEF AcceptedContractsAreKept, Kept

(***************************************************************************)
(* What the next baseline and the next directories have to do with each    *)
(* other.                                                                  *)
(***************************************************************************)

\* A command whose directories nobody changed writes the next baseline.
Preparing ==
  Basis /\ DirectoriesFit /\ pc = "prepare" /\ Preparable /\ waiting = None /\ Undisturbed

LEMMA PreparedContents ==
  ASSUME Preparing
  PROVE  LET w == With(disk, task.goal) IN
         /\ w \in [Plugin -> Content \cup {None}]
         /\ Recorded = Candidates /\ Recorded \in Partial(Plugin, Content) /\ Recorded \in Partial(Plugin, Known)
         /\ \A p \in DOMAIN Recorded : p \in Plugin /\ w[p] = Recorded[p] /\ w[p] # None
         /\ \A p \in Plugin : w[p] # None /\ p \notin DOMAIN Recorded =>
              w[p] = disk[p] /\ p \notin DOMAIN Inspected /\ p \notin Members
         /\ \A p \in Members : task.goal[p] # None => p \in DOMAIN Recorded /\ Recorded[p] = task.goal[p]
         /\ \A p \in DOMAIN Recorded : p \notin Members /\ task.kind \notin {"import", "reload"} =>
              p \in DOMAIN Inspected /\ Recorded[p] = Inspected[p]
         /\ task.kind \in {"install", "save", "cases"} => Recorded = With(Inspected, task.goal)
         /\ task.kind \in {"uninstall", "delete"} => Recorded = Inspected
         /\ task.kind \in {"import", "reload"} => Recorded = Present(disk)
<1> DEFINE w == With(disk, task.goal)
<1>1. /\ Basis /\ DirectoriesFit /\ pc = "prepare" /\ Preparable /\ waiting = None /\ Undisturbed /\ TypeOK
      /\ disk \in [Plugin -> Content \cup {None}]
  BY DEF Preparing, Basis, TypeOK
<1>2. Recorded = Candidates /\ Recorded \in Partial(Plugin, Content) /\ Recorded \in Partial(Plugin, Known)
  BY <1>1, RecordedStays, RecordedIs
<1>3. w \in [Plugin -> Content \cup {None}]
  BY <1>1, TypesAre
<1>4. /\ \A p \in Members : w[p] = task.goal[p]
      /\ \A p \in Plugin : p \notin Members => w[p] = disk[p]
  BY <1>1 DEF With, Members
<1>5. /\ entries \in Entries /\ AcceptedMappings \in Entries /\ Inspected = Shown(entries, AcceptedMappings, disk)
      /\ Members \subseteq Plugin /\ Inspected \in Partial(Plugin, Content)
  BY <1>1, TypesAre DEF TypeOK, Members
<1>6. /\ \A q \in DOMAIN Inspected : q \in Plugin /\ Inspected[q] = disk[q] /\ disk[q] # None
  BY <1>1, <1>5, ShownIs
<1>7. /\ DOMAIN Present(disk) = {p \in Plugin : disk[p] # None}
      /\ \A q \in DOMAIN Present(disk) : Present(disk)[q] = disk[q]
  BY <1>1, PresentIs
<1>8. task.kind \notin {"install", "save"} => \A p \in Members : disk[p] = task.goal[p]
  BY <1>1 DEF DirectoriesFit
<1>9. task.kind \in {"install", "save", "cases", "reload", "uninstall", "delete", "import"} /\ ~task.prepared
  BY <1>1, StandsIs DEF Stands, Basis
<1>10. \A p \in DOMAIN Recorded : Recorded[p] \in Content /\ Recorded[p] # None
  BY <1>2, PartialIs, KnownIs
<1> HIDE DEF w
<1>11. CASE task.kind \in {"install", "save", "cases"}
  <2>1. Recorded = With(Inspected, task.goal)
    BY <1>1, <1>2, <1>9, <1>11 DEF DirectoriesFit, Unprepared, Candidates
  <2>2. DOMAIN Recorded = DOMAIN Inspected \cup Members
    BY <2>1 DEF With, Members
  <2>3. /\ \A p \in Members : Recorded[p] = task.goal[p]
        /\ \A p \in DOMAIN Inspected : p \notin Members => Recorded[p] = Inspected[p]
    BY <2>1 DEF With, Members
  <2>4. ASSUME NEW p \in DOMAIN Recorded PROVE p \in Plugin /\ w[p] = Recorded[p] /\ w[p] # None
    BY <1>4, <1>5, <1>6, <1>10, <2>2, <2>3
  <2>5. ASSUME NEW p \in Plugin, p \notin DOMAIN Recorded
        PROVE  w[p] = disk[p] /\ p \notin DOMAIN Inspected /\ p \notin Members
    BY <1>4, <2>2, <2>5
  <2>6. \A p \in DOMAIN Recorded : p \notin Members => p \in DOMAIN Inspected /\ Recorded[p] = Inspected[p]
    BY <2>2, <2>3
  <2> QED BY <1>2, <1>3, <1>11, <2>1, <2>2, <2>3, <2>4, <2>5, <2>6 DEF w
<1>12. CASE task.kind \in {"uninstall", "delete"}
  <2>1. Recorded = Inspected
    BY <1>2, <1>12 DEF Candidates
  <2>2. Members = {Target} /\ task.goal[Target] = None /\ disk[Target] = None
    <3>1. Members = {Target} /\ Wanted = task.goal[Target] /\ Wanted = None
      BY <1>1, <1>12, TargetIs DEF Basis
    <3> QED BY <1>8, <1>12, <3>1
  <2>3. \A p \in DOMAIN Inspected : p \notin Members
    BY <1>6, <2>2
  <2>4. ASSUME NEW p \in DOMAIN Recorded PROVE p \in Plugin /\ w[p] = Recorded[p] /\ w[p] # None
    BY <1>4, <1>6, <2>1, <2>3
  <2>5. ASSUME NEW p \in Plugin, w[p] # None, p \notin DOMAIN Recorded
        PROVE  w[p] = disk[p] /\ p \notin DOMAIN Inspected /\ p \notin Members
    BY <1>4, <2>1, <2>2, <2>5
  <2> QED BY <1>2, <1>3, <1>12, <2>1, <2>2, <2>3, <2>4, <2>5 DEF w
<1>13. CASE task.kind \in {"import", "reload"}
  <2>1. Recorded = Present(disk)
    BY <1>1, <1>2, <1>13 DEF Candidates, DirectoriesFit, Working, Closed
  <2>2. \A p \in Plugin : w[p] = disk[p]
    BY <1>4, <1>5, <1>8, <1>13
  <2>3. \A p \in Members : disk[p] = task.goal[p] /\ p \in Plugin
    BY <1>5, <1>8, <1>13
  <2>4. \A p \in DOMAIN Recorded : p \in Plugin /\ w[p] = Recorded[p] /\ w[p] # None
    BY <1>7, <1>10, <2>1, <2>2
  <2>5. \A p \in Plugin : w[p] # None => p \in DOMAIN Recorded
    BY <1>7, <2>1, <2>2
  <2>6. \A p \in Members : task.goal[p] # None => p \in DOMAIN Recorded /\ Recorded[p] = task.goal[p]
    BY <1>7, <2>1, <2>3
  <2> QED BY <1>2, <1>3, <1>13, <2>1, <2>4, <2>5, <2>6 DEF w
<1> QED BY <1>9, <1>11, <1>12, <1>13

\* The next start will serve what is recorded.
LEMMA NextShown ==
  ASSUME Preparing
  PROVE  Shown(NextDocument.plugins, NextDocument.plugins, With(disk, task.goal)) = Recorded
<1> DEFINE w == With(disk, task.goal)
           n == NextDocument.plugins
           s == Shown(n, n, w)
<1>1. /\ w \in [Plugin -> Content \cup {None}]
      /\ Recorded \in Partial(Plugin, Content) /\ Recorded \in Partial(Plugin, Known)
      /\ \A p \in DOMAIN Recorded : p \in Plugin /\ w[p] = Recorded[p] /\ w[p] # None
      /\ \A p \in Plugin : w[p] # None /\ p \notin DOMAIN Recorded =>
           w[p] = disk[p] /\ p \notin DOMAIN Inspected /\ p \notin Members
  BY PreparedContents
<1>2. Basis /\ Preparable /\ TypeOK /\ disk \in [Plugin -> Content \cup {None}] /\ entries \in Entries
  BY DEF Preparing, Basis, TypeOK
<1>3. /\ n \in Entries
      /\ \A p : p \in DOMAIN n <=> p \in DOMAIN Recorded \/ (p \in DOMAIN entries /\ p \notin Retiring)
      /\ \A p \in DOMAIN Recorded : n[p].content = Recorded[p]
      /\ \A p \in DOMAIN n \ DOMAIN Recorded : p \in DOMAIN entries /\ n[p].content = entries[p].content
  BY <1>2, PrepareDoes
<1>4. Inspected = Shown(entries, entries, disk)
  BY InspectedIsShown DEF Preparing, AcceptedMappings
<1>5. Retiring \subseteq Members
  BY DEF Retiring
<1> HIDE DEF w, n
<1>6. /\ s \in Partial(Plugin, Content)
      /\ \A p \in DOMAIN s : p \in Plugin /\ s[p] = w[p] /\ w[p] \in Content
      /\ \A p : p \in DOMAIN s <=>
           /\ p \in Plugin /\ w[p] # None
           /\ w[p].kind = "signed" /\ p \in DOMAIN n =>
                n[p].content.kind = "signed" /\ Compatible(n[p].content, w[p])
           /\ w[p].kind = "mapping" => p \in DOMAIN n /\ n[p].content = w[p]
  BY <1>1, <1>3, ShownIs
<1>8. ASSUME NEW p \in DOMAIN Recorded PROVE p \in DOMAIN s /\ s[p] = Recorded[p]
  <2>1. p \in Plugin /\ w[p] = Recorded[p] /\ w[p] # None /\ p \in DOMAIN n /\ n[p].content = w[p]
    BY <1>1, <1>3
  <2>2. w[p] \in Known
    BY <1>1, <2>1, PartialIs
  <2>3. w[p].kind = "signed" => Compatible(w[p], w[p])
    BY <2>2, CompatibleIs
  <2> QED BY <1>6, <2>1, <2>3
<1>9. ASSUME NEW p \in DOMAIN s PROVE p \in DOMAIN Recorded
  <2> SUFFICES ASSUME p \notin DOMAIN Recorded PROVE FALSE
    OBVIOUS
  <2>1. p \in Plugin /\ w[p] = disk[p] /\ disk[p] # None /\ p \notin DOMAIN Inspected /\ p \notin Retiring
    BY <1>1, <1>5, <1>6
  <2>2. /\ p \in DOMAIN n <=> p \in DOMAIN entries
        /\ p \in DOMAIN n => n[p].content = entries[p].content
    BY <1>3, <2>1
  <2>3. /\ disk[p].kind = "signed" /\ p \in DOMAIN entries =>
             entries[p].content.kind = "signed" /\ Compatible(entries[p].content, disk[p])
        /\ disk[p].kind = "mapping" => p \in DOMAIN entries /\ entries[p].content = disk[p]
    BY <1>6, <2>1, <2>2
  <2>4. p \in DOMAIN Inspected
    BY <1>2, <1>4, <2>1, <2>3, ShownIs
  <2> QED BY <2>1, <2>4
<1>10. DOMAIN s = DOMAIN Recorded
  BY <1>8, <1>9
<1>11. s = Recorded
  BY <1>1, <1>6, <1>8, <1>10, SameMap
<1> QED BY <1>11 DEF s, w, n

\* Where the directories are what was accepted, all of them will be recorded.
LEMMA NoDrift ==
  ASSUME Preparing, Drift = {}
  PROVE  Present(With(disk, task.goal)) = Recorded
<1> DEFINE w == With(disk, task.goal)
<1>1. /\ w \in [Plugin -> Content \cup {None}]
      /\ Recorded \in Partial(Plugin, Content)
      /\ \A p \in DOMAIN Recorded : p \in Plugin /\ w[p] = Recorded[p] /\ w[p] # None
      /\ \A p \in Plugin : w[p] # None /\ p \notin DOMAIN Recorded =>
           w[p] = disk[p] /\ p \notin DOMAIN Inspected /\ p \notin Members
  BY PreparedContents
<1>2. Basis /\ TypeOK /\ disk \in [Plugin -> Content \cup {None}] /\ entries \in Entries /\ pc = "prepare"
  BY DEF Preparing, Basis, TypeOK
<1>3. Matches(Document(4, entries), Present(Restored))
  BY DriftIs
<1>4. /\ Restored \in [Plugin -> Content \cup {None}]
      /\ \A p \in Plugin : p \notin Members => Restored[p] = disk[p]
  <2>1. Restored \in [Plugin -> Content \cup {None}]
    BY <1>2, TypesAre
  <2>2. txn = None \/ DOMAIN txn = Members
    <3>1. Working
      BY <1>2 DEF Working, Closed
    <3>2. task.kind \in {"install", "save", "cases", "reload", "uninstall", "delete", "import"}
      BY <1>2, StandsIs DEF Stands, Basis
    <3> QED BY <1>2, <3>1, <3>2 DEF Basis, TransactionFits
  <2>3. ASSUME NEW p \in Plugin, p \notin Members PROVE Restored[p] = disk[p]
    BY <1>2, <2>2, <2>3 DEF Restored, With
  <2> QED BY <2>1, <2>3
<1>5. Inspected = Shown(entries, entries, disk)
  BY InspectedIsShown DEF Preparing, AcceptedMappings
<1> HIDE DEF w
<1>6. /\ DOMAIN Present(w) = {p \in Plugin : w[p] # None} /\ Present(w) \in Partial(Plugin, Content)
      /\ \A p \in DOMAIN Present(w) : Present(w)[p] = w[p]
  BY <1>1, PresentIs
<1>7. /\ DOMAIN Present(Restored) = {p \in Plugin : Restored[p] # None}
      /\ \A p \in DOMAIN Present(Restored) : Present(Restored)[p] = Restored[p]
      /\ Present(Restored) \in Partial(Plugin, Known)
  BY <1>4, PresentIs, ContentsKnown
<1>8. \A p \in DOMAIN Present(Restored) : p \in DOMAIN entries /\ entries[p].content = Present(Restored)[p]
  <2> DEFINE m == Present(Restored)
  <2>1. m \in Partial(Plugin, Known) /\ Matches(Document(4, entries), m)
    BY <1>3, <1>7
  <2> HIDE DEF m
  <2>2. DOMAIN m = {p \in DOMAIN entries : entries[p].installed} /\ \A p \in DOMAIN m : entries[p].content = m[p]
    BY <1>2, <2>1, MatchesIs
  <2> QED BY <2>2 DEF m
<1>9. ASSUME NEW p \in Plugin, w[p] # None PROVE p \in DOMAIN Recorded
  <2> SUFFICES ASSUME p \notin DOMAIN Recorded PROVE FALSE
    OBVIOUS
  <2>1. disk[p] # None /\ p \notin DOMAIN Inspected /\ Restored[p] = disk[p]
    BY <1>1, <1>4, <1>9
  <2>2. p \in DOMAIN entries /\ entries[p].content = disk[p] /\ disk[p] \in Known
    BY <1>2, <1>7, <1>8, <2>1, KnownIs
  <2>3. disk[p].kind = "signed" => Compatible(entries[p].content, disk[p])
    BY <2>2, CompatibleIs
  <2>4. p \in DOMAIN Inspected
    BY <1>2, <1>5, <2>1, <2>2, <2>3, ShownIs
  <2> QED BY <2>1, <2>4
<1>10. DOMAIN Present(w) = DOMAIN Recorded
  BY <1>1, <1>6, <1>9
<1>11. \A p \in DOMAIN Recorded : Present(w)[p] = Recorded[p]
  BY <1>1, <1>6, <1>10
<1> QED BY <1>1, <1>6, <1>10, <1>11, SameMap DEF w

(***************************************************************************)
(* What a start decides.                                                   *)
(***************************************************************************)

Quiet == blame \cap {"outside", "drift", "leftover"} = {}

\* DecisionsArePossible, part by part.
Decided ==
  Quiet /\ pending # None =>
    base # None /\ (Matches(base, Present(Restored)) \/ Matches(pending, Present(Restored)))
FoundIsThere ==
  "outside" \notin blame /\ pc \in {"open", "forget pending", "review"} => task.candidates = Present(Restored)
RecordIsNext ==
  Quiet /\ pc \in {"activate", "switch", "verify", "commit", "promote"} /\ task.prepared =>
    Matches(pending, Present(With(disk, task.goal)))
EditDiffers ==
  Unprepared /\ task.kind = "cases" /\ waiting = None =>
    Target \in DOMAIN entries /\ entries[Target].content.cases # Wanted.cases
EditDrifts ==
  pc \in {"prepare", "undo", "promote", "forget"} /\ task.kind = "cases" /\ pending # None => ~Quiet
EditStands ==
  Undisturbed /\ pc = "undo" /\ task.kind = "cases" => disk[Target] = Wanted
DecisionsFit == Decided /\ FoundIsThere /\ RecordIsNext /\ EditDiffers /\ EditDrifts /\ EditStands

LEMMA DecisionsAre == DecisionsArePossible <=> DecisionsFit
BY DEF DecisionsArePossible, DecisionsFit, Quiet, Decided, FoundIsThere, RecordIsNext, EditDiffers, EditDrifts,
   EditStands

LEMMA DecisionsNext == DecisionsArePossible' <=> DecisionsFit'
BY DEF DecisionsArePossible, DecisionsFit, Quiet, Decided, FoundIsThere, RecordIsNext, EditDiffers, EditDrifts,
   EditStands

\* What a restart would find changes at few steps.
LEMMA RestoredStays ==
  /\ UNCHANGED <<disk, txn>> => Restored' = Restored
  /\ disk' = Restored /\ txn' = None => Restored' = Restored
  /\ txn' = None => Restored' = disk'
  /\ txn = None => Restored = disk
BY DEF Restored

LEMMA ActivateRestores ==
  ASSUME Basis, Activate
  PROVE  /\ Restored = disk /\ With(disk', task.goal) = With(disk, task.goal)
         /\ task.kind # "cases" => Restored' = Restored
         /\ task.kind = "cases" => Restored' = disk'
<1>1. /\ disk' = With(disk, task.goal) /\ disk' \in [Plugin -> Content \cup {None}]
      /\ task.kind = "cases" => txn' = None
      /\ task.kind # "cases" => txn' # None /\ txn' = [p \in Members |-> disk[p]] /\ DOMAIN txn' = Members
      /\ pc = "activate"
  BY ActivateDoes
<1>2. disk \in [Plugin -> Content \cup {None}] /\ task.goal \in Directories /\ DOMAIN task.goal = Members
      /\ Members \subseteq Plugin
  BY TypesAre DEF Basis, TypeOK, Members
<1>3. txn = None
  BY <1>1 DEF Basis, TransactionFits
<1>4. With(disk', task.goal) = With(disk, task.goal)
  <2>1. With(disk', task.goal) \in [Plugin -> Content \cup {None}]
    BY <1>1, <1>2, WithFull DEF Directories
  <2>2. \A p \in Plugin : With(disk', task.goal)[p] = disk'[p]
    BY <1>1, <1>2 DEF With
  <2> QED BY <1>1, <2>1, <2>2
<1>5. ASSUME task.kind # "cases" PROVE Restored' = disk
  <2>1. Restored' = With(disk', txn')
    BY <1>1, <1>5 DEF Restored
  <2>2. [p \in Members |-> disk[p]] \in Directories
    <3>1. [p \in Members |-> disk[p]] \in [Members -> Content \cup {None}]
      BY <1>2
    <3> QED BY <1>2, <3>1, PartialFrom DEF Directories
  <2>3. With(disk', txn') \in [Plugin -> Content \cup {None}]
    BY <1>1, <1>5, <2>2, WithFull DEF Directories
  <2>4. \A p \in Plugin : With(disk', txn')[p] = disk[p]
    BY <1>1, <1>2, <1>5 DEF With, Members
  <2> QED BY <1>2, <2>1, <2>3, <2>4
<1> QED BY <1>1, <1>3, <1>4, <1>5, RestoredStays

\* Where every member is as it was wanted.
LEMMA GoalStands ==
  ASSUME Basis, \A p \in Members : disk[p] = task.goal[p]
  PROVE  With(disk, task.goal) = disk
<1>1. disk \in [Plugin -> Content \cup {None}] /\ With(disk, task.goal) \in [Plugin -> Content \cup {None}]
  BY TypesAre DEF Basis, TypeOK
<1>2. \A p \in Plugin : With(disk, task.goal)[p] = disk[p]
  BY <1>1 DEF With, Members
<1> QED BY <1>1, <1>2

\* The next baseline describes the next directories.
LEMMA NextMatches ==
  ASSUME Preparing, Drift = {}
  PROVE  Matches(NextDocument, Present(With(disk, task.goal)))
<1> DEFINE n == NextDocument.plugins
<1>1. Present(With(disk, task.goal)) = Recorded
  BY NoDrift
<1>2. Recorded \in Partial(Plugin, Known)
  BY PreparedContents
<1>3. /\ n \in Entries /\ NextDocument = Document(4, n)
      /\ \A p : p \in DOMAIN n <=> p \in DOMAIN Recorded \/ (p \in DOMAIN entries /\ p \notin Retiring)
      /\ \A p \in DOMAIN Recorded : n[p].content = Recorded[p] /\ n[p].installed
      /\ \A p \in DOMAIN n \ DOMAIN Recorded : ~n[p].installed
  BY PrepareDoes DEF Preparing
<1> HIDE DEF n
<1>4. DOMAIN Recorded = {p \in DOMAIN n : n[p].installed}
  BY <1>3
<1> QED BY <1>1, <1>2, <1>3, <1>4, MatchesIs

\* Debug cases that were edited are not what was accepted.
LEMMA EditMeansDrift ==
  ASSUME Preparing, EditDiffers, task.kind = "cases"
  PROVE  Drift # {}
<1> DEFINE m == Present(disk)
<1>1. /\ Basis /\ TypeOK /\ disk \in [Plugin -> Content \cup {None}] /\ entries \in Entries
      /\ pc = "prepare" /\ waiting = None /\ Undisturbed
  BY DEF Preparing, Basis, TypeOK
<1>2. Members = {Target} /\ Target \in Plugin /\ Wanted = task.goal[Target] /\ Wanted \in Mapping
  BY <1>1, TargetIs DEF Basis
<1>3. disk[Target] = Wanted
  BY <1>1, <1>2 DEF Preparing, DirectoriesFit
<1>4. ~task.prepared /\ Working
  BY <1>1, StandsIs DEF Stands, Basis, Working, Closed
<1>5. Target \in DOMAIN entries /\ entries[Target].content.cases # Wanted.cases
  BY <1>1, <1>4 DEF EditDiffers, Unprepared
<1>6. Restored = disk
  BY <1>1, <1>4, RestoredStays DEF Basis, TransactionFits
<1>7. /\ m \in Partial(Plugin, Known) /\ DOMAIN m = {p \in Plugin : disk[p] # None}
      /\ \A p \in DOMAIN m : m[p] = disk[p]
  BY <1>1, PresentIs, ContentsKnown
<1> HIDE DEF m
<1>8. Target \in DOMAIN m /\ m[Target] = Wanted
  BY <1>2, <1>3, <1>7, KnownIs
<1>9. ~Matches(Document(4, entries), m)
  BY <1>1, <1>5, <1>7, <1>8, MatchesIs
<1> QED BY <1>6, <1>9, DriftIs DEF m

LEMMA PrepareFailsDoes ==
  ASSUME PrepareFails
  PROVE  /\ pc = "prepare" /\ pc' = "undo" /\ task' = task
         /\ UNCHANGED <<disk, txn, base, entries, waiting, served, approved, retired, outside>>
         /\ \/ pending' = pending /\ blame' = blame
            \/ /\ waiting = None /\ pending = None /\ Preparable
               /\ pending' = NextDocument /\ blame' = blame \cup Drift
BY DEF PrepareFails, Undo, memory, bounds, Fault

LEMMA ThenPreparing ==
  ASSUME Basis, DirectoriesFit, Undisturbed,
         Prepare \/ (pc = "prepare" /\ waiting = None /\ pending = None /\ Preparable)
  PROVE  Preparing
BY DEF Preparing, Prepare

\* The current baseline while a command runs that has not promoted.
LEMMA BaseIs ==
  ASSUME Basis, ~Closed, waiting = None
  PROVE  base = Document(4, entries) /\ base # None /\ base.schema = 4 /\ base.plugins = entries /\ entries \in Entries
<1>1. base = Document(4, entries) /\ entries \in Entries
  BY DEF Basis, MemoryFits, TypeOK
<1> QED BY <1>1, DocumentIs

LEMMA FoundStep ==
  ASSUME Basis, FoundIsThere, [Next]_vars
  PROVE  FoundIsThere'
<1>1. ASSUME pc' \notin {"open", "forget pending", "review"} PROVE FoundIsThere'
  BY <1>1 DEF FoundIsThere
<1>2. ASSUME Restored' = Restored, task' = task, blame' = blame, pc \in {"open", "forget pending", "review"}
      PROVE  FoundIsThere'
  <2>1. Present(Restored)' = Present(Restored)
    BY <1>2
  <2> QED BY <1>2, <2>1 DEF FoundIsThere
<1>3. CASE StartupNext
  <2>1. CASE Startup
    <3>1. Restored' = Restored /\ task' = [NoTask EXCEPT !.candidates = Present(Restored)]
      BY <2>1, RestoredStays DEF Startup
    <3>2. task'.candidates = Present(Restored)
      BY <3>1 DEF NoTask
    <3> QED BY <3>1, <3>2 DEF FoundIsThere
  <2>2. CASE AdoptPending \/ ForgetPending
    <3>1. UNCHANGED <<disk, txn, task, blame>> /\ pc \in {"open", "forget pending", "review"}
      BY <2>2 DEF AdoptPending, ForgetPending, history
    <3> QED BY <1>2, <3>1, RestoredStays
  <2>3. CASE OpenWithoutBaseline \/ Refuse \/ Review \/ StartupFails
    BY <1>1, <2>3 DEF OpenWithoutBaseline, Refuse, Review, StartupFails
  <2> QED BY <1>3, <2>1, <2>2, <2>3 DEF StartupNext
<1>4. CASE PlanNext
  BY <1>1, <1>4, PlanKeeps DEF Basis
<1>5. CASE CommandNext
  <2>1. CASE Begin BY <1>1, <2>1, BeginDoes
  <2>2. CASE Prepare BY <1>1, <2>2, PreparedTask
  <2>3. CASE Switch \/ ((Verify \/ Commit) /\ Advance)
    <3>1. Advance /\ pc \in {"switch", "verify", "commit"}
      BY <2>3 DEF Switch, Verify, Commit
    <3> QED BY <1>1, <3>1, AdvanceDoes
  <2>4. CASE Activate BY <1>1, <2>4, ActivateDoes
  <2>5. CASE \/ Check \/ Recover \/ Forget \/ RollBack \/ PrepareFails \/ Decline \/ Abort \/ AbortFails
             \/ PromoteFails \/ Promote \/ ActivateFails \/ SwitchFails \/ CommitFails \/ RollBackFails \/ (Verify /\ Undo)
    BY <1>1, <2>5 DEF Check, Recover, Forget, RollBack, PrepareFails, Decline, Abort, AbortFails, PromoteFails, Promote,
       ActivateFails, SwitchFails, CommitFails, RollBackFails, Undo, Answer
  <2> QED BY <1>5, <2>1, <2>2, <2>3, <2>4, <2>5, CommandSplit
<1>6. CASE \E p \in Plugin, c \in Content \cup {None} : ChangeOutside(p, c)
  <2>1. "outside" \in blame'
    BY <1>6 DEF ChangeOutside
  <2> QED BY <2>1 DEF FoundIsThere
<1>7. CASE LoseBaseline \/ Crash
  BY <1>1, <1>7 DEF LoseBaseline, Crash
<1>8. CASE UNCHANGED vars
  <2>1. UNCHANGED <<disk, txn, task, blame, pc>>
    BY <1>8 DEF vars, files, history
  <2> QED BY <1>1, <1>2, <2>1, RestoredStays
<1> QED BY <1>3, <1>4, <1>5, <1>6, <1>7, <1>8 DEF Next

\* The commands that edit debug cases.
LEMMA EditStep ==
  ASSUME Basis, DirectoriesFit, DecisionsFit, [Next]_vars
  PROVE  EditDiffers' /\ EditDrifts' /\ EditStands'
<1>0. EditDiffers /\ EditDrifts /\ EditStands
  BY DEF DecisionsFit
<1>1. ASSUME task'.kind # "cases" \/ pc' \notin {"begin", "activate", "prepare", "undo", "promote", "forget"}
      PROVE  EditDiffers' /\ EditDrifts' /\ EditStands'
  BY <1>1 DEF EditDiffers, EditDrifts, EditStands, Unprepared
\* The command goes on without a change of what it looked at.
<1>2. ASSUME task'.kind = task.kind, task'.goal = task.goal, entries' = entries, waiting' = waiting,
             Unprepared' => Unprepared
      PROVE  EditDiffers'
  BY <1>0, <1>2, SameGoal DEF EditDiffers
<1>3. CASE StartupNext
  <2>1. pc' \notin {"begin", "activate", "prepare", "undo", "promote", "forget"}
    BY <1>3 DEF StartupNext, Startup, OpenWithoutBaseline, AdoptPending, Refuse, ForgetPending, Review, StartupFails
  <2> QED BY <1>1, <2>1
<1>4. CASE PlanNext
  BY <1>1, <1>4, PlanKeeps DEF Basis
<1>5. CASE CommandNext
  <2>1. CASE Check
    <3>1. /\ pc' = "begin" /\ task'.kind = task.kind /\ task'.goal = task.goal /\ UNCHANGED <<files, memory>>
      BY <2>1, CheckDoes
    <3>2. EditDrifts' /\ EditStands'
      BY <3>1 DEF EditDrifts, EditStands
    <3>3. ASSUME task.kind = "cases", waiting = None
          PROVE  Target \in DOMAIN entries /\ entries[Target].content.cases # Wanted.cases
      <4>1. /\ Target \in DOMAIN AcceptedMappings /\ AcceptedMappings[Target].content = disk[Target]
            /\ Wanted.cases # disk[Target].cases
        BY <2>1, <3>3, EditDoes
      <4> QED BY <3>3, <4>1 DEF AcceptedMappings
    <3>4. Target' = Target /\ Wanted' = Wanted /\ entries' = entries /\ waiting' = waiting
      BY <3>1, SameGoal DEF memory
    <3>5. EditDiffers'
      BY <3>1, <3>3, <3>4 DEF EditDiffers
    <3> QED BY <3>2, <3>5
  <2>2. CASE Begin
    <3>1. /\ task'.kind = task.kind /\ task'.goal = task.goal /\ pc = "begin" /\ task.prepared = FALSE
          /\ pc' = IF task.kind \in {"install", "save", "reload"} THEN "prepare" ELSE "activate"
          /\ UNCHANGED <<files, memory>>
      BY <2>2, BeginDoes
    <3>2. EditDrifts' /\ EditStands'
      BY <3>1 DEF EditDrifts, EditStands
    <3>3. EditDiffers'
      BY <1>2, <3>1 DEF Unprepared, memory
    <3> QED BY <3>2, <3>3
  <2>3. CASE Prepare
    <3>1. /\ task'.kind = task.kind /\ task'.goal = task.goal /\ task'.prepared = TRUE
          /\ pc = "prepare" /\ waiting = None /\ pending = None /\ Preparable
          /\ pc' \in {"activate", "switch", "promote"} /\ blame' = blame \cup Drift
      BY <2>3, PreparedTask
    <3>2. EditDiffers' /\ EditStands'
      BY <3>1 DEF EditDiffers, EditStands, Unprepared
    <3>3. ASSUME task.kind = "cases", Quiet' PROVE FALSE
      <4>1. Undisturbed /\ Drift = {}
        BY <3>1, <3>3, DriftIs DEF Quiet, Undisturbed
      <4>2. Preparing
        BY <2>3, <4>1, ThenPreparing
      <4> QED BY <1>0, <3>3, <4>1, <4>2, EditMeansDrift
    <3> QED BY <3>1, <3>2, <3>3 DEF EditDrifts
  <2>4. CASE PrepareFails
    <3>1. /\ pc = "prepare" /\ pc' = "undo" /\ task' = task /\ disk' = disk
          /\ \/ pending' = pending /\ blame' = blame
             \/ /\ waiting = None /\ pending = None /\ Preparable
                /\ pending' = NextDocument /\ blame' = blame \cup Drift
      BY <2>4, PrepareFailsDoes
    <3>2. EditDiffers'
      BY <3>1 DEF EditDiffers, Unprepared
    <3>3. Target' = Target /\ Wanted' = Wanted
      BY <3>1, SameGoal
    <3>4. EditStands'
      <4> SUFFICES ASSUME Undisturbed', task.kind = "cases" PROVE disk[Target] = Wanted
        BY <3>1, <3>3 DEF EditStands
      <4>1. Undisturbed
        BY <3>1, DriftIs DEF Undisturbed
      <4>2. Members = {Target} /\ Wanted = task.goal[Target]
        BY TargetIs DEF Basis
      <4> QED BY <3>1, <4>1, <4>2 DEF DirectoriesFit
    <3>5. ASSUME task.kind = "cases", Quiet', pending' # None PROVE FALSE
      <4>1. CASE pending' = pending /\ blame' = blame
        BY <1>0, <3>1, <3>5, <4>1 DEF EditDrifts, Quiet
      <4>2. CASE waiting = None /\ pending = None /\ Preparable /\ blame' = blame \cup Drift
        <5>1. Undisturbed /\ Drift = {}
          BY <3>5, <4>2, DriftIs DEF Quiet, Undisturbed
        <5>2. Preparing
          BY <3>1, <4>2, <5>1, ThenPreparing
        <5> QED BY <1>0, <3>5, <5>1, <5>2, EditMeansDrift
      <4> QED BY <3>1, <4>1, <4>2
    <3> QED BY <3>1, <3>2, <3>4, <3>5 DEF EditDrifts
  <2>5. CASE Activate
    <3>1. /\ task'.kind = task.kind /\ task'.goal = task.goal /\ task'.prepared = task.prepared
          /\ pc = "activate" /\ pc' \in {"switch", "prepare"} /\ UNCHANGED <<base, pending, memory>>
      BY <2>5, ActivateDoes
    <3>2. EditDiffers'
      BY <1>2, <3>1 DEF Unprepared, memory
    <3>3. EditStands'
      BY <3>1 DEF EditStands
    <3>4. task.kind = "cases" /\ pending # None => "leftover" \in blame'
      BY <2>5 DEF Activate
    <3> QED BY <3>1, <3>2, <3>3, <3>4 DEF EditDrifts, Quiet
  <2>6. CASE Switch \/ ((Verify \/ Commit) /\ Advance)
    <3>1. /\ Advance /\ pc \in {"switch", "verify", "commit"}
      BY <2>6 DEF Switch, Verify, Commit
    <3>2. task'.kind = task.kind /\ task.kind # "cases"
      BY <3>1, AdvanceDoes, StandsIs DEF Stands, Basis
    <3> QED BY <1>1, <3>2
  <2>7. CASE Promote
    <3>1. pc = "promote" /\ pc' = "forget" /\ UNCHANGED <<pending, task, blame>>
      BY <2>7 DEF Promote, history
    <3> QED BY <1>0, <3>1 DEF EditDiffers, EditDrifts, EditStands, Unprepared, Quiet
  <2>8. CASE SwitchFails \/ CommitFails \/ (Verify /\ Undo)
    <3>1. pc \in {"switch", "commit", "verify"} /\ task' = task
      BY <2>8 DEF SwitchFails, CommitFails, Verify, Undo
    <3>2. task.kind # "cases"
      BY <3>1, StandsIs DEF Stands, Basis
    <3> QED BY <1>1, <3>1, <3>2
  <2>9. CASE ActivateFails
    <3>1. pc' = (IF task.kind = "cases" THEN "abort" ELSE "undo") /\ task' = task
      BY <2>9 DEF ActivateFails
    <3> QED BY <1>1, <3>1
  <2>10. CASE Recover \/ Decline \/ Abort \/ AbortFails \/ PromoteFails \/ Forget \/ RollBack \/ RollBackFails
    <3>1. pc' \in {"plan", "idle", "abort"}
      BY <2>10 DEF Recover, Decline, Abort, AbortFails, PromoteFails, Forget, RollBack, RollBackFails, Answer
    <3> QED BY <1>1, <3>1
  <2> QED BY <1>5, <2>1, <2>2, <2>3, <2>4, <2>5, <2>6, <2>7, <2>8, <2>9, <2>10, CommandSplit
<1>6. CASE \E p \in Plugin, c \in Content \cup {None} : ChangeOutside(p, c)
  <2>1. /\ "outside" \in blame' /\ UNCHANGED <<entries, waiting, pc, task>>
        /\ pc = "undo" => "raced" \in blame'
    BY <1>6 DEF ChangeOutside, memory
  <2>2. EditDiffers'
    BY <1>2, <2>1 DEF Unprepared
  <2> QED BY <2>1, <2>2 DEF EditDrifts, EditStands, Quiet, Undisturbed
<1>7. CASE LoseBaseline \/ Crash
  <2>1. pc' = "down"
    BY <1>7 DEF LoseBaseline, Crash
  <2> QED BY <1>1, <2>1
<1>8. CASE UNCHANGED vars
  <2>1. UNCHANGED <<disk, pending, entries, waiting, pc, task, blame>>
    BY <1>8 DEF vars, files, memory, history
  <2> QED BY <1>0, <2>1, SameGoal DEF EditDiffers, EditDrifts, EditStands, Unprepared, Quiet, Undisturbed
<1> QED BY <1>3, <1>4, <1>5, <1>6, <1>7, <1>8 DEF Next

LEMMA RecordStep ==
  ASSUME Basis, DirectoriesFit, DecisionsFit, [Next]_vars
  PROVE  RecordIsNext'
<1>0. RecordIsNext
  BY DEF DecisionsFit
<1>1. ASSUME pc' \notin {"activate", "switch", "verify", "commit", "promote"} \/ ~task'.prepared \/ ~Quiet'
      PROVE  RecordIsNext'
  BY <1>1 DEF RecordIsNext
<1>2. ASSUME With(disk', task'.goal) = With(disk, task.goal), pending' = pending, blame \subseteq blame',
             pc \in {"activate", "switch", "verify", "commit", "promote"}, task'.prepared = task.prepared
      PROVE  RecordIsNext'
  <2>1. Present(With(disk, task.goal))' = Present(With(disk, task.goal))
    BY <1>2
  <2> QED BY <1>0, <1>2, <2>1 DEF RecordIsNext, Quiet
<1>3. CASE StartupNext
  <2>1. pc' \in {"open", "forget pending", "review", "idle", "down", "refused"}
    BY <1>3 DEF StartupNext, Startup, OpenWithoutBaseline, AdoptPending, Refuse, ForgetPending, Review, StartupFails
  <2> QED BY <1>1, <2>1
<1>4. CASE PlanNext
  BY <1>1, <1>4, PlanKeeps DEF Basis
<1>5. CASE CommandNext
  <2>1. CASE Begin BY <1>1, <2>1, BeginDoes
  <2>2. CASE Prepare
    <3>1. /\ task'.goal = task.goal /\ pc = "prepare" /\ waiting = None /\ Preparable
          /\ pending' = NextDocument /\ blame' = blame \cup Drift /\ disk' = disk
      BY <2>2, PreparedTask
    <3> SUFFICES ASSUME Quiet' PROVE RecordIsNext'
      BY <1>1
    <3>2. Undisturbed /\ Drift = {}
      BY <3>1, DriftIs DEF Quiet, Undisturbed
    <3>3. Preparing
      BY <2>2, <3>2, ThenPreparing
    <3>4. Matches(NextDocument, Present(With(disk, task.goal)))
      BY <3>2, <3>3, NextMatches
    <3>5. Present(With(disk, task.goal))' = Present(With(disk, task.goal))
      BY <3>1
    <3> QED BY <3>1, <3>4, <3>5 DEF RecordIsNext
  <2>3. CASE Activate
    <3>1. /\ task'.goal = task.goal /\ task'.prepared = task.prepared /\ pc = "activate" /\ pending' = pending
      BY <2>3, ActivateDoes
    <3>2. blame \subseteq blame'
      BY <2>3 DEF Activate
    <3>3. With(disk', task.goal) = With(disk, task.goal)
      BY <2>3, ActivateRestores
    <3> QED BY <1>2, <3>1, <3>2, <3>3
  <2>4. CASE Switch \/ ((Verify \/ Commit) /\ Advance)
    <3>1. /\ Advance /\ pc \in {"switch", "verify", "commit"} /\ UNCHANGED <<disk, pending, blame>>
      BY <2>4 DEF Switch, Verify, Commit, files, history
    <3>2. task'.goal = task.goal /\ task'.prepared = task.prepared
      BY <3>1, AdvanceDoes
    <3> QED BY <1>2, <3>1, <3>2
  <2>5. CASE \/ Check \/ Recover \/ Forget \/ RollBack \/ PrepareFails \/ Decline \/ Abort \/ AbortFails
             \/ PromoteFails \/ Promote \/ ActivateFails \/ SwitchFails \/ CommitFails \/ RollBackFails \/ (Verify /\ Undo)
    <3>1. pc' \in {"begin", "plan", "idle", "abort", "undo", "forget"}
      BY <2>5 DEF Check, Recover, Forget, RollBack, PrepareFails, Decline, Abort, AbortFails, PromoteFails, Promote,
       ActivateFails, SwitchFails, CommitFails, RollBackFails, Undo, Answer
    <3> QED BY <1>1, <3>1
  <2> QED BY <1>5, <2>1, <2>2, <2>3, <2>4, <2>5, CommandSplit
<1>6. CASE \E p \in Plugin, c \in Content \cup {None} : ChangeOutside(p, c)
  <2>1. "outside" \in blame'
    BY <1>6 DEF ChangeOutside
  <2> QED BY <1>1, <2>1 DEF Quiet
<1>7. CASE LoseBaseline \/ Crash
  <2>1. pc' = "down"
    BY <1>7 DEF LoseBaseline, Crash
  <2> QED BY <1>1, <2>1
<1>8. CASE UNCHANGED vars
  <2>1. UNCHANGED <<disk, pending, task, pc, blame>>
    BY <1>8 DEF vars, files, history
  <2> QED BY <1>1, <1>2, <2>1
<1> QED BY <1>3, <1>4, <1>5, <1>6, <1>7, <1>8 DEF Next

LEMMA DecidedStep ==
  ASSUME Basis, DirectoriesFit, DecisionsFit, [Next]_vars
  PROVE  Decided'
<1>0. Decided /\ FoundIsThere /\ RecordIsNext /\ EditDrifts /\ EditStands
  BY DEF DecisionsFit
<1>1. ASSUME pending' = None \/ ~Quiet' PROVE Decided'
  BY <1>1 DEF Decided
<1>2. ASSUME Restored' = Restored, base' = base, pending' = pending, blame \subseteq blame' PROVE Decided'
  <2>1. Present(Restored)' = Present(Restored)
    BY <1>2
  <2> QED BY <1>0, <1>2, <2>1 DEF Decided, Quiet
\* The record describes what a start will find.
<1>3. ASSUME base' # None, pending' = pending, Matches(pending, Present(Restored')) PROVE Decided'
  BY <1>3 DEF Decided
<1>4. CASE StartupNext
  <2>1. CASE Startup
    <3>1. UNCHANGED <<base, pending, blame>> /\ Restored' = Restored
      BY <2>1, RestoredStays DEF Startup, history
    <3> QED BY <1>2, <3>1
  <2>2. CASE AdoptPending
    <3>1. /\ pc = "open" /\ base # None /\ UNCHANGED <<disk, txn, pending, task, blame>>
          /\ base' = IF PendingWins(task.candidates) THEN pending ELSE base
      BY <2>2 DEF AdoptPending, history
    <3>2. Restored' = Restored
      BY <3>1, RestoredStays
    <3>3. CASE ~PendingWins(task.candidates)
      BY <1>2, <3>1, <3>2, <3>3
    <3>4. CASE PendingWins(task.candidates)
      <4> SUFFICES ASSUME Quiet' PROVE Decided'
        BY <1>1
      <4>1. task.candidates = Present(Restored)
        BY <1>0, <3>1 DEF FoundIsThere, Quiet
      <4>2. pending # None /\ Matches(pending, Present(Restored))
        BY <3>4, <4>1 DEF PendingWins
      <4>3. Present(Restored)' = Present(Restored)
        BY <3>2
      <4> QED BY <1>3, <3>1, <3>4, <4>2, <4>3
    <3> QED BY <3>3, <3>4
  <2>3. CASE Refuse \/ StartupFails
    <3>1. UNCHANGED <<disk, txn, base, pending, blame>>
      BY <2>3 DEF Refuse, StartupFails, files, history
    <3> QED BY <1>2, <3>1, RestoredStays
  <2>4. CASE OpenWithoutBaseline \/ ForgetPending \/ Review
    <3>1. pending' = None
      BY <2>4 DEF OpenWithoutBaseline, ForgetPending, Review, Basis, MemoryFits
    <3> QED BY <1>1, <3>1
  <2> QED BY <1>4, <2>1, <2>2, <2>3, <2>4 DEF StartupNext
<1>5. CASE PlanNext
  <2>1. UNCHANGED <<disk, txn, base, pending>> /\ (blame' = blame \/ pending' = None)
    BY <1>5, PlanKeeps DEF Basis, files
  <2> QED BY <1>1, <1>2, <2>1, RestoredStays
<1>6. CASE CommandNext
  <2>1. CASE Check
    <3>1. UNCHANGED <<files, memory, blame>>
      BY <2>1, CheckDoes
    <3> QED BY <1>2, <3>1, RestoredStays DEF files
  <2>2. CASE Recover
    BY <1>2, <2>2, RestoredStays DEF Recover, history
  <2>3. CASE Begin
    <3>1. UNCHANGED <<files, memory, history>>
      BY <2>3, BeginDoes
    <3> QED BY <1>2, <3>1, RestoredStays DEF files, history
  <2>4. ASSUME pc = "prepare", waiting = None, pending = None, Preparable, blame' = blame \cup Drift,
               pending' = NextDocument, UNCHANGED <<disk, txn, base>>
        PROVE  Decided'
    <3> SUFFICES ASSUME Quiet' PROVE Decided'
      BY <1>1
    <3>1. Drift = {}
      BY <2>4, DriftIs DEF Quiet
    <3>2. Matches(Document(4, entries), Present(Restored))
      BY <3>1, DriftIs
    <3>3. base = Document(4, entries) /\ base # None
      BY <2>4, BaseIs DEF Closed
    <3>4. Present(Restored)' = Present(Restored)
      BY <2>4, RestoredStays
    <3> QED BY <2>4, <3>2, <3>3, <3>4 DEF Decided
  <2>5. CASE Prepare
    BY <2>4, <2>5, PreparedTask
  <2>6. CASE PrepareFails
    BY <1>2, <2>4, <2>6, PrepareFailsDoes, RestoredStays
  <2>7. CASE Activate
    <3>1. UNCHANGED <<base, pending>>
      BY <2>7, ActivateDoes
    <3>2. blame \subseteq blame' /\ (task.kind = "cases" /\ pending # None => "leftover" \in blame')
      BY <2>7 DEF Activate
    <3>3. task.kind # "cases" => Restored' = Restored
      BY <2>7, ActivateRestores
    <3> QED BY <1>1, <1>2, <3>1, <3>2, <3>3 DEF Quiet
  <2>8. CASE Commit /\ Advance
    <3>1. /\ pc = "commit" /\ txn' = None /\ UNCHANGED <<disk, base, pending, blame>>
      BY <2>8 DEF Commit, history
    <3> SUFFICES ASSUME Quiet', pending # None PROVE Decided'
      BY <1>1, <3>1
    <3>2. Restored' = disk
      BY <3>1, RestoredStays
    <3>3. task.prepared /\ base # None
      <4>1. task.prepared
        BY <3>1, StandsIs DEF Stands, Basis
      <4>2. base # None
        BY <3>1, <4>1, DocumentIs DEF Basis, MemoryFits, TypeOK
      <4> QED BY <4>1, <4>2
    <3>4. With(disk, task.goal) = disk
      <4>1. Undisturbed
        BY <3>1 DEF Quiet, Undisturbed
      <4> QED BY <3>1, <4>1, GoalStands DEF DirectoriesFit
    <3>5. Matches(pending, Present(disk))
      BY <1>0, <3>1, <3>3, <3>4 DEF RecordIsNext, Quiet
    <3> QED BY <1>3, <3>1, <3>2, <3>3, <3>5
  <2>9. CASE Switch \/ (Verify /\ Advance)
    <3>1. UNCHANGED <<disk, txn, base, pending, blame>>
      BY <2>9 DEF Switch, Verify, files, history
    <3> QED BY <1>2, <3>1, RestoredStays
  <2>10. ASSUME pc = "promote", base' = Document(4, waiting), UNCHANGED <<disk, txn, pending, blame>>
         PROVE  Decided'
    <3> SUFFICES ASSUME Quiet', pending # None PROVE Decided'
      BY <1>1, <2>10
    <3>1. task.prepared /\ waiting # None /\ pending = Document(4, waiting) /\ txn = None
      BY <2>10 DEF Basis, StepsFit, MemoryFits, TransactionFits
    <3>2. Restored' = disk
      BY <2>10, <3>1, RestoredStays
    <3>3. Undisturbed
      BY <2>10 DEF Quiet, Undisturbed
    <3>4. With(disk, task.goal) = disk
      BY <2>10, <3>3, GoalStands DEF DirectoriesFit
    <3>5. Matches(pending, Present(disk))
      BY <1>0, <2>10, <3>1, <3>4 DEF RecordIsNext, Quiet
    <3> QED BY <1>3, <2>10, <3>1, <3>2, <3>5
  <2>11. CASE Promote
    BY <2>10, <2>11 DEF Promote, history
  <2>12. CASE PromoteFails
    <3>1. /\ UNCHANGED <<disk, txn, pending, blame>>
          /\ base' = base \/ (pc = "promote" /\ base' = Document(4, waiting))
      BY <2>12 DEF PromoteFails, history
    <3> QED BY <1>2, <2>10, <3>1, RestoredStays
  <2>13. CASE Forget
    BY <1>1, <2>13 DEF Forget
  <2>14. CASE RollBack
    <3>1. /\ task.kind # "cases" => disk' = Restored
          /\ txn' = None /\ pc = "undo" /\ UNCHANGED <<base, pending, blame>>
      BY <2>14, RollBackDoes DEF history
    <3>2. CASE task.kind = "cases"
      BY <1>0, <1>1, <3>1, <3>2 DEF EditDrifts, Quiet
    <3>3. CASE task.kind # "cases"
      BY <1>2, <3>1, <3>3, RestoredStays
    <3> QED BY <3>2, <3>3
  <2>15. CASE Decline \/ Abort \/ AbortFails
    <3>1. UNCHANGED <<disk, txn, base, blame>> /\ pending' \in {pending, None}
      BY <2>15 DEF Decline, Abort, AbortFails, files, history
    <3> QED BY <1>1, <1>2, <3>1, RestoredStays
  <2>16. CASE ActivateFails \/ SwitchFails \/ CommitFails \/ RollBackFails \/ (Verify /\ Undo)
    <3>1. UNCHANGED <<disk, txn, base, pending, blame>>
      BY <2>16 DEF ActivateFails, SwitchFails, CommitFails, RollBackFails, Verify, files, history
    <3> QED BY <1>2, <3>1, RestoredStays
  <2> QED BY <1>6, <2>1, <2>2, <2>3, <2>5, <2>6, <2>7, <2>8, <2>9, <2>11, <2>12, <2>13, <2>14, <2>15, <2>16,
             CommandSplit
<1>7. CASE \E p \in Plugin, c \in Content \cup {None} : ChangeOutside(p, c)
  <2>1. "outside" \in blame'
    BY <1>7 DEF ChangeOutside
  <2> QED BY <1>1, <2>1 DEF Quiet
<1>8. CASE LoseBaseline
  <2>1. "outside" \in blame'
    BY <1>8 DEF LoseBaseline
  <2> QED BY <1>1, <2>1 DEF Quiet
<1>9. CASE Crash \/ UNCHANGED vars
  <2>1. UNCHANGED <<disk, txn, base, pending, blame>>
    BY <1>9 DEF Crash, vars, files, history
  <2> QED BY <1>2, <2>1, RestoredStays
<1> QED BY <1>4, <1>5, <1>6, <1>7, <1>8, <1>9 DEF Next

LEMMA DecisionsStep ==
  ASSUME Basis, DirectoriesFit, DecisionsFit, [Next]_vars
  PROVE  DecisionsFit'
BY FoundStep, EditStep, RecordStep, DecidedStep DEF DecisionsFit

LEMMA DecisionsInit == Init => DecisionsFit
<1> SUFFICES ASSUME Init PROVE DecisionsFit
  OBVIOUS
<1>1. pc = "down" /\ pending = None
  BY DEF Init
<1> QED BY <1>1 DEF DecisionsFit, Decided, FoundIsThere, RecordIsNext, EditDiffers, EditDrifts, EditStands, Unprepared

\* A start is refused for a reason.
LEMMA DecidedStarts ==
  ASSUME Basis, DecisionsFit, StartsAreDecided, [Next]_vars
  PROVE  StartsAreDecided'
<1>1. CASE Refuse
  <2>1. pc = "open" /\ Undecided(task.candidates) /\ blame' = blame
    BY <1>1 DEF Refuse, history
  <2> SUFFICES ASSUME Quiet PROVE FALSE
    BY <2>1 DEF StartsAreDecided, Quiet
  <2>2. task.candidates = Present(Restored)
    BY <2>1 DEF DecisionsFit, FoundIsThere, Quiet
  <2> QED BY <2>1, <2>2 DEF DecisionsFit, Decided, Undecided
<1>2. ASSUME pc' # "refused" PROVE StartsAreDecided'
  BY <1>2 DEF StartsAreDecided
<1>3. CASE Startup \/ OpenWithoutBaseline \/ AdoptPending \/ ForgetPending \/ Review \/ StartupFails
  BY <1>2, <1>3 DEF Startup, OpenWithoutBaseline, AdoptPending, ForgetPending, Review, StartupFails
<1>4. CASE PlanNext
  BY <1>2, <1>4, PlanKeeps DEF Basis
<1>5. CASE CommandNext
  <2>1. CASE Begin BY <1>2, <2>1, BeginDoes
  <2>2. CASE Prepare BY <1>2, <2>2, PreparedTask
  <2>3. CASE Switch \/ ((Verify \/ Commit) /\ Advance)
    <3>1. Advance /\ pc \in {"switch", "verify", "commit"}
      BY <2>3 DEF Switch, Verify, Commit
    <3> QED BY <1>2, <3>1, AdvanceDoes
  <2>4. CASE Activate BY <1>2, <2>4, ActivateDoes
  <2>5. CASE \/ Check \/ Recover \/ Forget \/ RollBack \/ PrepareFails \/ Decline \/ Abort \/ AbortFails
             \/ PromoteFails \/ Promote \/ ActivateFails \/ SwitchFails \/ CommitFails \/ RollBackFails \/ (Verify /\ Undo)
    BY <1>2, <2>5 DEF Check, Recover, Forget, RollBack, PrepareFails, Decline, Abort, AbortFails, PromoteFails, Promote,
       ActivateFails, SwitchFails, CommitFails, RollBackFails, Undo, Answer
  <2> QED BY <1>5, <2>1, <2>2, <2>3, <2>4, <2>5, CommandSplit
<1>6. CASE (\E p \in Plugin, c \in Content \cup {None} : ChangeOutside(p, c)) \/ UNCHANGED vars
  <2>1. pc' = pc /\ blame \subseteq blame'
    BY <1>6 DEF ChangeOutside, vars, history
  <2> QED BY <2>1 DEF StartsAreDecided
<1>7. CASE LoseBaseline \/ Crash
  <2>1. pc' = "down"
    BY <1>7 DEF LoseBaseline, Crash
  <2> QED BY <1>2, <2>1
<1> QED BY <1>1, <1>3, <1>4, <1>5, <1>6, <1>7 DEF Next, StartupNext

(***************************************************************************)
(* What a start serves of the directories is what was accepted.            *)
(***************************************************************************)

LEMMA InstalledIs ==
  ASSUME NEW e \in Entries
  PROVE  /\ Installed(e) \in Partial(Plugin, Known)
         /\ DOMAIN Installed(e) = {p \in DOMAIN e : e[p].installed}
         /\ \A p \in DOMAIN Installed(e) : Installed(e)[p] = e[p].content
<1> DEFINE D == {p \in DOMAIN e : e[p].installed}
<1>1. D \in SUBSET Plugin /\ \A p \in D : e[p].content \in Known
  BY EntryIs
<1>2. Installed(e) = [p \in D |-> e[p].content]
  BY DEF Installed
<1>3. Installed(e) \in [D -> Known]
  BY <1>1, <1>2
<1> QED BY <1>1, <1>2, <1>3, PartialFrom

LEMMA ServesIs == \A e, d : ServesAll(e, d) <=> Routes(Shown(e, e, d)) = Routes(Installed(e))
BY DEF ServesAll, Shown, Blocked

\* All the next baseline has installed is what it records.
LEMMA NextInstalled ==
  ASSUME Basis, Preparable
  PROVE  Installed(NextDocument.plugins) = Recorded
<1> DEFINE n == NextDocument.plugins
<1>1. Recorded \in Partial(Plugin, Known)
  BY RecordedIs DEF Basis
<1>2. /\ n \in Entries
      /\ \A p : p \in DOMAIN n <=> p \in DOMAIN Recorded \/ (p \in DOMAIN entries /\ p \notin Retiring)
      /\ \A p \in DOMAIN Recorded : n[p].content = Recorded[p] /\ n[p].installed
      /\ \A p \in DOMAIN n \ DOMAIN Recorded : ~n[p].installed
  BY PrepareDoes
<1> HIDE DEF n
<1>3. /\ Installed(n) \in Partial(Plugin, Known) /\ DOMAIN Installed(n) = {p \in DOMAIN n : n[p].installed}
      /\ \A p \in DOMAIN Installed(n) : Installed(n)[p] = n[p].content
  BY <1>2, InstalledIs
<1>4. DOMAIN Installed(n) = DOMAIN Recorded
  BY <1>2, <1>3
<1>5. Installed(n) = Recorded
  BY <1>1, <1>2, <1>3, <1>4, SameMap
<1> QED BY <1>5 DEF n

LEMMA NextServes ==
  ASSUME Preparing
  PROVE  ServesAll(NextDocument.plugins, With(disk, task.goal))
BY NextShown, NextInstalled, ServesIs DEF Preparing

\* A start without a baseline serves what it accepts.
LEMMA OpenServes ==
  ASSUME Basis, FoundIsThere, "outside" \notin blame, OpenWithoutBaseline
  PROVE  ServesAll(entries', Restored)
<1> DEFINE m == task.candidates
           e == entries'
           s == Shown(e, e, Restored)
<1>1. /\ e \in Entries /\ pc = "open"
      /\ DOMAIN e = {p \in DOMAIN m : m[p].kind = "signed"}
      /\ \A p \in DOMAIN e : e[p].content = m[p] /\ e[p].installed
  BY OpenDoes
<1>2. m = Present(Restored) /\ Restored \in [Plugin -> Content \cup {None}]
  BY <1>1, TypesAre DEF FoundIsThere, Basis
<1>3. /\ DOMAIN m = {p \in Plugin : Restored[p] # None}
      /\ \A p \in DOMAIN m : m[p] = Restored[p] /\ m[p] \in Content /\ m[p] \in Known
  BY <1>2, PresentIs, KnownIs
<1> HIDE DEF m, e
<1>4. /\ s \in Partial(Plugin, Content)
      /\ \A p \in DOMAIN s : p \in Plugin /\ s[p] = Restored[p]
      /\ \A p : p \in DOMAIN s <=>
           /\ p \in Plugin /\ Restored[p] # None
           /\ Restored[p].kind = "signed" /\ p \in DOMAIN e =>
                e[p].content.kind = "signed" /\ Compatible(e[p].content, Restored[p])
           /\ Restored[p].kind = "mapping" => p \in DOMAIN e /\ e[p].content = Restored[p]
  BY <1>1, <1>2, ShownIs
<1>5. /\ Installed(e) \in Partial(Plugin, Known) /\ DOMAIN Installed(e) = DOMAIN e
      /\ \A p \in DOMAIN Installed(e) : Installed(e)[p] = e[p].content
  BY <1>1, InstalledIs
<1>6. ASSUME NEW p \in DOMAIN e PROVE p \in DOMAIN s
  <2>1. Restored[p] = m[p] /\ m[p].kind = "signed" /\ m[p] \in Known /\ Restored[p] # None /\ p \in Plugin
        /\ e[p].content = m[p]
    BY <1>1, <1>3
  <2>2. Compatible(m[p], m[p])
    BY <2>1, CompatibleIs
  <2> QED BY <1>4, <2>1, <2>2
<1>7. ASSUME NEW p \in DOMAIN s PROVE p \in DOMAIN e
  <2>1. p \in DOMAIN m /\ m[p] = Restored[p] /\ m[p] \in Known
    BY <1>3, <1>4
  <2>2. m[p].kind = "mapping" => p \in DOMAIN e
    BY <1>4, <2>1
  <2>3. m[p].kind \in {"signed", "mapping"}
    BY <2>1, KnownIs
  <2> QED BY <1>1, <2>1, <2>2, <2>3
<1>8. DOMAIN s = DOMAIN e
  BY <1>6, <1>7
<1>9. \A p \in DOMAIN s : s[p] = Installed(e)[p]
  BY <1>1, <1>3, <1>4, <1>5, <1>8
<1>10. s = Installed(e)
  BY <1>4, <1>5, <1>8, <1>9, SameMap
<1> QED BY <1>10, ServesIs DEF s, e

\* A start that reviews what it finds serves what it accepts of it.
LEMMA ReviewInstalled ==
  ASSUME Basis, Review
  PROVE  /\ Installed(entries') = Without(task.candidates, ReviewBlocks)
         /\ served' = Routes(Installed(entries'))
<1> DEFINE m == task.candidates
           B == ReviewBlocks
           e == entries'
<1>1. /\ Adopted(base, m) \in Entries /\ m \in Partial(Plugin, Content)
      /\ e \in Entries
      /\ \A p : p \in DOMAIN e <=> p \in DOMAIN Adopted(base, m) \/ (p \in DOMAIN m /\ p \notin B)
      /\ \A p \in DOMAIN m \ B : e[p].content = m[p] /\ e[p].installed
      /\ \A p \in DOMAIN Adopted(base, m) \ (DOMAIN m \ B) : ~e[p].installed
      /\ served' = Routes(Without(m, B))
  BY ReviewDoes
<1>2. m \in Partial(Plugin, Known)
  BY <1>1, ContentsKnown
<1> HIDE DEF m, e, B
<1>3. /\ Installed(e) \in Partial(Plugin, Known) /\ DOMAIN Installed(e) = {p \in DOMAIN e : e[p].installed}
      /\ \A p \in DOMAIN Installed(e) : Installed(e)[p] = e[p].content
  BY <1>1, InstalledIs
<1>4. /\ Without(m, B) \in Partial(Plugin, Known) /\ DOMAIN Without(m, B) = DOMAIN m \ B
      /\ \A p \in DOMAIN m \ B : Without(m, B)[p] = m[p]
  BY <1>2, WithoutIs, WithoutPartial
<1>5. DOMAIN Installed(e) = DOMAIN m \ B
  BY <1>1, <1>3
<1>6. \A p \in DOMAIN Installed(e) : Installed(e)[p] = Without(m, B)[p]
  BY <1>1, <1>3, <1>4, <1>5
<1>7. Installed(e) = Without(m, B)
  BY <1>3, <1>4, <1>5, <1>6, SameMap
<1> QED BY <1>1, <1>7 DEF m, e, B

LEMMA ReviewServes ==
  ASSUME Basis, FoundIsThere, "outside" \notin blame, Review
  PROVE  ServesAll(entries', Restored)
<1> DEFINE a == Adopted(base, task.candidates)
           m == task.candidates
           B == ReviewBlocks
           e == entries'
           s == Shown(e, e, Restored)
<1>1. /\ a \in Entries /\ m \in Partial(Plugin, Content) /\ pc = "review"
      /\ e = Merged(a, m, B)
  BY ReviewDoes
<1>2. m = Present(Restored) /\ Restored \in [Plugin -> Content \cup {None}]
  BY <1>1, TypesAre DEF FoundIsThere, Basis
<1>3. /\ DOMAIN m = {p \in Plugin : Restored[p] # None} /\ m \in Partial(Plugin, Known)
      /\ \A p \in DOMAIN m : m[p] = Restored[p] /\ m[p] \in Content /\ m[p] \in Known
  <2>1. m \in Partial(Plugin, Known)
    BY <1>1, ContentsKnown
  <2>2. \A p \in DOMAIN Present(Restored) : Present(Restored)[p] = Restored[p] /\ Restored[p] \in Content
    BY <1>2, PresentIs
  <2>3. DOMAIN m = {p \in Plugin : Restored[p] # None}
    BY <1>2, PresentIs
  <2> QED BY <1>2, <2>1, <2>2, <2>3, KnownIs
<1>4. \A p : p \in B <=> p \in Breaking(a, m) \/ p \in Changed(a, m)
  BY DEF ReviewBlocks
<1> HIDE DEF m, e, a, B
<1>5. \A p : /\ p \in Breaking(a, m) <=>
               /\ p \in DOMAIN m /\ p \in DOMAIN a /\ m[p].kind = "signed"
               /\ a[p].content.kind = "signed" => ~Compatible(a[p].content, m[p])
             /\ p \in Changed(a, m) <=>
               /\ p \in DOMAIN m /\ m[p].kind = "mapping"
               /\ p \in DOMAIN a => a[p].content # m[p]
  BY <1>1, <1>3, BlockedIs
<1>6. /\ e \in Entries
      /\ \A p : p \in DOMAIN e <=> p \in DOMAIN a \/ (p \in DOMAIN m /\ p \notin B)
      /\ \A p \in DOMAIN m \ B : e[p].content = m[p] /\ e[p].installed
      /\ \A p \in DOMAIN a \ (DOMAIN m \ B) : e[p].content = a[p].content /\ ~e[p].installed
  BY <1>1, <1>3, MergedIs
<1>7. /\ s \in Partial(Plugin, Content)
      /\ \A p \in DOMAIN s : p \in Plugin /\ s[p] = Restored[p]
      /\ \A p : p \in DOMAIN s <=>
           /\ p \in Plugin /\ Restored[p] # None
           /\ Restored[p].kind = "signed" /\ p \in DOMAIN e =>
                e[p].content.kind = "signed" /\ Compatible(e[p].content, Restored[p])
           /\ Restored[p].kind = "mapping" => p \in DOMAIN e /\ e[p].content = Restored[p]
  BY <1>2, <1>6, ShownIs
<1>8. /\ Without(m, B) \in Partial(Plugin, Known) /\ DOMAIN Without(m, B) = DOMAIN m \ B
      /\ \A p \in DOMAIN m \ B : Without(m, B)[p] = m[p]
  BY <1>3, WithoutIs, WithoutPartial
<1>9. ASSUME NEW p \in DOMAIN m \ B PROVE p \in DOMAIN s
  <2>1. Restored[p] = m[p] /\ m[p] \in Known /\ Restored[p] # None /\ p \in Plugin /\ p \in DOMAIN e /\ e[p].content = m[p]
    BY <1>3, <1>6
  <2>2. m[p].kind = "signed" => Compatible(m[p], m[p])
    BY <2>1, CompatibleIs
  <2> QED BY <1>7, <2>1, <2>2
<1>10. ASSUME NEW p \in DOMAIN s PROVE p \in DOMAIN m \ B
  <2>1. p \in DOMAIN m /\ m[p] = Restored[p] /\ m[p] \in Known
    BY <1>3, <1>7
  <2> SUFFICES ASSUME p \in B PROVE FALSE
    BY <2>1
  <2>2. p \in DOMAIN e <=> p \in DOMAIN a
    BY <1>6
  <2>3. p \in DOMAIN a => e[p].content = a[p].content
    BY <1>6
  <2> QED BY <1>4, <1>5, <1>7, <2>1, <2>2, <2>3
<1>11. DOMAIN s = DOMAIN m \ B
  BY <1>9, <1>10
<1>12. \A p \in DOMAIN s : s[p] = Without(m, B)[p]
  BY <1>3, <1>7, <1>8, <1>11
<1>13. s = Without(m, B)
  BY <1>7, <1>8, <1>11, <1>12, SameMap
<1> QED BY <1>13, ReviewInstalled, ServesIs DEF s, e, m, B

\* The directories that a failure of the command leaves stay the same.
LEMMA BeforeIs ==
  /\ task.kind = "cases" /\ pc \in {"prepare", "undo"} => Before = [disk EXCEPT ![Target] = task.seen[Target]]
  /\ task.kind # "cases" \/ pc \notin {"prepare", "undo"} => Before = Restored
BY DEF Before

LEMMA BeforeNext ==
  /\ task'.kind = "cases" /\ pc' \in {"prepare", "undo"} => Before' = [disk' EXCEPT ![Target'] = task'.seen[Target']]
  /\ task'.kind # "cases" \/ pc' \notin {"prepare", "undo"} => Before' = Restored'
BY DEF Before

LEMMA BeforeStays ==
  ASSUME Basis, EditStands, [Next]_vars
  PROVE  \/ Before' = Before
         \/ Commit /\ Advance
         \/ Prepare /\ task.kind = "cases"
         \/ RollBack /\ ~Undisturbed
         \/ \E p \in Plugin, c \in Content \cup {None} : ChangeOutside(p, c)
         \/ Crash
<1>1. ASSUME UNCHANGED <<disk, txn>>, pc \notin {"prepare", "undo"} \/ task.kind # "cases",
             pc' \notin {"prepare", "undo"} \/ task'.kind # "cases"
      PROVE  Before' = Before
  BY <1>1, BeforeIs, BeforeNext, RestoredStays
<1>2. ASSUME UNCHANGED <<disk, txn, task>>, pc \in {"prepare", "undo"}, pc' \in {"prepare", "undo"}
      PROVE  Before' = Before
  <2>1. Target' = Target
    BY <1>2, SameGoal
  <2> QED BY <1>2, <2>1, BeforeIs, BeforeNext, RestoredStays
<1>3. CASE StartupNext
  <2>1. pc \notin {"prepare", "undo"} /\ pc' \notin {"prepare", "undo"}
    BY <1>3 DEF StartupNext, Startup, OpenWithoutBaseline, AdoptPending, Refuse, ForgetPending, Review, StartupFails
  <2>2. Restored' = Restored
    BY <1>3, RestoredStays DEF StartupNext, Startup, OpenWithoutBaseline, AdoptPending, Refuse, ForgetPending, Review,
       StartupFails, files
  <2> QED BY <2>1, <2>2, BeforeIs, BeforeNext
<1>4. CASE PlanNext
  <2>1. pc = "idle" /\ pc' = "plan" /\ UNCHANGED <<disk, txn>>
    BY <1>4, PlanKeeps DEF Basis, files
  <2> QED BY <1>1, <2>1
<1>5. CASE CommandNext
  <2>1. CASE Check
    <3>1. pc = "plan" /\ pc' = "begin" /\ UNCHANGED <<disk, txn>>
      BY <2>1, CheckDoes DEF files
    <3> QED BY <1>1, <3>1
  <2>2. CASE Recover
    <3>1. pc = "plan" /\ pc' = "plan" /\ Restored' = Restored
      BY <2>2, RestoredStays DEF Recover
    <3> QED BY <3>1, BeforeIs, BeforeNext
  <2>3. CASE Begin
    <3>1. /\ pc = "begin" /\ task'.kind = task.kind /\ UNCHANGED <<disk, txn>>
          /\ pc' = IF task.kind \in {"install", "save", "reload"} THEN "prepare" ELSE "activate"
      BY <2>3, BeginDoes DEF files
    <3> QED BY <1>1, <3>1
  <2>4. CASE Prepare
    <3>1. task'.kind = task.kind /\ UNCHANGED <<disk, txn>>
      BY <2>4, PreparedTask
    <3> QED BY <1>1, <2>4, <3>1
  <2>5. CASE PrepareFails
    <3>1. pc = "prepare" /\ pc' = "undo" /\ UNCHANGED <<disk, txn, task>>
      BY <2>5, PrepareFailsDoes
    <3> QED BY <1>2, <3>1
  <2>6. CASE Activate
    <3>1. /\ pc = "activate" /\ task'.kind = task.kind /\ task'.goal = task.goal /\ task'.seen = task.seen
          /\ pc' = (IF task.kind \in {"install", "save"} THEN "switch" ELSE "prepare")
          /\ disk' = With(disk, task.goal) /\ disk' \in [Plugin -> Content \cup {None}]
      BY <2>6, ActivateDoes
    <3>2. Restored = disk /\ (task.kind # "cases" => Restored' = Restored) /\ Before = Restored
      BY <2>6, <3>1, ActivateRestores, BeforeIs
    <3>3. CASE task.kind # "cases"
      BY <3>1, <3>2, <3>3, BeforeNext
    <3>4. CASE task.kind = "cases"
      <4>1. disk[Target] = task.seen[Target]
        BY <2>6, <3>4 DEF Activate
      <4>2. Target' = Target /\ Members = {Target} /\ Target \in Plugin
        BY <3>1, <3>4, SameGoal, TargetIs DEF Basis
      <4>3. Before' = [disk' EXCEPT ![Target] = task.seen[Target]]
        BY <3>1, <3>4, <4>2, BeforeNext
      <4>4. disk \in [Plugin -> Content \cup {None}] /\ \A p \in Plugin : p # Target => disk'[p] = disk[p]
        BY <3>1, <4>2 DEF Basis, TypeOK, With, Members
      <4>5. [disk' EXCEPT ![Target] = task.seen[Target]] = disk
        BY <3>1, <4>1, <4>2, <4>4
      <4> QED BY <3>2, <4>3, <4>5
    <3> QED BY <3>3, <3>4
  <2>7. CASE Switch \/ (Verify /\ Advance)
    <3>1. /\ Advance /\ pc \in {"switch", "verify"} /\ UNCHANGED <<disk, txn>>
      BY <2>7 DEF Switch, Verify, files
    <3>2. task'.kind = task.kind /\ task.kind # "cases"
      BY <3>1, AdvanceDoes, StandsIs DEF Stands, Basis
    <3> QED BY <1>1, <3>1, <3>2
  <2>8. CASE ActivateFails
    <3>1. /\ pc = "activate" /\ task' = task /\ UNCHANGED <<disk, txn>>
          /\ pc' = (IF task.kind = "cases" THEN "abort" ELSE "undo")
      BY <2>8 DEF ActivateFails, files
    <3> QED BY <1>1, <3>1
  <2>9. CASE SwitchFails \/ CommitFails \/ (Verify /\ Undo)
    <3>1. pc \in {"switch", "commit", "verify"} /\ task' = task /\ UNCHANGED <<disk, txn>>
      BY <2>9 DEF SwitchFails, CommitFails, Verify, Undo, files
    <3>2. task.kind # "cases"
      BY <3>1, StandsIs DEF Stands, Basis
    <3> QED BY <1>1, <3>1, <3>2
  <2>10. CASE RollBack
    <3>1. /\ task.kind # "cases" => disk' = Restored
          /\ task.kind = "cases" => disk' = IF disk[Target] = Wanted
                                            THEN [disk EXCEPT ![Target] = task.seen[Target]] ELSE disk
          /\ txn' = None /\ pc = "undo" /\ pc' = "abort" /\ task' = task
      BY <2>10, RollBackDoes
    <3>2. CASE task.kind # "cases"
      <4>1. Restored' = Restored
        BY <3>1, <3>2, RestoredStays
      <4> QED BY <3>1, <3>2, <4>1, BeforeIs, BeforeNext
    <3>3. CASE task.kind = "cases" /\ Undisturbed
      <4>1. disk[Target] = Wanted
        BY <3>1, <3>3 DEF EditStands
      <4>2. Restored' = [disk EXCEPT ![Target] = task.seen[Target]]
        BY <3>1, <3>3, <4>1, RestoredStays
      <4> QED BY <3>1, <3>3, <4>2, BeforeIs, BeforeNext
    <3> QED BY <2>10, <3>2, <3>3
  <2>11. CASE RollBackFails
    <3>1. pc = "undo" /\ txn # None /\ task' = task /\ UNCHANGED <<disk, txn>> /\ pc' = "abort"
      BY <2>11 DEF RollBackFails, files
    <3>2. task.kind # "cases"
      BY <3>1 DEF Basis, TransactionFits, Working, Closed
    <3> QED BY <1>1, <3>1, <3>2
  <2>12. CASE Decline \/ Abort \/ AbortFails \/ PromoteFails \/ Promote \/ Forget
    <3>1. /\ pc \in {"plan", "abort", "promote", "forget"} /\ pc' \in {"idle", "forget"} /\ UNCHANGED <<disk, txn>>
      BY <2>12 DEF Decline, Abort, AbortFails, PromoteFails, Promote, Forget, Answer, files
    <3> QED BY <1>1, <3>1
  <2> QED BY <1>5, <2>1, <2>2, <2>3, <2>4, <2>5, <2>6, <2>7, <2>8, <2>9, <2>10, <2>11, <2>12, CommandSplit DEF Commit, Verify
<1>6. CASE LoseBaseline
  <2>1. pc = "down" /\ pc' = "down" /\ UNCHANGED <<disk, txn>>
    BY <1>6 DEF LoseBaseline
  <2> QED BY <1>1, <2>1
<1>7. CASE UNCHANGED vars
  <2>1. UNCHANGED <<disk, txn, task, pc>>
    BY <1>7 DEF vars, files
  <2> QED BY <1>1, <1>2, <2>1
<1> QED BY <1>3, <1>4, <1>5, <1>6, <1>7 DEF Next

\* How many changes were made from outside.
LEMMA OutsideGrows ==
  ASSUME Basis, [Next]_vars
  PROVE  /\ outside' = 0 => outside = 0 /\ ~LoseBaseline /\ \A p \in Plugin, c \in Content \cup {None} : ~ChangeOutside(p, c)
         /\ outside' = outside => blame' \cap {"outside", "raced"} \subseteq blame
<1>0. outside \in Nat
  BY DEF Basis, TypeOK
<1>1. CASE StartupNext
  BY <1>1 DEF StartupNext, Startup, OpenWithoutBaseline, AdoptPending, Refuse, ForgetPending, Review, StartupFails,
     bounds, history, LoseBaseline, ChangeOutside, Fault
<1>2. CASE PlanNext
  <2>1. outside' = outside /\ blame' \subseteq blame /\ pc' = "plan" /\ pc = "idle"
    BY <1>2, PlanKeeps DEF Basis
  <2> QED BY <1>0, <2>1 DEF LoseBaseline, ChangeOutside
<1>3. CASE CommandNext
  <2>1. outside' = outside
    BY <1>3 DEF CommandNext, Check, Recover, Decline, Begin, Prepare, PrepareFails, Activate, ActivateFails,
       Switch, SwitchFails, Verify, Commit, CommitFails, Promote, Forget, PromoteFails, RollBack,
       RollBackFails, Abort, AbortFails, bounds, Fault
  <2>2. blame' = blame \/ blame' = blame \cup Drift \/ blame' = blame \cup {"leftover"}
    BY <1>3 DEF CommandNext, Check, Recover, Decline, Begin, Prepare, PrepareFails, Activate, ActivateFails,
       Switch, SwitchFails, Verify, Commit, CommitFails, Promote, Forget, PromoteFails, RollBack,
       RollBackFails, Abort, AbortFails, history
  <2> QED BY <1>0, <2>1, <2>2, DriftIs DEF LoseBaseline, ChangeOutside
<1>4. CASE (\E p \in Plugin, c \in Content \cup {None} : ChangeOutside(p, c)) \/ LoseBaseline
  <2>1. outside' = outside + 1
    BY <1>4 DEF ChangeOutside, LoseBaseline
  <2> QED BY <1>0, <2>1
<1>5. CASE Crash \/ UNCHANGED vars
  <2>1. outside' = outside /\ blame' = blame
    BY <1>5 DEF Crash, vars, bounds, history
  <2>2. ~LoseBaseline /\ \A p \in Plugin, c \in Content \cup {None} : ~ChangeOutside(p, c)
    BY <1>0, <2>1 DEF LoseBaseline, ChangeOutside
  <2> QED BY <2>1, <2>2
<1> QED BY <1>1, <1>2, <1>3, <1>4, <1>5 DEF Next

(***************************************************************************)
(* Without a change from outside, the directories are what was accepted.   *)
(***************************************************************************)

ServesNow ==
  ~Closed /\ pc # "promote" /\ (waiting = None \/ (task.prepared /\ pc # "forget")) => ServesAll(entries, Before)
ServesThen ==
  task.prepared /\ pc \notin {"undo", "abort"} => ServesAll(waiting, With(disk, task.goal))
Untouched == outside = 0 => blame \cap {"outside", "raced"} = {}

LEMMA DirectoriesAre ==
  DirectoriesAreAccepted <=> Untouched /\ (outside = 0 => ServesNow /\ ServesThen)
BY DEF DirectoriesAreAccepted, ServesNow, ServesThen, Untouched

LEMMA DirectoriesNext ==
  DirectoriesAreAccepted' <=> Untouched' /\ (outside' = 0 => ServesNow' /\ ServesThen')
BY DEF DirectoriesAreAccepted, ServesNow, ServesThen, Untouched

LEMMA UntouchedStep == ASSUME Basis, Untouched, [Next]_vars PROVE Untouched'
BY OutsideGrows DEF Untouched

LEMMA NowStep ==
  ASSUME Basis, DirectoriesFit, DecisionsFit, ServesNow, ServesThen, blame \cap {"outside", "raced"} = {},
         outside' = 0, [Next]_vars
  PROVE  ServesNow'
<1>0. /\ FoundIsThere /\ EditStands /\ Undisturbed /\ "outside" \notin blame
      /\ ~LoseBaseline /\ \A p \in Plugin, c \in Content \cup {None} : ~ChangeOutside(p, c)
  BY OutsideGrows DEF DecisionsFit, Undisturbed
<1>1. ASSUME Closed' \/ pc' = "promote" \/ (waiting' # None /\ (~task'.prepared \/ pc' = "forget"))
      PROVE  ServesNow'
  BY <1>1 DEF ServesNow
<1>2. ASSUME Before' = Before, entries' = entries, ServesAll(entries, Before) PROVE ServesNow'
  <2>1. ServesAll(entries', Before')
    BY <1>2
  <2> QED BY <2>1 DEF ServesNow
<1>3. ASSUME UNCHANGED <<entries, waiting>>, ~Closed, pc \notin {"promote", "forget"}, task'.prepared => task.prepared,
             Before' = Before
      PROVE  ServesNow'
  <2>1. CASE waiting = None \/ task.prepared
    <3>1. ServesAll(entries, Before)
      BY <1>3, <2>1 DEF ServesNow
    <3> QED BY <1>2, <1>3, <3>1
  <2>2. CASE waiting # None /\ ~task.prepared
    BY <1>1, <1>3, <2>2
  <2> QED BY <2>1, <2>2
<1>4. pc \notin {"commit", "prepare"} /\ pc' # "down" => Before' = Before
  BY <1>0, BeforeStays DEF Commit, Prepare, Crash
<1>5. CASE StartupNext
  <2>1. CASE Startup \/ AdoptPending \/ Refuse \/ ForgetPending \/ StartupFails
    BY <1>1, <2>1 DEF Startup, AdoptPending, Refuse, ForgetPending, StartupFails, Closed
  <2>2. CASE OpenWithoutBaseline
    <3>1. ServesAll(entries', Restored) /\ task' = NoTask /\ UNCHANGED <<disk, txn>>
      BY <1>0, <2>2, OpenServes, OpenDoes
    <3>2. Before' = Restored
      BY <3>1, BeforeNext, RestoredStays, NoTaskIs
    <3>3. ServesAll(entries', Before')
      BY <3>1, <3>2
    <3> QED BY <3>3 DEF ServesNow
  <2>3. CASE Review
    <3>1. ServesAll(entries', Restored) /\ task' = NoTask /\ UNCHANGED <<disk, txn>>
      BY <1>0, <2>3, ReviewServes, ReviewDoes
    <3>2. Before' = Restored
      BY <3>1, BeforeNext, RestoredStays, NoTaskIs
    <3>3. ServesAll(entries', Before')
      BY <3>1, <3>2
    <3> QED BY <3>3 DEF ServesNow
  <2> QED BY <1>5, <2>1, <2>2, <2>3 DEF StartupNext
<1>6. CASE PlanNext
  <2>1. pc = "idle" /\ pc' = "plan" /\ task'.prepared = FALSE /\ UNCHANGED <<entries, waiting>>
    BY <1>6, PlanKeeps DEF Basis, memory
  <2> QED BY <1>3, <1>4, <2>1 DEF Closed
<1>7. CASE CommandNext
  <2>1. CASE Check
    <3>1. pc = "plan" /\ pc' = "begin" /\ task'.prepared = task.prepared /\ UNCHANGED <<entries, waiting>>
      BY <2>1, CheckDoes DEF memory
    <3> QED BY <1>3, <1>4, <3>1 DEF Closed
  <2>2. CASE Recover \/ Decline \/ AbortFails
    <3>1. /\ pc \in {"plan", "abort"} /\ pc' # "down" /\ UNCHANGED <<entries, waiting>>
          /\ task' = task \/ task'.prepared = FALSE
      BY <2>2 DEF Recover, Decline, AbortFails, Answer, NoTask, memory
    <3> QED BY <1>3, <1>4, <3>1 DEF Closed
  <2>3. CASE Begin
    <3>1. pc = "begin" /\ pc' # "down" /\ task'.prepared = FALSE /\ UNCHANGED <<entries, waiting>>
      BY <2>3, BeginDoes DEF memory
    <3> QED BY <1>3, <1>4, <3>1 DEF Closed
  <2>4. CASE Prepare
    <3>1. /\ pc = "prepare" /\ waiting = None /\ entries' = entries
          /\ task.kind = "cases" => pc' = "promote"
          /\ pc' \in {"activate", "switch", "promote"}
      BY <2>4, PreparedTask
    <3>2. CASE task.kind = "cases"
      BY <1>1, <3>1, <3>2
    <3>3. CASE task.kind # "cases"
      <4>1. Before' = Before
        BY <1>0, <3>1, <3>3, BeforeStays DEF Commit, RollBack, Crash
      <4>2. ServesAll(entries, Before)
        BY <3>1 DEF ServesNow, Closed
      <4> QED BY <1>2, <3>1, <4>1, <4>2
    <3> QED BY <3>2, <3>3
  <2>5. CASE PrepareFails
    <3>1. pc = "prepare" /\ pc' = "undo" /\ task' = task /\ UNCHANGED <<entries, waiting>>
      BY <2>5, PrepareFailsDoes
    <3>2. ~Prepare
      <4>1. Prepare => task'.prepared = TRUE
        BY PreparedTask
      <4>2. ~task.prepared
        BY <3>1, StandsIs DEF Stands, Basis
      <4> QED BY <3>1, <4>1, <4>2
    <3>3. Before' = Before
      BY <1>0, <3>1, <3>2, BeforeStays DEF Commit, RollBack, Crash
    <3> QED BY <1>3, <3>1, <3>3 DEF Closed
  <2>6. CASE Activate
    <3>1. pc = "activate" /\ pc' # "down" /\ task'.prepared = task.prepared /\ UNCHANGED <<entries, waiting>>
      BY <2>6, ActivateDoes DEF memory
    <3> QED BY <1>3, <1>4, <3>1 DEF Closed
  <2>7. CASE Switch \/ (Verify /\ Advance)
    <3>1. Advance /\ pc \in {"switch", "verify"} /\ UNCHANGED <<entries, waiting>>
      BY <2>7 DEF Switch, Verify, memory
    <3>2. task'.prepared = task.prepared /\ pc' \in {"prepare", "switch", "verify", "commit", "promote"}
      BY <3>1, AdvanceDoes
    <3> QED BY <1>3, <1>4, <3>1, <3>2 DEF Closed
  <2>8. CASE Commit /\ Advance
    <3>1. Advance /\ pc = "commit"
      BY <2>8 DEF Commit
    <3>2. pc' = "promote"
      BY <3>1, AdvanceDoes
    <3> QED BY <1>1, <3>2
  <2>9. CASE ActivateFails \/ SwitchFails \/ RollBackFails \/ (Verify /\ Undo)
    <3>1. /\ pc \in {"activate", "switch", "verify", "undo"} /\ pc' \in {"undo", "abort"} /\ task' = task
          /\ UNCHANGED <<entries, waiting>>
      BY <2>9 DEF ActivateFails, SwitchFails, RollBackFails, Verify, Undo, memory
    <3> QED BY <1>3, <1>4, <3>1 DEF Closed
  <2>10. CASE CommitFails
    <3>1. pc = "commit" /\ pc' = "undo" /\ task' = task /\ UNCHANGED <<entries, waiting>>
      BY <2>10 DEF CommitFails, Undo, memory
    <3>2. ~(Commit /\ Advance)
      BY <3>1, AdvanceDoes
    <3>3. Before' = Before
      BY <1>0, <3>1, <3>2, BeforeStays DEF Prepare, RollBack, Crash
    <3> QED BY <1>3, <3>1, <3>3 DEF Closed
  <2>11. CASE RollBack
    <3>1. pc = "undo" /\ pc' = "abort" /\ task' = task /\ UNCHANGED <<entries, waiting>>
      BY <2>11 DEF RollBack
    <3> QED BY <1>3, <1>4, <3>1 DEF Closed
  <2>12. CASE Abort
    <3>1. pc = "abort" /\ pc' = "idle" /\ task'.prepared = FALSE /\ entries' = entries
          /\ (~task.prepared => waiting' = waiting)
      BY <2>12 DEF Abort, Answer, NoTask
    <3>2. CASE task.prepared
      <4>1. ServesAll(entries, Before)
        BY <3>1, <3>2 DEF ServesNow, Closed
      <4> QED BY <1>2, <1>4, <3>1, <4>1
    <3>3. CASE ~task.prepared
      BY <1>3, <1>4, <3>1, <3>3 DEF Closed
    <3> QED BY <3>2, <3>3
  <2>13. CASE Promote \/ PromoteFails
    <3>1. /\ pc \in {"promote", "forget"} /\ waiting' = waiting
          /\ pc' = "forget" \/ task'.prepared = FALSE
      BY <2>13 DEF Promote, PromoteFails, Answer, NoTask, memory
    <3>2. waiting # None
      BY <3>1 DEF Basis, StepsFit, MemoryFits
    <3> QED BY <1>1, <3>1, <3>2
  <2>14. CASE Forget
    <3>1. /\ pc = "forget" /\ pc' = "idle" /\ UNCHANGED <<disk, txn, entries>>
      BY <2>14 DEF Forget, Answer
    <3>2. entries = waiting /\ txn = None /\ task.prepared
      BY <3>1 DEF Basis, StepsFit, MemoryFits, TransactionFits
    <3>3. With(disk, task.goal) = disk
      BY <1>0, <3>1, GoalStands DEF DirectoriesFit
    <3>4. ServesAll(waiting, With(disk, task.goal))
      BY <3>1, <3>2 DEF ServesThen
    <3>5. Before' = disk
      BY <3>1, <3>2, BeforeNext, RestoredStays
    <3>6. ServesAll(entries', Before')
      BY <3>1, <3>2, <3>3, <3>4, <3>5
    <3> QED BY <3>6 DEF ServesNow
  <2> QED BY <1>7, <2>1, <2>2, <2>3, <2>4, <2>5, <2>6, <2>7, <2>8, <2>9, <2>10, <2>11, <2>12, <2>13, <2>14,
             CommandSplit
<1>8. CASE Crash
  BY <1>1, <1>8 DEF Crash, Closed
<1>9. CASE UNCHANGED vars
  <2>1. UNCHANGED <<disk, txn, entries, waiting, task, pc>>
    BY <1>9 DEF vars, files, memory
  <2>2. Before' = Before
    BY <1>9 DEF vars, files, memory, Before, Restored, Target, Members
  <2>3. ServesAll(entries, Before) => ServesNow'
    BY <1>2, <2>1, <2>2
  <2> QED BY <2>1, <2>3 DEF ServesNow, Closed
<1> QED BY <1>0, <1>5, <1>6, <1>7, <1>8, <1>9 DEF Next

LEMMA ThenStep ==
  ASSUME Basis, Basis', DirectoriesFit, ServesThen, Undisturbed, outside' = 0, [Next]_vars
  PROVE  ServesThen'
<1>0. ~LoseBaseline /\ \A p \in Plugin, c \in Content \cup {None} : ~ChangeOutside(p, c)
  BY OutsideGrows
<1>1. ASSUME ~task'.prepared \/ pc' \in {"undo", "abort"} PROVE ServesThen'
  BY <1>1 DEF ServesThen
<1>2. ASSUME pc' \in {"down", "refused", "open", "forget pending", "review", "idle", "plan", "begin"} PROVE ServesThen'
  <2>1. ~task'.prepared
    BY <1>2 DEF Basis, StepsFit, Working, Closed
  <2> QED BY <1>1, <2>1
<1>3. ASSUME With(disk', task'.goal) = With(disk, task.goal), waiting' = waiting, task'.prepared = task.prepared,
             pc \notin {"undo", "abort"} \/ pc' = pc
      PROVE  ServesThen'
  <2> SUFFICES ASSUME task'.prepared, pc' \notin {"undo", "abort"} PROVE ServesAll(waiting, With(disk, task.goal))'
    BY DEF ServesThen
  <2>1. ServesAll(waiting, With(disk, task.goal))
    BY <1>3 DEF ServesThen
  <2>2. ServesAll(waiting', With(disk', task'.goal))
    BY <1>3, <2>1
  <2> QED BY <2>2
<1>4. CASE StartupNext
  BY <1>2, <1>4 DEF StartupNext, Startup, OpenWithoutBaseline, AdoptPending, Refuse, ForgetPending, Review, StartupFails
<1>5. CASE PlanNext
  BY <1>2, <1>5, PlanKeeps DEF Basis
<1>6. CASE CommandNext
  <2>1. CASE Begin
    BY <1>1, <2>1, BeginDoes
  <2>2. CASE Prepare
    <3>1. task'.goal = task.goal /\ waiting' = NextDocument.plugins /\ disk' = disk
      BY <2>2, PreparedTask
    <3>2. ServesAll(NextDocument.plugins, With(disk, task.goal))
      BY <2>2, ThenPreparing, NextServes
    <3>3. ServesAll(waiting', With(disk', task'.goal))
      BY <3>1, <3>2
    <3> QED BY <3>3 DEF ServesThen
  <2>3. CASE Activate
    <3>1. /\ task'.goal = task.goal /\ task'.prepared = task.prepared /\ pc = "activate" /\ waiting' = waiting
      BY <2>3, ActivateDoes DEF memory
    <3>2. With(disk', task.goal) = With(disk, task.goal)
      BY <2>3, ActivateRestores
    <3> QED BY <1>3, <3>1, <3>2
  <2>4. CASE Switch \/ ((Verify \/ Commit) /\ Advance)
    <3>1. /\ Advance /\ pc \in {"switch", "verify", "commit"} /\ UNCHANGED <<disk, waiting>>
      BY <2>4 DEF Switch, Verify, Commit, files, memory
    <3>2. task'.goal = task.goal /\ task'.prepared = task.prepared
      BY <3>1, AdvanceDoes
    <3> QED BY <1>3, <3>1, <3>2
  <2>5. CASE Promote
    BY <1>3, <2>5 DEF Promote
  <2>6. CASE \/ Check \/ Recover \/ Forget \/ RollBack \/ PrepareFails \/ Decline \/ Abort \/ AbortFails
             \/ PromoteFails \/ ActivateFails \/ SwitchFails \/ CommitFails \/ RollBackFails \/ (Verify /\ Undo)
    <3>1. pc' \in {"begin", "plan", "idle", "abort", "undo"}
      BY <2>6 DEF Check, Recover, Forget, RollBack, PrepareFails, Decline, Abort, AbortFails, PromoteFails,
       ActivateFails, SwitchFails, CommitFails, RollBackFails, Undo, Answer
    <3> QED BY <1>1, <1>2, <3>1
  <2> QED BY <1>6, <2>1, <2>2, <2>3, <2>4, <2>5, <2>6, CommandSplit
<1>7. CASE Crash
  BY <1>2, <1>7 DEF Crash
<1>8. CASE UNCHANGED vars
  BY <1>3, <1>8 DEF vars, files, memory
<1> QED BY <1>0, <1>4, <1>5, <1>6, <1>7, <1>8 DEF Next

LEMMA ServesStep ==
  ASSUME Basis, DirectoriesFit, DecisionsFit, DirectoriesAreAccepted, [Next]_vars
  PROVE  DirectoriesAreAccepted'
<1>1. Untouched /\ (outside = 0 => ServesNow /\ ServesThen)
  BY DirectoriesAre
<1>2. Untouched' /\ Basis'
  BY <1>1, UntouchedStep, BasisStep
<1>3. ASSUME outside' = 0 PROVE ServesNow' /\ ServesThen'
  <2>1. ServesNow /\ ServesThen /\ blame \cap {"outside", "raced"} = {}
    BY <1>1, <1>3, OutsideGrows DEF Untouched
  <2>2. ServesNow'
    BY <1>3, <2>1, NowStep
  <2>3. Undisturbed
    BY <2>1 DEF Undisturbed
  <2>4. ServesThen'
    BY <1>2, <1>3, <2>1, <2>3, ThenStep
  <2> QED BY <2>2, <2>4
<1> QED BY <1>2, <1>3, DirectoriesNext

LEMMA ServesInit == Init => DirectoriesAreAccepted
<1> SUFFICES ASSUME Init PROVE DirectoriesAreAccepted
  OBVIOUS
<1>1. pc = "down" /\ task = NoTask /\ blame = {}
  BY DEF Init
<1> QED BY <1>1, DirectoriesAre, NoTaskIs DEF Untouched, ServesNow, ServesThen, Closed

(***************************************************************************)
(* The routes are those of an accepted set.                                *)
(***************************************************************************)

\* Fits, after so many changes from outside.
FitsAt(n, routes, accepted) ==
  /\ n = 0 => routes = Routes(Installed(accepted))
  /\ \A p \in DOMAIN routes :
       /\ p \in DOMAIN accepted
       /\ \/ routes[p] = Route(accepted[p].content)
          \/ /\ routes[p].kind = "signed" /\ accepted[p].content.kind = "signed"
             /\ Compatible(routes[p], accepted[p].content)
FitsOne(n, routes, e, w) == FitsAt(n, routes, e) \/ (w # None /\ FitsAt(n, routes, w))

LEMMA FitsLater ==
  ASSUME NEW n, NEW m, m = 0 => n = 0
  PROVE  /\ \A r, a : FitsAt(n, r, a) => FitsAt(m, r, a)
         /\ \A r, e, w : FitsOne(n, r, e, w) => FitsOne(m, r, e, w)
BY DEF FitsAt, FitsOne

\* All that is installed.
LEMMA ExactFits ==
  ASSUME NEW e \in Entries, NEW r, r = Routes(Installed(e))
  PROVE  \A n : FitsAt(n, r, e)
<1>1. /\ Installed(e) \in Partial(Plugin, Known) /\ DOMAIN Installed(e) \subseteq DOMAIN e
      /\ \A p \in DOMAIN Installed(e) : Installed(e)[p] = e[p].content
  BY InstalledIs
<1>2. DOMAIN r = DOMAIN Installed(e) /\ \A p \in DOMAIN r : r[p] = Route(Installed(e)[p])
  BY <1>1, RoutesIs
<1> QED BY <1>1, <1>2 DEF FitsAt

\* RoutesFit, part by part.
InstalledNext == task.prepared => Installed(waiting) = task.candidates
ReloadServed == task.kind = "reload" /\ pc \in {"verify", "promote", "forget"} => served = Routes(task.candidates)
RoutesHeld == Working => pc \in {"verify", "commit", "promote", "forget", "undo"} \/ served = task.routes
RemovalServed ==
  Undisturbed /\ task.kind \in {"uninstall", "delete"} /\ Unprepared =>
    /\ pc \in {"begin", "activate"} => served = Routes(Inspected)
    /\ pc = "prepare" => Without(served, Members) = Routes(Inspected)
SaveServed ==
  Unprepared /\ task.kind \in {"save", "cases"} => Routes(task.candidates) = With(served, Routes(task.goal))
EditServed == Unprepared /\ task.kind = "cases" => Routes(task.candidates) = served
Orderly == "raced" \notin blame /\ ~Closed
IdleFits == pc \in {"idle", "plan"} => FitsOne(outside, served, entries, waiting)
OldFit == Working /\ ~task.prepared => FitsOne(outside, task.routes, entries, waiting)
OldStill ==
  task.prepared /\ pc \in {"activate", "switch", "verify", "commit", "undo", "abort"} =>
    FitsAt(outside, task.routes, entries)
NextFit == task.prepared /\ pc \in {"activate", "switch"} => FitsAt(outside, NextRoutes, waiting)
NewFit == pc \in {"verify", "commit", "promote", "forget"} => FitsAt(outside, served, waiting)
ServedFits == Orderly => IdleFits /\ OldFit /\ OldStill /\ NextFit /\ NewFit
RouteParts ==
  /\ InstalledNext /\ ReloadServed /\ RoutesHeld /\ RemovalServed /\ SaveServed /\ EditServed /\ ServedFits

LEMMA FitsIs ==
  /\ \A r, a : Fits(r, a) <=> FitsAt(outside, r, a)
  /\ entries # None => \A r : (\E a \in Accepted : Fits(r, a)) <=> FitsOne(outside, r, entries, waiting)
<1>1. \A r, a : Fits(r, a) <=> FitsAt(outside, r, a)
  BY DEF Fits, FitsAt
<1>2. \A a : a \in Accepted <=> a # None /\ (a = entries \/ a = waiting)
  BY DEF Accepted
<1> QED BY <1>1, <1>2 DEF FitsOne

LEMMA EntriesOne == ASSUME NEW e \in Entries PROVE e # None
BY NoneAssumption

LEMMA RoutesAre == ASSUME TypeOK PROVE RoutesFit <=> RouteParts
<1>1. entries # None
  BY EntriesOne DEF TypeOK
<1>2. /\ Fits(task.routes, entries) <=> FitsAt(outside, task.routes, entries)
      /\ Fits(NextRoutes, waiting) <=> FitsAt(outside, NextRoutes, waiting)
      /\ Fits(served, waiting) <=> FitsAt(outside, served, waiting)
      /\ (\E a \in Accepted : Fits(served, a)) <=> FitsOne(outside, served, entries, waiting)
      /\ (\E a \in Accepted : Fits(task.routes, a)) <=> FitsOne(outside, task.routes, entries, waiting)
  BY <1>1, FitsIs
<1> QED
  BY <1>2 DEF RoutesFit, RouteParts, InstalledNext, ReloadServed, RoutesHeld, RemovalServed, SaveServed, EditServed,
     ServedFits, Orderly, IdleFits, OldFit, OldStill, NextFit, NewFit

LEMMA RoutesAreNow == TypeOK => (RoutesFit <=> RouteParts)
BY RoutesAre
LEMMA RoutesNext == TypeOK' => (RoutesFit' <=> RouteParts')
BY RoutesAreNow, PTL

\* Routes of maps that are put together.
LEMMA RoutesOfWith ==
  ASSUME NEW m \in Partial(Plugin, Known), NEW g \in Partial(Plugin, Known)
  PROVE  Routes(With(m, g)) = With(Routes(m), Routes(g))
<1>1. /\ With(m, g) \in Partial(Plugin, Known) /\ DOMAIN With(m, g) = DOMAIN m \cup DOMAIN g
      /\ \A p \in DOMAIN g : With(m, g)[p] = g[p]
      /\ \A p \in DOMAIN m \ DOMAIN g : With(m, g)[p] = m[p]
  BY WithPartial, WithIs
<1>2. /\ DOMAIN Routes(With(m, g)) = DOMAIN m \cup DOMAIN g
      /\ \A p \in DOMAIN g : Routes(With(m, g))[p] = Route(g[p])
      /\ \A p \in DOMAIN m \ DOMAIN g : Routes(With(m, g))[p] = Route(m[p])
      /\ Routes(With(m, g)) \in RouteMaps
  BY <1>1, RoutesIs
<1>3. /\ Routes(m) \in RouteMaps /\ DOMAIN Routes(m) = DOMAIN m /\ \A p \in DOMAIN m : Routes(m)[p] = Route(m[p])
      /\ Routes(g) \in RouteMaps /\ DOMAIN Routes(g) = DOMAIN g /\ \A p \in DOMAIN g : Routes(g)[p] = Route(g[p])
  BY RoutesIs
<1> DEFINE r == Routes(m)
           s == Routes(g)
           t == Routes(With(m, g))
<1>4. /\ r \in RouteMaps /\ DOMAIN r = DOMAIN m /\ \A p \in DOMAIN m : r[p] = Route(m[p])
      /\ s \in RouteMaps /\ DOMAIN s = DOMAIN g /\ \A p \in DOMAIN g : s[p] = Route(g[p])
      /\ t \in RouteMaps /\ DOMAIN t = DOMAIN m \cup DOMAIN g
      /\ \A p \in DOMAIN g : t[p] = Route(g[p])
      /\ \A p \in DOMAIN m \ DOMAIN g : t[p] = Route(m[p])
  BY <1>2, <1>3
<1> HIDE DEF r, s, t
<1>5. With(r, s) \in RouteMaps
  BY <1>4, WithPartial DEF RouteMaps
<1>6. /\ DOMAIN With(r, s) = DOMAIN m \cup DOMAIN g
      /\ \A p \in DOMAIN g : With(r, s)[p] = Route(g[p])
      /\ \A p \in DOMAIN m \ DOMAIN g : With(r, s)[p] = Route(m[p])
  BY <1>4 DEF With
<1>7. DOMAIN t = DOMAIN With(r, s)
  BY <1>4, <1>6
<1>8. \A p \in DOMAIN t : t[p] = With(r, s)[p]
  BY <1>4, <1>6
<1>9. t = With(r, s)
  BY <1>4, <1>5, <1>7, <1>8, SameMap DEF RouteMaps
<1> QED BY <1>9 DEF r, s, t

LEMMA RoutesOfWithout ==
  ASSUME NEW m \in Partial(Plugin, Known), NEW G
  PROVE  Routes(Without(m, G)) = Without(Routes(m), G)
<1> DEFINE r == Routes(m)
           w == Without(m, G)
           t == Routes(w)
<1>1. w \in Partial(Plugin, Known) /\ DOMAIN w = DOMAIN m \ G /\ \A p \in DOMAIN m \ G : w[p] = m[p]
  BY WithoutPartial, WithoutIs
<1>2. r \in RouteMaps /\ DOMAIN r = DOMAIN m /\ \A p \in DOMAIN m : r[p] = Route(m[p])
  BY RoutesIs
<1> HIDE DEF r, w
<1>3. t \in RouteMaps /\ DOMAIN t = DOMAIN w /\ \A p \in DOMAIN w : t[p] = Route(w[p])
  BY <1>1, RoutesIs
<1> HIDE DEF t
<1>4. Without(r, G) \in RouteMaps /\ DOMAIN Without(r, G) = DOMAIN r \ G /\ \A p \in DOMAIN r \ G : Without(r, G)[p] = r[p]
  <2>1. Without(r, G) \in RouteMaps
    BY <1>2, WithoutPartial DEF RouteMaps
  <2> QED BY <2>1, WithoutIs
<1>5. DOMAIN t = DOMAIN Without(r, G)
  BY <1>1, <1>2, <1>3, <1>4
<1>6. \A p \in DOMAIN t : t[p] = Without(r, G)[p]
  BY <1>1, <1>2, <1>3, <1>4
<1>7. t = Without(r, G)
  BY <1>3, <1>4, <1>5, <1>6, SameMap DEF RouteMaps
<1> QED BY <1>7 DEF t, r, w

\* The routes a command changes to, for what it depends on.
RoutesAfter(kind, m, r, g) ==
  CASE kind \in {"reload", "import"} -> Routes(m)
    [] kind \in {"uninstall", "delete"} -> Without(r, DOMAIN g)
    [] kind = "cases" -> r
    [] OTHER -> With(r, Routes(g))

LEMMA NextRoutesAre ==
  /\ NextRoutes = RoutesAfter(task.kind, task.candidates, served, task.goal)
  /\ NextRoutes' = RoutesAfter(task'.kind, task'.candidates, served', task'.goal)
BY DEF NextRoutes, RoutesAfter, Members

LEMMA RoutesAfterAre ==
  \A k, m, r, g :
    /\ k \in {"reload", "import"} => RoutesAfter(k, m, r, g) = Routes(m)
    /\ k \in {"uninstall", "delete"} => RoutesAfter(k, m, r, g) = Without(r, DOMAIN g)
    /\ k = "cases" => RoutesAfter(k, m, r, g) = r
    /\ k \in {"install", "save"} => RoutesAfter(k, m, r, g) = With(r, Routes(g))
BY DEF RoutesAfter

\* The commands' steps that leave the routes and the accepted sets alone.
Moves ==
  \/ pc = "plan" /\ pc' = "plan"
  \/ pc = "begin" /\ pc' \in {"prepare", "activate"} /\ ~task.prepared
  \/ pc = "activate" /\ pc' = "switch" /\ task.prepared
  \/ pc = "activate" /\ pc' = "prepare" /\ ~task.prepared
  \/ pc = "verify" /\ pc' \in {"commit", "promote"} /\ task.prepared
  \/ pc = "commit" /\ pc' = "promote" /\ task.prepared
  \/ pc \in {"prepare", "activate", "switch", "verify", "commit"} /\ pc' = "undo"
  \/ pc = "activate" /\ pc' = "abort"

Moving ==
  \/ Recover \/ Begin \/ Activate \/ ((Verify \/ Commit) /\ Advance) \/ PrepareFails
  \/ ActivateFails \/ SwitchFails \/ CommitFails \/ (Verify /\ Undo)

LEMMA MovingDoes ==
  ASSUME Basis, Moving
  PROVE  /\ Moves /\ UNCHANGED <<entries, waiting, served, outside>>
         /\ task'.kind = task.kind /\ task'.goal = task.goal /\ task'.routes = task.routes
         /\ task'.candidates = task.candidates /\ task'.prepared = task.prepared
<1>1. CASE Recover
  BY <1>1 DEF Recover, Moves, memory, bounds
<1>2. CASE Begin
  BY <1>2, BeginDoes DEF Moves, memory
<1>3. CASE Activate
  <2>1. /\ pc = "activate" /\ pc' = (IF task.kind \in {"install", "save"} THEN "switch" ELSE "prepare")
        /\ task'.kind = task.kind /\ task'.goal = task.goal /\ task'.routes = task.routes
        /\ task'.candidates = task.candidates /\ task'.prepared = task.prepared
        /\ UNCHANGED <<entries, waiting, served, outside>>
    BY <1>3, ActivateDoes DEF memory
  <2>2. task.prepared <=> task.kind \in {"install", "save"}
    BY <2>1, StandsIs DEF Stands, Basis
  <2> QED BY <2>1, <2>2 DEF Moves
<1>4. CASE (Verify \/ Commit) /\ Advance
  <2>1. Advance /\ pc \in {"verify", "commit"} /\ UNCHANGED <<entries, waiting, served, outside>>
    BY <1>4 DEF Verify, Commit, memory, bounds
  <2>2. /\ task'.kind = task.kind /\ task'.goal = task.goal /\ task'.routes = task.routes
        /\ task'.candidates = task.candidates /\ task'.prepared = task.prepared
        /\ pc = "verify" => pc' = IF task.kind = "import" THEN "commit" ELSE "promote"
        /\ pc = "commit" => pc' = "promote"
        /\ task.prepared
    BY <2>1, AdvanceDoes
  <2> QED BY <2>1, <2>2 DEF Moves
<1>5. CASE PrepareFails
  BY <1>5, PrepareFailsDoes DEF Moves
<1>6. CASE ActivateFails \/ SwitchFails \/ CommitFails \/ (Verify /\ Undo)
  <2>1. /\ pc \in {"activate", "switch", "verify", "commit"} /\ task' = task /\ UNCHANGED <<entries, waiting, served, outside>>
        /\ pc' = "undo" \/ (pc = "activate" /\ pc' = "abort")
    BY <1>6 DEF ActivateFails, SwitchFails, CommitFails, Verify, Undo, memory, bounds, Fault
  <2> QED BY <2>1 DEF Moves
<1> QED BY <1>1, <1>2, <1>3, <1>4, <1>5, <1>6 DEF Moving

LEMMA CommandMoves ==
  ASSUME CommandNext
  PROVE  \/ Moving \/ Check \/ Prepare \/ Switch \/ RollBack \/ RollBackFails \/ Promote
         \/ Forget \/ PromoteFails \/ Decline \/ Abort \/ AbortFails
BY CommandSplit DEF Moving

\* No step forgets that the directories were changed during a command.
LEMMA RacedStays ==
  ASSUME Basis, [Next]_vars
  PROVE  /\ "raced" \in blame => "raced" \in blame'
         /\ ~PlanNext => blame \subseteq blame'
<1>1. CASE StartupNext
  BY <1>1 DEF StartupNext, Startup, OpenWithoutBaseline, AdoptPending, Refuse, ForgetPending, Review, StartupFails, history
<1>2. CASE PlanNext
  BY <1>2, PlanKeeps DEF Basis
<1>3. CASE CommandNext
  BY <1>3 DEF CommandNext, Check, Recover, Decline, Begin, Prepare, PrepareFails, Activate, ActivateFails,
       Switch, SwitchFails, Verify, Commit, CommitFails, Promote, Forget, PromoteFails, RollBack,
       RollBackFails, Abort, AbortFails, history
<1>4. CASE \/ \E p \in Plugin, c \in Content \cup {None} : ChangeOutside(p, c)
           \/ LoseBaseline \/ Crash \/ UNCHANGED vars
  BY <1>4 DEF ChangeOutside, LoseBaseline, Crash, vars, history
<1> QED BY <1>1, <1>2, <1>3, <1>4 DEF Next

\* What is left to show where no command is past its checks.
LEMMA RestFits ==
  ASSUME Basis', ~Working',
         (Orderly => IdleFits)'
  PROVE  RoutesFit'
<1>1. TypeOK' /\ ~task'.prepared /\ pc' \notin {"verify", "commit", "promote", "forget", "begin", "activate", "prepare"}
  BY DEF Basis, StepsFit, Working, Closed
<1>2. InstalledNext' /\ ReloadServed' /\ RoutesHeld' /\ RemovalServed' /\ SaveServed' /\ EditServed'
  BY <1>1 DEF InstalledNext, ReloadServed, RoutesHeld, RemovalServed, SaveServed, EditServed, Unprepared
<1>3. ServedFits'
  BY <1>1 DEF ServedFits, OldFit, OldStill, NextFit, NewFit
<1>4. RouteParts'
  BY <1>2, <1>3 DEF RouteParts
<1> QED BY <1>1, <1>4, RoutesNext

LEMMA ClosedFits ==
  ASSUME Basis', Closed'
  PROVE  RoutesFit'
<1>1. ~Working' /\ (Orderly => IdleFits)'
  BY DEF Working, Orderly
<1> QED BY <1>1, RestFits

LEMMA MovingFits ==
  ASSUME Basis, Basis', RouteParts, Moving, "raced" \in blame => "raced" \in blame',
         Undisturbed' => Undisturbed,
         RemovalServed'
  PROVE  RoutesFit'
<1>1. /\ Moves /\ UNCHANGED <<entries, waiting, served, outside>>
      /\ task'.kind = task.kind /\ task'.goal = task.goal /\ task'.routes = task.routes
      /\ task'.candidates = task.candidates /\ task'.prepared = task.prepared
  BY MovingDoes
<1>2. TypeOK' /\ StepsFit
  BY DEF Basis
<1>3. InstalledNext'
  BY <1>1 DEF RouteParts, InstalledNext
<1>4. ReloadServed'
  <2>1. pc = "commit" => task.kind # "reload"
    BY <1>2, StandsIs DEF Stands
  <2>2. task.kind = "reload" /\ pc' \in {"verify", "promote", "forget"} => pc = "verify"
    BY <1>1, <2>1 DEF Moves
  <2> QED BY <1>1, <2>2 DEF RouteParts, ReloadServed
<1>5. RoutesHeld'
  <2>1. pc = "plan" => pc' = "plan"
    BY <1>1 DEF Moves
  <2>2. pc' \notin {"plan", "verify", "commit", "promote", "forget", "undo"} =>
          Working /\ pc \notin {"verify", "commit", "promote", "forget", "undo"}
    BY <1>1 DEF Moves, Working, Closed
  <2> QED BY <1>1, <2>1, <2>2 DEF RouteParts, RoutesHeld, Working
<1>6. Unprepared' => Unprepared
  BY <1>1 DEF Moves, Unprepared
<1>7. SaveServed' /\ EditServed'
  BY <1>1, <1>6 DEF RouteParts, SaveServed, EditServed
<1>8. ServedFits'
  <2> SUFFICES ASSUME Orderly' PROVE IdleFits' /\ OldFit' /\ OldStill' /\ NextFit' /\ NewFit'
    BY DEF ServedFits
  <2>1. Orderly
    BY <1>1 DEF Orderly, Moves, Closed
  <2>2. IdleFits /\ OldFit /\ OldStill /\ NextFit /\ NewFit
    BY <2>1 DEF RouteParts, ServedFits
  <2>3. IdleFits'
    BY <1>1, <2>2 DEF IdleFits, Moves
  <2>4. OldFit'
    <3>1. Working' => Working
      BY <1>1 DEF Moves, Working, Closed
    <3> QED BY <1>1, <2>2, <3>1 DEF OldFit
  <2>5. OldStill'
    <3>1. task.prepared /\ pc' \in {"activate", "switch", "verify", "commit", "undo", "abort"} =>
            pc \in {"activate", "switch", "verify", "commit"}
      <4>1. pc = "prepare" => ~task.prepared
        BY <1>2, StandsIs DEF Stands
      <4> QED BY <1>1, <4>1 DEF Moves
    <3> QED BY <1>1, <2>2, <3>1 DEF OldStill
  <2>6. NextFit'
    <3>1. task.prepared /\ pc' \in {"activate", "switch"} => pc = "activate"
      BY <1>1 DEF Moves
    <3>2. NextRoutes' = NextRoutes
      BY <1>1, NextRoutesAre
    <3> QED BY <1>1, <2>2, <3>1, <3>2 DEF NextFit
  <2>7. NewFit'
    <3>1. pc' \in {"verify", "commit", "promote", "forget"} => pc \in {"verify", "commit", "promote"}
      BY <1>1 DEF Moves
    <3> QED BY <1>1, <2>2, <3>1 DEF NewFit
  <2> QED BY <2>3, <2>4, <2>5, <2>6, <2>7
<1>9. RouteParts'
  BY <1>3, <1>4, <1>5, <1>7, <1>8 DEF RouteParts
<1> QED BY <1>2, <1>9, RoutesNext

\* What is removed from the directories is removed from what is inspected.
LEMMA RemovedInspected ==
  ASSUME Basis, Activate, task.kind \in {"uninstall", "delete"}, served = Routes(Inspected)
  PROVE  Without(served, Members) = Routes(Inspected')
<1>1. /\ disk' = With(disk, task.goal) /\ disk' \in [Plugin -> Content \cup {None}]
      /\ UNCHANGED <<entries, waiting>>
  BY ActivateDoes DEF memory
<1>2. Members = {Target} /\ Target \in Plugin /\ task.goal[Target] = None
  BY TargetIs DEF Basis
<1>3. disk'[Target] = None /\ \A p \in Plugin : p # Target => disk'[p] = disk[p]
  BY <1>1, <1>2 DEF Basis, TypeOK, With, Members
<1>4. /\ entries \in Entries /\ AcceptedMappings \in Entries /\ disk \in [Plugin -> Content \cup {None}]
      /\ Inspected = Shown(entries, AcceptedMappings, disk) /\ Inspected \in Partial(Plugin, Known)
  BY TypesAre, ContentsKnown DEF Basis, TypeOK
<1>5. Inspected' = Shown(entries, AcceptedMappings, disk')
  BY <1>1 DEF Inspected, Shown, AcceptedMappings
<1>6. Shown(entries, AcceptedMappings, disk') = Without(Inspected, Members)
  <2> DEFINE e == entries
             a == AcceptedMappings
             d == disk
             f == disk'
             s == Shown(e, a, d)
             t == Shown(e, a, f)
  <2>1. /\ e \in Entries /\ a \in Entries /\ d \in [Plugin -> Content \cup {None}]
        /\ f \in [Plugin -> Content \cup {None}]
        /\ f[Target] = None /\ \A p \in Plugin : p # Target => f[p] = d[p]
    BY <1>1, <1>3, <1>4
  <2> HIDE DEF e, a, d, f
  <2>2. /\ s \in Partial(Plugin, Content)
        /\ \A p \in DOMAIN s : p \in Plugin /\ s[p] = d[p]
        /\ \A p : p \in DOMAIN s <=>
             /\ p \in Plugin /\ d[p] # None
             /\ d[p].kind = "signed" /\ p \in DOMAIN e => e[p].content.kind = "signed" /\ Compatible(e[p].content, d[p])
             /\ d[p].kind = "mapping" => p \in DOMAIN a /\ a[p].content = d[p]
    BY <2>1, ShownIs
  <2>3. /\ t \in Partial(Plugin, Content)
        /\ \A p \in DOMAIN t : p \in Plugin /\ t[p] = f[p]
        /\ \A p : p \in DOMAIN t <=>
             /\ p \in Plugin /\ f[p] # None
             /\ f[p].kind = "signed" /\ p \in DOMAIN e => e[p].content.kind = "signed" /\ Compatible(e[p].content, f[p])
             /\ f[p].kind = "mapping" => p \in DOMAIN a /\ a[p].content = f[p]
    BY <2>1, ShownIs
  <2> HIDE DEF s, t
  <2>4. Without(s, Members) \in Partial(Plugin, Content)
        /\ DOMAIN Without(s, Members) = DOMAIN s \ Members
        /\ \A p \in DOMAIN s \ Members : Without(s, Members)[p] = s[p]
    <3>1. Without(s, Members) \in Partial(Plugin, Content)
      BY <2>2, WithoutPartial
    <3> QED BY <3>1 DEF Without
  <2>5. ASSUME NEW p PROVE p \in DOMAIN t <=> p \in DOMAIN s \ Members
    BY <1>2, <2>1, <2>2, <2>3
  <2>6. DOMAIN t = DOMAIN Without(s, Members)
    BY <2>4, <2>5
  <2>7. ASSUME NEW p \in DOMAIN t PROVE t[p] = Without(s, Members)[p]
    <3>1. p \in DOMAIN s /\ p \notin Members /\ p \in Plugin /\ p # Target
      BY <1>2, <2>2, <2>5
    <3> QED BY <2>1, <2>2, <2>3, <2>4, <3>1
  <2>8. t = Without(s, Members)
    BY <2>3, <2>4, <2>6, <2>7, SameMap
  <2> QED BY <1>4, <2>8 DEF t, s, e, a, d, f
<1>7. Routes(Without(Inspected, Members)) = Without(Routes(Inspected), Members)
  BY <1>4, RoutesOfWithout
<1> QED BY <1>5, <1>6, <1>7

LEMMA CheckMatches ==
  ASSUME Check, task.kind \in {"uninstall", "delete", "save", "cases"}
  PROVE  served = Routes(Inspected)
<1>1. May
  BY DEF Check
<1>2. RoutesMatch
  BY <1>1 DEF May, MayRemove, MaySave, MayEditCases, MayDebug
<1> QED BY <1>2 DEF RoutesMatch

LEMMA CheckFits ==
  ASSUME Basis, Basis', RouteParts, Check
  PROVE  RoutesFit'
<1>1. /\ pc = "plan" /\ pc' = "begin" /\ task'.kind = task.kind /\ task'.goal = task.goal /\ task'.routes = served
      /\ task.kind \in {"save", "cases"} => task'.candidates = With(Inspected, task.goal)
      /\ UNCHANGED <<disk, entries, waiting, served, outside, blame>>
  BY CheckDoes DEF files, memory
<1>2. ~task'.prepared /\ TypeOK'
  BY <1>1 DEF Basis, StepsFit
<1>3. InstalledNext' /\ ReloadServed' /\ RoutesHeld'
  BY <1>1, <1>2 DEF InstalledNext, ReloadServed, RoutesHeld
<1>4. RemovalServed'
  <2>1. Routes(Inspected)' = Routes(Inspected)
    BY <1>1, SameInspected
  <2> QED BY <1>1, <2>1, CheckMatches DEF RemovalServed
<1>5. ASSUME task.kind \in {"save", "cases"} PROVE Routes(task'.candidates) = With(served, Routes(task.goal))
  <2>1. Inspected \in Partial(Plugin, Known)
    BY TypesAre, ContentsKnown DEF Basis
  <2>2. task.goal \in Partial(Plugin, Known)
    BY <1>5, TargetIs, ContentsKnown DEF Basis
  <2>3. Routes(With(Inspected, task.goal)) = With(Routes(Inspected), Routes(task.goal))
    BY <2>1, <2>2, RoutesOfWith
  <2> QED BY <1>1, <1>5, <2>3, CheckMatches
<1>6. SaveServed'
  BY <1>1, <1>5 DEF SaveServed
<1>7. ASSUME task.kind = "cases" PROVE With(served, Routes(task.goal)) = served
  <2>1. /\ Inspected \in Partial(Plugin, Known) /\ task.goal \in Partial(Plugin, Known)
        /\ Members = {Target} /\ Wanted = task.goal[Target]
    BY <1>7, TypesAre, TargetIs, ContentsKnown DEF Basis
  <2>2. Target \in DOMAIN Inspected /\ Inspected[Target] = disk[Target] /\ Route(Wanted) = Route(disk[Target])
    BY <1>7, EditDoes
  <2>3. served = Routes(Inspected)
    BY <1>7, CheckMatches
  <2> DEFINE r == Routes(task.goal)
             m == Inspected
             g == task.goal
  <2>4. /\ m \in Partial(Plugin, Known) /\ g \in Partial(Plugin, Known) /\ DOMAIN g = {Target}
        /\ Target \in DOMAIN m /\ Route(g[Target]) = Route(m[Target])
    BY <2>1, <2>2 DEF Members
  <2> HIDE DEF m, g
  <2>5. /\ served \in RouteMaps /\ DOMAIN served = DOMAIN m /\ \A p \in DOMAIN m : served[p] = Route(m[p])
        /\ r \in RouteMaps /\ DOMAIN r = DOMAIN g /\ \A p \in DOMAIN g : r[p] = Route(g[p])
    BY <2>3, <2>4, RoutesIs DEF m, g
  <2> HIDE DEF r
  <2>6. /\ With(served, r) \in RouteMaps
        /\ DOMAIN With(served, r) = DOMAIN served
        /\ \A p \in DOMAIN served : With(served, r)[p] = served[p]
    <3>1. With(served, r) \in RouteMaps
      BY <2>5, WithPartial DEF RouteMaps
    <3> QED BY <2>4, <2>5, <3>1 DEF With
  <2>7. With(served, r) = served
    BY <2>5, <2>6, SameMap DEF RouteMaps
  <2> QED BY <2>7 DEF r, g
<1>8. EditServed'
  BY <1>1, <1>5, <1>7 DEF EditServed
<1>9. ServedFits'
  <2> SUFFICES ASSUME Orderly' PROVE IdleFits' /\ OldFit' /\ OldStill' /\ NextFit' /\ NewFit'
    BY DEF ServedFits
  <2>1. IdleFits
    BY <1>1 DEF Orderly, Closed, RouteParts, ServedFits
  <2> QED BY <1>1, <1>2, <2>1 DEF IdleFits, OldFit, OldStill, NextFit, NewFit
<1>10. RouteParts'
  BY <1>3, <1>4, <1>6, <1>8, <1>9 DEF RouteParts
<1> QED BY <1>2, <1>10, RoutesNext

\* The routes a command changes to are those of the next baseline.
LEMMA InstallFits ==
  ASSUME Preparing, RouteParts, ServesNow \/ outside # 0, "raced" \notin blame, task.kind = "install"
  PROVE  FitsAt(outside, With(served, Routes(task.goal)), NextDocument.plugins)
<1> DEFINE n == NextDocument.plugins
           g == task.goal
           i == Inspected
           r == Routes(g)
           t == With(served, r)
<1>1. /\ Basis /\ DirectoriesFit /\ pc = "prepare" /\ Preparable /\ waiting = None /\ Undisturbed /\ TypeOK
      /\ disk \in [Plugin -> Content \cup {None}] /\ entries \in Entries /\ served \in RouteMaps
  BY DEF Preparing, Basis, TypeOK
<1>2. /\ n \in Entries
      /\ \A p : p \in DOMAIN n <=> p \in DOMAIN Recorded \/ (p \in DOMAIN entries /\ p \notin Retiring)
      /\ \A p \in DOMAIN Recorded : n[p].content = Recorded[p]
      /\ \A p \in DOMAIN n \ DOMAIN Recorded : n[p].content = entries[p].content
  BY <1>1, PrepareDoes
<1>3. Recorded = With(i, g)
  BY PreparedContents
<1>4. i = Shown(entries, entries, disk)
  BY <1>1, InspectedIsShown DEF AcceptedMappings
<1>5. g \in Partial(Plugin, Known) /\ i \in Partial(Plugin, Known) /\ Retiring = {}
  <2>1. g \in Partial(Plugin, Content)
    BY <1>1, TargetIs DEF Basis
  <2>2. i \in Partial(Plugin, Content)
    BY <1>1, TypesAre
  <2> QED BY <2>1, <2>2, ContentsKnown DEF Retiring
<1>6. ~task.prepared /\ txn = None /\ served = task.routes
  <2>1. ~task.prepared /\ txn = None
    BY <1>1, StandsIs DEF Basis, Stands, TransactionFits
  <2> QED BY <1>1, <2>1 DEF RouteParts, RoutesHeld, Working, Closed
<1>7. FitsAt(outside, served, entries)
  <2>1. OldFit
    BY <1>1 DEF RouteParts, ServedFits, Orderly, Closed
  <2>2. FitsOne(outside, task.routes, entries, waiting)
    BY <1>1, <1>6, <2>1 DEF OldFit, Working, Closed
  <2> QED BY <1>1, <1>6, <2>2 DEF FitsOne
<1>8. ASSUME outside = 0 PROVE t = Routes(Installed(n))
  <2>1. ServesAll(entries, Before)
    BY <1>1, <1>8 DEF ServesNow, Closed
  <2>2. Before = disk
    BY <1>6, BeforeIs, RestoredStays
  <2>3. Routes(i) = Routes(Installed(entries))
    BY <1>4, <2>1, <2>2, ServesIs
  <2>4. served = Routes(i)
    BY <1>7, <1>8, <2>3 DEF FitsAt
  <2>5. Routes(With(i, g)) = With(Routes(i), Routes(g))
    BY <1>5, RoutesOfWith
  <2>6. Installed(n) = With(i, g)
    BY <1>1, <1>3, NextInstalled
  <2> QED BY <2>4, <2>5, <2>6
<1> HIDE DEF n
<1>9. /\ r \in RouteMaps /\ DOMAIN r = DOMAIN g /\ \A p \in DOMAIN g : r[p] = Route(g[p])
  BY <1>5, RoutesIs
<1>10. /\ DOMAIN Recorded = DOMAIN i \cup DOMAIN g
       /\ \A p \in DOMAIN g : Recorded[p] = g[p]
       /\ \A p \in DOMAIN i : p \notin DOMAIN g => Recorded[p] = i[p]
  BY <1>3 DEF With
<1>11. \A p : p \in DOMAIN i <=>
              /\ p \in Plugin /\ disk[p] # None
              /\ disk[p].kind = "signed" /\ p \in DOMAIN entries =>
                   entries[p].content.kind = "signed" /\ Compatible(entries[p].content, disk[p])
              /\ disk[p].kind = "mapping" => p \in DOMAIN entries /\ entries[p].content = disk[p]
  BY <1>1, <1>4, ShownIs
<1>12. \A p \in DOMAIN i : p \in Plugin /\ i[p] = disk[p] /\ disk[p] \in Content
  BY <1>1, <1>4, ShownIs
<1> HIDE DEF i, g, r
<1>13. /\ DOMAIN t = DOMAIN served \cup DOMAIN g
       /\ \A p \in DOMAIN g : t[p] = Route(g[p])
       /\ \A p \in DOMAIN served : p \notin DOMAIN g => t[p] = served[p]
  BY <1>9 DEF With
<1> HIDE DEF t
<1>14. ASSUME NEW p \in DOMAIN t
       PROVE  /\ p \in DOMAIN n
              /\ \/ t[p] = Route(n[p].content)
                 \/ t[p].kind = "signed" /\ n[p].content.kind = "signed" /\ Compatible(t[p], n[p].content)
  <2>1. CASE p \in DOMAIN g
    BY <1>2, <1>10, <1>13, <2>1
  <2>2. CASE p \notin DOMAIN g
    <3>1. p \in DOMAIN served /\ t[p] = served[p] /\ served[p] \in Known
      BY <1>1, <1>13, <2>2, RouteMapIs
    <3>2. /\ p \in DOMAIN entries /\ entries[p].content \in Known
          /\ \/ served[p] = Route(entries[p].content)
             \/ /\ served[p].kind = "signed" /\ entries[p].content.kind = "signed"
                /\ Compatible(served[p], entries[p].content)
      BY <1>1, <1>7, <3>1, EntryIs DEF FitsAt
    <3>3. p \in DOMAIN n
      BY <1>2, <1>5, <3>2
    <3>4. CASE p \notin DOMAIN Recorded
      BY <1>2, <3>1, <3>2, <3>3, <3>4
    <3>5. CASE p \in DOMAIN Recorded
      <4>1. p \in DOMAIN i /\ n[p].content = disk[p] /\ disk[p] \in Content /\ disk[p] \in Known
        BY <1>2, <1>10, <1>12, <2>2, <3>5, KnownIs
      <4>2. CASE disk[p].kind = "mapping"
        BY <1>11, <3>1, <3>2, <3>3, <4>1, <4>2
      <4>3. CASE disk[p].kind = "signed"
        <5>1. entries[p].content.kind = "signed" /\ Compatible(entries[p].content, disk[p])
          BY <1>11, <3>2, <4>1, <4>3
        <5>2. served[p].kind = "signed" /\ Compatible(served[p], entries[p].content)
          <6>1. CASE served[p] = Route(entries[p].content)
            <7>1. served[p].kind = "signed" /\ served[p].contract = entries[p].content.contract
              BY <3>2, <5>1, <6>1, RouteIs
            <7> QED BY <3>1, <3>2, <5>1, <7>1, CompatibleIs
          <6> QED BY <3>2, <6>1
        <5>3. Compatible(served[p], disk[p])
          BY <3>1, <3>2, <4>1, <4>3, <5>1, <5>2, CompatibleIs
        <5> QED BY <3>1, <3>3, <4>1, <4>3, <5>2, <5>3
      <4> QED BY <4>1, <4>2, <4>3, KnownIs
    <3> QED BY <3>4, <3>5
  <2> QED BY <2>1, <2>2
<1>15. FitsAt(outside, t, n)
  BY <1>8, <1>14 DEF FitsAt
<1> QED BY <1>15 DEF t, r, g, n

LEMMA NextFits ==
  ASSUME Preparing, RouteParts, ServesNow \/ outside # 0, "raced" \notin blame
  PROVE  FitsAt(outside, RoutesAfter(task.kind, Recorded, served, task.goal), NextDocument.plugins)
<1>1. /\ Basis /\ DirectoriesFit /\ pc = "prepare" /\ Preparable /\ waiting = None /\ Undisturbed
  BY DEF Preparing
<1>2. ~task.prepared /\ task.kind \in {"install", "save", "cases", "reload", "uninstall", "delete", "import"}
  BY <1>1, StandsIs DEF Stands, Basis
<1>3. NextDocument.plugins \in Entries /\ Installed(NextDocument.plugins) = Recorded
  BY <1>1, PrepareDoes, NextInstalled
<1>4. ASSUME RoutesAfter(task.kind, Recorded, served, task.goal) = Routes(Recorded)
      PROVE  FitsAt(outside, RoutesAfter(task.kind, Recorded, served, task.goal), NextDocument.plugins)
  BY <1>3, <1>4, ExactFits
<1>5. CASE task.kind \in {"import", "reload"}
  BY <1>4, <1>5, RoutesAfterAre
<1>6. CASE task.kind \in {"uninstall", "delete"}
  <2>1. Without(served, Members) = Routes(Inspected) /\ Recorded = Inspected
    BY <1>1, <1>2, <1>6, PreparedContents DEF RouteParts, RemovalServed, Unprepared
  <2> QED BY <1>4, <1>6, <2>1, RoutesAfterAre DEF Members
<1>7. CASE task.kind \in {"save", "cases"}
  <2>1. Recorded = task.candidates
    BY <1>1, <1>2, <1>7, PreparedContents DEF DirectoriesFit, Unprepared
  <2>2. /\ Routes(task.candidates) = With(served, Routes(task.goal))
        /\ task.kind = "cases" => Routes(task.candidates) = served
    BY <1>1, <1>2, <1>7 DEF RouteParts, SaveServed, EditServed, Unprepared
  <2>3. RoutesAfter(task.kind, Recorded, served, task.goal) = Routes(Recorded)
    BY <1>7, <2>1, <2>2, RoutesAfterAre
  <2> QED BY <1>4, <2>3
<1>8. CASE task.kind = "install"
  BY <1>8, InstallFits, RoutesAfterAre
<1> QED BY <1>2, <1>5, <1>6, <1>7, <1>8

LEMMA PrepareFits ==
  ASSUME Basis, Basis', DirectoriesFit, RouteParts, ServesNow \/ outside # 0, Prepare
  PROVE  RoutesFit'
<1>1. /\ task'.kind = task.kind /\ task'.goal = task.goal /\ task'.routes = task.routes /\ task'.candidates = Recorded
      /\ task'.prepared = TRUE /\ pc = "prepare" /\ Preparable /\ waiting = None
      /\ waiting' = NextDocument.plugins
      /\ task.kind = "cases" => pc' = "promote"
      /\ task.kind # "cases" => pc' \in {"activate", "switch"}
      /\ UNCHANGED <<entries, served, outside>>
  <2>1. task.kind \in {"install", "save", "cases", "reload", "uninstall", "delete", "import"}
    BY StandsIs DEF Stands, Basis, Prepare
  <2> QED BY <2>1, PreparedTask
<1>2. /\ TypeOK' /\ ~task.prepared
      /\ "raced" \in blame => "raced" \in blame'
      /\ pc' = "promote" => task.kind = "cases"
  <2>1. ~task.prepared
    BY <1>1, StandsIs DEF Stands, Basis
  <2> QED BY <1>1, <2>1, RacedStays DEF Basis, Next, CommandNext
<1>3. InstalledNext'
  BY <1>1, NextInstalled DEF InstalledNext
<1>4. ReloadServed' /\ RoutesHeld'
  <2>1. served = task.routes
    BY <1>1 DEF RouteParts, RoutesHeld, Working, Closed
  <2> QED BY <1>1, <1>2, <2>1 DEF ReloadServed, RoutesHeld
<1>5. RemovalServed' /\ SaveServed' /\ EditServed'
  BY <1>1 DEF RemovalServed, SaveServed, EditServed, Unprepared
<1>6. ServedFits'
  <2> SUFFICES ASSUME Orderly' PROVE IdleFits' /\ OldFit' /\ OldStill' /\ NextFit' /\ NewFit'
    BY DEF ServedFits
  <2>1. "raced" \notin blame /\ Undisturbed
    BY <1>2, RacedStays DEF Orderly, Undisturbed, Next, CommandNext
  <2>2. FitsAt(outside, task.routes, entries)
    <3>1. OldFit
      BY <1>1, <2>1 DEF RouteParts, ServedFits, Orderly, Closed
    <3> QED BY <1>1, <1>2, <3>1 DEF OldFit, Working, Closed, FitsOne
  <2>3. FitsAt(outside, RoutesAfter(task.kind, Recorded, served, task.goal), NextDocument.plugins)
    BY <2>1, ThenPreparing, NextFits
  <2>4. IdleFits' /\ OldFit'
    BY <1>1 DEF IdleFits, OldFit
  <2>5. OldStill'
    BY <1>1, <2>2 DEF OldStill
  <2>6. NextFit'
    <3>1. NextRoutes' = RoutesAfter(task.kind, Recorded, served, task.goal)
      BY <1>1, NextRoutesAre
    <3> QED BY <1>1, <2>3, <3>1 DEF NextFit
  <2>7. NewFit'
    <3>1. task.kind = "cases" => FitsAt(outside, served, NextDocument.plugins)
      BY <2>3, RoutesAfterAre
    <3> QED BY <1>1, <3>1 DEF NewFit
  <2> QED BY <2>4, <2>5, <2>6, <2>7
<1>7. RouteParts'
  BY <1>3, <1>4, <1>5, <1>6 DEF RouteParts
<1> QED BY <1>2, <1>7, RoutesNext

\* What is switched to is what was prepared.
LEMMA SwitchServes ==
  ASSUME Basis, DirectoriesFit, Undisturbed, Switch
  PROVE  served' = NextRoutes
<1>1. /\ pc = "switch" /\ FoundAsWanted
      /\ task.kind \in {"reload", "import"} => served' = Routes(task.candidates)
      /\ task.kind \in {"uninstall", "delete"} => served' = Without(served, Members)
      /\ task.kind \in {"install", "save"} => served' = With(served, [p \in Members |-> Route(Inspected[p])])
  BY DEF Switch
<1>2. task.kind \in {"install", "save", "reload", "uninstall", "delete", "import"}
  BY <1>1, StandsIs DEF Stands, Basis
<1>3. CASE task.kind \in {"reload", "import", "uninstall", "delete"}
  BY <1>1, <1>3, NextRoutesAre, RoutesAfterAre DEF Members
<1>4. CASE task.kind \in {"install", "save"}
  <2>1. Members = {Target} /\ disk[Target] = task.goal[Target] /\ Target \in DOMAIN task.goal
    BY <1>1, <1>4, TargetIs DEF Basis, DirectoriesFit, Members
  <2>2. Target \in DOMAIN Inspected
    <3>1. CASE task.kind = "install"
      BY <1>1, <3>1 DEF FoundAsWanted, Is
    <3>2. CASE task.kind = "save"
      <4>1. Routes(Inspected) = Routes(task.candidates)
        BY <1>1, <3>2 DEF FoundAsWanted
      <4>2. Target \in DOMAIN task.candidates
        BY <1>1, <2>1, <3>2 DEF Basis, GoalFits, Working, Closed
      <4>3. DOMAIN Inspected = DOMAIN task.candidates
        BY <4>1 DEF Routes
      <4> QED BY <4>2, <4>3
    <3> QED BY <1>4, <3>1, <3>2
  <2>3. Inspected[Target] = task.goal[Target]
    <3>1. /\ entries \in Entries /\ AcceptedMappings \in Entries /\ disk \in [Plugin -> Content \cup {None}]
          /\ Inspected = Shown(entries, AcceptedMappings, disk)
      BY TypesAre DEF Basis, TypeOK
    <3>2. \A p \in DOMAIN Inspected : Inspected[p] = disk[p]
      BY <3>1, ShownIs
    <3> QED BY <2>1, <2>2, <3>2
  <2>4. [p \in Members |-> Route(Inspected[p])] = Routes(task.goal)
    BY <2>1, <2>3 DEF Routes, Members
  <2> QED BY <1>1, <1>4, <2>4, NextRoutesAre, RoutesAfterAre
<1> QED BY <1>2, <1>3, <1>4

LEMMA SwitchFits ==
  ASSUME Basis, Basis', DirectoriesFit, RouteParts, Switch
  PROVE  RoutesFit'
<1>1. /\ pc = "switch" /\ task'.kind = task.kind /\ task'.goal = task.goal /\ task'.routes = task.routes
      /\ task'.candidates = task.candidates /\ task'.prepared = task.prepared /\ task.prepared
      /\ pc' = IF task.kind \in {"import", "reload"} THEN "verify" ELSE "commit"
      /\ UNCHANGED <<entries, waiting, outside, blame>>
  <2>1. Advance /\ pc = "switch" /\ UNCHANGED <<entries, waiting, outside, blame>>
    BY DEF Switch, bounds, history
  <2> QED BY <2>1, AdvanceDoes
<1>2. TypeOK'
  BY DEF Basis
<1>3. InstalledNext'
  BY <1>1 DEF RouteParts, InstalledNext
<1>4. ReloadServed'
  <2>1. task.kind = "reload" => served' = Routes(task.candidates)
    BY DEF Switch
  <2> QED BY <1>1, <2>1 DEF ReloadServed
<1>5. RoutesHeld' /\ RemovalServed' /\ SaveServed' /\ EditServed'
  BY <1>1 DEF RoutesHeld, RemovalServed, SaveServed, EditServed, Unprepared
<1>6. ServedFits'
  <2> SUFFICES ASSUME Orderly' PROVE IdleFits' /\ OldFit' /\ OldStill' /\ NextFit' /\ NewFit'
    BY DEF ServedFits
  <2>1. Orderly /\ Undisturbed
    BY <1>1 DEF Orderly, Closed, Undisturbed
  <2>2. OldStill /\ NextFit
    BY <2>1 DEF RouteParts, ServedFits
  <2>3. served' = NextRoutes
    BY <2>1, SwitchServes
  <2> QED BY <1>1, <2>2, <2>3 DEF IdleFits, OldFit, OldStill, NextFit, NewFit
<1>7. RouteParts'
  BY <1>3, <1>4, <1>5, <1>6 DEF RouteParts
<1> QED BY <1>2, <1>7, RoutesNext

LEMMA BackFits ==
  ASSUME Basis, Basis', RouteParts, RollBack \/ RollBackFails
  PROVE  RoutesFit'
<1>1. /\ pc = "undo" /\ pc' = "abort" /\ task' = task /\ served' = task.routes
      /\ UNCHANGED <<entries, waiting, outside, blame>>
  BY DEF RollBack, RollBackFails, bounds, history, Fault
<1>2. TypeOK'
  BY DEF Basis
<1>3. InstalledNext' /\ ReloadServed' /\ RoutesHeld'
  BY <1>1 DEF RouteParts, InstalledNext, ReloadServed, RoutesHeld
<1>4. RemovalServed' /\ SaveServed' /\ EditServed'
  BY <1>1 DEF RemovalServed, SaveServed, EditServed, Unprepared
<1>5. ServedFits'
  <2> SUFFICES ASSUME Orderly' PROVE IdleFits' /\ OldFit' /\ OldStill' /\ NextFit' /\ NewFit'
    BY DEF ServedFits
  <2>1. OldFit /\ OldStill
    BY <1>1 DEF Orderly, Closed, RouteParts, ServedFits
  <2> QED BY <1>1, <2>1 DEF IdleFits, OldFit, OldStill, NextFit, NewFit, Working, Closed
<1>6. RouteParts'
  BY <1>3, <1>4, <1>5 DEF RouteParts
<1> QED BY <1>2, <1>6, RoutesNext

LEMMA PromoteFits ==
  ASSUME Basis, Basis', RouteParts, Promote
  PROVE  RoutesFit'
<1>1. pc = "promote" /\ pc' = "forget" /\ task' = task /\ UNCHANGED <<served, waiting, outside, blame>>
  BY DEF Promote, bounds, history
<1>2. TypeOK' /\ task.prepared
  BY <1>1 DEF Basis, StepsFit
<1>3. InstalledNext' /\ ReloadServed' /\ RoutesHeld'
  BY <1>1 DEF RouteParts, InstalledNext, ReloadServed, RoutesHeld
<1>4. RemovalServed' /\ SaveServed' /\ EditServed'
  BY <1>1 DEF RemovalServed, SaveServed, EditServed, Unprepared
<1>5. ServedFits'
  <2> SUFFICES ASSUME Orderly' PROVE IdleFits' /\ OldFit' /\ OldStill' /\ NextFit' /\ NewFit'
    BY DEF ServedFits
  <2>1. NewFit
    BY <1>1 DEF Orderly, Closed, RouteParts, ServedFits
  <2> QED BY <1>1, <1>2, <2>1 DEF IdleFits, OldFit, OldStill, NextFit, NewFit
<1>6. RouteParts'
  BY <1>3, <1>4, <1>5 DEF RouteParts
<1> QED BY <1>2, <1>6, RoutesNext

\* A command ends with what it switched to, or with what there was.
LEMMA EndFits ==
  ASSUME Basis, Basis', RouteParts, Forget \/ PromoteFails \/ Decline \/ Abort \/ AbortFails
  PROVE  RoutesFit'
<1>1. /\ pc' = "idle" /\ entries \in Entries /\ UNCHANGED <<served, entries, outside, blame>>
      /\ pc \in {"forget", "promote", "plan", "abort"}
  BY DEF Forget, PromoteFails, Decline, Abort, AbortFails, Answer, memory, bounds, history, Fault, Basis, TypeOK
<1> SUFFICES ASSUME Orderly' PROVE FitsOne(outside, served, entries, waiting')
  <2>1. (Orderly => IdleFits)'
    BY <1>1 DEF IdleFits
  <2>2. ~Working'
    BY <1>1 DEF Working
  <2> QED BY <2>1, <2>2, RestFits
<1>2. IdleFits /\ OldFit /\ OldStill /\ NewFit
  BY <1>1 DEF Orderly, Closed, RouteParts, ServedFits
<1>3. CASE Forget
  <2>1. pc = "forget" /\ entries = waiting
    BY <1>3 DEF Forget, Basis, MemoryFits
  <2> QED BY <1>2, <2>1 DEF NewFit, FitsOne
<1>4. CASE PromoteFails
  <2>1. pc \in {"promote", "forget"} /\ waiting # None /\ waiting' = waiting
    BY <1>4 DEF PromoteFails, memory, Basis, MemoryFits, StepsFit
  <2> QED BY <1>2, <2>1 DEF NewFit, FitsOne
<1>5. CASE Decline
  <2>1. pc = "plan" /\ waiting' = waiting
    BY <1>5 DEF Decline, memory
  <2> QED BY <1>2, <2>1 DEF IdleFits
<1>6. CASE Abort \/ AbortFails
  <2>1. pc = "abort" /\ (~task.prepared => waiting' = waiting)
    BY <1>6 DEF Abort, AbortFails, memory
  <2>2. served = task.routes
    BY <2>1 DEF RouteParts, RoutesHeld, Working, Closed
  <2>3. CASE task.prepared
    BY <1>2, <2>1, <2>2, <2>3 DEF OldStill, FitsOne
  <2>4. CASE ~task.prepared
    BY <1>2, <2>1, <2>2, <2>4 DEF OldFit, Working, Closed
  <2> QED BY <2>3, <2>4
<1> QED BY <1>3, <1>4, <1>5, <1>6

LEMMA RouteStep ==
  ASSUME Basis, DirectoriesFit, DirectoriesAreAccepted, RoutesFit, [Next]_vars
  PROVE  RoutesFit'
<1>1. Basis' /\ RouteParts /\ ("raced" \in blame => "raced" \in blame')
  BY BasisStep, RoutesAre, RacedStays DEF Basis
<1>2. CASE StartupNext
  <2>1. CASE Startup \/ AdoptPending \/ Refuse \/ ForgetPending \/ StartupFails
    <3>1. Closed'
      BY <2>1 DEF Startup, AdoptPending, Refuse, ForgetPending, StartupFails, Closed
    <3> QED BY <1>1, <3>1, ClosedFits
  <2>2. CASE OpenWithoutBaseline
    <3>1. /\ entries' \in Entries /\ served' \in RouteMaps /\ DOMAIN served' = DOMAIN entries' /\ pc' = "idle"
          /\ \A p \in DOMAIN entries' : /\ entries'[p].installed
                                        /\ entries'[p].content = task.candidates[p]
                                        /\ served'[p] = Route(task.candidates[p])
      BY <2>2, OpenDoes
    <3>2. served' = Routes(Installed(entries'))
      <4> DEFINE e == entries'
                 i == Installed(e)
      <4>1. /\ i \in Partial(Plugin, Known) /\ DOMAIN i = DOMAIN e
            /\ \A p \in DOMAIN i : i[p] = e[p].content
        BY <3>1, InstalledIs
      <4> HIDE DEF i
      <4>2. Routes(i) \in RouteMaps /\ DOMAIN Routes(i) = DOMAIN i /\ \A p \in DOMAIN i : Routes(i)[p] = Route(i[p])
        BY <4>1, RoutesIs
      <4>3. DOMAIN served' = DOMAIN Routes(i)
        BY <3>1, <4>1, <4>2
      <4>4. \A p \in DOMAIN served' : served'[p] = Routes(i)[p]
        BY <3>1, <4>1, <4>2
      <4>5. served' = Routes(i)
        BY <3>1, <4>2, <4>3, <4>4, SameMap DEF RouteMaps
      <4> QED BY <4>5 DEF i
    <3>3. FitsAt(outside', served', entries')
      BY <3>1, <3>2, ExactFits
    <3>4. (Orderly => IdleFits)' /\ ~Working'
      BY <3>1, <3>3 DEF IdleFits, FitsOne, Working
    <3> QED BY <1>1, <3>4, RestFits
  <2>3. CASE Review
    <3>1. entries' \in Entries /\ served' = Routes(Installed(entries')) /\ pc' = "idle"
      BY <2>3, ReviewDoes, ReviewInstalled
    <3>2. FitsAt(outside', served', entries')
      BY <3>1, ExactFits
    <3>3. (Orderly => IdleFits)' /\ ~Working'
      BY <3>1, <3>2 DEF IdleFits, FitsOne, Working
    <3> QED BY <1>1, <3>3, RestFits
  <2> QED BY <1>2, <2>1, <2>2, <2>3 DEF StartupNext
<1>3. CASE PlanNext
  <2>1. pc = "idle" /\ pc' = "plan" /\ UNCHANGED <<served, entries, waiting, outside>>
    BY <1>3, PlanKeeps DEF Basis, memory
  <2>2. (Orderly => IdleFits)' /\ ~Working'
    <3>1. Orderly' => IdleFits
      BY <1>1, <2>1 DEF Orderly, Closed, RouteParts, ServedFits
    <3> QED BY <2>1, <3>1 DEF IdleFits, Working
  <2> QED BY <1>1, <2>2, RestFits
<1>4. CASE CommandNext
  <2>1. CASE Check BY <1>1, <2>1, CheckFits
  <2>2. CASE Prepare
    <3>1. ServesNow \/ outside # 0
      BY DirectoriesAre
    <3> QED BY <1>1, <2>2, <3>1, PrepareFits
  <2>3. CASE Switch BY <1>1, <2>3, SwitchFits
  <2>4. CASE RollBack \/ RollBackFails BY <1>1, <2>4, BackFits
  <2>5. CASE Promote BY <1>1, <2>5, PromoteFits
  <2>6. CASE Forget \/ PromoteFails \/ Decline \/ Abort \/ AbortFails BY <1>1, <2>6, EndFits
  <2>7. CASE Moving
    <3>1. blame \subseteq blame'
      <4>1. pc # "idle"
        BY <2>7, MovingDoes DEF Moves
      <4> QED BY <4>1, RacedStays, PlanKeeps DEF Basis
    <3>2. Undisturbed' => Undisturbed
      BY <3>1 DEF Undisturbed
    <3>3. /\ Moves /\ UNCHANGED <<entries, waiting, served>>
          /\ task'.kind = task.kind /\ task'.goal = task.goal /\ task'.prepared = task.prepared
      BY <2>7, MovingDoes
    <3>4. RemovalServed'
      <4> SUFFICES ASSUME Undisturbed', task.kind \in {"uninstall", "delete"}, Unprepared'
                   PROVE  /\ pc' \in {"begin", "activate"} => served = Routes(Inspected')
                          /\ pc' = "prepare" => Without(served, Members) = Routes(Inspected')
        <5>1. Members' = Members
          BY <3>3, SameGoal
        <5> QED BY <3>3, <5>1 DEF RemovalServed
      <4>1. RemovalServed /\ Undisturbed
        BY <1>1, <3>2 DEF RouteParts
      <4>2. (pc = "begin" /\ pc' \in {"prepare", "activate"}) \/ (pc = "activate" /\ pc' = "prepare")
        BY <3>3 DEF Moves, Unprepared
      <4>3. Unprepared
        BY <3>3, <4>2 DEF Unprepared
      <4>4. CASE Begin
        <5>1. disk' = disk /\ pc' = "activate" /\ pc = "begin"
          BY <4>4, BeginDoes DEF files
        <5>2. Inspected' = Inspected
          BY <3>3, <5>1, SameInspected
        <5> QED BY <4>1, <4>3, <5>1, <5>2 DEF RemovalServed
      <4>5. CASE Activate
        <5>1. pc = "activate" /\ pc' = "prepare"
          BY <4>2, <4>5 DEF Activate
        <5>2. served = Routes(Inspected)
          BY <4>1, <4>3, <5>1 DEF RemovalServed
        <5> QED BY <4>5, <5>1, <5>2, RemovedInspected
      <4>6. CASE ~Begin /\ ~Activate
        <5>1. pc' \notin {"activate", "prepare"} \/ pc \notin {"begin", "activate"}
          BY <2>7, <4>6 DEF Moving, Recover, Verify, Commit, PrepareFails, ActivateFails, SwitchFails, CommitFails, Undo
        <5> QED BY <4>2, <5>1
      <4> QED BY <4>4, <4>5, <4>6
    <3> QED BY <1>1, <2>7, <3>2, <3>4, MovingFits
  <2> QED BY <1>4, <2>1, <2>2, <2>3, <2>4, <2>5, <2>6, <2>7, CommandMoves
<1>5. CASE \E p \in Plugin, c \in Content \cup {None} : ChangeOutside(p, c)
  <2>1. /\ UNCHANGED <<entries, waiting, served, pc, task>> /\ outside' = outside + 1
        /\ pc \notin {"down", "idle", "plan"} => {"raced", "outside"} \subseteq blame'
    BY <1>5 DEF ChangeOutside, memory
  <2>2. outside' = 0 => outside = 0
    BY <2>1 DEF Basis, TypeOK
  <2>3. CASE pc \in {"down", "idle", "plan"}
    <3>1. ~Working' /\ (Orderly => IdleFits)'
      <4>1. Orderly' => IdleFits
        BY <1>1, <2>1 DEF Orderly, Closed, RouteParts, ServedFits
      <4>2. FitsOne(outside, served, entries, waiting) => FitsOne(outside', served, entries, waiting)
        BY <2>2, FitsLater
      <4> QED BY <2>1, <2>3, <4>1, <4>2 DEF IdleFits, Working, Closed
    <3> QED BY <1>1, <3>1, RestFits
  <2>4. CASE pc \notin {"down", "idle", "plan"}
    <3>1. InstalledNext' /\ ReloadServed' /\ RoutesHeld' /\ SaveServed' /\ EditServed'
      BY <1>1, <2>1 DEF RouteParts, InstalledNext, ReloadServed, RoutesHeld, SaveServed, EditServed, Unprepared, Working, Closed
    <3>2. RemovalServed' /\ ServedFits'
      BY <2>1, <2>4 DEF RemovalServed, ServedFits, Orderly, Undisturbed
    <3>3. RouteParts'
      BY <3>1, <3>2 DEF RouteParts
    <3> QED BY <1>1, <3>3, RoutesNext DEF Basis
  <2> QED BY <2>3, <2>4
<1>6. CASE LoseBaseline \/ Crash
  <2>1. Closed'
    BY <1>6 DEF LoseBaseline, Crash, Closed
  <2> QED BY <1>1, <2>1, ClosedFits
<1>7. CASE UNCHANGED vars
  <2>1. UNCHANGED <<disk, entries, waiting, served, pc, task, outside, blame>>
    BY <1>7 DEF vars, files, memory, history, bounds
  <2>2. Inspected' = Inspected /\ Members' = Members /\ NextRoutes' = NextRoutes
    BY <2>1, SameInspected, SameGoal, NextRoutesAre
  <2>3. InstalledNext' /\ ReloadServed' /\ RoutesHeld' /\ RemovalServed' /\ SaveServed' /\ EditServed'
    BY <1>1, <2>1, <2>2 DEF RouteParts, InstalledNext, ReloadServed, RoutesHeld, RemovalServed, SaveServed, EditServed,
       Unprepared, Working, Closed, Undisturbed
  <2>4. ServedFits'
    BY <1>1, <2>1, <2>2 DEF RouteParts, ServedFits, Orderly, Closed, Working, IdleFits, OldFit, OldStill, NextFit, NewFit
  <2>5. RouteParts'
    BY <2>3, <2>4 DEF RouteParts
  <2> QED BY <1>1, <2>5, RoutesNext DEF Basis
<1> QED BY <1>2, <1>3, <1>4, <1>5, <1>6, <1>7 DEF Next

LEMMA RouteInit == Init => RoutesFit
<1> SUFFICES ASSUME Init PROVE RoutesFit
  OBVIOUS
<1>1. pc = "down" /\ task = NoTask
  BY DEF Init
<1> QED BY <1>1, NoTaskIs DEF RoutesFit, Working, Closed, Unprepared

\* What is served between commands is an accepted set.
LEMMA OneSet ==
  ASSUME Basis, RoutesFit
  PROVE  RoutesAreOneAcceptedSet
<1> SUFFICES ASSUME pc = "idle", "raced" \notin blame
             PROVE  \E accepted \in {entries, waiting} \ {None} : Fits(served, accepted)
  BY DEF RoutesAreOneAcceptedSet, Fits, Installed
<1> QED BY DEF RoutesFit, Closed, Accepted

(***************************************************************************)
(* What a command answers is what the next start serves.                   *)
(***************************************************************************)

\* StartFrom, for any documents.
StartOf(b, q, d) ==
  LET m == Present(d)
      doc == IF q # None /\ Matches(q, m) THEN q ELSE b
      a == Adopted(doc, m)
  IN IF q # None /\ (b # None => ~Matches(q, m) /\ ~Matches(b, m)) THEN None
     ELSE IF b = None
     THEN Routes([p \in {r \in DOMAIN m : m[r].kind = "signed"} |-> m[p]])
     ELSE Routes(Without(m, Breaking(a, m) \cup Changed(a, m)))

LEMMA StartIs ==
  /\ \A d : StartFrom(d) = StartOf(base, pending, d)
  /\ NextStart = StartOf(base, pending, Restored)
<1>1. \A d : StartFrom(d) = StartOf(base, pending, d)
  BY DEF StartFrom, StartOf, PendingWins, Undecided
<1> QED BY <1>1 DEF NextStart

\* A start from a single record.
LEMMA StartSingle ==
  ASSUME NEW e \in Entries
  PROVE  \A d : StartOf(Document(4, e), None, d) = Routes(Shown(e, e, d))
<1> DEFINE b == Document(4, e)
<1>1. b # None /\ b.schema = 4 /\ b.plugins = e
  BY DocumentIs
<1> HIDE DEF b
<1>2. \A m : Adopted(b, m) = e
  BY <1>1 DEF Adopted
<1>3. ASSUME NEW d PROVE StartOf(b, None, d) = Routes(Shown(e, e, d))
  BY <1>1, <1>2 DEF StartOf, Shown
<1> QED BY <1>3 DEF b

\* Nothing is in quarantine when the record matches.
LEMMA MatchedShown ==
  ASSUME NEW e \in Entries, NEW d \in [Plugin -> Content \cup {None}], Matches(Document(4, e), Present(d))
  PROVE  Shown(e, e, d) = Present(d)
<1> DEFINE m == Present(d)
           s == Shown(e, e, d)
<1>1. /\ m \in Partial(Plugin, Content) /\ m \in Partial(Plugin, Known)
      /\ DOMAIN m = {p \in Plugin : d[p] # None}
      /\ \A p \in DOMAIN m : m[p] = d[p] /\ d[p] \in Content /\ d[p] \in Known
  <2>1. m \in Partial(Plugin, Content)
    BY PresentIs
  <2>2. m \in Partial(Plugin, Known)
    BY <2>1, ContentsKnown
  <2> QED BY <2>1, <2>2, PresentIs, KnownIs
<1>2. Matches(Document(4, e), m)
  OBVIOUS
<1>3. /\ s \in Partial(Plugin, Content)
      /\ \A p \in DOMAIN s : p \in Plugin /\ s[p] = d[p]
      /\ \A p : p \in DOMAIN s <=>
              /\ p \in Plugin /\ d[p] # None
              /\ d[p].kind = "signed" /\ p \in DOMAIN e => e[p].content.kind = "signed" /\ Compatible(e[p].content, d[p])
              /\ d[p].kind = "mapping" => p \in DOMAIN e /\ e[p].content = d[p]
  BY ShownIs
<1> HIDE DEF m, s
<1>4. DOMAIN m = {p \in DOMAIN e : e[p].installed} /\ \A p \in DOMAIN m : e[p].content = m[p]
  BY <1>1, <1>2, MatchesIs
<1>5. ASSUME NEW p \in DOMAIN m PROVE p \in DOMAIN s
  <2>1. p \in Plugin /\ d[p] # None /\ p \in DOMAIN e /\ e[p].content = d[p] /\ d[p] \in Known
    BY <1>1, <1>4
  <2>2. d[p].kind = "signed" => Compatible(d[p], d[p])
    BY <2>1, CompatibleIs
  <2> QED BY <1>3, <2>1, <2>2
<1>6. DOMAIN s = DOMAIN m
  <2>1. \A p \in DOMAIN s : p \in DOMAIN m
    BY <1>1, <1>3
  <2> QED BY <1>5, <2>1
<1>7. \A p \in DOMAIN s : s[p] = m[p]
  BY <1>1, <1>3, <1>6
<1>8. s = m
  BY <1>1, <1>3, <1>6, <1>7, SameMap
<1> QED BY <1>8 DEF s, m

\* With a pending record everything is served or the start fails.
LEMMA StartDecided ==
  ASSUME NEW e \in Entries, NEW w \in Entries, NEW d \in [Plugin -> Content \cup {None}],
         StartOf(Document(4, e), Document(4, w), d) # None
  PROVE  /\ StartOf(Document(4, e), Document(4, w), d) = Routes(Present(d))
         /\ Matches(Document(4, e), Present(d)) \/ Matches(Document(4, w), Present(d))
<1> DEFINE b == Document(4, e)
           q == Document(4, w)
           m == Present(d)
<1>1. b # None /\ b.schema = 4 /\ b.plugins = e /\ q # None /\ q.schema = 4 /\ q.plugins = w
  BY DocumentIs
<1>2. Matches(b, m) => Shown(e, e, d) = m
  BY MatchedShown
<1>3. Matches(q, m) => Shown(w, w, d) = m
  BY MatchedShown
<1> HIDE DEF b, q
<1>4. Adopted(b, m) = e /\ Adopted(q, m) = w
  BY <1>1 DEF Adopted
<1>5. Matches(b, m) \/ Matches(q, m)
  BY <1>1 DEF StartOf, b, q
<1>6. CASE Matches(q, m)
  <2>1. StartOf(b, q, d) = Routes(Shown(w, w, d))
    BY <1>1, <1>4, <1>6 DEF StartOf, Shown
  <2> QED BY <1>3, <1>6, <2>1 DEF b, q
<1>7. CASE ~Matches(q, m) /\ Matches(b, m)
  <2>1. StartOf(b, q, d) = Routes(Shown(e, e, d))
    BY <1>1, <1>4, <1>7 DEF StartOf, Shown
  <2> QED BY <1>2, <1>7, <2>1 DEF b, q
<1> QED BY <1>5, <1>6, <1>7

\* The contents of the record a command wrote.
WrittenFits(A, w, e) ==
  \A p \in DOMAIN Installed(w) :
    LET c == w[p].content IN
    /\ c.kind = "signed" /\ p \in DOMAIN e => e[p].content.kind = "signed" /\ Compatible(e[p].content, c)
    /\ c.kind = "mapping" => (p \in DOMAIN e /\ e[p].content = c) \/ <<p, c>> \in A

LEMMA WrittenIs ==
  WrittenNow <=>
    /\ pending # None /\ base = Document(4, entries)
    /\ task.expect = Routes(Shown(entries, entries, Before))
    /\ WrittenFits(approved, pending.plugins, entries)
BY DEF WrittenNow, WrittenFits, StartWithout, Shown, Blocked

LEMMA WrittenMore == \A A, B, w, e : A \subseteq B /\ WrittenFits(A, w, e) => WrittenFits(B, w, e)
BY DEF WrittenFits

\* AnswersFit, part by part.
ExpectKept == pc = "plan" \/ Unprepared => task.expect = StartOf(base, pending, Before)
ExpectUndone ==
  pc \in {"undo", "abort"} /\ ~task.prepared => task.expect = StartOf(base, pending, Before) \/ WrittenNow
WrittenStill == task.prepared /\ pc \notin {"promote", "forget"} => WrittenNow
GoalTaken ==
  task.prepared => \A p \in Members :
    task.goal[p] # None => p \in DOMAIN task.candidates /\ task.candidates[p] = task.goal[p]
GoalApproved ==
  Unprepared =>
    /\ \A p \in Members : task.goal[p] \in Mapping => <<p, task.goal[p]>> \in approved
    /\ task.kind = "reload" => \A p \in DOMAIN task.candidates :
         task.candidates[p] \in Mapping => <<p, task.candidates[p]>> \in approved
AnswerParts == ExpectKept /\ ExpectUndone /\ WrittenStill /\ GoalTaken /\ GoalApproved

LEMMA AnswersAre == AnswersFit <=> ("outside" \notin blame => AnswerParts)
<1>1. StartFrom(Before) = StartOf(base, pending, Before)
  BY StartIs
<1> QED BY <1>1 DEF AnswersFit, AnswerParts, ExpectKept, ExpectUndone, WrittenStill, GoalTaken, GoalApproved

LEMMA AnswersNext == AnswersFit' <=> ("outside" \notin blame => AnswerParts)'
BY AnswersAre, PTL

\* What is recorded was accepted before or is confirmed now.
LEMMA RecordedFits ==
  ASSUME Preparing, ApprovalFits, ContractsFit, GoalApproved
  PROVE  WrittenFits(approved, NextDocument.plugins, entries)
<1> DEFINE n == NextDocument.plugins
<1>1. /\ Basis /\ DirectoriesFit /\ pc = "prepare" /\ Preparable /\ waiting = None /\ Undisturbed
      /\ disk \in [Plugin -> Content \cup {None}] /\ entries \in Entries
  BY DEF Preparing, Basis, TypeOK
<1>2. ~task.prepared /\ task.kind \in {"install", "save", "cases", "reload", "uninstall", "delete", "import"}
  BY <1>1, StandsIs DEF Stands, Basis
<1>3. Unprepared /\ Working
  BY <1>1, <1>2 DEF Unprepared, Working, Closed
<1>4. /\ Recorded \in Partial(Plugin, Known) /\ Recorded \in Partial(Plugin, Content)
      /\ \A p \in DOMAIN Recorded : p \in Plugin /\ With(disk, task.goal)[p] = Recorded[p] /\ Recorded[p] # None
      /\ \A p \in Members : task.goal[p] # None => p \in DOMAIN Recorded /\ Recorded[p] = task.goal[p]
      /\ \A p \in DOMAIN Recorded : p \notin Members /\ task.kind \notin {"import", "reload"} =>
           p \in DOMAIN Inspected /\ Recorded[p] = Inspected[p]
      /\ task.kind \in {"install", "save", "cases"} => Recorded = With(Inspected, task.goal)
      /\ task.kind \in {"uninstall", "delete"} => Recorded = Inspected
      /\ task.kind \in {"import", "reload"} => Recorded = Present(disk)
  BY PreparedContents
<1>5. Installed(n) = Recorded /\ n \in Entries /\ \A p \in DOMAIN Recorded : n[p].content = Recorded[p]
  BY <1>1, NextInstalled, PrepareDoes
<1>6. Inspected = Shown(entries, entries, disk)
  BY <1>1, InspectedIsShown DEF AcceptedMappings
<1> HIDE DEF n
<1>7. /\ \A p \in DOMAIN Inspected : Inspected[p] = disk[p] /\ p \in Plugin
      /\ \A p \in DOMAIN Inspected :
           /\ disk[p].kind = "signed" /\ p \in DOMAIN entries =>
                entries[p].content.kind = "signed" /\ Compatible(entries[p].content, disk[p])
           /\ disk[p].kind = "mapping" => p \in DOMAIN entries /\ entries[p].content = disk[p]
  BY <1>1, <1>6, ShownIs
\* The candidates that were checked are what is recorded.
<1>8. task.kind \notin {"uninstall", "delete"} =>
        \A p \in DOMAIN Recorded : p \in DOMAIN task.candidates /\ task.candidates[p] = Recorded[p]
  <2>1. CASE task.kind \in {"install", "save", "cases"}
    BY <1>1, <1>3, <1>4, <2>1 DEF DirectoriesFit
  <2>2. CASE task.kind = "reload"
    BY <1>1, <1>3, <1>4, <2>2 DEF DirectoriesFit
  <2>3. CASE task.kind = "import"
    <3>1. task.candidates = task.goal /\ DOMAIN task.goal = Plugin
      BY <1>1, <1>3, <2>3 DEF ApprovalFits, Basis, GoalFits
    <3>2. \A p \in DOMAIN task.goal : With(disk, task.goal)[p] = task.goal[p]
      BY DEF With
    <3> QED BY <1>4, <3>1, <3>2
  <2> QED BY <1>2, <2>1, <2>2, <2>3
<1>9. ASSUME NEW p \in DOMAIN Recorded, Recorded[p].kind = "signed", p \in DOMAIN entries
      PROVE  entries[p].content.kind = "signed" /\ Compatible(entries[p].content, Recorded[p])
  <2>1. CASE task.kind \in {"uninstall", "delete"}
    BY <1>4, <1>7, <1>9, <2>1
  <2>2. CASE task.kind \notin {"uninstall", "delete"}
    <3>1. Breaking(entries, task.candidates) = {} /\ task.candidates \in Partial(Plugin, Known)
      BY <1>1, <1>3, <2>2, TypesAre DEF ContractsFit, Basis
    <3>2. p \in DOMAIN task.candidates /\ task.candidates[p] = Recorded[p]
      BY <1>8, <2>2
    <3>3. ~(/\ p \in DOMAIN task.candidates /\ p \in DOMAIN entries /\ task.candidates[p].kind = "signed"
            /\ entries[p].content.kind = "signed" => ~Compatible(entries[p].content, task.candidates[p]))
      BY <1>1, <3>1, BlockedIs
    <3> QED BY <1>9, <3>2, <3>3
  <2> QED BY <2>1, <2>2
<1>10. ASSUME NEW p \in DOMAIN Recorded, Recorded[p].kind = "mapping"
       PROVE  (p \in DOMAIN entries /\ entries[p].content = Recorded[p]) \/ <<p, Recorded[p]>> \in approved
  <2>1. Recorded[p] \in Mapping
    BY <1>4, <1>10, PartialIs, KnownIs
  <2>2. CASE p \in Members
    <3>1. task.goal[p] = Recorded[p]
      <4>1. With(disk, task.goal)[p] = task.goal[p]
        BY <2>2 DEF With, Members
      <4> QED BY <1>4, <4>1
    <3> QED BY <1>3, <2>1, <2>2, <3>1 DEF GoalApproved
  <2>3. CASE p \notin Members /\ task.kind \notin {"import", "reload"}
    <3>1. p \in DOMAIN Inspected /\ Recorded[p] = disk[p]
      BY <1>4, <1>7, <2>3
    <3> QED BY <1>7, <1>10, <3>1
  <2>4. CASE task.kind = "reload"
    BY <1>3, <1>8, <2>1, <2>4 DEF GoalApproved
  <2>5. CASE task.kind = "import"
    <3>1. p \in Members
      BY <1>1, <1>4, <2>5 DEF Basis, GoalFits, Members
    <3> QED BY <2>2, <3>1
  <2> QED BY <2>2, <2>3, <2>4, <2>5
<1>11. WrittenFits(approved, n, entries)
  BY <1>5, <1>9, <1>10 DEF WrittenFits
<1> QED BY <1>11 DEF n

LEMMA WrittenNext ==
  (WrittenNow <=>
    /\ pending # None /\ base = Document(4, entries)
    /\ task.expect = Routes(Shown(entries, entries, Before))
    /\ WrittenFits(approved, pending.plugins, entries))'
BY WrittenIs, PTL

LEMMA WrittenStays ==
  ASSUME WrittenNow, UNCHANGED <<base, pending, entries>>, task'.expect = task.expect, Before' = Before,
         approved \subseteq approved'
  PROVE  WrittenNow'
<1>1. /\ pending # None /\ base = Document(4, entries)
      /\ task.expect = Routes(Shown(entries, entries, Before))
      /\ WrittenFits(approved, pending.plugins, entries)
  BY WrittenIs
<1>2. WrittenFits(approved', pending.plugins, entries)
  BY <1>1, WrittenMore
<1>3. /\ pending' # None /\ base' = Document(4, entries')
      /\ task'.expect = Routes(Shown(entries', entries', Before'))
      /\ WrittenFits(approved', pending'.plugins, entries')
  BY <1>1, <1>2
<1> QED BY <1>3, WrittenNext

LEMMA NowWritten ==
  ASSUME Preparing, pending = None, ApprovalFits, ContractsFit, GoalApproved, ExpectKept,
         pending' = NextDocument, UNCHANGED <<base, entries, approved>>, task'.expect = task.expect, Before' = Before
  PROVE  WrittenNow'
<1>1. Basis /\ pc = "prepare" /\ Preparable /\ waiting = None
  BY DEF Preparing
<1>2. base = Document(4, entries) /\ entries \in Entries /\ NextDocument # None
  BY <1>1, BaseIs, PrepareDoes DEF Closed
<1>3. task.expect = StartOf(base, pending, Before)
  BY <1>1, StandsIs DEF ExpectKept, Unprepared, Stands, Basis
<1>4. task.expect = Routes(Shown(entries, entries, Before))
  BY <1>2, <1>3, StartSingle
<1>5. WrittenFits(approved, NextDocument.plugins, entries)
  BY RecordedFits
<1>6. /\ pending' # None /\ base' = Document(4, entries')
      /\ task'.expect = Routes(Shown(entries', entries', Before'))
      /\ WrittenFits(approved', pending'.plugins, entries')
  BY <1>2, <1>4, <1>5
<1> QED BY <1>6, WrittenNext

LEMMA MovingKeeps ==
  ASSUME Basis, EditStands, Moving
  PROVE  /\ UNCHANGED <<base, approved>> /\ task'.expect = task.expect
         /\ pending' = pending \/ PrepareFails
         /\ Before' = Before \/ (Commit /\ Advance)
         /\ blame \subseteq blame'
<1>0. CommandNext
  BY DEF Moving, CommandNext
<1>1. UNCHANGED <<base, approved>>
  BY DEF Moving, Recover, Begin, Activate, Verify, Commit, PrepareFails, ActivateFails, SwitchFails, CommitFails, files, history
<1>2. pending' = pending \/ PrepareFails
  BY DEF Moving, Recover, Begin, Activate, Verify, Commit, ActivateFails, SwitchFails, CommitFails, files
<1>3. task'.expect = task.expect
  <2>1. CASE Recover BY <2>1 DEF Recover
  <2>2. CASE Begin BY <2>2, BeginDoes
  <2>3. CASE Activate BY <2>3, ActivateDoes
  <2>4. CASE (Verify \/ Commit) /\ Advance
    <3>1. Advance /\ pc \in {"verify", "commit"}
      BY <2>4 DEF Verify, Commit
    <3> QED BY <3>1, AdvanceDoes
  <2>5. CASE PrepareFails BY <2>5, PrepareFailsDoes
  <2>6. CASE ActivateFails \/ SwitchFails \/ CommitFails \/ (Verify /\ Undo)
    BY <2>6 DEF ActivateFails, SwitchFails, CommitFails, Undo
  <2> QED BY <2>1, <2>2, <2>3, <2>4, <2>5, <2>6 DEF Moving
<1>4. /\ task'.prepared = task.prepared /\ pc # "undo" /\ pc' # "down"
      /\ pc # "idle" /\ pc \notin {"down", "refused"}
  BY MovingDoes DEF Moves
<1>5. ~Prepare
  <2>1. ASSUME Prepare PROVE FALSE
    <3>1. task'.prepared = TRUE /\ pc = "prepare"
      BY <2>1, PreparedTask
    <3>2. ~task.prepared
      BY <3>1, StandsIs DEF Stands, Basis
    <3> QED BY <1>4, <3>1, <3>2
  <2> QED BY <2>1
<1>6. ~RollBack /\ ~Crash /\ ~PlanNext
  BY <1>4, PlanKeeps DEF RollBack, Crash, Basis
<1>7. \A p \in Plugin, c \in Content \cup {None} : ~ChangeOutside(p, c)
  <2>1. outside' = outside /\ outside \in Nat
    BY MovingDoes DEF Basis, TypeOK
  <2> QED BY <2>1 DEF ChangeOutside
<1>8. Before' = Before \/ (Commit /\ Advance)
  BY <1>0, <1>5, <1>6, <1>7, BeforeStays DEF Next
<1>9. blame \subseteq blame'
  BY <1>0, <1>6, RacedStays DEF Next
<1> QED BY <1>1, <1>2, <1>3, <1>8, <1>9

LEMMA MovingAnswers ==
  ASSUME Basis, DirectoriesFit, ApprovalFits, ContractsFit, EditStands, AnswerParts, "outside" \notin blame', Moving
  PROVE  AnswerParts'
<1>1. /\ Moves /\ UNCHANGED <<entries, waiting, base, approved>>
      /\ task'.kind = task.kind /\ task'.goal = task.goal /\ task'.expect = task.expect
      /\ task'.candidates = task.candidates /\ task'.prepared = task.prepared
      /\ pending' = pending \/ PrepareFails
      /\ Before' = Before \/ (Commit /\ Advance)
  BY MovingDoes, MovingKeeps
<1>2. StepsFit /\ Undisturbed
  BY MovingKeeps DEF Basis, Undisturbed
<1>3. (Commit /\ Advance => pc' = "promote" /\ pc = "commit") /\ (PrepareFails => pc' = "undo" /\ pc = "prepare")
  BY AdvanceDoes DEF Commit, PrepareFails, Undo
<1>4. (Unprepared' => Unprepared) /\ (pc' = "plan" => pc = "plan")
  BY <1>1 DEF Moves, Unprepared
<1>5. pc = "prepare" => ~task.prepared
  BY <1>2, StandsIs DEF Stands
<1>6. pc \in {"switch", "verify", "commit"} => task.prepared
  BY <1>2, StandsIs DEF Stands
<1>7. ExpectKept'
  <2> SUFFICES ASSUME pc' = "plan" \/ Unprepared' PROVE (task.expect = StartOf(base, pending, Before))'
    BY DEF ExpectKept
  <2>1. task.expect = StartOf(base, pending, Before)
    BY <1>4 DEF AnswerParts, ExpectKept
  <2>2. pending' = pending /\ Before' = Before
    BY <1>1, <1>3 DEF Unprepared
  <2> QED BY <1>1, <2>1, <2>2
<1>8. ExpectUndone'
  <2> SUFFICES ASSUME pc' \in {"undo", "abort"}, ~task.prepared
               PROVE  (task.expect = StartOf(base, pending, Before) \/ WrittenNow)'
    BY <1>1 DEF ExpectUndone
  <2>1. Unprepared /\ Before' = Before
    BY <1>1, <1>3, <1>6 DEF Moves, Unprepared
  <2>2. task.expect = StartOf(base, pending, Before)
    BY <2>1 DEF AnswerParts, ExpectKept
  <2>3. CASE pending' = pending
    BY <1>1, <2>1, <2>2, <2>3
  <2>4. CASE pending' # pending
    <3>1. waiting = None /\ pending = None /\ Preparable /\ pending' = NextDocument /\ pc = "prepare"
      BY <1>1, <2>4, PrepareFailsDoes
    <3>2. Preparing
      BY <1>2, <3>1 DEF Preparing
    <3>3. WrittenNow'
      BY <1>1, <2>1, <3>1, <3>2, NowWritten DEF AnswerParts
    <3> QED BY <3>3
  <2> QED BY <2>3, <2>4
<1>9. WrittenStill'
  <2> SUFFICES ASSUME task.prepared, pc' \notin {"promote", "forget"} PROVE WrittenNow'
    BY <1>1 DEF WrittenStill
  <2>1. pc \notin {"promote", "forget"} /\ pending' = pending /\ Before' = Before
    BY <1>1, <1>3, <1>5 DEF Moves
  <2>2. WrittenNow
    BY <2>1 DEF AnswerParts, WrittenStill
  <2> QED BY <1>1, <2>1, <2>2, WrittenStays
<1>10. Members' = Members
  BY <1>1, SameGoal
<1>11. GoalTaken' /\ GoalApproved'
  BY <1>1, <1>4, <1>10 DEF AnswerParts, GoalTaken, GoalApproved
<1> QED BY <1>7, <1>8, <1>9, <1>11 DEF AnswerParts

LEMMA CheckAnswers ==
  ASSUME Basis, Basis', AnswerParts, Check
  PROVE  AnswerParts'
<1>1. /\ pc = "plan" /\ pc' = "begin" /\ task'.kind = task.kind /\ task'.goal = task.goal /\ task'.expect = task.expect
      /\ task.kind = "reload" => task'.candidates = Present(disk)
      /\ approved' = approved \cup Confirmed
      /\ UNCHANGED <<disk, txn, base, pending>>
  BY CheckDoes DEF files
<1>2. ~task'.prepared
  BY <1>1 DEF Basis, StepsFit
<1>3. ExpectKept'
  <2>1. Before' = Restored /\ Before = Restored
    BY <1>1, BeforeIs, BeforeNext, RestoredStays
  <2>2. task.expect = StartOf(base, pending, Before)
    BY <1>1 DEF AnswerParts, ExpectKept
  <2> QED BY <1>1, <2>1, <2>2 DEF ExpectKept
<1>4. ExpectUndone' /\ WrittenStill' /\ GoalTaken'
  BY <1>1, <1>2 DEF ExpectUndone, WrittenStill, GoalTaken
<1>5. \A p, c : <<p, c>> \in Confirmed <=>
        /\ p \in Plugin /\ c \in Mapping
        /\ \/ task.kind = "reload" /\ disk[p] = c
           \/ task.kind # "reload" /\ p \in Members /\ task.goal[p] = c
  BY ConfirmedIs
<1>6. Members' = Members /\ Members \subseteq Plugin /\ disk \in [Plugin -> Content \cup {None}]
  BY <1>1, SameGoal, TypesAre DEF Members, Basis, TypeOK
<1>7. ASSUME NEW p \in Members, task.goal[p] \in Mapping PROVE <<p, task.goal[p]>> \in approved'
  <2>1. task.kind # "reload"
    <3>1. task.kind = "reload" => Members = {}
      BY DEF Basis, GoalFits, Members
    <3> QED BY <1>7, <3>1
  <2> QED BY <1>1, <1>5, <1>6, <1>7, <2>1
<1>8. ASSUME task.kind = "reload", NEW p \in DOMAIN task'.candidates, task'.candidates[p] \in Mapping
      PROVE  <<p, task'.candidates[p]>> \in approved'
  <2>1. p \in Plugin /\ task'.candidates[p] = disk[p]
    BY <1>1, <1>6, <1>8, PresentIs
  <2> QED BY <1>1, <1>5, <1>8, <2>1
<1>9. GoalApproved'
  BY <1>1, <1>6, <1>7, <1>8 DEF GoalApproved
<1> QED BY <1>3, <1>4, <1>9 DEF AnswerParts

LEMMA PrepareAnswers ==
  ASSUME Basis, DirectoriesFit, ApprovalFits, ContractsFit, EditStands, AnswerParts, "outside" \notin blame', Prepare
  PROVE  AnswerParts'
<1>1. /\ task'.kind = task.kind /\ task'.goal = task.goal /\ task'.candidates = Recorded /\ task'.expect = task.expect
      /\ task'.prepared = TRUE /\ pc = "prepare" /\ pending = None
      /\ pending' = NextDocument /\ pc' \in {"activate", "switch", "promote"}
      /\ task.kind = "cases" => pc' = "promote"
      /\ UNCHANGED <<entries, base, approved, outside>>
  BY PreparedTask
<1>2. Preparing
  <2>1. CommandNext /\ ~PlanNext
    BY <1>1, PlanKeeps DEF CommandNext, Basis
  <2>2. Undisturbed
    BY <2>1, RacedStays DEF Next, Undisturbed
  <2> QED BY <2>2, ThenPreparing
<1>3. Members' = Members
  BY <1>1, SameGoal
<1>4. GoalTaken'
  <2>1. \A p \in Members : task.goal[p] # None => p \in DOMAIN Recorded /\ Recorded[p] = task.goal[p]
    BY <1>2, PreparedContents
  <2> QED BY <1>1, <1>3, <2>1 DEF GoalTaken
<1>5. WrittenStill'
  <2> SUFFICES ASSUME pc' # "promote" PROVE WrittenNow'
    BY DEF WrittenStill
  <2>1. ~(Commit /\ Advance) /\ ~RollBack /\ ~Crash
    BY <1>1 DEF Commit, RollBack, Crash
  <2>2. \A p \in Plugin, c \in Content \cup {None} : ~ChangeOutside(p, c)
    BY <1>1 DEF ChangeOutside, Basis, TypeOK
  <2>3. Before' = Before
    BY <1>1, <2>1, <2>2, BeforeStays DEF Next, CommandNext
  <2> QED BY <1>1, <1>2, <2>3, NowWritten DEF AnswerParts
<1>6. ExpectKept' /\ ExpectUndone' /\ GoalApproved'
  BY <1>1 DEF ExpectKept, ExpectUndone, GoalApproved, Unprepared
<1> QED BY <1>4, <1>5, <1>6 DEF AnswerParts

LEMMA LaterAnswers ==
  ASSUME Basis, EditStands, AnswerParts, "outside" \notin blame', Switch \/ RollBack \/ RollBackFails \/ Promote
  PROVE  AnswerParts'
<1>1. /\ task'.goal = task.goal /\ task'.candidates = task.candidates /\ task'.expect = task.expect
      /\ task'.prepared = task.prepared
      /\ UNCHANGED <<pending, approved, outside, blame>>
      /\ \/ pc = "switch" /\ pc' \in {"verify", "commit"} /\ task.prepared
         \/ pc = "undo" /\ pc' = "abort"
         \/ pc = "promote" /\ pc' = "forget"
      /\ pc # "promote" => UNCHANGED <<base, entries>>
  <2>1. CASE Switch
    <3>1. Advance /\ pc = "switch" /\ UNCHANGED <<base, entries, pending, approved, outside, blame>>
      BY <2>1 DEF Switch, files, bounds, history
    <3> QED BY <3>1, AdvanceDoes
  <2>2. CASE RollBack \/ RollBackFails
    BY <2>2 DEF RollBack, RollBackFails, Fault, bounds, history, files
  <2>3. CASE Promote
    BY <2>3 DEF Promote, bounds, history
  <2> QED BY <2>1, <2>2, <2>3
<1>2. Members' = Members
  BY <1>1, SameGoal
<1>3. GoalTaken'
  BY <1>1, <1>2 DEF AnswerParts, GoalTaken
<1>4. ExpectKept' /\ GoalApproved'
  BY <1>1 DEF ExpectKept, GoalApproved, Unprepared
<1>5. CASE pc = "promote"
  BY <1>1, <1>3, <1>4, <1>5 DEF AnswerParts, ExpectUndone, WrittenStill
<1>6. CASE pc # "promote"
  <2>1. Before' = Before
    <3>1. ~(Commit /\ Advance) /\ ~Prepare /\ ~Crash /\ Undisturbed
      BY <1>1, <1>6 DEF Commit, Prepare, Crash, Undisturbed
    <3>2. \A p \in Plugin, c \in Content \cup {None} : ~ChangeOutside(p, c)
      BY <1>1 DEF ChangeOutside, Basis, TypeOK
    <3> QED BY <3>1, <3>2, BeforeStays DEF Next, CommandNext
  <2>2. WrittenNow => WrittenNow'
    BY <1>1, <1>6, <2>1, WrittenStays
  <2>3. WrittenStill'
    BY <1>1, <1>6, <2>2 DEF AnswerParts, WrittenStill
  <2>4. ExpectUndone'
    <3> SUFFICES ASSUME pc' \in {"undo", "abort"}, ~task.prepared
                 PROVE  (task.expect = StartOf(base, pending, Before) \/ WrittenNow)'
      BY <1>1 DEF ExpectUndone
    <3>1. task.expect = StartOf(base, pending, Before) \/ WrittenNow
      BY <1>1 DEF AnswerParts, ExpectUndone
    <3> QED BY <1>1, <1>6, <2>1, <2>2, <3>1
  <2> QED BY <1>3, <1>4, <2>3, <2>4 DEF AnswerParts
<1> QED BY <1>5, <1>6

LEMMA AnswerStep ==
  ASSUME Basis, DirectoriesFit, ApprovalFits, ContractsFit, DecisionsFit, AnswersFit, [Next]_vars
  PROVE  AnswersFit'
<1> SUFFICES ASSUME "outside" \notin blame' PROVE AnswerParts'
  BY AnswersNext
<1>1. Basis' /\ EditStands /\ (~PlanNext => AnswerParts)
  BY BasisStep, RacedStays, AnswersAre DEF DecisionsFit
<1>2. ASSUME pc' \in {"down", "refused", "open", "forget pending", "review", "idle"} PROVE AnswerParts'
  <2>1. ~task'.prepared
    BY <1>1, <1>2 DEF Basis, StepsFit, Working, Closed
  <2> QED BY <1>2, <2>1 DEF AnswerParts, ExpectKept, ExpectUndone, WrittenStill, GoalTaken, GoalApproved, Unprepared
<1>3. CASE StartupNext
  BY <1>2, <1>3 DEF StartupNext, Startup, OpenWithoutBaseline, AdoptPending, Refuse, ForgetPending, Review, StartupFails
<1>4. CASE PlanNext
  <2>1. /\ pc = "idle" /\ pc' = "plan" /\ task'.prepared = FALSE /\ task'.expect = NextStart
        /\ UNCHANGED <<disk, txn, base, pending>>
    BY <1>4, PlanKeeps DEF Basis, files
  <2>2. Before' = Restored
    BY <2>1, BeforeNext, RestoredStays
  <2>3. task'.expect = StartOf(base, pending, Restored)
    BY <2>1, StartIs
  <2>4. ExpectKept'
    BY <2>1, <2>2, <2>3 DEF ExpectKept
  <2> QED BY <2>1, <2>4 DEF AnswerParts, ExpectUndone, WrittenStill, GoalTaken, GoalApproved, Unprepared
<1>5. CASE CommandNext
  <2>0. AnswerParts
    <3>1. ~PlanNext
      <4>1. pc # "idle"
        BY <1>5 DEF CommandNext, Check, Recover, Decline, Begin, Prepare, PrepareFails, Activate, ActivateFails,
       Switch, SwitchFails, Verify, Commit, CommitFails, Promote, Forget, PromoteFails, RollBack,
       RollBackFails, Abort, AbortFails
      <4> QED BY <4>1, PlanKeeps DEF Basis
    <3> QED BY <1>1, <3>1
  <2>1. CASE Check BY <1>1, <2>0, <2>1, CheckAnswers
  <2>2. CASE Prepare BY <1>1, <2>0, <2>2, PrepareAnswers
  <2>3. CASE Moving BY <1>1, <2>0, <2>3, MovingAnswers
  <2>4. CASE Switch \/ RollBack \/ RollBackFails \/ Promote BY <1>1, <2>0, <2>4, LaterAnswers
  <2>5. CASE Forget \/ PromoteFails \/ Decline \/ Abort \/ AbortFails
    BY <1>2, <2>5 DEF Forget, PromoteFails, Decline, Abort, AbortFails, Answer
  <2> QED BY <1>5, <2>1, <2>2, <2>3, <2>4, <2>5, CommandMoves
<1>6. CASE (\E p \in Plugin, c \in Content \cup {None} : ChangeOutside(p, c)) \/ LoseBaseline
  BY <1>6 DEF ChangeOutside, LoseBaseline
<1>7. CASE Crash
  BY <1>2, <1>7 DEF Crash
<1>8. CASE UNCHANGED vars
  <2>1. UNCHANGED <<disk, txn, base, pending, entries, approved, task, pc, blame>>
    BY <1>8 DEF vars, files, memory, history
  <2>2. Before' = Before /\ Members' = Members
    BY <2>1, SameGoal DEF Before, Restored
  <2>3. AnswerParts
    BY <2>1, AnswersAre
  <2>4. WrittenNow => WrittenNow'
    BY <2>1, <2>2, WrittenStays
  <2>5. ExpectKept' /\ ExpectUndone'
    BY <2>1, <2>2, <2>3, <2>4 DEF AnswerParts, ExpectKept, ExpectUndone, Unprepared
  <2>6. WrittenStill' /\ GoalTaken' /\ GoalApproved'
    BY <2>1, <2>2, <2>3, <2>4 DEF AnswerParts, WrittenStill, GoalTaken, GoalApproved, Unprepared
  <2> QED BY <2>5, <2>6 DEF AnswerParts
<1> QED BY <1>3, <1>4, <1>5, <1>6, <1>7, <1>8 DEF Next

LEMMA AnswerInit == Init => AnswersFit
<1> SUFFICES ASSUME Init PROVE AnswersFit
  OBVIOUS
<1>1. pc = "down" /\ task = NoTask
  BY DEF Init
<1> QED BY <1>1, NoTaskIs DEF AnswersFit, Unprepared

(***************************************************************************)
(* The answers are true.                                                   *)
(***************************************************************************)

RouteAt(s, p) == IF p \in DOMAIN s THEN s[p] ELSE None

\* Everything the command was asked for is in service from the next start.
SuccessIs(s) ==
  /\ \A p \in Members : RouteAt(s, p) = RouteOrNone(task.goal[p])
  /\ task.kind = "reload" => s = served

\* The next start serves what it would have served without the command.
FailureIs(s) ==
  task.expect # None =>
    \A p \in Plugin :
      RouteAt(s, p) = RouteAt(task.expect, p) \/ (pending # None /\ <<p, Restored[p]>> \in approved)

Reports ==
  LET s == StartOf(base, pending, Restored) IN
  pc = "idle" /\ "outside" \notin blame /\ s # None =>
    /\ task.answer = "ok" => SuccessIs(s)
    /\ task.answer = "failed" => FailureIs(s)

LEMMA ReportsAre == ReportsAreTrue <=> Reports
<1>1. NextStart = StartOf(base, pending, Restored)
  BY StartIs
<1>2. \A p : ServedNext(p) = RouteAt(StartOf(base, pending, Restored), p)
  BY <1>1 DEF ServedNext, RouteAt
<1> DEFINE s == StartOf(base, pending, Restored)
<1>3. (/\ \A p \in Members : ServedNext(p) = RouteOrNone(task.goal[p])
       /\ task.kind = "reload" => NextStart = served) <=> SuccessIs(s)
  BY <1>1, <1>2 DEF SuccessIs
<1>4. (task.expect # None =>
         \A p \in Plugin :
           \/ ServedNext(p) = IF p \in DOMAIN task.expect THEN task.expect[p] ELSE None
           \/ pending # None /\ <<p, Restored[p]>> \in approved) <=> FailureIs(s)
  BY <1>2 DEF FailureIs, RouteAt
<1> HIDE DEF s
<1>5. NextStart = s
  BY <1>1 DEF s
<1>6. ReportsAreTrue <=>
        (pc = "idle" /\ "outside" \notin blame /\ s # None =>
           /\ task.answer = "ok" => SuccessIs(s)
           /\ task.answer = "failed" => FailureIs(s))
  BY <1>3, <1>4, <1>5 DEF ReportsAreTrue
<1> QED BY <1>6 DEF Reports, s

LEMMA ReportsNext == ReportsAreTrue' <=> Reports'
BY ReportsAre, PTL

\* What the next start finds of a command that succeeded.
LEMMA SuccessFound ==
  ASSUME Basis, DirectoriesFit, RouteParts, AnswerParts, "outside" \notin blame, pc \in {"promote", "forget"},
         NEW m \in Partial(Plugin, Content),
         \A p \in DOMAIN m : p \in Plugin /\ disk[p] # None /\ m[p] = disk[p],
         \A p \in DOMAIN task.candidates : disk[p] = task.candidates[p] => p \in DOMAIN m
  PROVE  SuccessIs(Routes(m))
<1>1. /\ task.prepared /\ Undisturbed /\ task.candidates \in Partial(Plugin, Content)
      /\ disk \in [Plugin -> Content \cup {None}]
  BY TypesAre DEF Basis, StepsFit, Undisturbed, TypeOK
<1>2. m \in Partial(Plugin, Known)
  BY ContentsKnown
<1>3. /\ DOMAIN Routes(m) = DOMAIN m
      /\ \A p \in DOMAIN m : Routes(m)[p] = Route(m[p])
  BY <1>2, RoutesIs
<1>4. ASSUME NEW p \in Members PROVE RouteAt(Routes(m), p) = RouteOrNone(task.goal[p])
  <2>1. disk[p] = task.goal[p]
    BY <1>1 DEF DirectoriesFit
  <2>2. CASE task.goal[p] = None
    <3>1. p \notin DOMAIN m
      BY <2>1, <2>2
    <3> QED BY <1>3, <2>2, <3>1 DEF RouteAt, RouteOrNone
  <2>3. CASE task.goal[p] # None
    <3>1. p \in DOMAIN task.candidates /\ task.candidates[p] = task.goal[p]
      BY <1>1, <2>3 DEF AnswerParts, GoalTaken
    <3>2. p \in DOMAIN m /\ m[p] = task.goal[p]
      BY <2>1, <3>1
    <3> QED BY <1>3, <2>3, <3>2 DEF RouteAt, RouteOrNone
  <2> QED BY <2>2, <2>3
<1>5. ASSUME task.kind = "reload" PROVE Routes(m) = served
  <2>1. task.candidates = Present(disk) /\ served = Routes(task.candidates)
    BY <1>1, <1>5 DEF DirectoriesFit, Working, Closed, RouteParts, ReloadServed
  <2>2. /\ DOMAIN task.candidates = {p \in Plugin : disk[p] # None}
        /\ \A p \in DOMAIN task.candidates : task.candidates[p] = disk[p]
    <3>1. /\ DOMAIN Present(disk) = {p \in Plugin : disk[p] # None}
          /\ \A p \in DOMAIN Present(disk) : Present(disk)[p] = disk[p]
      BY <1>1, PresentIs
    <3> QED BY <2>1, <3>1
  <2>3. DOMAIN m = DOMAIN task.candidates
    <3>1. \A p \in DOMAIN m : p \in DOMAIN task.candidates
      BY <2>2
    <3>2. \A p \in DOMAIN task.candidates : p \in DOMAIN m
      BY <2>2
    <3> QED BY <3>1, <3>2
  <2>4. \A p \in DOMAIN m : m[p] = task.candidates[p]
    BY <2>2, <2>3
  <2>5. m = task.candidates
    BY <1>1, <2>3, <2>4, SameMap
  <2> QED BY <2>1, <2>5
<1> QED BY <1>4, <1>5 DEF SuccessIs

LEMMA ForgetReports ==
  ASSUME Basis, Basis', DirectoriesFit, RouteParts, AnswerParts, Forget
  PROVE  Reports'
<1>1. /\ pc = "forget" /\ pending' = None /\ blame' = blame /\ UNCHANGED <<disk, txn, base, entries, served>>
      /\ task'.answer = "ok" /\ task'.kind = task.kind /\ task'.goal = task.goal
  BY DEF Forget, Answer, NoTask
<1> SUFFICES ASSUME "outside" \notin blame PROVE SuccessIs(StartOf(base, None, Restored))'
  BY <1>1 DEF Reports
<1>2. /\ txn = None /\ base = Document(4, entries) /\ entries = waiting /\ task.prepared /\ entries \in Entries
      /\ disk \in [Plugin -> Content \cup {None}] /\ task.candidates \in Partial(Plugin, Content)
  BY <1>1, TypesAre DEF Basis, TransactionFits, MemoryFits, StepsFit, TypeOK
<1>3. Restored' = disk
  BY <1>1, <1>2, RestoredStays
<1> DEFINE m == Shown(entries, entries, disk)
<1>4. /\ m \in Partial(Plugin, Content)
      /\ \A p \in DOMAIN m : p \in Plugin /\ m[p] = disk[p] /\ disk[p] \in Content
      /\ \A p : p \in DOMAIN m <=>
              /\ p \in Plugin /\ disk[p] # None
              /\ disk[p].kind = "signed" /\ p \in DOMAIN entries =>
                   entries[p].content.kind = "signed" /\ Compatible(entries[p].content, disk[p])
              /\ disk[p].kind = "mapping" => p \in DOMAIN entries /\ entries[p].content = disk[p]
  BY <1>2, ShownIs
<1> HIDE DEF m
<1>5. \A p \in DOMAIN m : p \in Plugin /\ disk[p] # None /\ m[p] = disk[p]
  BY <1>4
<1>6. ASSUME NEW p \in DOMAIN task.candidates, disk[p] = task.candidates[p] PROVE p \in DOMAIN m
  <2>1. Installed(entries) = task.candidates
    BY <1>2 DEF RouteParts, InstalledNext
  <2>2. p \in DOMAIN entries /\ entries[p].content = disk[p]
    BY <1>2, <1>6, <2>1, InstalledIs
  <2>3. p \in Plugin /\ disk[p] \in Content /\ disk[p] \in Known /\ disk[p] # None
    BY <1>2, <1>6, PartialIs, KnownIs
  <2>4. disk[p].kind = "signed" => Compatible(disk[p], disk[p])
    BY <2>3, CompatibleIs
  <2> QED BY <1>4, <2>2, <2>3, <2>4
<1>7. SuccessIs(Routes(m))
  BY <1>1, <1>4, <1>5, <1>6, SuccessFound
<1>8. StartOf(base', None, Restored') = Routes(m)
  <2>1. StartOf(Document(4, entries), None, disk) = Routes(Shown(entries, entries, disk))
    BY <1>2, StartSingle
  <2> QED BY <1>1, <1>2, <1>3, <2>1 DEF m
<1>9. Members' = Members
  BY <1>1, SameGoal
<1> QED BY <1>1, <1>7, <1>8, <1>9 DEF SuccessIs

LEMMA PromoteFailsReports ==
  ASSUME Basis, DirectoriesFit, RouteParts, AnswerParts, PromoteFails
  PROVE  Reports'
<1>1. /\ pc \in {"promote", "forget"} /\ blame' = blame /\ UNCHANGED <<disk, txn, pending, entries, served>>
      /\ base' = base \/ base' = Document(4, waiting)
      /\ task'.answer = "ok" /\ task'.kind = task.kind /\ task'.goal = task.goal
  BY DEF PromoteFails, Answer, NoTask, memory, history
<1> DEFINE s == StartOf(base', pending', Restored')
<1> SUFFICES ASSUME "outside" \notin blame, s # None
             PROVE  /\ \A p \in Members' : RouteAt(s, p) = RouteOrNone(task'.goal[p])
                    /\ task'.kind = "reload" => s = served'
  BY <1>1 DEF Reports, SuccessIs
<1>2. /\ txn = None /\ task.prepared /\ waiting # None /\ waiting \in Entries /\ entries \in Entries
      /\ pending = Document(4, waiting) /\ base \in {Document(4, entries), Document(4, waiting)}
      /\ disk \in [Plugin -> Content \cup {None}] /\ task.candidates \in Partial(Plugin, Content)
  BY <1>1, TypesAre DEF Basis, TransactionFits, MemoryFits, StepsFit, TypeOK
<1>3. Restored' = disk
  BY <1>1, <1>2, RestoredStays
<1>4. PICK e \in Entries : base' = Document(4, e)
  BY <1>1, <1>2
<1>5. s = Routes(Present(disk))
  BY <1>1, <1>2, <1>3, <1>4, StartDecided
<1> HIDE DEF s
<1>6. /\ Present(disk) \in Partial(Plugin, Content)
      /\ DOMAIN Present(disk) = {p \in Plugin : disk[p] # None}
      /\ \A p \in DOMAIN Present(disk) : Present(disk)[p] = disk[p]
  BY <1>2, PresentIs
<1>7. ASSUME NEW p \in DOMAIN task.candidates, disk[p] = task.candidates[p] PROVE p \in DOMAIN Present(disk)
  <2>1. p \in Plugin /\ disk[p] # None
    BY <1>2, <1>7, PartialIs, KnownIs
  <2> QED BY <1>6, <2>1
<1>8. SuccessIs(Routes(Present(disk)))
  BY <1>1, <1>6, <1>7, SuccessFound
<1>9. Members' = Members
  BY <1>1, SameGoal
<1>10. SuccessIs(s)
  BY <1>5, <1>8
<1> QED BY <1>1, <1>9, <1>10 DEF SuccessIs

\* A record the command wrote changes the next start only where it was
\* confirmed.
LEMMA WrittenFound ==
  ASSUME Basis, WrittenNow, Before = Restored, NEW s, s = StartOf(base, pending, Restored), s # None
  PROVE  \A p \in Plugin : RouteAt(s, p) = RouteAt(task.expect, p) \/ <<p, Restored[p]>> \in approved
<1> DEFINE d == Restored
           w == pending.plugins
           m == Shown(entries, entries, d)
<1>1. /\ pending # None /\ base = Document(4, entries)
      /\ task.expect = Routes(m)
      /\ WrittenFits(approved, w, entries)
  BY WrittenIs
<1>2. /\ entries \in Entries /\ d \in [Plugin -> Content \cup {None}] /\ pending \in Documents /\ pending.schema = 4
  BY <1>1, TypesAre DEF Basis, TypeOK, MemoryFits
<1>3. w \in Entries /\ pending = Document(4, w)
  BY <1>2 DEF Documents, Document
<1>4. s = Routes(Present(d)) /\ (Matches(Document(4, entries), Present(d)) \/ Matches(Document(4, w), Present(d)))
  BY <1>1, <1>2, <1>3, StartDecided
<1>5. CASE Matches(Document(4, entries), Present(d))
  <2>1. m = Present(d)
    BY <1>2, <1>5, MatchedShown
  <2> QED BY <1>1, <1>4, <2>1
<1>6. CASE Matches(Document(4, w), Present(d))
  <2>1. /\ Present(d) \in Partial(Plugin, Content) /\ Present(d) \in Partial(Plugin, Known)
        /\ DOMAIN Present(d) = {p \in Plugin : d[p] # None}
        /\ \A p \in DOMAIN Present(d) : Present(d)[p] = d[p] /\ d[p] \in Known
    <3>1. Present(d) \in Partial(Plugin, Content)
      BY <1>2, PresentIs
    <3> QED BY <1>2, <3>1, PresentIs, ContentsKnown, KnownIs
  <2>2. /\ m \in Partial(Plugin, Content) /\ m \in Partial(Plugin, Known)
        /\ \A p \in DOMAIN m : m[p] = d[p]
        /\ \A p : p \in DOMAIN m <=>
              /\ p \in Plugin /\ d[p] # None
              /\ d[p].kind = "signed" /\ p \in DOMAIN entries =>
                   entries[p].content.kind = "signed" /\ Compatible(entries[p].content, d[p])
              /\ d[p].kind = "mapping" => p \in DOMAIN entries /\ entries[p].content = d[p]
    <3>1. m \in Partial(Plugin, Content)
      BY <1>2, ShownIs
    <3> QED BY <1>2, <3>1, ShownIs, ContentsKnown
  <2> HIDE DEF d, m, w
  <2>3. /\ DOMAIN Routes(Present(d)) = DOMAIN Present(d)
        /\ \A p \in DOMAIN Present(d) : Routes(Present(d))[p] = Route(Present(d)[p])
        /\ DOMAIN Routes(m) = DOMAIN m
        /\ \A p \in DOMAIN m : Routes(m)[p] = Route(m[p])
    BY <2>1, <2>2, RoutesIs
  <2>4. DOMAIN Present(d) = {p \in DOMAIN w : w[p].installed} /\ \A p \in DOMAIN Present(d) : w[p].content = Present(d)[p]
    BY <1>3, <1>6, <2>1, MatchesIs
  <2>5. ASSUME NEW p \in Plugin, <<p, d[p]>> \notin approved PROVE RouteAt(s, p) = RouteAt(task.expect, p)
    <3>1. CASE p \notin DOMAIN Present(d)
      BY <1>1, <1>4, <2>1, <2>2, <2>3, <3>1 DEF RouteAt
    <3>2. CASE p \in DOMAIN Present(d)
      <4>1. p \in DOMAIN Installed(w) /\ w[p].content = d[p]
        BY <1>3, <2>1, <2>4, <3>2, InstalledIs
      <4>2. /\ d[p].kind = "signed" /\ p \in DOMAIN entries =>
                 entries[p].content.kind = "signed" /\ Compatible(entries[p].content, d[p])
            /\ d[p].kind = "mapping" => p \in DOMAIN entries /\ entries[p].content = d[p]
        BY <1>1, <2>5, <4>1 DEF WrittenFits
      <4>3. p \in DOMAIN m
        BY <2>1, <2>2, <3>2, <4>2
      <4> QED BY <1>1, <1>4, <2>1, <2>2, <2>3, <3>2, <4>3 DEF RouteAt
    <3> QED BY <3>1, <3>2
  <2> QED BY <2>5 DEF d
<1> QED BY <1>4, <1>5, <1>6

LEMMA FailureReports ==
  ASSUME Basis, AnswerParts, Decline \/ Abort \/ AbortFails
  PROVE  Reports'
<1>1. /\ pc \in {"plan", "abort"} /\ UNCHANGED <<disk, txn, base, approved, blame>>
      /\ task'.answer = "failed" /\ task'.expect = task.expect
      /\ pending' = pending \/ (pc = "abort" /\ task.prepared /\ pending' = None)
      /\ pc = "abort" /\ ~task.prepared => pending' = pending
  BY DEF Decline, Abort, AbortFails, Answer, NoTask, files, history
<1>2. Before = Restored /\ Restored' = Restored
  BY <1>1, BeforeIs, RestoredStays
<1> DEFINE s == StartOf(base', pending', Restored')
<1> SUFFICES ASSUME "outside" \notin blame, s # None
             PROVE  \A p \in Plugin :
                      RouteAt(s, p) = RouteAt(task.expect, p) \/ (pending' # None /\ <<p, Restored[p]>> \in approved)
  BY <1>1, <1>2 DEF Reports, FailureIs
<1>3. ASSUME task.expect = StartOf(base, pending, Before), pending' = pending PROVE s = task.expect
  BY <1>1, <1>2, <1>3
<1>4. ASSUME WrittenNow, pending' = pending
      PROVE  pending' # None /\ \A p \in Plugin : RouteAt(s, p) = RouteAt(task.expect, p) \/ <<p, Restored[p]>> \in approved
  <2>1. s = StartOf(base, pending, Restored) /\ s # None
    BY <1>1, <1>2, <1>4
  <2>2. pending # None
    BY <1>4 DEF WrittenNow
  <2> HIDE DEF s
  <2> QED BY <1>2, <1>4, <2>1, <2>2, WrittenFound
<1>5. ASSUME WrittenNow, pending' = None PROVE s = task.expect
  <2>1. base = Document(4, entries) /\ task.expect = Routes(Shown(entries, entries, Restored)) /\ entries \in Entries
    BY <1>2, <1>5, WrittenIs DEF Basis, TypeOK
  <2>2. StartOf(Document(4, entries), None, Restored) = Routes(Shown(entries, entries, Restored))
    BY <2>1, StartSingle
  <2> QED BY <1>1, <1>2, <1>5, <2>1, <2>2
<1> HIDE DEF s
<1>6. CASE pc = "plan"
  BY <1>1, <1>3, <1>6 DEF AnswerParts, ExpectKept
<1>7. CASE pc = "abort" /\ ~task.prepared
  BY <1>1, <1>3, <1>4, <1>7 DEF AnswerParts, ExpectUndone
<1>8. CASE pc = "abort" /\ task.prepared
  BY <1>1, <1>4, <1>5, <1>8 DEF AnswerParts, WrittenStill
<1> QED BY <1>1, <1>6, <1>7, <1>8

LEMMA ReportsStep ==
  ASSUME Basis, DirectoriesFit, RoutesFit, AnswersFit, ReportsAreTrue, [Next]_vars
  PROVE  ReportsAreTrue'
<1> SUFFICES Reports'
  BY ReportsNext
<1>1. Basis' /\ RouteParts
  BY BasisStep, RoutesAre DEF Basis
<1>2. ASSUME pc' # "idle" \/ task'.answer = "none" \/ "outside" \in blame' PROVE Reports'
  BY <1>2 DEF Reports
<1>3. CASE StartupNext
  <2>1. pc' # "idle" \/ task' = NoTask
    BY <1>3 DEF StartupNext, Startup, OpenWithoutBaseline, AdoptPending, Refuse, ForgetPending, Review, StartupFails
  <2> QED BY <1>2, <2>1, NoTaskIs
<1>4. CASE PlanNext
  <2>1. pc' = "plan"
    BY <1>4, PlanKeeps DEF Basis
  <2> QED BY <1>2, <2>1
<1>5. CASE CommandNext
  <2> SUFFICES ASSUME "outside" \notin blame' PROVE Reports'
    BY <1>2
  <2>1. CASE Forget \/ PromoteFails \/ Decline \/ Abort \/ AbortFails
    <3>1. AnswerParts
      <4>1. blame' = blame
        BY <2>1 DEF Forget, PromoteFails, Decline, Abort, AbortFails, history
      <4> QED BY <4>1, AnswersAre
    <3>2. CASE Forget BY <1>1, <3>1, <3>2, ForgetReports
    <3>3. CASE PromoteFails BY <1>1, <3>1, <3>3, PromoteFailsReports
    <3>4. CASE Decline \/ Abort \/ AbortFails BY <3>1, <3>4, FailureReports
    <3> QED BY <2>1, <3>2, <3>3, <3>4
  <2>2. CASE Check \/ Prepare \/ Moving \/ Switch \/ RollBack \/ RollBackFails \/ Promote
    <3>1. pc' # "idle"
      <4>1. CASE Check BY <4>1, CheckDoes
      <4>2. CASE Prepare BY <4>2, PreparedTask
      <4>3. CASE Moving BY <4>3, MovingDoes DEF Moves
      <4>4. CASE Switch
        <5>1. Advance /\ pc = "switch"
          BY <4>4 DEF Switch
        <5> QED BY <5>1, AdvanceDoes
      <4>5. CASE RollBack \/ RollBackFails \/ Promote
        BY <4>5 DEF RollBack, RollBackFails, Promote
      <4> QED BY <2>2, <4>1, <4>2, <4>3, <4>4, <4>5
    <3> QED BY <1>2, <3>1
  <2> QED BY <1>5, <2>1, <2>2, CommandMoves
<1>6. CASE (\E p \in Plugin, c \in Content \cup {None} : ChangeOutside(p, c)) \/ LoseBaseline
  BY <1>2, <1>6 DEF ChangeOutside, LoseBaseline
<1>7. CASE Crash
  BY <1>2, <1>7 DEF Crash
<1>8. CASE UNCHANGED vars
  <2>1. UNCHANGED <<disk, txn, base, pending, served, approved, task, pc, blame>>
    BY <1>8 DEF vars, files, memory, history
  <2>2. Reports /\ Restored' = Restored /\ Members' = Members
    BY <2>1, ReportsAre, SameGoal, RestoredStays
  <2> QED BY <2>1, <2>2 DEF Reports, SuccessIs, FailureIs
<1> QED BY <1>3, <1>4, <1>5, <1>6, <1>7, <1>8 DEF Next

(***************************************************************************)
(* The whole invariant.                                                    *)
(***************************************************************************)

LEMMA InvariantInit == Init => IInv
<1> SUFFICES ASSUME Init PROVE IInv
  OBVIOUS
<1>1. Basis /\ DirectoriesFit /\ ApprovalFits /\ DeletedAreGone /\ ContractsFit
  BY AcceptedInit DEF AcceptedInv
<1>2. AcceptedAreApproved /\ ContractsAreKept /\ DecisionsArePossible
  BY <1>1, ApprovalIs, ContractsAre, DecisionsInit, DecisionsAre
<1>3. DirectoriesAreAccepted /\ RoutesFit /\ AnswersFit
  BY ServesInit, RouteInit, AnswerInit
<1>4. AnswersAndStartsAreTrue
  BY DEF Init, AnswersAndStartsAreTrue, ReportsAreTrue, StartsAreDecided
<1> QED BY <1>1, <1>2, <1>3, <1>4 DEF IInv, Basis

LEMMA InvariantStep == IInv /\ [Next]_vars => IInv'
<1> SUFFICES ASSUME IInv, [Next]_vars PROVE IInv'
  OBVIOUS
<1>1. Basis /\ DirectoriesFit /\ DeletedAreGone /\ DirectoriesAreAccepted /\ RoutesFit /\ AnswersFit
  BY DEF IInv, Basis
<1>2. ApprovalFits /\ ContractsFit /\ DecisionsFit
  BY ApprovalIs, ContractsAre, DecisionsAre DEF IInv
<1>3. ReportsAreTrue /\ StartsAreDecided
  BY DEF IInv, AnswersAndStartsAreTrue
<1>4. AcceptedInv'
  BY <1>1, <1>2, AcceptedStep DEF AcceptedInv
<1>5. Basis' /\ DirectoriesFit' /\ DeletedAreGone' /\ ApprovalFits' /\ ContractsFit'
  BY <1>4 DEF AcceptedInv
<1>6. AcceptedAreApproved' /\ ContractsAreKept'
  BY <1>5, ApprovalNext, ContractsNext
<1>7. DecisionsArePossible'
  BY <1>1, <1>2, DecisionsStep, DecisionsNext
<1>8. DirectoriesAreAccepted'
  BY <1>1, <1>2, ServesStep
<1>9. RoutesFit'
  BY <1>1, RouteStep
<1>10. AnswersFit'
  BY <1>1, <1>2, AnswerStep
<1>11. AnswersAndStartsAreTrue'
  <2>1. ReportsAreTrue'
    BY <1>1, <1>3, ReportsStep
  <2>2. StartsAreDecided'
    BY <1>1, <1>2, <1>3, DecidedStarts
  <2> QED BY <2>1, <2>2 DEF AnswersAndStartsAreTrue
<1> QED BY <1>5, <1>6, <1>7, <1>8, <1>9, <1>10, <1>11 DEF IInv, Basis

\* Between commands the controller serves exactly the entries of one accepted
\* baseline, or, once directories were changed from outside, nothing beyond
\* them; a command that answered "ok" is what the next start serves, one that
\* failed leaves the next start as it was; and a start is refused only over
\* changed directories, a drifted baseline or a record that was left behind
\* (activate_prepared_plugin, save_local_mapping, reload_plugins, their
\* rollbacks, and PluginApiBaselineStore::open).
THEOREM BaselineServed == Spec => []BaselineIsServed
<1>1. IInv => BaselineIsServed
  <2> SUFFICES ASSUME IInv PROVE BaselineIsServed
    OBVIOUS
  <2>1. Basis /\ RoutesFit /\ TypeOK /\ AnswersAndStartsAreTrue
    BY DEF IInv, Basis
  <2>2. RoutesAreOneAcceptedSet
    BY <2>1, OneSet
  <2> QED BY <2>1, <2>2 DEF BaselineIsServed
<1> QED BY <1>1, InvariantInit, InvariantStep, PTL DEF Spec

=============================================================================
