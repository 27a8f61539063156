------------------------------ MODULE AuditProofs ------------------------------
(***************************************************************************)
(* Theorems of the audit (Audit), for every catalog, every list of game    *)
(* libraries and driver keys, and every answer the machine may give to     *)
(* every lookup.                                                           *)
(***************************************************************************)
EXTENDS Audit, TLAPS, FiniteSetTheorems

RegistryItem == [key : STRING, view : {"32", "64", "both"}]

Kinds == {"service", "driver", "registry", "path", "image", "library list", "Services",
          "manifest", "listing", "install", "service key", "service value", "signature",
          "not a file"}
Names == STRING \cup {"Steam", "Epic", ""}
Vias  == STRING \cup {"scm", "registry only", "none", "32", "64", "both", "",
                      "file", "directory", "link"}

Artifacts == [kind : Kinds, name : Names, via : Vias]
Services  == [kind : {"service"}, name : STRING, via : {"scm"}]
KeyOnly   == [kind : {"service"}, name : STRING, via : {"registry only"}]
Drivers   == [kind : {"driver"}, name : STRING, via : {"none"}]
Imaged    == [kind : {"service", "driver"}, name : STRING, via : Vias]
InViews   == [kind : {"registry"}, name : STRING, via : {"32", "64", "both"}]
InView    == [kind : {"registry"}, name : STRING, via : {"32", "64"}]
Templated == [kind : {"path"}, name : Templates, via : {"none"}]
Unseen    == [kind : {"path"}, name : STRING, via : {"none"}]
ToJudge   == {a \in Artifacts : ~IsProtected(a)}

(* What may wait in the queue before the first entry, and for an entry.     *)
ListKinds    == {"steam", "epic", "driver keys"}
ListAsks     == [what : ListKinds, artifact : Artifacts]
ServiceAsks  == [what : {"service"}, artifact : Services]
KeyAsks      == [what : {"service_key"}, artifact : KeyOnly]
DriverAsks   == [what : {"driver", "loose image"}, artifact : Drivers]
ImageAsks    == [what : {"image"}, artifact : Imaged]
ViewAsks     == [what : {"views"}, artifact : InViews]
RegistryAsks == [what : {"registry"}, artifact : InView]
TemplateAsks == [what : {"template"}, artifact : Templated]
PathAsks     == [what : {"path"}, artifact : Unseen]
SignatureAsks == [what : {"signature"}, artifact : ToJudge]

StartAsks == ServiceAsks \cup DriverAsks \cup ViewAsks \cup TemplateAsks
EntryAsks == StartAsks \cup KeyAsks \cup ImageAsks \cup RegistryAsks \cup PathAsks
             \cup SignatureAsks

Mentions == [entry : 0..Len(catalog), item : Artifacts]

(* Where the audit is.                                                      *)
Phase ==
  \/ entry = 0 /\ todo \in Seq(ListAsks) /\ found = {} /\ present = {}
  \/ entry \in 1..Len(catalog) /\ todo \in Seq(EntryAsks)
  \/ entry = Len(catalog) + 1 /\ todo = <<>> /\ found = {}

Judgement ==
  [artifact : ToJudge, evidence : Unjudged, judged : {NotJudged}] \cup
  {p \in [artifact : ToJudge, evidence : Signature, judged : Classification] :
     p.judged = Judge(p.evidence, catalog[entry])}

ReportTyped ==
  /\ report \in [findings : SUBSET [entry : 1..Len(catalog), artifact : ToJudge,
                                    evidence : Signature \cup Unjudged,
                                    classification : Classification],
                 protected : SUBSET Mentions, disbelieved : SUBSET Mentions,
                 unreadable : SUBSET Mentions]
  /\ \A f \in report.findings : f.entry < entry

Typed ==
  /\ catalog \in Catalogs
  /\ libraries \subseteq SteamFolders \cup Named(DOMAIN EpicGames)
  /\ keys \subseteq DriverKeys
  /\ Phase
  /\ found \subseteq Judgement
  /\ ReportTyped
  /\ present \subseteq Mentions /\ unread \subseteq Mentions

(* What is unread and not in the report was overlooked.                     *)
Told == \A m \in unread : m \in report.unreadable \/ m.item.kind \in Overlooked

-------------------------------------------------------------------------------
(* Queues, and what the operators of the audit return.                      *)

LEMMA Turned ==
  ASSUME NEW S, NEW s \in Seq(S), s # <<>>, NEW more \in Seq(S)
  PROVE  /\ Head(s) \in S /\ Tail(s) \in Seq(S)
         /\ more \o Tail(s) \in Seq(S)
OBVIOUS

LEMMA Wider ==
  ASSUME NEW S, NEW T, S \subseteq T, NEW s \in Seq(S)
  PROVE  s \in Seq(T)
OBVIOUS

LEMMA OneAsk == ASSUME NEW S, NEW x \in S PROVE <<x>> \in Seq(S)
OBVIOUS

LEMMA NoAsk == ASSUME NEW S PROVE <<>> \in Seq(S)
OBVIOUS

LEMMA Joined ==
  ASSUME NEW S, NEW s \in Seq(S), NEW t \in Seq(S)
  PROVE  s \o t \in Seq(S)
OBVIOUS

LEMMA Listed ==
  ASSUME NEW S, NEW n \in Nat, NEW f(_), \A i \in 1..n : f(i) \in S
  PROVE  [i \in 1..n |-> f(i)] \in Seq(S)
OBVIOUS

(* A finite set has a sequence of its elements, so SetToSeq returns one.    *)
LEMMA SequenceOfSet ==
  ASSUME NEW S, IsFiniteSet(S)
  PROVE  SetToSeq(S) \in Seq(S)
<1> DEFINE n == Cardinality(S)
<1>1. n \in Nat /\ ExistsBijection(1..n, S)
  BY FS_CardinalityType
<1>2. PICK f \in [1..n -> S] : IsInjective(f)
  BY <1>1 DEF ExistsBijection, Bijection, Injection, IsInjective
<1>3. SetToSeq(S) \in [1..n -> S]
  BY <1>2 DEF SetToSeq
<1> QED BY <1>1, <1>3

LEMMA CatalogsAreTyped ==
  ASSUME NEW c \in Catalogs
  PROVE  Len(c) \in Nat /\ \A i \in 1..Len(c) : c[i] \in Entry
BY AuditAssumption

LEMMA JudgeClassifies ==
  ASSUME NEW signature, NEW e
  PROVE  Judge(signature, e) \in Classification
BY DEF Judge, Classification

LEMMA ViewsAreViews ==
  ASSUME NEW key, NEW view
  PROVE  Views(key, view) \in Seq({"32", "64"})
<1>1. <<"32">> \in Seq({"32", "64"}) /\ <<"64">> \in Seq({"32", "64"})
  OBVIOUS
<1>2. <<"64", "32">> \in Seq({"32", "64"})
  OBVIOUS
<1> QED BY <1>1, <1>2 DEF Views

LEMMA WorkTyped ==
  ASSUME NEW e \in Entry
  PROVE  Work(e) \in Seq(StartAsks)
<1> DEFINE services == [i \in 1..Len(e.services) |->
             Ask("service", Artifact("service", e.services[i], "scm"))]
           drivers == [i \in 1..Len(e.drivers) |->
             Ask("driver", Artifact("driver", e.drivers[i], "none"))]
           views == [i \in 1..Len(e.registry) |->
             Ask("views", Artifact("registry", e.registry[i].key, e.registry[i].view))]
           templates == [i \in 1..Len(e.paths) |->
             Ask("template", Artifact("path", e.paths[i], "none"))]
<1>1. services \in Seq(StartAsks)
  <2>1. Len(e.services) \in Nat /\ \A i \in 1..Len(e.services) : e.services[i] \in STRING
    BY DEF Entry
  <2>2. \A i \in 1..Len(e.services) :
          Ask("service", Artifact("service", e.services[i], "scm")) \in StartAsks
    BY <2>1 DEF StartAsks, Ask, Artifact, ServiceAsks, Services
  <2> QED BY <2>1, <2>2
<1>2. drivers \in Seq(StartAsks)
  <2>1. Len(e.drivers) \in Nat /\ \A i \in 1..Len(e.drivers) : e.drivers[i] \in STRING
    BY DEF Entry
  <2>2. \A i \in 1..Len(e.drivers) :
          Ask("driver", Artifact("driver", e.drivers[i], "none")) \in StartAsks
    BY <2>1 DEF StartAsks, Ask, Artifact, DriverAsks, Drivers
  <2> QED BY <2>1, <2>2
<1>3. views \in Seq(StartAsks)
  <2>0. e.registry \in Seq(RegistryItem)
    BY DEF Entry, RegistryItem
  <2>1. /\ Len(e.registry) \in Nat
        /\ \A i \in 1..Len(e.registry) : e.registry[i] \in RegistryItem
    BY <2>0
  <2>2. \A i \in 1..Len(e.registry) :
          Ask("views", Artifact("registry", e.registry[i].key, e.registry[i].view)) \in StartAsks
    BY <2>1 DEF StartAsks, Ask, Artifact, ViewAsks, InViews, RegistryItem
  <2> QED BY <2>1, <2>2
<1>4. templates \in Seq(StartAsks)
  <2>1. Len(e.paths) \in Nat /\ \A i \in 1..Len(e.paths) : e.paths[i] \in Templates
    BY DEF Entry
  <2>2. \A i \in 1..Len(e.paths) :
          Ask("template", Artifact("path", e.paths[i], "none")) \in StartAsks
    BY <2>1 DEF StartAsks, Ask, Artifact, TemplateAsks, Templated
  <2> QED BY <2>1, <2>2
<1>5. Work(e) = services \o drivers \o views \o templates
  BY DEF Work
<1> HIDE DEF services, drivers, views, templates
<1> QED BY <1>1, <1>2, <1>3, <1>4, <1>5, Joined

LEMMA AsksAreAsks ==
  ASSUME NEW a \in EntryAsks
  PROVE  a.artifact \in Artifacts /\ a.what \notin ListKinds
<1>1. Templates \subseteq STRING
  BY AuditAssumption DEF Templates
<1>2. CASE a \in ServiceAsks
  <2>1. a.artifact \in Services /\ a.what = "service"
    BY <1>2 DEF ServiceAsks
  <2> QED BY <2>1 DEF Services, Artifacts, Kinds, Names, Vias, ListKinds
<1>3. CASE a \in KeyAsks
  <2>1. a.artifact \in KeyOnly /\ a.what = "service_key"
    BY <1>3 DEF KeyAsks
  <2> QED BY <2>1 DEF KeyOnly, Artifacts, Kinds, Names, Vias, ListKinds
<1>4. CASE a \in DriverAsks
  <2>1. a.artifact \in Drivers /\ a.what \in {"driver", "loose image"}
    BY <1>4 DEF DriverAsks
  <2> QED BY <2>1 DEF Drivers, Artifacts, Kinds, Names, Vias, ListKinds
<1>5. CASE a \in ImageAsks
  <2>1. a.artifact \in Imaged /\ a.what = "image"
    BY <1>5 DEF ImageAsks
  <2> QED BY <2>1 DEF Imaged, Artifacts, Kinds, Names, Vias, ListKinds
<1>6. CASE a \in ViewAsks
  <2>1. a.artifact \in InViews /\ a.what = "views"
    BY <1>6 DEF ViewAsks
  <2> QED BY <2>1 DEF InViews, Artifacts, Kinds, Names, Vias, ListKinds
<1>7. CASE a \in RegistryAsks
  <2>1. a.artifact \in InView /\ a.what = "registry"
    BY <1>7 DEF RegistryAsks
  <2> QED BY <2>1 DEF InView, Artifacts, Kinds, Names, Vias, ListKinds
<1>8. CASE a \in TemplateAsks
  <2>1. a.artifact \in Templated /\ a.what = "template"
    BY <1>8 DEF TemplateAsks
  <2> QED BY <1>1, <2>1 DEF Templated, Artifacts, Kinds, Names, Vias, ListKinds
<1>9. CASE a \in PathAsks
  <2>1. a.artifact \in Unseen /\ a.what = "path"
    BY <1>9 DEF PathAsks
  <2> QED BY <2>1 DEF Unseen, Artifacts, Kinds, Names, Vias, ListKinds
<1>10. CASE a \in SignatureAsks
  BY <1>10 DEF SignatureAsks, ToJudge, ListKinds
<1> QED BY <1>2, <1>3, <1>4, <1>5, <1>6, <1>7, <1>8, <1>9, <1>10 DEF EntryAsks, StartAsks

(* The first lookup of the queue.                                           *)
LEMMA FirstAsk ==
  ASSUME Typed, todo # <<>>
  PROVE  /\ Asked \in Artifacts
         /\ Len(catalog) \in Nat /\ entry \in 0..Len(catalog)
         /\ Mention(Asked) \in Mentions
         /\ \/ /\ Head(todo).what \in ListKinds /\ entry = 0
               /\ todo \in Seq(ListAsks) /\ Head(todo) \in ListAsks
               /\ found = {} /\ present = {}
            \/ /\ Head(todo).what \notin ListKinds /\ entry \in 1..Len(catalog)
               /\ todo \in Seq(EntryAsks) /\ Head(todo) \in EntryAsks
               /\ catalog[entry] \in Entry
<1>1. Len(catalog) \in Nat /\ \A i \in 1..Len(catalog) : catalog[i] \in Entry
  BY CatalogsAreTyped DEF Typed
<1>2. CASE entry = 0 /\ todo \in Seq(ListAsks) /\ found = {} /\ present = {}
  <2>1. Head(todo) \in ListAsks
    BY <1>2, Turned
  <2>2. Asked \in Artifacts /\ Head(todo).what \in ListKinds
    BY <2>1 DEF ListAsks, Asked
  <2> QED BY <1>1, <1>2, <2>1, <2>2 DEF Mention, Mentions
<1>3. CASE entry \in 1..Len(catalog) /\ todo \in Seq(EntryAsks)
  <2>1. Head(todo) \in EntryAsks
    BY <1>3, Turned
  <2>2. Asked \in Artifacts /\ Head(todo).what \notin ListKinds
    BY <2>1, AsksAreAsks DEF Asked
  <2> QED BY <1>1, <1>3, <2>1, <2>2 DEF Mention, Mentions
<1> QED BY <1>2, <1>3 DEF Typed, Phase

-------------------------------------------------------------------------------
(* Types.                                                                   *)

LEMMA ThreeAsks == ASSUME NEW S, NEW x \in S, NEW y \in S, NEW z \in S PROVE <<x, y, z>> \in Seq(S)
OBVIOUS

LEMMA TypedInit == Init => Typed
<1> SUFFICES ASSUME Init PROVE Typed
  OBVIOUS
<1>1. todo \in Seq(ListAsks)
  <2>1. /\ Ask("steam", Artifact("library list", "Steam", "")) \in ListAsks
        /\ Ask("epic", Artifact("library list", "Epic", "")) \in ListAsks
        /\ Ask("driver keys", Artifact("Services", "", "")) \in ListAsks
    BY DEF Ask, Artifact, ListAsks, ListKinds, Artifacts, Kinds, Names, Vias
  <2> QED BY <2>1, ThreeAsks DEF Init
<1>2. Phase
  BY <1>1 DEF Init, Phase
<1>3. ReportTyped
  BY DEF Init, ReportTyped
<1> QED BY <1>2, <1>3 DEF Init, Typed

LEMMA SameConstants ==
  ASSUME UNCHANGED <<catalog, entry>>
  PROVE  Mentions' = Mentions /\ Judgement' = Judgement /\ \A a : Mention(a)' = Mention(a)
BY DEF Mentions, Judgement, Mention

(* What an answer adds to one of the report's lists.                        *)
LEMMA SaysTyped ==
  ASSUME Typed, UNCHANGED <<catalog, entry>>, NEW item, Mention(item) \in Mentions,
         NEW list \in {"protected", "disbelieved", "unreadable"}, Says(list, item)
  PROVE  ReportTyped'
<1>1. Mentions' = Mentions
  BY SameConstants
<1>2. CASE list = "protected"
  BY <1>1, <1>2 DEF Typed, ReportTyped, Says
<1>3. CASE list = "disbelieved"
  BY <1>1, <1>3 DEF Typed, ReportTyped, Says
<1>4. CASE list = "unreadable"
  BY <1>1, <1>4 DEF Typed, ReportTyped, Says
<1> QED BY <1>2, <1>3, <1>4

LEMMA SameReport ==
  ASSUME Typed, UNCHANGED <<catalog, entry, report>>
  PROVE  ReportTyped'
BY SameConstants DEF Typed, ReportTyped

(* A lookup answered: what it leaves to be looked up, and what it adds.     *)
LEMMA Handled ==
  ASSUME Typed, todo # <<>>, UNCHANGED <<catalog, entry>>,
         NEW more \in Seq(EntryAsks), Then(more),
         more = <<>> \/ Head(todo).what \notin ListKinds,
         libraries' \subseteq SteamFolders \cup Named(DOMAIN EpicGames),
         keys' \subseteq DriverKeys,
         found' \subseteq Judgement, present' \subseteq Mentions, unread' \subseteq Mentions,
         Head(todo).what \in ListKinds => UNCHANGED <<found, present>>,
         ReportTyped'
  PROVE  Typed'
<1>1. Mentions' = Mentions /\ Judgement' = Judgement
  BY SameConstants
<1>2. Phase'
  <2>1. CASE Head(todo).what \in ListKinds
    <3>1. entry = 0 /\ todo \in Seq(ListAsks) /\ found = {} /\ present = {}
      BY <2>1, FirstAsk
    <3>2. todo' \in Seq(ListAsks)
      BY <2>1, <3>1, Turned, NoAsk DEF Then
    <3> QED BY <2>1, <3>1, <3>2 DEF Phase
  <2>2. CASE Head(todo).what \notin ListKinds
    <3>1. entry \in 1..Len(catalog) /\ todo \in Seq(EntryAsks)
      BY <2>2, FirstAsk
    <3>2. todo' \in Seq(EntryAsks)
      BY <3>1, Turned DEF Then
    <3> QED BY <3>1, <3>2 DEF Phase
  <2> QED BY <2>1, <2>2
<1> QED BY <1>1, <1>2 DEF Typed

LEMMA AbsentTyped ==
  ASSUME Typed, todo # <<>>, Absent, UNCHANGED <<catalog, entry, libraries, keys>>
  PROVE  Typed'
<1>1. ReportTyped'
  BY SameReport DEF Absent
<1>2. <<>> \in Seq(EntryAsks) /\ Then(<<>>)
  BY NoAsk DEF Absent
<1> QED BY <1>1, <1>2, Handled DEF Absent, Typed

LEMMA UnreadableTyped ==
  ASSUME Typed, todo # <<>>, Unreadable, UNCHANGED <<catalog, entry, libraries, keys>>
  PROVE  Typed'
<1>1. Mention(Asked) \in Mentions
  BY FirstAsk
<1>2. ReportTyped'
  BY <1>1, SaysTyped DEF Unreadable
<1>3. <<>> \in Seq(EntryAsks) /\ Then(<<>>)
  BY NoAsk DEF Unreadable
<1>4. unread' \subseteq Mentions
  BY <1>1 DEF Unreadable, Unanswered, Typed
<1> QED BY <1>2, <1>3, <1>4, Handled DEF Unreadable, Typed

LEMMA TakenForAbsentTyped ==
  ASSUME Typed, todo # <<>>, NEW item \in Artifacts, TakenForAbsent(item),
         UNCHANGED <<catalog, entry, libraries, keys>>
  PROVE  Typed'
<1>1. Mention(item) \in Mentions
  BY FirstAsk DEF Mention, Mentions
<1>2. ReportTyped'
  BY SameReport DEF TakenForAbsent
<1>3. <<>> \in Seq(EntryAsks) /\ Then(<<>>)
  BY NoAsk DEF TakenForAbsent
<1>4. unread' \subseteq Mentions
  BY <1>1 DEF TakenForAbsent, Unanswered, Typed
<1> QED BY <1>2, <1>3, <1>4, Handled DEF TakenForAbsent, Typed

(* What is recorded of an artifact nothing is known to sign.                *)
LEMMA PendingUnjudged ==
  ASSUME Typed, NEW a \in ToJudge, NEW evidence \in Unjudged, Pending(a, evidence, NotJudged)
  PROVE  found' \subseteq Judgement
BY DEF Typed, Pending, Judgement

LEMMA PendingJudged ==
  ASSUME Typed, NEW a \in ToJudge, NEW signature \in Signature,
         Pending(a, signature, Judge(signature, catalog[entry]))
  PROVE  found' \subseteq Judgement
BY JudgeClassifies DEF Typed, Pending, Judgement

LEMMA ImagedIsToJudge ==
  ASSUME NEW a \in Imaged
  PROVE  a \in ToJudge /\ a \in Artifacts
<1>1. a \in Artifacts
  BY DEF Imaged, Artifacts, Kinds, Names, Vias
<1> QED BY <1>1 DEF Imaged, ToJudge, IsProtected

LEMMA WithImageTyped ==
  ASSUME Typed, todo # <<>>, NEW a \in Imaged, NEW named \in BOOLEAN, WithImage(a, named),
         unread' \subseteq Mentions, Head(todo).what \notin ListKinds, UNCHANGED <<catalog, entry, libraries, keys>>
  PROVE  Typed'
<1>1. Mention(a) \in Mentions
  BY FirstAsk, ImagedIsToJudge DEF Mention, Mentions
<1>2. present' \subseteq Mentions
  BY <1>1 DEF WithImage, SeenAs, Typed
<1>3. ReportTyped'
  BY SameReport DEF WithImage
<1>4. CASE named
  <2>1. <<Ask("image", a)>> \in Seq(EntryAsks)
    <3>1. Ask("image", a) \in EntryAsks
      BY DEF Ask, EntryAsks, StartAsks, ImageAsks
    <3> QED BY <3>1
  <2> QED BY <1>2, <1>3, <1>4, <2>1, Handled DEF WithImage, Typed
<1>5. CASE ~named
  <2>1. found' \subseteq Judgement
    BY <1>5, PendingUnjudged, ImagedIsToJudge DEF WithImage, Unjudged
  <2>2. <<>> \in Seq(EntryAsks) /\ Then(<<>>)
    BY <1>5, NoAsk DEF WithImage
  <2> QED BY <1>2, <1>3, <2>1, <2>2, Handled DEF WithImage, Typed
<1> QED BY <1>4, <1>5

(* What the first lookup is for, by its kind.                               *)
LEMMA FirstArtifact ==
  ASSUME Typed, todo # <<>>
  PROVE  /\ Head(todo).what = "service" => Asked \in Services
         /\ Head(todo).what = "service_key" => Asked \in KeyOnly
         /\ Head(todo).what \in {"driver", "loose image"} => Asked \in Drivers
         /\ Head(todo).what = "image" => Asked \in Imaged
         /\ Head(todo).what = "views" => Asked \in InViews
         /\ Head(todo).what = "registry" => Asked \in InView
         /\ Head(todo).what = "template" => Asked \in Templated
         /\ Head(todo).what = "path" => Asked \in Unseen
         /\ Head(todo).what = "signature" => Asked \in ToJudge
<1>1. CASE Head(todo) \in ListAsks
  BY <1>1 DEF ListAsks, ListKinds
<1>2. CASE Head(todo) \in EntryAsks
  BY <1>2 DEF EntryAsks, StartAsks, ServiceAsks, KeyAsks, DriverAsks, ImageAsks, ViewAsks,
              RegistryAsks, TemplateAsks, PathAsks, SignatureAsks, Asked
<1> QED BY <1>1, <1>2, FirstAsk

(* The actions that begin an entry.                                         *)
LEMMA EntryBegun ==
  ASSUME Typed, catalog' = catalog, entry' \in 1..(Len(catalog) + 1),
         todo' = IF entry' <= Len(catalog) THEN Work(catalog[entry']) ELSE <<>>,
         found' = {}
  PROVE  Phase'
<1>1. Len(catalog) \in Nat /\ \A i \in 1..Len(catalog) : catalog[i] \in Entry
  BY CatalogsAreTyped DEF Typed
<1>2. CASE entry' <= Len(catalog)
  <2>1. entry' \in 1..Len(catalog)
    BY <1>1, <1>2
  <2>2. todo' \in Seq(StartAsks)
    BY <1>1, <1>2, <2>1, WorkTyped
  <2>3. todo' \in Seq(EntryAsks)
    BY <2>2, Wider DEF EntryAsks
  <2> QED BY <2>1, <2>3 DEF Phase
<1>3. CASE ~(entry' <= Len(catalog))
  BY <1>1, <1>3 DEF Phase
<1> QED BY <1>2, <1>3

LEMMA FindTyped ==
  ASSUME Typed, FindSteamLibraries \/ FindEpicLibraries
  PROVE  Typed'
<1>1. todo # <<>> /\ Head(todo).what \in ListKinds
  BY DEF FindSteamLibraries, FindEpicLibraries, Asks, ListKinds
<1>2. UNCHANGED <<catalog, entry, keys>>
  BY DEF FindSteamLibraries, FindEpicLibraries
<1>3. <<>> \in Seq(EntryAsks)
  BY NoAsk
<1>4. CASE Absent /\ UNCHANGED libraries
  BY <1>1, <1>2, <1>4, AbsentTyped
<1>5. CASE Unreadable /\ UNCHANGED libraries
  BY <1>1, <1>2, <1>5, UnreadableTyped
<1>6. CASE TakenForAbsent(Artifact("install", "Steam", "")) /\ UNCHANGED libraries
  <2>1. Artifact("install", "Steam", "") \in Artifacts
    BY DEF Artifact, Artifacts, Kinds, Names, Vias
  <2> QED BY <1>1, <1>2, <1>6, <2>1, TakenForAbsentTyped
<1>7. CASE /\ libraries' = libraries \cup SteamFolders /\ Then(<<>>)
           /\ UNCHANGED <<found, report, present, unread>>
  <2>1. ReportTyped'
    BY <1>2, <1>7, SameReport
  <2> QED BY <1>1, <1>2, <1>3, <1>7, <2>1, Handled DEF Typed
<1>8. ASSUME NEW dropped \in SUBSET DOMAIN EpicGames,
             NEW bad \in SUBSET (DOMAIN EpicGames \ dropped),
             NEW named \in SUBSET (DOMAIN EpicGames \ (dropped \cup bad)),
             libraries' = libraries \cup Named(named),
             report' = [report EXCEPT !.unreadable = @ \cup
                          {Mention(Artifact("manifest", g, "")) : g \in bad}],
             unread' = unread \cup {Mention(Artifact("manifest", g, "")) : g \in bad}
                              \cup {Mention(Artifact("listing", g, "")) : g \in dropped},
             Then(<<>>), UNCHANGED <<found, present>>
      PROVE Typed'
  <2>1. \A g \in DOMAIN EpicGames : /\ Mention(Artifact("manifest", g, "")) \in Mentions
                                    /\ Mention(Artifact("listing", g, "")) \in Mentions
    <3>1. Len(catalog) \in Nat /\ entry \in 0..Len(catalog)
      BY <1>1, FirstAsk
    <3>2. \A g \in DOMAIN EpicGames : g \in Names
      BY AuditAssumption DEF Names
    <3>3. \A g \in DOMAIN EpicGames : /\ Artifact("manifest", g, "") \in Artifacts
                                      /\ Artifact("listing", g, "") \in Artifacts
      BY <3>2 DEF Artifact, Artifacts, Kinds, Vias
    <3> QED BY <3>1, <3>3 DEF Mention, Mentions
  <2>2. {Mention(Artifact("manifest", g, "")) : g \in bad} \subseteq Mentions
    BY <2>1
  <2>3. unread' \subseteq Mentions
    BY <1>8, <2>1 DEF Typed
  <2>4. ReportTyped'
    BY <1>2, <1>8, <2>2, SameConstants DEF Typed, ReportTyped
  <2>5. libraries' \subseteq SteamFolders \cup Named(DOMAIN EpicGames)
    BY <1>8 DEF Typed, Named
  <2> QED BY <1>1, <1>2, <1>3, <1>8, <2>3, <2>4, <2>5, Handled DEF Typed
<1>9. CASE FindSteamLibraries
  BY <1>4, <1>5, <1>6, <1>7, <1>9 DEF FindSteamLibraries
<1>10. CASE FindEpicLibraries
  BY <1>5, <1>8, <1>10 DEF FindEpicLibraries
<1> QED BY <1>9, <1>10

LEMMA ReadDriverKeysTyped ==
  ASSUME Typed, ReadDriverKeys
  PROVE  Typed'
<1>1. todo # <<>> /\ Head(todo).what \in ListKinds
  BY DEF ReadDriverKeys, Asks, ListKinds
<1>2. entry = 0 /\ found = {} /\ present = {} /\ Len(catalog) \in Nat
  BY <1>1, FirstAsk
<1>3. catalog' = catalog /\ entry' = 1 /\ UNCHANGED <<libraries, found, present>>
  BY DEF ReadDriverKeys
<1>4. Mentions' = Mentions
  BY <1>3 DEF Mentions
<1>5. Phase'
  <2>1. todo' = IF entry' <= Len(catalog) THEN Work(catalog[entry']) ELSE <<>>
    <3>1. catalog = <<>> <=> ~(1 <= Len(catalog))
      BY AuditAssumption DEF Typed
    <3> QED BY <1>3, <3>1 DEF ReadDriverKeys
  <2> QED BY <1>2, <1>3, <2>1, EntryBegun
<1> DEFINE Listing == /\ keys' \subseteq DriverKeys
                      /\ unread' \subseteq Mentions
                      /\ \E some \in SUBSET Mentions :
                           report' = [report EXCEPT !.unreadable = @ \cup some]
<1>6. Listing
  <2>1. ASSUME NEW l \in KeyListings,
               keys' = l["drivers"],
               report' = [report EXCEPT !.unreadable = @ \cup
                            {Mention(Artifact("service key", k.name, "")) : k \in l["closed"]}],
               unread' = unread
                 \cup {Mention(Artifact("service key", k.name, "")) : k \in l["closed"]}
                 \cup {Mention(Artifact("service value", k.name, "")) : k \in l["blank"]}
        PROVE Listing
    <3>1. /\ l["drivers"] \subseteq DriverKeys /\ l["closed"] \subseteq DriverKeys
          /\ l["blank"] \subseteq DriverKeys
      BY DEF KeyListings
    <3>2. \A k \in DriverKeys : /\ Mention(Artifact("service key", k.name, "")) \in Mentions
                                /\ Mention(Artifact("service value", k.name, "")) \in Mentions
      <4>1. \A k \in DriverKeys : k.name \in Names
        BY AuditAssumption DEF Names
      <4>2. \A k \in DriverKeys : /\ Artifact("service key", k.name, "") \in Artifacts
                                  /\ Artifact("service value", k.name, "") \in Artifacts
        BY <4>1 DEF Artifact, Artifacts, Kinds, Vias
      <4>3. entry \in 0..Len(catalog)
        BY <1>2
      <4> QED BY <4>2, <4>3 DEF Mention, Mentions
    <3>3. {Mention(Artifact("service key", k.name, "")) : k \in l["closed"]} \in SUBSET Mentions
      BY <3>1, <3>2
    <3>4. unread' \subseteq Mentions
      BY <2>1, <3>1, <3>2 DEF Typed
    <3> QED BY <2>1, <3>1, <3>3, <3>4
  <2>2. ASSUME keys' = {}, Says("unreadable", Asked), Unanswered(Asked)
        PROVE Listing
    <3>1. Mention(Asked) \in Mentions
      BY <1>1, FirstAsk
    <3> QED BY <2>2, <3>1 DEF Says, Unanswered, Typed
  <2> QED BY <2>1, <2>2 DEF ReadDriverKeys
<1>7. ReportTyped'
  BY <1>2, <1>3, <1>4, <1>6 DEF Typed, ReportTyped
<1> QED BY <1>2, <1>3, <1>4, <1>5, <1>6, <1>7 DEF Typed

LEMMA SettleTyped ==
  ASSUME Typed, Settle
  PROVE  Typed'
<1>1. /\ Len(catalog) \in Nat /\ entry \in 1..Len(catalog) /\ catalog' = catalog
      /\ entry' = entry + 1 /\ found' = {} /\ UNCHANGED <<libraries, keys, present, unread>>
  BY CatalogsAreTyped DEF Settle, Typed
<1>2. Mentions' = Mentions
  BY <1>1 DEF Mentions
<1>3. Phase'
  <2>1. todo' = IF entry' <= Len(catalog) THEN Work(catalog[entry']) ELSE <<>>
    BY <1>1 DEF Settle
  <2> QED BY <1>1, <2>1, EntryBegun
<1>4. \A p \in found : /\ p.artifact \in ToJudge /\ p.evidence \in Signature \cup Unjudged
                       /\ Settled(p) \in Classification
  <2>1. TAKE p \in found
  <2>2. p \in Judgement
    BY <2>1 DEF Typed
  <2>3. p.judged \in Classification \cup {NotJudged}
    BY <2>2 DEF Judgement
  <2>4. Settled(p) \in Classification
    BY <2>3 DEF Settled, Classification
  <2> QED BY <2>2, <2>4 DEF Judgement
<1>5. ReportTyped'
  <2> DEFINE new == {[entry |-> entry, artifact |-> p.artifact, evidence |-> p.evidence,
                      classification |-> Settled(p)] : p \in found}
             Findings == [entry : 1..Len(catalog), artifact : ToJudge,
                          evidence : Signature \cup Unjudged, classification : Classification]
  <2>1. new \subseteq Findings /\ \A f \in new : f.entry = entry
    BY <1>1, <1>4
  <2>2. report' = [report EXCEPT !.findings = @ \cup new]
    BY DEF Settle
  <2>3. Findings' = Findings
    BY <1>1
  <2>4. /\ report.findings \subseteq Findings
        /\ \A f \in report.findings : f.entry < entry
    BY DEF Typed, ReportTyped
  <2>5. report'.findings = report.findings \cup new
    BY <2>2 DEF Typed, ReportTyped
  <2>6. \A f \in report'.findings : f.entry < entry'
    <3>1. TAKE f \in report'.findings
    <3>2. CASE f \in new
      BY <1>1, <2>1, <3>2
    <3>3. CASE f \in report.findings
      BY <1>1, <2>4, <3>3
    <3> QED BY <2>5, <3>2, <3>3
  <2> HIDE DEF new
  <2> QED BY <1>2, <2>1, <2>2, <2>3, <2>6 DEF Typed, ReportTyped
<1> QED BY <1>1, <1>2, <1>3, <1>5 DEF Typed

(* The lookups of an entry.                                                 *)
EntryLookUp ==
  \/ LookUpService \/ LookUpServiceKey \/ LookUpImage \/ ReadSignature
  \/ MatchDriver \/ LookUpLooseImage \/ ListViews \/ LookUpRegistryKey
  \/ ExpandTemplate \/ LookUpPath

LEMMA LookUpFrame ==
  ASSUME EntryLookUp
  PROVE  /\ todo # <<>> /\ Head(todo).what \notin ListKinds
         /\ UNCHANGED <<catalog, entry, libraries, keys>>
BY DEF EntryLookUp, LookUpService, LookUpServiceKey, LookUpImage, ReadSignature, MatchDriver,
       LookUpLooseImage, ListViews, LookUpRegistryKey, ExpandTemplate, LookUpPath, Asks, ListKinds

(* Nothing is recorded, and more is to be looked up.                        *)
LEMMA MoreTyped ==
  ASSUME Typed, EntryLookUp, NEW more \in Seq(EntryAsks), Then(more),
         UNCHANGED <<found, report, unread>>, present' \subseteq Mentions
  PROVE  Typed'
<1>1. ReportTyped'
  BY SameReport, LookUpFrame
<1> QED BY <1>1, Handled, LookUpFrame DEF Typed

(* Something is recorded of the artifact asked for.                         *)
LEMMA RecordTyped ==
  ASSUME Typed, EntryLookUp, Then(<<>>), found' \subseteq Judgement,
         present' \subseteq Mentions, unread' \subseteq Mentions, ReportTyped'
  PROVE  Typed'
BY NoAsk, Handled, LookUpFrame DEF Typed

LEMMA SeenTyped ==
  ASSUME Typed, EntryLookUp, NEW a \in Artifacts, SeenAs(a)
  PROVE  present' \subseteq Mentions
<1>1. Mention(a) \in Mentions
  BY LookUpFrame, FirstAsk DEF Mention, Mentions
<1> QED BY <1>1 DEF SeenAs, Typed

LEMMA UnansweredTyped ==
  ASSUME Typed, todo # <<>>, NEW a \in Artifacts, Unanswered(a)
  PROVE  unread' \subseteq Mentions
<1>1. Mention(a) \in Mentions
  BY FirstAsk DEF Mention, Mentions
<1> QED BY <1>1 DEF Unanswered, Typed

LEMMA LookUpServiceTyped ==
  ASSUME Typed, LookUpService \/ LookUpServiceKey
  PROVE  Typed'
<1>1. EntryLookUp /\ todo # <<>> /\ Head(todo).what \notin ListKinds
      /\ UNCHANGED <<catalog, entry, libraries, keys>>
  BY LookUpFrame DEF EntryLookUp
<1>2. Asked \in Imaged /\ Asked \in Artifacts
  BY <1>1, FirstArtifact, FirstAsk
     DEF LookUpService, LookUpServiceKey, Asks, Services, KeyOnly, Imaged, Vias
<1>3. CASE Absent
  BY <1>1, <1>3, AbsentTyped
<1>4. CASE Unreadable
  BY <1>1, <1>4, UnreadableTyped
<1>5. CASE \E named \in BOOLEAN : WithImage(Asked, named) /\ UNCHANGED unread
  <2>1. unread' \subseteq Mentions
    BY <1>5 DEF Typed
  <2> QED BY <1>1, <1>2, <1>5, <2>1, WithImageTyped
<1>8. CASE WithImage(Asked, FALSE) /\ Unanswered([Asked EXCEPT !.kind = "service value"])
  <2>1. [Asked EXCEPT !.kind = "service value"] \in Artifacts
    BY <1>2 DEF Artifacts, Kinds
  <2>2. unread' \subseteq Mentions
    BY <1>1, <1>8, <2>1, UnansweredTyped
  <2> QED BY <1>1, <1>2, <1>8, <2>2, WithImageTyped
<1>6. CASE /\ Says("disbelieved", Asked) /\ SeenAs(Asked) /\ Then(<<>>)
           /\ UNCHANGED <<found, unread>>
  <2>1. ReportTyped'
    BY <1>1, <1>6, FirstAsk, SaysTyped
  <2> QED BY <1>1, <1>2, <1>6, <2>1, SeenTyped, RecordTyped DEF Typed
<1>7. CASE /\ LookUpService
           /\ Then(<<Ask("service_key", [Asked EXCEPT !.via = "registry only"])>>)
           /\ UNCHANGED <<found, report, present, unread>>
  <2>1. Asked \in Services
    BY <1>1, <1>7, FirstArtifact DEF LookUpService, Asks
  <2>2. [Asked EXCEPT !.via = "registry only"] \in KeyOnly
    BY <2>1 DEF Services, KeyOnly
  <2>3. Ask("service_key", [Asked EXCEPT !.via = "registry only"]) \in EntryAsks
    BY <2>2 DEF Ask, EntryAsks, StartAsks, KeyAsks
  <2> QED BY <1>1, <1>7, <2>3, OneAsk, MoreTyped DEF Typed
<1> QED BY <1>3, <1>4, <1>5, <1>6, <1>7, <1>8 DEF LookUpService, LookUpServiceKey

LEMMA LookUpImageTyped ==
  ASSUME Typed, LookUpImage
  PROVE  Typed'
<1>1. EntryLookUp /\ todo # <<>> /\ UNCHANGED <<catalog, entry, libraries, keys, report, present>>
  BY LookUpFrame DEF EntryLookUp, LookUpImage
<1>2. Asked \in Imaged /\ Asked \in ToJudge /\ Asked \in Artifacts
  BY <1>1, FirstArtifact, ImagedIsToJudge DEF LookUpImage, Asks
<1>3. ReportTyped' /\ present' \subseteq Mentions
  BY <1>1, SameReport DEF Typed
<1>4. CASE Then(<<Ask("signature", Asked)>>) /\ UNCHANGED <<found, unread>>
  <2>1. Ask("signature", Asked) \in EntryAsks
    BY <1>2 DEF Ask, EntryAsks, StartAsks, SignatureAsks
  <2> QED BY <1>1, <1>3, <1>4, <2>1, OneAsk, MoreTyped
<1>5. CASE Pending(Asked, "image not on disk", NotJudged) /\ Then(<<>>) /\ UNCHANGED unread
  <2>1. found' \subseteq Judgement
    BY <1>2, <1>5, PendingUnjudged DEF Unjudged
  <2> QED BY <1>1, <1>3, <1>5, <2>1, RecordTyped DEF Typed
<1>6. CASE /\ Pending(Asked, IF Asked.kind = "driver" THEN "image not on disk"
                                                     ELSE "image unreadable", NotJudged)
           /\ Unanswered([Asked EXCEPT !.kind = "image"])
           /\ Then(<<>>)
  <2>1. found' \subseteq Judgement
    <3> DEFINE evidence == IF Asked.kind = "driver" THEN "image not on disk" ELSE "image unreadable"
    <3>1. evidence \in Unjudged
      BY DEF Unjudged
    <3> QED BY <1>2, <1>6, <3>1, PendingUnjudged
  <2>2. [Asked EXCEPT !.kind = "image"] \in Artifacts
    BY <1>2 DEF Artifacts, Kinds
  <2>3. unread' \subseteq Mentions
    BY <1>1, <1>6, <2>2, UnansweredTyped
  <2> QED BY <1>1, <1>3, <1>6, <2>1, <2>3, RecordTyped
<1> QED BY <1>4, <1>5, <1>6 DEF LookUpImage

LEMMA ReadSignatureTyped ==
  ASSUME Typed, ReadSignature
  PROVE  Typed'
<1>1. EntryLookUp /\ todo # <<>>
      /\ UNCHANGED <<catalog, entry, libraries, keys, report, present>>
  BY LookUpFrame DEF EntryLookUp, ReadSignature
<1>2. Asked \in ToJudge
  BY <1>1, FirstArtifact DEF ReadSignature, Asks
<1>3. ReportTyped'
  BY <1>1, SameReport
<1>4. found' \subseteq Judgement
  BY <1>2, PendingJudged DEF ReadSignature
<1>5. unread' \subseteq Mentions
  <2>1. [Asked EXCEPT !.kind = "signature"] \in Artifacts
    BY <1>2 DEF ToJudge, Artifacts, Kinds
  <2>2. unread' = unread \/ Unanswered([Asked EXCEPT !.kind = "signature"])
    BY DEF ReadSignature
  <2> QED BY <1>1, <2>1, <2>2, UnansweredTyped DEF Typed
<1> QED BY <1>1, <1>3, <1>4, <1>5, RecordTyped DEF Typed, ReadSignature

(* The keys registering a driver, each with its image to be looked at.      *)
Registered     == SetToSeq({k \in keys : k.file = Asked.name})
RegisteredAs(k) == [Asked EXCEPT !.via = k.name]

LEMMA RegisteredTyped ==
  ASSUME Typed, MatchDriver
  PROVE  /\ Registered \in Seq(keys)
         /\ Asked \in Drivers
         /\ \A i \in 1..Len(Registered) : RegisteredAs(Registered[i]) \in Imaged
<1> DEFINE some == {k \in keys : k.file = Asked.name}
<1>1. some \subseteq DriverKeys /\ IsFiniteSet(some)
  BY AuditAssumption, FS_Subset DEF Typed
<1>2. Registered \in Seq(some)
  BY <1>1, SequenceOfSet DEF Registered
<1>3. Registered \in Seq(keys)
  BY <1>2
<1>4. Asked \in Drivers
  BY FirstArtifact DEF MatchDriver, Asks
<1>5. \A k \in some : k.name \in STRING
  BY <1>1, AuditAssumption
<1>6. \A k \in some : RegisteredAs(k) \in Imaged
  BY <1>4, <1>5 DEF RegisteredAs, Drivers, Imaged, Vias
<1> QED BY <1>2, <1>3, <1>4, <1>6

LEMMA MatchDriverTyped ==
  ASSUME Typed, MatchDriver
  PROVE  Typed'
<1>1. EntryLookUp /\ todo # <<>>
      /\ UNCHANGED <<catalog, entry, libraries, keys, found, report, unread>>
  BY LookUpFrame DEF EntryLookUp, MatchDriver
<1>2. CASE Then(<<Ask("loose image", Asked)>>) /\ UNCHANGED present
  <2>1. Ask("loose image", Asked) \in EntryAsks
    BY RegisteredTyped DEF Ask, EntryAsks, StartAsks, DriverAsks
  <2> QED BY <1>1, <1>2, <2>1, OneAsk, MoreTyped DEF Typed
<1>3. CASE /\ Then([i \in 1..Len(Registered) |-> Ask("image", RegisteredAs(Registered[i]))])
           /\ present' = present \cup {Mention(RegisteredAs(k)) : k \in ToSet(Registered)}
  <2>1. \A i \in 1..Len(Registered) : Ask("image", RegisteredAs(Registered[i])) \in EntryAsks
    BY RegisteredTyped DEF Ask, EntryAsks, StartAsks, ImageAsks
  <2>2. Len(Registered) \in Nat
    BY RegisteredTyped
  <2>3. [i \in 1..Len(Registered) |-> Ask("image", RegisteredAs(Registered[i]))] \in Seq(EntryAsks)
    BY <2>1, <2>2
  <2>4. \A i \in 1..Len(Registered) : Mention(RegisteredAs(Registered[i])) \in Mentions
    BY <1>1, FirstAsk, RegisteredTyped, ImagedIsToJudge DEF Mention, Mentions
  <2>5. \A k \in ToSet(Registered) : \E i \in 1..Len(Registered) : k = Registered[i]
    BY RegisteredTyped DEF ToSet
  <2>6. present' \subseteq Mentions
    BY <1>3, <2>4, <2>5 DEF Typed
  <2> QED BY <1>1, <1>3, <2>3, <2>6, MoreTyped
<1> QED BY <1>2, <1>3 DEF MatchDriver, Registered, RegisteredAs

LEMMA LookUpLooseImageTyped ==
  ASSUME Typed, LookUpLooseImage
  PROVE  Typed'
<1>1. EntryLookUp /\ todo # <<>> /\ UNCHANGED <<catalog, entry, libraries, keys>>
  BY LookUpFrame DEF EntryLookUp
<1>2. Asked \in Drivers
  BY <1>1, FirstArtifact DEF LookUpLooseImage, Asks
<1>3. Asked \in ToJudge /\ Asked \in Artifacts
  <2>1. Asked \in Imaged
    BY <1>2 DEF Drivers, Imaged, Vias
  <2> QED BY <2>1, ImagedIsToJudge
<1>4. CASE /\ Then(<<Ask("signature", Asked)>>) /\ SeenAs(Asked)
           /\ UNCHANGED <<found, report, unread>>
  <2>1. Ask("signature", Asked) \in EntryAsks
    BY <1>3 DEF Ask, EntryAsks, StartAsks, SignatureAsks
  <2> QED BY <1>1, <1>3, <1>4, <2>1, OneAsk, SeenTyped, MoreTyped
<1>5. CASE /\ Then(<<>>) /\ SeenAs([Asked EXCEPT !.kind = "not a file"])
           /\ UNCHANGED <<found, report, unread>>
  <2>1. [Asked EXCEPT !.kind = "not a file"] \in Artifacts
    BY <1>3 DEF Artifacts, Kinds
  <2> QED BY <1>1, <1>5, <2>1, NoAsk, SeenTyped, MoreTyped
<1> QED BY <1>1, <1>4, <1>5, AbsentTyped, UnreadableTyped DEF LookUpLooseImage

LEMMA ViewsListed ==
  ASSUME Typed, ListViews
  PROVE  \E more \in Seq(RegistryAsks) : Then(more)
<1> DEFINE views == Views(Asked.name, Asked.via)
           more  == [v \in 1..Len(views) |-> Ask("registry", [Asked EXCEPT !.via = views[v]])]
<1>1. Then(more)
  BY DEF ListViews
<1>2. Asked \in InViews
  BY FirstArtifact DEF ListViews, Asks
<1>3. views \in Seq({"32", "64"})
  BY ViewsAreViews
<1>4. \A v \in 1..Len(views) : Ask("registry", [Asked EXCEPT !.via = views[v]]) \in RegistryAsks
  <2>1. \A w \in {"32", "64"} : [Asked EXCEPT !.via = w] \in InView
    BY <1>2 DEF InViews, InView
  <2>2. \A w \in {"32", "64"} : Ask("registry", [Asked EXCEPT !.via = w]) \in RegistryAsks
    BY <2>1 DEF Ask, RegistryAsks
  <2> HIDE DEF views
  <2> QED BY <1>3, <2>2
<1>5. more \in Seq(RegistryAsks)
  <2>1. Len(views) \in Nat
    BY <1>3
  <2> HIDE DEF views
  <2> QED BY <1>4, <2>1
<1> HIDE DEF more
<1> QED BY <1>1, <1>5

LEMMA ListViewsTyped ==
  ASSUME Typed, ListViews
  PROVE  Typed'
<1>1. EntryLookUp /\ UNCHANGED <<found, report, present, unread>>
  BY DEF EntryLookUp, ListViews
<1>2. PICK more \in Seq(RegistryAsks) : Then(more)
  BY ViewsListed
<1>3. more \in Seq(EntryAsks)
  BY Wider DEF EntryAsks
<1> QED BY <1>1, <1>2, <1>3, MoreTyped DEF Typed

LEMMA LookUpRegistryKeyTyped ==
  ASSUME Typed, LookUpRegistryKey
  PROVE  Typed'
<1>1. EntryLookUp /\ todo # <<>> /\ UNCHANGED <<catalog, entry, libraries, keys>>
  BY LookUpFrame DEF EntryLookUp
<1>2. Asked \in InView /\ Asked \in Artifacts /\ Mention(Asked) \in Mentions
  BY <1>1, FirstArtifact, FirstAsk DEF LookUpRegistryKey, Asks
<1>3. CASE Asked.name \in Refused /\ Protect(Asked) /\ UNCHANGED present
  <2>1. ReportTyped'
    BY <1>1, <1>2, <1>3, SaysTyped DEF Protect
  <2> QED BY <1>1, <1>3, <2>1, RecordTyped DEF Protect, Typed
<1>4. CASE /\ Asked.name \notin Refused
           /\ Pending(Asked, "present", NotJudged) /\ SeenAs(Asked)
           /\ Then(<<>>)
           /\ UNCHANGED <<report, unread>>
  <2>1. Asked \in ToJudge
    BY <1>2, <1>4 DEF ToJudge, IsProtected, InView
  <2>2. found' \subseteq Judgement
    BY <1>4, <2>1, PendingUnjudged DEF Unjudged
  <2>3. ReportTyped'
    BY <1>1, <1>4, SameReport
  <2> QED BY <1>1, <1>2, <1>4, <2>2, <2>3, SeenTyped, RecordTyped DEF Typed
<1> QED BY <1>1, <1>3, <1>4, AbsentTyped, UnreadableTyped DEF LookUpRegistryKey

(* The paths of a template that are reached on this machine.                *)
PathsOf(template) == SetToSeq({p \in Expansions[template] : Reached(p)})

LEMMA PathsAreStrings ==
  ASSUME NEW template \in DOMAIN Expansions
  PROVE  PathsOf(template) \in Seq(STRING)
<1> DEFINE some == {p \in Expansions[template] : Reached(p)}
<1>1. some \subseteq Expansions[template] /\ some \subseteq STRING /\ IsFiniteSet(Expansions[template])
  BY AuditAssumption
<1>2. IsFiniteSet(some)
  BY <1>1, FS_Subset
<1> HIDE DEF some
<1>3. SetToSeq(some) \in Seq(some)
  BY <1>2, SequenceOfSet
<1>4. SetToSeq(some) \in Seq(STRING)
  BY <1>1, <1>3, Wider
<1> QED BY <1>4 DEF PathsOf, some

LEMMA PathsListed ==
  ASSUME Typed, ExpandTemplate, Asked.name \notin Unexpandable
  PROVE  \E more \in Seq(PathAsks) : Then(more)
<1> DEFINE paths == PathsOf(Asked.name)
           more  == [i \in 1..Len(paths) |-> Ask("path", Artifact("path", paths[i], "none"))]
<1>1. Asked \in Templated
  BY FirstArtifact DEF ExpandTemplate, Asks
<1>2. Then(more)
  BY DEF ExpandTemplate, PathsOf
<1>3. Asked.name \in DOMAIN Expansions
  BY <1>1 DEF Templated, Templates
<1>4. paths \in Seq(STRING)
  BY <1>3, PathsAreStrings
<1> HIDE DEF paths
<1>5. Len(paths) \in Nat /\ \A i \in 1..Len(paths) : paths[i] \in STRING
  BY <1>4
<1>6. \A i \in 1..Len(paths) : Ask("path", Artifact("path", paths[i], "none")) \in PathAsks
  BY <1>5 DEF Ask, Artifact, PathAsks, Unseen
<1>7. more \in Seq(PathAsks)
  BY <1>5, <1>6
<1> HIDE DEF more
<1> QED BY <1>2, <1>7

LEMMA ExpandTemplateTyped ==
  ASSUME Typed, ExpandTemplate
  PROVE  Typed'
<1>1. EntryLookUp /\ todo # <<>> /\ UNCHANGED <<catalog, entry, libraries, keys>>
  BY LookUpFrame DEF EntryLookUp
<1>2. CASE Asked.name \in Unexpandable
  BY <1>1, <1>2, UnreadableTyped DEF ExpandTemplate
<1>3. CASE Asked.name \notin Unexpandable
  <2>1. UNCHANGED <<found, report, present, unread>>
    BY <1>3 DEF ExpandTemplate
  <2>2. PICK more \in Seq(PathAsks) : Then(more)
    BY <1>3, PathsListed
  <2>3. more \in Seq(EntryAsks)
    BY Wider DEF EntryAsks
  <2> QED BY <1>1, <2>1, <2>2, <2>3, MoreTyped DEF Typed
<1> QED BY <1>2, <1>3

LEMMA LookUpPathTyped ==
  ASSUME Typed, LookUpPath
  PROVE  Typed'
<1>1. EntryLookUp /\ todo # <<>> /\ UNCHANGED <<catalog, entry, libraries, keys>>
  BY LookUpFrame DEF EntryLookUp
<1>2. Asked \in Unseen
  BY <1>1, FirstArtifact DEF LookUpPath, Asks
<1>3. ASSUME NEW kind \in {"file", "directory", "link"}, NEW path, path = [Asked EXCEPT !.via = kind],
             SeenAs(path),
             IF RefusesPath(path) THEN Protect(path)
             ELSE /\ IF kind = "file" /\ path.name \in Signable
                     THEN Then(<<Ask("signature", path)>>) /\ UNCHANGED found
                     ELSE Then(<<>>) /\ Pending(path, "present", NotJudged)
                  /\ UNCHANGED <<report, unread>>
      PROVE Typed'
  <2>1. path \in Artifacts
    BY <1>2, <1>3 DEF Unseen, Artifacts, Kinds, Names, Vias
  <2>2. present' \subseteq Mentions
    BY <1>1, <1>3, <2>1, SeenTyped
  <2>3. CASE RefusesPath(path)
    <3>1. Mention(path) \in Mentions
      BY <1>1, <2>1, FirstAsk DEF Mention, Mentions
    <3>2. ReportTyped'
      BY <1>1, <1>3, <2>3, <3>1, SaysTyped DEF Protect
    <3> QED BY <1>1, <1>3, <2>2, <2>3, <3>2, RecordTyped DEF Protect, Typed
  <2>4. CASE ~RefusesPath(path)
    <3>1. path \in ToJudge
      BY <2>1, <2>4 DEF ToJudge, IsProtected, RefusesPath
    <3>2. ReportTyped'
      BY <1>1, <1>3, <2>4, SameReport
    <3>3. CASE Then(<<Ask("signature", path)>>) /\ UNCHANGED found
      <4>1. Ask("signature", path) \in EntryAsks
        BY <3>1 DEF Ask, EntryAsks, StartAsks, SignatureAsks
      <4> QED BY <1>1, <1>3, <2>2, <2>4, <3>3, <4>1, OneAsk, MoreTyped
    <3>4. CASE Then(<<>>) /\ Pending(path, "present", NotJudged)
      <4>1. found' \subseteq Judgement
        BY <3>1, <3>4, PendingUnjudged DEF Unjudged
      <4> QED BY <1>1, <1>3, <2>2, <2>4, <3>2, <3>4, <4>1, RecordTyped DEF Typed
    <3> QED BY <1>3, <2>4, <3>3, <3>4
  <2> QED BY <2>3, <2>4
<1> QED BY <1>1, <1>3, AbsentTyped, UnreadableTyped DEF LookUpPath

LEMMA TypedStep == Typed /\ [Next]_vars => Typed'
<1>1. ASSUME Typed, Next PROVE Typed'
  BY <1>1, FindTyped, ReadDriverKeysTyped, LookUpServiceTyped, LookUpImageTyped,
     ReadSignatureTyped, MatchDriverTyped, LookUpLooseImageTyped, ListViewsTyped,
     LookUpRegistryKeyTyped, ExpandTemplateTyped, LookUpPathTyped, SettleTyped DEF Next
<1>2. ASSUME Typed, UNCHANGED vars PROVE Typed'
  <2>1. Mentions' = Mentions /\ Judgement' = Judgement
    BY <1>2, SameConstants DEF vars
  <2>2. ReportTyped'
    BY <1>2, SameReport DEF vars
  <2>3. Phase'
    BY <1>2 DEF vars, Typed, Phase
  <2> QED BY <1>2, <2>1, <2>2, <2>3 DEF vars, Typed
<1> QED BY <1>1, <1>2

LEMMA TypedIsTyped == Typed => TypeOK
<1> SUFFICES ASSUME Typed PROVE TypeOK
  OBVIOUS
<1>1. Len(catalog) \in Nat
  BY CatalogsAreTyped DEF Typed
<1>2. entry \in 0..(Len(catalog) + 1)
  BY <1>1 DEF Typed, Phase
<1>3. \A i \in 1..Len(todo) : DOMAIN todo[i] = {"what", "artifact"}
  <2>1. CASE todo \in Seq(ListAsks)
    <3>1. \A i \in 1..Len(todo) : todo[i] \in ListAsks
      BY <2>1
    <3> QED BY <3>1 DEF ListAsks
  <2>2. CASE todo \in Seq(EntryAsks)
    <3>1. \A i \in 1..Len(todo) : todo[i] \in EntryAsks
      BY <2>2
    <3>2. \A a \in EntryAsks : DOMAIN a = {"what", "artifact"}
      BY DEF EntryAsks, StartAsks, ServiceAsks, KeyAsks, DriverAsks, ImageAsks, ViewAsks,
             RegistryAsks, TemplateAsks, PathAsks, SignatureAsks
    <3> QED BY <3>1, <3>2
  <2>3. CASE todo = <<>>
    BY <2>3
  <2> QED BY <2>1, <2>2, <2>3 DEF Typed, Phase
<1>4. \A p \in found : p.judged \in Classification \cup {NotJudged}
  BY DEF Typed, Judgement
<1>5. \A f \in report.findings : f.classification \in Classification /\ f.entry \in 1..Len(catalog)
  BY DEF Typed, ReportTyped
<1>6. \A m \in report.protected \cup report.disbelieved \cup report.unreadable :
        m.entry \in 0..Len(catalog)
  BY DEF Typed, ReportTyped, Mentions
<1>7. \A m \in present \cup unread : m.entry \in 0..Len(catalog)
  BY DEF Typed, Mentions
<1> QED BY <1>2, <1>3, <1>4, <1>5, <1>6, <1>7 DEF Typed, TypeOK

(* The audit stays within its types: at every moment the queue holds only   *)
(* lookups of the entry being audited, and what is reported is of an entry  *)
(* of the catalog (engine.rs, audit and run).                               *)
THEOREM TypeCorrect == Spec => []TypeOK
<1>1. Spec => []Typed
  BY TypedInit, TypedStep, PTL DEF Spec
<1> QED BY <1>1, TypedIsTyped, PTL

-------------------------------------------------------------------------------
(* What could not be read.                                                  *)

LEMMA ToldInit == Init => Told
BY DEF Init, Told

(* Every lookup that is not answered is reported, but for what is           *)
(* overlooked; nothing leaves the report.                                   *)
LEMMA UnreadableIsTold ==
  ASSUME Typed, Told, Unreadable
  PROVE  Told'
BY DEF Unreadable, Says, Unanswered, Told, Typed, ReportTyped, Overlooked

LEMMA SaysKeeps ==
  ASSUME Typed, Told, unread' = unread, NEW item,
         NEW list \in {"protected", "disbelieved"}, Says(list, item)
  PROVE  Told'
<1>1. report'.unreadable = report.unreadable
  <2>1. CASE list = "protected"
    BY <2>1 DEF Says, Typed, ReportTyped
  <2>2. CASE list = "disbelieved"
    BY <2>2 DEF Says, Typed, ReportTyped
  <2> QED BY <2>1, <2>2
<1> QED BY <1>1 DEF Told, Overlooked

LEMMA ToldStep == Typed /\ Told /\ [Next]_vars => Told'
<1> SUFFICES ASSUME Typed, Told, [Next]_vars PROVE Told'
  OBVIOUS
<1>0. CASE UNCHANGED <<report, unread>>
  BY <1>0 DEF Told, Overlooked
<1>a. CASE Unreadable
  BY <1>a, UnreadableIsTold
<1>1. CASE FindSteamLibraries
  <2>1. CASE TakenForAbsent(Artifact("install", "Steam", ""))
    <3>1. Mention(Artifact("install", "Steam", "")).item.kind \in Overlooked
      BY DEF Mention, Artifact, Overlooked
    <3> QED BY <2>1, <3>1 DEF TakenForAbsent, Unanswered, Told, Overlooked
  <2> QED BY <1>0, <1>a, <1>1, <2>1 DEF FindSteamLibraries, Absent
<1>2. CASE FindEpicLibraries
  <2>1. ASSUME NEW dropped \in SUBSET DOMAIN EpicGames,
               NEW bad \in SUBSET (DOMAIN EpicGames \ dropped),
               report' = [report EXCEPT !.unreadable = @ \cup
                            {Mention(Artifact("manifest", g, "")) : g \in bad}],
               unread' = unread \cup {Mention(Artifact("manifest", g, "")) : g \in bad}
                                \cup {Mention(Artifact("listing", g, "")) : g \in dropped}
        PROVE Told'
    <3>1. report'.unreadable = report.unreadable \cup {Mention(Artifact("manifest", g, "")) : g \in bad}
      BY <2>1 DEF Typed, ReportTyped
    <3>2. \A g \in dropped : Mention(Artifact("listing", g, "")).item.kind \in Overlooked
      BY DEF Mention, Artifact, Overlooked
    <3> QED BY <2>1, <3>1, <3>2 DEF Told, Overlooked
  <2> QED BY <1>a, <1>2, <2>1 DEF FindEpicLibraries
<1>3. CASE ReadDriverKeys
  <2>1. ASSUME NEW l \in KeyListings,
               report' = [report EXCEPT !.unreadable = @ \cup
                            {Mention(Artifact("service key", k.name, "")) : k \in l["closed"]}],
               unread' = unread
                 \cup {Mention(Artifact("service key", k.name, "")) : k \in l["closed"]}
                 \cup {Mention(Artifact("service value", k.name, "")) : k \in l["blank"]}
        PROVE Told'
    <3>1. report'.unreadable =
            report.unreadable \cup {Mention(Artifact("service key", k.name, "")) : k \in l["closed"]}
      BY <2>1 DEF Typed, ReportTyped
    <3>2. \A k \in l["blank"] : Mention(Artifact("service value", k.name, "")).item.kind \in Overlooked
      BY DEF Mention, Artifact, Overlooked
    <3> QED BY <2>1, <3>1, <3>2 DEF Told, Overlooked
  <2>2. ASSUME Says("unreadable", Asked), Unanswered(Asked)
        PROVE Told'
    BY <2>2 DEF Says, Unanswered, Told, Typed, ReportTyped, Overlooked
  <2> QED BY <1>3, <2>1, <2>2 DEF ReadDriverKeys
<1>4. CASE LookUpService
  BY <1>0, <1>a, <1>4, SaysKeeps DEF LookUpService, WithImage
<1>5. CASE LookUpServiceKey
  <2>1. CASE WithImage(Asked, FALSE) /\ Unanswered([Asked EXCEPT !.kind = "service value"])
    <3>1. Asked \in Artifacts
      BY <1>5, FirstAsk DEF LookUpServiceKey, Asks
    <3>2. Mention([Asked EXCEPT !.kind = "service value"]).item.kind \in Overlooked
      BY <3>1 DEF Mention, Artifacts, Overlooked
    <3> QED BY <2>1, <3>2 DEF WithImage, Unanswered, Told, Overlooked
  <2> QED BY <1>0, <1>a, <1>5, <2>1 DEF LookUpServiceKey, WithImage, Absent
<1>6. CASE LookUpImage
  <2>1. CASE Unanswered([Asked EXCEPT !.kind = "image"])
    <3>1. Asked \in Artifacts
      BY <1>6, FirstAsk DEF LookUpImage, Asks
    <3>2. Mention([Asked EXCEPT !.kind = "image"]).item.kind \in Overlooked
      BY <3>1 DEF Mention, Artifacts, Overlooked
    <3> QED BY <1>6, <2>1, <3>2 DEF LookUpImage, Unanswered, Told, Overlooked
  <2> QED BY <1>0, <1>6, <2>1 DEF LookUpImage
<1>7. CASE ReadSignature
  <2>1. CASE Unanswered([Asked EXCEPT !.kind = "signature"])
    <3>1. Asked \in Artifacts
      BY <1>7, FirstAsk DEF ReadSignature, Asks
    <3>2. Mention([Asked EXCEPT !.kind = "signature"]).item.kind \in Overlooked
      BY <3>1 DEF Mention, Artifacts, Overlooked
    <3> QED BY <1>7, <2>1, <3>2 DEF ReadSignature, Unanswered, Told, Overlooked
  <2> QED BY <1>0, <1>7, <2>1 DEF ReadSignature
<1>14. CASE MatchDriver \/ ListViews
  BY <1>0, <1>14 DEF MatchDriver, ListViews
<1>8. CASE LookUpLooseImage
  BY <1>0, <1>a, <1>8 DEF LookUpLooseImage, Absent
<1>9. CASE LookUpRegistryKey
  BY <1>0, <1>a, <1>9, SaysKeeps DEF LookUpRegistryKey, Protect, Absent
<1>10. CASE ExpandTemplate
  BY <1>0, <1>a, <1>10 DEF ExpandTemplate
<1>11. CASE LookUpPath
  <2>1. CASE \E path : Protect(path)
    BY <2>1, SaysKeeps DEF Protect
  <2> QED BY <1>0, <1>a, <1>11, <2>1 DEF LookUpPath, Absent
<1>12. CASE Settle
  BY <1>12 DEF Settle, Told, Typed, ReportTyped, Overlooked
<1>13. CASE UNCHANGED vars
  BY <1>0, <1>13 DEF vars
<1> QED BY <1>1, <1>2, <1>3, <1>4, <1>5, <1>6, <1>7, <1>8, <1>9, <1>10, <1>11, <1>12, <1>13,
           <1>14 DEF Next

(* A scan that is not partial could read everything but what the code       *)
(* overlooks, an image or its signature, Steam's directory, an entry of     *)
(* Epic's directory, the values of a service's key (engine.rs, run;         *)
(* libraries.rs, discover; wardsweep.rs, exit_code): at every moment what   *)
(* was not read is in the report or of one of these kinds.                  *)
THEOREM PartialIsTold == Spec => []UnreadableMakesPartial
<1>1. Told => UnreadableMakesPartial
  BY DEF Told, UnreadableMakesPartial, ExitCode, Overlooked
<1>2. Spec => []Typed
  BY TypedInit, TypedStep, PTL DEF Spec
<1>3. Spec => []Told
  BY <1>2, ToldInit, ToldStep, PTL DEF Spec
<1> QED BY <1>1, <1>3, PTL

-------------------------------------------------------------------------------
(* The classification.                                                      *)

LEMMA ConfirmingSignature ==
  ASSUME NEW signature, NEW e, Judge(signature, e) = "confirmed"
  PROVE  signature \in e.authenticode_cn \ {Attestation}
BY DEF Judge

LEMMA SuspectSignature ==
  ASSUME NEW signature \in Signature, NEW e, Judge(signature, e) = "suspicious"
  PROVE  \/ signature \in {"unsigned", "invalid"}
         \/ e.authenticode_cn # {} /\ signature \in Signers \ (e.authenticode_cn \cup {Attestation})
BY DEF Judge, Signature, Unsigned

(* The findings an entry is settled with.                                   *)
NewFindings ==
  {[entry |-> entry, artifact |-> p.artifact, evidence |-> p.evidence,
    classification |-> Settled(p)] : p \in found}

LEMMA SettledFindings ==
  ASSUME Typed, Settle
  PROVE  /\ report'.findings = report.findings \cup NewFindings
         /\ \A f \in NewFindings : f.entry = entry
         /\ \A f \in report.findings : f.entry # entry
         /\ catalog' = catalog
BY DEF Settle, NewFindings, Typed, ReportTyped

LEMMA NoFindings ==
  ASSUME Init
  PROVE  report.findings = {}
<1>1. report = [findings |-> {}, protected |-> {}, disbelieved |-> {}, unreadable |-> {}]
  BY DEF Init
<1> QED BY <1>1

LEMMA SaysFindings ==
  ASSUME Typed, NEW item, NEW list \in {"protected", "disbelieved", "unreadable"}, Says(list, item)
  PROVE  report'.findings = report.findings
<1>1. CASE list = "protected"
  BY <1>1 DEF Says, Typed, ReportTyped
<1>2. CASE list = "disbelieved"
  BY <1>2 DEF Says, Typed, ReportTyped
<1>3. CASE list = "unreadable"
  BY <1>3 DEF Says, Typed, ReportTyped
<1> QED BY <1>1, <1>2, <1>3

LEMMA OtherFindings ==
  ASSUME Typed, [Next]_vars, ~Settle
  PROVE  report'.findings = report.findings /\ catalog' = catalog
<1>0. CASE UNCHANGED <<catalog, report>>
  BY <1>0
<1>a. Unreadable => report'.findings = report.findings
  BY SaysFindings DEF Unreadable
<1>1. CASE FindSteamLibraries
  <2>1. UNCHANGED catalog
    BY <1>1 DEF FindSteamLibraries
  <2> QED BY <1>a, <1>1, <2>1 DEF FindSteamLibraries, Absent, TakenForAbsent
<1>2. CASE FindEpicLibraries
  <2>1. UNCHANGED catalog
    BY <1>2 DEF FindEpicLibraries
  <2>2. ASSUME NEW some, report' = [report EXCEPT !.unreadable = @ \cup some]
        PROVE report'.findings = report.findings
    BY <2>2 DEF Typed, ReportTyped
  <2> QED BY <1>a, <1>2, <2>1, <2>2 DEF FindEpicLibraries
<1>3. CASE ReadDriverKeys
  <2>1. UNCHANGED catalog
    BY <1>3 DEF ReadDriverKeys
  <2>2. ASSUME NEW some, report' = [report EXCEPT !.unreadable = @ \cup some]
        PROVE report'.findings = report.findings
    BY <2>2 DEF Typed, ReportTyped
  <2> QED BY <1>3, <2>1, <2>2, SaysFindings DEF ReadDriverKeys
<1>4. CASE EntryLookUp
  <2>1. UNCHANGED catalog
    BY <1>4, LookUpFrame
  <2>2. CASE \E item, list : /\ list \in {"protected", "disbelieved", "unreadable"}
                             /\ Says(list, item)
    BY <2>1, <2>2, SaysFindings
  <2>3. CASE ~\E item, list : /\ list \in {"protected", "disbelieved", "unreadable"}
                              /\ Says(list, item)
    <3>1. CASE LookUpService \/ LookUpServiceKey
      BY <2>3, <3>1 DEF LookUpService, LookUpServiceKey, WithImage, Absent, Unreadable
    <3>2. CASE LookUpImage \/ ReadSignature \/ MatchDriver \/ ListViews
      BY <3>2 DEF LookUpImage, ReadSignature, MatchDriver, ListViews
    <3>3. CASE LookUpLooseImage \/ LookUpRegistryKey
      BY <2>3, <3>3 DEF LookUpLooseImage, LookUpRegistryKey, Protect, Absent, Unreadable
    <3>4. CASE ExpandTemplate \/ LookUpPath
      BY <2>3, <3>4 DEF ExpandTemplate, LookUpPath, Protect, Absent, Unreadable
    <3> QED BY <1>4, <2>1, <3>1, <3>2, <3>3, <3>4 DEF EntryLookUp
  <2> QED BY <2>2, <2>3
<1>5. CASE UNCHANGED vars
  BY <1>0, <1>5 DEF vars
<1> QED BY <1>1, <1>2, <1>3, <1>4, <1>5 DEF Next, EntryLookUp

LEMMA Unjudgeable == Signature \cap Unjudged = {}
BY AuditAssumption DEF Signature, Unsigned, Unjudged

LEMMA ConfirmedStep ==
  Typed /\ OnlyThePublisherConfirms /\ [Next]_vars => OnlyThePublisherConfirms'
<1> SUFFICES ASSUME Typed, OnlyThePublisherConfirms, [Next]_vars
             PROVE  OnlyThePublisherConfirms'
  OBVIOUS
<1>1. CASE ~Settle
  BY <1>1, OtherFindings DEF OnlyThePublisherConfirms, Signature, Unsigned
<1>2. CASE Settle
  <2>1. /\ report'.findings = report.findings \cup NewFindings
        /\ \A f \in NewFindings : f.entry = entry
        /\ \A f \in report.findings : f.entry # entry
        /\ catalog' = catalog
    BY <1>2, SettledFindings
  <2> DEFINE Publisher(f) == catalog[f.entry].authenticode_cn \ {Attestation}
             Siblings(f)  == {g \in report'.findings : g.entry = f.entry}
             ByItself(f)  == f.evidence \in Publisher(f)
             ByAnother(f) == /\ f.evidence \notin Signature
                             /\ \E g \in Siblings(f) : g.evidence \in Publisher(f)
                             /\ \A g \in Siblings(f) : g.classification # "suspicious"
  <2>2. ASSUME NEW f \in report'.findings, f.classification = "confirmed"
        PROVE  ByItself(f) \/ ByAnother(f)
    <3>1. CASE f \in report.findings
      <4>1. Siblings(f) = {g \in report.findings : g.entry = f.entry}
        BY <2>1, <3>1
      <4> QED BY <2>2, <3>1, <4>1 DEF OnlyThePublisherConfirms
    <3>2. CASE f \in NewFindings
      <4>1. PICK p \in found : f = [entry |-> entry, artifact |-> p.artifact,
                                    evidence |-> p.evidence, classification |-> Settled(p)]
        BY <3>2 DEF NewFindings
      <4>2. p \in Judgement /\ Settled(p) = "confirmed" /\ f.entry = entry /\ f.evidence = p.evidence
        BY <2>2, <4>1 DEF Typed
      <4>3. CASE p.judged # NotJudged
        <5>1. Judge(p.evidence, catalog[entry]) = "confirmed"
          BY <4>2, <4>3 DEF Judgement, Settled
        <5> QED BY <4>2, <5>1, ConfirmingSignature
      <4>4. CASE p.judged = NotJudged
        <5>1. p.evidence \in Unjudged
          BY <4>2, <4>4 DEF Judgement, NotJudged, Classification
        <5>2. p.evidence \notin Signature
          BY <5>1, Unjudgeable
        <5>3. /\ \E q \in found : q.judged = "confirmed"
              /\ \A q \in found : q.judged # "suspicious"
          BY <4>2, <4>4 DEF Settled
        <5>4. PICK q \in found : q.judged = "confirmed"
          BY <5>3
        <5>5. q.evidence \in Publisher(f)
          <6>1. Judge(q.evidence, catalog[entry]) = "confirmed"
            BY <5>4 DEF Typed, Judgement, NotJudged
          <6> QED BY <4>2, <6>1, ConfirmingSignature
        <5>6. \E g \in Siblings(f) : g.evidence \in Publisher(f)
          <6> DEFINE g == [entry |-> entry, artifact |-> q.artifact,
                           evidence |-> q.evidence, classification |-> Settled(q)]
          <6>1. g \in NewFindings
            BY DEF NewFindings
          <6>2. g \in Siblings(f) /\ g.evidence = q.evidence
            BY <2>1, <4>2, <6>1
          <6> HIDE DEF g
          <6> QED BY <5>5, <6>2
        <5>7. ASSUME NEW g \in Siblings(f)
              PROVE  g.classification # "suspicious"
          <6>1. g \in NewFindings
            BY <2>1, <4>2
          <6>2. PICK r \in found : g.classification = Settled(r)
            BY <6>1 DEF NewFindings
          <6> QED BY <5>3, <6>2 DEF Settled
        <5> QED BY <4>2, <5>2, <5>6, <5>7
      <4> QED BY <4>3, <4>4
    <3> QED BY <2>1, <3>1, <3>2
  <2> QED BY <2>1, <2>2 DEF OnlyThePublisherConfirms, Signature, Unsigned
<1> QED BY <1>1, <1>2

(* Confirmed means that the entry's publisher signed the file itself, or,   *)
(* for what has no signature, another file of this very entry, none of      *)
(* whose files is suspicious (engine.rs, judge and settle); of every entry  *)
(* already settled, whatever is found later.                                *)
THEOREM ConfirmedByPublisher == Spec => []OnlyThePublisherConfirms
<1>1. Init => OnlyThePublisherConfirms
  <2>1. Init => report.findings = {}
    BY NoFindings
  <2> QED BY <2>1 DEF OnlyThePublisherConfirms
<1>2. Spec => []Typed
  BY TypedInit, TypedStep, PTL DEF Spec
<1> QED BY <1>1, <1>2, ConfirmedStep, PTL DEF Spec

LEMMA SuspicionStep ==
  Typed /\ OnlyASignatureMakesSuspicious /\ [Next]_vars => OnlyASignatureMakesSuspicious'
<1> SUFFICES ASSUME Typed, OnlyASignatureMakesSuspicious, [Next]_vars
             PROVE  OnlyASignatureMakesSuspicious'
  OBVIOUS
<1>1. CASE ~Settle
  BY <1>1, OtherFindings DEF OnlyASignatureMakesSuspicious
<1>2. CASE Settle
  <2>1. /\ report'.findings = report.findings \cup NewFindings
        /\ catalog' = catalog
    BY <1>2, SettledFindings
  <2>2. ASSUME NEW f \in NewFindings, f.classification = "suspicious"
        PROVE  \/ f.evidence \in {"unsigned", "invalid"}
               \/ /\ catalog[f.entry].authenticode_cn # {}
                  /\ f.evidence \in Signers \ (catalog[f.entry].authenticode_cn \cup {Attestation})
    <3>1. PICK p \in found : f = [entry |-> entry, artifact |-> p.artifact,
                                  evidence |-> p.evidence, classification |-> Settled(p)]
      BY DEF NewFindings
    <3>2. p \in Judgement /\ Settled(p) = "suspicious" /\ f.entry = entry /\ f.evidence = p.evidence
      BY <2>2, <3>1 DEF Typed
    <3>3. p.judged # NotJudged /\ p.judged = "suspicious"
      BY <3>2 DEF Settled
    <3>4. p.evidence \in Signature /\ Judge(p.evidence, catalog[entry]) = "suspicious"
      BY <3>2, <3>3 DEF Judgement
    <3> QED BY <3>2, <3>4, SuspectSignature
  <2> QED BY <2>1, <2>2 DEF OnlyASignatureMakesSuspicious
<1> QED BY <1>1, <1>2

(* Nobody is made suspicious by a file that could not be checked, was not   *)
(* there, or has no publisher to be compared with (engine.rs, judge).       *)
THEOREM SuspectedBySignature == Spec => []OnlyASignatureMakesSuspicious
<1>1. Init => OnlyASignatureMakesSuspicious
  <2>1. Init => report.findings = {}
    BY NoFindings
  <2> QED BY <2>1 DEF OnlyASignatureMakesSuspicious
<1>2. Spec => []Typed
  BY TypedInit, TypedStep, PTL DEF Spec
<1> QED BY <1>1, <1>2, SuspicionStep, PTL DEF Spec

-------------------------------------------------------------------------------
(* What the machine said.                                                   *)

(* No entry names a service twice.                                          *)
NoServiceTwice ==
  \A c \in Catalogs : \A i \in 1..Len(c) : \A j, k \in 1..Len(c[i].services) :
    c[i].services[j] = c[i].services[k] => j = k

SetAside == report.protected \cup report.disbelieved

(* The artifacts of a queue whose image or signature is awaited, and the    *)
(* services still to be asked for.                                          *)
LookKinds    == {"image", "signature"}
LookingIn(q) == {a.artifact : a \in {b \in ToSet(q) : b.what \in LookKinds}}
AskingIn(q)  == {a.artifact : a \in {b \in ToSet(q) : b.what = "service"}}
Looking      == LookingIn(todo)
Pended       == {p.artifact : p \in found}
Awaited      == Looking \cup Pended

(* Of the entry being audited, what was seen is set aside or awaited; of    *)
(* those before it, set aside or found.                                     *)
Accounted ==
  /\ \A m \in present :
       /\ m.entry \in 0..entry
       /\ m.entry = entry /\ m.item.kind \notin Dropped => m \in SetAside \/ m.item \in Awaited
       /\ m.entry < entry /\ m.item.kind \notin Dropped => m \in FoundItems \cup SetAside
  /\ \A a \in Awaited : ~IsProtected(a) /\ Mention(a) \in present \ SetAside
  /\ FoundItems \subseteq present \ SetAside
  /\ ~\E m \in FoundItems : IsProtected(m.item)
  /\ \A m \in report.protected : IsProtected(m.item)
  /\ \A m \in report.disbelieved : m \in present /\ m.item \in Services

(* A service is asked for once, so what is disbelieved is not found later.  *)
OnceIn(q) ==
  \A i, j \in 1..Len(q) :
    q[i].what = "service" /\ q[j].what = "service" /\ q[i].artifact = q[j].artifact => i = j

AskedOnce ==
  /\ \A a \in AskingIn(todo) : Mention(a) \notin present
  /\ OnceIn(todo)

LEMMA InitialAsks == Init => todo \in Seq(ListAsks)
<1>1. Init => Typed /\ entry = 0
  BY TypedInit DEF Init
<1>2. Typed /\ entry = 0 => todo \in Seq(ListAsks)
  BY CatalogsAreTyped, NoAsk DEF Typed, Phase
<1> QED BY <1>1, <1>2

LEMMA AccountedInit == Init => Accounted /\ AskedOnce
<1> SUFFICES ASSUME Init PROVE Accounted /\ AskedOnce
  OBVIOUS
<1>1. /\ todo = <<Ask("steam", Artifact("library list", "Steam", "")),
                  Ask("epic", Artifact("library list", "Epic", "")),
                  Ask("driver keys", Artifact("Services", "", ""))>>
      /\ report = [findings |-> {}, protected |-> {}, disbelieved |-> {}, unreadable |-> {}]
      /\ present = {} /\ found = {}
  BY DEF Init
<1>2. /\ \A i \in 1..Len(todo) : todo[i].what \in ListKinds
      /\ \A a \in ToSet(todo) : a.what \in ListKinds
  <2>1. todo \in Seq(ListAsks)
    BY InitialAsks
  <2>2. \A i \in 1..Len(todo) : todo[i] \in ListAsks
    BY <2>1
  <2>3. DOMAIN todo = 1..Len(todo)
    BY <2>1
  <2> QED BY <2>2, <2>3 DEF ListAsks, ToSet
<1>3. LookingIn(todo) = {} /\ OnceIn(todo)
  BY <1>2 DEF LookingIn, LookKinds, OnceIn, ListKinds
<1>4. report.findings = {} /\ report.protected = {} /\ report.disbelieved = {}
  BY <1>1
<1>5. FoundItems = {} /\ Awaited = {}
  BY <1>1, <1>3, <1>4 DEF FoundItems, Awaited, Looking, Pended
<1> QED BY <1>1, <1>3, <1>4, <1>5 DEF Accounted, AskedOnce

LEMMA QueueElements ==
  ASSUME NEW S, NEW s \in Seq(S), s # <<>>, NEW more \in Seq(S)
  PROVE  /\ ToSet(s) = {Head(s)} \cup ToSet(Tail(s))
         /\ ToSet(more \o Tail(s)) = ToSet(more) \cup ToSet(Tail(s))
<1>1. /\ DOMAIN s = 1..Len(s) /\ Len(s) \in Nat \ {0}
      /\ Head(s) = s[1]
      /\ DOMAIN Tail(s) = 1..(Len(s) - 1)
      /\ \A i \in 1..(Len(s) - 1) : Tail(s)[i] = s[i + 1]
  OBVIOUS
<1>2. ToSet(s) = {Head(s)} \cup ToSet(Tail(s))
  <2>1. ASSUME NEW i \in 1..Len(s) PROVE s[i] \in {Head(s)} \cup ToSet(Tail(s))
    <3>1. CASE i = 1
      BY <1>1, <3>1
    <3>2. CASE i # 1
      <4>1. i - 1 \in 1..(Len(s) - 1) /\ Tail(s)[i - 1] = s[i]
        BY <1>1, <3>2
      <4> QED BY <1>1, <4>1 DEF ToSet
    <3> QED BY <3>1, <3>2
  <2>2. ASSUME NEW i \in 1..(Len(s) - 1) PROVE Tail(s)[i] \in ToSet(s)
    <3>1. i + 1 \in 1..Len(s)
      BY <1>1
    <3> QED BY <1>1, <3>1 DEF ToSet
  <2>3. Head(s) \in ToSet(s)
    BY <1>1 DEF ToSet
  <2> QED BY <1>1, <2>1, <2>2, <2>3 DEF ToSet
<1>3. ToSet(more \o Tail(s)) = ToSet(more) \cup ToSet(Tail(s))
  <2> DEFINE t == Tail(s)
  <2>1. t \in Seq(S)
    BY Turned
  <2> HIDE DEF t
  <2>2. /\ DOMAIN more = 1..Len(more) /\ DOMAIN t = 1..Len(t)
        /\ Len(more) \in Nat /\ Len(t) \in Nat
        /\ DOMAIN (more \o t) = 1..(Len(more) + Len(t))
        /\ \A i \in 1..Len(more) : (more \o t)[i] = more[i]
        /\ \A i \in (Len(more) + 1)..(Len(more) + Len(t)) : (more \o t)[i] = t[i - Len(more)]
    BY <2>1
  <2>3. ASSUME NEW i \in 1..(Len(more) + Len(t)) PROVE (more \o t)[i] \in ToSet(more) \cup ToSet(t)
    <3>1. CASE i <= Len(more)
      BY <2>2, <3>1 DEF ToSet
    <3>2. CASE i > Len(more)
      <4>1. i - Len(more) \in 1..Len(t) /\ (more \o t)[i] = t[i - Len(more)]
        BY <2>2, <3>2
      <4> QED BY <2>2, <4>1 DEF ToSet
    <3> QED BY <2>2, <3>1, <3>2
  <2>4. ASSUME NEW i \in 1..Len(more) PROVE more[i] \in ToSet(more \o t)
    BY <2>2 DEF ToSet
  <2>5. ASSUME NEW i \in 1..Len(t) PROVE t[i] \in ToSet(more \o t)
    <3>1. i + Len(more) \in 1..(Len(more) + Len(t)) /\ (more \o t)[i + Len(more)] = t[i]
      BY <2>2
    <3> QED BY <2>2, <3>1 DEF ToSet
  <2>6. ToSet(more \o t) = ToSet(more) \cup ToSet(t)
    <3>1. ToSet(more \o t) \subseteq ToSet(more) \cup ToSet(t)
      <4> SUFFICES ASSUME NEW x \in ToSet(more \o t) PROVE x \in ToSet(more) \cup ToSet(t)
        OBVIOUS
      <4>1. PICK i \in 1..(Len(more) + Len(t)) : x = (more \o t)[i]
        BY <2>2 DEF ToSet
      <4> QED BY <2>3, <4>1
    <3>2. ToSet(more) \subseteq ToSet(more \o t)
      BY <2>2, <2>4 DEF ToSet
    <3>3. ToSet(t) \subseteq ToSet(more \o t)
      BY <2>2, <2>5 DEF ToSet
    <3> QED BY <3>1, <3>2, <3>3
  <2> QED BY <2>6 DEF t
<1> QED BY <1>2, <1>3

LEMMA LookingTurned ==
  ASSUME Typed, todo # <<>>, Head(todo).what \notin ListKinds,
         NEW more \in Seq(EntryAsks), Then(more)
  PROVE  /\ Looking' = LookingIn(more) \cup LookingIn(Tail(todo))
         /\ Looking = (IF Head(todo).what \in LookKinds THEN {Asked} ELSE {})
                      \cup LookingIn(Tail(todo))
<1>1. todo \in Seq(EntryAsks)
  BY FirstAsk
<1>2. /\ ToSet(todo) = {Head(todo)} \cup ToSet(Tail(todo))
      /\ ToSet(todo') = ToSet(more) \cup ToSet(Tail(todo))
  BY <1>1, QueueElements DEF Then
<1>3. Looking' = LookingIn(todo')
  BY DEF Looking, LookingIn, LookKinds, ToSet
<1> QED BY <1>2, <1>3 DEF Looking, LookingIn, Asked

LEMMA LookingAtFew ==
  /\ LookingIn(<<>>) = {}
  /\ \A what, a : LookingIn(<<Ask(what, a)>>) = IF what \in LookKinds THEN {a} ELSE {}
<1>1. ToSet(<<>>) = {} /\ \A x : ToSet(<<x>>) = {x}
  BY DEF ToSet
<1> QED BY <1>1 DEF LookingIn, Ask

(* A lookup keeps the accounts: what was awaited is still, or is recorded;  *)
(* what is new is awaited or set aside.                                     *)
LEMMA Balanced ==
  ASSUME Typed, Accounted, UNCHANGED <<catalog, entry>>,
         report'.findings = report.findings,
         Awaited \subseteq Awaited', present \subseteq present', SetAside \subseteq SetAside',
         \A m \in present' \ present :
           /\ m.entry = entry
           /\ m.item.kind \in Dropped \/ m \in SetAside' \/ m.item \in Awaited',
         \A a \in Awaited' \ Awaited : ~IsProtected(a) /\ Mention(a) \in present' \ SetAside',
         \A m \in SetAside' \ SetAside : m.entry = entry /\ m.item \notin Awaited,
         \A m \in report'.protected : IsProtected(m.item),
         \A m \in report'.disbelieved : m \in present' /\ m.item \in Services
  PROVE  Accounted'
<1>1. \A a : Mention(a)' = Mention(a)
  BY SameConstants
<1>2. FoundItems' = FoundItems
  BY DEF FoundItems
<1>3. entry \in Nat
  BY CatalogsAreTyped DEF Typed, Phase
<1>4. \A m \in present' :
        /\ m.entry \in 0..entry'
        /\ m.entry = entry' /\ m.item.kind \notin Dropped =>
             m \in SetAside' \/ m.item \in Awaited'
        /\ m.entry < entry' /\ m.item.kind \notin Dropped => m \in FoundItems' \cup SetAside'
  <2>1. TAKE m \in present'
  <2>2. CASE m \in present
    BY <1>2, <2>2 DEF Accounted
  <2>3. CASE m \notin present
    BY <1>3, <2>1, <2>3
  <2> QED BY <2>2, <2>3
<1>5. \A a \in Awaited' : ~IsProtected(a) /\ Mention(a) \in present' \ SetAside'
  <2>1. TAKE a \in Awaited'
  <2>2. CASE a \in Awaited
    <3>1. Mention(a) \in present \ SetAside /\ ~IsProtected(a)
      BY <2>2 DEF Accounted
    <3>2. Mention(a).item = a
      BY DEF Mention
    <3> QED BY <2>2, <3>1, <3>2
  <2>3. CASE a \notin Awaited
    BY <2>1, <2>3
  <2> QED BY <2>2, <2>3
<1>6. FoundItems' \subseteq present' \ SetAside'
  <2>1. \A m \in FoundItems : m.entry < entry
    BY DEF FoundItems, Typed, ReportTyped
  <2>2. \A m \in FoundItems : m.entry # entry
    BY <1>3, <2>1
  <2> QED BY <1>2, <2>2 DEF Accounted
<1>7. ~\E m \in FoundItems' : IsProtected(m.item)
  BY <1>2 DEF Accounted
<1> QED BY <1>1, <1>4, <1>5, <1>6, <1>7 DEF Accounted, IsProtected

LEMMA SameLists ==
  ASSUME Typed, NEW item, Says("unreadable", item)
  PROVE  /\ report'.findings = report.findings /\ report'.protected = report.protected
         /\ report'.disbelieved = report.disbelieved
BY DEF Says, Typed, ReportTyped

(* Nothing new is seen or set aside.                                        *)
LEMMA NothingSeen ==
  ASSUME Typed, Accounted, UNCHANGED <<catalog, entry, present>>,
         report'.findings = report.findings /\ report'.protected = report.protected,
         report'.disbelieved = report.disbelieved,
         Awaited' = Awaited
  PROVE  Accounted'
<1>1. SetAside' = SetAside
  BY DEF SetAside
<1> QED BY <1>1, Balanced DEF Accounted

(* Artifacts are seen, and awaited from then on.                            *)
LEMMA SeenAndAwaited ==
  ASSUME Typed, Accounted, UNCHANGED <<catalog, entry, report>>,
         NEW new, \A a \in new : ~IsProtected(a) /\ Mention(a) \notin report.disbelieved,
         present' = present \cup {Mention(a) : a \in new},
         Awaited' = Awaited \cup new
  PROVE  Accounted'
<1>1. SetAside' = SetAside
  BY DEF SetAside
<1>2. \A a \in new : /\ Mention(a).entry = entry /\ Mention(a).item = a
                     /\ Mention(a) \notin SetAside
  BY DEF Mention, SetAside, Accounted
<1> QED BY <1>1, <1>2, Balanced DEF Accounted

(* An artifact is refused: whether or not it was seen, it is set aside.     *)
LEMMA SeenAndProtected ==
  ASSUME Typed, Accounted, UNCHANGED <<catalog, entry>>,
         NEW a, IsProtected(a), Says("protected", a),
         present' = present \/ SeenAs(a),
         Awaited' = Awaited
  PROVE  Accounted'
<1>1. /\ report'.findings = report.findings /\ report'.disbelieved = report.disbelieved
      /\ report'.protected = report.protected \cup {Mention(a)}
  BY DEF Says, Typed, ReportTyped
<1>2. Mention(a).entry = entry /\ Mention(a).item = a
  BY DEF Mention
<1>3. SetAside' = SetAside \cup {Mention(a)}
  BY <1>1 DEF SetAside
<1>4. a \notin Awaited
  BY DEF Accounted
<1>5. present \subseteq present' /\ present' \subseteq present \cup {Mention(a)}
  BY DEF SeenAs
<1> QED BY <1>1, <1>2, <1>3, <1>4, <1>5, Balanced DEF Accounted

(* Something is seen that the code drops.                                   *)
LEMMA SeenAndDropped ==
  ASSUME Typed, Accounted, UNCHANGED <<catalog, entry, report>>,
         NEW a, a.kind \in Dropped, SeenAs(a), Awaited' = Awaited
  PROVE  Accounted'
<1>1. SetAside' = SetAside
  BY DEF SetAside
<1>2. Mention(a).entry = entry /\ Mention(a).item = a
  BY DEF Mention
<1>3. present' = present \cup {Mention(a)}
  BY DEF SeenAs
<1> QED BY <1>1, <1>2, <1>3, Balanced DEF Accounted

(* A service is not believed.                                               *)
LEMMA SeenAndDisbelieved ==
  ASSUME Typed, Accounted, UNCHANGED <<catalog, entry>>,
         NEW a \in Services, Mention(a) \notin present,
         Says("disbelieved", a), SeenAs(a), Awaited' = Awaited
  PROVE  Accounted'
<1>1. /\ report'.findings = report.findings /\ report'.protected = report.protected
      /\ report'.disbelieved = report.disbelieved \cup {Mention(a)}
  BY DEF Says, Typed, ReportTyped
<1>2. Mention(a).entry = entry /\ Mention(a).item = a
  BY DEF Mention
<1>3. SetAside' = SetAside \cup {Mention(a)}
  BY <1>1 DEF SetAside
<1>4. a \notin Awaited
  BY DEF Accounted
<1>5. present' = present \cup {Mention(a)}
  BY DEF SeenAs
<1> QED BY <1>1, <1>2, <1>3, <1>4, <1>5, Balanced DEF Accounted

(* What an answer leaves awaited.                                           *)
LEMMA NoMore ==
  ASSUME Typed, EntryLookUp, Then(<<>>)
  PROVE  /\ Looking' = LookingIn(Tail(todo))
         /\ Looking = (IF Head(todo).what \in LookKinds THEN {Asked} ELSE {}) \cup Looking'
<1>1. <<>> \in Seq(EntryAsks)
  BY NoAsk
<1> QED BY <1>1, LookUpFrame, LookingTurned, LookingAtFew

LEMMA OneMore ==
  ASSUME Typed, EntryLookUp, NEW what, NEW a, Ask(what, a) \in EntryAsks,
         Then(<<Ask(what, a)>>)
  PROVE  /\ Looking' = (IF what \in LookKinds THEN {a} ELSE {}) \cup LookingIn(Tail(todo))
         /\ Looking = (IF Head(todo).what \in LookKinds THEN {Asked} ELSE {})
                      \cup LookingIn(Tail(todo))
<1>1. <<Ask(what, a)>> \in Seq(EntryAsks)
  BY OneAsk
<1> QED BY <1>1, LookUpFrame, LookingTurned, LookingAtFew

LEMMA PendedGrows ==
  ASSUME NEW a, NEW evidence, NEW judged, Pending(a, evidence, judged)
  PROVE  Pended' = Pended \cup {a}
<1> DEFINE p == [artifact |-> a, evidence |-> evidence, judged |-> judged]
<1>1. found' = found \cup {p} /\ p.artifact = a
  BY DEF Pending
<1> HIDE DEF p
<1> QED BY <1>1 DEF Pended

LEMMA PendedStays == found' = found => Pended' = Pended
BY DEF Pended

LEMMA OtherMore ==
  ASSUME Typed, EntryLookUp, Head(todo).what \notin LookKinds, found' = found,
         NEW what, what \notin LookKinds, NEW a, Ask(what, a) \in EntryAsks,
         Then(<<Ask(what, a)>>)
  PROVE  Awaited' = Awaited
<1>1. Looking' = LookingIn(Tail(todo)) /\ Looking = LookingIn(Tail(todo))
  BY OneMore
<1> QED BY <1>1, PendedStays DEF Awaited

(* One artifact is seen, and awaited from then on.                          *)
LEMMA OneAwaited ==
  ASSUME Typed, Accounted, UNCHANGED <<catalog, entry, report>>,
         NEW a, ~IsProtected(a), Mention(a) \notin report.disbelieved,
         SeenAs(a), Awaited' = Awaited \cup {a}
  PROVE  Accounted'
<1> DEFINE new == {a}
<1>1. present' = present \cup {Mention(b) : b \in new}
  BY DEF SeenAs
<1>2. \A b \in new : ~IsProtected(b) /\ Mention(b) \notin report.disbelieved
  OBVIOUS
<1>3. Awaited' = Awaited \cup new
  OBVIOUS
<1> HIDE DEF new
<1> QED BY <1>1, <1>2, <1>3, SeenAndAwaited

LEMMA AbsentAccounted ==
  ASSUME Typed, Accounted, EntryLookUp, Head(todo).what \notin LookKinds, Absent \/ Unreadable
  PROVE  Accounted'
<1>1. UNCHANGED <<catalog, entry, present, found>> /\ Then(<<>>)
  BY LookUpFrame DEF Absent, Unreadable
<1>2. /\ report'.findings = report.findings /\ report'.protected = report.protected
      /\ report'.disbelieved = report.disbelieved
  BY SameLists DEF Absent, Unreadable
<1>3. Awaited' = Awaited
  BY <1>1, NoMore, PendedStays DEF Awaited
<1> QED BY <1>1, <1>2, <1>3, NothingSeen

LEMMA WithImageAccounted ==
  ASSUME Typed, Accounted, EntryLookUp, Head(todo).what \notin LookKinds,
         NEW a \in Imaged, Mention(a) \notin report.disbelieved,
         NEW named \in BOOLEAN, WithImage(a, named)
  PROVE  Accounted'
<1>1. UNCHANGED <<catalog, entry, report>> /\ SeenAs(a)
  BY LookUpFrame DEF WithImage
<1>2. ~IsProtected(a)
  BY ImagedIsToJudge DEF ToJudge
<1>3. Awaited' = Awaited \cup {a}
  <2>1. CASE named
    <3>1. Then(<<Ask("image", a)>>) /\ found' = found
      BY <2>1 DEF WithImage
    <3>2. Ask("image", a) \in EntryAsks
      BY DEF Ask, EntryAsks, StartAsks, ImageAsks
    <3> QED BY <3>1, <3>2, OneMore, PendedStays DEF Awaited, LookKinds
  <2>2. CASE ~named
    <3>1. Then(<<>>) /\ Pending(a, "no image", NotJudged)
      BY <2>2 DEF WithImage
    <3> QED BY <3>1, NoMore, PendedGrows DEF Awaited
  <2> QED BY <2>1, <2>2
<1> QED BY <1>1, <1>2, <1>3, OneAwaited

LEMMA LookUpServiceAccounted ==
  ASSUME Typed, Accounted, AskedOnce, LookUpService
  PROVE  Accounted'
<1>1. EntryLookUp /\ todo # <<>> /\ Head(todo).what = "service"
  BY DEF EntryLookUp, LookUpService, Asks
<1>2. UNCHANGED <<catalog, entry>> /\ Head(todo).what \notin ListKinds
  BY <1>1, LookUpFrame
<1>3. Asked \in Services /\ Asked \in Imaged
  BY <1>1, FirstArtifact DEF Services, Imaged, Vias
<1>4. Mention(Asked) \notin present
  <2>1. Head(todo) \in ToSet(todo)
    BY <1>1, <1>2, FirstAsk, QueueElements, NoAsk
  <2>2. Asked \in AskingIn(todo)
    BY <1>1, <2>1 DEF AskingIn, Asked
  <2> QED BY <2>2 DEF AskedOnce
<1>5. Mention(Asked) \notin report.disbelieved
  BY <1>4 DEF Accounted
<1>6. CASE /\ Says("disbelieved", Asked) /\ SeenAs(Asked) /\ Then(<<>>)
           /\ UNCHANGED <<found, unread>>
  <2>1. Awaited' = Awaited
    BY <1>1, <1>6, NoMore, PendedStays DEF Awaited, LookKinds
  <2> QED BY <1>2, <1>3, <1>4, <1>6, <2>1, SeenAndDisbelieved
<1>7. CASE \E named \in BOOLEAN : WithImage(Asked, named)
  BY <1>1, <1>3, <1>5, <1>7, WithImageAccounted DEF LookKinds
<1>8. CASE /\ Then(<<Ask("service_key", [Asked EXCEPT !.via = "registry only"])>>)
           /\ UNCHANGED <<found, report, present, unread>>
  <2>1. [Asked EXCEPT !.via = "registry only"] \in KeyOnly
    BY <1>3 DEF Services, KeyOnly
  <2>2. Ask("service_key", [Asked EXCEPT !.via = "registry only"]) \in EntryAsks
    BY <2>1 DEF Ask, EntryAsks, StartAsks, KeyAsks
  <2>3. Awaited' = Awaited
    BY <1>1, <1>8, <2>2, OtherMore DEF LookKinds
  <2> QED BY <1>2, <1>8, <2>3, NothingSeen
<1>9. CASE Unreadable
  BY <1>1, <1>9, AbsentAccounted DEF LookKinds
<1> QED BY <1>6, <1>7, <1>8, <1>9 DEF LookUpService

LEMMA LookUpServiceKeyAccounted ==
  ASSUME Typed, Accounted, LookUpServiceKey
  PROVE  Accounted'
<1>1. EntryLookUp /\ todo # <<>> /\ Head(todo).what = "service_key"
  BY DEF EntryLookUp, LookUpServiceKey, Asks
<1>2. Asked \in KeyOnly
  BY <1>1, FirstArtifact
<1>3. Asked \in Imaged /\ Asked \notin Services
  BY <1>2 DEF KeyOnly, Imaged, Vias, Services
<1>4. Mention(Asked) \notin report.disbelieved
  BY <1>3 DEF Accounted, Mention
<1>5. CASE \E named \in BOOLEAN : WithImage(Asked, named)
  BY <1>1, <1>3, <1>4, <1>5, WithImageAccounted DEF LookKinds
<1> QED BY <1>1, <1>5, AbsentAccounted DEF LookUpServiceKey, LookKinds

LEMMA LookUpImageAccounted ==
  ASSUME Typed, Accounted, LookUpImage \/ ReadSignature
  PROVE  Accounted'
<1>1. EntryLookUp /\ todo # <<>> /\ Head(todo).what \in LookKinds
  BY DEF EntryLookUp, LookUpImage, ReadSignature, Asks, LookKinds
<1>2. UNCHANGED <<catalog, entry, present, report>>
  BY <1>1, LookUpFrame DEF LookUpImage, ReadSignature
<1>3. CASE LookUpImage /\ Then(<<Ask("signature", Asked)>>) /\ UNCHANGED found
  <2>1. Asked \in ToJudge
    BY <1>1, <1>3, FirstArtifact, ImagedIsToJudge DEF LookUpImage, Asks
  <2>2. Ask("signature", Asked) \in EntryAsks
    BY <2>1 DEF Ask, EntryAsks, StartAsks, SignatureAsks
  <2>3. Awaited' = Awaited
    BY <1>1, <1>3, <2>2, OneMore, PendedStays DEF Awaited, LookKinds
  <2> QED BY <1>2, <2>3, NothingSeen
<1>4. CASE Then(<<>>) /\ \E evidence, judged : Pending(Asked, evidence, judged)
  <2>1. Awaited' = Awaited
    BY <1>1, <1>4, NoMore, PendedGrows DEF Awaited
  <2> QED BY <1>2, <2>1, NothingSeen
<1> QED BY <1>3, <1>4 DEF LookUpImage, ReadSignature

LEMMA MatchDriverAccounted ==
  ASSUME Typed, Accounted, MatchDriver
  PROVE  Accounted'
<1>1. EntryLookUp /\ todo # <<>> /\ Head(todo).what = "driver"
  BY DEF EntryLookUp, MatchDriver, Asks
<1>2. UNCHANGED <<catalog, entry, report, found>> /\ Head(todo).what \notin ListKinds
  BY <1>1, LookUpFrame DEF MatchDriver
<1>3. CASE Then(<<Ask("loose image", Asked)>>) /\ UNCHANGED present
  <2>1. Ask("loose image", Asked) \in EntryAsks
    BY RegisteredTyped DEF Ask, EntryAsks, StartAsks, DriverAsks
  <2>2. Awaited' = Awaited
    BY <1>1, <1>2, <1>3, <2>1, OtherMore DEF LookKinds
  <2> QED BY <1>2, <1>3, <2>2, NothingSeen
<1>4. CASE /\ Then([i \in 1..Len(Registered) |-> Ask("image", RegisteredAs(Registered[i]))])
           /\ present' = present \cup {Mention(RegisteredAs(k)) : k \in ToSet(Registered)}
  <2> DEFINE more == [i \in 1..Len(Registered) |-> Ask("image", RegisteredAs(Registered[i]))]
             new  == {RegisteredAs(k) : k \in ToSet(Registered)}
  <2>1. /\ Len(Registered) \in Nat
        /\ ToSet(Registered) = {Registered[i] : i \in 1..Len(Registered)}
    BY RegisteredTyped DEF ToSet
  <2>2. \A i \in 1..Len(Registered) : Ask("image", RegisteredAs(Registered[i])) \in EntryAsks
    BY RegisteredTyped DEF Ask, EntryAsks, StartAsks, ImageAsks
  <2>3. more \in Seq(EntryAsks)
    BY <2>1, <2>2
  <2>4. LookingIn(more) = new
    <3>1. ToSet(more) = {Ask("image", RegisteredAs(Registered[i])) : i \in 1..Len(Registered)}
      BY <2>1 DEF ToSet
    <3> HIDE DEF more, new
    <3>2. \A x : x \in LookingIn(more) <=>
                  \E i \in 1..Len(Registered) : x = RegisteredAs(Registered[i])
      <4>1. \A i \in 1..Len(Registered) :
              LET a == Ask("image", RegisteredAs(Registered[i]))
              IN  a.what = "image" /\ a.artifact = RegisteredAs(Registered[i])
        BY DEF Ask
      <4> QED BY <3>1, <4>1 DEF LookingIn, LookKinds
    <3>3. \A x : x \in new <=> \E i \in 1..Len(Registered) : x = RegisteredAs(Registered[i])
      BY <2>1 DEF new
    <3> QED BY <3>2, <3>3
  <2>5. Awaited' = Awaited \cup new
    <3>1. Looking' = new \cup Looking
      <4> HIDE DEF more, new
      <4>1. Then(more)
        BY <1>4 DEF more
      <4> QED BY <1>1, <1>2, <2>3, <2>4, <4>1, LookingTurned DEF LookKinds
    <3> QED BY <1>2, <3>1, PendedStays DEF Awaited
  <2>6. \A a \in new : ~IsProtected(a) /\ Mention(a) \notin report.disbelieved
    <3>1. TAKE a \in new
    <3>2. a \in Imaged
      BY <2>1, RegisteredTyped
    <3>3. a \notin Services
      <4>1. a.kind = "driver"
        BY <2>1, RegisteredTyped DEF RegisteredAs, Drivers
      <4> QED BY <4>1 DEF Services
    <3> QED BY <3>2, <3>3, ImagedIsToJudge DEF ToJudge, Accounted, Mention
  <2>7. present' = present \cup {Mention(a) : a \in new}
    BY <1>4
  <2> HIDE DEF new, more
  <2> QED BY <1>2, <2>5, <2>6, <2>7, SeenAndAwaited
<1> QED BY <1>3, <1>4 DEF MatchDriver, Registered, RegisteredAs

LEMMA LookUpLooseImageAccounted ==
  ASSUME Typed, Accounted, LookUpLooseImage
  PROVE  Accounted'
<1>1. EntryLookUp /\ todo # <<>> /\ Head(todo).what = "loose image"
  BY DEF EntryLookUp, LookUpLooseImage, Asks
<1>2. Asked \in Drivers
  BY <1>1, FirstArtifact
<1>3. Asked \in ToJudge /\ Asked \notin Services
  <2>1. Asked \in Imaged
    BY <1>2 DEF Drivers, Imaged, Vias
  <2> QED BY <1>2, <2>1, ImagedIsToJudge DEF Drivers, Services
<1>4. CASE /\ Then(<<Ask("signature", Asked)>>) /\ SeenAs(Asked)
           /\ UNCHANGED <<found, report, unread>>
  <2>1. Ask("signature", Asked) \in EntryAsks
    BY <1>3 DEF Ask, EntryAsks, StartAsks, SignatureAsks
  <2>2. Awaited' = Awaited \cup {Asked}
    BY <1>1, <1>4, <2>1, OneMore, PendedStays DEF Awaited, LookKinds
  <2>3. ~IsProtected(Asked) /\ Mention(Asked) \notin report.disbelieved
    BY <1>3 DEF ToJudge, Accounted, Mention
  <2> QED BY <1>1, <1>4, <2>2, <2>3, LookUpFrame, OneAwaited
<1>5. CASE /\ Then(<<>>) /\ SeenAs([Asked EXCEPT !.kind = "not a file"])
           /\ UNCHANGED <<found, report, unread>>
  <2>1. [Asked EXCEPT !.kind = "not a file"].kind \in Dropped
    BY <1>2 DEF Drivers, Dropped
  <2>2. Awaited' = Awaited
    BY <1>1, <1>5, NoMore, PendedStays DEF Awaited, LookKinds
  <2> QED BY <1>1, <1>5, <2>1, <2>2, LookUpFrame, SeenAndDropped
<1> QED BY <1>1, <1>4, <1>5, AbsentAccounted DEF LookUpLooseImage, LookKinds

LEMMA LookUpRegistryKeyAccounted ==
  ASSUME Typed, Accounted, LookUpRegistryKey
  PROVE  Accounted'
<1>1. EntryLookUp /\ todo # <<>> /\ Head(todo).what = "registry"
  BY DEF EntryLookUp, LookUpRegistryKey, Asks
<1>2. Asked \in InView /\ UNCHANGED <<catalog, entry>>
  BY <1>1, FirstArtifact, LookUpFrame
<1>3. CASE Asked.name \in Refused /\ Protect(Asked) /\ UNCHANGED present
  <2>1. IsProtected(Asked)
    BY <1>2, <1>3 DEF IsProtected, InView
  <2>2. Awaited' = Awaited
    BY <1>1, <1>3, NoMore, PendedStays DEF Protect, Awaited, LookKinds
  <2> QED BY <1>2, <1>3, <2>1, <2>2, SeenAndProtected DEF Protect
<1>4. CASE /\ Asked.name \notin Refused
           /\ Pending(Asked, "present", NotJudged) /\ SeenAs(Asked)
           /\ Then(<<>>)
           /\ UNCHANGED <<report, unread>>
  <2>1. ~IsProtected(Asked) /\ Asked \notin Services
    BY <1>2, <1>4 DEF IsProtected, InView, Services
  <2>2. Mention(Asked) \notin report.disbelieved
    BY <2>1 DEF Accounted, Mention
  <2>3. Awaited' = Awaited \cup {Asked}
    BY <1>1, <1>4, NoMore, PendedGrows DEF Awaited, LookKinds
  <2> QED BY <1>2, <1>4, <2>1, <2>2, <2>3, OneAwaited
<1> QED BY <1>1, <1>3, <1>4, AbsentAccounted DEF LookUpRegistryKey, LookKinds

LEMMA NoLooks ==
  ASSUME NEW S, NEW q \in Seq(S), \A a \in S : a.what \notin LookKinds \cup {"service"}
  PROVE  /\ LookingIn(q) = {} /\ AskingIn(q) = {} /\ OnceIn(q)
         /\ \A i \in 1..Len(q) : q[i].what # "service"
<1>1. \A i \in 1..Len(q) : q[i] \in S
  OBVIOUS
<1>2. DOMAIN q = 1..Len(q)
  OBVIOUS
<1>3. \A a \in ToSet(q) : a \in S
  BY <1>1, <1>2 DEF ToSet
<1> QED BY <1>1, <1>3 DEF LookingIn, AskingIn, OnceIn, LookKinds

LEMMA ListAccounted ==
  ASSUME Typed, Accounted, ListViews \/ ExpandTemplate
  PROVE  Accounted'
<1>1. /\ EntryLookUp /\ todo # <<>> /\ Head(todo).what \in {"views", "template"}
      /\ UNCHANGED <<catalog, entry>> /\ Head(todo).what \notin ListKinds \cup LookKinds
  BY LookUpFrame DEF EntryLookUp, ListViews, ExpandTemplate, Asks, ListKinds, LookKinds
<1>2. ASSUME UNCHANGED <<found, report, present>>,
             NEW S, S \subseteq EntryAsks, \A a \in S : a.what \notin LookKinds \cup {"service"},
             NEW more \in Seq(S), Then(more)
      PROVE  Accounted'
  <2>1. LookingIn(more) = {}
    BY <1>2, NoLooks
  <2>2. more \in Seq(EntryAsks)
    BY <1>2, Wider
  <2>3. Looking' = LookingIn(more) \cup LookingIn(Tail(todo)) /\ Looking = LookingIn(Tail(todo))
    BY <1>1, <1>2, <2>2, LookingTurned
  <2>4. Awaited' = Awaited
    BY <1>2, <2>1, <2>3, PendedStays DEF Awaited
  <2> QED BY <1>1, <1>2, <2>4, NothingSeen
<1>3. CASE ListViews
  <2>1. PICK more \in Seq(RegistryAsks) : Then(more)
    BY <1>3, ViewsListed
  <2>2. \A a \in RegistryAsks : a.what \notin LookKinds \cup {"service"}
    BY DEF RegistryAsks, LookKinds
  <2>3. RegistryAsks \subseteq EntryAsks /\ UNCHANGED <<found, report, present>>
    BY <1>3 DEF EntryAsks, ListViews
  <2> QED BY <1>2, <2>1, <2>2, <2>3
<1>4. CASE ExpandTemplate /\ Asked.name \in Unexpandable
  BY <1>1, <1>4, AbsentAccounted DEF ExpandTemplate
<1>5. CASE ExpandTemplate /\ Asked.name \notin Unexpandable
  <2>1. PICK more \in Seq(PathAsks) : Then(more)
    BY <1>5, PathsListed
  <2>2. \A a \in PathAsks : a.what \notin LookKinds \cup {"service"}
    BY DEF PathAsks, LookKinds
  <2>3. PathAsks \subseteq EntryAsks /\ UNCHANGED <<found, report, present>>
    BY <1>5 DEF EntryAsks, ExpandTemplate
  <2> QED BY <1>2, <2>1, <2>2, <2>3
<1> QED BY <1>3, <1>4, <1>5

LEMMA LookUpPathAccounted ==
  ASSUME Typed, Accounted, LookUpPath
  PROVE  Accounted'
<1>1. EntryLookUp /\ todo # <<>> /\ Head(todo).what = "path" /\ UNCHANGED <<catalog, entry>>
  BY LookUpFrame DEF EntryLookUp, LookUpPath, Asks
<1>2. Asked \in Unseen
  BY <1>1, FirstArtifact
<1>3. ASSUME NEW kind \in {"file", "directory", "link"}, NEW path, path = [Asked EXCEPT !.via = kind],
             SeenAs(path),
             IF RefusesPath(path) THEN Protect(path)
             ELSE /\ IF kind = "file" /\ path.name \in Signable
                     THEN Then(<<Ask("signature", path)>>) /\ UNCHANGED found
                     ELSE Then(<<>>) /\ Pending(path, "present", NotJudged)
                  /\ UNCHANGED <<report, unread>>
      PROVE Accounted'
  <2>1. path \in Artifacts /\ path.kind = "path" /\ path \notin Services
    BY <1>2, <1>3 DEF Unseen, Artifacts, Kinds, Names, Vias, Services
  <2>2. IsProtected(path) <=> RefusesPath(path)
    BY <2>1 DEF IsProtected, RefusesPath
  <2>3. CASE RefusesPath(path)
    <3>1. Awaited' = Awaited
      BY <1>1, <1>3, <2>3, NoMore, PendedStays DEF Protect, Awaited, LookKinds
    <3> QED BY <1>1, <1>3, <2>2, <2>3, <3>1, SeenAndProtected DEF Protect
  <2>4. CASE ~RefusesPath(path)
    <3>1. Mention(path) \notin report.disbelieved
      BY <2>1 DEF Accounted, Mention
    <3>2. CASE Then(<<Ask("signature", path)>>) /\ UNCHANGED found
      <4>1. Ask("signature", path) \in EntryAsks
        BY <2>1, <2>2, <2>4 DEF Ask, EntryAsks, SignatureAsks, ToJudge
      <4>2. Awaited' = Awaited \cup {path}
        BY <1>1, <3>2, <4>1, OneMore, PendedStays DEF Awaited, LookKinds
      <4> QED BY <1>1, <1>3, <2>2, <2>4, <3>1, <4>2, OneAwaited
    <3>3. CASE Then(<<>>) /\ Pending(path, "present", NotJudged)
      <4>1. Awaited' = Awaited \cup {path}
        BY <1>1, <3>3, NoMore, PendedGrows DEF Awaited, LookKinds
      <4> QED BY <1>1, <1>3, <2>2, <2>4, <3>1, <4>1, OneAwaited
    <3> QED BY <1>3, <2>4, <3>2, <3>3
  <2> QED BY <2>3, <2>4
<1> QED BY <1>1, <1>3, AbsentAccounted DEF LookUpPath, LookKinds

(* Before the first entry nothing is seen; with an entry begun nothing is   *)
(* awaited.                                                                 *)
LEMMA NothingAwaited ==
  ASSUME Typed, entry = 0 \/ todo \in Seq(StartAsks), found = {}
  PROVE  Awaited = {}
<1>1. CASE entry = 0
  <2>1. todo \in Seq(ListAsks)
    BY <1>1, CatalogsAreTyped, NoAsk DEF Typed, Phase
  <2>2. \A a \in ListAsks : a.what \notin LookKinds \cup {"service"}
    BY DEF ListAsks, ListKinds, LookKinds
  <2> QED BY <2>1, <2>2, NoLooks DEF Awaited, Pended, Looking
<1>2. CASE todo \in Seq(StartAsks)
  <2>1. \A a \in StartAsks : a.what \notin LookKinds
    BY DEF StartAsks, ServiceAsks, DriverAsks, ViewAsks, TemplateAsks, LookKinds
  <2>2. LookingIn(todo) = {}
    <3>1. \A i \in 1..Len(todo) : todo[i] \in StartAsks
      BY <1>2
    <3>2. DOMAIN todo = 1..Len(todo)
      BY <1>2
    <3> QED BY <2>1, <3>1, <3>2 DEF ToSet, LookingIn
  <2> QED BY <2>2 DEF Awaited, Pended, Looking
<1> QED BY <1>1, <1>2

LEMMA NothingAwaitedLater ==
  (Typed /\ (entry = 0 \/ todo \in Seq(StartAsks)) /\ found = {} => Awaited = {})'
<1>1. Typed /\ (entry = 0 \/ todo \in Seq(StartAsks)) /\ found = {} => Awaited = {}
  BY NothingAwaited
<1> QED BY <1>1, PTL

LEMMA NothingAwaitedNext ==
  ASSUME Typed', entry' = 0 \/ todo' \in Seq(StartAsks), found' = {}
  PROVE  Awaited' = {}
<1>1. StartAsks' = StartAsks
  BY DEF StartAsks, ServiceAsks, DriverAsks, ViewAsks, TemplateAsks, Services, Drivers,
         InViews, Templated, Templates
<1> QED BY <1>1, NothingAwaitedLater

LEMMA FindAccounted ==
  ASSUME Typed, Accounted, FindSteamLibraries \/ FindEpicLibraries
  PROVE  Accounted'
<1>1. todo # <<>> /\ Head(todo).what \in ListKinds
  BY DEF FindSteamLibraries, FindEpicLibraries, Asks, ListKinds
<1>2. entry = 0 /\ found = {}
  BY <1>1, FirstAsk
<1>3. UNCHANGED <<catalog, entry, found, present>>
  BY DEF FindSteamLibraries, FindEpicLibraries, Absent, Unreadable, TakenForAbsent
<1> DEFINE SameFound == /\ report'.findings = report.findings
                        /\ report'.protected = report.protected
                        /\ report'.disbelieved = report.disbelieved
<1>4. SameFound
  <2>1. ASSUME NEW some, report' = [report EXCEPT !.unreadable = @ \cup some]
        PROVE SameFound
    BY <2>1 DEF Typed, ReportTyped
  <2>2. ASSUME Unreadable PROVE SameFound
    BY <2>2, SameLists DEF Unreadable
  <2>3. CASE FindSteamLibraries
    BY <2>2, <2>3 DEF FindSteamLibraries, Absent, TakenForAbsent
  <2>4. CASE FindEpicLibraries
    BY <2>1, <2>2, <2>4 DEF FindEpicLibraries
  <2> QED BY <2>3, <2>4
<1>5. Awaited = {} /\ Awaited' = {}
  BY <1>2, <1>3, FindTyped, NothingAwaited, NothingAwaitedNext
<1> QED BY <1>3, <1>4, <1>5, NothingSeen

LEMMA ReadDriverKeysAccounted ==
  ASSUME Typed, Accounted, ReadDriverKeys
  PROVE  Accounted'
<1>1. todo # <<>> /\ Head(todo).what \in ListKinds
  BY DEF ReadDriverKeys, Asks, ListKinds
<1>2. entry = 0 /\ found = {} /\ present = {} /\ Len(catalog) \in Nat
  BY <1>1, FirstAsk
<1>3. catalog' = catalog /\ entry' = 1 /\ UNCHANGED <<found, present>>
  BY DEF ReadDriverKeys
<1> DEFINE SameFound == /\ report'.findings = report.findings
                        /\ report'.protected = report.protected
                        /\ report'.disbelieved = report.disbelieved
<1>4. SameFound
  <2>1. ASSUME NEW some, report' = [report EXCEPT !.unreadable = @ \cup some]
        PROVE SameFound
    BY <2>1 DEF Typed, ReportTyped
  <2> QED BY <2>1, SameLists DEF ReadDriverKeys
<1>5. FoundItems' = {}
  <2>1. report.findings = {}
    <3>1. \A f \in report.findings : f.entry \in 1..Len(catalog) /\ f.entry < 0
      BY <1>2 DEF Typed, ReportTyped
    <3>2. \A f \in report.findings : FALSE
      BY <1>2, <3>1
    <3> QED BY <3>2
  <2> QED BY <1>4, <2>1 DEF FoundItems
<1>6. todo' \in Seq(StartAsks)
  <2>1. catalog = <<>> \/ 1 \in 1..Len(catalog)
    BY AuditAssumption DEF Typed
  <2>2. CASE catalog = <<>>
    BY <2>2, NoAsk DEF ReadDriverKeys
  <2>3. CASE catalog # <<>>
    BY <2>1, <2>3, CatalogsAreTyped, WorkTyped DEF ReadDriverKeys, Typed
  <2> QED BY <2>2, <2>3
<1>7. Awaited' = {}
  BY <1>2, <1>3, <1>6, ReadDriverKeysTyped, NothingAwaitedNext
<1>8. report.disbelieved = {}
  BY <1>2 DEF Accounted
<1> QED BY <1>2, <1>3, <1>4, <1>5, <1>7, <1>8 DEF Accounted

LEMMA SettleAccounted ==
  ASSUME Typed, Accounted, Settle
  PROVE  Accounted'
<1>1. /\ Len(catalog) \in Nat /\ entry \in 1..Len(catalog) /\ catalog' = catalog
      /\ entry' = entry + 1 /\ found' = {} /\ todo = <<>> /\ UNCHANGED present
  BY CatalogsAreTyped DEF Settle, Typed
<1>2. /\ report'.protected = report.protected /\ report'.disbelieved = report.disbelieved
      /\ report'.findings = report.findings \cup NewFindings
  BY SettledFindings DEF Settle, Typed, ReportTyped
<1>3. SetAside' = SetAside
  BY <1>2 DEF SetAside
<1>4. FoundItems' = FoundItems \cup {Mention(a) : a \in Pended}
  <2>1. \A x : x \in {[entry |-> f.entry, item |-> f.artifact] : f \in NewFindings}
                 <=> x \in {Mention(a) : a \in Pended}
    <3> DEFINE new(p) == [entry |-> entry, artifact |-> p.artifact, evidence |-> p.evidence,
                          classification |-> Settled(p)]
    <3>1. \A p \in found : new(p).entry = entry /\ new(p).artifact = p.artifact
      OBVIOUS
    <3>2. NewFindings = {new(p) : p \in found}
      BY DEF NewFindings
    <3> HIDE DEF new
    <3> QED BY <3>1, <3>2 DEF Pended, Mention
  <2> QED BY <1>2, <2>1 DEF FoundItems
<1>5. Awaited = Pended
  BY <1>1, LookingAtFew DEF Awaited, Looking
<1>6. Awaited' = {}
  <2>1. todo' \in Seq(StartAsks)
    <3>1. CASE entry < Len(catalog)
      <4>1. entry + 1 \in 1..Len(catalog)
        BY <1>1, <3>1
      <4> QED BY <3>1, <4>1, CatalogsAreTyped, WorkTyped DEF Settle, Typed
    <3>2. CASE ~(entry < Len(catalog))
      BY <3>2, NoAsk DEF Settle
    <3> QED BY <3>1, <3>2
  <2> QED BY <1>1, <2>1, SettleTyped, NothingAwaitedNext
<1>7. ASSUME NEW m \in present
      PROVE  /\ m.entry \in 0..entry' /\ m.entry # entry'
             /\ m.entry < entry' /\ m.item.kind \notin Dropped =>
                  m \in FoundItems' \cup SetAside'
  <2>1. m.entry \in 0..entry
    BY DEF Accounted
  <2>2. CASE m.entry < entry
    BY <1>1, <1>3, <1>4, <2>1, <2>2 DEF Accounted
  <2>3. CASE m.entry = entry
    <3>1. m = Mention(m.item)
      BY <2>3 DEF Typed, Mentions, Mention
    <3>2. m.item.kind \in Dropped \/ m \in SetAside \/ m.item \in Pended
      BY <1>5, <2>3 DEF Accounted
    <3> QED BY <1>1, <1>3, <1>4, <2>3, <3>1, <3>2
  <2> QED BY <1>1, <2>1, <2>2, <2>3
<1>8. FoundItems' \subseteq present' \ SetAside' /\ ~\E m \in FoundItems' : IsProtected(m.item)
  <2>1. \A a \in Pended : /\ Mention(a) \in present \ SetAside /\ Mention(a).item = a
                          /\ ~IsProtected(a)
    BY <1>5 DEF Accounted, Mention
  <2> QED BY <1>1, <1>3, <1>4, <2>1 DEF Accounted
<1> QED BY <1>1, <1>2, <1>6, <1>7, <1>8 DEF Accounted

LEMMA AccountedStep ==
  Typed /\ Accounted /\ AskedOnce /\ [Next]_vars => Accounted'
<1>1. ASSUME Typed, Accounted, AskedOnce, Next PROVE Accounted'
  BY <1>1, FindAccounted, ReadDriverKeysAccounted, LookUpServiceAccounted,
     LookUpServiceKeyAccounted, LookUpImageAccounted, MatchDriverAccounted,
     LookUpLooseImageAccounted, ListAccounted, LookUpRegistryKeyAccounted,
     LookUpPathAccounted, SettleAccounted DEF Next
<1>2. ASSUME Typed, Accounted, UNCHANGED vars PROVE Accounted'
  <2>1. Awaited' = Awaited
    BY <1>2 DEF vars, Awaited, Looking, Pended, LookingIn, LookKinds, ToSet
  <2> QED BY <1>2, <2>1, NothingSeen DEF vars
<1> QED BY <1>1, <1>2

-------------------------------------------------------------------------------
(* Each service is asked for once.                                          *)

LEMMA ServicesAsked ==
  ASSUME NEW a \in EntryAsks, a.what = "service"
  PROVE  a \in ServiceAsks
BY DEF EntryAsks, StartAsks, ServiceAsks, KeyAsks, DriverAsks, ImageAsks, ViewAsks,
       RegistryAsks, TemplateAsks, PathAsks, SignatureAsks

(* No lookup of an entry asks for a service again.                          *)
AsksNoService ==
  \E more \in Seq(EntryAsks) : Then(more) /\ \A i \in 1..Len(more) : more[i].what # "service"

LEMMA NoServiceAgain ==
  ASSUME Typed, EntryLookUp
  PROVE  AsksNoService
<1>1. Then(<<>>) => AsksNoService
  <2>1. <<>> \in Seq(EntryAsks) /\ \A i \in 1..Len(<<>>) : <<>>[i].what # "service"
    BY NoAsk
  <2> QED BY <2>1 DEF AsksNoService
<1>2. ASSUME NEW what, what # "service", NEW a, Ask(what, a) \in EntryAsks,
             Then(<<Ask(what, a)>>)
      PROVE  AsksNoService
  <2>1. <<Ask(what, a)>> \in Seq(EntryAsks)
    BY <1>2, OneAsk
  <2>2. \A i \in 1..Len(<<Ask(what, a)>>) : <<Ask(what, a)>>[i].what # "service"
    BY <1>2 DEF Ask
  <2> QED BY <1>2, <2>1, <2>2 DEF AsksNoService
<1>3. ASSUME NEW S, S \subseteq EntryAsks, \A a \in S : a.what \notin LookKinds \cup {"service"},
             NEW more \in Seq(S), Then(more)
      PROVE  AsksNoService
  <2>1. more \in Seq(EntryAsks) /\ \A i \in 1..Len(more) : more[i].what # "service"
    BY <1>3, Wider, NoLooks
  <2> QED BY <1>3, <2>1 DEF AsksNoService
<1>4. todo # <<>>
  BY LookUpFrame
<1>5. ASSUME NEW a \in Imaged PROVE Ask("image", a) \in EntryAsks
  BY DEF Ask, EntryAsks, ImageAsks
<1>6. ASSUME NEW a \in ToJudge PROVE Ask("signature", a) \in EntryAsks
  BY DEF Ask, EntryAsks, SignatureAsks
<1>7. Absent \/ Unreadable => Then(<<>>)
  BY DEF Absent, Unreadable
<1>8. ASSUME NEW a \in Imaged, NEW named \in BOOLEAN, WithImage(a, named) PROVE AsksNoService
  <2>1. Then(<<>>) \/ Then(<<Ask("image", a)>>)
    BY <1>8 DEF WithImage
  <2> QED BY <1>1, <1>2, <1>5, <2>1
<1>9. CASE LookUpService
  <2>1. Asked \in Services /\ Asked \in Imaged
    BY <1>4, <1>9, FirstArtifact DEF LookUpService, Asks, Services, Imaged, Vias
  <2>2. Ask("service_key", [Asked EXCEPT !.via = "registry only"]) \in EntryAsks
    <3>1. [Asked EXCEPT !.via = "registry only"] \in KeyOnly
      BY <2>1 DEF Services, KeyOnly
    <3> QED BY <3>1 DEF Ask, EntryAsks, KeyAsks
  <2> QED BY <1>1, <1>2, <1>7, <1>8, <1>9, <2>1, <2>2 DEF LookUpService
<1>10. CASE LookUpServiceKey
  <2>1. Asked \in Imaged
    BY <1>4, <1>10, FirstArtifact DEF LookUpServiceKey, Asks, KeyOnly, Imaged, Vias
  <2> QED BY <1>1, <1>7, <1>8, <1>10, <2>1 DEF LookUpServiceKey
<1>11. CASE LookUpImage \/ ReadSignature
  <2>1. CASE Then(<<Ask("signature", Asked)>>) /\ LookUpImage
    <3>1. Asked \in ToJudge
      BY <1>4, <2>1, FirstArtifact, ImagedIsToJudge DEF LookUpImage, Asks
    <3> QED BY <1>2, <1>6, <2>1, <3>1
  <2> QED BY <1>1, <1>11, <2>1 DEF LookUpImage, ReadSignature
<1>12. CASE MatchDriver
  <2>1. CASE Then(<<Ask("loose image", Asked)>>)
    <3>1. Ask("loose image", Asked) \in EntryAsks
      BY <1>12, RegisteredTyped DEF Ask, EntryAsks, StartAsks, DriverAsks
    <3> QED BY <1>2, <2>1, <3>1
  <2>2. CASE Then([i \in 1..Len(Registered) |-> Ask("image", RegisteredAs(Registered[i]))])
    <3> DEFINE more == [i \in 1..Len(Registered) |-> Ask("image", RegisteredAs(Registered[i]))]
    <3>1. Len(Registered) \in Nat
      BY <1>12, RegisteredTyped
    <3>2. \A i \in 1..Len(Registered) : Ask("image", RegisteredAs(Registered[i])) \in EntryAsks
      BY <1>5, <1>12, RegisteredTyped
    <3>3. more \in Seq(EntryAsks)
      BY <3>1, <3>2
    <3>4. \A i \in 1..Len(more) : more[i].what # "service"
      BY <3>1 DEF Ask
    <3> HIDE DEF more
    <3> QED BY <2>2, <3>3, <3>4 DEF more, AsksNoService
  <2> QED BY <1>12, <2>1, <2>2 DEF MatchDriver, Registered, RegisteredAs
<1>13. CASE LookUpLooseImage
  <2>1. Asked \in ToJudge
    BY <1>4, <1>13, FirstArtifact, ImagedIsToJudge DEF LookUpLooseImage, Asks, Drivers, Imaged, Vias
  <2> QED BY <1>1, <1>2, <1>6, <1>7, <1>13, <2>1 DEF LookUpLooseImage
<1>14. CASE ListViews
  <2>1. \A a \in RegistryAsks : a.what \notin LookKinds \cup {"service"}
    BY DEF RegistryAsks, LookKinds
  <2>2. RegistryAsks \subseteq EntryAsks
    BY DEF EntryAsks
  <2> QED BY <1>3, <1>14, <2>1, <2>2, ViewsListed
<1>15. CASE LookUpRegistryKey
  BY <1>1, <1>7, <1>15 DEF LookUpRegistryKey, Protect
<1>16. CASE ExpandTemplate
  <2>1. \A a \in PathAsks : a.what \notin LookKinds \cup {"service"}
    BY DEF PathAsks, LookKinds
  <2>2. PathAsks \subseteq EntryAsks
    BY DEF EntryAsks
  <2>3. CASE Asked.name \in Unexpandable
    BY <1>1, <1>7, <1>16, <2>3 DEF ExpandTemplate
  <2>4. CASE Asked.name \notin Unexpandable
    BY <1>3, <1>16, <2>1, <2>2, <2>4, PathsListed
  <2> QED BY <2>3, <2>4
<1>17. CASE LookUpPath
  <2>1. CASE Then(<<>>)
    BY <1>1, <2>1
  <2>2. CASE ~Then(<<>>)
    <3>1. PICK kind \in {"file", "directory", "link"} :
            LET path == [Asked EXCEPT !.via = kind]
            IN  ~RefusesPath(path) /\ Then(<<Ask("signature", path)>>)
      BY <1>7, <1>17, <2>2 DEF LookUpPath, Protect
    <3>2. Asked \in Unseen
      BY <1>4, <1>17, FirstArtifact DEF LookUpPath, Asks
    <3> DEFINE path == [Asked EXCEPT !.via = kind]
    <3>3. path \in Artifacts /\ path.kind = "path"
      BY <3>2 DEF Unseen, Artifacts, Kinds, Names, Vias
    <3> HIDE DEF path
    <3>4. path \in ToJudge
      BY <3>1, <3>3 DEF ToJudge, IsProtected, RefusesPath, path
    <3>5. Then(<<Ask("signature", path)>>)
      BY <3>1 DEF path
    <3> QED BY <1>2, <1>6, <3>4, <3>5
  <2> QED BY <2>1, <2>2
<1> QED BY <1>9, <1>10, <1>11, <1>12, <1>13, <1>14, <1>15, <1>16, <1>17 DEF EntryLookUp

(* A queue joined to another: where the elements of the whole come from.    *)
JoinsTo(s, t) ==
  /\ Len(s) \in Nat /\ Len(t) \in Nat
  /\ Len(s \o t) = Len(s) + Len(t) /\ DOMAIN (s \o t) = 1..(Len(s) + Len(t))
  /\ \A i \in 1..Len(s) : (s \o t)[i] = s[i]
  /\ \A i \in (Len(s) + 1)..(Len(s) + Len(t)) :
        i - Len(s) \in 1..Len(t) /\ (s \o t)[i] = t[i - Len(s)]

LEMMA Concatenated ==
  ASSUME NEW S, NEW s \in Seq(S), NEW t \in Seq(S)
  PROVE  s \o t \in Seq(S) /\ JoinsTo(s, t)
<1>1. s \o t \in Seq(S) /\ Len(s) \in Nat /\ Len(t) \in Nat
  OBVIOUS
<1>2. Len(s \o t) = Len(s) + Len(t) /\ DOMAIN (s \o t) = 1..(Len(s) + Len(t))
  OBVIOUS
<1>3. /\ \A i \in 1..Len(s) : (s \o t)[i] = s[i]
      /\ \A i \in (Len(s) + 1)..(Len(s) + Len(t)) : (s \o t)[i] = t[i - Len(s)]
  OBVIOUS
<1>4. \A i \in (Len(s) + 1)..(Len(s) + Len(t)) : i - Len(s) \in 1..Len(t)
  BY <1>1
<1> QED BY <1>1, <1>2, <1>3, <1>4 DEF JoinsTo

LEMMA OnceTurned ==
  ASSUME NEW s \in Seq(EntryAsks), s # <<>>, OnceIn(s), NEW more \in Seq(EntryAsks),
         \A i \in 1..Len(more) : more[i].what # "service"
  PROVE  /\ OnceIn(more \o Tail(s))
         /\ AskingIn(more \o Tail(s)) \subseteq AskingIn(s)
         /\ Head(s).what = "service" => Head(s).artifact \notin AskingIn(more \o Tail(s))
<1> DEFINE t == more \o Tail(s)
           At(i) == i - Len(more) + 1
<1>1. /\ Len(s) \in Nat \ {0} /\ Len(more) \in Nat /\ DOMAIN s = 1..Len(s)
      /\ Head(s) = s[1]
      /\ Len(t) = Len(more) + Len(s) - 1 /\ DOMAIN t = 1..Len(t)
      /\ \A i \in 1..Len(more) : t[i] = more[i]
      /\ \A i \in (Len(more) + 1)..Len(t) : t[i] = s[i - Len(more) + 1]
  <2> DEFINE u == Tail(s)
  <2>1. /\ Len(s) \in Nat \ {0} /\ DOMAIN s = 1..Len(s) /\ Head(s) = s[1]
        /\ u \in Seq(EntryAsks) /\ Len(u) = Len(s) - 1
        /\ \A i \in 1..Len(u) : u[i] = s[i + 1]
    OBVIOUS
  <2> HIDE DEF u
  <2>2. /\ Len(more) \in Nat /\ Len(u) \in Nat
        /\ Len(more \o u) = Len(more) + Len(u)
        /\ DOMAIN (more \o u) = 1..(Len(more) + Len(u))
        /\ \A i \in 1..Len(more) : (more \o u)[i] = more[i]
        /\ \A i \in (Len(more) + 1)..(Len(more) + Len(u)) :
              i - Len(more) \in 1..Len(u) /\ (more \o u)[i] = u[i - Len(more)]
    <3>1. more \in Seq(EntryAsks) /\ u \in Seq(EntryAsks)
      BY <2>1
    <3>2. JoinsTo(more, u)
      BY <3>1, Concatenated, Zenon
    <3> QED BY <3>2 DEF JoinsTo
  <2>3. \A i \in (Len(more) + 1)..(Len(more) + Len(u)) :
          (more \o u)[i] = s[i - Len(more) + 1]
    BY <2>1, <2>2
  <2> QED BY <2>1, <2>2, <2>3 DEF u
<1> HIDE DEF t
<1>2. ASSUME NEW i \in 1..Len(t), t[i].what = "service"
      PROVE  At(i) \in 2..Len(s) /\ t[i] = s[At(i)]
  <2>1. ~ (i \in 1..Len(more))
    BY <1>1, <1>2
  <2>2. i \in (Len(more) + 1)..Len(t)
    BY <1>1, <2>1
  <2> QED BY <1>1, <2>2
<1>3. OnceIn(t)
  <2> SUFFICES ASSUME NEW i \in 1..Len(t), NEW j \in 1..Len(t), t[i].what = "service",
                      t[j].what = "service", t[i].artifact = t[j].artifact
               PROVE  i = j
    BY DEF OnceIn
  <2>1. At(i) \in 1..Len(s) /\ At(j) \in 1..Len(s) /\ t[i] = s[At(i)] /\ t[j] = s[At(j)]
    BY <1>1, <1>2
  <2>2. At(i) = At(j)
    BY <2>1 DEF OnceIn
  <2> QED BY <1>1, <2>2
<1>4. ASSUME NEW a \in AskingIn(t)
      PROVE  a \in AskingIn(s) /\ (Head(s).what = "service" => a # Head(s).artifact)
  <2>1. PICK i \in 1..Len(t) : t[i].what = "service" /\ a = t[i].artifact
    BY <1>1 DEF AskingIn, ToSet
  <2>2. At(i) \in 2..Len(s) /\ t[i] = s[At(i)]
    BY <1>2, <2>1
  <2>3. At(i) \in 1..Len(s) /\ At(i) # 1 /\ 1 \in 1..Len(s)
    BY <1>1, <2>2
  <2>4. a \in AskingIn(s)
    <3>1. s[At(i)] \in ToSet(s)
      BY <1>1, <2>3 DEF ToSet
    <3> QED BY <2>1, <2>2, <3>1 DEF AskingIn
  <2>5. Head(s).what = "service" => a # Head(s).artifact
    BY <1>1, <2>1, <2>2, <2>3 DEF OnceIn
  <2> QED BY <2>4, <2>5
<1> QED BY <1>3, <1>4 DEF t

(* Of two lists of questions joined, the second without a service, the      *)
(* services are where the first one has them.                               *)
NoService(s) == \A k \in 1..Len(s) : s[k].what # "service"
ServicesFirst(s, t) ==
  \A i \in 1..Len(s \o t) :
    (s \o t)[i].what = "service" => i \in 1..Len(s) /\ (s \o t)[i] = s[i]

LEMMA ServicesComeFirst ==
  ASSUME NEW S, NEW s \in Seq(S), NEW t \in Seq(S), NoService(t)
  PROVE  ServicesFirst(s, t)
<1>1. JoinsTo(s, t)
  BY Concatenated, Zenon
<1>2. ASSUME NEW i \in 1..Len(s \o t), (s \o t)[i].what = "service"
      PROVE  i \in 1..Len(s) /\ (s \o t)[i] = s[i]
  <2>1. i \in 1..Len(s) \/ i \in (Len(s) + 1)..(Len(s) + Len(t))
    BY <1>1 DEF JoinsTo
  <2>2. CASE i \in 1..Len(s)
    BY <1>1, <2>2, Zenon DEF JoinsTo
  <2>3. CASE i \in (Len(s) + 1)..(Len(s) + Len(t))
    <3>1. i - Len(s) \in 1..Len(t) /\ (s \o t)[i] = t[i - Len(s)]
      BY <1>1, <2>3, Zenon DEF JoinsTo
    <3>2. t[i - Len(s)].what # "service"
      BY <3>1 DEF NoService
    <3> QED BY <1>2, <3>1, <3>2
  <2> QED BY <2>1, <2>2, <2>3
<1> QED BY <1>2, Zenon DEF ServicesFirst

LEMMA WorkOnce ==
  ASSUME NoServiceTwice, NEW c \in Catalogs, NEW n \in 1..Len(c)
  PROVE  OnceIn(Work(c[n]))
<1> DEFINE e == c[n]
           services == [i \in 1..Len(e.services) |->
             Ask("service", Artifact("service", e.services[i], "scm"))]
           drivers == [i \in 1..Len(e.drivers) |->
             Ask("driver", Artifact("driver", e.drivers[i], "none"))]
           views == [i \in 1..Len(e.registry) |->
             Ask("views", Artifact("registry", e.registry[i].key, e.registry[i].view))]
           templates == [i \in 1..Len(e.paths) |->
             Ask("template", Artifact("path", e.paths[i], "none"))]
           L == Len(e.services)
           M == Len(e.drivers)
           N == Len(e.registry)
           K == Len(e.paths)
<1>1. e \in Entry /\ L \in Nat /\ M \in Nat /\ N \in Nat /\ K \in Nat
  <2>1. e \in Entry
    BY CatalogsAreTyped
  <2>2. e.services \in Seq(STRING) /\ e.drivers \in Seq(STRING) /\ e.paths \in Seq(Templates)
        /\ e.registry \in Seq(RegistryItem)
    BY <2>1 DEF Entry, RegistryItem
  <2> HIDE DEF e
  <2> QED BY <2>1, <2>2
<1>2. Work(e) = services \o drivers \o views \o templates
  BY DEF Work
<1>3. /\ \A i \in 1..L : services[i].artifact.name = e.services[i]
      /\ \A i \in 1..M : drivers[i].what = "driver"
      /\ \A i \in 1..N : views[i].what = "views"
      /\ \A i \in 1..K : templates[i].what = "template"
  BY DEF Ask, Artifact
<1>4. \A i, j \in 1..L : e.services[i] = e.services[j] => i = j
  BY DEF NoServiceTwice
<1>5. /\ Len(services) = L /\ Len(drivers) = M /\ Len(views) = N /\ Len(templates) = K
      /\ \E S : services \in Seq(S) /\ drivers \in Seq(S) /\ views \in Seq(S) /\ templates \in Seq(S)
  <2> DEFINE S == {services[i] : i \in 1..L} \cup {drivers[i] : i \in 1..M}
                  \cup {views[i] : i \in 1..N} \cup {templates[i] : i \in 1..K}
  <2>1. services \in [1..L -> S] /\ drivers \in [1..M -> S]
        /\ views \in [1..N -> S] /\ templates \in [1..K -> S]
    OBVIOUS
  <2> HIDE DEF S, services, drivers, views, templates, L, M, N, K
  <2>2. services \in Seq(S) /\ drivers \in Seq(S) /\ views \in Seq(S) /\ templates \in Seq(S)
    BY <1>1, <2>1
  <2>3. Len(services) = L /\ Len(drivers) = M /\ Len(views) = N /\ Len(templates) = K
    BY <1>1, <2>1
  <2> QED BY <2>2, <2>3
<1> HIDE DEF services, drivers, views, templates, L, M, N, K, e
<1>6. ASSUME NEW i \in 1..Len(Work(e)), Work(e)[i].what = "service"
      PROVE  i \in 1..L /\ Work(e)[i] = services[i]
  <2>1. PICK S : services \in Seq(S) /\ drivers \in Seq(S) /\ views \in Seq(S) /\ templates \in Seq(S)
    BY <1>5
  <2> DEFINE two   == services \o drivers
             three == two \o views
  <2>2. two \in Seq(S)
    BY <2>1, Concatenated, Zenon
  <2> HIDE DEF two
  <2>3. three \in Seq(S)
    BY <2>1, <2>2, Concatenated, Zenon
  <2> HIDE DEF three
  <2>4. NoService(drivers) /\ NoService(views) /\ NoService(templates)
    BY <1>3, <1>5 DEF NoService
  <2>5. /\ ServicesFirst(services, drivers) /\ ServicesFirst(two, views)
        /\ ServicesFirst(three, templates)
    BY <2>1, <2>2, <2>3, <2>4, ServicesComeFirst, Zenon
  <2>6. i \in 1..Len(three) /\ Work(e)[i] = three[i]
    <3>1. Work(e) = three \o templates
      BY <1>2 DEF three, two
    <3> QED BY <1>6, <2>5, <3>1 DEF ServicesFirst
  <2>7. i \in 1..Len(two) /\ Work(e)[i] = two[i]
    <3>1. i \in 1..Len(two \o views) /\ (two \o views)[i].what = "service"
      BY <1>6, <2>6 DEF three
    <3>2. i \in 1..Len(two) /\ (two \o views)[i] = two[i]
      BY <2>5, <3>1 DEF ServicesFirst
    <3> QED BY <2>6, <3>2 DEF three
  <2>8. i \in 1..Len(services) /\ Work(e)[i] = services[i]
    <3>1. i \in 1..Len(services \o drivers) /\ (services \o drivers)[i].what = "service"
      BY <1>6, <2>7 DEF two
    <3>2. i \in 1..Len(services) /\ (services \o drivers)[i] = services[i]
      BY <2>5, <3>1 DEF ServicesFirst
    <3> QED BY <2>7, <3>2 DEF two
  <2> QED BY <1>5, <2>8
<1>7. OnceIn(Work(e))
  <2> SUFFICES ASSUME NEW i \in 1..Len(Work(e)), NEW j \in 1..Len(Work(e)),
                      Work(e)[i].what = "service", Work(e)[j].what = "service",
                      Work(e)[i].artifact = Work(e)[j].artifact
               PROVE  i = j
    BY DEF OnceIn
  <2> QED BY <1>3, <1>4, <1>6
<1> QED BY <1>7 DEF e

(* A service SCM lists is seen by the lookup that asked for it.             *)
LEMMA ServicesSeen ==
  ASSUME Typed, EntryLookUp, NEW m \in present' \ present, m.item \in Services
  PROVE  Head(todo).what = "service" /\ m = Mention(Asked)
<1>1. \A a : Mention(a).item = a
  BY DEF Mention
<1>2. todo # <<>>
  BY LookUpFrame
<1>3. CASE LookUpService
  <2>1. Head(todo).what = "service"
    BY <1>3 DEF LookUpService, Asks
  <2>2. present' \subseteq present \cup {Mention(Asked)}
    BY <1>3 DEF LookUpService, WithImage, SeenAs, Unreadable
  <2> QED BY <2>1, <2>2
<1>4. CASE LookUpServiceKey
  <2>1. Asked \notin Services
    BY <1>2, <1>4, FirstArtifact DEF LookUpServiceKey, Asks, KeyOnly, Services
  <2>2. present' \subseteq present \cup {Mention(Asked)}
    BY <1>4 DEF LookUpServiceKey, WithImage, SeenAs, Unreadable, Absent
  <2> QED BY <1>1, <2>1, <2>2
<1>5. CASE LookUpImage \/ ReadSignature \/ ListViews \/ ExpandTemplate
  <2>1. present' = present
    BY <1>5 DEF LookUpImage, ReadSignature, ListViews, ExpandTemplate, Unreadable
  <2> QED BY <2>1
<1>6. CASE MatchDriver
  <2>1. m \in {Mention(RegisteredAs(k)) : k \in ToSet(Registered)}
    BY <1>6 DEF MatchDriver, Registered, RegisteredAs
  <2>2. PICK k \in ToSet(Registered) : m = Mention(RegisteredAs(k))
    BY <2>1
  <2>3. RegisteredAs(k).kind = "driver"
    BY <1>6, RegisteredTyped DEF RegisteredAs, Drivers
  <2>4. RegisteredAs(k) \notin Services
    BY <2>3 DEF Services
  <2> QED BY <1>1, <2>2, <2>4
<1>7. CASE LookUpLooseImage
  <2>1. Asked \notin Services
    BY <1>2, <1>7, FirstArtifact DEF LookUpLooseImage, Asks, Drivers, Services
  <2>2. [Asked EXCEPT !.kind = "not a file"] \notin Services
    <3>1. Asked \in Drivers
      BY <1>2, <1>7, FirstArtifact DEF LookUpLooseImage, Asks
    <3>2. [Asked EXCEPT !.kind = "not a file"].kind = "not a file"
      BY <3>1 DEF Drivers
    <3> QED BY <3>2 DEF Services
  <2>3. present' \subseteq present \cup {Mention(Asked), Mention([Asked EXCEPT !.kind = "not a file"])}
    BY <1>7 DEF LookUpLooseImage, SeenAs, Unreadable, Absent
  <2> QED BY <1>1, <2>1, <2>2, <2>3
<1>8. CASE LookUpRegistryKey
  <2>1. Asked \notin Services
    BY <1>2, <1>8, FirstArtifact DEF LookUpRegistryKey, Asks, InView, Services
  <2>2. present' \subseteq present \cup {Mention(Asked)}
    BY <1>8 DEF LookUpRegistryKey, SeenAs, Unreadable, Absent
  <2> QED BY <1>1, <2>1, <2>2
<1>9. CASE LookUpPath
  <2>1. Asked \in Unseen
    BY <1>2, <1>9, FirstArtifact DEF LookUpPath, Asks
  <2>2. \E kind \in {"file", "directory", "link"} : m = Mention([Asked EXCEPT !.via = kind])
    BY <1>9 DEF LookUpPath, SeenAs, Unreadable, Absent
  <2>3. PICK kind \in {"file", "directory", "link"} : m = Mention([Asked EXCEPT !.via = kind])
    BY <2>2
  <2>4. [Asked EXCEPT !.via = kind].kind = "path"
    BY <2>1 DEF Unseen
  <2>5. m.item.kind = "path"
    BY <1>1, <2>3, <2>4
  <2> QED BY <2>5 DEF Services
<1> QED BY <1>3, <1>4, <1>5, <1>6, <1>7, <1>8, <1>9 DEF EntryLookUp

LEMMA AskedOnceStep ==
  ASSUME NoServiceTwice, Typed, Accounted, AskedOnce, [Next]_vars
  PROVE  AskedOnce'
<1>0. Len(catalog) \in Nat /\ catalog \in Catalogs /\ entry \in Nat
  BY CatalogsAreTyped DEF Typed, Phase
<1>1. CASE EntryLookUp
  <2>1. /\ todo # <<>> /\ Head(todo).what \notin ListKinds /\ UNCHANGED <<catalog, entry>>
    BY <1>1, LookUpFrame
  <2>2. PICK more \in Seq(EntryAsks) :
          Then(more) /\ \A i \in 1..Len(more) : more[i].what # "service"
    BY <1>1, NoServiceAgain DEF AsksNoService
  <2>3. todo \in Seq(EntryAsks) /\ OnceIn(todo)
    BY <2>1, FirstAsk DEF AskedOnce
  <2>4. /\ OnceIn(todo') /\ AskingIn(todo') \subseteq AskingIn(todo)
        /\ Head(todo).what = "service" => Asked \notin AskingIn(todo')
    BY <2>1, <2>2, <2>3, OnceTurned DEF Then, Asked
  <2>5. ASSUME NEW a \in AskingIn(todo') PROVE Mention(a) \notin present'
    <3>1. Mention(a) \notin present
      BY <2>4 DEF AskedOnce
    <3>2. a \in Services
      <4>1. PICK b \in ToSet(todo) : b.what = "service" /\ b.artifact = a
        BY <2>4 DEF AskingIn
      <4>2. b \in EntryAsks
        <5>1. DOMAIN todo = 1..Len(todo) /\ \A i \in 1..Len(todo) : todo[i] \in EntryAsks
          BY <2>3
        <5> QED BY <5>1 DEF ToSet
      <4> QED BY <4>1, <4>2, ServicesAsked DEF ServiceAsks
    <3>3. ASSUME Mention(a) \in present' PROVE FALSE
      <4>1. Mention(a).item = a
        BY DEF Mention
      <4>2. Head(todo).what = "service" /\ Mention(a) = Mention(Asked)
        BY <1>1, <3>1, <3>2, <3>3, <4>1, ServicesSeen
      <4>3. a = Asked
        BY <4>1, <4>2 DEF Mention
      <4> QED BY <2>4, <4>2, <4>3
    <3> QED BY <3>3
  <2>6. \A a : Mention(a)' = Mention(a)
    BY <2>1, SameConstants
  <2>7. OnceIn(todo)' /\ \A a \in AskingIn(todo)' : Mention(a)' \notin present'
    <3>1. AskingIn(todo)' = AskingIn(todo') /\ OnceIn(todo)' <=> OnceIn(todo')
      BY DEF AskingIn, OnceIn, ToSet
    <3> QED BY <2>4, <2>5, <2>6, <3>1
  <2> QED BY <2>7 DEF AskedOnce
<1>2. ASSUME catalog' = catalog, present' = present, entry' = entry + 1,
             \/ todo' = <<>>
             \/ entry + 1 \in 1..Len(catalog) /\ todo' = Work(catalog[entry + 1])
      PROVE  AskedOnce'
  <2>1. OnceIn(todo')
    <3>1. OnceIn(<<>>)
      BY DEF OnceIn
    <3> QED BY <1>0, <1>2, <3>1, WorkOnce
  <2>2. ASSUME NEW a PROVE Mention(a)' \notin present'
    <3>1. Mention(a)'.entry = entry + 1
      BY <1>2 DEF Mention
    <3>2. \A m \in present : m.entry \in 0..entry
      BY DEF Accounted
    <3> QED BY <1>0, <1>2, <3>1, <3>2
  <2>3. OnceIn(todo)' <=> OnceIn(todo')
    BY DEF OnceIn
  <2> QED BY <2>1, <2>2, <2>3 DEF AskedOnce
<1>3. CASE ReadDriverKeys
  <2>1. catalog = <<>> \/ 1 \in 1..Len(catalog)
    BY AuditAssumption DEF Typed
  <2>2. entry = 0
    BY <1>3, FirstAsk DEF ReadDriverKeys, Asks, ListKinds
  <2>3. /\ entry' = 1 /\ catalog' = catalog /\ present' = present
        /\ todo' = IF catalog = <<>> THEN <<>> ELSE Work(catalog[1])
    BY <1>3, Zenon DEF ReadDriverKeys
  <2>4. entry' = entry + 1
    BY <2>2, <2>3
  <2>5. 1 = entry + 1
    BY <2>2
  <2>6. \/ todo' = <<>>
        \/ entry + 1 \in 1..Len(catalog) /\ todo' = Work(catalog[entry + 1])
    BY <2>1, <2>3, <2>5
  <2> QED BY <1>2, <2>3, <2>4, <2>6
<1>4. CASE Settle
  <2>1. entry \in 1..Len(catalog) /\ (entry < Len(catalog) => entry + 1 \in 1..Len(catalog))
    BY <1>0, <1>4 DEF Settle
  <2> QED BY <1>2, <1>4, <2>1 DEF Settle
<1>5. CASE FindSteamLibraries \/ FindEpicLibraries
  <2>1. todo # <<>> /\ Head(todo).what \in ListKinds /\ entry' = entry
    BY <1>5 DEF FindSteamLibraries, FindEpicLibraries, Asks, ListKinds
  <2>2. entry = 0 /\ todo \in Seq(ListAsks) /\ <<>> \in Seq(ListAsks)
    BY <2>1, FirstAsk, NoAsk
  <2>3. Then(<<>>)
    BY <1>5 DEF FindSteamLibraries, FindEpicLibraries, Absent, Unreadable, TakenForAbsent
  <2>4. todo' \in Seq(ListAsks)
    BY <2>1, <2>2, <2>3, Turned DEF Then
  <2>5. \A a \in ListAsks : a.what \notin LookKinds \cup {"service"}
    BY DEF ListAsks, ListKinds, LookKinds
  <2>6. AskingIn(todo') = {} /\ OnceIn(todo')
    BY <2>4, <2>5, NoLooks
  <2>7. AskingIn(todo)' = AskingIn(todo') /\ (OnceIn(todo)' <=> OnceIn(todo'))
    BY DEF AskingIn, OnceIn, ToSet
  <2> QED BY <2>6, <2>7 DEF AskedOnce
<1>6. CASE UNCHANGED vars
  <2>1. AskingIn(todo)' = AskingIn(todo) /\ (OnceIn(todo)' <=> OnceIn(todo))
    BY <1>6 DEF AskingIn, OnceIn, ToSet, vars
  <2>2. \A a : Mention(a)' = Mention(a)
    BY <1>6, SameConstants DEF vars
  <2> QED BY <1>6, <2>1, <2>2 DEF AskedOnce, vars
<1> QED BY <1>1, <1>3, <1>4, <1>5, <1>6 DEF Next, EntryLookUp

(* Whatever the machine said is there, but for a directory or reparse point *)
(* in the place of a driver's unregistered image, ends, once its entry is   *)
(* settled, as a finding, as protected or as disbelieved, and nothing is    *)
(* found that the machine did not name, that is refused or that was not     *)
(* believed (engine.rs, run, registry_key, path and settle), for every      *)
(* catalog that names no service twice in one entry: of a service asked for *)
(* twice, the first answer may be disbelieved and the second found.         *)
THEOREM AnswersAreReported ==
  ASSUME NoServiceTwice
  PROVE  Spec => []EveryAnswerIsReported
<1>1. Init => Typed /\ Accounted /\ AskedOnce
  BY TypedInit, AccountedInit
<1>2. Typed /\ Accounted /\ AskedOnce /\ [Next]_vars => (Typed /\ Accounted /\ AskedOnce)'
  BY TypedStep, AccountedStep, AskedOnceStep
<1>3. Accounted => EveryAnswerIsReported
  BY DEF Accounted, EveryAnswerIsReported, SetAside
<1> QED BY <1>1, <1>2, <1>3, PTL DEF Spec
===============================================================================
