--------------------------------- MODULE Audit ---------------------------------
(***************************************************************************)
(* The audit (core/src/scan/engine.rs): every entry of the catalog asked   *)
(* of the machine, item by item, then the entry's findings classified.     *)
(*                                                                         *)
(* The machine (core/src/scan/view.rs) answers every lookup as it likes: a *)
(* service may be uninstalled, a file signed or replaced, a key closed     *)
(* between any two lookups, and every answer may be "unreadable".  What    *)
(* was answered is kept in present and unread, which no action reads.      *)
(*                                                                         *)
(* The game libraries (libraries.rs) and the driver keys (win.rs) are read *)
(* once, before the first entry, from this machine's own lists.            *)
(***************************************************************************)
EXTENDS Integers, Sequences, FiniteSets, SequencesExt

CONSTANTS
  Catalogs,     \* catalogs audit may be called with: each a sequence of entries
  Expansions,   \* the paths a template may expand to on this machine
  Unexpandable, \* templates that do not expand at all
  Within,       \* the game library an expansion lies in, if it lies in one
  SteamFolders, \* the libraries Steam's list names
  EpicGames,    \* Epic's manifests, each with the location of its game
  Refused,      \* keys and paths the deny-list refuses
  Redirected,   \* keys under HKLM\SOFTWARE
  Signable,     \* paths of .exe, .dll, .sys and .msi files
  DriverKeys,   \* every driver key: its name and its image's file name
  Signers,      \* common names found in signatures
  Attestation   \* Microsoft's attestation signer

(* epic_library_of: a game's library is the folder above the game's own,    *)
(* unless that is a drive, which is not walked as a whole.                  *)
LibraryOf(location) == IF Len(location) > 2 THEN Front(location) ELSE location

Named(games) == {LibraryOf(EpicGames[g]) : g \in games}

Templates == Unexpandable \cup DOMAIN Expansions

Entry == [services : Seq(STRING), drivers : Seq(STRING), paths : Seq(Templates),
          registry : Seq([key : STRING, view : {"32", "64", "both"}]),
          authenticode_cn : SUBSET Signers]

(* What a verification answers that names no signer, and the evidence of an *)
(* artifact without one.                                                    *)
Unsigned == {"unsigned", "invalid", "unknown"}
Unjudged == {"no image", "image not on disk", "image unreadable", "present"}

ASSUME AuditAssumption ==
  /\ Catalogs \subseteq Seq(Entry)
  /\ Unexpandable \subseteq STRING /\ DOMAIN Expansions \subseteq STRING
  /\ Unexpandable \cap DOMAIN Expansions = {}
  /\ \A t \in DOMAIN Expansions :
       Expansions[t] \subseteq STRING /\ IsFiniteSet(Expansions[t])
  /\ SteamFolders \subseteq Seq(STRING)
  /\ DOMAIN EpicGames \subseteq STRING
  /\ \A g \in DOMAIN EpicGames : EpicGames[g] \in Seq(STRING)
  /\ \A p \in DOMAIN Within : Within[p] \in Seq(STRING)
  /\ DriverKeys \subseteq [name : STRING, file : STRING] /\ IsFiniteSet(DriverKeys)
  /\ Attestation \in Signers
  /\ Signers \cap (Unsigned \cup Unjudged) = {}

Classification == {"confirmed", "probable", "suspicious"}
NotJudged == "not judged"
Signature == Signers \cup Unsigned

(* An artifact; via tells a service SCM lists from one only its key shows,  *)
(* the key registering a driver, the registry view, the kind of a path.     *)
Artifact(kind, name, via) == [kind |-> kind, name |-> name, via |-> via]

(* A lookup still to be made, for an artifact of the current entry.         *)
Ask(what, artifact) == [what |-> what, artifact |-> artifact]

VARIABLES
  catalog,  \* catalog.anticheat
  entry,    \* the entry being audited, 0 before the driver keys are read
  todo,     \* the lookups still to be made, in the order of the code; the paths
            \* of one template, and the keys of one driver, in any fixed order
  libraries,\* the game libraries of the environment
  keys,     \* driver_keys, read once for all entries
  found,    \* the entry's Pending artifacts
  report,   \* the Report
  present,  \* what the machine said is there
  unread    \* the lookups it could not answer

vars == <<catalog, entry, todo, libraries, keys, found, report, present, unread>>

Mention(item) == [entry |-> entry, item |-> item]

TypeOK ==
  /\ catalog \in Catalogs
  /\ entry \in 0..(Len(catalog) + 1)
  /\ \A i \in 1..Len(todo) : DOMAIN todo[i] = {"what", "artifact"}
  /\ libraries \subseteq SteamFolders \cup Named(DOMAIN EpicGames)
  /\ keys \subseteq DriverKeys
  /\ \A p \in found : p.judged \in Classification \cup {NotJudged}
  /\ \A f \in report.findings :
       f.classification \in Classification /\ f.entry \in 1..Len(catalog)
  /\ \A m \in report.protected \cup report.disbelieved \cup report.unreadable :
       m.entry \in 0..Len(catalog)
  /\ \A m \in present \cup unread : m.entry \in 0..Len(catalog)

Init ==
  /\ catalog \in Catalogs
  /\ entry = 0 /\ libraries = {} /\ keys = {} /\ found = {}
  /\ todo = <<Ask("steam", Artifact("library list", "Steam", "")),
              Ask("epic", Artifact("library list", "Epic", "")),
              Ask("driver keys", Artifact("Services", "", ""))>>
  /\ report = [findings |-> {}, protected |-> {}, disbelieved |-> {}, unreadable |-> {}]
  /\ present = {} /\ unread = {}

-------------------------------------------------------------------------------
(* What run asks for an entry, in order.  Only a key under HKLM\SOFTWARE    *)
(* has two views.                                                           *)
Views(key, view) ==
  IF view = "32" THEN <<"32">>
  ELSE IF view = "both" /\ key \in Redirected THEN <<"64", "32">> ELSE <<"64">>

Work(e) ==
  [i \in 1..Len(e.services) |-> Ask("service", Artifact("service", e.services[i], "scm"))]
  \o [i \in 1..Len(e.drivers) |-> Ask("driver", Artifact("driver", e.drivers[i], "none"))]
  \o [i \in 1..Len(e.registry) |->
       Ask("views", Artifact("registry", e.registry[i].key, e.registry[i].view))]
  \o [i \in 1..Len(e.paths) |-> Ask("template", Artifact("path", e.paths[i], "none"))]

Asks(what) == todo # <<>> /\ Head(todo).what = what
Asked      == Head(todo).artifact
Then(more) == todo' = more \o Tail(todo)

(* The three lists an answer may go to, beside the findings.                *)
Says(list, item) == report' = [report EXCEPT ![list] = @ \cup {Mention(item)}]

SeenAs(artifact)   == present' = present \cup {Mention(artifact)}
Unanswered(item)   == unread' = unread \cup {Mention(item)}

Absent == Then(<<>>) /\ UNCHANGED <<found, report, present, unread>>

(* What could not be read is taken for absent.                              *)
TakenForAbsent(item) ==
  /\ Unanswered(item)
  /\ Then(<<>>)
  /\ UNCHANGED <<found, report, present>>

(* Slip: so is any answer.                                                  *)
Unreadable_TakenForAbsent ==
  /\ Unanswered(Asked)
  /\ Then(<<>>)
  /\ UNCHANGED <<found, report, present>>

Unreadable ==
  /\ Says("unreadable", Asked) /\ Unanswered(Asked)
  /\ Then(<<>>)
  /\ UNCHANGED <<found, present>>

Protect(item) ==
  /\ Says("protected", item)
  /\ Then(<<>>)
  /\ UNCHANGED <<found, unread>>

Pending(artifact, evidence, judged) ==
  found' = found \cup {[artifact |-> artifact, evidence |-> evidence, judged |-> judged]}

(* Slip: the publisher is compared before the attestation.                  *)
Judge_PublisherFirst(signature, e) ==
  IF signature \in e.authenticode_cn THEN "confirmed"
  ELSE IF \/ signature \in {Attestation, "unknown"}
          \/ signature \in Signers /\ e.authenticode_cn = {}
  THEN "probable" ELSE "suspicious"

(* Slip: a verification error is a failed verification.                     *)
Judge_ErrorIsInvalid(signature, e) ==
  IF \/ signature = Attestation
     \/ signature \in Signers /\ e.authenticode_cn = {}
  THEN "probable"
  ELSE IF signature \in e.authenticode_cn THEN "confirmed" ELSE "suspicious"

(* Attestation comes before the publisher: no catalog can make Microsoft's  *)
(* signature of a driver its vendor's.                                      *)
Judge(signature, e) ==
  IF \/ signature = Attestation
     \/ signature = "unknown"
     \/ signature \in Signers \ e.authenticode_cn /\ e.authenticode_cn = {}
  THEN "probable"
  ELSE IF signature \in e.authenticode_cn THEN "confirmed" ELSE "suspicious"

-------------------------------------------------------------------------------
(* steam_install and discover.  Steam is taken for absent when the registry *)
(* value naming its directory cannot be read, or the directory cannot be    *)
(* looked at (is_dir); a list that cannot be read is unreadable.            *)
FindSteamLibraries ==
  /\ Asks("steam")
  /\ \/ /\ libraries' = libraries \cup SteamFolders
        /\ Then(<<>>)
        /\ UNCHANGED <<found, report, present, unread>>
     \/ /\ \/ Absent
           \/ Unreadable
           \/ TakenForAbsent(Artifact("install", "Steam", ""))
        /\ UNCHANGED libraries
  /\ UNCHANGED <<catalog, entry, keys>>

(* read_epic_manifests: an entry the listing fails on is dropped, a         *)
(* manifest that cannot be read or parsed is reported.  One that is not     *)
(* there, or names no location, gives no library.                           *)
FindEpicLibraries ==
  /\ Asks("epic")
  /\ \/ \E dropped \in SUBSET DOMAIN EpicGames :
        \E bad \in SUBSET (DOMAIN EpicGames \ dropped) :
        \E named \in SUBSET (DOMAIN EpicGames \ (dropped \cup bad)) :
          LET Items(kind, games) == {Mention(Artifact(kind, g, "")) : g \in games}
          IN  /\ libraries' = libraries \cup Named(named)
              /\ report' = [report EXCEPT !.unreadable = @ \cup Items("manifest", bad)]
              /\ unread' = unread \cup Items("manifest", bad) \cup Items("listing", dropped)
              /\ Then(<<>>)
              /\ UNCHANGED <<found, present>>
     \/ Unreadable /\ UNCHANGED libraries
  /\ UNCHANGED <<catalog, entry, keys>>

(* What a listing of the driver keys may find: keys that read as drivers,   *)
(* keys that cannot be opened, and keys whose Type or ImagePath cannot be   *)
(* read, which count as no driver, or as one without an image.              *)
KeyListings ==
  {l \in [{"drivers", "closed", "blank"} -> SUBSET DriverKeys] :
     /\ l["drivers"] \cap (l["closed"] \cup l["blank"]) = {}
     /\ l["closed"] \cap l["blank"] = {}}

(* driver_keys, once.  A key that cannot be opened belongs to no entry.     *)
ReadDriverKeys ==
  /\ Asks("driver keys")
  /\ \/ \E l \in KeyListings :
          LET Items(kind, some) == {Mention(Artifact(kind, k.name, "")) : k \in l[some]}
          IN  /\ keys' = l["drivers"]
              /\ report' = [report EXCEPT !.unreadable = @ \cup Items("service key", "closed")]
              /\ unread' = unread \cup Items("service key", "closed")
                                  \cup Items("service value", "blank")
     \/ /\ keys' = {}
        /\ Says("unreadable", Asked) /\ Unanswered(Asked)
  /\ entry' = 1
  /\ todo' = IF catalog = <<>> THEN <<>> ELSE Work(catalog[1])
  /\ UNCHANGED <<catalog, libraries, found, present>>

(* An image the configuration names is looked at; one it does not name      *)
(* leaves the artifact unjudged.                                            *)
WithImage(artifact, named) ==
  /\ SeenAs(artifact)
  /\ IF named THEN Then(<<Ask("image", artifact)>>) /\ UNCHANGED found
              ELSE Then(<<>>) /\ Pending(artifact, "no image", NotJudged)
  /\ UNCHANGED report

LookUpService ==
  /\ Asks("service")
  /\ \/ /\ Says("disbelieved", Asked) /\ SeenAs(Asked)     \* stale
        /\ Then(<<>>)
        /\ UNCHANGED <<found, unread>>
     \/ \E named \in BOOLEAN : WithImage(Asked, named) /\ UNCHANGED unread
     \/ /\ Then(<<Ask("service_key", [Asked EXCEPT !.via = "registry only"])>>)
        /\ UNCHANGED <<found, report, present, unread>>
     \/ Unreadable
  /\ UNCHANGED <<catalog, entry, libraries, keys>>

(* A key whose ImagePath cannot be read counts as one without an image.     *)
LookUpServiceKey ==
  /\ Asks("service_key")
  /\ \/ \E named \in BOOLEAN : WithImage(Asked, named) /\ UNCHANGED unread
     \/ WithImage(Asked, FALSE) /\ Unanswered([Asked EXCEPT !.kind = "service value"])
     \/ Absent
     \/ Unreadable
  /\ UNCHANGED <<catalog, entry, libraries, keys>>

(* The image of a service, or of a registered driver.  One that cannot be   *)
(* read is said so in the evidence of a service, and is taken for missing   *)
(* in a driver's.                                                           *)
LookUpImage ==
  /\ Asks("image")
  /\ \/ /\ Then(<<Ask("signature", Asked)>>)
        /\ UNCHANGED <<found, unread>>
     \/ /\ Pending(Asked, "image not on disk", NotJudged)
        /\ Then(<<>>)
        /\ UNCHANGED unread
     \/ /\ Pending(Asked, IF Asked.kind = "driver" THEN "image not on disk"
                                                   ELSE "image unreadable", NotJudged)
        /\ Unanswered([Asked EXCEPT !.kind = "image"])
        /\ Then(<<>>)
  /\ UNCHANGED <<catalog, entry, libraries, keys, report, present>>

(* A signature that cannot be verified is said so in the evidence only.     *)
ReadSignature ==
  /\ Asks("signature")
  /\ \E signature \in Signature :
       /\ Pending(Asked, signature, Judge(signature, catalog[entry]))
       /\ IF signature = "unknown"
          THEN Unanswered([Asked EXCEPT !.kind = "signature"])
          ELSE UNCHANGED unread
  /\ Then(<<>>)
  /\ UNCHANGED <<catalog, entry, libraries, keys, report, present>>

(* Slip: of several keys registering the driver only one is reported.       *)
MatchDriver_FirstOnly ==
  /\ Asks("driver")
  /\ LET registered == {k \in keys : k.file = Asked.name}
         Image(k)   == [Asked EXCEPT !.via = k.name]
         first      == CHOOSE k \in registered : TRUE
     IN  IF registered = {}
         THEN Then(<<Ask("loose image", Asked)>>) /\ UNCHANGED present
         ELSE /\ Then(<<Ask("image", Image(first))>>)
              /\ present' = present \cup {Mention(Image(k)) : k \in registered}
  /\ UNCHANGED <<catalog, entry, libraries, keys, found, report, unread>>

(* A driver is looked for among the keys read at the start.  With none, its *)
(* image may still be in System32\drivers.                                  *)
MatchDriver ==
  /\ Asks("driver")
  /\ LET registered == SetToSeq({k \in keys : k.file = Asked.name})
         Image(k)   == [Asked EXCEPT !.via = k.name]
     IN  IF registered = <<>>
         THEN Then(<<Ask("loose image", Asked)>>) /\ UNCHANGED present
         ELSE /\ Then([i \in 1..Len(registered) |-> Ask("image", Image(registered[i]))])
              /\ present' = present \cup {Mention(Image(k)) : k \in ToSet(registered)}
  /\ UNCHANGED <<catalog, entry, libraries, keys, found, report, unread>>

(* Only a file counts.  What is there and is a directory or a reparse point *)
(* goes the way of what is not there.                                       *)
LookUpLooseImage ==
  /\ Asks("loose image")
  /\ \/ /\ Then(<<Ask("signature", Asked)>>) /\ SeenAs(Asked)
        /\ UNCHANGED <<found, report, unread>>
     \/ /\ Then(<<>>) /\ SeenAs([Asked EXCEPT !.kind = "not a file"])
        /\ UNCHANGED <<found, report, unread>>
     \/ Absent
     \/ Unreadable
  /\ UNCHANGED <<catalog, entry, libraries, keys>>

ListViews ==
  /\ Asks("views")
  /\ LET views == Views(Asked.name, Asked.via)
     IN  Then([v \in 1..Len(views) |-> Ask("registry", [Asked EXCEPT !.via = views[v]])])
  /\ UNCHANGED <<catalog, entry, libraries, keys, found, report, present, unread>>

(* The deny-list is asked before the machine.                               *)
LookUpRegistryKey ==
  /\ Asks("registry")
  /\ IF Asked.name \in Refused
     THEN Protect(Asked) /\ UNCHANGED present
     ELSE \/ /\ Pending(Asked, "present", NotJudged) /\ SeenAs(Asked)
             /\ Then(<<>>)
             /\ UNCHANGED <<report, unread>>
          \/ Absent
          \/ Unreadable
  /\ UNCHANGED <<catalog, entry, libraries, keys>>

(* The variable of a launcher has a value for each of its libraries found.  *)
Reached(path) == path \in DOMAIN Within => Within[path] \in libraries

ExpandTemplate ==
  /\ Asks("template")
  /\ IF Asked.name \in Unexpandable
     THEN Unreadable
     ELSE /\ LET paths == SetToSeq({p \in Expansions[Asked.name] : Reached(p)})
             IN  Then([i \in 1..Len(paths) |-> Ask("path", Artifact("path", paths[i], "none"))])
          /\ UNCHANGED <<found, report, present, unread>>
  /\ UNCHANGED <<catalog, entry, libraries, keys>>

RefusesPath(path) == path.via = "link" \/ path.name \in Refused

(* The machine is asked before the deny-list, which refuses any link.       *)
LookUpPath ==
  /\ Asks("path")
  /\ \/ \E kind \in {"file", "directory", "link"} :
          LET path == [Asked EXCEPT !.via = kind]
          IN  /\ SeenAs(path)
              /\ IF RefusesPath(path)
                 THEN Protect(path)
                 ELSE /\ IF kind = "file" /\ path.name \in Signable
                         THEN Then(<<Ask("signature", path)>>) /\ UNCHANGED found
                         ELSE Then(<<>>) /\ Pending(path, "present", NotJudged)
                      /\ UNCHANGED <<report, unread>>
     \/ Absent
     \/ Unreadable
  /\ UNCHANGED <<catalog, entry, libraries, keys>>

(* Slip: an artifact nothing judged keeps no classification.                *)
Settled_OnlyJudged(pending) == pending.judged

(* The classification of what is not judged by a signature of its own rests *)
(* on the signatures of the entry's other files.                            *)
Settled(pending) ==
  LET Some(class) == \E p \in found : p.judged = class
  IN  IF pending.judged # NotJudged THEN pending.judged
      ELSE IF Some("confirmed") /\ ~Some("suspicious") THEN "confirmed" ELSE "probable"

Settle ==
  /\ entry \in 1..Len(catalog) /\ todo = <<>>
  /\ report' = [report EXCEPT !.findings = @ \cup
       {[entry |-> entry, artifact |-> p.artifact, evidence |-> p.evidence,
         classification |-> Settled(p)] : p \in found}]
  /\ found' = {}
  /\ entry' = entry + 1
  /\ todo' = IF entry < Len(catalog) THEN Work(catalog[entry + 1]) ELSE <<>>
  /\ UNCHANGED <<catalog, libraries, keys, present, unread>>

Next ==
  \/ FindSteamLibraries \/ FindEpicLibraries \/ ReadDriverKeys
  \/ LookUpService \/ LookUpServiceKey \/ LookUpImage \/ ReadSignature
  \/ MatchDriver \/ LookUpLooseImage \/ ListViews \/ LookUpRegistryKey
  \/ ExpandTemplate \/ LookUpPath \/ Settle

Spec == Init /\ [][Next]_vars

-------------------------------------------------------------------------------
Done == entry = Len(catalog) + 1

(* wardsweep scan: partial wins over findings, findings over nothing.       *)
ExitCode == IF report.unreadable # {} THEN "partial"
            ELSE IF report.findings = {} THEN "nothing" ELSE "ok"

FoundItems == {[entry |-> f.entry, item |-> f.artifact] : f \in report.findings}

(* What the machine says is there and the code drops without a word: a      *)
(* directory or a reparse point in the place of a driver's image that no    *)
(* key registers (engine.rs, driver: Found(_) together with Absent).        *)
Dropped == {"not a file"}

(* Whatever else the machine said is there ends, once its entry is settled, *)
(* as a finding, as protected or as disbelieved, and what is refused or not *)
(* believed is no finding as well; nothing is found that the machine did    *)
(* not name, and no link or protected place among it (engine.rs, run,       *)
(* registry_key, path and settle).                                          *)
IsProtected(artifact) ==
  artifact.kind \in {"registry", "path"} /\ (artifact.name \in Refused \/ artifact.via = "link")

EveryAnswerIsReported ==
  LET setAside == report.protected \cup report.disbelieved
  IN  /\ ~\E m \in FoundItems : IsProtected(m.item)
      /\ \A m \in present :
           m.entry < entry /\ m.item.kind \notin Dropped => m \in FoundItems \cup setAside
      /\ FoundItems \subseteq present \ setAside

(* What the code overlooks when it cannot be read: an image, a signature,   *)
(* Steam's directory or the value naming it, an entry of Epic's directory,  *)
(* and the Type or ImagePath of a service's or driver's key.                *)
Overlooked == {"image", "signature", "install", "listing", "service value"}

(* A scan that is not partial could read everything but those (engine.rs,   *)
(* run; libraries.rs, discover; wardsweep.rs, exit_code).                   *)
UnreadableMakesPartial ==
  Done /\ ExitCode # "partial" => \A m \in unread : m.item.kind \in Overlooked

(* Confirmed means that the entry's publisher signed the file itself, or,   *)
(* for what has no signature, another file of this very entry, none of      *)
(* whose files is suspicious; Microsoft's attestation counts for nobody     *)
(* (engine.rs, judge and settle).                                           *)
OnlyThePublisherConfirms ==
  \A f \in report.findings : f.classification = "confirmed" =>
    LET publisher == catalog[f.entry].authenticode_cn \ {Attestation}
        siblings  == {g \in report.findings : g.entry = f.entry}
    IN  \/ f.evidence \in publisher
        \/ /\ f.evidence \notin Signature
           /\ \E g \in siblings : g.evidence \in publisher
           /\ \A g \in siblings : g.classification # "suspicious"

(* Nobody is made suspicious by a file that could not be checked, was not   *)
(* there, or has no publisher to be compared with (engine.rs, judge: "a     *)
(* verification error is never suspicious").                                *)
OnlyASignatureMakesSuspicious ==
  \A f \in report.findings : f.classification = "suspicious" =>
    LET publisher == catalog[f.entry].authenticode_cn
    IN  \/ f.evidence \in {"unsigned", "invalid"}
        \/ /\ publisher # {}
           /\ f.evidence \in Signers \ (publisher \cup {Attestation})

(* engine.rs, the module's summary: "Anything unreadable is reported as     *)
(* unreadable, and makes the scan partial".                                 *)
AnythingUnreadableMakesPartial == Done /\ ExitCode # "partial" => unread = {}
===============================================================================
