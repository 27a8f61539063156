----------------------------- MODULE CatalogRelease -----------------------------
(***************************************************************************)
(* The life of a catalog: edited, signed with wardsweep-catalog            *)
(* (tools/catalog/src/main.rs), let pass by catalog-verify.yml, shipped    *)
(* and read by wardsweep (cli/src/bin/wardsweep.rs), which answers with an *)
(* exit code.                                                              *)
(*                                                                         *)
(* First the files are those of the repository and people edit them and    *)
(* run the tool, several at once; then they are those of one machine,      *)
(* where they are replaced one at a time while wardsweep runs.  A catalog  *)
(* file is the name of its bytes, CatalogOf what they parse to.  A key     *)
(* pair has one name; signatures cannot be made without it.                *)
(***************************************************************************)
EXTENDS Catalog

CONSTANTS
  Bodies,        \* byte strings a catalog file may hold
  CatalogOf,     \* what those that parse denote
  Keys,          \* key pairs the system's randomness yields, each once
  SecretPaths,   \* where secret keys are kept
  People,        \* who run the tool
  HarnessCodes,  \* what the observation harness ends with
  Absent, Torn,  \* no file, and one whose write failed half-way
  MaxEdits, MaxSignatures, MaxCommits

(* The bytes of a signature: whose it is, what it is over, and whether the  *)
(* tool made it, which nobody can see.                                      *)
Signature == [by : Keys, over : Bodies, checked : BOOLEAN]

ASSUME CatalogReleaseAssumption ==
  /\ DOMAIN CatalogOf \subseteq Bodies
  /\ Absent # Torn
  /\ {Absent, Torn} \cap (Bodies \cup Keys \cup Signature) = {}

VARIABLES
  where,     \* whose files: the "repository"'s or a "machine"'s
  body, sig, \* catalog.toml and catalog.toml.sig
  pubkey,    \* catalog/pubkey.hex, later what is compiled in
  secrets,   \* the file at each secret path
  tool,      \* the keygen or sign each person is running
  signed,    \* every signature there is
  passed,    \* the commits CI let pass
  edits,     \* how often the catalog was edited
  run        \* how far wardsweep is and what it has read or answered

vars == <<where, body, sig, pubkey, secrets, tool, signed, passed, edits, run>>

------------------------------------------------------------------------------
(* What a signature says, and who accepts it *)

(* verify_detached: the key is one, the signature is one, and it is that    *)
(* key's over these bytes.                                                  *)
Verifies(bytes, signature, key) ==
  /\ key \in Keys
  /\ signature \in Signature
  /\ signature.by = key /\ signature.over = bytes

Parses(bytes) == bytes \in DOMAIN CatalogOf

(* The four checks sign and load_verified make of what parses.              *)
PassesChecks(bytes) == Parses(bytes) /\ IsSound(CatalogOf[bytes])

(* Slip: CI audits shared flags without --require-evidence.                 *)
CiPasses_NoEvidence(commit) ==
  /\ Verifies(commit.body, commit.sig, commit.pubkey)
  /\ Parses(commit.body)
  /\ LET catalog == CatalogOf[commit.body]
     IN  /\ Validates(catalog) /\ ChecksDenylist(catalog)
         /\ ChecksRefs(catalog) /\ AuditsShared(catalog, FALSE)

(* catalog-verify.yml: one command of the tool after the other.             *)
CiPasses(commit) ==
  /\ Parses(commit.body)
  /\ Validates(CatalogOf[commit.body])
  /\ Verifies(commit.body, commit.sig, commit.pubkey)
  /\ ChecksDenylist(CatalogOf[commit.body])
  /\ ChecksRefs(CatalogOf[commit.body])
  /\ AuditsShared(CatalogOf[commit.body], TRUE)

(* load_verified, of the two files as read and the key compiled in.         *)
Loads(bytes, signature, key) ==
  Verifies(bytes, signature, key) /\ PassesChecks(bytes)

------------------------------------------------------------------------------
(* The repository *)

(* The bound on what is signed and what is committed.                       *)
MayAdd(set, element, most) == element \in set \/ Cardinality(set) < most

(* A command of the tool: the secret path it writes, and the key or bytes it *)
(* holds.                                                                   *)
Tool(step, path, holds) == [step |-> step, path |-> path, holds |-> holds]
Idle == Tool("idle", Absent, Absent)
InRepository(who) == where = "repository" /\ tool[who] = Idle

Edit(text) ==
  /\ where = "repository" /\ edits < MaxEdits
  /\ body' = text
  /\ edits' = edits + 1
  /\ UNCHANGED <<where, sig, pubkey, secrets, tool, signed, passed, run>>

(* Randomness yields no key twice.                                          *)
Fresh(key) ==
  /\ key \notin {secrets[path] : path \in SecretPaths} \cup {pubkey}
  /\ \A who \in People : tool[who].holds # key
  /\ \A signature \in signed : signature.by # key

(* Slip: an existing secret key is truncated and written anew.              *)
MayCreate_Always(path) == TRUE

(* create_new: the file is created in the step that finds there is none.    *)
MayCreate(path) == secrets[path] = Absent

KeygenOpen(who, path, key) ==
  /\ InRepository(who)
  /\ Fresh(key)
  /\ MayCreate(path)
  /\ secrets' = [secrets EXCEPT ![path] = Torn]
  /\ tool' = [tool EXCEPT ![who] = Tool("secret", path, key)]
  /\ UNCHANGED <<where, body, sig, pubkey, signed, passed, edits, run>>

(* A write that fails ends the command and leaves what it had written.      *)
KeygenWriteSecret(who) ==
  /\ tool[who].step = "secret"
  /\ \/ /\ secrets' = [secrets EXCEPT ![tool[who].path] = tool[who].holds]
        /\ tool' = [tool EXCEPT ![who].step = "public"]
     \/ /\ tool' = [tool EXCEPT ![who] = Idle]
        /\ UNCHANGED secrets
  /\ UNCHANGED <<where, body, sig, pubkey, signed, passed, edits, run>>

KeygenWritePublic(who) ==
  /\ tool[who].step = "public"
  /\ pubkey' \in {tool[who].holds, Torn, pubkey}
  /\ tool' = [tool EXCEPT ![who] = Idle]
  /\ UNCHANGED <<where, body, sig, secrets, signed, passed, edits, run>>

(* sign reads the catalog once; what fails a check is refused.              *)
SignRead(who) ==
  /\ InRepository(who)
  /\ PassesChecks(body)
  /\ tool' = [tool EXCEPT ![who] = Tool("sign", Absent, body)]
  /\ UNCHANGED <<where, body, sig, pubkey, secrets, signed, passed, edits, run>>

(* Slip: what is signed is read again.                                      *)
SignedBytes_ReadAgain(who) == body

SignedBytes(who) == tool[who].holds

(* A path that holds no whole key is refused.                               *)
SignWrite(who, path) ==
  /\ tool[who].step = "sign"
  /\ tool' = [tool EXCEPT ![who] = Idle]
  /\ IF secrets[path] \in Keys
       THEN LET signature == [by |-> secrets[path], over |-> SignedBytes(who), checked |-> TRUE]
            IN  \/ /\ MayAdd(signed, signature, MaxSignatures)
                   /\ sig' = signature
                   /\ signed' = signed \cup {signature}
                \/ sig' = Torn /\ UNCHANGED signed
       ELSE UNCHANGED <<sig, signed>>
  /\ UNCHANGED <<where, body, pubkey, secrets, passed, edits, run>>

(* "Signed with an older tool, or by hand": no checks.                      *)
SignUnchecked(path) ==
  /\ where = "repository"
  /\ secrets[path] \in Keys
  /\ sig' = [by |-> secrets[path], over |-> body, checked |-> FALSE]
  /\ MayAdd(signed, sig', MaxSignatures)
  /\ signed' = signed \cup {sig'}
  /\ UNCHANGED <<where, body, pubkey, secrets, tool, passed, edits, run>>

Commit == [body |-> body, sig |-> sig, pubkey |-> pubkey]

PassCi ==
  /\ where = "repository"
  /\ CiPasses(Commit)
  /\ MayAdd(passed, Commit, MaxCommits)
  /\ passed' = passed \cup {Commit}
  /\ UNCHANGED <<where, body, sig, pubkey, secrets, tool, signed, edits, run>>

(* A build compiles in the key as it is, whatever CI says of the commit,    *)
(* and ships the two files.  The repository is left to itself from then on. *)
Release ==
  /\ where = "repository"
  /\ pubkey # Absent
  /\ \A who \in People : tool[who] = Idle
  /\ where' = "machine"
  /\ secrets' = [path \in SecretPaths |-> Absent]
  /\ passed' = {} /\ edits' = 0
  /\ UNCHANGED <<body, sig, pubkey, tool, signed, run>>

------------------------------------------------------------------------------
(* The machine *)

EXIT_OK == 0
EXIT_NOTHING == 1
EXIT_SCAN_ERROR == 2
EXIT_PARTIAL == 3
EXIT_CATALOG_FAILED == 9
EXIT_USAGE == 64

(* catalog and scan read the catalog; scan in another mode is refused, and  *)
(* observe needs none.                                                      *)
Readers == {"catalog", "scan"}

Undisturbed == UNCHANGED <<where, body, sig, pubkey, secrets, tool, signed, passed, edits>>

(* A run of wardsweep: what it read so far, or what it used and its code.   *)
Run(step, command, bytes, signature, code) ==
  [step |-> step, command |-> command, bytes |-> bytes, signature |-> signature, code |-> code]
NotRunning == Run("none", "", Absent, Absent, EXIT_OK)

Answers(command, code, used) == run' = Run("answered", command, used, Absent, code)

(* The files are replaced one at a time, by what was ever signed, by what   *)
(* was not, or by nothing.                                                  *)
PutCatalog(text) ==
  /\ where = "machine"
  /\ body' = text
  /\ UNCHANGED <<where, sig, pubkey, secrets, tool, signed, passed, edits, run>>

PutSignature(file) ==
  /\ where = "machine"
  /\ sig' = file
  /\ UNCHANGED <<where, body, pubkey, secrets, tool, signed, passed, edits, run>>

Start(command) ==
  /\ where = "machine" /\ run.step \in {"none", "answered"}
  /\ run' = Run("catalog", command, Absent, Absent, EXIT_OK)
  /\ Undisturbed

StartRefused ==
  /\ where = "machine" /\ run.step \in {"none", "answered"}
  /\ Answers("scan --mode full", EXIT_USAGE, Absent)
  /\ Undisturbed

(* Slip: a Windows status is passed on as it is.                            *)
ExitCodeOf_AsIs(code) == code

(* exit_code_of: the harness's own code where it fits a byte.               *)
ExitCodeOf(code) == IF code \in 0..255 THEN code ELSE EXIT_SCAN_ERROR

(* No harness beside the executable, one that cannot be run, or its answer. *)
RunObserve ==
  /\ where = "machine" /\ run.step \in {"none", "answered"}
  /\ \/ Answers("observe", EXIT_SCAN_ERROR, Absent)
     \/ \E code \in HarnessCodes : Answers("observe", ExitCodeOf(code), Absent)
  /\ Undisturbed

(* Slip: a scan without a catalog has found nothing.                        *)
NoCatalogCode_Nothing(command) == EXIT_NOTHING

(* "A scan with no catalog looked for nothing: an error."                   *)
NoCatalogCode(command) == IF command = "scan" THEN EXIT_SCAN_ERROR ELSE EXIT_NOTHING

(* A file that cannot be read counts as absent.                             *)
ReadCatalog ==
  /\ run.step = "catalog"
  /\ IF body = Absent
       THEN Answers(run.command, NoCatalogCode(run.command), Absent)
       ELSE run' = [run EXCEPT !.step = "signature", !.bytes = body]
  /\ Undisturbed

ReadSignature ==
  /\ run.step = "signature"
  /\ IF sig = Absent
       THEN Answers(run.command, EXIT_CATALOG_FAILED, Absent)
       ELSE run' = [run EXCEPT !.step = "judge", !.signature = sig]
  /\ Undisturbed

(* Slip: the file is read again to be parsed.                               *)
LoadedBytes_ReadAgain == body

LoadedBytes == run.bytes

Judge ==
  /\ run.step = "judge"
  /\ IF Verifies(run.bytes, run.signature, pubkey) /\ PassesChecks(LoadedBytes)
       THEN run' = Run("loaded", run.command, LoadedBytes, Absent, EXIT_OK)
       ELSE Answers(run.command, EXIT_CATALOG_FAILED, Absent)
  /\ Undisturbed

(* verify says what was loaded, list that there is nothing to list, show    *)
(* that it knows the id or not.                                             *)
RunCatalog ==
  /\ run.step = "loaded" /\ run.command = "catalog"
  /\ \E code \in {EXIT_OK, EXIT_NOTHING} : Answers("catalog", code, run.bytes)
  /\ Undisturbed

IsEmpty(catalog) == catalog.anticheat = <<>>

(* run_scan: the audit's verdict, or a report that could not be written.    *)
(* What no entry names is not found.                                        *)
RunScan ==
  /\ run.step = "loaded" /\ run.command = "scan"
  /\ \E code \in {EXIT_OK, EXIT_NOTHING, EXIT_PARTIAL, EXIT_SCAN_ERROR} :
       /\ code = EXIT_OK => ~IsEmpty(CatalogOf[run.bytes])
       /\ Answers("scan", code, run.bytes)
  /\ Undisturbed

------------------------------------------------------------------------------
Init ==
  /\ where = "repository"
  /\ body \in Bodies
  /\ sig = Absent /\ pubkey = Absent
  /\ secrets = [path \in SecretPaths |-> Absent]
  /\ tool = [who \in People |-> Idle]
  /\ signed = {} /\ passed = {} /\ edits = 0
  /\ run = NotRunning

Next ==
  \/ \E text \in Bodies : Edit(text) \/ PutCatalog(text)
  \/ \E who \in People, path \in SecretPaths, key \in Keys : KeygenOpen(who, path, key)
  \/ \E who \in People : KeygenWriteSecret(who) \/ KeygenWritePublic(who) \/ SignRead(who)
  \/ \E who \in People, path \in SecretPaths : SignWrite(who, path)
  \/ \E path \in SecretPaths : SignUnchecked(path)
  \/ PassCi \/ Release
  \/ PutCatalog(Absent)
  \/ \E file \in signed \cup {Absent, Torn} : PutSignature(file)
  \/ \E command \in Readers : Start(command)
  \/ StartRefused \/ RunObserve \/ ReadCatalog \/ ReadSignature \/ Judge
  \/ RunCatalog \/ RunScan

Spec == Init /\ [][Next]_vars

------------------------------------------------------------------------------
ToolState ==
  {Idle} \cup {Tool("sign", Absent, text) : text \in Bodies}
  \cup [step : {"secret", "public"}, path : SecretPaths, holds : Keys]

RunState ==
  [step : {"none", "catalog", "signature", "judge", "loaded", "answered"},
   command : {"", "scan --mode full", "observe"} \cup Readers,
   bytes : Bodies \cup {Absent}, signature : Signature \cup {Absent, Torn}, code : 0..255]

TypeOK ==
  /\ where \in {"repository", "machine"}
  /\ body \in Bodies \cup {Absent} /\ (where = "repository" => body # Absent)
  /\ sig \in Signature \cup {Absent, Torn}
  /\ pubkey \in Keys \cup {Absent, Torn}
  /\ secrets \in [SecretPaths -> Keys \cup {Absent, Torn}]
  /\ tool \in [People -> ToolState]
  /\ signed \subseteq Signature
  /\ passed \subseteq [body : Bodies, sig : Signature, pubkey : Keys]
  /\ run \in RunState

(* What wardsweep is using or has used.                                     *)
Used == IF run.step \in {"loaded", "answered"} THEN {run.bytes} \ {Absent} ELSE {}

Locations(entry) == {CanonicalPath(path).components : path \in ExpandForValidation(entry.path)}

InWindows(components) == components # <<>> /\ components[1] = "WINDOWS"
InSystem(key) == key[1] = "HKLM" /\ Tail(key) # <<>> /\ Tail(key)[1] = "SYSTEM"

(* Inside Windows and SYSTEM only the drivers and services the entry itself *)
(* declares, and none that ship with Windows.                               *)
StaysInFootprint(ac) ==
  /\ \A entry \in ac.paths : \A components \in Locations(entry) :
       InWindows(components) =>
         \E driver \in ac.drivers :
           /\ IsDriverFile(components, [drivers |-> {BaseFileName(driver)}])
           /\ ~IsInboxDriver(driver)
  /\ \A entry \in ac.registry :
       InSystem(entry.key) =>
         \E service \in ac.services \ InboxServices :
           /\ IsServicesKey(Tail(entry.key))
           /\ IsNamedService(Tail(entry.key), [services |-> {service}])

NamesNoFootprint(game) ==
  /\ \A entry \in game.install_hints \cup game.residue \cup game.saves :
       \A components \in Locations(entry) : ~InWindows(components)
  /\ \A entry \in game.registry : ~InSystem(entry.key)

(* exceptions_for, "per entry, never per catalog": of a catalog wardsweep   *)
(* uses, no anti-cheat names another one's driver or service key, and no    *)
(* game names any, however the catalog was signed.                          *)
CarveOutsStayInTheEntry ==
  \A bytes \in Used :
    /\ \A ac \in Range(CatalogOf[bytes].anticheat) : StaysInFootprint(ac)
    /\ \A game \in Range(CatalogOf[bytes].game) : NamesNoFootprint(game)

SaysSomething(command, code) ==
  \/ command = "scan" /\ code \in {EXIT_OK, EXIT_NOTHING, EXIT_PARTIAL}
  \/ command = "catalog" /\ code = EXIT_OK

(* load_verified: "no flag to skip it and no used-with-a-warning path".     *)
(* Whatever wardsweep says of a catalog or a machine, other than that it    *)
(* failed, it says from bytes that were signed as they are with the key it  *)
(* was built with and that pass every check, while the two files are        *)
(* replaced under it.                                                       *)
OnlyAnIntactCatalogAnswers ==
  /\ \A bytes \in Used :
       /\ PassesChecks(bytes)
       /\ \E signature \in signed : signature.over = bytes /\ signature.by = pubkey
  /\ run.step = "answered" /\ SaysSomething(run.command, run.code) => Used # {}

(* The tool, CI and the runtime apply the same checks: what the tool signed *)
(* passes them, whoever edited the file meanwhile, and what CI let pass is  *)
(* loaded by the build of the same commit.                                  *)
GatesAgree ==
  /\ \A signature \in signed : signature.checked => PassesChecks(signature.over)
  /\ \A commit \in passed : Loads(commit.body, commit.sig, commit.pubkey)

(* keygen, "created, never overwritten": whichever of its writes fail and   *)
(* whoever runs it meanwhile, a key the repository names or that has signed *)
(* something is still held somewhere.                                       *)
SigningKeyIsNeverLost ==
  where = "repository" =>
    \A key \in {pubkey} \cup {signature.by : signature \in signed} :
      key \in Keys => \E path \in SecretPaths : secrets[path] = key
==================================================================================
