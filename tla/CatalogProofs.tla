------------------------------ MODULE CatalogProofs ------------------------------
(***************************************************************************)
(* What holds of every catalog that passes the checks, and of every life   *)
(* of a catalog, whatever the bytes, the keys and the people.              *)
(***************************************************************************)
EXTENDS CatalogRelease, TLAPS

(* What passes on the way into Windows is a driver file the carve-outs      *)
(* name (denylist.rs, windows_directory_exception).                         *)
LEMMA AllowedInWindows ==
  ASSUME NEW path, NEW exceptions,
         EvaluatePath(path, exceptions, CatalogLoad) = "Ok",
         InWindows(path.components)
  PROVE  IsDriverFile(path.components, exceptions)
<1>1. EvaluateLocation(path.components, exceptions) = "Ok"
  BY DEF EvaluatePath
<1>2. path.components # <<>> /\ path.components[1] \in ProtectedTopLevel
  BY DEF InWindows, ProtectedTopLevel
<1>3. WindowsDirectoryException(path.components, exceptions) = "Ok"
  BY <1>1, <1>2 DEF EvaluateLocation
<1> QED
  BY <1>3 DEF WindowsDirectoryException

(* What passes under SYSTEM is the key of a service the carve-outs name     *)
(* (denylist.rs, service_key_leaf).                                         *)
LEMMA AllowedInSystem ==
  ASSUME NEW key, NEW exceptions,
         EvaluateRegistryKey(key[1], Tail(key), exceptions) = "Ok",
         InSystem(key)
  PROVE  IsServicesKey(Tail(key)) /\ IsNamedService(Tail(key), exceptions)
<1> DEFINE components == Tail(key)
<1>1. EvaluateMachineKey(components, exceptions) = "Ok"
  BY DEF EvaluateRegistryKey, InSystem
<1>2. components # <<>> /\ components[1] = "SYSTEM"
  BY DEF InSystem
<1> HIDE DEF components
<1>3. IsServicesKey(components) /\ IsNamedService(components, exceptions)
  BY <1>1, <1>2 DEF EvaluateMachineKey
<1> QED
  BY <1>3 DEF components

(* check_denylist keeps an anti-cheat entry to its own drivers and services. *)
LEMMA AntiCheatStays ==
  ASSUME NEW catalog, ChecksDenylist(catalog), NEW ac \in Range(catalog.anticheat)
  PROVE  StaysInFootprint(ac)
<1> DEFINE exceptions == ExceptionsFor(catalog, ac)
<1>1. /\ ~\E driver \in ac.drivers : IsInboxDriver(driver)
      /\ ac.services \cap InboxServices = {}
      /\ AllowsPaths(ac.paths, exceptions)
      /\ AllowsKeys(ac.registry, exceptions)
  BY DEF ChecksDenylist
<1>2. ASSUME NEW entry \in ac.paths, NEW components \in Locations(entry), InWindows(components)
      PROVE  \E driver \in ac.drivers :
               /\ IsDriverFile(components, [drivers |-> {BaseFileName(driver)}])
               /\ ~IsInboxDriver(driver)
  <2>1. PICK path \in ExpandForValidation(entry.path) :
               components = CanonicalPath(path).components
    BY <1>2 DEF Locations
  <2>2. EvaluatePath(CanonicalPath(path), exceptions, CatalogLoad) = "Ok"
    BY <1>1, <1>2, <2>1 DEF AllowsPaths
  <2>3. IsDriverFile(components, exceptions)
    BY <1>2, <2>1, <2>2, AllowedInWindows
  <2>4. components[4] \in {BaseFileName(driver) : driver \in ac.drivers}
    BY <2>3 DEF IsDriverFile, ExceptionsFor, NewExceptions
  <2>5. PICK driver \in ac.drivers : components[4] = BaseFileName(driver)
    BY <2>4
  <2>6. IsDriverFile(components, [drivers |-> {BaseFileName(driver)}])
    BY <2>3, <2>5 DEF IsDriverFile
  <2> QED
    BY <1>1, <2>6
<1>3. ASSUME NEW entry \in ac.registry, InSystem(entry.key)
      PROVE  \E service \in ac.services \ InboxServices :
               /\ IsServicesKey(Tail(entry.key))
               /\ IsNamedService(Tail(entry.key), [services |-> {service}])
  <2>1. EvaluateRegistryKey(entry.key[1], Tail(entry.key), exceptions) = "Ok"
    BY <1>1, <1>3 DEF AllowsKeys
  <2>2. IsServicesKey(Tail(entry.key)) /\ IsNamedService(Tail(entry.key), exceptions)
    BY <1>3, <2>1, AllowedInSystem
  <2>3. Tail(entry.key)[4] \in ac.services \ InboxServices
    BY <2>2 DEF IsNamedService, ExceptionsFor, NewExceptions
  <2>4. IsNamedService(Tail(entry.key), [services |-> {Tail(entry.key)[4]}])
    BY <2>2 DEF IsNamedService
  <2> QED
    BY <2>2, <2>3, <2>4
<1> QED
  BY <1>2, <1>3 DEF StaysInFootprint

(* ... and a game out of both.                                              *)
LEMMA GameStays ==
  ASSUME NEW catalog, ChecksDenylist(catalog), NEW game \in Range(catalog.game)
  PROVE  NamesNoFootprint(game)
<1> DEFINE entries == game.install_hints \cup game.residue \cup game.saves
<1>1. AllowsPaths(entries, NoExceptions) /\ AllowsKeys(game.registry, NoExceptions)
  BY DEF ChecksDenylist
<1>2. ASSUME NEW entry \in entries, NEW components \in Locations(entry), InWindows(components)
      PROVE  FALSE
  <2>1. PICK path \in ExpandForValidation(entry.path) :
               components = CanonicalPath(path).components
    BY <1>2 DEF Locations
  <2>2. EvaluatePath(CanonicalPath(path), NoExceptions, CatalogLoad) = "Ok"
    BY <1>1, <1>2, <2>1 DEF AllowsPaths
  <2>3. IsDriverFile(components, NoExceptions)
    BY <1>2, <2>1, <2>2, AllowedInWindows
  <2> QED
    BY <2>3 DEF IsDriverFile, NoExceptions
<1>3. ASSUME NEW entry \in game.registry, InSystem(entry.key)
      PROVE  FALSE
  <2>1. EvaluateRegistryKey(entry.key[1], Tail(entry.key), NoExceptions) = "Ok"
    BY <1>1, <1>3 DEF AllowsKeys
  <2>2. IsNamedService(Tail(entry.key), NoExceptions)
    BY <1>3, <2>1, AllowedInSystem
  <2> QED
    BY <2>2 DEF IsNamedService, NoExceptions
<1> QED
  BY <1>2, <1>3 DEF NamesNoFootprint

------------------------------------------------------------------------------
(* Types *)

(* What each step of a tool says of it.                                     *)
LEMMA ToolSteps ==
  ASSUME NEW state \in ToolState
  PROVE  /\ state.step \in {"secret", "public"} =>
              /\ state.path \in SecretPaths /\ state.holds \in Keys
              /\ [state EXCEPT !.step = "public"] \in ToolState
         /\ state.step = "sign" => state.holds \in Bodies
BY DEF ToolState, Idle, Tool

(* What a run of wardsweep is made of.                                      *)
RunSteps == {"none", "catalog", "signature", "judge", "loaded", "answered"}
Commands == {"", "scan --mode full", "observe"} \cup Readers
FilesRead == Bodies \cup {Absent}
SignaturesRead == Signature \cup {Absent, Torn}
RunCodes == 0..255

LEMMA RunsAreMadeOf ==
  RunState = [step : RunSteps, command : Commands, bytes : FilesRead,
              signature : SignaturesRead, code : RunCodes]
BY DEF RunState, RunSteps, Commands, FilesRead, SignaturesRead, RunCodes

(* Every record Run makes of such parts is one.                             *)
LEMMA RunsAreRuns ==
  ASSUME NEW step \in RunSteps, NEW command \in Commands, NEW bytes \in FilesRead,
         NEW signature \in SignaturesRead, NEW code \in RunCodes
  PROVE  Run(step, command, bytes, signature, code) \in RunState
BY RunsAreMadeOf DEF Run

(* The words and files a step writes of itself.                             *)
LEMMA RunWords ==
  /\ "none" \in RunSteps /\ "catalog" \in RunSteps /\ "loaded" \in RunSteps
  /\ "answered" \in RunSteps /\ "signature" \in RunSteps /\ "judge" \in RunSteps
  /\ "" \in Commands /\ "scan --mode full" \in Commands /\ "observe" \in Commands
  /\ "catalog" \in Commands /\ "scan" \in Commands /\ Readers \subseteq Commands
  /\ Absent \in FilesRead /\ Absent \in SignaturesRead
BY DEF RunSteps, Commands, Readers, FilesRead, SignaturesRead

(* Exit codes fit a byte (wardsweep.rs, EXIT_OK to EXIT_USAGE).             *)
LEMMA CodesFit ==
  /\ {EXIT_OK, EXIT_NOTHING, EXIT_SCAN_ERROR, EXIT_PARTIAL, EXIT_CATALOG_FAILED, EXIT_USAGE}
       \subseteq RunCodes
  /\ \A code : ExitCodeOf(code) \in RunCodes
BY DEF EXIT_OK, EXIT_NOTHING, EXIT_SCAN_ERROR, EXIT_PARTIAL, EXIT_CATALOG_FAILED, EXIT_USAGE,
       ExitCodeOf, RunCodes

(* The first state has its types.                                           *)
LEMMA TypeInit == Init => TypeOK
<1> SUFFICES ASSUME Init PROVE TypeOK
  OBVIOUS
<1>1. run = Run("none", "", Absent, Absent, EXIT_OK)
  BY DEF Init, NotRunning
<1>2. run \in RunState
  <2>1. EXIT_OK \in RunCodes
    BY CodesFit
  <2> QED
    BY <1>1, <2>1, RunsAreRuns, RunWords, Zenon
<1>3. tool \in [People -> ToolState]
  BY DEF Init, ToolState
<1>4. Absent \notin Bodies
  BY CatalogReleaseAssumption DEF CatalogReleaseAssumption
<1> QED
  BY <1>2, <1>3, <1>4 DEF Init, TypeOK

(* Every answer is one.                                                     *)
LEMMA AnswersAreRuns ==
  ASSUME NEW command \in Commands, NEW code \in RunCodes, NEW used \in FilesRead,
         Answers(command, code, used)
  PROVE  run' \in RunState
BY RunsAreRuns, RunWords, Zenon DEF Answers

(* What a run has read are files, and what it reads next is kept as one.    *)
LEMMA RunParts ==
  ASSUME run \in RunState
  PROVE  /\ run.command \in Commands /\ run.bytes \in FilesRead
         /\ run.signature \in SignaturesRead /\ run.code \in RunCodes
         /\ \A bytes \in FilesRead :
              [run EXCEPT !.step = "signature", !.bytes = bytes] \in RunState
         /\ \A signature \in SignaturesRead :
              [run EXCEPT !.step = "judge", !.signature = signature] \in RunState
BY RunsAreMadeOf, RunWords

(* A tool's step keeps everybody's tool one.                                *)
LEMMA ToolsAreTools ==
  ASSUME TypeOK, NEW who \in People, NEW state \in ToolState,
         tool' = [tool EXCEPT ![who] = state]
  PROVE  tool' \in [People -> ToolState]
BY DEF TypeOK

(* Nobody's tool is idle after an idle one.                                 *)
LEMMA IdleIsATool == Idle \in ToolState
BY DEF ToolState

(* The steps in the repository keep the types (catalog/src/main.rs).        *)
LEMMA RepositoryTypes ==
  ASSUME TypeOK, NEW who \in People,
         \/ \E path \in SecretPaths, key \in Keys : KeygenOpen(who, path, key)
         \/ KeygenWriteSecret(who)
         \/ KeygenWritePublic(who)
         \/ SignRead(who)
         \/ \E path \in SecretPaths : SignWrite(who, path)
  PROVE  TypeOK'
<1>1. tool[who] \in ToolState
  BY DEF TypeOK
<1>2. ASSUME NEW path \in SecretPaths, NEW key \in Keys, KeygenOpen(who, path, key)
      PROVE  TypeOK'
  <2>1. Tool("secret", path, key) \in ToolState
    BY DEF Tool, ToolState
  <2>2. tool' \in [People -> ToolState]
    BY <1>2, <2>1, ToolsAreTools DEF KeygenOpen
  <2> QED
    BY <1>2, <2>2 DEF KeygenOpen, TypeOK
<1>3. CASE KeygenWriteSecret(who)
  <2>1. tool[who].path \in SecretPaths /\ tool[who].holds \in Keys
    BY <1>1, <1>3, ToolSteps DEF KeygenWriteSecret
  <2>2. [tool[who] EXCEPT !.step = "public"] \in ToolState
    BY <1>1, <1>3, ToolSteps DEF KeygenWriteSecret
  <2>3. \/ tool' = [tool EXCEPT ![who] = [tool[who] EXCEPT !.step = "public"]]
        \/ tool' = [tool EXCEPT ![who] = Idle]
    BY <1>3 DEF KeygenWriteSecret, TypeOK
  <2>4. tool' \in [People -> ToolState]
    BY <2>2, <2>3, IdleIsATool, ToolsAreTools
  <2>5. secrets' \in [SecretPaths -> Keys \cup {Absent, Torn}]
    BY <1>3, <2>1 DEF KeygenWriteSecret, TypeOK
  <2> QED
    BY <1>3, <2>4, <2>5 DEF KeygenWriteSecret, TypeOK
<1>4. CASE KeygenWritePublic(who)
  <2>1. tool[who].holds \in Keys
    BY <1>1, <1>4, ToolSteps DEF KeygenWritePublic
  <2>2. tool' \in [People -> ToolState]
    BY <1>4, IdleIsATool, ToolsAreTools DEF KeygenWritePublic
  <2>3. pubkey' \in Keys \cup {Absent, Torn}
    BY <1>4, <2>1 DEF KeygenWritePublic, TypeOK
  <2> QED
    BY <1>4, <2>2, <2>3 DEF KeygenWritePublic, TypeOK
<1>5. CASE SignRead(who)
  <2>1. body \in Bodies
    BY <1>5 DEF SignRead, InRepository, TypeOK
  <2>2. Tool("sign", Absent, body) \in ToolState
    BY <2>1 DEF ToolState
  <2>3. tool' \in [People -> ToolState]
    BY <1>5, <2>2, ToolsAreTools DEF SignRead
  <2> QED
    BY <1>5, <2>3 DEF SignRead, TypeOK
<1>6. ASSUME NEW path \in SecretPaths, SignWrite(who, path)
      PROVE  TypeOK'
  <2>1. tool[who].holds \in Bodies
    BY <1>1, <1>6, ToolSteps DEF SignWrite
  <2>2. tool' \in [People -> ToolState]
    BY <1>6, IdleIsATool, ToolsAreTools DEF SignWrite
  <2>3. secrets[path] \in Keys =>
          [by |-> secrets[path], over |-> SignedBytes(who), checked |-> TRUE] \in Signature
    BY <2>1 DEF SignedBytes, Signature
  <2>4. \/ \E signature \in Signature :
                sig' = signature /\ signed' = signed \cup {signature}
        \/ sig' \in {Torn, sig} /\ signed' = signed
    BY <1>6, <2>3 DEF SignWrite
  <2>5. sig' \in Signature \cup {Absent, Torn} /\ signed' \subseteq Signature
    BY <2>4 DEF TypeOK
  <2> QED
    BY <1>6, <2>2, <2>5 DEF SignWrite, TypeOK
<1> QED
  BY <1>2, <1>3, <1>4, <1>5, <1>6

(* What nobody's tool does keeps them too.                                  *)
LEMMA CommitTypes ==
  ASSUME TypeOK,
         \/ \E text \in Bodies : Edit(text)
         \/ \E path \in SecretPaths : SignUnchecked(path)
         \/ PassCi
         \/ Release
  PROVE  TypeOK'
<1>1. CASE \E text \in Bodies : Edit(text)
  <2>1. Absent \notin Bodies
    BY CatalogReleaseAssumption DEF CatalogReleaseAssumption
  <2> QED
    BY <1>1, <2>1 DEF Edit, TypeOK
<1>2. CASE \E path \in SecretPaths : SignUnchecked(path)
  <2>1. PICK path \in SecretPaths : SignUnchecked(path)
    BY <1>2
  <2>2. body \in Bodies
    BY <2>1 DEF SignUnchecked, TypeOK
  <2>3. sig' \in Signature
    BY <2>1, <2>2 DEF SignUnchecked, Signature
  <2> QED
    BY <2>1, <2>3 DEF SignUnchecked, TypeOK
<1>3. CASE PassCi
  <2>1. body \in Bodies /\ sig \in Signature /\ pubkey \in Keys
    BY <1>3 DEF PassCi, CiPasses, Commit, Verifies, TypeOK
  <2>2. Commit \in [body : Bodies, sig : Signature, pubkey : Keys]
    BY <2>1 DEF Commit
  <2> QED
    BY <1>3, <2>2 DEF PassCi, TypeOK
<1>4. CASE Release
  <2>1. secrets' \in [SecretPaths -> Keys \cup {Absent, Torn}]
    BY <1>4 DEF Release
  <2> QED
    BY <1>4, <2>1 DEF Release, TypeOK
<1> QED
  BY <1>1, <1>2, <1>3, <1>4

(* Everything that happens to a machine's files or in a run of wardsweep.   *)
MachineStep ==
  \/ \E text \in Bodies : PutCatalog(text)
  \/ PutCatalog(Absent)
  \/ \E file \in signed \cup {Absent, Torn} : PutSignature(file)
  \/ \E command \in Readers : Start(command)
  \/ StartRefused \/ RunObserve \/ ReadCatalog \/ ReadSignature \/ Judge
  \/ RunCatalog \/ RunScan

(* A run of wardsweep keeps the types (wardsweep.rs).                       *)
LEMMA MachineTypes ==
  ASSUME TypeOK, MachineStep
  PROVE  TypeOK'
<1>1. /\ run.command \in Commands /\ run.bytes \in FilesRead
      /\ run.signature \in SignaturesRead /\ run.code \in RunCodes
      /\ \A bytes \in FilesRead :
           [run EXCEPT !.step = "signature", !.bytes = bytes] \in RunState
      /\ \A signature \in SignaturesRead :
           [run EXCEPT !.step = "judge", !.signature = signature] \in RunState
  BY RunParts DEF TypeOK
<1>2. body \in FilesRead /\ sig \in SignaturesRead
  BY DEF TypeOK, FilesRead, SignaturesRead
<1>3. ASSUME Undisturbed, run' \in RunState
      PROVE  TypeOK'
  BY <1>3 DEF Undisturbed, TypeOK
<1>4. CASE \/ \E text \in Bodies : PutCatalog(text)
           \/ PutCatalog(Absent)
           \/ \E file \in signed \cup {Absent, Torn} : PutSignature(file)
  BY <1>4 DEF PutCatalog, PutSignature, TypeOK
<1>5. CASE \E command \in Readers : Start(command)
  <2>1. PICK command \in Readers : Start(command)
    BY <1>5
  <2>2. command \in Commands /\ EXIT_OK \in RunCodes
    BY RunWords, CodesFit
  <2>3. Run("catalog", command, Absent, Absent, EXIT_OK) \in RunState
    BY <2>2, RunsAreRuns, RunWords, Zenon
  <2> QED
    BY <1>3, <2>1, <2>3 DEF Start
<1>6. CASE StartRefused
  <2>1. EXIT_USAGE \in RunCodes
    BY CodesFit
  <2>2. run' \in RunState
    BY <1>6, <2>1, AnswersAreRuns, RunWords, Zenon DEF StartRefused
  <2> QED
    BY <1>3, <1>6, <2>2 DEF StartRefused
<1>7. CASE RunObserve
  <2>1. \E code \in RunCodes : Answers("observe", code, Absent)
    BY <1>7, CodesFit DEF RunObserve
  <2>2. run' \in RunState
    BY <2>1, AnswersAreRuns, RunWords, Zenon
  <2> QED
    BY <1>3, <1>7, <2>2 DEF RunObserve
<1>8. CASE ReadCatalog
  <2>1. NoCatalogCode(run.command) \in RunCodes
    BY CodesFit DEF NoCatalogCode
  <2>2. Answers(run.command, NoCatalogCode(run.command), Absent) => run' \in RunState
    BY <1>1, <2>1, AnswersAreRuns, RunWords, Zenon
  <2>3. run' \in RunState /\ Undisturbed
    BY <1>1, <1>2, <1>8, <2>2 DEF ReadCatalog
  <2> QED
    BY <1>3, <2>3
<1>9. CASE ReadSignature
  <2>1. EXIT_CATALOG_FAILED \in RunCodes
    BY CodesFit
  <2>2. Answers(run.command, EXIT_CATALOG_FAILED, Absent) => run' \in RunState
    BY <1>1, <2>1, AnswersAreRuns, RunWords, Zenon
  <2>3. run' \in RunState /\ Undisturbed
    BY <1>1, <1>2, <1>9, <2>2 DEF ReadSignature
  <2> QED
    BY <1>3, <2>3
<1>10. CASE Judge
  <2>1. LoadedBytes \in FilesRead /\ EXIT_OK \in RunCodes /\ EXIT_CATALOG_FAILED \in RunCodes
    BY <1>1, CodesFit DEF LoadedBytes
  <2>2. Run("loaded", run.command, LoadedBytes, Absent, EXIT_OK) \in RunState
    BY <1>1, <2>1, RunsAreRuns, RunWords, Zenon
  <2>3. Answers(run.command, EXIT_CATALOG_FAILED, Absent) => run' \in RunState
    BY <1>1, <2>1, AnswersAreRuns, RunWords, Zenon
  <2>4. run' \in RunState /\ Undisturbed
    BY <1>10, <2>2, <2>3 DEF Judge
  <2> QED
    BY <1>3, <2>4
<1>11. CASE RunCatalog
  <2>1. \E code \in RunCodes : Answers("catalog", code, run.bytes)
    BY <1>11, CodesFit DEF RunCatalog
  <2>2. run' \in RunState
    BY <1>1, <2>1, AnswersAreRuns, RunWords, Zenon
  <2> QED
    BY <1>3, <1>11, <2>2 DEF RunCatalog
<1>12. CASE RunScan
  <2>1. \E code \in RunCodes : Answers("scan", code, run.bytes)
    BY <1>12, CodesFit DEF RunScan
  <2>2. run' \in RunState
    BY <1>1, <2>1, AnswersAreRuns, RunWords, Zenon
  <2> QED
    BY <1>3, <1>12, <2>2 DEF RunScan
<1> QED
  BY <1>4, <1>5, <1>6, <1>7, <1>8, <1>9, <1>10, <1>11, <1>12 DEF MachineStep

(* What the repository's steps are.                                         *)
RepositoryStep ==
  \/ \E text \in Bodies : Edit(text)
  \/ \E who \in People, path \in SecretPaths, key \in Keys : KeygenOpen(who, path, key)
  \/ \E who \in People : KeygenWriteSecret(who) \/ KeygenWritePublic(who) \/ SignRead(who)
  \/ \E who \in People, path \in SecretPaths : SignWrite(who, path)
  \/ \E path \in SecretPaths : SignUnchecked(path)
  \/ PassCi \/ Release

(* Every step is of one kind or the other.                                  *)
LEMMA NextIsOneOrTheOther == Next => RepositoryStep \/ MachineStep
BY DEF Next, RepositoryStep, MachineStep

(* The types are kept by every step.                                        *)
LEMMA TypeStep == TypeOK /\ [Next]_vars => TypeOK'
<1> SUFFICES ASSUME TypeOK, [Next]_vars PROVE TypeOK'
  OBVIOUS
<1>1. CASE RepositoryStep
  BY <1>1, RepositoryTypes, CommitTypes DEF RepositoryStep
<1>2. CASE MachineStep
  BY <1>2, MachineTypes
<1>3. CASE UNCHANGED vars
  BY <1>3 DEF vars, TypeOK
<1> QED
  BY <1>1, <1>2, <1>3, NextIsOneOrTheOther

(* The files, the tool's commands and wardsweep's runs keep their types for *)
(* every set of bytes, keys and people.                                     *)
THEOREM TypeCorrect == Spec => []TypeOK
BY TypeInit, TypeStep, PTL DEF Spec

------------------------------------------------------------------------------
(* Keys *)

(* A keygen under way is alone with its file, which holds nothing yet or    *)
(* the key it is about to publish.                                          *)
KeygenOwnsItsFile ==
  \A who \in People :
    /\ tool[who].step = "secret" =>
         /\ secrets[tool[who].path] = Torn
         /\ \A other \in People \ {who} :
              tool[other].step = "secret" => tool[other].path # tool[who].path
    /\ tool[who].step = "public" => secrets[tool[who].path] = tool[who].holds

OnAMachineNobodyRunsTheTool == where = "machine" => \A who \in People : tool[who].step = "idle"

KeyInv ==
  TypeOK /\ KeygenOwnsItsFile /\ OnAMachineNobodyRunsTheTool /\ SigningKeyIsNeverLost

(* No key is held before there is one.                                      *)
LEMMA KeyInit == Init => KeyInv
<1> SUFFICES ASSUME Init PROVE KeyInv
  OBVIOUS
<1>1. \A who \in People : tool[who].step = "idle"
  BY DEF Init, Idle, Tool
<1>2. KeygenOwnsItsFile /\ OnAMachineNobodyRunsTheTool
  BY <1>1 DEF KeygenOwnsItsFile, OnAMachineNobodyRunsTheTool
<1>3. SigningKeyIsNeverLost
  <2>1. Absent \notin Keys
    BY CatalogReleaseAssumption DEF CatalogReleaseAssumption
  <2> QED
    BY <2>1 DEF Init, SigningKeyIsNeverLost
<1> QED
  BY <1>2, <1>3, TypeInit DEF KeyInv

(* A file that holds no key may change; the others keep what they hold.     *)
LEMMA OtherFilesKeepKeys ==
  ASSUME TypeOK, SigningKeyIsNeverLost, NEW path \in SecretPaths, NEW text,
         secrets[path] \notin Keys,
         secrets' = [secrets EXCEPT ![path] = text],
         UNCHANGED <<where, pubkey, signed>>
  PROVE  SigningKeyIsNeverLost'
<1>1. ASSUME NEW other \in SecretPaths, secrets[other] \in Keys
      PROVE  secrets'[other] = secrets[other]
  BY <1>1 DEF TypeOK
<1> QED
  BY <1>1 DEF SigningKeyIsNeverLost

(* keygen creates a file where there is none, and so takes nobody's.        *)
LEMMA KeygenOpenStep ==
  ASSUME KeyInv, NEW who \in People, NEW path \in SecretPaths, NEW key \in Keys,
         KeygenOpen(who, path, key)
  PROVE  KeygenOwnsItsFile' /\ OnAMachineNobodyRunsTheTool' /\ SigningKeyIsNeverLost'
<1>1. Absent \notin Keys /\ Torn \notin Keys /\ Absent # Torn
  BY CatalogReleaseAssumption DEF CatalogReleaseAssumption
<1>2. secrets[path] = Absent /\ where = "repository"
  BY DEF KeygenOpen, MayCreate, InRepository
<1>3. secrets' = [secrets EXCEPT ![path] = Torn] /\ UNCHANGED <<where, pubkey, signed>>
  BY DEF KeygenOpen
<1>4. /\ tool'[who].step = "secret" /\ tool'[who].path = path
      /\ \A other \in People \ {who} : tool'[other] = tool[other]
  BY DEF KeygenOpen, Tool, KeyInv, TypeOK
<1>5. /\ secrets'[path] = Torn
      /\ \A other \in SecretPaths \ {path} : secrets'[other] = secrets[other]
  BY <1>3 DEF KeyInv, TypeOK
<1>6. \A other \in People : tool[other].step \in {"secret", "public"} =>
                              tool[other].path \in SecretPaths /\ tool[other].holds \in Keys
  BY ToolSteps DEF KeyInv, TypeOK
<1>7. KeygenOwnsItsFile'
  BY <1>1, <1>2, <1>4, <1>5, <1>6 DEF KeygenOwnsItsFile, KeyInv
<1>8. SigningKeyIsNeverLost'
  BY <1>1, <1>2, <1>3, OtherFilesKeepKeys DEF KeyInv
<1>9. OnAMachineNobodyRunsTheTool'
  BY <1>2, <1>3 DEF OnAMachineNobodyRunsTheTool
<1> QED
  BY <1>7, <1>8, <1>9

(* The secret is written whole or not at all, into a file of one's own.     *)
LEMMA KeygenWriteSecretStep ==
  ASSUME KeyInv, NEW who \in People, KeygenWriteSecret(who)
  PROVE  KeygenOwnsItsFile' /\ OnAMachineNobodyRunsTheTool' /\ SigningKeyIsNeverLost'
<1> DEFINE path == tool[who].path
           key == tool[who].holds
<1>1. Torn \notin Keys
  BY CatalogReleaseAssumption DEF CatalogReleaseAssumption
<1>2. \A other \in People : tool[other].step \in {"secret", "public"} =>
                              tool[other].path \in SecretPaths /\ tool[other].holds \in Keys
  BY ToolSteps DEF KeyInv, TypeOK
<1>3. tool[who].step = "secret" /\ path \in SecretPaths /\ key \in Keys /\ secrets[path] = Torn
  BY <1>2 DEF KeygenWriteSecret, KeyInv, KeygenOwnsItsFile
<1>4. /\ \A other \in People \ {who} : tool'[other] = tool[other]
      /\ UNCHANGED <<where, pubkey, signed>>
  BY DEF KeygenWriteSecret, KeyInv, TypeOK
<1>5. where = "repository"
  BY <1>3 DEF KeyInv, OnAMachineNobodyRunsTheTool, TypeOK
<1>6. CASE /\ secrets' = [secrets EXCEPT ![path] = key]
           /\ tool' = [tool EXCEPT ![who].step = "public"]
  <2>1. tool'[who].step = "public" /\ tool'[who].path = path /\ tool'[who].holds = key
    <3>1. tool'[who] = [tool[who] EXCEPT !.step = "public"]
      BY <1>6 DEF KeyInv, TypeOK
    <3>2. tool[who] \in [step : {"secret", "public"}, path : SecretPaths, holds : Keys]
      BY <1>3 DEF KeyInv, TypeOK, ToolState, Idle, Tool
    <3> QED
      BY <3>1, <3>2
  <2>2. /\ secrets'[path] = key
        /\ \A other \in SecretPaths \ {path} : secrets'[other] = secrets[other]
    BY <1>3, <1>6 DEF KeyInv, TypeOK
  <2>3. KeygenOwnsItsFile'
    BY <1>1, <1>2, <1>3, <1>4, <2>1, <2>2 DEF KeygenOwnsItsFile, KeyInv
  <2>4. SigningKeyIsNeverLost'
    BY <1>1, <1>3, <1>4, <1>6, OtherFilesKeepKeys DEF KeyInv
  <2> QED
    BY <1>4, <1>5, <2>3, <2>4 DEF OnAMachineNobodyRunsTheTool
<1>7. CASE tool' = [tool EXCEPT ![who] = Idle] /\ UNCHANGED secrets
  <2>1. tool'[who].step = "idle"
    BY <1>7 DEF Idle, Tool, KeyInv, TypeOK
  <2>2. KeygenOwnsItsFile'
    BY <1>4, <1>7, <2>1 DEF KeygenOwnsItsFile, KeyInv
  <2> QED
    BY <1>4, <1>5, <1>7, <2>2 DEF OnAMachineNobodyRunsTheTool, SigningKeyIsNeverLost, KeyInv
<1> QED
  BY <1>6, <1>7 DEF KeygenWriteSecret

(* What is published or signs is held at that moment.                       *)
LEMMA PublishingStep ==
  ASSUME KeyInv, NEW who \in People,
         KeygenWritePublic(who) \/ \E path \in SecretPaths : SignWrite(who, path)
  PROVE  KeygenOwnsItsFile' /\ OnAMachineNobodyRunsTheTool' /\ SigningKeyIsNeverLost'
<1> tool' = [tool EXCEPT ![who] = Idle] /\ UNCHANGED <<where, secrets>>
  BY DEF KeygenWritePublic, SignWrite
<1>1. /\ tool'[who].step = "idle"
      /\ \A other \in People \ {who} : tool'[other] = tool[other]
      /\ UNCHANGED <<where, secrets>>
  BY DEF Idle, Tool, KeyInv, TypeOK
<1>2. KeygenOwnsItsFile'
  BY <1>1 DEF KeygenOwnsItsFile, KeyInv
<1>3. OnAMachineNobodyRunsTheTool'
  BY <1>1 DEF OnAMachineNobodyRunsTheTool, KeyInv
<1>4. CASE KeygenWritePublic(who)
  <2>1. Torn \notin Keys
    BY CatalogReleaseAssumption DEF CatalogReleaseAssumption
  <2>2. tool[who].path \in SecretPaths /\ secrets[tool[who].path] = tool[who].holds
    BY <1>4, ToolSteps DEF KeygenWritePublic, KeyInv, KeygenOwnsItsFile, TypeOK
  <2>3. pubkey' \in {tool[who].holds, Torn, pubkey} /\ signed' = signed
    BY <1>4 DEF KeygenWritePublic
  <2>4. SigningKeyIsNeverLost'
    BY <1>1, <2>1, <2>2, <2>3 DEF SigningKeyIsNeverLost, KeyInv
  <2> QED
    BY <1>2, <1>3, <2>4
<1>5. ASSUME NEW path \in SecretPaths, SignWrite(who, path)
      PROVE  SigningKeyIsNeverLost'
  <2>1. CASE signed' = signed
    BY <1>1, <1>5, <2>1 DEF SignWrite, SigningKeyIsNeverLost, KeyInv
  <2>2. CASE signed' # signed
    <3>1. PICK signature : signature.by = secrets[path] /\ signed' = signed \cup {signature}
      BY <1>5, <2>2 DEF SignWrite
    <3> QED
      BY <1>1, <1>5, <3>1 DEF SignWrite, SigningKeyIsNeverLost, KeyInv
  <2> QED
    BY <2>1, <2>2
<1> QED
  BY <1>2, <1>3, <1>4, <1>5

(* Everything else leaves the keys where they are.                          *)
LEMMA KeyStep == KeyInv /\ [Next]_vars => KeyInv'
<1> SUFFICES ASSUME KeyInv, [Next]_vars
             PROVE  KeygenOwnsItsFile' /\ OnAMachineNobodyRunsTheTool' /\ SigningKeyIsNeverLost'
  BY TypeStep DEF KeyInv
<1>1. ASSUME UNCHANGED <<where, pubkey, secrets, tool, signed>>
      PROVE  KeygenOwnsItsFile' /\ OnAMachineNobodyRunsTheTool' /\ SigningKeyIsNeverLost'
  BY <1>1 DEF KeyInv, KeygenOwnsItsFile, OnAMachineNobodyRunsTheTool, SigningKeyIsNeverLost
<1>2. ASSUME NEW who \in People, SignRead(who)
      PROVE  KeygenOwnsItsFile' /\ OnAMachineNobodyRunsTheTool' /\ SigningKeyIsNeverLost'
  <2>1. /\ where = "repository" /\ UNCHANGED <<where, pubkey, secrets, signed>>
        /\ tool' = [tool EXCEPT ![who] = Tool("sign", Absent, body)]
    BY <1>2 DEF SignRead, InRepository
  <2>2. /\ tool'[who].step = "sign"
        /\ \A other \in People \ {who} : tool'[other] = tool[other]
    BY <2>1 DEF Tool, KeyInv, TypeOK
  <2> QED
    BY <2>1, <2>2 DEF KeyInv, KeygenOwnsItsFile, OnAMachineNobodyRunsTheTool, SigningKeyIsNeverLost
<1>3. ASSUME NEW path \in SecretPaths, SignUnchecked(path)
      PROVE  KeygenOwnsItsFile' /\ OnAMachineNobodyRunsTheTool' /\ SigningKeyIsNeverLost'
  <2>1. /\ UNCHANGED <<where, pubkey, secrets, tool>>
        /\ \E signature : signature.by = secrets[path] /\ signed' = signed \cup {signature}
    BY <1>3 DEF SignUnchecked
  <2> QED
    BY <2>1 DEF KeyInv, KeygenOwnsItsFile, OnAMachineNobodyRunsTheTool, SigningKeyIsNeverLost
<1>4. CASE Release
  <2>1. where' = "machine" /\ \A who \in People : tool'[who].step = "idle"
    BY <1>4 DEF Release, Idle, Tool
  <2> QED
    BY <2>1 DEF KeygenOwnsItsFile, OnAMachineNobodyRunsTheTool, SigningKeyIsNeverLost
<1>5. CASE RepositoryStep
  <2>1. (\E text \in Bodies : Edit(text)) \/ PassCi =>
          UNCHANGED <<where, pubkey, secrets, tool, signed>>
    BY DEF Edit, PassCi
  <2> QED
    BY <1>1, <1>2, <1>3, <1>4, <1>5, <2>1, KeygenOpenStep, KeygenWriteSecretStep, PublishingStep
    DEF RepositoryStep
<1>6. CASE MachineStep
  <2>1. UNCHANGED <<where, pubkey, secrets, tool, signed>>
    BY <1>6 DEF MachineStep, PutCatalog, PutSignature, Start, StartRefused, RunObserve, ReadCatalog,
                ReadSignature, Judge, RunCatalog, RunScan, Undisturbed
  <2> QED
    BY <1>1, <2>1
<1>7. CASE UNCHANGED vars
  BY <1>1, <1>7 DEF vars
<1> QED
  BY <1>5, <1>6, <1>7, NextIsOneOrTheOther

(* Of however many people and paths: whichever writes fail, no key that is  *)
(* published or has signed anything is lost to a keygen (main.rs, keygen).  *)
THEOREM KeysAreKept == Spec => []SigningKeyIsNeverLost
<1>1. KeyInv => SigningKeyIsNeverLost
  BY DEF KeyInv
<1> QED
  BY <1>1, KeyInit, KeyStep, PTL DEF Spec

------------------------------------------------------------------------------
(* Gates *)

(* What a person is about to sign passed the checks.                        *)
AboutToSignIsChecked == \A who \in People : tool[who].step = "sign" => PassesChecks(tool[who].holds)

(* Signature files hold signatures somebody made.                           *)
Genuine == {Absent, Torn} \cup signed
FilesAreGenuine == sig \in Genuine /\ run.signature \in Genuine

WardsweepRunsOnAMachine == where = "repository" => run.step = "none"
LoadedIsACatalog == run.step = "loaded" => run.bytes # Absent

CheckInv ==
  /\ KeyInv
  /\ AboutToSignIsChecked /\ GatesAgree
  /\ FilesAreGenuine /\ WardsweepRunsOnAMachine /\ LoadedIsACatalog
  /\ OnlyAnIntactCatalogAnswers

(* Neither the start nor the repository uses or answers anything.           *)
LEMMA NothingUsed ==
  ASSUME run.step \notin {"loaded", "answered"}
  PROVE  OnlyAnIntactCatalogAnswers
BY DEF OnlyAnIntactCatalogAnswers, Used

(* Nothing has been read or signed at first.                                *)
LEMMA CheckInit == Init => CheckInv
<1> SUFFICES ASSUME Init PROVE CheckInv
  OBVIOUS
<1>1. run.step = "none" /\ run.signature = Absent
  BY DEF Init, NotRunning, Run
<1>2. \A who \in People : tool[who].step = "idle"
  BY DEF Init, Idle, Tool
<1>3. AboutToSignIsChecked /\ GatesAgree /\ FilesAreGenuine
  BY <1>1, <1>2 DEF Init, AboutToSignIsChecked, GatesAgree, FilesAreGenuine, Genuine
<1>4. WardsweepRunsOnAMachine /\ LoadedIsACatalog /\ OnlyAnIntactCatalogAnswers
  BY <1>1, NothingUsed DEF WardsweepRunsOnAMachine, LoadedIsACatalog
<1> QED
  BY <1>3, <1>4, KeyInit DEF CheckInv

(* What CI lets pass, the build of the same commit loads.                   *)
LEMMA WhatCiPassesLoads ==
  ASSUME NEW commit, CiPasses(commit)
  PROVE  Loads(commit.body, commit.sig, commit.pubkey)
BY DEF CiPasses, Loads, PassesChecks, IsSound

(* The repository's steps make no unchecked signature look checked, and     *)
(* pass no commit that would be refused.                                    *)
LEMMA RepositoryGates ==
  ASSUME CheckInv, RepositoryStep
  PROVE  AboutToSignIsChecked' /\ GatesAgree' /\ sig' \in Genuine'
<1>1. ASSUME UNCHANGED <<sig, signed, passed>>,
             NEW who \in People, NEW state,
             tool' = [tool EXCEPT ![who] = state],
             state.step = "sign" => PassesChecks(state.holds)
      PROVE  AboutToSignIsChecked' /\ GatesAgree' /\ sig' \in Genuine'
  <2>1. AboutToSignIsChecked'
    BY <1>1 DEF AboutToSignIsChecked, CheckInv, KeyInv, TypeOK
  <2> QED
    BY <1>1, <2>1 DEF GatesAgree, FilesAreGenuine, Genuine, CheckInv
<1>2. Idle.step # "sign"
  BY DEF Idle, Tool
<1>3. CASE \E text \in Bodies : Edit(text)
  BY <1>3 DEF Edit, AboutToSignIsChecked, GatesAgree, FilesAreGenuine, Genuine, CheckInv
<1>4. ASSUME NEW who \in People, NEW path \in SecretPaths, NEW key \in Keys, KeygenOpen(who, path, key)
      PROVE  AboutToSignIsChecked' /\ GatesAgree' /\ sig' \in Genuine'
  <2>1. Tool("secret", path, key).step # "sign"
    BY DEF Tool
  <2> QED
    BY <1>1, <1>4, <2>1 DEF KeygenOpen
<1>5. ASSUME NEW who \in People, KeygenWriteSecret(who) \/ KeygenWritePublic(who)
      PROVE  AboutToSignIsChecked' /\ GatesAgree' /\ sig' \in Genuine'
  <2>1. /\ \/ tool' = [tool EXCEPT ![who] = Idle]
           \/ tool' = [tool EXCEPT ![who] = [tool[who] EXCEPT !.step = "public"]]
        /\ UNCHANGED <<sig, signed, passed>>
    BY <1>5 DEF KeygenWriteSecret, KeygenWritePublic, CheckInv, KeyInv, TypeOK
  <2>2. tool[who].step \in {"secret", "public"}
    BY <1>5 DEF KeygenWriteSecret, KeygenWritePublic
  <2>3. tool[who] \in [step : {"secret", "public"}, path : SecretPaths, holds : Keys]
    BY <2>2 DEF CheckInv, KeyInv, TypeOK, ToolState, Idle, Tool
  <2>4. [tool[who] EXCEPT !.step = "public"].step # "sign"
    BY <2>3
  <2> QED
    BY <1>1, <1>2, <2>1, <2>4
<1>6. ASSUME NEW who \in People, SignRead(who)
      PROVE  AboutToSignIsChecked' /\ GatesAgree' /\ sig' \in Genuine'
  <2>1. PassesChecks(Tool("sign", Absent, body).holds)
    BY <1>6 DEF SignRead, Tool
  <2> QED
    BY <1>1, <1>6, <2>1 DEF SignRead
<1>7. ASSUME NEW who \in People, NEW path \in SecretPaths, SignWrite(who, path)
      PROVE  AboutToSignIsChecked' /\ GatesAgree' /\ sig' \in Genuine'
  <2>1. PassesChecks(SignedBytes(who))
    BY <1>7 DEF SignWrite, SignedBytes, CheckInv, AboutToSignIsChecked
  <2>2. /\ \/ \E signature : /\ signature.over = SignedBytes(who)
                             /\ sig' = signature /\ signed' = signed \cup {signature}
           \/ sig' \in {Torn, sig} /\ signed' = signed
        /\ passed' = passed
    BY <1>7 DEF SignWrite
  <2>3. AboutToSignIsChecked'
    BY <1>2, <1>7 DEF SignWrite, AboutToSignIsChecked, CheckInv, KeyInv, TypeOK
  <2>4. GatesAgree'
    BY <2>1, <2>2 DEF GatesAgree, CheckInv
  <2>5. sig' \in Genuine'
    BY <2>2 DEF FilesAreGenuine, Genuine, CheckInv
  <2> QED
    BY <2>3, <2>4, <2>5
<1>8. ASSUME NEW path \in SecretPaths, SignUnchecked(path)
      PROVE  AboutToSignIsChecked' /\ GatesAgree' /\ sig' \in Genuine'
  <2>1. sig'.checked = FALSE /\ signed' = signed \cup {sig'} /\ UNCHANGED <<tool, passed>>
    BY <1>8 DEF SignUnchecked
  <2> QED
    BY <2>1 DEF AboutToSignIsChecked, GatesAgree, Genuine, CheckInv
<1>9. CASE PassCi
  <2>1. Loads(Commit.body, Commit.sig, Commit.pubkey)
    BY <1>9, WhatCiPassesLoads DEF PassCi
  <2> QED
    BY <1>9, <2>1 DEF PassCi, AboutToSignIsChecked, GatesAgree, FilesAreGenuine, Genuine, CheckInv
<1>10. CASE Release
  BY <1>10 DEF Release, AboutToSignIsChecked, GatesAgree, FilesAreGenuine, Genuine, CheckInv
<1> QED
  BY <1>3, <1>4, <1>5, <1>6, <1>7, <1>8, <1>9, <1>10 DEF RepositoryStep

(* Nobody works in the repository while wardsweep runs on a machine.        *)
LEMMA RepositoryRunsNothing ==
  ASSUME CheckInv, RepositoryStep
  PROVE  run.step = "none" /\ run' = run
<1>1. UNCHANGED run
  BY DEF RepositoryStep, Edit, KeygenOpen, KeygenWriteSecret, KeygenWritePublic, SignRead, SignWrite,
         SignUnchecked, PassCi, Release
<1>2. \A who \in People : tool[who].step # "idle" => where = "repository"
  BY DEF CheckInv, KeyInv, OnAMachineNobodyRunsTheTool, TypeOK
<1>3. where = "repository"
  BY <1>2 DEF RepositoryStep, Edit, KeygenOpen, InRepository, KeygenWriteSecret, KeygenWritePublic,
              SignRead, SignWrite, SignUnchecked, PassCi, Release
<1> QED
  BY <1>1, <1>3 DEF CheckInv, WardsweepRunsOnAMachine

(* No run of wardsweep starts in the repository.                            *)
LEMMA MachineIsNoRepository ==
  ASSUME WardsweepRunsOnAMachine, MachineStep
  PROVE  where # "repository"
BY DEF WardsweepRunsOnAMachine, MachineStep, PutCatalog, PutSignature, Start, StartRefused, RunObserve,
       ReadCatalog, ReadSignature, Judge, RunCatalog, RunScan

(* An answer that uses nothing says nothing but that something failed.      *)
LEMMA FailingSaysNothing ==
  ASSUME NEW command, NEW code, Answers(command, code, Absent), ~SaysSomething(command, code)
  PROVE  OnlyAnIntactCatalogAnswers' /\ run'.step = "answered" /\ run'.signature = Absent
<1>1. /\ run'.step = "answered" /\ run'.command = command /\ run'.bytes = Absent
      /\ run'.code = code /\ run'.signature = Absent
  BY DEF Answers, Run
<1>2. Used' = {}
  BY <1>1 DEF Used
<1> QED
  BY <1>1, <1>2 DEF OnlyAnIntactCatalogAnswers

(* What a run loaded may be used and answered from.                         *)
LEMMA UsingWhatIsIntact ==
  ASSUME NEW bytes, bytes # Absent, PassesChecks(bytes),
         \E signature \in signed : signature.over = bytes /\ signature.by = pubkey,
         UNCHANGED <<signed, pubkey>>,
         run'.bytes = bytes, run'.step \in {"loaded", "answered"}
  PROVE  OnlyAnIntactCatalogAnswers'
<1>1. Used' = {bytes}
  BY DEF Used
<1> QED
  BY <1>1 DEF OnlyAnIntactCatalogAnswers

(* Judge loads what was signed: a file that verifies is a signature, and    *)
(* only signatures somebody made are put into one.                          *)
LEMMA JudgeStep ==
  ASSUME CheckInv, Judge
  PROVE  OnlyAnIntactCatalogAnswers' /\ run'.signature = Absent /\ run'.step \in {"loaded", "answered"}
         /\ LoadedIsACatalog'
<1>1. CASE Verifies(run.bytes, run.signature, pubkey) /\ PassesChecks(LoadedBytes)
  <2>1. run' = Run("loaded", run.command, run.bytes, Absent, EXIT_OK) /\ UNCHANGED <<signed, pubkey>>
    BY <1>1 DEF Judge, LoadedBytes, Undisturbed
  <2>2. run'.step = "loaded" /\ run'.bytes = run.bytes /\ run'.signature = Absent
    BY <2>1 DEF Run
  <2>3. run.signature \in signed
    BY <1>1, CatalogReleaseAssumption
    DEF CatalogReleaseAssumption, Verifies, CheckInv, FilesAreGenuine, Genuine
  <2>4. \E signature \in signed : signature.over = run.bytes /\ signature.by = pubkey
    BY <1>1, <2>3 DEF Verifies
  <2>5. run.bytes # Absent
    BY <1>1, CatalogReleaseAssumption
    DEF CatalogReleaseAssumption, PassesChecks, Parses, LoadedBytes
  <2> QED
    BY <1>1, <2>1, <2>2, <2>4, <2>5, UsingWhatIsIntact DEF LoadedBytes, LoadedIsACatalog
<1>2. CASE ~(Verifies(run.bytes, run.signature, pubkey) /\ PassesChecks(LoadedBytes))
  <2>1. Answers(run.command, EXIT_CATALOG_FAILED, Absent)
    BY <1>2 DEF Judge
  <2>2. ~SaysSomething(run.command, EXIT_CATALOG_FAILED)
    BY DEF SaysSomething, EXIT_CATALOG_FAILED, EXIT_OK, EXIT_NOTHING, EXIT_PARTIAL
  <2> QED
    BY <2>1, <2>2, FailingSaysNothing DEF LoadedIsACatalog
<1> QED
  BY <1>1, <1>2

(* The code a run answers with before it has judged anything.               *)
LEMMA EarlyAnswersSayNothing ==
  /\ ~SaysSomething("scan --mode full", EXIT_USAGE)
  /\ \A code : ~SaysSomething("observe", code)
  /\ \A command : ~SaysSomething(command, NoCatalogCode(command))
  /\ \A command : ~SaysSomething(command, EXIT_CATALOG_FAILED)
BY DEF SaysSomething, NoCatalogCode, EXIT_USAGE, EXIT_CATALOG_FAILED, EXIT_SCAN_ERROR, EXIT_OK,
       EXIT_NOTHING, EXIT_PARTIAL

(* Whatever is replaced under a run of wardsweep, it uses what it judged    *)
(* (wardsweep.rs, load_catalog and run).                                    *)
LEMMA MachineGates ==
  ASSUME CheckInv, MachineStep
  PROVE  FilesAreGenuine' /\ LoadedIsACatalog' /\ OnlyAnIntactCatalogAnswers'
<1>1. ASSUME Undisturbed, run'.signature \in Genuine
      PROVE  FilesAreGenuine'
  BY <1>1 DEF Undisturbed, FilesAreGenuine, Genuine, CheckInv
<1>2. Absent \in Genuine
  BY DEF Genuine
<1>3. ASSUME NEW command, NEW code, Answers(command, code, Absent), ~SaysSomething(command, code),
             Undisturbed
      PROVE  FilesAreGenuine' /\ LoadedIsACatalog' /\ OnlyAnIntactCatalogAnswers'
  <2>1. run'.step = "answered" /\ run'.signature = Absent /\ OnlyAnIntactCatalogAnswers'
    BY <1>3, FailingSaysNothing
  <2> QED
    BY <1>1, <1>2, <1>3, <2>1 DEF LoadedIsACatalog
<1>4. ASSUME Undisturbed, run'.step \notin {"loaded", "answered"}, run'.signature \in Genuine
      PROVE  FilesAreGenuine' /\ LoadedIsACatalog' /\ OnlyAnIntactCatalogAnswers'
  <2>1. Used' = {}
    BY <1>4 DEF Used
  <2>2. OnlyAnIntactCatalogAnswers'
    BY <1>4, <2>1 DEF OnlyAnIntactCatalogAnswers
  <2> QED
    BY <1>1, <1>4, <2>2 DEF LoadedIsACatalog
<1>5. ASSUME NEW command, NEW code, Answers(command, code, run.bytes), run.step = "loaded", Undisturbed
      PROVE  FilesAreGenuine' /\ LoadedIsACatalog' /\ OnlyAnIntactCatalogAnswers'
  <2>1. run'.step = "answered" /\ run'.bytes = run.bytes /\ run'.signature = Absent
    BY <1>5 DEF Answers, Run
  <2>2. run.bytes # Absent /\ run.bytes \in Used
    BY <1>5 DEF CheckInv, LoadedIsACatalog, Used
  <2>3. OnlyAnIntactCatalogAnswers'
    BY <1>5, <2>1, <2>2, UsingWhatIsIntact DEF Undisturbed, CheckInv, OnlyAnIntactCatalogAnswers
  <2> QED
    BY <1>1, <1>2, <1>5, <2>1, <2>3 DEF LoadedIsACatalog
<1>6. CASE \/ \E text \in Bodies : PutCatalog(text)
           \/ PutCatalog(Absent)
           \/ \E file \in signed \cup {Absent, Torn} : PutSignature(file)
  <2>1. UNCHANGED <<pubkey, signed, run>> /\ sig' \in Genuine
    BY <1>6 DEF PutCatalog, PutSignature, CheckInv, FilesAreGenuine, Genuine
  <2> QED
    BY <2>1 DEF CheckInv, FilesAreGenuine, Genuine, LoadedIsACatalog, OnlyAnIntactCatalogAnswers, Used
<1>7. CASE \E command \in Readers : Start(command)
  BY <1>2, <1>4, <1>7 DEF Start, Run
<1>8. CASE StartRefused \/ RunObserve
  BY <1>3, <1>8, EarlyAnswersSayNothing DEF StartRefused, RunObserve
<1>9. CASE ReadCatalog
  <2>1. CASE body = Absent
    BY <1>3, <1>9, <2>1, EarlyAnswersSayNothing DEF ReadCatalog
  <2>2. CASE body # Absent
    <3>1. run' = [run EXCEPT !.step = "signature", !.bytes = body] /\ Undisturbed
      BY <1>9, <2>2 DEF ReadCatalog
    <3>2. run'.step = "signature" /\ run'.signature = run.signature
      BY <3>1 DEF CheckInv, KeyInv, TypeOK, RunState
    <3> QED
      BY <1>4, <3>1, <3>2 DEF CheckInv, FilesAreGenuine
  <2> QED
    BY <2>1, <2>2
<1>10. CASE ReadSignature
  <2>1. CASE sig = Absent
    BY <1>3, <1>10, <2>1, EarlyAnswersSayNothing DEF ReadSignature
  <2>2. CASE sig # Absent
    <3>1. run' = [run EXCEPT !.step = "judge", !.signature = sig] /\ Undisturbed
      BY <1>10, <2>2 DEF ReadSignature
    <3>2. run'.step = "judge" /\ run'.signature = sig
      BY <3>1 DEF CheckInv, KeyInv, TypeOK, RunState
    <3> QED
      BY <1>4, <3>1, <3>2 DEF CheckInv, FilesAreGenuine
  <2> QED
    BY <2>1, <2>2
<1>11. CASE Judge
  BY <1>1, <1>2, <1>11, JudgeStep DEF Judge
<1>12. CASE RunCatalog \/ RunScan
  BY <1>5, <1>12 DEF RunCatalog, RunScan
<1> QED
  BY <1>6, <1>7, <1>8, <1>9, <1>10, <1>11, <1>12 DEF MachineStep

(* Every step keeps what the gates rest on.                                 *)
LEMMA CheckStep == CheckInv /\ [Next]_vars => CheckInv'
<1> SUFFICES ASSUME CheckInv, [Next]_vars PROVE CheckInv'
  OBVIOUS
<1>1. KeyInv'
  BY KeyStep DEF CheckInv
<1>2. CASE RepositoryStep
  <2>1. AboutToSignIsChecked' /\ GatesAgree' /\ sig' \in Genuine'
    BY <1>2, RepositoryGates
  <2>2. run' = run /\ run.step = "none"
    BY <1>2, RepositoryRunsNothing
  <2>3. signed \subseteq signed'
    BY <1>2 DEF RepositoryStep, Edit, KeygenOpen, KeygenWriteSecret, KeygenWritePublic, SignRead,
                SignWrite, SignUnchecked, PassCi, Release
  <2>4. FilesAreGenuine'
    BY <2>1, <2>2, <2>3 DEF CheckInv, FilesAreGenuine, Genuine
  <2>5. WardsweepRunsOnAMachine' /\ LoadedIsACatalog' /\ OnlyAnIntactCatalogAnswers'
    BY <2>2 DEF WardsweepRunsOnAMachine, LoadedIsACatalog, OnlyAnIntactCatalogAnswers, Used
  <2> QED
    BY <1>1, <2>1, <2>4, <2>5 DEF CheckInv
<1>3. CASE MachineStep
  <2>1. UNCHANGED <<where, tool, signed, passed>>
    BY <1>3 DEF MachineStep, PutCatalog, PutSignature, Start, StartRefused, RunObserve, ReadCatalog,
                ReadSignature, Judge, RunCatalog, RunScan, Undisturbed
  <2>2. AboutToSignIsChecked' /\ GatesAgree'
    BY <2>1 DEF CheckInv, AboutToSignIsChecked, GatesAgree
  <2>3. WardsweepRunsOnAMachine'
    BY <1>3, <2>1, MachineIsNoRepository DEF CheckInv, WardsweepRunsOnAMachine
  <2> QED
    BY <1>1, <1>3, <2>2, <2>3, MachineGates DEF CheckInv
<1>4. CASE UNCHANGED vars
  BY <1>1, <1>4 DEF vars, CheckInv, AboutToSignIsChecked, GatesAgree, FilesAreGenuine, Genuine,
                    WardsweepRunsOnAMachine, LoadedIsACatalog, OnlyAnIntactCatalogAnswers, Used
<1> QED
  BY <1>2, <1>3, <1>4, NextIsOneOrTheOther

(* The tool, CI and load_verified make the same checks: what one of the     *)
(* first two let pass, the last does, for any catalogs, keys and people.    *)
THEOREM GatesAlwaysAgree == Spec => []GatesAgree
<1>1. CheckInv => GatesAgree
  BY DEF CheckInv
<1> QED
  BY <1>1, CheckInit, CheckStep, PTL DEF Spec

(* However the two files are replaced under it, wardsweep answers from      *)
(* bytes that were signed with its key and pass every check.                *)
THEOREM OnlyAnIntactCatalogIsUsed == Spec => []OnlyAnIntactCatalogAnswers
<1>1. CheckInv => OnlyAnIntactCatalogAnswers
  BY DEF CheckInv
<1> QED
  BY <1>1, CheckInit, CheckStep, PTL DEF Spec

(* ... and no entry of them reaches into Windows or SYSTEM past its own     *)
(* drivers and services (exceptions_for), for any deny-list and templates.  *)
THEOREM CarveOutsNeverLeaveTheEntry == Spec => []CarveOutsStayInTheEntry
<1>1. CheckInv => CarveOutsStayInTheEntry
  <2> SUFFICES ASSUME CheckInv, NEW bytes \in Used
               PROVE  /\ \A ac \in Range(CatalogOf[bytes].anticheat) : StaysInFootprint(ac)
                      /\ \A game \in Range(CatalogOf[bytes].game) : NamesNoFootprint(game)
    BY DEF CarveOutsStayInTheEntry
  <2>1. ChecksDenylist(CatalogOf[bytes])
    BY DEF CheckInv, OnlyAnIntactCatalogAnswers, PassesChecks, IsSound
  <2> QED
    BY <2>1, AntiCheatStays, GameStays
<1> QED
  BY <1>1, CheckInit, CheckStep, PTL DEF Spec
==================================================================================
