# WardSweep in TLA+

WardSweep audits a Windows machine for what kernel anti-cheat software leaves
behind. What exists today is a read-only scanner (`core/`, `cli/`), the signed
catalog it consults (`catalog/`, `tools/catalog/`), the observation harness the
catalog is written from (`tools/observe/`) and the spike of the future
split-privilege design (`spikes/s3-split-privilege/`), in which an elevated
broker runs a job and an unelevated UI follows it over a named pipe. This
directory models the parts whose correctness is hard to test, checks the models
with TLC and proves theorems about them with TLAPS.

## Inventory

| Component | Source | State | Operations | Status |
|---|---|---|---|---|
| Job thread | `broker/src/job.rs` | event log, finished flag, local resume point | per stage: record, push, commit, checkpoint, push; completion | `BrokerJob`, `EventLog` |
| Job record | `broker/src/state.rs`, `ui/JobStateReader.cs` | `jobs`, `job_stages`, WAL and main file | open, stage_started, stage_finished, job_finished, checkpoint, read | `BrokerJob` |
| Serving loop | `broker/src/main.rs` | the optional job, the connection's cursor | accept, admit, Hello, ApplyPlan, JobResume, Shutdown, stream, disconnect | `BrokerSession` |
| Pipe | `broker/src/pipe.rs`, `ui/BrokerPipe.cs` | one instance, two queues | create, accept, read, write, disconnect | `BrokerSession` |
| Spike UI | `ui/Program.cs`, `ui/Session.cs` | position, `session.json` | connect, greet, start or resume, receive, save | `BrokerSession` |
| Client verification | `broker/src/client_check.rs` | none | identify, predates, verify_image | an outcome of `BrokerAccept`, admitted or refused; not modelled |
| Audit engine | `core/src/scan/engine.rs`, `model.rs` | pending findings, report | a lookup per catalog item, judge, settle | `Audit` |
| Machine view | `core/src/scan/view.rs` | the machine | lookups | answers in `Audit` |
| Windows machine | `core/src/scan/win.rs` | none | driver_keys, environment, steam_install; Win32 lookups | `Audit`; the Win32 calls are answers |
| Game libraries | `core/src/scan/libraries.rs` | none | discover: Steam's list, Epic's manifests | `Audit`; an input of `Snapshots` |
| Path and key safety | `core/src/safety/` | none | canonicalise, deny-list with carve-outs | `SafetyGate`, `DenyList` |
| Catalog | `core/src/catalog/` | none | expand, validate, check_refs, check_denylist, audit_shared, verify | `Catalog`, `CatalogRelease` |
| Catalog tool | `tools/catalog/`, `catalog-verify.yml` | the catalog, its signature, the keys | keygen, sign, the checking commands | `CatalogRelease` |
| Command line | `cli/src/bin/wardsweep.rs` | the files it has read | load_verified, catalog, scan, observe, exit codes | `CatalogRelease`, `Audit` |
| Harness collectors | `tools/observe/src/collect/` | none | services, filesystem, registry, boot instant | `Snapshots`, `Observation` |
| Observation harness | `tools/observe/src/` | snapshots, diffs, drafts on disk | snapshot, diff, refilter, intersect, suggest, redact, review | `Observation`, `Diffs`, `Suggest`; redact and review not modelled |
| Pipeline stubs | `core/src/{exec,ipc,plan,quar,report}` | none yet | none yet | nothing to model |
| WPF shell | `ui/` | window state over a fake broker client | show a version | not modelled |

(`broker/` and `ui/` in the first rows are those of `spikes/s3-split-privilege/`.)

How they interact: the CLI loads a verified catalog and calls the engine, which
asks the machine view and returns a report whose contents decide the exit code.
In the spike the UI process connects to the broker's single pipe instance,
greets it with the last event number it can account for, starts or resumes the
job, and saves its position after every event; the broker's serving thread
reads the job's log under a lock and writes it to the pipe, while the job
thread appends to the log and records its progress in SQLite. The UI may be
killed and started again at any moment; so may the broker. The harness takes
snapshots of a test machine before an anti-cheat is installed, with it and after
it was removed, compares and intersects them and drafts a catalog entry, which a
person completes, signs with the catalog tool and commits; CI applies the same
checks, and the build ships the two files with the key compiled in.

What is hard here: two processes and two threads that share a log, a pipe and
two files; kills between any two steps of either process; a resume position
kept in three places (the pipe, `session.json`, `jobs.db`); store calls that
fail and are only logged; a machine that changes while it is scanned and may
refuse any answer; snapshots of it in which no two parts were true at once,
written by builds that captured and refused different things; files that are
edited or replaced between two reads of them. `PROJECT.json` lists each hazard at its line.

## Modules

| Module | Models | Uses |
|---|---|---|
| `EventLog` | the log of one job as others see it: grows by one, JobComplete last, with the finished flag | |
| `BrokerJob` | the job thread step by step, the SQLite record, failing store calls, broker kills and restarts | refines `EventLog` |
| `BrokerJobProofs` | theorems about `BrokerJob` | extends it |
| `ResumableStream` | the promise of the reconnection protocol: everything, in order (`StreamSafety`), and eventually (`StreamSpec`) | extends `EventLog` |
| `BrokerSession` | serving thread, pipe, UI process, session file, kills on both sides | extends `EventLog`, refines `ResumableStream` |
| `BrokerSessionProofs` | theorems about `BrokerSession` | extends it |
| `Audit` | the scan: the launchers' lists, the driver keys, one action per lookup, classification, report, exit code | |
| `AuditProofs` | theorems about `Audit` | extends it |
| `DenyList` | the compiled-in tables and rules for locations and keys, and the carve-outs of a catalog entry | |
| `SafetyGate` | a path or key through its conversion, one raw component at a time, and the deny-list, next to what Win32 opens for the same text | extends `DenyList` |
| `DenyListProofs`, `DenyListTables` | lemmas about the rules, and about the tables they read: a beginning of a protected pattern is itself refused | extend `DenyList` |
| `SafetyGateProofs` | theorems about the gate | extends `SafetyGate`, `DenyListProofs`, `DenyListTables` |
| `Snapshots` | what each collector reads and may hold: policy, coverage, empty trees, WOW64 views, boot sessions | |
| `Diffs` | compare, the noise filter, refilter, reversal, intersection | extends `Snapshots` |
| `Suggest` | the draft of an entry: the signer's files, driver images, directories, keys, what a reviewer is told | extends `Diffs`, `DenyList` |
| `Observation` | a cycle: snapshots step by step of a changing machine, then the commands | extends `Suggest` |
| `ObservationProofs` | theorems about `Observation` | extends it |
| `Catalog` | the rules of a catalog and the templates it is checked with | extends `DenyList` |
| `CatalogRelease` | the catalog's life in the repository and on one machine | extends `Catalog` |
| `CatalogProofs` | theorems about `CatalogRelease` | extends it |
| `MCAudit`, `MCSafetyGate`, `MCObservation`, `MCCatalog` | catalogs, machines, builds and words for TLC | extend `Audit`, `SafetyGate`, `Observation`, `CatalogRelease` |

Correspondence with the code: an action is a stretch of code between two points
at which another thread or process may act or the process may be killed. In
`BrokerJob` the variable `pc` names the next statement of `run`, `held` is its
local `last_seq`, `txn` the open transaction of `stage_finished`, `db` what a
reader of the database sees and `mainFile` what `jobs.db` holds without its
`-wal` file. In `BrokerSession` `bpc` is the serving thread (`accept`, `read`
for `read_frame`, `stream` for `events_after`, `write` inside the batch), `upc`
the UI, `conn` and `uiEnd` the two ends of the pipe, `toBroker` and `toUi` the
messages in it, `session` the file, and `shown` what the UI processes printed
(only the properties read it). In `Audit` `todo` is what is left of the loops
of `Audit::run`, and before the first entry of `environment` and `audit`; `libraries`
is what `discover` found, `found` the vector of `Pending`, and `present` and `unread`
record the machine's answers for the properties. In `SafetyGate` `pc` is the
place in `canonicalise_syntactic`, `canonicalise_resolved` or
`canonicalise_reg_key`, `source` which of the first two it is, `path`, `hive` and
`subkeys` the value being built; the verdicts are the names of the code's enums.
A component of a path is a word, upper-case because `normalise_components` makes
it so, with what it trails and whether a colon follows. `opens` and `passes` are
the location Win32 reaches for the text so far, if it ends here and if it goes on;
only the properties read them. Win32's side is external: it is what the comments
of `paths.rs` say of it. Where the Win32 and the NT layer disagree on a name, or a
name keeps blanks it trails, the model gives it `OtherName`, a name no table
mentions. Of the text of a root only what `split_root` tests is kept: the kind it
is taken for and the byte offsets it is sliced at.

In `Observation` the steps of one snapshot are `phase` and what they read is
`capture`: the service names, then each service's configuration, then the listing
of the directories, then the contents of the files, then the registry, which is
the order of `collect`; the machine may change or restart between any two. What
is written, `snapshots`, `diffs`, `common` and `draft`, has the fields of
`model.rs`, `diff.rs`, `intersect.rs` and `suggest.rs` with lists as sets. A change
holds the records before and after; its kind, differing fields, flags and signer
are operators of the two. `seen` remembers what each step of a snapshot found;
only the properties read it. A name is a string, a path or key a sequence of names,
and where the code looks into a name (case, words, digits, publishers in prose)
it does so through an operator that is a constant of the module. A machine gives
its files' signers and the folders its launchers name as they are.

In `CatalogRelease` a file's contents are a name: `CatalogOf` says what the bytes
parse to, a key pair has one name, and a signature is the record of whose it is and
over which bytes, which nobody makes without the key. `tool` is the `keygen` or
`sign` each person is running: `keygen` creates the secret file, writes it, writes
the public one; `sign` reads and checks the catalog, then reads the key and writes
the signature. `passed` are the commits that got through `catalog-verify.yml`.
After `Release` the files are those of a machine and `run` is one `wardsweep`
after another: it reads the catalog, reads the signature, judges, then works.
`catalog verify`, `list` and `show` load the same way and are one command. Only
the properties read `checked` of a signature.

Each of the modules also holds a few operators named `<Operator>_<Slip>`: the
operator as it would be with a plausible mistake. No specification uses them;
replacing the operator by its slip must break the property `PROJECT.json` pairs
with it, which shows that the property can fail.

## What the runs check

`job_thread` (`BrokerJob.cfg`): the seven stages of `STAGE_KEYS`, two progress
events each, WAL with checkpoints, two broker lives and one failing store call.
Within one life the recorded resume point is never ahead of the log
(`ResumePointNeverAhead`), a completed record trails the log by JobComplete
alone (`CompletionTrailsByOne`), the log implements `EventLog`, and a
started job completes unless its broker dies. Two properties hold under guards that
stand in their formulas. The stage rows and the resume point speak for each other
(`StageRowsMatchResumePoint`) in two halves: every stage the resume point reaches into
has its end, in every life, while no store call has failed; and every stage with an
end is one the resume point reaches into, whatever has failed, in the first life. After
a failing call the first half is not so in the code (the next commit's resume point counts the events of
a stage whose own commit failed, and the UPDATE of a stage whose `stage_started` failed finds no
row); in a second life the second is not (`state.rs:117` keeps the row, and the
stage ends of the first life stay next to a log begun anew). What was announced as done is
on disk (`AnnouncedIsDurable`) while no store call has failed: a failing
commit or checkpoint is only logged and "done" is announced all the same
(`job.rs:168-182`). One failure and one restart reach
every combination of a stale row with a later step; `NumStages` and the ticks
only repeat them.

`session` (`BrokerSession.cfg`): five events, a pipe of two messages so that the
broker blocks, four UI processes of which two may be killed, one connection the
broker drops, three broker starts. `session.json` is saved as `Session.cs` saves it,
truncated and then written, and a kill may come between the two. A kill costs at most
one repeated event (`OneRepeatPerKill`), and the pipe
holds exactly the difference between the two sides (`PipeHoldsTheDifference`). Under
fairness a vanished client is released (`VanishedClientIsReleased`) and the session
implements `ResumableStream`: always its safety, and its promise that the stream is
seen to the end unless a kill has torn the file, which no later UI can
load (`ImplementsResumableStream`; `session_torn` shows the kill). Here the broker
lives: the promise is of one job, and `MaxCrashes` and `MaxFailedAccepts` are zero.
`session_scenarios` adds the `hello` and `shutdown` scenarios, a broker that is
killed and started again, and an accept that fails. No event of the first job is left
out (`NothingSkipped`) and event numbers follow one another through all of it
(`NumbersFollow`). Only Shutdown, a kill of the broker or that one accept ends a
job (`OnlyShutdownEndsTheJob`). Two kills are enough to have a kill while another's
consequences last; the pipe's capacity only has to be smaller than a batch.

The failing accept is the code's own: `pipe.accept()?` and `pipe.client_process_id()?`
(`main.rs:220-226`) return from `serve` when the client that connected has already
left, and the broker ends with the job it was running. `docs/08-IPC-PROTOCOL.md:161`
("If the pipe drops mid-job the broker continues") and the comment at `main.rs:257-258` ("The
job thread is untouched by this") hold for a client that was accepted, and not for
this one. `BrokerAccept` has the three outcomes, `MaxFailedAccepts` bounds the third, and the
property names it as the exception it is. `BrokerListen` has the same end for a client
that comes and goes before the first `ConnectNamedPipe`, when there is no job yet.

`audit` (`Audit.cfg`): every answer to every lookup of three catalogs, of a service
and a driver registered twice, of paths in two game libraries and redirected keys,
and of an attested publisher; the first two have a second entry. A catalog never
changes during a scan and entries share nothing but the libraries, the driver keys
and the report, so two entries are enough. Steam's list and Epic's manifests are
read first, each found, absent, unreadable or overlooked, and a template of a
library reaches only what was found. A scan that is not partial has missed nothing
but what `Overlooked` names (`UnreadableMakesPartial`): an image, a signature, the Type
or ImagePath of a service's or driver's key, Steam's directory or the value naming it, an entry of Epic's
directory; the mutant that overlooks any lookup breaks it. Whatever the machine says is
there ends in the report (`EveryAnswerIsReported`), but for one kind the code
drops (`Dropped`): where a driver's image that no key registers would be, a directory or a
reparse point is treated as absent (`engine.rs:310`). The deny-list's verdict and the expansions are given;
the catalogs include what the CLI's load-time validation would refuse (a refused
key, a template that does not expand), because `audit` is a public function of
the library with branches and tests for them.

`safety_gate` (`SafetyGate.cfg`): every path of up to four components over the
words the tables tell apart, in each spelling of its root, with `..`, `.`,
doubled separators, trailing dots and blanks, streams, 8.3 aliases and long names
that look like one, at load and at execution; and every key of up to five
components below each hive, in both views. Four components are the depth of the
carve-out for driver files and of the deepest containers but three, which differ
from their neighbours only in a name; five are the depth of a service's subkey
and of the `Uninstall` and `Run` keys. The entry that asks declares a driver with
a folder, a driver and a service of Windows and a blank. A path that passes names
what Win32 opens (`CanonicalNamesWhatOpens`) or at least nothing the deny-list
would have refused (`NoSpellingEscapes`); nothing above a protected directory or
key passes (`NothingAboveProtected`); the carve-outs
open one file or one key each (`OnlyTheNamedDriver`, `OnlyTheNamedService`); a key in the
32-bit view of `SOFTWARE`, under HKU or in HKCR does not pass where the same key written
the other way is refused (`NamesAreJudgedAlike`). A key that makes the
deny-list slice a character (`SlicesACharacter`, `denylist.rs:916`) is answered with
"Panic", which allows nothing.

Three limits of these properties. Text behind `\\?\` is read by the code like any other,
and `CanonicalNamesWhatOpens` compares it with what the text names without the
prefix; Win32 itself hands it on as written. `SOFTWARE\Classes\WOW6432Node` is a view too that no
rule knows, so `CLSID` below it passes where `SOFTWARE\Classes\CLSID` is refused;
`NamesAreJudgedAlike` does not claim it. And `NothingAboveProtected` is about the tables of
containers, of `ProgramData\Microsoft` and of Windows data, and of protected and container keys.

`NoSpellingEscapes` leaves the carve-out aside on purpose. A middle directory that
trails blanks is one of its own to Win32 while the conversion strips them, so
`C:\Windows\System32\drivers \x.sys` is canonically a driver file and passes if
the entry names it, although the file opened is another one, inside Windows. The
comment at `paths.rs:282` says that a spelling may be mapped onto a protected form
and never away from one; the entry in `hazards` records it.

`observation` (`Observation.cfg`): cycles of three snapshots, `CycleLength`, of a
machine that is one of four (as it was, with the anti-cheat, with what an
uninstaller leaves, and with parts that cannot be read) and that changes or
restarts up to twice, `MaxChanges`, anywhere between their steps; snapshots are
taken by the current build or one that knows neither boot sessions nor empty
directories and refuses nothing. Of three possible diffs up to two, `MaxDiffs`, are
taken, refiltered or not, intersected, and a draft is made of one or of both,
with or without a residue diff, restricted to some words or reversed. Two changes are enough to
have one in the middle of a snapshot and another in the middle of the next; three
snapshots to have two diffs to intersect; the four machines hold each kind of
record with each fault a collector handles. `WalkMinutes = 3` against
`BootTolerance = 2` makes a walk last longer than two boot instants may differ, so
that a restart during a walk always shows: a restart within the tolerance, which the code
takes for none, is not in the run, and the restart part of `EveryDifferenceIsTold` says
nothing of it.
Nothing is invented by a diff, and no difference is lost, except where the diff
itself says that it could not tell (`NothingInvented`, `EveryDifferenceIsTold`); the
lists of emptied directories are those still standing empty, and hold all that were
looked at in full (`WhatIsLeftStanding`);
what this build refuses to know is in nothing it writes, older inputs included
(`ExcludedNeverLeaves`); a diff read backwards is the diff of the snapshots the
other way round, with the lists of what was emptied and of what was empty before
exchanged (`ReadBackwards`); what is called common is so in each diff and in
any order of them (`IntersectionIsShared`), and what was refused adds up
(`RefusalsAddUp`); and what the signer added ends in the
draft or among what its reviewer is told (`DraftLosesNothing`). The exceptions the
properties make are the code's blind spots and are listed as hazards: an entry a
directory cannot list, two instances of one per-user service.

`catalog` (`Catalog.cfg`): two people, two key pairs, two paths for secret keys,
eight catalogs: a sound one with every kind of entry, an empty one, five that are
one mistake away and one that is not TOML; one edit, `MaxEdits`, two signatures,
`MaxSignatures`, one commit let pass, `MaxCommits`; people, keys and paths are
interchangeable (`Symmetry`). Then the two files of one machine are replaced in any order, by anything
or nothing, while `wardsweep` runs. Two of each are what a race needs; one edit
comes after any step of `sign`. No entry in use reaches past its own drivers and
services (`CarveOutsStayInTheEntry`), `wardsweep` answers only from bytes signed with its key
that pass every check (`OnlyAnIntactCatalogAnswers`), the three gates agree
(`GatesAgree`) and no key in use is lost (`SigningKeyIsNeverLost`). The tool and CI
end with the repository's phase: a machine's files do not depend on what
happens in the repository afterwards.

Five runs exhibit a disagreement between the code and what the repository says
of it: `job_recovery` (a restarted broker keeps the old resume point),
`session_torn` (what a kill leaves of the UI's position), `session_returns` (a UI
resuming after the end waits for ever), `audit_images` (an unreadable image, driver
key's value, signature, entry of Epic's directory or install directory of Steam does not make a scan
partial) and `path_panics` (a prefix compared in the middle of a
character panics; the shortest trace is of a path, and the run has a key that does the same). `findings` in `PROJECT.json` quotes the lines.

Fairness: `BrokerJob.FairSpec` is weak fairness of the job thread, which never
waits for anything but the store. `BrokerSession.FairSpec` is weak fairness of
the job thread, the serving thread and the UI process, and of the user starting
the broker and a UI again; kills, dropped connections and crashes are never
forced. `CHECK_DEADLOCK FALSE` is set where the system may stop for good: when
the launches, lives or catalog entries are used up.

## What is proved

Every theorem is of the whole specification, for every value of the constants that
the module's assumption admits. Where one needs more, its hypotheses stand in its
statement and are explained here.

### The job

`BrokerJobProofs`, for every number of stages, progress events, lives and store
failures, both journal modes and with or without checkpoints (`JobAssumption`):

- `TypeCorrect`: `Spec => []TypeOK`;
- `ResumePointIsSafe`: `Spec => []ResumePointNeverAhead`;
- `CompletionIsExact`: `Spec => []CompletionTrailsByOne`;
- `AnnouncementsAreDurable`: `Spec => []AnnouncedIsDurable`;
- `RowsAndResumePointAgree`: `Spec => []StageRowsMatchResumePoint`;
- `RefinesEventLog`: `Spec => ImplementsEventLog`.

The second and third rest on `IInv`. Neither property is inductive alone: the log's
length is read long before it is written to the record, so `HeldIsNotAhead` and
`FinalPoint` carry the local copy and the open transaction across the steps in
between, `FinalPoint` also that a record says "completed" only at the end of a life
(because opening the job makes it "running" again), and `NoLifeNoRecord` that the
first life starts with an empty record. What was announced is durable because
`DoneIsOnDisk` follows each stage from the open transaction to the record to the main
file, and a stage is announced after the last of these. `DoneIsOnDisk` and the theorem say so while no store call has failed. The
rows agree with the resume point by `RowInv`, in the two halves of the property. For the
first, `ReachedHasEnded` counts in events instead of shown stages, so that it holds of
the point an earlier life left as well, and `BehindHasEnded` and `EventsInOrder` say that
the thread has ended every stage whose events are complete. For the second,
`EndedWasShown` follows a stage's end from its last event through the transaction, in
the first life only. The refinement needs `LengthFollows`: a life that is over
left no log.

### The session

`BrokerSessionProofs`, for every job, capacity, scenario and number of failures:

- `TypeCorrect`: `Spec => []TypeOK`;
- `OnlyShutdownEnds`: `Spec => OnlyShutdownEndsTheJob`, an action property;
- `PrintedNumbersFollow`: `Spec => []NumbersFollow`;
- `PipeIsTheDifference`: `Spec => []PipeHoldsTheDifference`;
- `NothingIsSkipped`: `Spec => []NothingSkipped`;
- `RepeatsAreCounted`: `Spec => []OneRepeatPerKill`, when UIs only stream
  (`Scenarios \subseteq {"stream"}`) and the broker is not killed (`MaxCrashes = 0`);
- `SessionIsAStream`: `Spec => Stream!StreamSafety`, when nothing ends the broker
  (`NothingEndsBroker`: no kill, no failing accept, no "shutdown" in `Scenarios`).

The hypotheses are those of the promise, not of the proof. A broker that ends takes the
job with it, and the next job counts from one: there is no one stream any more, and
`NothingSkipped` is about the first job, `PrintedNumbersFollow` about all of them. The
"hello" scenario starts from zero, and what a killed broker had sent may still be read
while the next job counts anew, so that more than one event per kill is printed
again. The session file is truncated and written as in the code; a kill in between
tears it for good, which costs progress and not a repeat.
The invariant is layered. `Ends` ties the two ends of the pipe together. `Positions`
says that every position held anywhere (the session file, the answer to a hello, the
cursor of the serving thread, a request under way) was printed, or will have been by the
time the frames before it are read; that alone gives `NumbersFollow`. `Dialogue` says
which message may be under way in which state of the two programs, and that the pipe
holds the events between the position the UI has and the cursor. `LivesInOrder` adds that what is printed comes in the
order of the jobs, which `NothingSkipped` needs, and `OneLife` that there is one job;
`SavedPoint` and `RepeatsAreKills` that the UI has printed what it saved, or was about to
save when the file was truncated (`Point`), and at most one event more, so that a kill
costs one repeat unless the file is torn (`Lost`), after which nothing is printed; `WithinLog` and `HighestIsTop` give the value of `delivered` for the refinement.

### The scan

`AuditProofs`, for every catalog and machine (`AuditAssumption`):

- `TypeCorrect`: `Spec => []TypeOK`;
- `PartialIsTold`: `Spec => []UnreadableMakesPartial`;
- `ConfirmedByPublisher`: `Spec => []OnlyThePublisherConfirms`;
- `SuspectedBySignature`: `Spec => []OnlyASignatureMakesSuspicious`;
- `AnswersAreReported`: `Spec => []EveryAnswerIsReported`, when no entry names a
  service twice (`NoServiceTwice`).

`Told` gives, for every failed lookup still on record, the partial flag it must have
left. `Accounted` follows an answer of the machine from the lookup to a pending
artifact to the report. That nothing is both found and disbelieved needs `AskedOnce`, that
no service is asked for twice: asked again, it might be believed the second time. It is
a fact about the catalog which the validator does not establish (`validate.rs:558`
rejects only repeated titles), so it is a hypothesis. Both properties name what the code
leaves out, `Overlooked` and `Dropped`, and the theorems show that nothing else is.

### The safety gate

`SafetyGateProofs`, for every set of words, components of any number, every
machine's aliases and every catalog entry (`SafetyGateAssumption`: the words are
names, an alias has the form of one, the name of its own is no hive file;
`DenyListAssumption`: the names of the boot store's hives, which all begin with BCD, do
not contain `SOFTWARE`, under which both views of a key are looked up):

- `TypeCorrect`: `Spec => []TypeOK`;
- `SpellingsAreSafe`: `Spec => []NoSpellingEscapes`;
- `PathsNameWhatOpens`: `Spec => []CanonicalNamesWhatOpens`;
- `NothingProtectedIsInside`: `Spec => []NothingAboveProtected`;
- `EveryNameIsJudged`: `Spec => []NamesAreJudgedAlike`;
- `CarveOutIsNarrow`: `Spec => []OnlyTheNamedDriver`;
- `ServicesAreNamed`: `Spec => []OnlyTheNamedService`.

Their invariant `IInv` (theorem `GateInvariant`) has four parts beside the types;
`HiveIsKnown` and `AnsweredOnce` tell a path from a key and say when there is a
verdict, the other two are the argument.
`Spelled` says that, component for component, the path built so far and what
Win32 opens agree or Win32 has `OtherName` there, unless the path is flagged for
an alias; it also speaks of `passes`, which the next `.` makes the location opened,
and it has to hold before the verdict is known. `Judged` says of an
answer "Ok" what the deny-list was asked and that no alias was flagged. The
lemmas of `DenyListProofs` then do without the gate: what a passed location or key
satisfies, and `UnmentionedPasses`, that a location which passes still does when
some of its names become one no table mentions; `OtherNameIsUnmentioned` checks
the tables for that. `DenyListTables` holds what `NothingProtectedIsInside` needs of
them: whatever protected pattern one takes, each of its beginnings of two or more words
is refused too, so no gap is left through which a directory above a protected one
could pass. It also says that the native and the 32-bit view of a key are refused together,
which is the heart of `EveryNameIsJudged`. A key may be answered with "Panic"
(`RegistryKeyVerdict`), which is not "Ok".

### The observation cycle

`ObservationProofs`, for every machine, build, run of diffs and bound
(`ObservationAssumption`: what a machine holds is finite, a service record has every
field, the diffs a cycle takes are of its own snapshots, and a build writes format 1
or the one this build writes; `MachineAssumption`: files and keys form trees, as those
of Windows do, and what lies below a root of the walk, which is no empty path, is spelled
from that root on as the walk opened it; `PolicyAssumption`: the fragments of a policy are
names in a row; only the last three theorems need these two, and TLC evaluates them on
the run's machines and builds):

- `TypeCorrect`: `Spec => []TypeOK`;
- `NothingExcludedLeaves`: `Spec => []ExcludedNeverLeaves`;
- `BackwardsIsTheOtherWay`: `Spec => []ReadBackwards`;
- `WhatAllTellIsShared`: `Spec => []IntersectionIsShared`;
- `NothingIsInvented`: `Spec => []NothingInvented`;
- `EmptiedIsWhatIsLeft`: `Spec => []WhatIsLeftStanding`;
- `NoNewFileIsLost`: `Spec => []NewFilesAreTold`, the part of `EveryDifferenceIsTold`
  that is about new files.

They share the invariant `Held` (theorem `AlwaysHeld`). `MachineHeld` and `CaptureHeld`
say that what a step has read is finite and complete in its fields, whatever changed
between two steps; `SnapshotsHeld` that a snapshot written keeps this; `DiffsHeld`
that every diff is what `compare` makes of two snapshots or this build's refilter of that,
and that what this build wrote names nothing its policy refuses. `CompareIsClean`,
`RefilterIsClean` and `SharedIsClean` are the last part, operator by operator.
`ReversedIsTheOtherWay` is the other property: field by field, `reversed` of a
comparison is the comparison of the same snapshots in the other order. It is why
finiteness matters: the numbers of suppressed changes are sums of two
cardinalities, and only numbers may be added in the other order. For the
intersection, `SharedInv` adds that the diffs stay as they were once there is one
(`CommonHeld`) and that no diff both keeps a service and sets it aside (`NoiseKept`); `SharedIs`
says what `Shared` returns without the order of its arguments, and the rest follows.

`NothingIsInvented` compares a diff with the machines and not with the snapshots, so it
needs what lies between, `ShowInv` (theorem `AlwaysShown`): a capture and a snapshot
are what the collectors make of the machine each step saw (`CaptureShows`,
`SnapshotsShow`), and a diff is what `compare` made of its two snapshots, or this
build's refilter of that (`DiffsCompared`). The argument has three parts, each done for
services, for files and for keys. The snapshot before accounts for what was there: a
file the walk was to reach is recorded, or an entry above it is denied or was never
listed (`FileAccounted`, `FileSeen`); a key is recorded unless one above it is denied, its
record is refused whole or it is read under its other name (`KeyAccounted`, `KeySeen`).
The first obstacle on the way down is the one of least length, which is where the trees
are needed. A denial
of a snapshot is in the diff and stays in its refilter, except where a policy excludes
the item, which then excludes all below it (`DenialsStay`, `ExcludedBelow`). And what a diff
has on one side only is in one snapshot only, or was refused on the other:
`ToldFilesAreKept` for files; for keys `SaysWhatIsLeft`, since a policy
may narrow either side of a change to nothing. The claim of a restart rests on
`RestartTold`: boot instants that differ by more than the tolerance are of two boots.

The proof corrected the property: a diff taken by a build whose policy refuses all values
one side holds of a key tells the key as new, although it was there, and nothing in
the diff says so (`diff.rs:709`). `HeldBack` excuses exactly this.

`EmptiedIsWhatIsLeft` and `NoNewFileIsLost` rest on the same `ShowInv` and on what a
snapshot says of a path the walk was to reach (`NodeReached`). A listed directory that
held something would have an obstacle below it, and the shortest one is seen by the
walk: it is a file or a denial, which keeps all above it off the list
(`ObstacleIsHeld`). The other way round, a directory that stands empty lies below a topmost
empty one, and that one is what the snapshot lists (`TopmostIsListed`,
`StandingEmptyIsListed`). What the snapshot lists and the one before did not is the
diff's list (`ListsOfADiff`), and a refilter only takes away what its policy refuses
(`RefilteredLists`, `EmptiedStandsEmpty`, `LostIsListed`). A new file is recorded or
denied after (`FileAccounted`), missing before, hence an addition (`FileOfOneSideIsTold`), and
stays one in a refilter (`MadeTellsFiles`); its denial stays as well (`FileDenialStays`).

These proofs corrected their properties too. The policy of the build that made a diff
may refuse a path that neither the snapshot's nor the refilter's policy refuses
(`HiddenPath`); an excluded entry below a directory, or one on the way to it that could
not be listed in either snapshot, keeps the directory off the list for good reason; and a
diff that does not compare a domain tells nothing of it (`Compared`).

### The catalog

`CatalogProofs`, for every set of bytes, keys, secret paths and people, every
catalog those bytes may parse to, every deny-list and expansion
(`CatalogReleaseAssumption`: what stands for no file and for a torn one is no bytes,
no key and no signature):

- `TypeCorrect`: `Spec => []TypeOK`;
- `KeysAreKept`: `Spec => []SigningKeyIsNeverLost`;
- `GatesAlwaysAgree`: `Spec => []GatesAgree`;
- `OnlyAnIntactCatalogIsUsed`: `Spec => []OnlyAnIntactCatalogAnswers`;
- `CarveOutsNeverLeaveTheEntry`: `Spec => []CarveOutsStayInTheEntry`.

The keys need `KeyInv`: a `keygen` under way is alone with its file, which is torn
until the key is in it (`KeygenOwnsItsFile`), so the key it publishes is held at that
moment and no other `keygen` touches the file afterwards. The gates need `CheckInv`:
what somebody is about to sign was checked (`AboutToSignIsChecked`), signature files
hold only signatures somebody made (`FilesAreGenuine`), and what is loaded was read
(`LoadedIsACatalog`). The last theorem adds two lemmas that know nothing of files:
`AntiCheatStays` and `GameStays` say what `check_denylist` implies of an entry.

### Model-checked only

- Liveness (`StreamSpec` of the fair session and every other property that needs
  `FairSpec`): the provers have no ENABLED and no fairness. The safety half of the
  refinement is proved.
- Of `Observation`: `DraftLosesNothing`, and `EveryDifferenceIsTold` beyond its new files.
  That what was refused adds up in any order (`RefusalsAddUp`) would be an induction over
  the diffs; that a restart is never denied needs boot instants further apart than the
  tolerance, which is the run's choice of `WalkMinutes`; changed sizes need that no two
  entries of a machine differ by the case of their paths only, which `MachineAssumption`
  does not ask. New services and values were not attempted.

## Not modelled

The DACL, frame encoding, SDDL and Win32 wrappers, rendering and argument
parsing: no state, and unit tests reach them. The WPF shell shows a version
string over a fake client. `core/src/{exec,ipc,plan,quar,report}` hold only
their module comments.

The rendering of canonical paths and keys, the log line of a refusal and the
contents of the lists of inbox drivers and services (constants of `DenyList`) are
left out of the safety gate; so is the volume a path is on, which no rule reads.

Of the harness, `redact.rs` and `review.rs` rewrite the text of names, for which
the model has no spelling; the TOML of a draft (`to_toml`) and what `diff` prints are layout. The
clock is never adjusted and boot instants are exact, so the tolerance of
`rebooted_between` is exercised by how long a walk takes, not by a drifting clock. A value
is read in one step. The Win32 calls below the collectors and in `scan/win.rs` (with the
table of their error codes and the second try of a signature) and client verification
(`client_check.rs`) are inputs: answers of the machine, a client that is admitted or
not. Of `libraries.rs` the key-values grammar and the spelling of a path are left out;
`Snapshots` takes the folders it finds as given. `Diffs` has the treatment of the emptied
lists in an intersection (`SharedList`), and its results are in what `ExcludedNeverLeaves`
looks at, but `IntersectionIsShared` is about services, files, keys and coverage and
does not check these lists on their own. TOML and Ed25519 are a table and a pair nobody can
forge. Where `wardsweep` looks for a catalog and its warning that a newer program is
required change no state. `keygen --out-public` naming a file that holds a secret key,
which `fs::write` would truncate, is not an input of the model: the public file is a
file of its own, and `SigningKeyIsNeverLost` says nothing of such a call. CI's checks of
`catalog.example.toml` and of CRLF line ends are left out of `CiPasses`; they can only
make CI refuse more. The templates of `Catalog` begin with a drive or a
variable; UNC and device paths are in `SafetyGate` only.

Noticed while modelling, and left to the authors because no document promises
otherwise: two anti-cheat entries may declare the same driver
(`validate.rs:353`); refiltering may turn a modification into an addition
(`diff.rs:709`); `run_diff` exits as "nothing" when only the lists of emptied
directories and keys differ; a change that is common to two diffs is matched by what
it is about, not by its records. Two comments differ
from the code without any run about them. The doc comment of
`reversed` (`diff.rs:566-568`) says that the emptied lists become `None`, because an empty
list would claim what neither snapshot recorded; the code exchanges them with the lists of
what was empty before (`diff.rs:622-627`), its tests expect that (`diff.rs:2205-2231`), and
`ReadBackwards` states the code: the comment is older than the second pair of lists. And
the job is not untouched by a client that leaves before it is accepted (see
`session_scenarios` above).
`docs/04` lets `wardsweep` fall back to a compiled-in catalog;
there is none yet.

## Plan

The job, the session, the scan, the safety gate, the observation cycle and the
catalog's life are done. In this order:

1. Proofs: the services and values of `Observation`'s `EveryDifferenceIsTold` on the
   same invariant, then `DraftLosesNothing`.
2. The Windows machine's error mapping, composed with `Audit` in place of the
   answers it takes as given.
3. Client verification, composed with `BrokerSession`'s accept.
