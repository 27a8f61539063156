----------------------------- MODULE MCObservation -----------------------------
(***************************************************************************)
(* A machine an anti-cheat is installed on and removed from, and once one  *)
(* whose parts cannot all be read.  The older build refuses nothing and    *)
(* knows neither boot sessions nor empty directories and keys.             *)
(***************************************************************************)
EXTENDS Observation

MCFold(n) == IF n = "Vgk.sys" THEN "VGK.SYS" ELSE n
MCJoined(pieces) == IF Len(pieces) = 1 THEN pieces[1] ELSE "WPN_INSTANCE"
MCWords(n) == IF n = "RIOT VANGUARD" THEN {n, "RIOT", "VANGUARD"} ELSE {n}
MCMentions(n, text) ==
  n = text \/ <<n, text>> \in {<<"RIOT VANGUARD", "RIOT">>, <<"RIOT VANGUARD", "VANGUARD">>}
MCPublisher(signer) == IF signer = "RIOT INC" THEN <<"RIOT">> ELSE <<>>
MCStem(n) ==
  CASE n = "24303" -> [prefix |-> "", digits |-> <<2, 4, 3, 0, 3>>]
    [] n = "CORE124303.SYS" -> [prefix |-> "CORE", digits |-> <<1, 2, 4, 3, 0, 3>>]
    [] OTHER -> [prefix |-> n, digits |-> <<>>]

------------------------------------------------------------------------------
ProgramDir == <<"C:", "PROGRAM FILES">>
Old == ProgramDir \o <<"OLD">>
Riot == ProgramDir \o <<"RIOT">>
Vanguard == Riot \o <<"VANGUARD">>
DriverDir == <<"C:", "WINDOWS", "SYSTEM32", "DRIVERS">>
GamesFolder == <<"D:", "STEAMLIBRARY", "STEAMAPPS", "COMMON">>
MCDefaultRoots == {ProgramDir, DriverDir}
MCLibraryFolders == {GamesFolder}
MCVolatileServices == {<<"USOSVC">>}
MCPathIn(data) == IF data = "vgx" THEN <<"??">> \o DriverDir \o <<"VGX.SYS">> ELSE <<data>>

Node(path, kind, fault, size, signer) ==
  [path |-> path, kind |-> kind, fault |-> fault, size |-> size, modified |-> size,
   sha256 |-> size, signer |-> signer]
Dir(path) == Node(path, "directory", "none", 0, None)
File(path, size) == Node(path, "file", "none", size, None)
Signed(path) == Node(path, "file", "none", 1, Some("RIOT INC"))

BaseNodes == {Dir(ProgramDir), Dir(Old), Dir(Append(Old, "SECRETS")), Dir(DriverDir)}
             \cup {File(Old \o <<"SECRETS", "TOKEN.DAT">>, 1)}

InstalledNodes == BaseNodes \cup
  {File(Append(Old, "OLD.EXE"), 2), Dir(Riot), Dir(Vanguard), Dir(Append(Vanguard, "LOGS")),
   Signed(Append(Vanguard, "VGC.EXE")), File(Append(Vanguard, "CORE124303.SYS"), 9),
   Node(Append(Vanguard, "VGK.SYS"), "file", "closed", 1, None),
   File(Append(DriverDir, "Vgk.sys"), 1), File(Append(DriverDir, "OTHER.SYS"), 1),
   Dir(GamesFolder), Dir(Append(GamesFolder, "GAME")), Signed(GamesFolder \o <<"GAME", "VGC.EXE">>)}

RemovedNodes == BaseNodes \cup
  {File(Append(Old, "OLD.EXE"), 1), Dir(Riot), Dir(Vanguard), Dir(Append(Vanguard, "LOGS")),
   File(Append(DriverDir, "VGK.SYS"), 1)}

TroubledNodes == (BaseNodes \ {Dir(Old)}) \cup
  {Node(Old, "link", "none", 0, None), Dir(Riot), Dir(Append(Riot, "HELP")),
   Node(Riot \o <<"HELP", "README">>, "file", "unlisted", 1, None),
   Node(Vanguard, "directory", "closed", 0, None), Signed(Append(Vanguard, "VGC.EXE")),
   Node(Append(DriverDir, "OTHER.SYS"), "file", "metadata", 1, None)}

------------------------------------------------------------------------------
Service(name, display, type, start, image) ==
  [readable |-> TRUE,
   record |-> [name |-> name, display_name |-> display, service_type |-> type,
               start_type |-> start, binary_path |-> image, description |-> "RIOT VANGUARD"]]
Instance(suffix) == Service(<<"WPN", suffix>>, <<"PUSH", suffix>>, "own_process", "demand", Old)
Update(image) == Service(<<"USOSVC">>, <<"UPDATE">>, "own_process", "auto", image)
Vgc == Service(<<"VGC">>, <<>>, "own_process", "demand", Append(Vanguard, "VGC.EXE"))
Vgk(start) == Service(<<"VGK">>, <<"VGK">>, "kernel_driver", start, Append(DriverDir, "VGK.SYS"))

BaseServices == {Instance("BEEF"), Update(Old)}
InstalledServices ==
  {Instance("CAFE"), Update(Riot), Vgc, Vgk("boot"),
   Service(<<"OTHER">>, <<"OTHER">>, "own_process", "auto", Append(Old, "OTHER.EXE"))}
RemovedServices == {Instance("BEEF"), Instance("CAFE"), Update(Riot)}
TroubledServices == {Instance("BEEF"), Update(Old), [Vgc EXCEPT !.readable = FALSE], Vgk("system")}

------------------------------------------------------------------------------
Value(name, data) == [name |-> name, kind |-> "REG_SZ", data |-> data, size |-> 1, reads |-> "whole"]
Key(key, values) ==
  [key |-> key, views |-> View, opens |-> TRUE, lists |-> TRUE, values |-> values]
Machine == <<"HKLM", "SOFTWARE">>
User == <<"HKCU", "SOFTWARE">>
MCRegistryRoots == {Machine, User, ServicesKey}
Roots == {Key(root, <<>>) : root \in MCRegistryRoots}

BaseKeys == Roots \cup
  {Key(Append(Machine, "OLD"), <<Value("V", "1")>>),
   Key(Append(User, "ACCOUNT"), <<Value("V", "1")>>)}

InstalledKeys == Roots \cup
  {Key(Append(Machine, "OLD"), <<Value("V", "2"), Value("HWID", "1"), Value("W", "HWID")>>),
   Key(Append(Machine, "RIOT"), <<Value("USERNAME", "1")>>),
   Key(Machine \o <<"RIOT", "VANGUARD">>, <<Value("V", "1")>>),
   Key(Machine \o <<"RIOT", "24303">>, <<Value("V", "1")>>),
   [Key(Append(Machine, "WOW6432NODE"), <<>>) EXCEPT !.views = {"64"}],
   [Key(Machine \o <<"WOW6432NODE", "RIOT">>, <<Value("V", "1")>>) EXCEPT !.views = {"64"}],
   Key(Append(ServicesKey, "VGK"), <<Value("TYPE", "1")>>),
   Key(Append(ServicesKey, "VGX"), <<Value("TYPE", "1"), Value("START", "0"),
     Value("IMAGEPATH", "vgx"), Value("DESCRIPTION", "RIOT VANGUARD")>>),
   Key(Append(ServicesKey, "DISK"), <<Value("TYPE", "2")>>),
   Key(EventLogKey, <<>>), Key(Append(EventLogKey, "APPLICATION"), <<>>),
   Key(EventLogKey \o <<"APPLICATION", "RIOT VANGUARD">>, <<Value("V", "1")>>)}

RemovedKeys == Roots \cup
  {Key(Append(Machine, "OLD"), <<Value("V", "2")>>), Key(Append(Machine, "RIOT"), <<>>),
   Key(Machine \o <<"RIOT", "VANGUARD">>, <<>>)}

TroubledKeys == (Roots \ {Key(User, <<>>)}) \cup
  {[Key(Append(Machine, "RIOT"), <<>>) EXCEPT !.opens = FALSE],
   Key(Machine \o <<"RIOT", "VANGUARD">>, <<Value("V", "1")>>),
   Key(Append(Machine, "OLD"),
       <<[Value("V", "1") EXCEPT !.size = 7, !.reads = "oversized"],
         [Value("U", "1") EXCEPT !.reads = "vanished"],
         [Value("W", "1") EXCEPT !.reads = "stops"], Value("X", "1")>>)}

------------------------------------------------------------------------------
Base == [services |-> BaseServices, nodes |-> BaseNodes, keys |-> BaseKeys]
MCMachines ==
  {Base,
   [services |-> InstalledServices, nodes |-> InstalledNodes, keys |-> InstalledKeys],
   [services |-> RemovedServices, nodes |-> RemovedNodes, keys |-> RemovedKeys],
   [services |-> TroubledServices, nodes |-> TroubledNodes, keys |-> TroubledKeys]}

AllDomains == {"services", "filesystem", "registry"}
Current ==
  [snapshot_format |-> 2, diff_format |-> 2, domains |-> AllDomains,
   keeps_boot |-> TRUE, lists_empty |-> TRUE,
   policy |-> [keys |-> {<<"ACCOUNT">>}, directories |-> {<<"SECRETS">>},
               hardware |-> {"HWID"}, personal |-> {"USERNAME"}]]
Older ==
  [snapshot_format |-> 1, diff_format |-> 1, domains |-> AllDomains,
   keeps_boot |-> FALSE, lists_empty |-> FALSE,
   policy |-> [keys |-> {}, directories |-> {}, hardware |-> {}, personal |-> {}]]
MCBuilds == <<Older, Current>>

Run(before, after, filter, build) ==
  [before |-> before, after |-> after, filter |-> filter, build |-> build]
MCDiffRuns ==
  <<Run(1, 2, StandardFilter, Older), Run(1, 2, StandardFilter, Current),
    Run(2, 3, PermissiveFilter, Current)>>

Asked(footprint, residue, only, removed) ==
  [footprint |-> footprint, residue |-> residue, signer |-> None, only |-> only, removed |-> removed]
MCSuggestions ==
  {Asked(1, Some(2), {}, FALSE), Asked(1, None, {"VANGUARD"}, FALSE),
   Asked(1, None, {}, TRUE), Asked(0, None, {}, FALSE)}
================================================================================
