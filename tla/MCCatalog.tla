-------------------------------- MODULE MCCatalog --------------------------------
(***************************************************************************)
(* One catalog that is sound and has every kind of entry, and what is one  *)
(* mistake away from it.                                                   *)
(***************************************************************************)
EXTENDS CatalogRelease

CONSTANTS Alice, Bob, Key1, Key2, Secret1, Secret2

MCCandidates ==
  [name \in {"%PROGRAMFILES%", "%SYSTEMROOT%", "%STEAM_LIBRARY%"} |->
     CASE name = "%PROGRAMFILES%"  -> {<<"C:", "PROGRAM FILES">>}
       [] name = "%SYSTEMROOT%"    -> {<<"C:", "WINDOWS">>}
       [] name = "%STEAM_LIBRARY%" -> {<<"C:", "PROGRAM FILES (X86)", "STEAM">>,
                                       <<"D:", "STEAMLIBRARY">>}]

MCTrailing == [word \in {"RIOT ."} |-> "RIOT"]

Path(words, class) == [path |-> words, class |-> class]
Key(words) == [key |-> words, class |-> "config"]
Driver(name) == Path(<<"%SYSTEMROOT%", "SYSTEM32", "DRIVERS", name>>, "driver")
ServiceKey(name) ==
  Key(<<"HKLM", "SYSTEM", "CURRENTCONTROLSET", "SERVICES", name>>)

Evidence(titles) == <<[titles_observed |-> titles, observation_ids |-> {"OBS-1"}]>>

Vanguard ==
  [id |-> "vanguard", display |-> "Vanguard", kind |-> "kernel", risk |-> "critical",
   shared |-> FALSE, shared_evidence |-> Evidence({"VALORANT", "LOL"}),
   drivers |-> {<<"VGK.SYS">>}, services |-> {"VGK"}, file_hashes |-> {"HASH"},
   paths |-> {Driver("VGK.SYS"), Path(<<"%PROGRAMFILES%", "RIOT", "VANGUARD">>, "install")},
   registry |-> {ServiceKey("VGK"), Key(<<"HKLM", "SOFTWARE", "RIOT">>)},
   official_uninstall |-> <<[kind |-> "exe", command |-> <<"UNINSTALL.EXE">>]>>]

Eac ==
  [id |-> "eac", display |-> "EAC", kind |-> "hybrid", risk |-> "high",
   shared |-> TRUE, shared_evidence |-> <<>>,
   drivers |-> {<<"EAC.SYS">>}, services |-> {"EAC"}, file_hashes |-> {},
   paths |-> {Driver("EAC.SYS")}, registry |-> {ServiceKey("EAC")},
   official_uninstall |-> <<[kind |-> "msi", command |-> <<"{CODE}">>]>>]

Valorant ==
  [id |-> "valorant", anticheat |-> {"vanguard"}, platforms |-> {"riot"},
   install_hints |-> {Path(<<"%STEAM_LIBRARY%", "STEAMAPPS", "COMMON", "VALORANT">>, "install")},
   residue |-> {}, saves |-> {Path(<<"D:", "SAVES", "VALORANT">>, "save")},
   registry |-> {Key(<<"HKCU", "SOFTWARE", "VALORANT">>)}]

Riot ==
  [id |-> "riot", uninstall |-> <<[kind |-> "steam-uri", command |-> <<>>]>>,
   detect_registry |-> <<<<"HKLM", "SOFTWARE", "RIOT">>>>]

SoundCatalog ==
  [schema_version |-> 1, catalog_version |-> "1", minimum_app_version |-> "1",
   anticheat |-> <<Vanguard, Eac>>, game |-> <<Valorant>>, launcher |-> <<Riot>>]

WithEac(eac) == [SoundCatalog EXCEPT !.anticheat = <<Vanguard, eac>>]
WithGame(game) == [SoundCatalog EXCEPT !.game = <<game>>]

MCCatalogOf ==
  [name \in {"sound", "empty", "borrowed driver", "game names a service", "unclaimed",
             "no evidence", "inbox driver"} |->
     CASE name = "sound" -> SoundCatalog
       [] name = "empty" -> [SoundCatalog EXCEPT !.anticheat = <<>>, !.game = <<>>]
       [] name = "borrowed driver" -> WithEac([Eac EXCEPT !.paths = {Driver("VGK.SYS")}])
       [] name = "game names a service" ->
            WithGame([Valorant EXCEPT !.registry = {ServiceKey("VGK")}])
       [] name = "unclaimed" -> WithGame([Valorant EXCEPT !.anticheat = {"faceit"}])
       [] name = "no evidence" -> WithEac([Eac EXCEPT !.shared = FALSE])
       [] name = "inbox driver" -> WithEac([Eac EXCEPT !.drivers = {<<"NTFS.SYS">>}])]

MCBodies == DOMAIN MCCatalogOf \cup {"not TOML"}

Symmetry ==
  UNION {Permutations({Alice, Bob}), Permutations({Key1, Key2}), Permutations({Secret1, Secret2})}
==================================================================================
