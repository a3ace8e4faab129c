-------------------------------- MODULE Tools --------------------------------
(***************************************************************************)
(* Programs on top of the SDK: each runs discover() and then works with    *)
(* what it found.                                                          *)
(*   collect  examples/collect_firmware_log.cpp: opens the first LiDAR and *)
(*            collects its firmware log; how often the log is started and  *)
(*            stopped is left open, the sample does each once;             *)
(*   info     livox-mid360-cli info: reads the identity of every LiDAR     *)
(*            found, or of the one with the serial number asked for;       *)
(*   user     a program that opens the first LiDAR and makes any call of   *)
(*            Settings.                                                    *)
(***************************************************************************)
EXTENDS FirmwareLog, Discovery, Settings

VARIABLES
  tool,    \* the program
  device,  \* a Device or Session is open; which LiDAR's does not matter
  todo,    \* the number of LiDARs info still has to read
  exit     \* the exit status

mainVars == <<tool, device, todo, exit>>
allVars == <<collectionVars, discoveryVars, settingsVars, mainVars>>

Serials == {l.serial : l \in Lidars}

NoLidar == [stored |-> <<>>, ran |-> <<>>]

ToolsInit ==
  /\ LogInit /\ DiscoveryInit /\ firmware = NoLidar /\ Connected
  /\ tool = "none" /\ device = FALSE /\ todo = 0 /\ exit = Absent

(* discover() returned: no LiDAR, or the one to work with; its socket and results are gone. *)
Discovered ==
  /\ at = "returned" /\ tool = "none"
  /\ options' = [targets |-> {}, bind_address |-> "any", device_type |-> "any"]
  /\ found' = <<>> /\ answered' = {} /\ polled' = {} /\ outcome' = "none"
  /\ unsent' = {} /\ expired' = FALSE /\ stop' = FALSE /\ arrived' = 0
  /\ UNCHANGED <<collectionVars, at, socks, ready, rx>>

OpenFirst ==
  /\ Discovered
  /\ \/ /\ outcome = "found" /\ found # <<>> /\ device' = TRUE /\ exit' = Absent
        /\ \/ tool' = "collect" /\ UNCHANGED settingsVars
           \/ tool' = "user" /\ (\E f \in Firmwares : NewSession(f))
     \/ tool' = "collect" /\ device' = FALSE /\ exit' = 2 /\ UNCHANGED settingsVars
  /\ UNCHANGED todo

Collect == tool = "collect" /\ device /\ LogNext
           /\ UNCHANGED <<discoveryVars, settingsVars, mainVars>>

Use == tool = "user" /\ device /\ SettingsNext
       /\ UNCHANGED <<collectionVars, discoveryVars, mainVars>>

(* run_info(): sn is the serial number asked for, or Absent. *)
InfoStart ==
  /\ Discovered /\ tool' = "info"
  /\ \/ /\ outcome = "found" /\ found # <<>>
        /\ \E sn \in Serials \cup {Absent} :
             todo' = Cardinality({i \in DOMAIN found : sn \in {Absent, found[i].serial}})
     \/ (outcome # "found" \/ found = <<>>) /\ todo' = 0
  /\ exit' = 2 /\ UNCHANGED <<device, settingsVars>>

(* Session::connect(), then the inquire of kIdentityKeys. *)
InfoConnect ==
  /\ tool = "info" /\ todo > 0 /\ ~device
  /\ \/ (\E f \in Firmwares : NewSession(f)) /\ device' = TRUE /\ UNCHANGED todo
     \/ todo' = todo - 1 /\ UNCHANGED <<device, settingsVars>>
  /\ UNCHANGED <<collectionVars, discoveryVars, tool, exit>>

InfoInquire ==
  /\ tool = "info" /\ device
  /\ \/ returned = Nothing /\ Start([op |-> "identity"])
     \/ Serve \/ Damage \/ OnAnswer \/ Timeout
  /\ UNCHANGED <<collectionVars, discoveryVars, mainVars>>

(* The identity or the error is printed, the Session destroyed. *)
InfoPrint ==
  /\ tool = "info" /\ device /\ returned # Nothing
  /\ exit' = IF failed(returned.is) THEN exit ELSE 0
  /\ todo' = todo - 1 /\ device' = FALSE /\ NewSession(NoLidar)
  /\ UNCHANGED <<collectionVars, discoveryVars, tool>>

ToolsNext ==
  \/ DiscoveryNext /\ UNCHANGED <<collectionVars, settingsVars, mainVars>>
  \/ OpenFirst \/ Collect \/ Use
  \/ InfoStart \/ InfoConnect \/ InfoInquire \/ InfoPrint

ToolsSpec == ToolsInit /\ [][ToolsNext]_allVars /\ DiscoveryFairness
===============================================================================
