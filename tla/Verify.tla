-------------------------------- MODULE Verify --------------------------------
(***************************************************************************)
(* The command env verify (pkg/verify/verify.go): it asks the card, the    *)
(* GNSS module and the cluster, judges the answers and ends with an exit   *)
(* code.  The status of the GNSS module is asked up to three times.        *)
(*                                                                         *)
(* The checks are kept with the error that their Verify returns; the code  *)
(* keeps the data and calls Verify at the end, on the same data.  An       *)
(* answer of the cluster is any member of the set that holds the answers   *)
(* of its kind; other answers may come the next time.                      *)
(***************************************************************************)
EXTENDS Devices, Validations

CONSTANTS
  GNSSListings,    \* what ls may say of the card's GNSS directory
  DeviceRuns,      \* what the commands for the card may print
  VersionRuns,     \* what the commands for the versions may print
  StatusRuns,      \* what ubxtool may print for the status
  PTPConfigs, CSVLists, ClusterVersions,  \* answers of the Kubernetes API
  Unwritten,       \* sets of names whose JSON the report may fail to write
  AntPowerRetries  \* antPowerRetries, 3 in the code

ASSUME RetriesAssumption == AntPowerRetries \in Nat \ {0}
ASSUME DriverVersionsAssumption ==
  \A run \in DeviceRuns : run.ethtool.driver.version \in Nat

VARIABLES
  phase,       \* what is asked next; "ended" once the process has ended
  useAnalyserJSON,
  devInfo,     \* the device info fetched, or Failed
  gpsDetails,  \* what the last GetGPSNav returned
  antCheck,    \* the error of the last antenna check; "unset" without one
  attempts,    \* the outcomes of the attempts for the status, oldest first
  checks,      \* checks[name]: the error of a check, for those gathered
  reported,    \* the names of the checks that the report prints
  exit         \* the exit code; "none" before the end

vars == <<phase, useAnalyserJSON, devInfo, gpsDetails, antCheck, attempts,
          checks, reported, exit>>

Init ==
  /\ phase = "devInfo" /\ useAnalyserJSON \in BOOLEAN
  /\ devInfo = Failed /\ gpsDetails = Failed /\ antCheck = "unset"
  /\ attempts = <<>> /\ checks = <<>> /\ reported = {} /\ exit = "none"

Goto(from, to) == phase = from /\ phase' = to

\* utils.IfErrorExitOrPanic, or a run-time panic.
Exit(from, code) ==
  /\ Goto(from, "ended") /\ exit' = code
  /\ UNCHANGED <<useAnalyserJSON, checks, reported>>

\* append(checks, ...): the names are new.
Joined(f, g) ==
  [name \in DOMAIN f \cup DOMAIN g |-> IF name \in DOMAIN g THEN g[name] ELSE f[name]]

Proceed(from, to, gathered) ==
  /\ Goto(from, to) /\ checks' = Joined(checks, gathered)
  /\ UNCHANGED <<useAnalyserJSON, reported, exit>>

-----------------------------------------------------------------------------
(* getDevInfoValidations and getGPSVersionValidations: one answer each.    *)

\* getValidations: no GetClientset, as for a kubeconfig that is not there.
NoClientset ==
  /\ Exit("devInfo", ExitCode("missingInput"))
  /\ UNCHANGED <<devInfo, gpsDetails, antCheck, attempts>>

\* GetPTPDaemonContext fails; it is called for each group of checks anew.
NoContext(from) ==
  /\ from \in {"devInfo", "gpsVersions", "gpsStatus"}
  /\ Exit(from, "panic")
  /\ from = "gpsStatus" => attempts = <<>>
  /\ UNCHANGED <<devInfo, gpsDetails, antCheck, attempts>>

DeviceChecks(info) ==
  [device |-> DeviceDetails(info.vendor, info.device),
   firmware |-> VersionCheck("firmware", info.firmware),
   driver |-> DeviceDriver(info.driver)]

\* NewDeviceDriver looks at the last character of the driver version.
getDevInfoValidations(listing, run) ==
  LET info == GetPTPDeviceInfo(HasGNSSCommand(listing), run)
  IN  /\ devInfo' = info
      /\ IF info.ok /\ ~info.driver.empty
           THEN Proceed("devInfo", "gpsVersions", DeviceChecks(info))
           ELSE Exit("devInfo", "panic")
      /\ UNCHANGED <<gpsDetails, antCheck, attempts>>

VersionValidations(versions) ==
  [gnss |-> VersionCheck("gnss", versions.firmware.version),
   gpsd |-> VersionCheck("gpsd", versions.gpsd),
   gnssDevices |-> GNSDevices(versions.devices),
   module |-> GNSSModule(versions.module),
   protocol |-> VersionCheck("protocol", versions.protocol)]

\* NewGNSS takes the second word of the firmware version.
getGPSVersionValidations(run) ==
  LET versions == GetGPSVersions(run)
  IN  /\ IF versions.ok /\ versions.firmware.words > 1
           THEN Proceed("gpsVersions", "gpsStatus", VersionValidations(versions))
           ELSE Exit("gpsVersions", "panic")
      /\ UNCHANGED <<devInfo, gpsDetails, antCheck, attempts>>

-----------------------------------------------------------------------------
(* getGPSStatusValidation *)

Tried == Len(attempts) = AntPowerRetries \/ (attempts # <<>> /\ attempts[Len(attempts)] = "on")

OutcomeOf(details) ==
  CASE ~details.ok -> "failed"
    [] details.ok /\ GNSSAntStatus(details.antennas) = "nil" -> "on"
    [] OTHER -> "off"

\* Faulty variant: the antenna check of the first answer is kept.
AttemptKeepsCheck(run) ==
  LET details == GetGPSNav(run)
  IN  /\ phase = "gpsStatus" /\ ~Tried
      /\ gpsDetails' = details
      /\ attempts' = Append(attempts, OutcomeOf(details))
      /\ antCheck' = IF details.ok /\ antCheck = "unset"
                       THEN GNSSAntStatus(details.antennas) ELSE antCheck
      /\ UNCHANGED <<phase, useAnalyserJSON, devInfo, checks, reported, exit>>

\* One round of the loop.  A failed fetch leaves the antenna check of an
\* earlier round in place.
Attempt(run) ==
  LET details == GetGPSNav(run)
  IN  /\ phase = "gpsStatus" /\ ~Tried
      /\ gpsDetails' = details
      /\ attempts' = Append(attempts, OutcomeOf(details))
      /\ antCheck' = IF details.ok THEN GNSSAntStatus(details.antennas) ELSE antCheck
      /\ UNCHANGED <<phase, useAnalyserJSON, devInfo, checks, reported, exit>>

StatusValidations ==
  [antenna |-> antCheck, receiving |-> GNSSNavStatus(gpsDetails.fix)]

\* Faulty variant: the loop is left when any answer has come.
StatusJudgedEarly ==
  /\ attempts # <<>>
  /\ IF gpsDetails.ok THEN Proceed("gpsStatus", "cluster", StatusValidations)
                      ELSE Exit("gpsStatus", "panic")
  /\ UNCHANGED <<devInfo, gpsDetails, antCheck, attempts>>

\* err is that of the last fetch, whatever the rounds before have brought.
StatusJudged ==
  /\ Tried
  /\ IF gpsDetails.ok THEN Proceed("gpsStatus", "cluster", StatusValidations)
                      ELSE Exit("gpsStatus", "panic")
  /\ UNCHANGED <<devInfo, gpsDetails, antCheck, attempts>>

-----------------------------------------------------------------------------
(* The cluster, and the report. *)

ClusterChecks(configs, csvs, versions) ==
  [grandMaster |-> GrandMaster(configs), operator |-> OperatorVersion(csvs),
   cluster |-> ClusterVersion(versions)]

\* Requests that fail become errors of the checks.
AskCluster(configs, csvs, versions) ==
  /\ Proceed("cluster", "report", ClusterChecks(configs, csvs, versions))
  /\ UNCHANGED <<devInfo, gpsDetails, antCheck, attempts>>

Told(result) == {name \in DOMAIN checks : ResultOf(checks[name]) = result}

Reports(names, code) ==
  /\ Goto("report", "ended") /\ reported' = names /\ exit' = code
  /\ UNCHANGED <<useAnalyserJSON, devInfo, gpsDetails, antCheck, attempts, checks>>

\* Faulty variant: what could not be told counts as failed in JSON.
JSONFailsOnUnknown(unwritten) ==
  /\ useAnalyserJSON
  /\ Reports(DOMAIN checks \ unwritten,
       IF Told("failure") \cup Told("unknown") = {} THEN "success" ELSE "InvalidEnv")

\* Every result is printed; one that callback.Call cannot write is logged and
\* the next is tried.  The process ends with InvalidEnv if any check failed.
reportAnalyserJSON(unwritten) ==
  /\ useAnalyserJSON
  /\ Reports(DOMAIN checks \ unwritten, IF Told("failure") = {} THEN "success"
                                         ELSE ExitCode("invalidEnv"))

\* What could not be told is logged; the failures make one InvalidEnvError.
reportText ==
  /\ ~useAnalyserJSON
  /\ Reports(Told("unknown") \cup Told("failure"),
             IF Told("failure") = {} THEN "success" ELSE ExitCode("invalidEnv"))

Next ==
  \/ NoClientset \/ \E from \in {"devInfo", "gpsVersions", "gpsStatus"} : NoContext(from)
  \/ \E listing \in GNSSListings, run \in DeviceRuns : getDevInfoValidations(listing, run)
  \/ \E run \in VersionRuns : getGPSVersionValidations(run)
  \/ (\E run \in StatusRuns : Attempt(run)) \/ StatusJudged
  \/ \E configs \in PTPConfigs, csvs \in CSVLists, versions \in ClusterVersions :
       AskCluster(configs, csvs, versions)
  \/ (\E unwritten \in Unwritten : reportAnalyserJSON(unwritten)) \/ reportText

Spec == Init /\ [][Next]_vars

-----------------------------------------------------------------------------
(* Properties *)

Phases == {"devInfo", "gpsVersions", "gpsStatus", "cluster", "report", "ended"}
Errors == {"nil", "invalidEnv", "other"}
DeviceNames == {"device", "firmware", "driver"}
VersionNames == {"gnss", "gpsd", "gnssDevices", "module", "protocol"}
StatusNames == {"antenna", "receiving"}
ClusterNames == {"grandMaster", "operator", "cluster"}
AllNames == DeviceNames \cup VersionNames \cup StatusNames \cup ClusterNames

TypeOK ==
  /\ phase \in Phases /\ useAnalyserJSON \in BOOLEAN
  /\ antCheck \in {"unset", "nil", "invalidEnv"}
  /\ attempts \in Seq({"failed", "on", "off"})
  /\ DOMAIN checks \subseteq AllNames /\ checks \in [DOMAIN checks -> Errors]
  /\ reported \subseteq AllNames
  /\ exit \in {"none", "success", "InvalidEnv", "MissingInput", "panic"}

(* The exit code tells the verdict, the same in both formats: InvalidEnv   *)
(* exactly when all checks were made and one failed, success when none     *)
(* failed, though some could not be told, and also when the JSON of the    *)
(* results could not be written; in text, what failed or could not be told *)
(* is named.  A run that could not ask everything gives neither code.      *)
VerdictTold ==
  phase = "ended" =>
    /\ exit = "InvalidEnv" <=> DOMAIN checks = AllNames /\ Told("failure") # {}
    /\ exit = "success" <=> DOMAIN checks = AllNames /\ Told("failure") = {}
    /\ exit \in {"InvalidEnv", "success"} /\ ~useAnalyserJSON =>
         Told("failure") \cup Told("unknown") \subseteq reported

(* The antenna check and the check of the fix judge one and the same       *)
(* answer, the last one, although a failed attempt leaves the antenna      *)
(* check of an earlier one behind.                                         *)
OneAnswerJudged ==
  "antenna" \in DOMAIN checks =>
    /\ gpsDetails.ok
    /\ checks["antenna"] = GNSSAntStatus(gpsDetails.antennas)
    /\ checks["receiving"] = GNSSNavStatus(gpsDetails.fix)

(* The antenna is reported as missing only after AntPowerRetries attempts, *)
(* none of which saw it, and the run is given up for want of an answer     *)
(* only after as many.                                                     *)
EveryAttemptMade ==
  /\ "antenna" \in DOMAIN checks /\ checks["antenna"] = "invalidEnv" =>
       Len(attempts) = AntPowerRetries /\ \A i \in DOMAIN attempts : attempts[i] # "on"
  /\ exit = "panic" /\ attempts # <<>> =>
       /\ Len(attempts) = AntPowerRetries
       /\ \A i \in DOMAIN attempts : attempts[i] # "on"

(* The DevInfo collector refuses a card (dev_info_collector.go:149) just   *)
(* when the verification of the same device info reports a failure of it.  *)
CollectorAgrees ==
  DeviceNames \subseteq DOMAIN checks =>
    (CollectorVerify(devInfo) = "invalidEnv" <=> Told("failure") \cap DeviceNames # {})

(* The age of a driver never makes an environment invalid: what is too old *)
(* for minDriverVersion is taken for an out of tree driver first, and that *)
(* is an unknown.                                                          *)
DriverNeverFails == "driver" \in DOMAIN checks => checks["driver"] # "invalidEnv"

-----------------------------------------------------------------------------
(* The inductive invariant behind these properties. *)

\* How far the verification has come, told by what is checked.
Gathered ==
  /\ phase # "ended" => exit = "none"
  /\ phase = "devInfo" => DOMAIN checks = {}
  /\ phase = "gpsVersions" => DOMAIN checks = DeviceNames
  /\ phase = "gpsStatus" => DOMAIN checks = DeviceNames \cup VersionNames
  /\ phase = "cluster" => DOMAIN checks = DeviceNames \cup VersionNames \cup StatusNames
  /\ phase = "report" => DOMAIN checks = AllNames
  /\ phase = "ended" =>
       /\ exit \in {"success", "InvalidEnv", "MissingInput", "panic"}
       /\ exit \in {"MissingInput", "panic"} <=> DOMAIN checks # AllNames

\* What the attempts so far say of the details and the antenna check.
Attempted ==
  /\ phase \in {"devInfo", "gpsVersions"} => attempts = <<>>
  /\ Len(attempts) <= AntPowerRetries
  /\ attempts # <<>> => attempts[Len(attempts)] = OutcomeOf(gpsDetails)
  /\ \A i \in 1..(Len(attempts) - 1) : attempts[i] # "on"
  /\ gpsDetails.ok => antCheck = GNSSAntStatus(gpsDetails.antennas)

\* The checks are those of the answers that are kept.
Judged ==
  /\ DeviceNames \cap DOMAIN checks # {} =>
       /\ \A name \in DeviceNames :
            name \in DOMAIN checks /\ checks[name] = DeviceChecks(devInfo)[name]
       /\ devInfo.driver.version \in Nat
  /\ "antenna" \in DOMAIN checks =>
       Tried /\ "receiving" \in DOMAIN checks /\ phase \in {"cluster", "report", "ended"}

IInv == TypeOK /\ Gathered /\ Attempted /\ Judged /\ VerdictTold
          /\ OneAnswerJudged /\ EveryAttemptMade

=============================================================================
