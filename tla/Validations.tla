------------------------------ MODULE Validations ------------------------------
(***************************************************************************)
(* The checks of an environment (pkg/validations) and what becomes of      *)
(* their errors (pkg/verify/result.go, pkg/utils/errors.go).               *)
(*                                                                         *)
(* A version is reduced to its place in the order of semantic versions;    *)
(* NoVersion stands for text that is none.  An error is "nil",             *)
(* "invalidEnv" (an InvalidEnvError), "missingInput" or "other".           *)
(***************************************************************************)
EXTENDS Naturals, Sequences

CONSTANTS
  MinVersion,      \* MinVersion[check]: the least version a check accepts
  MinInTreeDriver  \* minInTreeDriverVersion

VersionChecks == {"cluster", "operator", "gpsd", "driver", "firmware", "gnss",
                  "protocol"}

\* Drivers of the kernel tree carry the version of the kernel, 5.14 or later;
\* the others 1.11 or later.
ASSUME VersionsAssumption ==
  /\ MinVersion \in [VersionChecks -> Nat \ {0}]
  /\ MinInTreeDriver \in Nat
  /\ MinVersion["driver"] <= MinInTreeDriver

NoVersion == 0

-----------------------------------------------------------------------------
(* Verify of each check.                                                   *)

Invalid(bad) == IF bad THEN "invalidEnv" ELSE "nil"

VersionCheck(check, version) ==
  IF version = NoVersion THEN "other" ELSE Invalid(version < MinVersion[check])

\* VersionWithErrorCheck: the error met on the way to the version comes first.
VersionWithErrorCheck(check, failed, version) ==
  IF failed THEN "other" ELSE VersionCheck(check, version)

\* Faulty variant: only a version that does not parse is taken for one of an
\* out of tree driver, so that the others are compared.
OutOfTreeDriverUnparsed(driver) ==
  driver.version = NoVersion /\ driver.fourSegments

\* NewDeviceDriver: a driver below the kernel's version is taken for an out of
\* tree one; such drivers may also have one segment too many for a version.
OutOfTreeDriver(driver) ==
  IF driver.version = NoVersion THEN driver.fourSegments
                                ELSE driver.version < MinInTreeDriver

DeviceDriver(driver) ==
  VersionWithErrorCheck("driver", OutOfTreeDriver(driver), driver.version)

DeviceDetails(vendor, device) ==
  Invalid(vendor # "intel" \/ device \notin {"westportChannel", "loganBeach"})

GNSDevices(paths) == Invalid(paths = <<>>)
GNSSModule(module) == Invalid(module # "ZED-F9T")

\* Antenna status 2 is connected; one block is enough.
GNSSAntStatus(blocks) == Invalid(\A i \in DOMAIN blocks : blocks[i] # 2)
GNSSNavStatus(fix) == Invalid(fix <= 0)

\* getOperatorVersion: the first CSV with the name of the operator.
OperatorVersion(answer) ==
  LET its == SelectSeq(answer.csvs, LAMBDA csv : csv.name = "PTP Operator")
  IN  VersionWithErrorCheck("operator", ~answer.ok \/ its = <<>>,
                            IF its = <<>> THEN NoVersion ELSE its[1].version)

\* getClusterVersion: the first item of the list.
ClusterVersion(answer) ==
  VersionWithErrorCheck("cluster", ~answer.ok \/ answer.versions = <<>>,
    IF answer.versions = <<>> THEN NoVersion ELSE answer.versions[1])

\* One profile with "ts2phc.master 1" is enough.
GrandMaster(answer) ==
  IF answer.ok THEN Invalid(\A i \in DOMAIN answer.masters : ~answer.masters[i])
               ELSE "other"

-----------------------------------------------------------------------------
(* From errors to results and exit codes.                                  *)

\* NewValidationResult: "could not tell" is not a failure.
ResultOf(err) ==
  CASE err = "nil" -> "success"
    [] err = "invalidEnv" -> "failure"
    [] OTHER -> "unknown"

\* checkError; an error of another type ends the program in a panic.
ExitCode(err) ==
  CASE err = "nil" -> "success"
    [] err = "invalidEnv" -> "InvalidEnv"
    [] err = "missingInput" -> "MissingInput"
    [] OTHER -> "panic"

\* Faulty variant: whatever could not be told is an error too.
CollectorVerifyStrict(devInfo) ==
  LET errs == {DeviceDetails(devInfo.vendor, devInfo.device),
               DeviceDriver(devInfo.driver),
               VersionCheck("firmware", devInfo.firmware)}
  IN  IF errs = {"nil"} THEN "nil" ELSE "invalidEnv"

\* verify of the DevInfo collector: only invalid environments are errors.
CollectorVerify(devInfo) ==
  LET errs == {DeviceDetails(devInfo.vendor, devInfo.device),
               DeviceDriver(devInfo.driver),
               VersionCheck("firmware", devInfo.firmware)}
  IN  IF "invalidEnv" \in errs THEN "invalidEnv" ELSE "nil"

=============================================================================
