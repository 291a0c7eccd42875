-------------------------------- MODULE Devices --------------------------------
(***************************************************************************)
(* What the environment verification and the DevInfo and GNSS collectors   *)
(* read of the card and its GNSS module                                    *)
(* (pkg/collectors/devices: device_info.go, gps_ubx.go, gps_ubx_ver.go).   *)
(*                                                                         *)
(* The outputs of commands are taken as the lines and messages that the    *)
(* regular expressions tell apart.  A fetch asks all its commands in one   *)
(* shell and fails as a whole when one of them prints nothing              *)
(* (Fetching!ExtractAll): Nothing is the output of such a command.         *)
(***************************************************************************)
EXTENDS Integers, Sequences

Nothing == <<>>

\* The least index of s that satisfies P; 0 when there is none.
FirstIndex(s, P(_)) ==
  LET those == {i \in DOMAIN s : P(i)}
  IN  IF those = {} THEN 0 ELSE CHOOSE i \in those : \A j \in those : i <= j

Failed == [ok |-> FALSE]

-----------------------------------------------------------------------------
(* GetGPSNav: ubxtool prints messages, one behind the other, with a blank  *)
(* line after each.  The output is trimmed before it is parsed.            *)

IsLast(i, messages) == i = Len(messages)

\* The expression ends with the blank line, which trimming takes away from
\* the last message.
processUBXNavStatus(messages) ==
  LET Matches(i) == messages[i].type = "NAV-STATUS" /\ ~IsLast(i, messages)
      first == FirstIndex(messages, Matches)
  IN  IF first = 0 THEN Failed ELSE [ok |-> TRUE, fix |-> messages[first].fix]

processUBXNavClock(messages) ==
  LET Matches(i) == messages[i].type = "NAV-CLOCK"
      first == FirstIndex(messages, Matches)
  IN  IF first = 0 THEN Failed ELSE [ok |-> TRUE, acc |-> messages[first].acc]

\* As many blocks as the header announces, or as there are.  A header that
\* is the last line has no newline behind it and does not match.
processUBXMonRF(messages) ==
  LET Matches(i) == /\ messages[i].type = "MON-RF"
                    /\ messages[i].blocks # <<>> \/ ~IsLast(i, messages)
      first == FirstIndex(messages, Matches)
      Announced(rf) ==
        IF rf.nBlocks < Len(rf.blocks) THEN SubSeq(rf.blocks, 1, rf.nBlocks)
                                       ELSE rf.blocks
  IN  IF first = 0 THEN Failed
                   ELSE [ok |-> TRUE, blocks |-> Announced(messages[first])]

\* All three parts are tried; any error fails the fetch.
processUBX(messages) ==
  [ok |-> /\ processUBXNavStatus(messages).ok
          /\ processUBXNavClock(messages).ok
          /\ processUBXMonRF(messages).ok,
   status |-> processUBXNavStatus(messages),
   clock |-> processUBXNavClock(messages),
   rf |-> processUBXMonRF(messages)]

\* run: [ok, messages]; the command may fail or print nothing.
GetGPSNav(run) ==
  IF run.ok /\ run.messages # Nothing /\ processUBX(run.messages).ok
    THEN [ok |-> TRUE,
          fix |-> processUBX(run.messages).status.fix,
          acc |-> processUBX(run.messages).clock.acc,
          antennas |-> processUBX(run.messages).rf.blocks]
    ELSE Failed

\* One message for the time error, then one for each antenna block.
GPSAnalyserFormat(details) ==
  <<[id |-> "gnss/time-error", state |-> details.fix, terror |-> details.acc]>>
    \o [i \in DOMAIN details.antennas |->
          [id |-> "gnss/rf-mon", state |-> details.antennas[i]]]

-----------------------------------------------------------------------------
(* GetGPSVersions: run.monVer holds the extensions that ubxtool listed,    *)
(* run.told the tools among ubxtool and gpsd that told their version.      *)

Extensions == {"FWVER", "PROTVER", "MOD"}

processExtentions(monVer) ==
  IF Extensions \subseteq DOMAIN monVer
    THEN [ok |-> TRUE, firmware |-> monVer["FWVER"], protocol |-> monVer["PROTVER"],
          module |-> monVer["MOD"]]
    ELSE Failed

\* An extension or a version of a tool that cannot be parsed is an error.
processGPSVer(run) ==
  LET extensions == processExtentions(run.monVer)
  IN  IF extensions.ok /\ {"ubxtool", "gpsd"} \subseteq run.told
        THEN [ok |-> TRUE, firmware |-> extensions.firmware,
              protocol |-> extensions.protocol, module |-> extensions.module,
              gpsd |-> run.gpsd, devices |-> run.gnssDevices]
        ELSE Failed

\* grep prints nothing when there is no device, and then the fetch has no
\* result for its key: the list of devices is never empty.
GetGPSVersions(run) ==
  IF run.ok /\ run.gnssDevices # Nothing THEN processGPSVer(run) ELSE Failed

-----------------------------------------------------------------------------
(* BuildPTPDeviceInfo and GetPTPDeviceInfo.                                *)

\* getGNSSSCommand: the command for the GNSS device is left out when its
\* directory is empty or listing it fails, for as long as the fetcher lives.
HasGNSSCommand(listing) == listing.ok /\ listing.gnss # Nothing

\* extractEthtoolsInfo needs the version, the firmware-version and a line
\* behind them.
extractEthtoolsInfo(ethtool) ==
  IF ethtool.complete
    THEN [ok |-> TRUE, driver |-> ethtool.driver, firmware |-> ethtool.firmware]
    ELSE Failed

\* With the GNSS command among them all the commands have to print.
GetPTPDeviceInfo(withGNSS, run) ==
  LET tools == extractEthtoolsInfo(run.ethtool)
  IN  IF run.ok /\ (withGNSS => run.gnss # Nothing) /\ tools.ok
        THEN [ok |-> TRUE, vendor |-> run.vendor, device |-> run.device,
              driver |-> tools.driver, firmware |-> tools.firmware,
              gnss |-> IF withGNSS THEN run.gnss ELSE Nothing]
        ELSE Failed

\* "NOT FOUND" is announced for a card without a GNSS device.
AnnouncedGNSS(devInfo) == IF devInfo.gnss = Nothing THEN <<"NOT FOUND">> ELSE devInfo.gnss

=============================================================================
