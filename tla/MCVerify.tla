------------------------------- MODULE MCVerify -------------------------------
(***************************************************************************)
(* An instance of Verify for TLC.  Versions are 1 (too old), 2 and 3; 3 is *)
(* a driver of the kernel tree.  One answer of each kind is good, and each *)
(* of the others is bad in one way.                                        *)
(***************************************************************************)
EXTENDS Verify

MCMinVersion == [check \in VersionChecks |-> 2]
MCMinInTreeDriver == 3

MCGNSSListings == {[ok |-> TRUE, gnss |-> <<"gnss0">>], [ok |-> FALSE, gnss |-> Nothing]}

Driver(version) == [empty |-> FALSE, version |-> version, fourSegments |-> FALSE]

GoodDevice ==
  [ok |-> TRUE, gnss |-> <<"gnss0">>, vendor |-> "intel", device |-> "westportChannel",
   ethtool |-> [complete |-> TRUE, driver |-> Driver(3), firmware |-> 2]]

WithDriver(driver) == [GoodDevice EXCEPT !.ethtool.driver = driver]

MCDeviceRuns ==
  {GoodDevice, [GoodDevice EXCEPT !.ok = FALSE], [GoodDevice EXCEPT !.gnss = Nothing],
   [GoodDevice EXCEPT !.device = "other"], [GoodDevice EXCEPT !.ethtool.firmware = 1],
   [GoodDevice EXCEPT !.ethtool.firmware = NoVersion],
   [GoodDevice EXCEPT !.ethtool.complete = FALSE],
   WithDriver([empty |-> TRUE, version |-> NoVersion, fourSegments |-> FALSE]),
   WithDriver([empty |-> FALSE, version |-> NoVersion, fourSegments |-> TRUE])}
  \cup {WithDriver(Driver(version)) : version \in 0..2}

GoodVersions ==
  [ok |-> TRUE, told |-> {"ubxtool", "gpsd"}, gpsd |-> 2, gnssDevices |-> <<"gnss0">>,
   monVer |-> [FWVER |-> [words |-> 2, version |-> 2], PROTVER |-> 2, MOD |-> "ZED-F9T"]]

MCVersionRuns ==
  {GoodVersions, [GoodVersions EXCEPT !.gnssDevices = Nothing],
   [GoodVersions EXCEPT !.told = {"gpsd"}], [GoodVersions EXCEPT !.told = {"ubxtool"}],
   [GoodVersions EXCEPT !.monVer = [FWVER |-> [words |-> 2, version |-> 2]]],
   [GoodVersions EXCEPT !.monVer.FWVER.words = 1],
   [GoodVersions EXCEPT !.monVer.PROTVER = 1], [GoodVersions EXCEPT !.gpsd = NoVersion]}

NavStatus(fix) == [type |-> "NAV-STATUS", fix |-> fix]
NavClock == [type |-> "NAV-CLOCK", acc |-> 5]
MonRF(nBlocks, blocks) == [type |-> "MON-RF", nBlocks |-> nBlocks, blocks |-> blocks]

\* The second is cut off behind the first message, the third ends with the
\* status, and in the fourth the connected antenna is beyond nBlocks.
MCStatusRuns ==
  {[ok |-> TRUE, messages |-> messages] : messages \in
    {<<NavStatus(3), NavClock, MonRF(2, <<1, 2>>)>>,
     <<NavStatus(3)>>,
     <<MonRF(1, <<2>>), NavClock, NavStatus(3)>>,
     <<NavStatus(0), NavClock, MonRF(1, <<1, 2>>)>>,
     <<NavStatus(3), NavClock, MonRF(0, <<>>)>>}}

MCPTPConfigs == {[ok |-> TRUE, masters |-> <<FALSE, TRUE>>],
                 [ok |-> TRUE, masters |-> <<FALSE>>], [ok |-> FALSE, masters |-> <<>>]}

CSV(name, version) == [name |-> name, version |-> version]
MCCSVLists == {[ok |-> TRUE, csvs |-> <<CSV("other", 1), CSV("PTP Operator", 2)>>],
               [ok |-> TRUE, csvs |-> <<CSV("other", 2)>>]}

\* No result can be written, or all but one, or all.
MCUnwritten == {{}, {"receiving"}, AllNames}

MCClusterVersions == {[ok |-> TRUE, versions |-> <<2, 1>>], [ok |-> TRUE, versions |-> <<1>>]}

=============================================================================
