-------------------------------- MODULE Netlink --------------------------------
(***************************************************************************)
(* What the DPLL collectors read of a card                                 *)
(* (pkg/collectors/devices/dpll_netlink.go and dpll_fs.go, and the choice  *)
(* between them in pkg/collectors/dpll_collector.go).                      *)
(*                                                                         *)
(* The netlink interface lists state entries [clock, type, status] and     *)
(* pins [clock, label, id, parents], a parent being                        *)
(* [direction, state, id, offset].  All cards of a node are in the lists;  *)
(* a card is known by its clock id.  A list of pins comes as [ok, pins]:   *)
(* it may not parse, which is an error when the collector starts; at a     *)
(* poll a list that does not parse is an empty one.                        *)
(***************************************************************************)
EXTENDS Integers, SequencesExt

\* The numbers the analysers expect for the states of a DPLL.
states == [unknown |-> "-1", invalid |-> "0", freerun |-> "1", locked |-> "2",
           lockedHoAcq |-> "3", holdover |-> "4"]

-----------------------------------------------------------------------------
(* selectPin and GetNetlinkParameters, once when the collector starts.     *)

\* Faulty variant: the pins of every card are looked at.
LabelledOnAnyCard(pins, clock, label) == {i \in DOMAIN pins : pins[i].label = label}

Labelled(pins, clock, label) ==
  {i \in DOMAIN pins : pins[i].clock = clock /\ pins[i].label = label}

Connected(pin) == \A i \in DOMAIN pin.parents : pin.parents[i].state = "connected"

IsInput(pin) == \A i \in DOMAIN pin.parents : pin.parents[i].direction = "input"

Selected(outcome, id, label) == [outcome |-> outcome, id |-> id, label |-> label]

\* Of several pins with a label the last one counts.  A card that lacks one of
\* the two labels makes the program panic, also when the pin that would be
\* chosen is there.
selectPin(pinsJSON, clock) ==
  LET pins == pinsJSON.pins
      onePPS == Labelled(pins, clock, "GNSS-1PPS")
      sma1 == Labelled(pins, clock, "SMA1")
      OnePPSPin == pins[Max(onePPS)]
      SMA1Pin == pins[Max(sma1)]
  IN  CASE ~pinsJSON.ok -> Selected("error", 0, "")
        [] pinsJSON.ok /\ (onePPS = {} \/ sma1 = {}) -> Selected("panic", 0, "")
        [] OTHER ->
             IF Connected(OnePPSPin) THEN Selected("ok", OnePPSPin.id, "GNSS-1PPS")
             ELSE IF Connected(SMA1Pin) /\ IsInput(SMA1Pin)
                    THEN Selected("ok", SMA1Pin.id, "SMA1")
                    ELSE Selected("error", 0, "")

\* The clock id is found by the bus of the interface; it may not be a number.
GetNetlinkParameters(clockID, pinsJSON) ==
  LET pin == selectPin(pinsJSON, clockID.value)
  IN  IF clockID.ok
        THEN [outcome |-> pin.outcome, clock |-> clockID.value, pin |-> pin.id,
              pinType |-> pin.label]
        ELSE [outcome |-> "error", clock |-> 0, pin |-> 0, pinType |-> ""]

-----------------------------------------------------------------------------
(* GetDevDPLLNetlinkInfo, at every poll, with the fetcher that Start has   *)
(* built for the card (BuildDPLLNetlinkDeviceFetcher).                     *)

StateNumber(status) == IF status \in DOMAIN states THEN states[status] ELSE "-1"

\* Faulty variant: the entries of every card are looked at.
StateOfAnyCard(entries, clock, type) ==
  LET its == {i \in DOMAIN entries : entries[i].type = type}
  IN  IF its = {} THEN "" ELSE StateNumber(entries[Max(its)].status)

\* The last entry of the card with the type counts.
StateOf(entries, clock, type) ==
  LET its == {i \in DOMAIN entries : entries[i].clock = clock /\ entries[i].type = type}
  IN  IF its = {} THEN "" ELSE StateNumber(entries[Max(its)].status)

\* Parent devices come in pairs: EEC has the even id, PPS the odd one.
OffsetOf(parents, parity) ==
  LET its == SelectSeq(parents, LAMBDA p : p.id % 2 = parity)
  IN  IF its = <<>> THEN 0 ELSE Last(its).offset

\* The EEC offset is stored under a key that no field has: it stays zero.
DPLLNetlinkInfo(entries, parents, params) ==
  [pinType |-> params.pinType,
   eec |-> StateOf(entries, params.clock, "eec"),
   pps |-> StateOf(entries, params.clock, "pps"),
   ppsOffset |-> OffsetOf(parents, 1),
   eecOffset |-> 0]

\* In thousandths: Go's integer division rounds towards zero.
convertNetlinkOffset(offset) ==
  IF offset >= 0 THEN offset \div 1000 ELSE -((-offset) \div 1000)

SubType(label) ==
  CASE label = "GNSS-1PPS" -> "dpll" [] label = "SMA1" -> "dpll-sma1"
    [] OTHER -> "unknown"

NetlinkAnalyserFormat(info) ==
  [id |-> SubType(info.pinType), eecstate |-> info.eec, state |-> info.pps,
   terror |-> convertNetlinkOffset(info.ppsOffset),
   eecterror |-> convertNetlinkOffset(info.eecOffset)]

-----------------------------------------------------------------------------
(* The file system interface, and which of the two is used.                *)

DPLLFiles == {"dpll_0_state", "dpll_1_state", "dpll_1_offset"}

IsDPLLFileSystemPresent(listing) ==
  listing.ok /\ DPLLFiles \subseteq ToSet(listing.names)

\* A listing that fails is one more reason to try netlink.
NewDPLLCollector(listing) ==
  IF IsDPLLFileSystemPresent(listing) THEN "filesystem" ELSE "netlink"

\* cat of a missing file prints nothing, which fails the fetch.  The states are
\* handed on as they are; the offset has to be a number.
DPLLFilesystemInfo(files) ==
  IF DPLLFiles \subseteq DOMAIN files /\ files["dpll_1_offset"].number
    THEN [ok |-> TRUE, eec |-> files["dpll_0_state"].value,
          pps |-> files["dpll_1_state"].value, offset |-> files["dpll_1_offset"].value]
    ELSE [ok |-> FALSE]

=============================================================================
