---------------------------- MODULE FunctionsProofs ----------------------------
(***************************************************************************)
(* Proofs about the sequential parts of the program.  Fetching, Netlink:   *)
(* the outputs of commands that share a shell are kept apart, and the pin  *)
(* that is followed is one of the card.  Selection: every collector that   *)
(* was asked for runs, once.  Dedup: two slices that overlap become one, by*)
(* what DedupProofs shows.  Verify, for all answers of the devices and the *)
(* cluster, any least versions and any number of attempts: the verdict,    *)
(* the one answer that is judged, and the agreement with the DevInfo       *)
(* collector.                                                              *)
(***************************************************************************)
EXTENDS MCFunctions, DedupProofs

-----------------------------------------------------------------------------
(* The pin. *)

\* What selectPin may say of a card.
UsablePin(pins, clock, id, label) ==
  \E i \in DOMAIN pins :
    /\ pins[i].id = id /\ pins[i].clock = clock /\ pins[i].label = label
    /\ Connected(pins[i])
    /\ label = "SMA1" =>
         /\ IsInput(pins[i])
         /\ \E j \in Labelled(pins, clock, "GNSS-1PPS") : ~Connected(pins[j])

(* Of a list of pins of any length and any cards: if selectPin names a pin *)
(* the list has parsed and the pin is a usable one of the card asked about.*)
THEOREM PinOfTheCard ==
  ASSUME NEW ok, NEW pins, NEW n \in Nat, DOMAIN pins = 1..n, NEW clock, NEW chosen,
         chosen = selectPin([ok |-> ok, pins |-> pins], clock), chosen.outcome = "ok"
  PROVE  ok /\ UsablePin(pins, clock, chosen.id, chosen.label)
<1> DEFINE onePPS == Labelled(pins, clock, "GNSS-1PPS")
           sma1 == Labelled(pins, clock, "SMA1")
<1>1. ok /\ onePPS # {} /\ sma1 # {}
  BY DEF selectPin, Selected
<1>2. onePPS \in SUBSET (1..n) /\ sma1 \in SUBSET (1..n)
  BY DEF Labelled
<1>3. Max(onePPS) \in onePPS /\ Max(sma1) \in sma1
  <2> HIDE DEF onePPS, sma1
  <2> QED BY <1>1, <1>2, MaxOf
<1>3a. /\ \A i \in onePPS : i \in DOMAIN pins /\ pins[i].clock = clock
                             /\ pins[i].label = "GNSS-1PPS"
       /\ \A i \in sma1 : i \in DOMAIN pins /\ pins[i].clock = clock
                           /\ pins[i].label = "SMA1"
  BY DEF Labelled
<1>4. CASE Connected(pins[Max(onePPS)])
  <2>1. chosen = Selected("ok", pins[Max(onePPS)].id, "GNSS-1PPS")
    BY <1>1, <1>4 DEF selectPin
  <2>2. /\ chosen.id = pins[Max(onePPS)].id
        /\ chosen.label = "GNSS-1PPS"
    BY <2>1 DEF Selected
  <2> QED BY <2>2, <1>1, <1>3, <1>4, <1>3a DEF UsablePin
<1>5. CASE ~Connected(pins[Max(onePPS)])
  <2>1. Connected(pins[Max(sma1)]) /\ IsInput(pins[Max(sma1)])
    BY <1>1, <1>5 DEF selectPin, Selected
  <2>2. chosen = Selected("ok", pins[Max(sma1)].id, "SMA1")
    BY <1>1, <1>5, <2>1 DEF selectPin
  <2>3. /\ chosen.id = pins[Max(sma1)].id
        /\ chosen.label = "SMA1"
    BY <2>2 DEF Selected
  <2> QED BY <2>1, <2>3, <1>1, <1>3, <1>3a, <1>5 DEF UsablePin
<1> QED BY <1>4, <1>5

-----------------------------------------------------------------------------
(* A call of CallsSpec and its result. *)

Computed ==
  /\ call.function = "DedupAB" => result = DedupAB(call.a, call.b)
  /\ call.function = "GetCollectorsToRun" =>
       result = [names |-> GetCollectorsToRun(call.selected),
                 missing |-> MissingLogsFile(call.selected, call.file)]
  /\ call.function = "Fetch" =>
       result = Fetch(Cmds(call.trim),
                      [ok |-> call.delivered, stdout |-> RunAll(Cmds(call.trim), call.printed)],
                      call.post, Fields, Pack)
  /\ call.function = "DPLLNetlinkStart" =>
       result = GetNetlinkParameters(call.clockID,
                                     [ok |-> call.parses, pins |-> WithIds(call.pins)])
  /\ call.function = "DPLLNetlinkPoll" =>
       result = NetlinkAnalyserFormat(
                  DPLLNetlinkInfo(call.entries, call.parents, Params(call.pin)))
  /\ call.function = "NewDPLLCollector" =>
       result = [interface |-> NewDPLLCollector([ok |-> call.listed,
                                                 names |-> SetToSeq(call.names)]),
                 info |-> DPLLFilesystemInfo([name \in call.names |->
                            [number |-> call.number, value |-> name]])]

Called ==
  \/ call = NoCall \/ call \in DedupCalls \/ call \in FetchCalls
  \/ call \in StartCalls \/ call \in PollCalls \/ call \in FileCalls
  \/ call \in SelectCalls

CallInv == Called /\ (result # <<>> => Computed)

\* A call is of the one kind that its function tells.
LEMMA CallKinds ==
  ASSUME Called
  PROVE  /\ call.function = "DedupAB" => call \in DedupCalls
         /\ call.function = "GetCollectorsToRun" => call \in SelectCalls
         /\ call.function = "Fetch" => call \in FetchCalls
         /\ call.function = "DPLLNetlinkStart" => call \in StartCalls
         /\ call.function = "DPLLNetlinkPoll" => call \in PollCalls
         /\ call.function = "NewDPLLCollector" => call \in FileCalls
BY DEF Called, NoCall, DedupCalls, FetchCalls, StartCalls, PollCalls, FileCalls, SelectCalls

LEMMA CallComputes == Call => Computed'
<1> SUFFICES ASSUME Call PROVE Computed'
  OBVIOUS
<1>1. call' = call
  BY DEF Call
<1>2. CASE CallFetch
  BY <1>1, <1>2 DEF CallFetch, Computed
<1>3. CASE CallDPLLNetlinkStart
  BY <1>1, <1>3 DEF CallDPLLNetlinkStart, Computed
<1>4. CASE CallDPLLNetlinkPoll
  BY <1>1, <1>4 DEF CallDPLLNetlinkPoll, Computed
<1>5. CASE CallNewDPLLCollector
  BY <1>1, <1>5 DEF CallNewDPLLCollector, Computed
<1>6. CASE CallDedupAB \/ CallGetCollectorsToRun
  BY <1>1, <1>6 DEF CallDedupAB, CallGetCollectorsToRun, Computed
<1> QED BY <1>2, <1>3, <1>4, <1>5, <1>6 DEF Call

LEMMA CallsKeep == CallsSpec => []CallInv
<1>1. CallsInit => CallInv
  BY DEF CallsInit, CallInv, Called
<1>2. CallInv /\ [CallsNext]_<<vars, callVars>> => CallInv'
  <2> SUFFICES ASSUME CallInv, [CallsNext]_<<vars, callVars>> PROVE CallInv'
    OBVIOUS
  <2>1. CASE Call
    <3>1. call' = call
      BY <2>1 DEF Call
    <3> QED BY <2>1, <3>1, CallComputes DEF CallInv, Called
  <2>2. CASE UNCHANGED callVars
    <3>1. call' = call /\ result' = result
      BY <2>2 DEF callVars
    <3> QED BY <3>1 DEF CallInv, Called, Computed
  <2> QED BY <2>1, <2>2 DEF CallsNext
<1> QED BY <1>1, <1>2, PTL DEF CallsSpec

LEMMA StartFindsUsablePin == CallInv => PinUsable
<1> SUFFICES ASSUME CallInv, call.function = "DPLLNetlinkStart", result # <<>>,
                    result.outcome = "ok"
             PROVE  /\ call.parses
                    /\ ChosenPin.clock = call.clockID.value
                    /\ ChosenPin.label = result.pinType
                    /\ Connected(ChosenPin)
                    /\ ChosenPin.label = "SMA1" =>
                         /\ IsInput(ChosenPin)
                         /\ \E i \in DOMAIN call.pins :
                              /\ call.pins[i].clock = call.clockID.value
                              /\ call.pins[i].label = "GNSS-1PPS"
                              /\ ~Connected(call.pins[i])
  BY DEF PinUsable, Connected, IsInput
<1> DEFINE pins == WithIds(call.pins)
           clock == call.clockID.value
           pinsJSON == [ok |-> call.parses, pins |-> pins]
           chosen == selectPin(pinsJSON, clock)
<1>1. call \in StartCalls /\ result = GetNetlinkParameters(call.clockID, pinsJSON)
  BY CallKinds DEF CallInv, Computed
<1>2. chosen.outcome = "ok" /\ result.pin = chosen.id /\ result.pinType = chosen.label
  BY <1>1 DEF GetNetlinkParameters
<1>3. PICK n \in 0..3 : call.pins \in [1..n -> Pins]
  BY <1>1 DEF StartCalls, PinLists
<1>4. /\ DOMAIN pins = 1..n /\ DOMAIN call.pins = 1..n
      /\ \A i \in 1..n : /\ pins[i].id = i /\ pins[i].clock = call.pins[i].clock
                         /\ pins[i].label = call.pins[i].label
                         /\ pins[i].parents = call.pins[i].parents
  BY <1>3 DEF WithIds
<1>5. call.parses /\ UsablePin(pins, clock, chosen.id, chosen.label)
  <2>1. chosen = selectPin([ok |-> call.parses, pins |-> pins], clock)
    OBVIOUS
  <2> HIDE DEF pins, clock, chosen
  <2> QED BY <1>2, <1>3, <1>4, <2>1, PinOfTheCard
<1>6. PICK i \in 1..n :
        /\ pins[i].id = chosen.id /\ pins[i].clock = clock /\ pins[i].label = chosen.label
        /\ Connected(pins[i])
        /\ chosen.label = "SMA1" =>
             /\ IsInput(pins[i])
             /\ \E j \in Labelled(pins, clock, "GNSS-1PPS") : ~Connected(pins[j])
  <2> HIDE DEF pins, clock, chosen
  <2> QED BY <1>4, <1>5 DEF UsablePin
<1>7. ChosenPin = pins[i]
  BY <1>2, <1>4, <1>6 DEF ChosenPin
<1>8. \A j \in Labelled(pins, clock, "GNSS-1PPS") : ~Connected(pins[j]) =>
        /\ j \in DOMAIN call.pins /\ call.pins[j].clock = clock
        /\ call.pins[j].label = "GNSS-1PPS" /\ ~Connected(call.pins[j])
  <2> HIDE DEF pins, clock
  <2> QED BY <1>4 DEF Labelled, Connected
<1> HIDE DEF pins, chosen
<1> QED BY <1>2, <1>5, <1>6, <1>7, <1>8

(* GetNetlinkParameters: the start never follows a pin of another card, or *)
(* one that is not connected, and SMA1 only in place of the GNSS pin.      *)
THEOREM StartUsesOwnPin == CallsSpec => []PinUsable
BY CallsKeep, StartFindsUsablePin, PTL

\* A listing names no file that is not there.
LEMMA ListedFiles == \A S : IsFiniteSet(S) => ToSet(SetToSeq(S)) \subseteq S
<1> SUFFICES ASSUME NEW S, IsFiniteSet(S) PROVE ToSet(SetToSeq(S)) \subseteq S
  OBVIOUS
<1>1. PICK f : f \in Bijection(1..Cardinality(S), S)
  BY FS_CardinalityType DEF ExistsBijection
<1>2. f \in [1..Cardinality(S) -> S] /\ IsInjective(f)
  BY <1>1 DEF Bijection, Injection, IsInjective
<1>3. SetToSeq(S) \in [1..Cardinality(S) -> S]
  BY <1>2 DEF SetToSeq
<1> QED BY <1>3 DEF ToSet

\* The state that is read is one the card has reported, if it has.
LEMMA StateIsReported ==
  ASSUME call \in PollCalls, NEW type
  PROVE  Tells(StateOf(call.entries, 1, type), type)
<1> DEFINE its == {i \in DOMAIN call.entries :
                     call.entries[i].clock = 1 /\ call.entries[i].type = type}
<1>1. PICK n \in 0..2 : call.entries \in [1..n -> Entries]
  BY DEF PollCalls, EntryLists
<1>2. its \in SUBSET (1..n)
  BY <1>1
<1>3. Reported(type) = {StateNumber(call.entries[i].status) : i \in its}
  BY DEF Reported
<1>4. StateOf(call.entries, 1, type) =
        IF its = {} THEN "" ELSE StateNumber(call.entries[Max(its)].status)
  BY DEF StateOf
<1> HIDE DEF its
<1>5. CASE its = {}
  BY <1>3, <1>4, <1>5 DEF Tells
<1>6. CASE its # {}
  <2>1. Max(its) \in its
    BY <1>1, <1>2, <1>6, MaxOf
  <2> QED BY <1>3, <1>4, <1>6, <2>1 DEF Tells
<1> QED BY <1>5, <1>6

LEMMA PollReadsWhatWasFound == CallInv => PollFollowsStart
<1> SUFFICES ASSUME CallInv, result # <<>> PROVE PollFollowsStart
  BY DEF PollFollowsStart, Polled
<1>1. CASE call.function = "DPLLNetlinkPoll"
  <2>1. call \in PollCalls
        /\ result = NetlinkAnalyserFormat(
                      DPLLNetlinkInfo(call.entries, call.parents, Params(call.pin)))
    BY <1>1, CallKinds DEF CallInv, Computed
  <2>2. /\ result.state = StateOf(call.entries, 1, "pps")
        /\ result.eecstate = StateOf(call.entries, 1, "eec")
    BY <2>1 DEF NetlinkAnalyserFormat, DPLLNetlinkInfo, Params
  <2> QED BY <1>1, <2>1, <2>2, StateIsReported DEF PollFollowsStart, Polled
<1>2. CASE call.function = "NewDPLLCollector"
  <2>1. /\ call.names \in SUBSET (DPLLFiles \cup {"other"})
        /\ result.interface = NewDPLLCollector([ok |-> call.listed,
                                                names |-> SetToSeq(call.names)])
        /\ result.info = DPLLFilesystemInfo([name \in call.names |->
                            [number |-> call.number, value |-> name]])
    BY <1>2, CallKinds DEF CallInv, Computed, FileCalls
  <2>2. IsFiniteSet(call.names)
    <3>1. IsFiniteSet({"dpll_0_state"})
      BY FS_Singleton
    <3>2. IsFiniteSet({"dpll_0_state"} \cup {"dpll_1_state"})
      BY <3>1, FS_AddElement
    <3>3. IsFiniteSet({"dpll_0_state"} \cup {"dpll_1_state"} \cup {"dpll_1_offset"})
      BY <3>2, FS_AddElement
    <3>4. IsFiniteSet({"dpll_0_state"} \cup {"dpll_1_state"} \cup {"dpll_1_offset"}
                       \cup {"other"})
      BY <3>3, FS_AddElement
    <3>5. DPLLFiles \cup {"other"} =
            {"dpll_0_state"} \cup {"dpll_1_state"} \cup {"dpll_1_offset"} \cup {"other"}
      BY DEF DPLLFiles
    <3> QED BY <2>1, <3>4, <3>5, FS_Subset
  <2>3. result.interface = "filesystem" => DPLLFiles \subseteq call.names
    BY <2>1, <2>2, ListedFiles DEF NewDPLLCollector, IsDPLLFileSystemPresent
  <2>4. result.interface = "filesystem" => (result.info.ok <=> call.number)
    <3>1. call.number \in BOOLEAN
      BY <1>2, CallKinds DEF CallInv, FileCalls
    <3> QED BY <2>1, <2>3, <3>1 DEF DPLLFilesystemInfo, DPLLFiles
  <2> QED BY <1>2, <2>4 DEF PollFollowsStart, Polled
<1>3. CASE call.function \notin {"DPLLNetlinkPoll", "NewDPLLCollector"}
  BY <1>3 DEF PollFollowsStart, Polled
<1> QED BY <1>1, <1>2, <1>3

(* GetDevDPLLNetlinkInfo, NewDPLLCollector: a poll tells the states of the *)
(* card that the start has found, not those of other cards, and reads the  *)
(* files that the constructor has seen.                                    *)
THEOREM PollsWhatWasFound == CallsSpec => []PollFollowsStart
BY CallsKeep, PollReadsWhatWasFound, PTL

-----------------------------------------------------------------------------
(* The collectors that are selected. *)

CollectorNames == {"DevInfo", "DPLL", "GNSS", "Logs", "PMC"}

\* The registry after k of the packages are initialised.
Registered(acc) ==
  LET packages == <<"DPLL", "GNSS", "Logs", "PMC">>
  IN  /\ acc[0] = [required |-> <<"DevInfo">>, optional |-> <<>>]
      /\ \A k \in 1..4 : acc[k] = Register(acc[k - 1], packages[k], "optional")
      /\ acc[4] = Registry

LEMMA RegistersOptional ==
  ASSUME NEW u, NEW v, NEW p
  PROVE  Register([required |-> u, optional |-> v], p, "optional") =
           [required |-> u, optional |-> Append(v, p)]
BY DEF Register

LEMMA RegistryFilled == \E acc : Registered(acc)
<1> DEFINE packages == <<"DPLL", "GNSS", "Logs", "PMC">>
           V == [required : Seq(CollectorNames), optional : Seq(CollectorNames)]
           base == [required |-> <<"DevInfo">>, optional |-> <<>>]
           G == [w \in (1..4) \X V |-> Register(w[2], packages[w[1]], "optional")]
           Body(g) == [s \in SUBSET (1..4) |-> IF s = {} THEN base
                         ELSE Register(g[s \ {Max(s)}], packages[Max(s)], "optional")]
           iter == CHOOSE g : g = Body(g)
           acc == [k \in 0..4 |-> iter[1..k]]
<1>1. base \in V /\ G \in [(1..4) \X V -> V]
  <2>1. ASSUME NEW k \in 1..4, NEW r \in V PROVE Register(r, packages[k], "optional") \in V
    <3>1. packages[k] \in CollectorNames
      BY DEF CollectorNames
    <3> DEFINE p == packages[k]
    <3>2. p \in CollectorNames
      BY <3>1
    <3> HIDE DEF p
    <3>3. Register(r, p, "optional") =
            [required |-> r.required, optional |-> Append(r.optional, p)]
      <4> DEFINE u == r.required
                 v == r.optional
      <4>1. r = [required |-> u, optional |-> v]
        OBVIOUS
      <4> HIDE DEF u, v
      <4>2. Register([required |-> u, optional |-> v], p, "optional") =
              [required |-> u, optional |-> Append(v, p)]
        BY RegistersOptional
      <4> QED BY <4>1, <4>2 DEF u, v
    <3>4. r.required \in Seq(CollectorNames) /\ Append(r.optional, p) \in Seq(CollectorNames)
      BY <3>2
    <3>5. Register(r, p, "optional") \in V
      BY <3>3, <3>4
    <3> QED BY <3>5 DEF p
  <2>2. base \in V
    BY DEF CollectorNames
  <2> QED BY <2>1, <2>2
<1>2. PICK f \in [SUBSET (1..4) -> V] : IsFoldLeft(f, 4, base, G)
  <2> HIDE DEF V, base, G
  <2> QED BY <1>1, FoldLeftExists
<1>3. f = Body(f)
  <2>1. ASSUME NEW s \in SUBSET (1..4), s # {}
        PROVE  Max(s) \in 1..4 /\ f[s \ {Max(s)}] \in V
    BY <2>1, MaxOf
  <2> HIDE DEF V, base, packages
  <2>2. ASSUME NEW s \in SUBSET (1..4), s # {}
        PROVE  f[s] = Register(f[s \ {Max(s)}], packages[Max(s)], "optional")
    BY <1>2, <2>1, <2>2 DEF IsFoldLeft
  <2> QED BY <1>2, <2>2 DEF IsFoldLeft
<1>4. iter = Body(iter)
  <2> HIDE DEF Body
  <2> QED BY <1>3
<1>5. Registry = iter[1..4]
  <2>1. Register([required |-> <<>>, optional |-> <<>>], "DevInfo", "required") = base
    BY DEF Register
  <2>2. DOMAIN packages = 1..4
    OBVIOUS
  <2> HIDE DEF packages, base
  <2> QED BY <2>1, <2>2 DEF Registry, FoldLeft, MapThenFoldSet, packages
<1>6. Registered(acc)
  <2>1. \A s \in SUBSET (1..4) : iter[s] = IF s = {} THEN base
            ELSE Register(iter[s \ {Max(s)}], packages[Max(s)], "optional")
    <3> HIDE DEF iter, base, packages
    <3> QED BY <1>4
  <2> HIDE DEF iter, base, packages
  <2>2. acc[0] = base
    <3>1. 1..0 = {}
      OBVIOUS
    <3>2. iter[{}] = base
      BY <2>1
    <3> QED BY <3>1, <3>2
  <2>3. ASSUME NEW k \in 1..4 PROVE acc[k] = Register(acc[k - 1], packages[k], "optional")
    <3>1. 1..k # {} /\ Max(1..k) = k /\ (1..k) \ {k} = 1..(k - 1) /\ 1..k \in SUBSET (1..4)
      BY LastOfInterval
    <3>2. iter[1..k] = Register(iter[1..(k - 1)], packages[k], "optional")
      BY <2>1, <3>1
    <3> QED BY <3>2
  <2>4. acc[4] = Registry
    BY <1>5
  <2> HIDE DEF acc
  <2> QED BY <2>2, <2>3, <2>4 DEF Registered, base, packages
<1> QED BY <1>6

LEMMA Collectors ==
  /\ RequiredCollectorNames = <<"DevInfo">>
  /\ OptionalCollectorNames = <<"DPLL", "GNSS", "Logs", "PMC">>
<1>1. PICK acc : Registered(acc)
  BY RegistryFilled
<1>2. /\ acc[0] = [required |-> <<"DevInfo">>, optional |-> <<>>]
      /\ acc[1] = Register(acc[0], "DPLL", "optional")
      /\ acc[2] = Register(acc[1], "GNSS", "optional")
      /\ acc[3] = Register(acc[2], "Logs", "optional")
      /\ acc[4] = Register(acc[3], "PMC", "optional")
      /\ Registry = acc[4]
  BY <1>1 DEF Registered
<1>3. acc[1] = [required |-> <<"DevInfo">>, optional |-> <<"DPLL">>]
  BY <1>2 DEF Register
<1>4. acc[2] = [required |-> <<"DevInfo">>, optional |-> <<"DPLL", "GNSS">>]
  BY <1>2, <1>3 DEF Register
<1>5. acc[3] = [required |-> <<"DevInfo">>, optional |-> <<"DPLL", "GNSS", "Logs">>]
  BY <1>2, <1>4 DEF Register
<1>6. acc[4] = [required |-> <<"DevInfo">>, optional |-> <<"DPLL", "GNSS", "Logs", "PMC">>]
  BY <1>2, <1>5 DEF Register
<1> QED BY <1>2, <1>6 DEF RequiredCollectorNames, OptionalCollectorNames

\* The loop over the names on the command line.
Rounds(acc, n, selected) ==
  /\ acc[0] = RequiredCollectorNames
  /\ \A k \in 1..n : acc[k] = AddSelected(acc[k - 1], selected[k])
  /\ acc[n] = FoldLeft(AddSelected, RequiredCollectorNames, selected)

LEMMA AddsNames ==
  ASSUME NEW names \in Seq(CollectorNames), NEW name \in Names
  PROVE  AddSelected(names, name) \in Seq(CollectorNames)
<1>1. OptionalCollectorNames \in Seq(CollectorNames)
  BY Collectors DEF CollectorNames
<1>2. isIn(name, OptionalCollectorNames) => name.word \in CollectorNames
  BY Collectors DEF isIn, Contains, CollectorNames
<1> QED BY <1>1, <1>2 DEF AddSelected

LEMMA RoundsExist ==
  ASSUME NEW n \in Nat, NEW selected \in [1..n -> Names]
  PROVE  \E acc : Rounds(acc, n, selected)
<1> DEFINE V == Seq(CollectorNames)
           base == RequiredCollectorNames
           G == [w \in (1..n) \X V |-> AddSelected(w[2], selected[w[1]])]
           Body(g) == [s \in SUBSET (1..n) |-> IF s = {} THEN base
                         ELSE AddSelected(g[s \ {Max(s)}], selected[Max(s)])]
           iter == CHOOSE g : g = Body(g)
           acc == [k \in 0..n |-> iter[1..k]]
<1>1. base \in V /\ G \in [(1..n) \X V -> V]
  <2>1. ASSUME NEW k \in 1..n, NEW names \in V PROVE AddSelected(names, selected[k]) \in V
    BY AddsNames
  <2>2. base \in V
    BY Collectors DEF CollectorNames
  <2> HIDE DEF V
  <2> QED BY <2>1, <2>2
<1>2. PICK f \in [SUBSET (1..n) -> V] : IsFoldLeft(f, n, base, G)
  <2> HIDE DEF V, base, G
  <2> QED BY <1>1, FoldLeftExists
<1>3. f = Body(f)
  <2>1. ASSUME NEW s \in SUBSET (1..n), s # {}
        PROVE  Max(s) \in 1..n /\ f[s \ {Max(s)}] \in V
    BY <2>1, MaxOf
  <2> HIDE DEF V, base
  <2>2. ASSUME NEW s \in SUBSET (1..n), s # {}
        PROVE  f[s] = AddSelected(f[s \ {Max(s)}], selected[Max(s)])
    BY <1>2, <2>1, <2>2 DEF IsFoldLeft
  <2> QED BY <1>2, <2>2 DEF IsFoldLeft
<1>4. iter = Body(iter)
  <2> HIDE DEF Body
  <2> QED BY <1>3
<1>5. FoldLeft(AddSelected, base, selected) = iter[1..n]
  <2>1. DOMAIN selected = 1..n
    OBVIOUS
  <2> HIDE DEF base
  <2> QED BY <2>1 DEF FoldLeft, MapThenFoldSet
<1>6. Rounds(acc, n, selected)
  <2>1. \A s \in SUBSET (1..n) : iter[s] = IF s = {} THEN base
            ELSE AddSelected(iter[s \ {Max(s)}], selected[Max(s)])
    <3> HIDE DEF iter, base
    <3> QED BY <1>4
  <2> HIDE DEF iter, base
  <2>2. acc[0] = base
    <3>1. 1..0 = {}
      OBVIOUS
    <3>2. iter[{}] = base
      BY <2>1
    <3> QED BY <3>1, <3>2
  <2>3. ASSUME NEW k \in 1..n PROVE acc[k] = AddSelected(acc[k - 1], selected[k])
    <3>1. 1..k # {} /\ Max(1..k) = k /\ (1..k) \ {k} = 1..(k - 1) /\ 1..k \in SUBSET (1..n)
      BY LastOfInterval
    <3>2. iter[1..k] = AddSelected(iter[1..(k - 1)], selected[k])
      BY <2>1, <3>1
    <3> QED BY <3>2
  <2>4. acc[n] = FoldLeft(AddSelected, base, selected)
    BY <1>5
  <2> HIDE DEF acc
  <2> QED BY <2>2, <2>3, <2>4 DEF Rounds, base
<1> QED BY <1>6

\* The optional collectors that the first k names ask for.
AskedBy(selected, k) ==
  {name \in ToSet(OptionalCollectorNames) :
     \E j \in 1..k : \/ selected[j].word \in {"all", "defaults"}
                     \/ (selected[j].exact /\ selected[j].word = name)}

\* The names after k rounds.
AfterRounds(names, selected, k) ==
  /\ names \in Seq(CollectorNames) /\ names # <<>> /\ names[1] = "DevInfo"
  /\ ToSet(names) = {"DevInfo"} \cup AskedBy(selected, k)

LEMMA SelectedAfter ==
  ASSUME NEW n \in Nat, NEW selected \in [1..n -> Names]
  PROVE  AfterRounds(FoldLeft(AddSelected, RequiredCollectorNames, selected), selected, n)
<1>1. PICK acc : Rounds(acc, n, selected)
  BY RoundsExist
<1> DEFINE D == {k \in 0..n : AfterRounds(acc[k], selected, k)}
<1>2. 0 \in D
  <2>1. acc[0] = <<"DevInfo">>
    BY <1>1, Collectors DEF Rounds
  <2>2. ToSet(acc[0]) = {"DevInfo"}
    BY <2>1 DEF ToSet
  <2>3. AskedBy(selected, 0) = {}
    BY DEF AskedBy
  <2>4. AfterRounds(acc[0], selected, 0)
    BY <2>1, <2>2, <2>3 DEF AfterRounds, CollectorNames
  <2> QED BY <2>4
<1>3. ASSUME NEW k \in 0..(n - 1), k \in D PROVE k + 1 \in D
  <2> DEFINE names == acc[k]
             name == selected[k + 1]
             added == AddSelected(names, name)
             Wanted(o) == \/ name.word \in {"all", "defaults"}
                          \/ (name.exact /\ name.word = o)
  <2>1. AfterRounds(names, selected, k)
    BY <1>3
  <2>2. k + 1 \in 1..n /\ k + 1 \in 0..n /\ (k + 1) - 1 = k
    OBVIOUS
  <2>3. acc[k + 1] = added /\ name \in Names
    <3>1. acc[k + 1] = AddSelected(acc[(k + 1) - 1], selected[k + 1])
      BY <1>1, <2>2 DEF Rounds
    <3> QED BY <2>2, <3>1
  <2>4. AskedBy(selected, k + 1) =
          AskedBy(selected, k) \cup {o \in ToSet(OptionalCollectorNames) : Wanted(o)}
    <3>1. 1..(k + 1) = 1..k \cup {k + 1}
      OBVIOUS
    <3> QED BY <3>1 DEF AskedBy
  <2> HIDE DEF names, name
  <2>5. names \in Seq(CollectorNames) /\ names # <<>> /\ names[1] = "DevInfo"
    BY <2>1 DEF AfterRounds
  <2>6. Len(names) \in Nat \ {0} /\ OptionalCollectorNames \in Seq(CollectorNames)
    BY <2>5, EmptySeq, Collectors DEF CollectorNames
  <2>7. added \in Seq(CollectorNames) /\ added # <<>> /\ added[1] = "DevInfo"
        /\ ToSet(added) = ToSet(names) \cup {o \in ToSet(OptionalCollectorNames) : Wanted(o)}
    <3>1. CASE name.word \in {"all", "defaults"}
      <4>1. added = names \o OptionalCollectorNames
        BY <3>1 DEF AddSelected
      <4>2. added \in Seq(CollectorNames) /\ added # <<>> /\ added[1] = "DevInfo"
        BY <2>5, <2>6, <4>1
      <4>3. ToSet(added) = ToSet(names) \cup ToSet(OptionalCollectorNames)
        BY <2>5, <2>6, <4>1, LinesJoined
      <4> QED BY <3>1, <4>2, <4>3
    <3>2. CASE name.word \notin {"all", "defaults"}
      <4>1. isIn(name, OptionalCollectorNames) <=>
              name.exact /\ name.word \in ToSet(OptionalCollectorNames)
        BY <2>6 DEF isIn, Contains, ToSet
      <4>2. isIn(name, names) <=> name.exact /\ name.word \in ToSet(names)
        BY <2>5 DEF isIn, Contains, ToSet
      <4>3. CASE ~isIn(name, names) /\ isIn(name, OptionalCollectorNames)
        <5>1. added = Append(names, name.word)
          BY <3>2, <4>3 DEF AddSelected
        <5>2. name.word \in CollectorNames
          BY <2>6, <4>1, <4>3 DEF ToSet
        <5>3. added \in Seq(CollectorNames) /\ added # <<>> /\ added[1] = "DevInfo"
          BY <2>5, <2>6, <5>1, <5>2
        <5>4. ToSet(added) = ToSet(names) \cup {name.word}
          BY <2>5, <5>1, <5>2, LinesAppended
        <5> QED BY <3>2, <4>1, <4>3, <5>3, <5>4
      <4>4. CASE isIn(name, names) \/ ~isIn(name, OptionalCollectorNames)
        <5>1. added = names
          BY <3>2, <4>4 DEF AddSelected
        <5> QED BY <2>5, <3>2, <4>1, <4>2, <4>4, <5>1
      <4> QED BY <4>3, <4>4
    <3> QED BY <3>1, <3>2
  <2> HIDE DEF added
  <2>8. AfterRounds(added, selected, k + 1)
    BY <2>1, <2>4, <2>7 DEF AfterRounds
  <2> QED BY <2>2, <2>3, <2>8
<1>4. n \in D
  <2> HIDE DEF D
  <2>1. 0..n \subseteq D
    BY <1>2, <1>3, Upward
  <2> QED BY <2>1
<1>5. AfterRounds(acc[n], selected, n)
  BY <1>4
<1> QED BY <1>1, <1>5 DEF Rounds

\* The loop of removeDuplicates.
AddOnce(res, name) == IF Contains(res, name) THEN res ELSE Append(res, name)

Kept(acc, n, names) ==
  /\ acc[0] = <<>>
  /\ \A k \in 1..n : acc[k] = AddOnce(acc[k - 1], names[k])
  /\ acc[n] = removeDuplicates(names)

LEMMA KeptExist ==
  ASSUME NEW names \in Seq(CollectorNames)
  PROVE  \E acc : Kept(acc, Len(names), names)
<1> DEFINE n == Len(names)
           V == Seq(CollectorNames)
           G == [w \in (1..n) \X V |-> AddOnce(w[2], names[w[1]])]
           Body(g) == [s \in SUBSET (1..n) |-> IF s = {} THEN <<>>
                         ELSE AddOnce(g[s \ {Max(s)}], names[Max(s)])]
           iter == CHOOSE g : g = Body(g)
           acc == [k \in 0..n |-> iter[1..k]]
<1>0. n \in Nat /\ DOMAIN names = 1..n
  OBVIOUS
<1>1. <<>> \in V /\ G \in [(1..n) \X V -> V]
  <2>1. ASSUME NEW k \in 1..n, NEW res \in V PROVE AddOnce(res, names[k]) \in V
    BY DEF AddOnce
  <2>2. <<>> \in V
    OBVIOUS
  <2> HIDE DEF V, n
  <2> QED BY <2>1, <2>2
<1> HIDE DEF n
<1>2. PICK f \in [SUBSET (1..n) -> V] : IsFoldLeft(f, n, <<>>, G)
  <2> HIDE DEF V, G
  <2> QED BY <1>0, <1>1, FoldLeftExists
<1>3. f = Body(f)
  <2>1. ASSUME NEW s \in SUBSET (1..n), s # {}
        PROVE  Max(s) \in 1..n /\ f[s \ {Max(s)}] \in V
    BY <1>0, <2>1, MaxOf
  <2> HIDE DEF V
  <2>2. ASSUME NEW s \in SUBSET (1..n), s # {}
        PROVE  f[s] = AddOnce(f[s \ {Max(s)}], names[Max(s)])
    BY <1>2, <2>1, <2>2 DEF IsFoldLeft
  <2> QED BY <1>2, <2>2 DEF IsFoldLeft
<1>4. iter = Body(iter)
  <2> HIDE DEF Body
  <2> QED BY <1>3
<1>5. removeDuplicates(names) = iter[1..n]
  BY <1>0 DEF removeDuplicates, FoldLeft, MapThenFoldSet, AddOnce
<1>6. Kept(acc, n, names)
  <2>1. \A s \in SUBSET (1..n) : iter[s] = IF s = {} THEN <<>>
            ELSE AddOnce(iter[s \ {Max(s)}], names[Max(s)])
    <3> HIDE DEF iter
    <3> QED BY <1>4
  <2> HIDE DEF iter
  <2>2. acc[0] = <<>>
    <3>1. 1..0 = {} /\ 0 \in 0..n
      BY <1>0
    <3>2. iter[{}] = <<>>
      BY <2>1
    <3> QED BY <3>1, <3>2
  <2>3. ASSUME NEW k \in 1..n PROVE acc[k] = AddOnce(acc[k - 1], names[k])
    <3>1. 1..k # {} /\ Max(1..k) = k /\ (1..k) \ {k} = 1..(k - 1) /\ 1..k \in SUBSET (1..n)
      BY <1>0, LastOfInterval
    <3>2. iter[1..k] = AddOnce(iter[1..(k - 1)], names[k])
      BY <2>1, <3>1
    <3>3. k \in 0..n /\ k - 1 \in 0..n
      BY <1>0
    <3> QED BY <3>2, <3>3
  <2>4. acc[n] = removeDuplicates(names)
    BY <1>0, <1>5
  <2> HIDE DEF acc
  <2> QED BY <2>2, <2>3, <2>4 DEF Kept
<1> QED BY <1>6 DEF n

\* The names kept of the first k.
KeptOf(res, names, k) ==
  /\ res \in Seq(CollectorNames)
  /\ \A i, j \in 1..Len(res) : res[i] = res[j] => i = j
  /\ ToSet(res) = {names[i] : i \in 1..k}
  /\ k > 0 => res # <<>> /\ res[1] = names[1]

LEMMA KeptOnce ==
  ASSUME NEW names \in Seq(CollectorNames)
  PROVE  KeptOf(removeDuplicates(names), names, Len(names))
<1> DEFINE n == Len(names)
<1>0. n \in Nat
  OBVIOUS
<1>1. PICK acc : Kept(acc, n, names)
  BY KeptExist
<1> DEFINE D == {k \in 0..n : KeptOf(acc[k], names, k)}
<1>2. 0 \in D
  <2>1. acc[0] = <<>>
    BY <1>1 DEF Kept
  <2>2. KeptOf(<<>>, names, 0)
    BY DEF KeptOf, ToSet
  <2> QED BY <1>0, <2>1, <2>2
<1>3. ASSUME NEW k \in 0..(n - 1), k \in D PROVE k + 1 \in D
  <2> DEFINE res == acc[k]
             name == names[k + 1]
             added == AddOnce(res, name)
  <2>1. KeptOf(res, names, k)
    BY <1>3
  <2>2. k + 1 \in 1..n /\ k + 1 \in 0..n /\ (k + 1) - 1 = k /\ name \in CollectorNames /\ k \in Nat
    BY <1>0
  <2>3. acc[k + 1] = added
    <3>1. acc[k + 1] = AddOnce(acc[(k + 1) - 1], names[k + 1])
      BY <1>1, <2>2 DEF Kept
    <3> QED BY <2>2, <3>1
  <2>4. {names[i] : i \in 1..(k + 1)} = {names[i] : i \in 1..k} \cup {name}
    <3>1. 1..(k + 1) = 1..k \cup {k + 1}
      BY <2>2
    <3> QED BY <3>1
  <2>5. res \in Seq(CollectorNames) /\ Len(res) \in Nat /\ ToSet(res) = {names[i] : i \in 1..k}
        /\ \A i, j \in 1..Len(res) : res[i] = res[j] => i = j
    BY <2>1 DEF KeptOf
  <2>6. k > 0 => res # <<>> /\ res[1] = names[1]
    BY <2>1 DEF KeptOf
  <2>7. k = 0 => res = <<>> /\ ~Contains(res, name)
    <3> SUFFICES ASSUME k = 0 PROVE res = <<>> /\ ~Contains(res, name)
      OBVIOUS
    <3>1. res = <<>>
      BY <1>1 DEF Kept
    <3> QED BY <3>1 DEF Contains
  <2>8. k = 0 => name = names[1]
    OBVIOUS
  <2> HIDE DEF res, name
  <2>9. Contains(res, name) <=> name \in ToSet(res)
    BY <2>5 DEF Contains, ToSet
  <2>10. KeptOf(added, names, k + 1)
    <3>1. CASE Contains(res, name)
      <4>1. added = res
        BY <3>1 DEF AddOnce
      <4>2. k > 0 /\ ToSet(res) = ToSet(res) \cup {name}
        BY <2>2, <2>7, <2>9, <3>1
      <4> QED BY <2>4, <2>5, <2>6, <4>1, <4>2 DEF KeptOf
    <3>2. CASE ~Contains(res, name)
      <4>1. added = Append(res, name)
        BY <3>2 DEF AddOnce
      <4>2. added \in Seq(CollectorNames) /\ Len(added) = Len(res) + 1 /\ added[Len(res) + 1] = name
            /\ (\A i \in 1..Len(res) : added[i] = res[i]) /\ added # <<>>
        BY <2>2, <2>5, <4>1
      <4>3. ToSet(added) = ToSet(res) \cup {name}
        BY <2>2, <2>5, <4>1, LinesAppended
      <4>4. added[1] = names[1]
        <5>1. CASE k = 0
          <6>1. Len(res) = 0
            BY <2>7, <5>1
          <6> QED BY <2>8, <4>2, <5>1, <6>1
        <5>2. CASE k > 0
          <6>1. 1 \in 1..Len(res)
            BY <2>5, <2>6, <5>2, EmptySeq
          <6> QED BY <2>6, <4>2, <5>2, <6>1
        <5> QED BY <2>2, <5>1, <5>2
      <4>5. ASSUME NEW i \in 1..Len(added), NEW j \in 1..Len(added), added[i] = added[j]
            PROVE  i = j
        <5>1. \A l \in 1..Len(res) : res[l] # name
          BY <3>2 DEF Contains
        <5>2. \A l \in 1..Len(added) : l \in 1..Len(res) \/ l = Len(res) + 1
          BY <2>5, <4>2
        <5> HIDE DEF added
        <5> QED BY <2>5, <4>2, <4>5, <5>1, <5>2
      <4> HIDE DEF added
      <4> QED BY <2>4, <2>5, <4>2, <4>3, <4>4, <4>5 DEF KeptOf
    <3> QED BY <3>1, <3>2
  <2> QED BY <2>2, <2>3, <2>10
<1>4. n \in D
  <2> HIDE DEF D
  <2>1. 0..n \subseteq D
    <3> HIDE DEF n
    <3> QED BY <1>0, <1>2, <1>3, Upward
  <2> QED BY <1>0, <2>1
<1>5. KeptOf(acc[n], names, n)
  BY <1>4
<1> QED BY <1>1, <1>5 DEF Kept

(* The collectors that run, for any number of names on the command line.   *)
LEMMA SelectedOnce ==
  ASSUME NEW n \in Nat, NEW selected \in [1..n -> Names]
  PROVE  LET r == GetCollectorsToRun(selected)
         IN  /\ SubSeq(r, 1, Len(RequiredCollectorNames)) = RequiredCollectorNames
             /\ Cardinality(ToSet(r)) = Len(r)
             /\ ToSet(r) = ToSet(RequiredCollectorNames) \cup AskedBy(selected, n)
<1> DEFINE names == FoldLeft(AddSelected, RequiredCollectorNames, selected)
           r == GetCollectorsToRun(selected)
<1>1. names \in Seq(CollectorNames) /\ names # <<>> /\ names[1] = "DevInfo"
      /\ ToSet(names) = {"DevInfo"} \cup AskedBy(selected, n)
  BY SelectedAfter DEF AfterRounds
<1>2. r = removeDuplicates(names)
  BY DEF GetCollectorsToRun
<1> HIDE DEF names, r
<1>3. Len(names) \in Nat /\ Len(names) > 0
  BY <1>1, EmptySeq
<1>4. KeptOf(r, names, Len(names))
  BY <1>1, <1>2, KeptOnce
<1>5. r \in Seq(CollectorNames) /\ r # <<>> /\ r[1] = "DevInfo"
      /\ (\A i, j \in 1..Len(r) : r[i] = r[j] => i = j)
      /\ ToSet(r) = {names[i] : i \in 1..Len(names)}
  BY <1>1, <1>3, <1>4 DEF KeptOf
<1>6. ToSet(r) = ToSet(names)
  <2>1. DOMAIN names = 1..Len(names)
    BY <1>1
  <2>2. ToSet(names) = {names[i] : i \in 1..Len(names)}
    BY <2>1 DEF ToSet
  <2> QED BY <1>5, <2>2
<1>7. ToSet(RequiredCollectorNames) = {"DevInfo"} /\ Len(RequiredCollectorNames) = 1
  BY Collectors DEF ToSet
<1>8. SubSeq(r, 1, 1) = <<"DevInfo">>
  <2>1. Len(r) \in Nat \ {0}
    BY <1>5, EmptySeq
  <2>2. SubSeq(r, 1, 1) = <<r[1]>>
    <3> DEFINE t == SubSeq(r, 1, 1)
               u == <<r[1]>>
    <3>1. t \in Seq(CollectorNames) /\ Len(t) = 1 /\ t[1] = r[1]
      BY <1>5, <2>1
    <3>2. r[1] \in CollectorNames
      BY <1>5, <2>1
    <3>3. u \in Seq(CollectorNames) /\ Len(u) = 1 /\ u[1] = r[1]
      BY <3>2
    <3>4. \A i \in 1..1 : i = 1
      OBVIOUS
    <3> HIDE DEF t, u
    <3>5. t = u
      BY <3>1, <3>3, <3>4, SeqEqual
    <3> QED BY <3>5 DEF t, u
  <2> QED BY <1>5, <2>2
<1>9. Cardinality(ToSet(r)) = Len(r)
  <2>1. r \in Bijection(1..Len(r), ToSet(r))
    BY <1>5 DEF Bijection, Injection, Surjection, IsInjective, ToSet
  <2>2. ExistsBijection(1..Len(r), ToSet(r))
    BY <2>1, Zenon DEF ExistsBijection
  <2>3. Len(r) \in Nat
    BY <1>5
  <2> QED BY <2>2, <2>3, FS_CountingElements
<1>10. SubSeq(r, 1, Len(RequiredCollectorNames)) = RequiredCollectorNames
  BY <1>7, <1>8, Collectors
<1> QED BY <1>1, <1>6, <1>7, <1>9, <1>10 DEF r

LEMMA SelectionIsComplete == CallInv => SelectionComplete
<1> DEFINE names == ToSet(result.names)
           optional == ToSet(OptionalCollectorNames)
           required == ToSet(RequiredCollectorNames)
           All == Asked("all") \/ Asked("defaults")
<1> SUFFICES ASSUME CallInv, call.function = "GetCollectorsToRun", result # <<>>
             PROVE  /\ SubSeq(result.names, 1, Len(RequiredCollectorNames)) =
                         RequiredCollectorNames
                    /\ Cardinality(names) = Len(result.names)
                    /\ \A name \in optional : All \/ Spelled(name) => name \in names
                    /\ \A name \in names \ required :
                         name \in optional /\ (All \/ Asked(name))
                    /\ result.missing => "Logs" \in names /\ ~call.file
  BY DEF SelectionComplete, Chosen
<1>1. /\ call \in SelectCalls /\ result.names = GetCollectorsToRun(call.selected)
      /\ result.missing = MissingLogsFile(call.selected, call.file)
  BY CallKinds DEF CallInv, Computed
<1>2. PICK n \in 0..3 : call.selected \in [1..n -> Names]
  BY <1>1 DEF SelectCalls, NameLists
<1>3. DOMAIN call.selected = 1..n
  BY <1>2
<1>4. /\ SubSeq(result.names, 1, Len(RequiredCollectorNames)) = RequiredCollectorNames
      /\ Cardinality(names) = Len(result.names)
      /\ names = required \cup AskedBy(call.selected, n)
  BY <1>1, <1>2, SelectedOnce
<1>5. \A name \in optional : All \/ Spelled(name) => name \in AskedBy(call.selected, n)
  BY <1>2, <1>3 DEF AskedBy, Asked, Spelled, ToSet
<1>6. \A name \in AskedBy(call.selected, n) :
        name \in optional /\ (All \/ Asked(name))
  BY <1>3 DEF AskedBy, Asked
<1>7. result.missing => "Logs" \in AskedBy(call.selected, n) /\ ~call.file
  <2> SUFFICES ASSUME result.missing
               PROVE  "Logs" \in AskedBy(call.selected, n) /\ ~call.file
    OBVIOUS
  <2>1. PICK i \in 1..n : call.selected[i].exact /\ call.selected[i].word \in {"Logs", "all"}
    BY <1>1, <1>3 DEF MissingLogsFile
  <2>2. "Logs" \in ToSet(OptionalCollectorNames)
    BY Collectors DEF ToSet
  <2> QED BY <1>1, <2>1, <2>2 DEF MissingLogsFile, AskedBy
<1> HIDE DEF names, optional, required, All
<1> QED BY <1>4, <1>5, <1>6, <1>7

(* GetCollectorsToRun: the required collectors first, all the optional ones*)
(* that were asked for as the registry spells them, none that was not asked*)
(* for, each once; and collectCmd refuses no run but one that wants the    *)
(* logs and has no file for them.                                          *)
THEOREM SelectsComplete == CallsSpec => []SelectionComplete
BY CallsKeep, SelectionIsComplete, PTL

-----------------------------------------------------------------------------
(* De-duplication of two slices of the log. *)

LEMMA LinesInOrder ==
  ASSUME NEW lines \in SUBSET (1..MaxLine)
  PROVE  /\ InOrder(lines) \in Seq(Nat) /\ Ordered(InOrder(lines))
         /\ ToSet(InOrder(lines)) = lines
<1> DEFINE n == Cardinality(lines)
           order == InOrder(lines)
<1>1. IsFiniteSet(lines) /\ lines \in SUBSET Nat
  <2>1. IsFiniteSet(1..MaxLine)
    BY MaxLineAssumption, FS_Interval
  <2>2. IsFiniteSet(lines)
    BY <2>1, FS_Subset
  <2>3. lines \in SUBSET Nat
    BY MaxLineAssumption
  <2> QED BY <2>2, <2>3
<1>2. /\ n \in Nat /\ order \in [1..n -> lines]
      /\ \A k, l \in 1..n : k < l => order[k] < order[l]
      /\ \A x \in lines : \E k \in 1..n : order[k] = x
  BY <1>1, NumbersInOrder DEF InOrder
<1> HIDE DEF order, n
<1>3. order \in Seq(Nat) /\ Len(order) = n
  <2>1. order \in [1..n -> Nat]
    BY <1>1, <1>2
  <2> QED BY <1>2, <2>1
<1>4. Ordered(order)
  BY <1>2, <1>3 DEF Ordered
<1>5. ToSet(order) = lines
  BY <1>2, <1>3 DEF ToSet
<1> QED BY <1>3, <1>4, <1>5 DEF order

LEMMA DedupOfSlices ==
  ASSUME CallInv, Deduped
  PROVE  LET p == <<call.a, call.b>>
         IN  /\ p \in Pairs /\ p[1] = call.a /\ p[2] = call.b
             /\ call.a # <<>> /\ call.b # <<>> /\ Ordered(call.a) /\ Ordered(call.b)
             /\ ToSet(call.a) \in SUBSET (1..MaxLine) /\ ToSet(call.b) \in SUBSET (1..MaxLine)
             /\ result = DedupPair[p]
<1>1. call \in DedupCalls /\ result = DedupAB(call.a, call.b)
  BY CallKinds DEF CallInv, Computed, Deduped
<1>2. ASSUME NEW s \in Slices
      PROVE  s \in Seq(Nat) /\ s # <<>> /\ Ordered(s) /\ ToSet(s) \in SUBSET (1..MaxLine)
  <2>1. PICK lines \in SUBSET (1..MaxLine) : lines # {} /\ s = InOrder(lines)
    <3> HIDE DEF InOrder
    <3> QED BY Zenon DEF Slices
  <2>2. s \in Seq(Nat) /\ Ordered(s) /\ ToSet(s) = lines
    BY <2>1, LinesInOrder
  <2>3. s # <<>>
    BY <2>1, <2>2 DEF ToSet
  <2> QED BY <2>2, <2>3
<1>3. call.a \in Slices /\ call.b \in Slices
  BY <1>1 DEF DedupCalls
<1>4. result = DedupPair[<<call.a, call.b>>]
  BY <1>1 DEF DedupAB
<1> QED BY <1>2, <1>3, <1>4 DEF Pairs

LEMMA DedupPanicsNever == CallInv => DedupNeverPanics
<1> SUFFICES ASSUME CallInv, Deduped PROVE ~result.panic
  BY DEF DedupNeverPanics
<1> DEFINE p == <<call.a, call.b>>
<1>1. /\ p \in Pairs /\ p[1] # <<>> /\ p[2] # <<>> /\ Ordered(p[1]) /\ Ordered(p[2])
      /\ result = DedupPair[p]
  BY DedupOfSlices
<1> HIDE DEF p
<1>2. PICK first, second \in Seq(Nat) : result = Result(first, second)
  BY <1>1, OrderedNeverPanics
<1> QED BY <1>2 DEF Result

(* DedupAB: whatever lines are missing in two slices of the log, in the    *)
(* middle too, no index is out of range, for a log of any length.          *)
THEOREM NoDedupPanics == CallsSpec => []DedupNeverPanics
BY CallsKeep, DedupPanicsNever, PTL

LEMMA SubsetIsAbsorbed == CallInv => SubsetAbsorbed
<1> SUFFICES ASSUME CallInv, Deduped, ToSet(call.a) \subseteq ToSet(call.b)
             PROVE  result.first = <<>> /\ result.second = call.b
  BY DEF SubsetAbsorbed, Returned
<1> DEFINE p == <<call.a, call.b>>
<1>1. /\ p \in Pairs /\ p[1] # <<>> /\ p[2] # <<>> /\ Ordered(p[1]) /\ Ordered(p[2])
      /\ ToSet(p[1]) \subseteq ToSet(p[2]) /\ result = DedupPair[p] /\ p[2] = call.b
  BY DedupOfSlices
<1> HIDE DEF p
<1>2. result = Result(<<>>, call.b)
  BY <1>1, OrderedAbsorbed
<1> QED BY <1>2 DEF Result

(* DedupAB, processOverlap: a slice with only some lines of the next one,  *)
(* whichever they are, leaves the next one as it is.                       *)
THEOREM SubsetsAbsorbed == CallsSpec => []SubsetAbsorbed
BY CallsKeep, SubsetIsAbsorbed, PTL

LEMMA OverlapIsMerged == CallInv => OverlapMerged
<1> SUFFICES ASSUME CallInv, Deduped, Overlap PROVE Merged2 = InOrder(Lines)
  BY DEF OverlapMerged, Returned
<1> DEFINE a == call.a
           b == call.b
           p == <<a, b>>
<1>1. /\ p \in Pairs /\ p[1] = a /\ p[2] = b /\ a # <<>> /\ b # <<>> /\ Ordered(a) /\ Ordered(b)
      /\ ToSet(a) \in SUBSET (1..MaxLine) /\ ToSet(b) \in SUBSET (1..MaxLine)
      /\ result = DedupPair[p]
  BY DedupOfSlices
<1>2. b[1] \in ToSet(a) /\ a[Len(a)] \in ToSet(b)
  BY DEF Overlap, Last
<1>3. Fits(ToSet(a), ToSet(b))
  <2> SUFFICES ASSUME NEW f \in Common, NEW l \in Common,
                      NEW z \in ToSet(a), NEW w \in ToSet(b), f < z, z < l, f < w, w < l,
                      \A m \in Common : ~(f < m /\ m < l)
               PROVE  FALSE
    BY DEF Fits, Common
  <2>1. Between(a, f, l) = {} \/ Between(b, f, l) = {}
    BY DEF Overlap
  <2> QED BY <2>1 DEF Between
<1>4. LinesOf(p) = Lines /\ Lines \in SUBSET (1..MaxLine)
  BY <1>1 DEF LinesOf, Lines
<1> HIDE DEF a, b, p
<1>5. Overlapping(p)
  BY <1>1, <1>2, <1>3 DEF Overlapping
<1>6. PICK first, second \in Seq(Nat) :
        DedupPair[p] = Result(first, second) /\ InOrderOf(first, second, LinesOf(p))
  BY <1>1, <1>5, OrderedMerged
<1>7. Merged2 = first \o second
  BY <1>1, <1>6 DEF Merged2, Result
<1>8. first \o second \in Seq(Nat) /\ Ordered(first \o second) /\ ToSet(first \o second) = Lines
  BY <1>4, <1>6 DEF InOrderOf
<1> HIDE DEF InOrder
<1> QED BY <1>4, <1>7, <1>8, LinesInOrder, OrderedUnique

(* DedupAB, processOverlap: two slices of the log that overlap, of any     *)
(* length and with lines missing in either, become every line once, in     *)
(* the order of the log.                                                   *)
THEOREM OverlapsMerged == CallsSpec => []OverlapMerged
BY CallsKeep, OverlapIsMerged, PTL

-----------------------------------------------------------------------------
(* The output of one command. *)

LEMMA Tags ==
  ASSUME NEW key
  PROVE  /\ Open(key) # Close(key) /\ Open(key) # Newline /\ Close(key) # Newline
BY DEF Open, Close, Newline

\* A command's output within that of all, by positions: b tokens come before
\* its tags and m stand between them.
LEMMA OutputBetweenTags ==
  ASSUME NEW cmd, NEW s, Len(s) \in Nat, NEW b \in Nat, NEW m \in Nat, b + m + 4 <= Len(s),
         s[b + 1] = Open(cmd.key), s[b + 2] = Newline,
         s[b + m + 3] = Close(cmd.key),
         \A i \in 1..Len(s) : s[i] = Open(cmd.key) => i = b + 1,
         \A i \in 1..Len(s) : s[i] = Close(cmd.key) => i = b + m + 3
  PROVE  LET captured == SubSeq(s, b + 3, b + m + 1)
         IN  ExtractResult(cmd, s) =
               IF m > 0 /\ s[b + m + 2] = Newline
                 THEN [ok |-> TRUE,
                       value |-> IF cmd.trim THEN TrimSpace(captured) ELSE captured]
                 ELSE [ok |-> FALSE, value |-> <<>>]
<1> DEFINE begins == Begins(cmd.key, s)
           ends == Ends(cmd.key, s)
           matching == {i \in begins : \E j \in ends : i + 3 <= j}
<1>1. begins = {b + 1}
  BY DEF Begins
<1>2. ends = IF s[b + m + 2] = Newline THEN {b + m + 3} ELSE {}
  BY DEF Ends
<1>3. CASE m > 0 /\ s[b + m + 2] = Newline
  <2>1. matching = {b + 1} /\ ends = {b + m + 3}
    BY <1>1, <1>2, <1>3
  <2>2. Min({b + 1}) = b + 1 /\ Max({b + m + 3}) = b + m + 3
    BY DEF Min, Max
  <2>3. (b + 1) + 2 = b + 3 /\ (b + m + 3) - 2 = b + m + 1
    OBVIOUS
  <2> QED BY <1>3, <2>1, <2>2, <2>3 DEF ExtractResult
<1>4. CASE ~(m > 0 /\ s[b + m + 2] = Newline)
  <2>1. matching = {}
    BY <1>1, <1>2, <1>4
  <2> QED BY <1>4, <2>1 DEF ExtractResult
<1> QED BY <1>3, <1>4

\* No tag of the command is in the text.
Without(cmd, text) == \A i \in 1..Len(text) : text[i] \notin {Open(cmd.key), Close(cmd.key)}

\* Three texts one after the other.
Row(s, t, u) == s \o t \o u

Laid(row, s, t, u) ==
  /\ Len(row) = Len(s) + Len(t) + Len(u)
  /\ \A i \in 1..Len(s) : row[i] = s[i]
  /\ \A i \in 1..Len(t) : row[Len(s) + i] = t[i]
  /\ \A i \in 1..Len(u) : row[Len(s) + Len(t) + i] = u[i]

LEMMA InARow ==
  ASSUME NEW T, NEW s \in Seq(T), NEW t \in Seq(T), NEW u \in Seq(T)
  PROVE  Row(s, t, u) \in Seq(T) /\ Laid(Row(s, t, u), s, t, u)
<1>1. /\ s \o t \in Seq(T) /\ Len(s \o t) = Len(s) + Len(t)
      /\ \A i \in 1..Len(s) : (s \o t)[i] = s[i]
      /\ \A i \in 1..Len(t) : (s \o t)[Len(s) + i] = t[i]
  OBVIOUS
<1> DEFINE st == s \o t
<1> HIDE DEF st
<1>2. /\ st \o u \in Seq(T) /\ Len(st \o u) = Len(st) + Len(u)
      /\ \A i \in 1..Len(st) : (st \o u)[i] = st[i]
      /\ \A i \in 1..Len(u) : (st \o u)[Len(st) + i] = u[i]
  BY <1>1 DEF st
<1>3. Row(s, t, u) = st \o u
  BY DEF Row, st
<1> DEFINE row == Row(s, t, u)
<1> HIDE DEF row
<1>4. /\ row \in Seq(T) /\ Len(row) = Len(st) + Len(u)
      /\ \A i \in 1..Len(st) : row[i] = st[i]
      /\ \A i \in 1..Len(u) : row[Len(st) + i] = u[i]
  BY <1>2, <1>3 DEF row
<1>5. /\ Len(st) = Len(s) + Len(t)
      /\ \A i \in 1..Len(s) : st[i] = s[i]
      /\ \A i \in 1..Len(t) : st[Len(s) + i] = t[i]
  BY <1>1 DEF st
<1>6. Len(s) \in Nat /\ Len(t) \in Nat /\ Len(u) \in Nat
  OBVIOUS
<1>7. \A i \in 1..Len(s) : row[i] = s[i]
  BY <1>4, <1>5, <1>6
<1>8. \A i \in 1..Len(t) : row[Len(s) + i] = t[i]
  BY <1>4, <1>5, <1>6
<1>9. \A i \in 1..Len(u) : row[Len(s) + Len(t) + i] = u[i]
  BY <1>4, <1>5, <1>6
<1> QED BY <1>4, <1>5, <1>7, <1>8, <1>9 DEF row, Laid

EchoedAs(cmd, printed, echoed) ==
  LET m == Len(printed)
  IN  /\ Len(echoed) = m + 4 /\ echoed[1] = Open(cmd.key) /\ echoed[2] = Newline
      /\ \A i \in 1..m : echoed[2 + i] = printed[i]
      /\ echoed[m + 3] = Close(cmd.key) /\ echoed[m + 4] = Newline

LEMMA EchoedPositions ==
  ASSUME NEW T, NEW cmd, NEW printed \in Seq(T)
  PROVE  /\ Echoed(cmd, printed) \in Seq(T \cup {Open(cmd.key), Close(cmd.key), Newline})
         /\ EchoedAs(cmd, printed, Echoed(cmd, printed))
<1> DEFINE U == T \cup {Open(cmd.key), Close(cmd.key), Newline}
           first == <<Open(cmd.key), Newline>>
           last == <<Close(cmd.key), Newline>>
<1>1. /\ first \in Seq(U) /\ Len(first) = 2 /\ first[1] = Open(cmd.key) /\ first[2] = Newline
      /\ last \in Seq(U) /\ Len(last) = 2 /\ last[1] = Close(cmd.key) /\ last[2] = Newline
  OBVIOUS
<1>2. printed \in Seq(U) /\ Len(printed) \in Nat
  OBVIOUS
<1>3. Echoed(cmd, printed) = Row(first, printed, last)
  BY DEF Echoed, Row
<1> HIDE DEF first, last, U
<1> DEFINE echoed == Row(first, printed, last)
<1>4a. echoed \in Seq(U) /\ Laid(echoed, first, printed, last)
  BY <1>1, <1>2, InARow, Zenon
<1> HIDE DEF echoed
<1>4. /\ echoed \in Seq(U) /\ Len(echoed) = 2 + Len(printed) + 2
      /\ echoed[1] = first[1] /\ echoed[2] = first[2]
      /\ \A i \in 1..Len(printed) : echoed[2 + i] = printed[i]
      /\ echoed[2 + Len(printed) + 1] = last[1] /\ echoed[2 + Len(printed) + 2] = last[2]
  BY <1>1, <1>2, <1>4a DEF Laid
<1>5. /\ 2 + Len(printed) + 2 = Len(printed) + 4
      /\ 2 + Len(printed) + 1 = Len(printed) + 3
  BY <1>2
<1>6. EchoedAs(cmd, printed, echoed)
  BY <1>1, <1>2, <1>4, <1>5 DEF EchoedAs
<1> QED BY <1>3, <1>4, <1>6 DEF U, echoed

(* CmdGroup and Cmd.ExtractResult: whatever commands run before and after  *)
(* in the same shell, and whatever they print, a command is given just     *)
(* what it printed without the last newline, or nothing at all if it ended *)
(* within a line or printed nothing -- unless a tag of its own is printed. *)
THEOREM OutputExtracted ==
  ASSUME NEW T, NEW cmd,
         NEW before \in Seq(T), NEW printed \in Seq(T), NEW after \in Seq(T),
         Without(cmd, before), Without(cmd, printed), Without(cmd, after)
  PROVE  ExtractResult(cmd, before \o Echoed(cmd, printed) \o after) =
           IF printed # <<>> /\ Last(printed) = Newline
             THEN [ok |-> TRUE, value |-> IF cmd.trim THEN TrimSpace(Front(printed))
                                                      ELSE Front(printed)]
             ELSE [ok |-> FALSE, value |-> <<>>]
<1> DEFINE U == T \cup {Open(cmd.key), Close(cmd.key), Newline}
           echoed == Echoed(cmd, printed)
           s == Row(before, echoed, after)
           b == Len(before)
           m == Len(printed)
<1>1a. echoed \in Seq(U) /\ EchoedAs(cmd, printed, echoed)
  BY EchoedPositions, Zenon
<1>2. before \in Seq(U) /\ after \in Seq(U) /\ b \in Nat /\ m \in Nat
  OBVIOUS
<1>2a. before \o Echoed(cmd, printed) \o after = s
  BY DEF Row
<1> HIDE DEF echoed, U
<1>1. /\ echoed \in Seq(U) /\ Len(echoed) = m + 4
      /\ echoed[1] = Open(cmd.key) /\ echoed[2] = Newline
      /\ \A i \in 1..m : echoed[2 + i] = printed[i]
      /\ echoed[m + 3] = Close(cmd.key) /\ echoed[m + 4] = Newline
  BY <1>1a DEF EchoedAs
<1>3a. s \in Seq(U) /\ Laid(s, before, echoed, after)
  BY <1>1a, <1>2, InARow, Zenon
<1>3. /\ s \in Seq(U) /\ Len(s) = b + (m + 4) + Len(after)
      /\ \A i \in 1..b : s[i] = before[i]
      /\ \A i \in 1..(m + 4) : s[b + i] = echoed[i]
      /\ \A i \in 1..Len(after) : s[b + (m + 4) + i] = after[i]
  <2> HIDE DEF s, m
  <2> QED BY <1>1, <1>2, <1>3a DEF Laid
<1> HIDE DEF s
<1>4. /\ s[b + 1] = Open(cmd.key) /\ s[b + 2] = Newline /\ s[b + m + 3] = Close(cmd.key)
      /\ \A i \in 1..m : s[b + 2 + i] = printed[i]
  <2>1. ASSUME NEW i \in 1..m PROVE s[b + (2 + i)] = printed[i]
    <3>1. 2 + i \in 1..(m + 4)
      BY <1>2
    <3> QED BY <1>1, <1>3, <3>1
  <2>2. s[b + (m + 3)] = Close(cmd.key)
    BY <1>1, <1>2, <1>3
  <2> QED BY <1>1, <1>2, <1>3, <2>1, <2>2
<1>5. ASSUME NEW i \in 1..Len(s) PROVE
        /\ s[i] = Open(cmd.key) => i = b + 1
        /\ s[i] = Close(cmd.key) => i = b + m + 3
  <2>1. CASE i \in 1..b
    BY <1>2, <1>3, <2>1 DEF Without
  <2>2. CASE i > b + (m + 4)
    <3>1. i - (b + (m + 4)) \in 1..Len(after) /\ i = b + (m + 4) + (i - (b + (m + 4)))
      BY <1>2, <1>3, <2>2
    <3>2. s[i] = after[i - (b + (m + 4))]
      BY <1>3, <3>1
    <3> QED BY <3>1, <3>2 DEF Without
  <2>3. CASE i \in {b + 1, b + 2, b + m + 3, b + m + 4}
    <3>1. s[b + (m + 4)] = Newline
      BY <1>1, <1>2, <1>3
    <3> QED BY <1>2, <1>4, <2>3, <3>1, Tags
  <2>4. CASE i > b + 2 /\ i < b + m + 3
    <3>1. i - (b + 2) \in 1..m /\ i = b + 2 + (i - (b + 2))
      BY <1>2, <2>4
    <3>2. s[i] = printed[i - (b + 2)]
      BY <1>4, <3>1
    <3> QED BY <3>1, <3>2 DEF Without
  <2>5. i \in Nat /\ i >= 1 /\ b \in Nat /\ m \in Nat
    BY <1>2, <1>3
  <2> HIDE DEF b, m
  <2>6. \/ i \in 1..b \/ i > b + (m + 4) \/ i \in {b + 1, b + 2, b + m + 3, b + m + 4}
        \/ i > b + 2 /\ i < b + m + 3
    BY <2>5
  <2> QED BY <2>1, <2>2, <2>3, <2>4, <2>6
<1> DEFINE captured == SubSeq(s, b + 3, b + m + 1)
<1>6. ExtractResult(cmd, s) =
        IF m > 0 /\ s[b + m + 2] = Newline
          THEN [ok |-> TRUE, value |-> IF cmd.trim THEN TrimSpace(captured) ELSE captured]
          ELSE [ok |-> FALSE, value |-> <<>>]
  <2> HIDE DEF b, m
  <2>1. Len(s) \in Nat /\ b + m + 4 <= Len(s)
    BY <1>2, <1>3
  <2> QED BY <1>2, <1>4, <1>5, <2>1, OutputBetweenTags
<1>7. m > 0 => s[b + m + 2] = Last(printed) /\ captured = Front(printed)
  <2> SUFFICES ASSUME m > 0 PROVE s[b + m + 2] = Last(printed) /\ captured = Front(printed)
    OBVIOUS
  <2>1. s[b + m + 2] = Last(printed)
    BY <1>2, <1>4 DEF Last
  <2>2. /\ Len(captured) = m - 1 /\ captured \in Seq(U)
        /\ \A i \in 1..(m - 1) : captured[i] = s[b + 3 + i - 1]
    <3>1. b \in Nat /\ m \in Nat /\ s \in Seq(U) /\ Len(s) \in Nat
          /\ b + m + 4 <= Len(s)
      BY <1>2, <1>3
    <3> HIDE DEF b, m, captured
    <3>2. b + 3 \in Nat /\ b + 3 >= 1 /\ b + m + 1 <= Len(s)
          /\ (b + m + 1) - (b + 3) + 1 = m - 1 /\ m - 1 \in Nat
      BY <3>1
    <3>3. captured = [i \in 1..(m - 1) |-> s[b + 3 + i - 1]]
      BY <3>1, <3>2 DEF captured
    <3>4. ASSUME NEW i \in 1..(m - 1) PROVE s[b + 3 + i - 1] \in U
      <4>1. b + 3 + i - 1 \in 1..Len(s)
        BY <3>1, <3>2
      <4> QED BY <3>1, <4>1, ElementOfSeq
    <3> QED BY <3>2, <3>3, <3>4
  <2>3. /\ Len(Front(printed)) = m - 1 /\ Front(printed) \in Seq(T)
        /\ \A i \in 1..(m - 1) : Front(printed)[i] = printed[i]
    <3>1. Front(printed) = SubSeq(printed, 1, m - 1)
      BY DEF Front
    <3>2. m \in Nat /\ DOMAIN printed = 1..m /\ 1 \in 1..(m + 1) /\ m - 1 \in 0..m
      BY <1>2
    <3> QED BY <3>1, <3>2
  <2>4. \A i \in 1..(m - 1) : s[b + 3 + i - 1] = printed[i]
    BY <1>2, <1>4
  <2> HIDE DEF captured, m, b
  <2>5. captured = Front(printed)
    <3> DEFINE front == Front(printed)
    <3>1. front \in Seq(T) /\ Len(front) = m - 1
          /\ \A i \in 1..(m - 1) : front[i] = printed[i]
      BY <2>3
    <3> HIDE DEF front
    <3>2. front = [i \in 1..(m - 1) |-> printed[i]]
      BY <1>2, <3>1
    <3>3. captured = [i \in 1..(m - 1) |-> printed[i]]
      BY <1>2, <2>2, <2>4
    <3> QED BY <3>2, <3>3 DEF front
  <2> QED BY <2>1, <2>5
<1>8. printed # <<>> <=> m > 0
  BY EmptySeq
<1> HIDE DEF captured, b, m
<1>9. CASE m > 0 /\ Last(printed) = Newline
  BY <1>6, <1>7, <1>8, <1>9, <1>2a
<1>10. CASE ~(m > 0 /\ Last(printed) = Newline)
  BY <1>6, <1>7, <1>8, <1>10, <1>2a
<1> QED BY <1>9, <1>10

\* Trimming does not see the newline at the end.
LEMMA TrimmedAlike ==
  ASSUME NEW T, NEW text \in Seq(T), text # <<>>, Last(text) = Newline
  PROVE  TrimSpace(Front(text)) = TrimSpace(text)
<1> DEFINE n == Len(text)
           front == Front(text)
           words == {i \in 1..n : text[i] \notin Blanks}
<1>1. n \in Nat \ {0} /\ DOMAIN text = 1..n /\ text[n] \in Blanks
  BY EmptySeq DEF Last, Blanks
<1>2. front = SubSeq(text, 1, n - 1)
  BY DEF Front
<1>3. Len(front) = n - 1 /\ DOMAIN front = 1..(n - 1) /\ \A i \in 1..(n - 1) : front[i] = text[i]
  BY <1>1, <1>2
<1> HIDE DEF n, front
<1>4. words = {i \in DOMAIN front : front[i] \notin Blanks}
  BY <1>1, <1>3
<1>5. words = {i \in DOMAIN text : text[i] \notin Blanks}
  BY <1>1
<1>6. CASE words = {}
  BY <1>4, <1>5, <1>6 DEF TrimSpace, front
<1>7. CASE words # {}
  <2>1. words \in SUBSET (1..n) /\ words \in SUBSET Nat
    BY <1>1
  <2>2. Min(words) \in words /\ Max(words) \in words
    <3> HIDE DEF words
    <3> QED BY <1>1, <1>7, <2>1, MinOf, MaxOf
  <2>3. Min(words) \in 1..(n - 1) /\ Max(words) \in 1..(n - 1)
    BY <1>1, <2>2
  <2> DEFINE least == Min(words)
             greatest == Max(words)
  <2> HIDE DEF least, greatest
  <2>4. least \in 1..(n - 1) /\ greatest \in 1..(n - 1)
    BY <2>3 DEF least, greatest
  <2>5. SubSeq(front, least, greatest) = SubSeq(text, least, greatest)
    BY <1>1, <1>3, <2>4
  <2> HIDE DEF words
  <2>6. TrimSpace(front) = SubSeq(front, least, greatest)
    BY <1>4, <1>7 DEF TrimSpace, least, greatest
  <2>7. TrimSpace(text) = SubSeq(text, least, greatest)
    BY <1>5, <1>7 DEF TrimSpace, least, greatest
  <2> QED BY <2>5, <2>6, <2>7 DEF front
<1> QED BY <1>6, <1>7

\* What the shell prints for two commands.
LEMMA FlattenTwo ==
  ASSUME NEW s, Len(s) = 2 PROVE FlattenSeq(s) = s[1] \o s[2]
<1> DEFINE Sum(g) == [i \in 1..2 |-> IF i = 1 THEN s[i] ELSE g[i - 1] \o s[i]]
           both == [i \in 1..2 |-> IF i = 1 THEN s[1] ELSE s[1] \o s[2]]
           flatten == CHOOSE g : g = Sum(g)
<1>1. both = Sum(both)
  OBVIOUS
<1>2. flatten = Sum(flatten)
  <2> HIDE DEF Sum, both
  <2> QED BY <1>1
<1>3. flatten[1] = s[1] /\ flatten[2] = flatten[1] \o s[2]
  <2> HIDE DEF flatten
  <2> QED BY <1>2
<1>4. FlattenSeq(s) = flatten[2]
  BY DEF FlattenSeq
<1> QED BY <1>3, <1>4

-----------------------------------------------------------------------------
(* The two commands of FetchCalls. *)

Tokens == {Newline, Blank, Word("a")}
Cmd(i, trim) == [key |-> IF i = 1 THEN "k1" ELSE "k2", trim |-> trim[i]]

\* What ExtractResult returns for a command that printed a text.
Extracted(trim, printed) ==
  IF printed # <<>> /\ Last(printed) = Newline
    THEN [ok |-> TRUE, value |-> IF trim THEN TrimSpace(Front(printed)) ELSE Front(printed)]
    ELSE [ok |-> FALSE, value |-> <<>>]

LEMMA TwoCommands ==
  ASSUME NEW trim PROVE Cmds(trim) = <<Cmd(1, trim), Cmd(2, trim)>>
<1> DEFINE c1 == [key |-> "k1", trim |-> trim[1]]
           c2 == [key |-> "k2", trim |-> trim[2]]
<1>1. Cmds(trim) = <<c1>> \o <<c2>>
  BY DEF Cmds, FetcherFactory
<1>2. Cmd(1, trim) = c1 /\ Cmd(2, trim) = c2
  BY DEF Cmd
<1> HIDE DEF c1, c2
<1>3. <<c1>> \o <<c2>> = <<c1, c2>>
  <2> DEFINE pair == <<c1>> \o <<c2>>
  <2>1. pair \in Seq({c1, c2}) /\ Len(pair) = 2 /\ pair[1] = c1 /\ pair[2] = c2
    OBVIOUS
  <2> HIDE DEF pair
  <2>2. pair = <<pair[1], pair[2]>>
    BY <2>1
  <2> QED BY <2>1, <2>2 DEF pair
<1> QED BY <1>1, <1>2, <1>3

LEMMA TokensAreNoTags ==
  ASSUME NEW t \in Tokens, NEW key PROVE t # Open(key) /\ t # Close(key)
BY DEF Tokens, Newline, Blank, Word, Open, Close

LEMMA OutputsAreTexts ==
  ASSUME NEW printed \in Outputs, NEW cmd
  PROVE  printed \in Seq(Tokens) /\ Without(cmd, printed)
<1>1. PICK n \in 0..2 : printed \in [1..n -> Tokens]
  BY DEF Outputs, Tokens
<1>2. printed \in Seq(Tokens) /\ Len(printed) = n /\ \A i \in 1..n : printed[i] \in Tokens
  BY <1>1
<1> QED BY <1>2, TokensAreNoTags DEF Without

\* The tags of one command are not those of the other.
LEMMA OtherTags ==
  ASSUME NEW printed \in Outputs, NEW cmd, NEW other, cmd.key # other.key
  PROVE  Without(cmd, Echoed(other, printed))
<1>1. printed \in Seq(Tokens) /\ Without(cmd, printed)
  BY OutputsAreTexts
<1>2. EchoedAs(other, printed, Echoed(other, printed))
  BY <1>1, EchoedPositions, Zenon
<1> DEFINE echoed == Echoed(other, printed)
           m == Len(printed)
<1>3. m \in Nat
  BY <1>1
<1> HIDE DEF echoed
<1>4. /\ Open(cmd.key) \notin {Open(other.key), Close(other.key), Newline}
      /\ Close(cmd.key) \notin {Open(other.key), Close(other.key), Newline}
  BY DEF Open, Close, Newline
<1>5. ASSUME NEW i \in 1..Len(echoed)
      PROVE  echoed[i] \notin {Open(cmd.key), Close(cmd.key)}
  <2>1. /\ Len(echoed) = m + 4 /\ echoed[1] = Open(other.key) /\ echoed[2] = Newline
        /\ \A j \in 1..m : echoed[2 + j] = printed[j]
        /\ echoed[m + 3] = Close(other.key) /\ echoed[m + 4] = Newline
    BY <1>2 DEF EchoedAs, echoed
  <2>2. CASE i \in {1, 2, m + 3, m + 4}
    BY <1>4, <2>1, <2>2
  <2>3. CASE i > 2 /\ i < m + 3
    <3>1. i - 2 \in 1..m /\ 2 + (i - 2) = i
      BY <1>3, <2>3
    <3>2. echoed[i] = printed[i - 2]
      BY <2>1, <3>1
    <3> QED BY <1>1, <3>1, <3>2 DEF Without
  <2> HIDE DEF m
  <2> QED BY <1>3, <2>1, <2>2, <2>3
<1> QED BY <1>5 DEF Without, echoed

\* The two outputs, each as its command's fetch sees it.
LEMMA TwoOutputs ==
  ASSUME NEW trim, NEW printed \in [1..2 -> Outputs], NEW i \in 1..2
  PROVE  ExtractResult(Cmd(i, trim), RunAll(Cmds(trim), printed)) =
           Extracted(trim[i], printed[i])
<1> DEFINE c1 == Cmd(1, trim)  c2 == Cmd(2, trim)
           e1 == Echoed(c1, printed[1])  e2 == Echoed(c2, printed[2])
           all == RunAll(Cmds(trim), printed)
           T == Tokens \cup {Open("k1"), Close("k1"), Open("k2"), Close("k2"), Newline}
<1>1. c1.key = "k1" /\ c2.key = "k2" /\ c1.trim = trim[1] /\ c2.trim = trim[2]
  BY DEF Cmd
<1>2. all = e1 \o e2
  <2> DEFINE each == [j \in DOMAIN Cmds(trim) |-> Echoed(Cmds(trim)[j], printed[j])]
  <2>1. Len(each) = 2 /\ each[1] = e1 /\ each[2] = e2
    BY TwoCommands
  <2> HIDE DEF each, e1, e2
  <2>2. FlattenSeq(each) = e1 \o e2
    BY <2>1, FlattenTwo
  <2> QED BY <2>2 DEF RunAll, each
<1>3. printed[1] \in Outputs /\ printed[2] \in Outputs
  OBVIOUS
<1>4. /\ printed[1] \in Seq(Tokens) /\ Without(c1, printed[1])
      /\ printed[2] \in Seq(Tokens) /\ Without(c2, printed[2])
  BY <1>3, OutputsAreTexts, Zenon
<1>5. /\ e1 \in Seq(Tokens \cup {Open(c1.key), Close(c1.key), Newline})
      /\ e2 \in Seq(Tokens \cup {Open(c2.key), Close(c2.key), Newline})
  BY <1>4, EchoedPositions, Zenon
<1>6. Without(c1, e2) /\ Without(c2, e1)
  <2>1. c1.key # c2.key
    BY <1>1
  <2> HIDE DEF c1, c2
  <2> QED BY <1>3, <2>1, OtherTags
<1> HIDE DEF c1, c2, e1, e2, all
<1>7. /\ <<>> \in Seq(T) /\ Without(c1, <<>>) /\ Without(c2, <<>>)
      /\ printed[1] \in Seq(T) /\ printed[2] \in Seq(T) /\ e1 \in Seq(T) /\ e2 \in Seq(T)
  BY <1>1, <1>4, <1>5 DEF Without
<1>8. all = <<>> \o e1 \o e2 /\ all = e1 \o e2 \o <<>>
  BY <1>2, <1>7
<1> HIDE DEF T
<1>9. ExtractResult(c1, <<>> \o Echoed(c1, printed[1]) \o e2) =
        IF printed[1] # <<>> /\ Last(printed[1]) = Newline
          THEN [ok |-> TRUE, value |-> IF c1.trim THEN TrimSpace(Front(printed[1]))
                                                  ELSE Front(printed[1])]
          ELSE [ok |-> FALSE, value |-> <<>>]
  BY <1>4, <1>6, <1>7, OutputExtracted, Zenon
<1>10. ExtractResult(c2, e1 \o Echoed(c2, printed[2]) \o <<>>) =
         IF printed[2] # <<>> /\ Last(printed[2]) = Newline
           THEN [ok |-> TRUE, value |-> IF c2.trim THEN TrimSpace(Front(printed[2]))
                                                   ELSE Front(printed[2])]
           ELSE [ok |-> FALSE, value |-> <<>>]
  BY <1>4, <1>6, <1>7, OutputExtracted, Zenon
<1>11. ExtractResult(c1, all) = Extracted(trim[1], printed[1])
  BY <1>1, <1>8, <1>9 DEF Extracted, e1
<1>12. ExtractResult(c2, all) = Extracted(trim[2], printed[2])
  BY <1>1, <1>8, <1>10 DEF Extracted, e2
<1> QED BY <1>11, <1>12 DEF c1, c2, all

\* What runCommands returns for them: all outputs, or none.
LEMMA TwoResults ==
  ASSUME NEW trim, NEW printed \in [1..2 -> Outputs], NEW delivered \in BOOLEAN
  PROVE  LET E(i) == Extracted(trim[i], printed[i])
             ran == runCommands(Cmds(trim), [ok |-> delivered,
                                             stdout |-> RunAll(Cmds(trim), printed)])
         IN  IF delivered /\ E(1).ok /\ E(2).ok
               THEN ran = [ok |-> TRUE,
                           result |-> [key \in {"k1", "k2"} |->
                                         IF key = "k1" THEN E(1).value ELSE E(2).value]]
               ELSE ran = [ok |-> FALSE, result |-> <<>>]
<1> DEFINE cmds == Cmds(trim)
           all == RunAll(cmds, printed)
           c1 == Cmd(1, trim)  c2 == Cmd(2, trim)
           E(i) == Extracted(trim[i], printed[i])
           Of(key) == cmds[Max({i \in DOMAIN cmds : cmds[i].key = key})]
<1>1. cmds = <<c1, c2>> /\ c1.key = "k1" /\ c2.key = "k2"
  <2>1. c1.key = "k1" /\ c2.key = "k2"
    BY DEF Cmd
  <2> QED BY <2>1, TwoCommands
<1>2. ExtractResult(c1, all) = E(1) /\ ExtractResult(c2, all) = E(2)
  BY TwoOutputs
<1>3. DOMAIN cmds = 1..2 /\ cmds[1] = c1 /\ cmds[2] = c2
  BY <1>1
<1>4. (\A i \in DOMAIN cmds : ExtractResult(cmds[i], all).ok) <=> E(1).ok /\ E(2).ok
  <2> HIDE DEF cmds, all, c1, c2, E
  <2> QED BY <1>2, <1>3
<1>5. Keys(cmds) = {"k1", "k2"}
  <2> HIDE DEF cmds, c1, c2
  <2> QED BY <1>1, <1>3 DEF Keys
<1>6. Of("k1") = c1 /\ Of("k2") = c2
  <2> HIDE DEF cmds, c1, c2
  <2>1. /\ {i \in DOMAIN cmds : cmds[i].key = "k1"} = {1}
        /\ {i \in DOMAIN cmds : cmds[i].key = "k2"} = {2}
    BY <1>1, <1>3
  <2>2. Max({1}) = 1 /\ Max({2}) = 2
    BY DEF Max
  <2> QED BY <1>3, <2>1, <2>2
<1> HIDE DEF cmds, all, c1, c2, E, Of
<1>7. [key \in Keys(cmds) |-> ExtractResult(Of(key), all).value] =
        [key \in {"k1", "k2"} |-> IF key = "k1" THEN E(1).value ELSE E(2).value]
  BY <1>2, <1>5, <1>6
<1>8. ExtractAll(cmds, all) =
        IF E(1).ok /\ E(2).ok
          THEN [ok |-> TRUE,
                result |-> [key \in Keys(cmds) |-> ExtractResult(Of(key), all).value]]
          ELSE [ok |-> FALSE, result |-> <<>>]
  BY <1>4 DEF ExtractAll, Of
<1>9. runCommands(cmds, [ok |-> delivered, stdout |-> all]) =
        IF delivered THEN ExtractAll(cmds, all) ELSE [ok |-> FALSE, result |-> <<>>]
  BY DEF runCommands
<1>10. CASE delivered /\ E(1).ok /\ E(2).ok
  BY <1>7, <1>8, <1>9, <1>10 DEF cmds, all, E
<1>11. CASE ~(delivered /\ E(1).ok /\ E(2).ok)
  BY <1>8, <1>9, <1>11 DEF cmds, all, E
<1> QED BY <1>10, <1>11 DEF E

LEMMA FetchTwo ==
  ASSUME CallInv, call.function = "Fetch", result # <<>>
  PROVE  /\ call \in FetchCalls
         /\ ~Fetchable => result = [ok |-> FALSE, pack |-> Pack]
         /\ Fetchable =>
              result = unmarshal(Merged([key \in {"k1", "k2"} |->
                                           IF key = "k1" THEN OutputOf(1) ELSE OutputOf(2)],
                                        call.post.values), Fields, Pack)
<1> DEFINE E(i) == Extracted(call.trim[i], call.printed[i])
           ran == runCommands(Cmds(call.trim),
                              [ok |-> call.delivered,
                               stdout |-> RunAll(Cmds(call.trim), call.printed)])
<1>1. call \in FetchCalls
  BY CallKinds DEF CallInv
<1>2. /\ call.printed \in [1..2 -> Outputs] /\ call.delivered \in BOOLEAN
      /\ call.printed[1] \in Outputs /\ call.printed[2] \in Outputs
      /\ call.post \in PostProcessors
  BY <1>1 DEF FetchCalls
<1>3. result = IF ~ran.ok \/ ~call.post.ok THEN [ok |-> FALSE, pack |-> Pack]
               ELSE unmarshal(Merged(ran.result, call.post.values), Fields, Pack)
  BY DEF CallInv, Computed, Fetch
<1>4. IF call.delivered /\ E(1).ok /\ E(2).ok
        THEN ran = [ok |-> TRUE,
                    result |-> [key \in {"k1", "k2"} |->
                                  IF key = "k1" THEN E(1).value ELSE E(2).value]]
        ELSE ran = [ok |-> FALSE, result |-> <<>>]
  BY <1>2, TwoResults
<1>5. ASSUME NEW i \in 1..2
      PROVE  (E(i).ok <=> Printed(i)) /\ (Printed(i) => E(i).value = OutputOf(i))
  <2>1. call.printed[i] \in Seq(Tokens)
    BY <1>2, OutputsAreTexts
  <2>2. Printed(i) => TrimSpace(Front(call.printed[i])) = TrimSpace(call.printed[i])
    BY <2>1, TrimmedAlike DEF Printed
  <2> QED BY <2>2 DEF Extracted, Printed, OutputOf
<1> HIDE DEF ran, E
<1>6. /\ E(1).ok <=> Printed(1)
      /\ E(2).ok <=> Printed(2)
      /\ Printed(1) => E(1).value = OutputOf(1)
      /\ Printed(2) => E(2).value = OutputOf(2)
  BY <1>5
<1>7. CASE Fetchable
  <2>1. ran.ok /\ ran.result = [key \in {"k1", "k2"} |->
                                  IF key = "k1" THEN OutputOf(1) ELSE OutputOf(2)]
    BY <1>4, <1>6, <1>7 DEF Fetchable
  <2> QED BY <1>1, <1>3, <1>7, <2>1 DEF Fetchable
<1>8. CASE ~Fetchable
  <2>1. ~ran.ok \/ ~call.post.ok
    BY <1>4, <1>6, <1>8 DEF Fetchable
  <2> QED BY <1>1, <1>3, <1>8, <2>1
<1> QED BY <1>7, <1>8

\* The fields of the pack, one by one.
LEMMA Unmarshalled ==
  ASSUME NEW text1, NEW text2, NEW values,
         values \in {NoValues, [sum |-> Number], [sum |-> Text(<<>>)], [k1 |-> Text(<<>>)]}
  PROVE  LET printed == [key \in {"k1", "k2"} |-> IF key = "k1" THEN text1 ELSE text2]
             done == unmarshal(Merged(printed, values), Fields, Pack)
             wrong == "sum" \in DOMAIN values /\ values["sum"] # Number
         IN  /\ done.ok <=> ~wrong
             /\ ~wrong => done.pack = [i \in DOMAIN Fields |->
                  IF Fields[i].key \in DOMAIN values THEN values[Fields[i].key]
                  ELSE IF i = 1 THEN Text(text1) ELSE IF i = 2 THEN Text(text2) ELSE Zero]
<1> DEFINE printed == [key \in {"k1", "k2"} |-> IF key = "k1" THEN text1 ELSE text2]
           merged == Merged(printed, values)
           done == unmarshal(merged, Fields, Pack)
           wrong == "sum" \in DOMAIN values /\ values["sum"] # Number
           isWrong == {i \in DOMAIN Fields : /\ Fields[i].key \in DOMAIN merged
                                             /\ merged[Fields[i].key].type # Fields[i].type}
<1>1. /\ DOMAIN Fields = 1..3
      /\ Fields[1].key = "k1" /\ Fields[2].key = "k2" /\ Fields[3].key = "sum"
      /\ Fields[1].type = "string" /\ Fields[2].type = "string" /\ Fields[3].type = "number"
  BY DEF Fields
<1>2. /\ DOMAIN values \subseteq {"k1", "sum"}
      /\ "sum" \in DOMAIN values => values["sum"] \in {Number, Text(<<>>)}
      /\ "k1" \in DOMAIN values => values["k1"] = Text(<<>>)
  BY DEF NoValues
<1>3. /\ DOMAIN merged = {"k1", "k2"} \cup DOMAIN values
      /\ \A key \in DOMAIN merged :
           merged[key] = IF key \in DOMAIN values THEN values[key] ELSE Text(printed[key])
  BY DEF Merged
<1>4. Number.type = "number" /\ \A data : Text(data).type = "string"
  BY DEF Number, Text
<1> HIDE DEF merged
<1>5. printed["k1"] = text1 /\ printed["k2"] = text2
  OBVIOUS
<1> HIDE DEF printed
<1>6. isWrong = IF wrong THEN {3} ELSE {}
  <2>1. Number # Text(<<>>)
    BY <1>4
  <2> QED BY <1>1, <1>2, <1>3, <1>4, <2>1
<1>7. done.ok <=> isWrong = {}
  BY DEF unmarshal
<1>8. ASSUME isWrong = {}
      PROVE  done.pack = [i \in DOMAIN Fields |->
               IF Fields[i].key \in DOMAIN merged THEN merged[Fields[i].key] ELSE Pack[i]]
  BY <1>8 DEF unmarshal
<1>9. \A i \in DOMAIN Fields : Pack[i] = Zero
  BY DEF Pack
<1> HIDE DEF isWrong, done
<1>10. ASSUME ~wrong
       PROVE  done.pack = [i \in DOMAIN Fields |->
                IF Fields[i].key \in DOMAIN values THEN values[Fields[i].key]
                ELSE IF i = 1 THEN Text(text1) ELSE IF i = 2 THEN Text(text2) ELSE Zero]
  <2>1. ASSUME NEW i \in DOMAIN Fields
        PROVE  (IF Fields[i].key \in DOMAIN merged THEN merged[Fields[i].key] ELSE Pack[i]) =
                 (IF Fields[i].key \in DOMAIN values THEN values[Fields[i].key]
                  ELSE IF i = 1 THEN Text(text1) ELSE IF i = 2 THEN Text(text2) ELSE Zero)
    <3>1. i \in {1, 2, 3}
      BY <1>1
    <3> QED BY <1>1, <1>3, <1>5, <1>9, <3>1
  <2> QED BY <1>6, <1>8, <1>10, <2>1
<1> QED BY <1>6, <1>7, <1>10 DEF done, merged, printed

LEMMA FetchIsExact == CallInv => FetchExact /\ FetchAllOrNothing
<1> SUFFICES ASSUME CallInv, call.function = "Fetch", result # <<>>
             PROVE  FetchExact /\ FetchAllOrNothing
  BY DEF FetchExact, FetchAllOrNothing, Fetched
<1> DEFINE values == call.post.values
<1>1. call \in FetchCalls
  BY FetchTwo
<1>2. values \in {NoValues, [sum |-> Number], [sum |-> Text(<<>>)], [k1 |-> Text(<<>>)]}
  BY <1>1 DEF FetchCalls, PostProcessors
<1> HIDE DEF values
<1>3. CASE Fetchable
  <2> DEFINE printed == [key \in {"k1", "k2"} |->
                           IF key = "k1" THEN OutputOf(1) ELSE OutputOf(2)]
             done == unmarshal(Merged(printed, values), Fields, Pack)
  <2>1. result = done
    BY <1>3, FetchTwo DEF values
  <2>1a. call.delivered /\ call.post.ok
    BY <1>3 DEF Fetchable
  <2>2. /\ done.ok <=> ~WrongType
        /\ ~WrongType => done.pack = [i \in DOMAIN Fields |->
             IF Fields[i].key \in DOMAIN values THEN values[Fields[i].key]
             ELSE IF i = 1 THEN Text(OutputOf(1))
             ELSE IF i = 2 THEN Text(OutputOf(2)) ELSE Zero]
    BY <1>2, Unmarshalled DEF WrongType, values
  <2> HIDE DEF done
  <2>3. ASSUME NEW i \in DOMAIN Fields
        PROVE  (IF i = 1 THEN Text(OutputOf(1)) ELSE IF i = 2 THEN Text(OutputOf(2)) ELSE Zero)
                 = (IF i <= 2 THEN Text(OutputOf(i)) ELSE Zero)
    <3>1. i \in {1, 2, 3}
      BY DEF Fields
    <3> QED BY <3>1
  <2>4. FetchExact
    BY <1>3, <2>1, <2>2, <2>3 DEF FetchExact, values
  <2>5. ~WrongType => result.pack[1] # Zero /\ result.pack[2] # Zero
    <3>1. ASSUME NEW i \in 1..2, ~WrongType PROVE result.pack[i] # Zero
      <4>1. i \in DOMAIN Fields /\ i \in {1, 2}
        BY DEF Fields
      <4>2. result.pack[i] = IF Fields[i].key \in DOMAIN values THEN values[Fields[i].key]
                             ELSE IF i = 1 THEN Text(OutputOf(1)) ELSE Text(OutputOf(2))
        BY <2>1, <2>2, <3>1, <4>1
      <4>3. Fields[i].key \in DOMAIN values => values[Fields[i].key] # Zero
        BY <1>2, <4>1 DEF Fields, NoValues, Number, Text, Zero
      <4>4. \A data : Text(data) # Zero
        BY DEF Text, Zero
      <4> QED BY <4>2, <4>3, <4>4
    <3> QED BY <3>1
  <2>6. FetchAllOrNothing
    BY <2>1, <2>1a, <2>2, <2>5 DEF FetchAllOrNothing
  <2> QED BY <2>4, <2>6
<1>4. CASE ~Fetchable
  <2>1. ~result.ok /\ result.pack = Pack
    BY <1>4, FetchTwo
  <2> QED BY <1>4, <2>1 DEF FetchExact, FetchAllOrNothing
<1> QED BY <1>3, <1>4

(* Fetcher.Fetch: commands that share a shell do not mix up their outputs. *)
THEOREM FetchesExactly == CallsSpec => []FetchExact
BY CallsKeep, FetchIsExact, PTL

(* Fetcher.Fetch: a broken stream or a failing post-processor leaves every *)
(* field of the pack as it was, and success sets the field of each command.*)
THEOREM FetchesAllOrNothing == CallsSpec => []FetchAllOrNothing
BY CallsKeep, FetchIsExact, PTL

-----------------------------------------------------------------------------
(* The verification of an environment. *)

Held == <<gpsDetails, antCheck, attempts>>

-----------------------------------------------------------------------------
(* What the operators return. *)

LEMMA VersionCheckType ==
  ASSUME NEW check, NEW version PROVE VersionCheck(check, version) \in Errors
BY DEF VersionCheck, Invalid, Errors

LEMMA DeviceChecksType ==
  ASSUME NEW info
  PROVE  /\ DeviceChecks(info) \in [DeviceNames -> Errors]
         /\ DOMAIN DeviceChecks(info) = DeviceNames
<1>1. DeviceDetails(info.vendor, info.device) \in Errors
  BY DEF DeviceDetails, Invalid, Errors
<1>2. DeviceDriver(info.driver) \in Errors
  BY VersionCheckType DEF DeviceDriver, VersionWithErrorCheck, Errors
<1>3. VersionCheck("firmware", info.firmware) \in Errors
  BY VersionCheckType
<1> QED BY <1>1, <1>2, <1>3 DEF DeviceChecks, DeviceNames

LEMMA VersionValidationsType ==
  ASSUME NEW versions
  PROVE  /\ VersionValidations(versions) \in [VersionNames -> Errors]
         /\ DOMAIN VersionValidations(versions) = VersionNames
<1>1. VersionCheck("gnss", versions.firmware.version) \in Errors
  BY VersionCheckType
<1>2. VersionCheck("gpsd", versions.gpsd) \in Errors
  BY VersionCheckType
<1>3. VersionCheck("protocol", versions.protocol) \in Errors
  BY VersionCheckType
<1>4. GNSDevices(versions.devices) \in Errors
  BY DEF GNSDevices, Invalid, Errors
<1>5. GNSSModule(versions.module) \in Errors
  BY DEF GNSSModule, Invalid, Errors
<1> QED BY <1>1, <1>2, <1>3, <1>4, <1>5 DEF VersionValidations, VersionNames

LEMMA ClusterChecksType ==
  ASSUME NEW configs, NEW csvs, NEW versions
  PROVE  /\ ClusterChecks(configs, csvs, versions) \in [ClusterNames -> Errors]
         /\ DOMAIN ClusterChecks(configs, csvs, versions) = ClusterNames
<1>1. GrandMaster(configs) \in Errors
  BY DEF GrandMaster, Invalid, Errors
<1>2. \A check, failed, version : VersionWithErrorCheck(check, failed, version) \in Errors
  BY VersionCheckType DEF VersionWithErrorCheck, Errors
<1>3. OperatorVersion(csvs) \in Errors
  BY <1>2 DEF OperatorVersion
<1>4. ClusterVersion(versions) \in Errors
  BY <1>2 DEF ClusterVersion
<1> QED BY <1>1, <1>3, <1>4 DEF ClusterChecks, ClusterNames

\* Only an InvalidEnvError makes a result a failure.
LEMMA ResultOfError ==
  ASSUME NEW err \in Errors
  PROVE  /\ ResultOf(err) = "failure" <=> err = "invalidEnv"
         /\ ResultOf(err) = "unknown" <=> err = "other"
BY DEF ResultOf, Errors

LEMMA InvalidEnvCode == ExitCode("invalidEnv") = "InvalidEnv"
BY DEF ExitCode

LEMMA AntStatusType ==
  ASSUME NEW blocks PROVE GNSSAntStatus(blocks) \in {"nil", "invalidEnv"}
BY DEF GNSSAntStatus, Invalid

LEMMA NavStatusType ==
  ASSUME NEW fix PROVE GNSSNavStatus(fix) \in {"nil", "invalidEnv"}
BY DEF GNSSNavStatus, Invalid

\* A driver is never too old for minDriverVersion.
LEMMA DriverVerdict ==
  ASSUME NEW driver, driver.version \in Nat
  PROVE  DeviceDriver(driver) # "invalidEnv"
<1>1. CASE OutOfTreeDriver(driver) \/ driver.version = NoVersion
  BY <1>1 DEF DeviceDriver, VersionWithErrorCheck, VersionCheck
<1>2. CASE ~OutOfTreeDriver(driver) /\ driver.version # NoVersion
  <2>1. ~(driver.version < MinInTreeDriver)
    BY <1>2 DEF OutOfTreeDriver
  <2>2. MinVersion["driver"] \in Nat /\ MinVersion["driver"] <= MinInTreeDriver
        /\ MinInTreeDriver \in Nat
    BY VersionsAssumption DEF VersionChecks
  <2>3. ~(driver.version < MinVersion["driver"])
    BY <2>1, <2>2
  <2> QED BY <1>2, <2>3 DEF DeviceDriver, VersionWithErrorCheck, VersionCheck, Invalid
<1> QED BY <1>1, <1>2

-----------------------------------------------------------------------------
(* The invariant. *)

USE DEF DeviceNames, VersionNames, StatusNames, ClusterNames

LEMMA InitInv == Init => IInv
<1> SUFFICES ASSUME Init PROVE IInv
  OBVIOUS
<1>1. TypeOK
  BY DEF Init, TypeOK, Phases, Errors, AllNames
<1>2. Gathered /\ Attempted /\ Judged
  BY RetriesAssumption DEF Init, Gathered, Attempted, Judged, Failed, Held
<1>3. VerdictTold /\ OneAnswerJudged /\ EveryAttemptMade
  BY DEF Init, VerdictTold, OneAnswerJudged, EveryAttemptMade
<1> QED BY <1>1, <1>2, <1>3 DEF IInv

\* What ends a verification before all the checks are made keeps the invariant.
LEMMA ExitInv ==
  ASSUME IInv, NEW from \in {"devInfo", "gpsVersions", "gpsStatus"},
         NEW code \in {"MissingInput", "panic"}, Exit(from, code),
         UNCHANGED Held, attempts = <<>> \/ (Tried /\ ~gpsDetails.ok),
         devInfo' = devInfo \/ from = "devInfo"
  PROVE  IInv'
<1> USE DEF Exit, Goto, Held, IInv
<1>1. TypeOK'
  BY DEF TypeOK, Phases
<1>2. DOMAIN checks # AllNames /\ "antenna" \notin DOMAIN checks
      /\ (from = "devInfo" => DOMAIN checks = {})
  BY DEF Gathered, AllNames
<1>3. Gathered'
  BY <1>2 DEF Gathered
<1>4. Attempted'
  BY DEF Attempted, OutcomeOf
<1>5. Judged'
  BY <1>2 DEF Judged
<1>6. VerdictTold' /\ OneAnswerJudged'
  BY <1>2 DEF VerdictTold, OneAnswerJudged
<1>7. ASSUME attempts # <<>>
      PROVE  Len(attempts) = AntPowerRetries /\ \A i \in DOMAIN attempts : attempts[i] # "on"
  <2>1. attempts \in Seq({"failed", "on", "off"}) /\ Len(attempts) \in Nat
        /\ DOMAIN attempts = 1..Len(attempts)
    BY DEF TypeOK
  <2>2. attempts[Len(attempts)] # "on"
    BY <1>7 DEF Attempted, OutcomeOf
  <2>3. \A i \in DOMAIN attempts : i = Len(attempts) \/ i \in 1..(Len(attempts) - 1)
    BY <2>1
  <2> QED BY <1>7, <2>2, <2>3 DEF Attempted, Tried
<1>8. EveryAttemptMade'
  BY <1>2, <1>7 DEF EveryAttemptMade
<1> QED BY <1>1, <1>3, <1>4, <1>5, <1>6, <1>8

\* The checks of the card are the first.
LEMMA DeviceInv ==
  ASSUME IInv, NEW listing \in GNSSListings, NEW run \in DeviceRuns,
         getDevInfoValidations(listing, run)
  PROVE  IInv'
<1> DEFINE info == GetPTPDeviceInfo(HasGNSSCommand(listing), run)
<1>1. CASE info.ok /\ ~info.driver.empty
  <2>1. Proceed("devInfo", "gpsVersions", DeviceChecks(info)) /\ devInfo' = info
        /\ UNCHANGED Held
    BY <1>1 DEF getDevInfoValidations, Held
  <2>2. info.driver.version \in Nat
    <3>1. info.driver = run.ethtool.driver
      BY <1>1 DEF GetPTPDeviceInfo, extractEthtoolsInfo, Failed
    <3> QED BY <3>1, DriverVersionsAssumption
  <2> HIDE DEF info
  <2> USE <2>1 DEF Proceed, Goto, Held, IInv
  <2>3. checks' \in [DeviceNames -> Errors] /\ DOMAIN checks' = DeviceNames
        /\ \A name \in DeviceNames : checks'[name] = DeviceChecks(info)[name]
    <3>1. DOMAIN checks = {}
      BY DEF Gathered
    <3>2. checks \in [DOMAIN checks -> Errors]
      BY DEF TypeOK
    <3>3. DOMAIN DeviceChecks(info) = DeviceNames
      BY DeviceChecksType
    <3>4. DeviceChecks(info) \in [DeviceNames -> Errors]
      BY DeviceChecksType
    <3>5. checks' = Joined(checks, DeviceChecks(info))
      OBVIOUS
    <3>6. DOMAIN checks' = DeviceNames
          /\ \A name \in DeviceNames : checks'[name] = DeviceChecks(info)[name]
      BY <3>1, <3>3, <3>5 DEF Joined
    <3>7. checks' \in [DOMAIN checks \cup DOMAIN DeviceChecks(info) -> Errors]
      BY <3>2, <3>3, <3>4, <3>5 DEF Joined
    <3> QED BY <3>1, <3>3, <3>6, <3>7
  <2>4. TypeOK'
    BY <2>3 DEF TypeOK, Phases, AllNames
  <2>5. Gathered'
    BY <2>3 DEF Gathered
  <2>6. Attempted'
    BY DEF Attempted, OutcomeOf
  <2>7. Judged'
    BY <2>2, <2>3 DEF Judged
  <2>8. VerdictTold' /\ OneAnswerJudged' /\ EveryAttemptMade'
    BY <2>3 DEF VerdictTold, OneAnswerJudged, EveryAttemptMade, Gathered
  <2> QED BY <2>4, <2>5, <2>6, <2>7, <2>8
<1>2. CASE ~(info.ok /\ ~info.driver.empty)
  <2>1. Exit("devInfo", "panic") /\ UNCHANGED Held
    BY <1>2 DEF getDevInfoValidations, Held
  <2>2. attempts = <<>>
    BY <2>1 DEF IInv, Attempted, Exit, Goto
  <2> QED BY <2>1, <2>2, ExitInv
<1> QED BY <1>1, <1>2

\* A later group of checks joins those there are.
LEMMA ProceedInv ==
  ASSUME IInv, NEW from, NEW to, NEW gathered, NEW names, Proceed(from, to, gathered),
         UNCHANGED <<devInfo, Held>>,
         DOMAIN gathered = names, gathered \in [names -> Errors],
         \/ from = "gpsVersions" /\ to = "gpsStatus" /\ names = VersionNames
         \/ from = "gpsStatus" /\ to = "cluster" /\ names = StatusNames
            /\ Tried /\ gpsDetails.ok /\ gathered["antenna"] = antCheck
            /\ gathered["receiving"] = GNSSNavStatus(gpsDetails.fix)
         \/ from = "cluster" /\ to = "report" /\ names = ClusterNames
  PROVE  IInv'
<1> USE DEF Proceed, Goto, Held, IInv
<1>1. checks' = Joined(checks, gathered)
  OBVIOUS
<1>2. checks \in [DOMAIN checks -> Errors]
  BY DEF TypeOK
<1>3. checks' \in [DOMAIN checks \cup names -> Errors] /\ DOMAIN checks' = DOMAIN checks \cup names
  BY <1>1, <1>2 DEF Joined
<1>4. /\ \A n \in names : checks'[n] = gathered[n]
      /\ \A n \in DOMAIN checks \ names : checks'[n] = checks[n]
  BY <1>1 DEF Joined
<1>5. TypeOK'
  BY <1>3 DEF TypeOK, Phases, AllNames
<1>6. Gathered'
  BY <1>3 DEF Gathered, AllNames
<1>7. Attempted'
  BY DEF Attempted, OutcomeOf
<1>8. Judged'
  <2>1. "device" \in DOMAIN checks /\ names \cap DeviceNames = {}
    BY DEF Gathered
  <2>2. \A name \in DeviceNames : name \in DOMAIN checks' /\ checks'[name] = DeviceChecks(devInfo')[name]
    BY <1>3, <1>4, <2>1 DEF Judged
  <2>3. "antenna" \in DOMAIN checks' => Tried' /\ "receiving" \in DOMAIN checks' /\ phase' \in {"cluster", "report"}
    BY <1>3 DEF Judged, Tried, Gathered
  <2> QED BY <2>1, <2>2, <2>3 DEF Judged
<1>9. VerdictTold'
  BY DEF VerdictTold
<1>10. OneAnswerJudged'
  <2>1. CASE from = "gpsStatus"
    BY <2>1, <1>3, <1>4 DEF OneAnswerJudged, Attempted
  <2>2. CASE from = "cluster"
    BY <2>2, <1>3, <1>4 DEF OneAnswerJudged, Judged, Gathered
  <2>3. CASE from = "gpsVersions"
    BY <2>3, <1>3 DEF OneAnswerJudged, Gathered
  <2> QED BY <2>1, <2>2, <2>3
<1>11. EveryAttemptMade'
  <2>1. exit' = "none"
    BY DEF Gathered
  <2>2. CASE from = "gpsStatus"
    <3>1. ASSUME antCheck = "invalidEnv"
          PROVE  Len(attempts) = AntPowerRetries /\ \A i \in DOMAIN attempts : attempts[i] # "on"
      <4>1. attempts \in Seq({"failed", "on", "off"}) /\ Len(attempts) \in Nat
            /\ DOMAIN attempts = 1..Len(attempts)
        BY DEF TypeOK
      <4>2. OutcomeOf(gpsDetails) # "on"
        BY <2>2, <3>1 DEF Attempted, OutcomeOf
      <4>3. attempts # <<>>
        BY <2>2, RetriesAssumption DEF Tried
      <4>4. \A i \in DOMAIN attempts : i = Len(attempts) \/ i \in 1..(Len(attempts) - 1)
        BY <4>1
      <4> QED BY <2>2, <4>2, <4>3, <4>4 DEF Attempted, Tried
    <3> QED BY <2>1, <2>2, <3>1, <1>3, <1>4 DEF EveryAttemptMade
  <2>3. CASE from = "cluster"
    BY <2>1, <2>3, <1>3, <1>4 DEF EveryAttemptMade, Gathered
  <2>4. CASE from = "gpsVersions"
    BY <2>1, <2>4, <1>3 DEF EveryAttemptMade, Gathered
  <2> QED BY <2>2, <2>3, <2>4
<1> QED BY <1>5, <1>6, <1>7, <1>8, <1>9, <1>10, <1>11

\* A round of the loop adds its outcome.
LEMMA AttemptInv ==
  ASSUME IInv, NEW run \in StatusRuns, Attempt(run) PROVE IInv'
<1> DEFINE details == GetGPSNav(run)
<1>1. /\ phase = "gpsStatus" /\ ~Tried /\ gpsDetails' = details
      /\ attempts' = Append(attempts, OutcomeOf(details))
      /\ antCheck' = IF details.ok THEN GNSSAntStatus(details.antennas) ELSE antCheck
      /\ UNCHANGED <<phase, useAnalyserJSON, devInfo, checks, reported, exit>>
  BY DEF Attempt
<1> HIDE DEF details
<1> USE <1>1 DEF IInv
<1>2. OutcomeOf(details) \in {"failed", "on", "off"}
  BY DEF OutcomeOf
<1>3. attempts \in Seq({"failed", "on", "off"}) /\ Len(attempts) \in Nat
  BY DEF TypeOK
<1>4. /\ attempts' \in Seq({"failed", "on", "off"})
      /\ Len(attempts') = Len(attempts) + 1
      /\ attempts'[Len(attempts')] = OutcomeOf(details)
      /\ \A i \in 1..Len(attempts) : attempts'[i] = attempts[i]
  BY <1>2, <1>3
<1>5. Len(attempts) < AntPowerRetries
  BY <1>3, RetriesAssumption DEF Attempted, Tried
<1>6. \A i \in 1..Len(attempts) : attempts[i] # "on"
  <2>1. \A i \in 1..Len(attempts) : i = Len(attempts) \/ i \in 1..(Len(attempts) - 1)
    BY <1>3
  <2>2. attempts = <<>> \/ attempts[Len(attempts)] # "on"
    BY DEF Tried
  <2> QED BY <1>3, <2>1, <2>2 DEF Attempted
<1>7. TypeOK'
  BY <1>4, AntStatusType DEF TypeOK
<1>8. Gathered'
  BY DEF Gathered
<1>9. Attempted'
  <2>1. Len(attempts') <= AntPowerRetries
    BY <1>3, <1>4, <1>5, RetriesAssumption
  <2>2. attempts'[Len(attempts')] = OutcomeOf(gpsDetails')
    BY <1>4
  <2>3. \A i \in 1..(Len(attempts') - 1) : attempts'[i] # "on"
    BY <1>3, <1>4, <1>6
  <2>4. gpsDetails'.ok => antCheck' = GNSSAntStatus(gpsDetails'.antennas)
    OBVIOUS
  <2>5. OutcomeOf(gpsDetails)' = OutcomeOf(gpsDetails')
    BY DEF OutcomeOf
  <2> QED BY <2>1, <2>2, <2>3, <2>4, <2>5 DEF Attempted, GNSSAntStatus, Invalid
<1>10. "antenna" \notin DOMAIN checks /\ exit = "none"
  BY DEF Gathered
<1>11. Judged' /\ VerdictTold' /\ OneAnswerJudged' /\ EveryAttemptMade'
  BY <1>10 DEF Judged, VerdictTold, OneAnswerJudged, EveryAttemptMade
<1> QED BY <1>7, <1>8, <1>9, <1>11

\* The report.
LEMMA ReportsInv ==
  ASSUME IInv, NEW names \in SUBSET AllNames,
         Reports(names, IF Told("failure") = {} THEN "success" ELSE "InvalidEnv"),
         useAnalyserJSON \/ Told("failure") \cup Told("unknown") \subseteq names
  PROVE  IInv'
<1> USE DEF Reports, Goto, IInv
<1>1. TypeOK'
  BY DEF TypeOK, Phases
<1>2. Gathered'
  BY DEF Gathered
<1>3. Attempted'
  BY DEF Attempted, OutcomeOf
<1>4. Judged'
  BY DEF Judged, Tried
<1>5. VerdictTold'
  <2>1. DOMAIN checks' = AllNames
    BY DEF Gathered
  <2>2. Told("failure")' = Told("failure") /\ Told("unknown")' = Told("unknown")
    BY DEF Told
  <2> QED BY <2>1, <2>2 DEF VerdictTold
<1>6. OneAnswerJudged' /\ EveryAttemptMade'
  BY DEF OneAnswerJudged, EveryAttemptMade
<1> QED BY <1>1, <1>2, <1>3, <1>4, <1>5, <1>6

LEMMA NextInv == IInv /\ [Next]_vars => IInv'
<1> SUFFICES ASSUME IInv, [Next]_vars PROVE IInv'
  OBVIOUS
<1>1. CASE \E from \in {"devInfo", "gpsVersions", "gpsStatus"} : NoContext(from)
  <2>1. PICK from \in {"devInfo", "gpsVersions", "gpsStatus"} : NoContext(from)
    BY <1>1
  <2>2. attempts = <<>>
    BY <2>1 DEF NoContext, Exit, Goto, IInv, Attempted
  <2> QED BY <2>1, <2>2, ExitInv DEF NoContext, Held
<1>2. CASE \E listing \in GNSSListings, run \in DeviceRuns : getDevInfoValidations(listing, run)
  BY <1>2, DeviceInv
<1>3. CASE \E run \in VersionRuns : getGPSVersionValidations(run)
  <2>1. PICK run \in VersionRuns : getGPSVersionValidations(run)
    BY <1>3
  <2> DEFINE versions == GetGPSVersions(run)
  <2>2. UNCHANGED <<devInfo, Held>>
        /\ \/ Proceed("gpsVersions", "gpsStatus", VersionValidations(versions))
           \/ Exit("gpsVersions", "panic")
    BY <2>1 DEF getGPSVersionValidations, Held
  <2> HIDE DEF versions
  <2>3. CASE Proceed("gpsVersions", "gpsStatus", VersionValidations(versions))
    BY <2>2, <2>3, VersionValidationsType, ProceedInv
  <2>4. CASE Exit("gpsVersions", "panic")
    <3>1. attempts = <<>>
      BY <2>4 DEF Exit, Goto, IInv, Attempted
    <3> QED BY <2>2, <2>4, <3>1, ExitInv
  <2> QED BY <2>2, <2>3, <2>4
<1>4. CASE \E run \in StatusRuns : Attempt(run)
  BY <1>4, AttemptInv
<1>5. CASE StatusJudged
  <2>1. Tried /\ UNCHANGED <<devInfo, Held>>
    BY <1>5 DEF StatusJudged, Held
  <2>2. CASE gpsDetails.ok
    <3>1. Proceed("gpsStatus", "cluster", StatusValidations)
      BY <1>5, <2>2 DEF StatusJudged
    <3>2. antCheck \in Errors /\ GNSSNavStatus(gpsDetails.fix) \in Errors
      <4>1. antCheck = GNSSAntStatus(gpsDetails.antennas)
        BY <2>2 DEF IInv, Attempted
      <4> QED BY <4>1, AntStatusType, NavStatusType DEF Errors
    <3>3. /\ StatusValidations \in [StatusNames -> Errors]
          /\ DOMAIN StatusValidations = StatusNames
          /\ StatusValidations["antenna"] = antCheck
          /\ StatusValidations["receiving"] = GNSSNavStatus(gpsDetails.fix)
      BY <3>2 DEF StatusValidations
    <3> HIDE DEF StatusNames
    <3> QED BY <2>1, <2>2, <3>1, <3>3, ProceedInv
  <2>3. CASE ~gpsDetails.ok
    <3>1. Exit("gpsStatus", "panic")
      BY <1>5, <2>3 DEF StatusJudged
    <3> QED BY <2>1, <2>3, <3>1, ExitInv
  <2> QED BY <2>2, <2>3
<1>6. CASE \E configs \in PTPConfigs, csvs \in CSVLists, versions \in ClusterVersions :
             AskCluster(configs, csvs, versions)
  <2>1. PICK configs \in PTPConfigs, csvs \in CSVLists, versions \in ClusterVersions :
          AskCluster(configs, csvs, versions)
    BY <1>6
  <2>2. Proceed("cluster", "report", ClusterChecks(configs, csvs, versions))
        /\ UNCHANGED <<devInfo, Held>>
    BY <2>1 DEF AskCluster, Held
  <2> QED BY <2>2, ClusterChecksType, ProceedInv
<1>7. Told("failure") \cup Told("unknown") \subseteq DOMAIN checks /\ DOMAIN checks \subseteq AllNames
  BY DEF Told, IInv, TypeOK
<1>8. CASE \E unwritten \in Unwritten : reportAnalyserJSON(unwritten)
  <2>1. PICK unwritten \in Unwritten : reportAnalyserJSON(unwritten)
    BY <1>8
  <2>2. DOMAIN checks \ unwritten \in SUBSET AllNames
    BY <1>7
  <2> QED BY <2>1, <2>2, InvalidEnvCode, ReportsInv DEF reportAnalyserJSON
<1>9. CASE reportText
  BY <1>7, <1>9, InvalidEnvCode, ReportsInv DEF reportText
<1>10. CASE NoClientset
  <2>1. Exit("devInfo", "MissingInput") /\ UNCHANGED <<devInfo, Held>>
    BY <1>10 DEF NoClientset, ExitCode, Held
  <2>2. attempts = <<>>
    BY <2>1 DEF Exit, Goto, IInv, Attempted
  <2> QED BY <2>1, <2>2, ExitInv
<1>11. CASE UNCHANGED vars
  <2> USE <1>11 DEF vars, IInv
  <2>1. TypeOK' /\ Gathered'
    BY DEF TypeOK, Gathered
  <2>2. Attempted' /\ Judged'
    BY DEF Attempted, OutcomeOf, Judged, Tried
  <2>3. VerdictTold'
    BY DEF VerdictTold, Told
  <2>4. OneAnswerJudged' /\ EveryAttemptMade'
    BY DEF OneAnswerJudged, EveryAttemptMade
  <2> QED BY <2>1, <2>2, <2>3, <2>4
<1> QED BY <1>1, <1>2, <1>3, <1>4, <1>5, <1>6, <1>8, <1>9, <1>10, <1>11 DEF Next

(* The inductive invariant holds throughout every verification.            *)
THEOREM Inductive == Spec => []IInv
BY InitInv, NextInv, PTL DEF Spec

-----------------------------------------------------------------------------
(* What follows from it. *)

(* The types hold for all answers the devices and the cluster can give.    *)
THEOREM TypeCorrect == Spec => []TypeOK
<1>1. IInv => TypeOK
  BY DEF IInv
<1> QED BY Inductive, <1>1, PTL

(* The exit code of env verify tells the verdict, whatever is answered and *)
(* however many attempts there are.                                        *)
THEOREM Verdict == Spec => []VerdictTold
<1>1. IInv => VerdictTold
  BY DEF IInv
<1> QED BY Inductive, <1>1, PTL

(* The antenna and the fix are judged by the same answer, whatever failed  *)
(* before it.                                                              *)
THEOREM OneAnswer == Spec => []OneAnswerJudged
<1>1. IInv => OneAnswerJudged
  BY DEF IInv
<1> QED BY Inductive, <1>1, PTL

(* No verification gives up on the antenna, or on the GNSS module, before  *)
(* the last attempt.                                                       *)
THEOREM Attempts == Spec => []EveryAttemptMade
<1>1. IInv => EveryAttemptMade
  BY DEF IInv
<1> QED BY Inductive, <1>1, PTL

(* The verdict of the DevInfo collector on a card is that of env verify,   *)
(* for every card and all least versions.                                  *)
THEOREM Agreement == Spec => []CollectorAgrees
<1>1. IInv => CollectorAgrees
  <2> SUFFICES ASSUME IInv, DeviceNames \subseteq DOMAIN checks
               PROVE  CollectorVerify(devInfo) = "invalidEnv" <=>
                        Told("failure") \cap DeviceNames # {}
    BY DEF CollectorAgrees
  <2>1. \A name \in DeviceNames : checks[name] = DeviceChecks(devInfo)[name]
    BY DEF IInv, Judged
  <2>2. \A name \in DeviceNames : checks[name] \in Errors
    BY DEF IInv, TypeOK
  <2>3. Told("failure") \cap DeviceNames =
          {name \in DeviceNames : DeviceChecks(devInfo)[name] = "invalidEnv"}
    BY <2>1, <2>2, ResultOfError DEF Told
  <2>4. Told("failure") \cap DeviceNames # {} <=>
          \/ DeviceDetails(devInfo.vendor, devInfo.device) = "invalidEnv"
          \/ VersionCheck("firmware", devInfo.firmware) = "invalidEnv"
          \/ DeviceDriver(devInfo.driver) = "invalidEnv"
    BY <2>3 DEF DeviceChecks
  <2> QED BY <2>4 DEF CollectorVerify
<1> QED BY Inductive, <1>1, PTL

(* Whatever the least versions are, as long as that of a driver is not     *)
(* above that of a driver of the kernel tree: the driver's age fails no    *)
(* environment.                                                            *)
THEOREM DriverIsNoFailure == Spec => []DriverNeverFails
<1>1. IInv => DriverNeverFails
  <2> SUFFICES ASSUME IInv, "driver" \in DOMAIN checks PROVE checks["driver"] # "invalidEnv"
    BY DEF DriverNeverFails
  <2>1. DeviceNames \cap DOMAIN checks # {}
    OBVIOUS
  <2>2. devInfo.driver.version \in Nat /\ checks["driver"] = DeviceDriver(devInfo.driver)
    BY <2>1 DEF IInv, Judged, DeviceChecks
  <2> QED BY <2>2, DriverVerdict
<1> QED BY Inductive, <1>1, PTL

=============================================================================
