------------------------------ MODULE MCFunctions ------------------------------
(***************************************************************************)
(* The functions of the program that are called with every argument of a   *)
(* small set: Dedup, Fetching, Netlink and Selection; and the verification *)
(* of an environment, which is as sequential.  A behaviour is one call, or *)
(* one verification.                                                       *)
(***************************************************************************)
EXTENDS MCVerify, Dedup, Fetching, Netlink, Selection

CONSTANT MaxLine  \* lines in the log that Dedup is called on

ASSUME MaxLineAssumption == MaxLine \in Nat

VARIABLES
  call,    \* the function and its arguments; NoCall in a verification
  result   \* what it returns; <<>> before

callVars == <<call, result>>

NoCall == [function |-> "none"]

-----------------------------------------------------------------------------
(* Dedup: all pairs of slices of the log.  A slice is any nonempty set of  *)
(* lines in the order of the log: lines may be missing in the middle, as   *)
(* in the tests (pkg/loglines/dedup_test.go).                              *)

InOrder(lines) == Arranged(lines, <)
Slices == {InOrder(lines) : lines \in (SUBSET (1..MaxLine)) \ {{}}}

DedupCalls == [function : {"DedupAB"}, a : Slices, b : Slices]

CallDedupAB ==
  /\ call.function = "DedupAB" /\ result' = DedupAB(call.a, call.b)

Deduped == call.function = "DedupAB" /\ result # <<>>
Returned == Deduped /\ ~result.panic
Merged2 == result.first \o result.second
Lines == ToSet(call.a) \cup ToSet(call.b)

\* The stretch of the log between two lines that both slices have.
Between(s, first, last) == {l \in ToSet(s) : first < l /\ l < last}
Common == ToSet(call.a) \cap ToSet(call.b)

\* b starts inside a or a inside b, b goes on at least as far as a and has
\* a's last line or starts after it, and wherever lines are missing between
\* two common lines, they are missing in one of the two slices only.
Overlap ==
  /\ Head(call.b) \in ToSet(call.a) /\ Last(call.a) \in ToSet(call.b)
  /\ \A first \in Common : \A last \in Common :
       (\A l \in Common : ~(first < l /\ l < last)) =>
         Between(call.a, first, last) = {} \/ Between(call.b, first, last) = {}

(* De-duplicating two slices that overlap gives every line of both once,   *)
(* in the order of the log, also when lines are missing inside them.       *)
OverlapMerged == Returned /\ Overlap => Merged2 = InOrder(Lines)

(* A slice that has only some lines of the next one adds nothing to it     *)
(* (the tests with every 3rd line or the first line missing).              *)
SubsetAbsorbed ==
  Returned /\ ToSet(call.a) \subseteq ToSet(call.b) =>
    result.first = <<>> /\ result.second = call.b

(* DedupAB never indexes out of range, whatever is missing in the slices.  *)
DedupNeverPanics == Deduped => ~result.panic

(* "insert sequental lines missing in either x or y when stich them into   *)
(* the other" (dedup.go:65): no line of two slices in order is lost.       *)
NoLineLost ==
  Returned /\ Head(call.a) <= Head(call.b) /\ Last(call.a) <= Last(call.b) =>
    ToSet(Merged2) = Lines

-----------------------------------------------------------------------------
(* Fetching: two commands whose outputs are any two tokens or fewer, and a *)
(* post-processor that does nothing, computes a third field, rightly or    *)
(* with the wrong type, replaces an output, or fails.                      *)

Outputs == UNION {[1..n -> {Newline, Blank, Word("a")}] : n \in 0..2}
Fields == <<[key |-> "k1", type |-> "string"], [key |-> "k2", type |-> "string"],
            [key |-> "sum", type |-> "number"]>>
NoValues == [key \in {} |-> Zero]
Number == [type |-> "number", data |-> <<1>>]
PostProcessors ==
  {[ok |-> TRUE, values |-> values] :
     values \in {NoValues, [sum |-> Number], [sum |-> Text(<<>>)], [k1 |-> Text(<<>>)]}}
  \cup {[ok |-> FALSE, values |-> NoValues]}

FetchCalls == [function : {"Fetch"}, trim : [1..2 -> BOOLEAN], printed : [1..2 -> Outputs],
               delivered : BOOLEAN, post : PostProcessors]

Cmds(trim) ==
  FetcherFactory(<<[key |-> "k1", trim |-> trim[1]]>>, <<[key |-> "k2", trim |-> trim[2]]>>)

Pack == [i \in DOMAIN Fields |-> Zero]

CallFetch ==
  /\ call.function = "Fetch"
  /\ result' = Fetch(Cmds(call.trim),
                     [ok |-> call.delivered, stdout |-> RunAll(Cmds(call.trim), call.printed)],
                     call.post, Fields, Pack)

Fetched == call.function = "Fetch" /\ result # <<>>
Printed(i) == call.printed[i] # <<>> /\ Last(call.printed[i]) = Newline
WrongType == "sum" \in DOMAIN call.post.values /\ call.post.values["sum"] # Number
Fetchable == call.delivered /\ call.post.ok /\ Printed(1) /\ Printed(2)

\* The output of a command without the newline that ends it.
OutputOf(i) == IF call.trim[i] THEN TrimSpace(call.printed[i]) ELSE Front(call.printed[i])

(* Commands that share a shell keep their outputs apart: when each prints  *)
(* whole lines, each field gets just what its own command printed, or what *)
(* the post-processor puts in its place.                                   *)
FetchExact ==
  Fetched /\ Fetchable /\ ~WrongType =>
    /\ result.ok
    /\ result.pack = [i \in DOMAIN Fields |->
         IF Fields[i].key \in DOMAIN call.post.values THEN call.post.values[Fields[i].key]
         ELSE IF i <= 2 THEN Text(OutputOf(i)) ELSE Zero]

(* A fetch is all or nothing: a stream that breaks or a post-processor     *)
(* that fails makes it fail and leaves the pack as it was, so does any     *)
(* other failure but a value of the wrong type; and once a fetch has       *)
(* succeeded the field of every command has been set.                      *)
FetchAllOrNothing ==
  Fetched =>
    /\ ~call.delivered \/ ~call.post.ok => ~result.ok
    /\ WrongType => ~result.ok
    /\ ~result.ok /\ ~WrongType => result.pack = Pack
    /\ result.ok => result.pack[1] # Zero /\ result.pack[2] # Zero

(* "using grep so we just get an empty string if there is nothing"         *)
(* (devices/gps_ubx_ver.go:90): a command that has nothing to print gives  *)
(* an empty string, and does not make the fetch of the others fail.        *)
NothingPrintedIsEmpty ==
  /\ Fetched /\ call.delivered /\ call.post.ok /\ ~WrongType
  /\ \A i \in 1..2 : call.printed[i] = <<>> \/ Printed(i)
  => result.ok

-----------------------------------------------------------------------------
(* Netlink: the pins of two cards, of which card 1 is asked, in a list     *)
(* that may not parse; a poll; and the files that may stand in for netlink.*)

Parent(state, direction) == [state |-> state, direction |-> direction]
ParentLists ==
  {<<Parent("connected", "input")>>, <<Parent("connected", "output")>>,
   <<Parent("connected", "input"), Parent("disconnected", "input")>>}
Pins == [clock : 1..2, label : {"GNSS-1PPS", "SMA1"}, parents : ParentLists]
PinLists == UNION {[1..n -> Pins] : n \in 0..3}
WithIds(pins) ==
  [i \in DOMAIN pins |-> [clock |-> pins[i].clock, label |-> pins[i].label, id |-> i,
                          parents |-> pins[i].parents]]

StartCalls == [function : {"DPLLNetlinkStart"}, clockID : [ok : BOOLEAN, value : {1}],
               parses : BOOLEAN, pins : PinLists]

CallDPLLNetlinkStart ==
  /\ call.function = "DPLLNetlinkStart"
  /\ result' = GetNetlinkParameters(call.clockID,
                                    [ok |-> call.parses, pins |-> WithIds(call.pins)])

ChosenPin == WithIds(call.pins)[result.pin]

(* The pin whose offset will be followed was in a list that parsed and is  *)
(* one of the card's own, with the label that is announced and no parent   *)
(* that is not connected; SMA1 is taken only as an input and only when the *)
(* GNSS pin is not connected, though the other card has pins with the same *)
(* labels.                                                                 *)
PinUsable ==
  call.function = "DPLLNetlinkStart" /\ result # <<>> /\ result.outcome = "ok" =>
    /\ call.parses
    /\ ChosenPin.clock = call.clockID.value /\ ChosenPin.label = result.pinType
    /\ \A i \in DOMAIN ChosenPin.parents : ChosenPin.parents[i].state = "connected"
    /\ ChosenPin.label = "SMA1" =>
         /\ \A i \in DOMAIN ChosenPin.parents : ChosenPin.parents[i].direction = "input"
         /\ \E i \in DOMAIN call.pins : call.pins[i].clock = call.clockID.value
              /\ call.pins[i].label = "GNSS-1PPS" /\ ~Connected(call.pins[i])

Entries == [clock : 1..2, type : {"eec", "pps"}, status : {"locked", "holdover", "other"}]
EntryLists == UNION {[1..n -> Entries] : n \in 0..2}
Offsets == {<<>>, <<[id |-> 0, offset |-> 3000], [id |-> 1, offset |-> -2500]>>}

PollCalls == [function : {"DPLLNetlinkPoll"}, pin : 1..2, entries : EntryLists,
              parents : Offsets]

Params(pin) == [clock |-> 1, pin |-> pin, pinType |-> "GNSS-1PPS"]

CallDPLLNetlinkPoll ==
  /\ call.function = "DPLLNetlinkPoll"
  /\ result' = NetlinkAnalyserFormat(
                 DPLLNetlinkInfo(call.entries, call.parents, Params(call.pin)))

Polled == call.function = "DPLLNetlinkPoll" /\ result # <<>>

FileCalls == [function : {"NewDPLLCollector"}, listed : BOOLEAN, number : BOOLEAN,
              names : SUBSET (DPLLFiles \cup {"other"})]

CallNewDPLLCollector ==
  /\ call.function = "NewDPLLCollector"
  /\ result' = [interface |-> NewDPLLCollector([ok |-> call.listed,
                                                names |-> SetToSeq(call.names)]),
                info |-> DPLLFilesystemInfo([name \in call.names |->
                           [number |-> call.number, value |-> name]])]

\* The states that card 1 itself has reported for a DPLL, as numbers.
Reported(type) ==
  {StateNumber(call.entries[i].status) :
     i \in {j \in DOMAIN call.entries :
             call.entries[j].clock = 1 /\ call.entries[j].type = type}}

Tells(state, type) ==
  IF Reported(type) = {} THEN state = "" ELSE state \in Reported(type)

(* A poll tells what the start and the constructor have settled.  With     *)
(* netlink the states in its line are ones that the card of the start has  *)
(* reported for that very DPLL, and none when the card reports none,       *)
(* whatever the other cards in the list report.  With the file system      *)
(* interface the files are all there, so that only an offset that is no    *)
(* number makes a poll fail.                                               *)
PollFollowsStart ==
  /\ Polled => Tells(result.state, "pps") /\ Tells(result.eecstate, "eec")
  /\ call.function = "NewDPLLCollector" /\ result # <<>> /\ result.interface = "filesystem" =>
       (result.info.ok <=> call.number)

-----------------------------------------------------------------------------
(* Selection: up to three names on the command line.                       *)

Names == [word : {"all", "defaults", "DevInfo", "DPLL", "Logs", "none"}, exact : BOOLEAN]
NameLists == UNION {[1..n -> Names] : n \in 0..3}

SelectCalls == [function : {"GetCollectorsToRun"}, selected : NameLists, file : BOOLEAN]

CallGetCollectorsToRun ==
  /\ call.function = "GetCollectorsToRun"
  /\ result' = [names |-> GetCollectorsToRun(call.selected),
                missing |-> MissingLogsFile(call.selected, call.file)]

Chosen == call.function = "GetCollectorsToRun" /\ result # <<>>
Asked(word) == \E i \in DOMAIN call.selected : call.selected[i].word = word
Spelled(word) == [word |-> word, exact |-> TRUE] \in ToSet(call.selected)

(* The collectors that run are the required ones first, each runs once,    *)
(* every optional one that was named as the registry spells it runs, and   *)
(* all of them for all and defaults; none runs that was not asked for.     *)
(* The check for a log file, which has a rule of its own, refuses only     *)
(* selections that do run the logs collector, and have no file for it.     *)
SelectionComplete ==
  Chosen =>
    LET names == ToSet(result.names)
        All == Asked("all") \/ Asked("defaults")
    IN  /\ SubSeq(result.names, 1, Len(RequiredCollectorNames)) = RequiredCollectorNames
        /\ Cardinality(names) = Len(result.names)
        /\ \A name \in ToSet(OptionalCollectorNames) :
             All \/ Spelled(name) => name \in names
        /\ \A name \in names \ ToSet(RequiredCollectorNames) :
             name \in ToSet(OptionalCollectorNames) /\ (All \/ Asked(name))
        /\ result.missing => "Logs" \in names /\ ~call.file

-----------------------------------------------------------------------------
CallsInit ==
  /\ Init /\ result = <<>>
  /\ \/ call = NoCall
     \/ /\ ~useAnalyserJSON
        /\ \/ call \in DedupCalls \/ call \in FetchCalls \/ call \in StartCalls
           \/ call \in PollCalls \/ call \in FileCalls \/ call \in SelectCalls

Call ==
  /\ result = <<>> /\ UNCHANGED <<call, vars>>
  /\ \/ CallDedupAB \/ CallFetch \/ CallDPLLNetlinkStart \/ CallDPLLNetlinkPoll
     \/ CallNewDPLLCollector \/ CallGetCollectorsToRun

CallsNext == Call \/ (call = NoCall /\ Next /\ UNCHANGED callVars)

CallsSpec == CallsInit /\ [][CallsNext]_<<vars, callVars>>

=============================================================================
