------------------------- MODULE CollectorLifecycle -------------------------
(***************************************************************************)
(* What the runner promises the implementations of the Collector interface *)
(* (pkg/collectors/collector.go): each is started once, polled only        *)
(* between its Start and the first CleanUp of any collector, by at most    *)
(* MaxRunningPolls polls at a time, and cleaned up once, with no poll of   *)
(* any collector left running.  No collector starts after an announcer.    *)
(***************************************************************************)
EXTENDS Naturals

CONSTANTS Collectors, Announcers, MaxRunningPolls

VARIABLES
  started,   \* collectors whose Start has been called
  cleaned,   \* collectors whose CleanUp has been called
  inFlight   \* inFlight[c]: running polls of c

vars == <<started, cleaned, inFlight>>

All == Collectors \cup Announcers

Init == started = {} /\ cleaned = {} /\ inFlight = [c \in All |-> 0]

Start(c) ==
  /\ c \notin started /\ cleaned = {}
  /\ c \in Collectors => started \cap Announcers = {}
  /\ started' = started \cup {c}
  /\ UNCHANGED <<cleaned, inFlight>>

BeginPoll(c) ==
  /\ c \in started /\ cleaned = {} /\ inFlight[c] < MaxRunningPolls
  /\ inFlight' = [inFlight EXCEPT ![c] = @ + 1]
  /\ UNCHANGED <<started, cleaned>>

EndPoll(c) ==
  /\ inFlight[c] > 0
  /\ inFlight' = [inFlight EXCEPT ![c] = @ - 1]
  /\ UNCHANGED <<started, cleaned>>

CleanUp(c) ==
  /\ c \in started \ cleaned
  /\ \A d \in All : inFlight[d] = 0
  /\ cleaned' = cleaned \cup {c}
  /\ UNCHANGED <<started, inFlight>>

Next == \E c \in All : Start(c) \/ BeginPoll(c) \/ EndPoll(c) \/ CleanUp(c)

Spec == Init /\ [][Next]_vars

=============================================================================
