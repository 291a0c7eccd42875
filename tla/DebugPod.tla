------------------------------- MODULE DebugPod -------------------------------
(***************************************************************************)
(* The privileged debug pod (pkg/clients/exec_command.go, the methods of   *)
(* ContainerCreationExecContext) and the commands that create and delete   *)
(* it: the DPLL netlink collector of "collect"                             *)
(* (pkg/collectors/dpll_collector_netlink.go), "start-debug" and           *)
(* "stop-debug" (pkg/cmd/debug_pod.go).  Each command is a process of its  *)
(* own; they share nothing but the pod's fixed name in the cluster.        *)
(*                                                                         *)
(* A list request without a resource version is answered with the pod as   *)
(* it is; one with the resource version of c.pod may be answered with any  *)
(* state the pod has been in since that version.                           *)
(***************************************************************************)
EXTENDS Naturals, Sequences

CONSTANTS
  Collects,  \* collect commands that manage the pod
  Unmanaged, \* collect commands with unmanagedDebugPod
  Starts,    \* start-debug commands
  Stops,     \* stop-debug commands
  None

ASSUME KindsAssumption ==
  /\ Collects \cap (Unmanaged \cup Starts \cup Stops) = {}
  /\ Unmanaged \cap (Starts \cup Stops) = {} /\ Starts \cap Stops = {}
ASSUME NoneAssumption == None \notin Collects \cup Unmanaged \cup Starts \cup Stops

Commands == Collects \cup Unmanaged \cup Starts \cup Stops

VARIABLES
  pod,     \* the pod of that name in the cluster, or NoPod
  births,  \* how many pods of that name there have been
  pc,      \* where each command is
  since,   \* since[c]: what the pod has been since the version c.pod holds, which
           \* comes first; <<>> if c.pod is nil, or of no more use
  deleted, \* birth of the pod that a command has deleted, or 0
  failed   \* a pod has ended by itself

vars == <<pod, births, pc, since, deleted, failed>>
cluster == <<pod, births, failed>>

NoPod == [born |-> 0, by |-> None, ours |-> FALSE, phase |-> "none",
          terminating |-> FALSE]

\* ours: the image is the one this build uses.
LeftOvers == [born : {1}, by : {None}, ours : BOOLEAN,
              phase : {"Pending", "Running", "Ended"}, terminating : BOOLEAN]

Init ==
  /\ pod \in LeftOvers \cup {NoPod}
  /\ births = 1
  /\ pc = [c \in Commands |-> IF c \in Stops THEN "delete" ELSE "create"]
  /\ since = [c \in Commands |-> <<>>]
  /\ deleted = [c \in Commands |-> 0]
  /\ failed = FALSE

Ended == {"succeeded", "failed"}

Goto(c, from, to) == pc[c] = from /\ pc' = [pc EXCEPT ![c] = to]

\* c.pod holds the first of these states, unless the command ends.
Kept(to, states) == IF to \in Ended THEN <<>> ELSE states
Holds(c, to, states) == since' = [since EXCEPT ![c] = Kept(to, states)]

\* Another state for every command that has a c.pod to compare it with.
Noticed(p) ==
  [c \in Commands |-> IF since[c] = <<>> \/ p = pod THEN since[c]
                      ELSE Append(since[c], p)]

End(c, from, how) ==
  Goto(c, from, how) /\ Holds(c, how, <<>>) /\ UNCHANGED <<cluster, deleted>>

-----------------------------------------------------------------------------
(* The two looks at the cluster that CreatePodAndWait and DeletePodAndWait *)
(* have in common.                                                         *)

\* Faulty variant: any pod of that name will do.
TakesAnyImage(c, from, found, none) ==
  LET states == IF pod # NoPod THEN <<pod>> ELSE since[c]
      to == IF states = <<>> THEN none ELSE found
  IN  Goto(c, from, to) /\ Holds(c, to, states) /\ UNCHANGED <<cluster, deleted>>

\* A pod with another image is passed over, and c.pod stays as it was.
checkForLeftOverPod(c, from, found, none) ==
  LET states == IF pod.ours THEN <<pod>> ELSE since[c]
      to == IF states = <<>> THEN none ELSE found
  IN  Goto(c, from, to) /\ Holds(c, to, states) /\ UNCHANGED <<cluster, deleted>>

\* refeshPod, then the phase; an empty list is an error.
isPodRunning(c, from, running, notRunning) ==
  \E v \in DOMAIN since[c] :
    LET answer == since[c][v]
        to == CASE answer = NoPod -> "failed"
                [] answer.phase = "Running" -> running
                [] OTHER -> notRunning
    IN  /\ Goto(c, from, to) /\ Holds(c, to, SubSeq(since[c], v, Len(since[c])))
        /\ UNCHANGED <<cluster, deleted>>

-----------------------------------------------------------------------------
(* CreatePodAndWait *)

\* Faulty variant: an unmanaged pod is created like any other.
CreatesUnmanaged(c) == "createPod"

\* What CreatePodAndWait does when the pod is not running.
NotRunning(c) == IF c \in Unmanaged THEN "failed" ELSE "createPod"

LookForPod(c) == checkForLeftOverPod(c, "create", "createLook", NotRunning(c))
LookIfRunning(c) == isPodRunning(c, "createLook", "waitStart", NotRunning(c))

\* Create is refused while there is a pod of that name, whatever its state.
\* The answer to a request that took effect may be lost.
createPod(c) ==
  \/ pod # NoPod /\ End(c, "createPod", "failed")
  \/ /\ pod = NoPod
     /\ births' = births + 1
     /\ pod' = [born |-> births', by |-> c, ours |-> TRUE, phase |-> "Pending",
                terminating |-> FALSE]
     /\ \E to \in {"waitStart", "failed"} :
          /\ Goto(c, "createPod", to)
          /\ since' = [Noticed(pod') EXCEPT ![c] = Kept(to, <<pod'>>)]
     /\ UNCHANGED <<deleted, failed>>

waitForPodToStart(c) ==
  isPodRunning(c, "waitStart",
               IF c \in Starts THEN "succeeded" ELSE "ready", "waitStart")

-----------------------------------------------------------------------------
(* collect between Start and CleanUp of the netlink collector, and         *)
(* DeletePodAndWait.                                                       *)

\* Faulty variant: a collection only deletes a pod that it has created.
CleanUpOwn(c) ==
  LET to == IF pod.by # c THEN "succeeded" ELSE "delete" IN
  Goto(c, "ready", to) /\ Holds(c, to, since[c]) /\ UNCHANGED <<cluster, deleted>>

CleanUp(c) ==
  LET to == IF c \in Unmanaged THEN "succeeded" ELSE "delete" IN
  Goto(c, "ready", to) /\ Holds(c, to, since[c]) /\ UNCHANGED <<cluster, deleted>>

\* The rest of Start, another collector's Start or an earlier CleanUp fails:
\* the process exits and leaves the pod as it is.
Exits(c) == End(c, "ready", "failed")

LookBeforeDelete(c) == checkForLeftOverPod(c, "delete", "deleteLook", "succeeded")
DeleteIfRunning(c) == isPodRunning(c, "deleteLook", "deletePod", "succeeded")

\* By name.  A pod that is terminating already stays so.
deletePod(c) ==
  \/ pod = NoPod /\ End(c, "deletePod", "failed")
  \/ /\ pod # NoPod
     /\ pod' = [pod EXCEPT !.terminating = TRUE]
     /\ deleted' = [deleted EXCEPT ![c] = pod.born]
     /\ \E to \in {"waitGone", "failed"} :
          /\ Goto(c, "deletePod", to)
          /\ since' = [Noticed(pod') EXCEPT ![c] = <<>>]
     /\ UNCHANGED <<births, failed>>

\* Faulty variant: a pod that does not run any more counts as deleted.
WaitsForPodToEnd(c) ==
  pod.phase # "Running" /\ End(c, "waitGone", "succeeded")

waitForPodToDelete(c) ==
  pod = NoPod /\ End(c, "waitGone", "succeeded")

-----------------------------------------------------------------------------
(* Timeouts and errors of the API server. *)

\* Faulty variant: only the deletion has a timeout.
TimesOutDeleting(c) == End(c, "waitGone", "failed")

TimesOut(c) == End(c, "waitStart", "failed") \/ End(c, "waitGone", "failed")

\* A list, create or delete request fails and has no effect.
RequestFails(c) ==
  \E from \in {"create", "createLook", "createPod", "waitStart",
               "delete", "deleteLook", "deletePod", "waitGone"} :
    End(c, from, "failed")

-----------------------------------------------------------------------------
(* The cluster. *)

PodBecomes(p) ==
  pod' = p /\ since' = Noticed(p) /\ UNCHANGED <<births, pc, deleted>>

PodStarts ==
  /\ pod.phase = "Pending" /\ ~pod.terminating
  /\ PodBecomes([pod EXCEPT !.phase = "Running"]) /\ UNCHANGED failed

PodEnds ==
  /\ pod.phase \in {"Pending", "Running"}
  /\ PodBecomes([pod EXCEPT !.phase = "Ended"])
  /\ failed' = (failed \/ ~pod.terminating)

PodVanishes ==
  /\ pod.terminating
  /\ PodBecomes(NoPod) /\ UNCHANGED failed

Step(c) ==
  \/ LookForPod(c) \/ LookIfRunning(c) \/ createPod(c) \/ waitForPodToStart(c)
  \/ CleanUp(c) \/ LookBeforeDelete(c) \/ DeleteIfRunning(c) \/ deletePod(c)
  \/ waitForPodToDelete(c)

Next ==
  \/ \E c \in Commands : Step(c) \/ TimesOut(c) \/ RequestFails(c) \/ Exits(c)
  \/ PodStarts \/ PodEnds \/ PodVanishes

Spec == Init /\ [][Next]_vars

(* A command runs on while it creates or deletes the pod, and its timeouts *)
(* expire.  That a collection reaches CleanUp is not assumed: Run may hang.*)
(* Nothing is assumed of the cluster.                                      *)
FairSpec ==
  Spec /\ \A c \in Commands :
    WF_vars(pc[c] # "ready" /\ Step(c)) /\ WF_vars(TimesOut(c))

-----------------------------------------------------------------------------
(* Properties *)

Places == {"create", "createLook", "createPod", "waitStart", "ready", "delete",
           "deleteLook", "deletePod", "waitGone", "succeeded", "failed"}

PodState == [born : Nat, by : Commands \cup {None}, ours : BOOLEAN,
             phase : {"none", "Pending", "Running", "Ended"},
             terminating : BOOLEAN]

TypeOK ==
  /\ pod \in PodState /\ births \in Nat /\ pod.born <= births /\ failed \in BOOLEAN
  /\ pc \in [Commands -> Places]
  /\ since \in [Commands -> Seq(PodState)]
  /\ deleted \in [Commands -> 0..births]

\* c.pod, and what has become of it since, up to the present.
SinceUpToNow == \A c \in Commands : since[c] # <<>> =>
  /\ since[c][1] # NoPod /\ since[c][Len(since[c])] = pod
  /\ \A v \in DOMAIN since[c] : since[c][v] # NoPod => since[c][v].ours

\* Only a delete leaves a mark, and only those who may write get to write.
PlacesReached == \A c \in Commands :
  /\ deleted[c] # 0 => pc[c] \in {"waitGone"} \cup Ended
  /\ pc[c] \in {"createLook", "waitStart", "ready", "deleteLook", "deletePod"} =>
       since[c] # <<>>
  /\ c \in Unmanaged =>
       pc[c] \notin {"createPod", "delete", "deleteLook", "deletePod", "waitGone"}

(* Commands are only ever executed in a pod that has been seen running     *)
(* with this build's image, although only the first look compares images   *)
(* and the pod may change hands between any two looks.                     *)
ReadyPodRan ==
  \A c \in Commands : pc[c] = "ready" =>
    since[c][1].ours /\ since[c][1].phase = "Running"

(* A command that reports success after a delete leaves not even a         *)
(* terminating remnant of the pod it deleted, so that the next create is   *)
(* not refused for it.                                                     *)
DeletedIsGone ==
  \A c \in Commands : pc[c] = "succeeded" /\ deleted[c] # 0 =>
    pod.born # deleted[c]

(* A collection with unmanagedDebugPod never creates or deletes the pod.   *)
UnmanagedHandsOff ==
  pod.by \notin Unmanaged /\ \A c \in Unmanaged : deleted[c] = 0

\* The inductive invariant behind these safety properties.
IndInv == /\ TypeOK /\ SinceUpToNow /\ PlacesReached
          /\ ReadyPodRan /\ DeletedIsGone /\ UnmanagedHandsOff

(* Collections clean up after themselves: when every collection that       *)
(* manages the pod has succeeded, no start-debug is around and no pod has  *)
(* ended by itself, then no debug pod stays behind, however many of them   *)
(* have shared one and whatever was left over before.                      *)
CollectsLeaveNoPod ==
  /\ Collects # {} /\ Starts = {} /\ ~failed
  /\ \A c \in Collects : pc[c] = "succeeded"
  => pod = NoPod \/ pod.terminating

(* Creating the pod ends, in a collection or in the end of the command,    *)
(* and so does deleting it, whatever the cluster does: no pod that never   *)
(* starts or never goes away holds a command up for good.                  *)
CreateAndDeleteEnd ==
  \A c \in Commands :
    /\ pc[c] = "create" ~> pc[c] \in {"ready"} \cup Ended
    /\ pc[c] = "delete" ~> pc[c] \in Ended

-----------------------------------------------------------------------------
(* The inductive invariant behind CollectsLeaveNoPod, beside IndInv.       *)

\* stop-debug only deletes.
StopsOnlyDelete ==
  /\ pod.by \notin Stops
  /\ \A c \in Stops : pc[c] \notin {"create", "createLook", "createPod",
                                    "waitStart", "ready"}

\* c.pod of a collection is set from Start to CleanUp.
CollectsKnowPod == \A c \in Collects : pc[c] = "delete" => since[c] # <<>>

\* A pod that has not ended and that no one has deleted is left to the
\* collection that has created it, or to every collection if it was left over.
Owes(c) ==
  pod # NoPod /\ ~pod.terminating /\ ~failed /\ pod.by \in {None, c}

SeenRunning(states) == \A i \in DOMAIN states : states[i].phase = "Running"

\* There is a pod all the time, and once it runs it does so to the end.
KeepsRunning(states) ==
  /\ \A i \in DOMAIN states : states[i] # NoPod
  /\ \A i, j \in DOMAIN states :
       i <= j /\ states[i].phase = "Running" => states[j].phase = "Running"

\* Those who still have to delete the pod have not got past deleting it, and
\* the looks before it cannot lead them past it: they only see it running.
LivePodIsOwed == \A c \in Collects : Owes(c) =>
  /\ pc[c] \notin {"waitGone", "succeeded"} /\ KeepsRunning(since[c])
  /\ pc[c] \in {"ready", "delete", "deleteLook", "deletePod"} =>
       SeenRunning(since[c])

OwedInv == StopsOnlyDelete /\ CollectsKnowPod /\ LivePodIsOwed

=============================================================================
