------------------------------ MODULE ExecContext ------------------------------
(***************************************************************************)
(* An exec context of a running daemon (ContainerExecContext in            *)
(* pkg/clients/exec_command.go): the name of the pod is looked up by       *)
(* prefix once, kept, and looked up again after a command found no such    *)
(* pod.  Up to maxRunningPolls polls of one collector use the context at   *)
(* the same time, without a lock, while the cluster restarts the pod.      *)
(*                                                                         *)
(* The cluster gives every new pod a name it has not used before.  Names   *)
(* of the daemon's pods have one length, so that a read of podName during  *)
(* a write still gives the old or the new name.  A command is reduced to   *)
(* how it ends.                                                            *)
(***************************************************************************)
EXTENDS Naturals, FiniteSets

CONSTANTS
  Polls,     \* the users of the context: at most maxRunningPolls, 3 in the code
  Pods,      \* bound: names of the daemon's pods
  DebugPods, \* names with the same prefix and the suffix "-debug"
  NoName     \* FindPodNameFromPrefix returned an error

ASSUME PollsAssumption == IsFiniteSet(Polls)
ASSUME PodNamesAssumption ==
  NoName \notin Pods /\ Pods \cap DebugPods = {}

VARIABLES
  podName,    \* ctx.podName
  state,      \* state[p]: where the command of p is
  target,     \* target[p]: the pod name in the command's URL
  answer,     \* answer[p]: what FindPodNameFromPrefix returned
  pods,       \* environment: the pods that exist on the node
  ready,      \* environment: the pods whose container runs
  used,       \* environment: names given to the daemon's pods so far
  settled,    \* environment: one daemon pod, which stays
  failures,   \* history: commands of p that failed since the cluster settled
  reverted    \* history: polls that since then stored the name of a gone pod

cluster == <<pods, ready, used, settled>>
history == <<failures, reverted>>
vars == <<podName, state, target, answer, cluster, history>>

Init ==
  /\ \E n \in Pods : podName = n /\ used = {n}
  /\ \E D \in SUBSET DebugPods : pods = used \cup D /\ ready = pods
  /\ state = [p \in Polls |-> "idle"]
  /\ target = [p \in Polls |-> podName]
  /\ answer = [p \in Polls |-> NoName]
  /\ settled = FALSE
  /\ failures = [p \in Polls |-> 0] /\ reverted = {}

Goto(p, from, to) == state[p] = from /\ state' = [state EXCEPT ![p] = to]

Limit == 2 + Cardinality(Polls)

\* An error is returned to the caller.  The history stops counting above Limit.
CountFailure(p) ==
  failures' = IF settled /\ failures[p] <= Limit
                THEN [failures EXCEPT ![p] = @ + 1] ELSE failures

-----------------------------------------------------------------------------
(* execCommand *)

\* K8sRestClient.Post()...Name(c.GetPodName())
Begin(p) ==
  /\ Goto(p, "idle", "running")
  /\ target' = [target EXCEPT ![p] = podName]
  /\ UNCHANGED <<podName, answer, cluster, history>>

CommandSucceeds(p) ==
  /\ target[p] \in ready /\ Goto(p, "running", "idle")
  /\ UNCHANGED <<podName, target, answer, cluster, history>>

\* Any other error than NotFound leaves the context as it is.
CommandFails(p) ==
  /\ ~settled /\ Goto(p, "running", "idle")
  /\ UNCHANGED <<podName, target, answer, cluster, history>>

\* k8sErrors.IsNotFound(err)
CommandNotFound(p) ==
  /\ target[p] \notin pods /\ Goto(p, "running", "refreshing")
  /\ UNCHANGED <<podName, target, answer, cluster, history>>

\* Faulty variant: the names of debug pods are not left out.
FindPodNameAny == IF \E n \in pods : pods = {n}
                    THEN CHOOSE n \in pods : pods = {n} ELSE NoName

\* FindPodNameFromPrefix: the one pod that matches, or an error.
FindPodNameFromPrefix ==
  LET names == pods \ DebugPods
  IN IF \E n \in names : names = {n} THEN CHOOSE n \in names : names = {n}
                                     ELSE NoName

\* The list of pods is answered; the name is assigned at a later step.
ListAnswers(p) ==
  /\ Goto(p, "refreshing", "assigning")
  /\ \/ answer' = [answer EXCEPT ![p] = FindPodNameFromPrefix]
     \/ ~settled /\ answer' = [answer EXCEPT ![p] = NoName]
  /\ UNCHANGED <<podName, target, cluster, history>>

\* Faulty variant: a name that was looked up is not stored.
RefreshForgets(p) ==
  /\ Goto(p, "assigning", "idle") /\ CountFailure(p)
  /\ UNCHANGED <<podName, reverted, target, answer, cluster>>

\* c.podName = newPodname, if there is one; the command's error is returned.
Refresh(p) ==
  /\ Goto(p, "assigning", "idle")
  /\ podName' = IF answer[p] = NoName THEN podName ELSE answer[p]
  /\ reverted' = IF settled /\ answer[p] # NoName /\ answer[p] \notin pods
                   THEN reverted \cup {p} ELSE reverted
  /\ CountFailure(p)
  /\ UNCHANGED <<target, answer, cluster>>

-----------------------------------------------------------------------------
(* The cluster: a pod is deleted, evicted or rolled out; the new pod may   *)
(* be listed while the old one still is.  Someone may open a debug pod.    *)

ClusterLocal == UNCHANGED <<podName, state, target, answer, history>>

PodCreated(n) ==
  /\ ~settled /\ n \in Pods \ used
  /\ pods' = pods \cup {n} /\ used' = used \cup {n}
  /\ UNCHANGED <<ready, settled>> /\ ClusterLocal

DebugPodCreated(n) ==
  /\ ~settled /\ n \in DebugPods \ pods
  /\ pods' = pods \cup {n} /\ ready' = ready \cup {n}
  /\ UNCHANGED <<used, settled>> /\ ClusterLocal

PodReady(n) ==
  /\ n \in pods \ ready /\ ready' = ready \cup {n}
  /\ UNCHANGED <<pods, used, settled>> /\ ClusterLocal

PodDeleted(n) ==
  /\ ~settled /\ n \in pods
  /\ pods' = pods \ {n} /\ ready' = ready \ {n}
  /\ UNCHANGED <<used, settled>> /\ ClusterLocal

\* From here on the daemon's pod is neither replaced nor unreachable.
Settle ==
  /\ ~settled /\ \E n \in Pods : pods \ DebugPods = {n} /\ n \in ready
  /\ settled' = TRUE
  /\ UNCHANGED <<pods, ready, used>> /\ ClusterLocal

PollStep(p) ==
  \/ Begin(p) \/ CommandSucceeds(p) \/ CommandFails(p) \/ CommandNotFound(p)
  \/ ListAnswers(p) \/ Refresh(p)

ClusterStep ==
  \/ \E n \in Pods : PodCreated(n)
  \/ \E n \in DebugPods : DebugPodCreated(n)
  \/ \E n \in Pods \cup DebugPods : PodReady(n) \/ PodDeleted(n)
  \/ Settle

Next == (\E p \in Polls : PollStep(p)) \/ ClusterStep

Spec == Init /\ [][Next]_vars

(* Polls go on, and each of their steps ends. *)
FairSpec == Spec /\ \A p \in Polls : WF_vars(PollStep(p))

-----------------------------------------------------------------------------
(* Properties *)

TypeOK ==
  /\ podName \in Pods
  /\ state \in [Polls -> {"idle", "running", "refreshing", "assigning"}]
  /\ target \in [Polls -> Pods]
  /\ answer \in [Polls -> Pods \cup {NoName}]
  /\ pods \subseteq Pods \cup DebugPods /\ ready \subseteq pods
  /\ used \subseteq Pods /\ pods \ DebugPods \subseteq used
  /\ settled \in BOOLEAN
  /\ failures \in [Polls -> Nat] /\ reverted \subseteq Polls

(* The context recovers: once the cluster has settled, commands eventually *)
(* always go to the pod that is there, though every answer of the          *)
(* cluster's list may be out of date when it is stored, and one poll may   *)
(* overwrite a newer name that another has stored.                         *)
Recovers == <>[](settled => podName \in ready)

(* Recovery is quick: since the cluster settled no poll has failed more    *)
(* often than twice plus once for every poll that shares the context.  A   *)
(* poll can bring back the name of a gone pod, but only once.              *)
FailuresBounded ==
  \A p \in Polls : failures[p] <= Limit

-----------------------------------------------------------------------------
(* The invariant behind FailuresBounded. *)

Stale(n) == n # NoName /\ n \notin pods

\* Does p hold an answer from before the cluster settled?
HoldsStale(p) == state[p] = "assigning" /\ Stale(answer[p])

\* How often p can still fail if nobody reverts the name.
Left(p) ==
  LET current == IF podName \in pods THEN 0 ELSE 1
  IN CASE state[p] = "idle" -> current
       [] state[p] = "running" -> IF target[p] \in pods THEN current ELSE 1
       [] state[p] = "refreshing" -> 1
       [] state[p] = "assigning" ->
            IF answer[p] = NoName THEN 1 + current ELSE 1

SettledInv ==
  settled =>
    /\ \E n \in Pods : pods \ DebugPods = {n} /\ n \in ready
    /\ \A p \in Polls : HoldsStale(p) => p \notin reverted
    /\ \A p \in Polls : failures[p] + Left(p) <= 2 + Cardinality(reverted)

=============================================================================
