----------------------------- MODULE ChartStates -----------------------------
(***************************************************************************)
(* One SpecialResource on the nodes of a cluster: the states of its chart, *)
(* one replica per running kernel for kernel-affine ones, the state labels *)
(* on the nodes (ReconcileChartStates, labelNodesAccordingToState) and     *)
(* their removal when it is deleted (finalizeNodes).                       *)
(*                                                                         *)
(* Nodes join, leave, reboot into another kernel and are tainted while the *)
(* worker is between two calls.  The worker lists nodes from its cache, and *)
(* the cache's content is what "nodes" is: a change that the cache has not *)
(* seen makes an Update fail with a conflict, as a Mishap does.  Running a  *)
(* template is creating its object and then waiting until it is available. *)
(* The SpecialResource is no dependency of another one.  The driver        *)
(* toolkits of the kernels come from the image stream of the cluster, with *)
(* the rules of Upgrade.                                                   *)
(***************************************************************************)
EXTENDS Upgrade

CONSTANTS
    Node, Kernel, \* kernels as nodes report them
    OSOf,         \* [Kernel -> operating systems]
    Streams,      \* contents of the image stream driver-toolkit
    NumStates,    \* state templates of the chart, run in the order of their names
    Affine,       \* the kernel-affine ones
    AnyKernel,    \* stands for the kernel of an object that is not replicated
    MaxMishaps    \* changes of nodes and of the stream, and failing calls, in all

States == 1..NumStates

ASSUME ChartAssumption ==
    /\ NumStates \in Nat
    /\ Affine \subseteq States
    /\ AnyKernel \notin Kernel
    /\ MaxMishaps \in Nat

VARIABLES
    nodes,      \* the nodes: kernel, whether it exists, whether it is tainted
    stream,     \* the image stream
    labels,     \* the states each node is labelled with
    objs,       \* objects created from state templates: <<state, kernel>>
    ready,      \* those that are available
    was,        \* those that have been available at some time
    deleting,   \* the SpecialResource has a deletion timestamp
    pc,
    info,       \* RunInfo.ClusterUpgradeInfo
    cur,        \* the state being handled
    todo,       \* kernels left in the loop over info
    replica,    \* the object whose template is being run
    listed,     \* nodes left in the loop over a node list
    dirty,      \* nodes that changed since they were listed
    steady,     \* nodes that did not change since the pass began
    mishaps

cluster == <<nodes, stream, objs, ready, was>>
loops   == <<info, cur, todo, replica>>
vars    == <<cluster, labels, deleting, pc, loops, listed, dirty, steady, mishaps>>

-----------------------------------------------------------------------------
NodeState == [kernel : Kernel, up : BOOLEAN, tainted : BOOLEAN]
Key(i, k) == <<i, IF i \in Affine THEN k ELSE AnyKernel>>
Objects   == States \X (Kernel \cup {AnyKernel})

\* GetNodesByLabels drops nodes with a NoSchedule or NoExecute taint.
GetNodesByLabels == {n \in Node : nodes[n].up /\ ~nodes[n].tainted}

\* What GetClusterInfo is given of a node.
NodeInfo(n) == [kernel |-> nodes[n].kernel, os |-> OSOf[nodes[n].kernel]]

KernelVersions == DOMAIN info

Init ==
    /\ nodes \in [Node -> [kernel : Kernel, up : {TRUE}, tainted : {FALSE}]]
    /\ stream \in Streams
    /\ labels = [n \in Node |-> {}]
    /\ objs = {} /\ ready = {} /\ was = {}
    /\ deleting = FALSE
    /\ pc = "idle" /\ info = <<>> /\ cur = 1 /\ todo = {} /\ replica = <<1, AnyKernel>>
    /\ listed = {} /\ dirty = {} /\ steady = {}
    /\ mishaps = 0

-----------------------------------------------------------------------------
(* The cluster *)

Mishap == mishaps < MaxMishaps /\ mishaps' = mishaps + 1

\* A node leaves or joins, reboots or changes its taint.  A node that joins has
\* no labels.
NodeChanges(n) ==
    /\ Mishap
    /\ \E s \in NodeState :
         /\ s # nodes[n]
         /\ s.up \/ nodes[n].up
         /\ nodes' = [nodes EXCEPT ![n] = s]
         /\ labels' = IF s.up /\ nodes[n].up THEN labels ELSE [labels EXCEPT ![n] = {}]
    /\ dirty' = dirty \cup {n}
    /\ steady' = steady \ {n}
    /\ UNCHANGED <<stream, objs, ready, was, deleting, pc, loops, listed>>

\* The cluster is upgraded: another toolkit becomes the newest one.
StreamChanges ==
    /\ Mishap
    /\ stream' \in Streams \ {stream}
    /\ UNCHANGED <<nodes, objs, ready, was, labels, deleting, pc, loops, listed, dirty, steady>>

AvailabilityChanges(o) ==
    /\ o \in objs
    /\ IF o \in ready THEN ready' = ready \ {o} /\ was' = was
                      ELSE ready' = ready \cup {o} /\ was' = was \cup {o}
    /\ UNCHANGED <<nodes, stream, objs, labels, deleting, pc, loops, listed, dirty, steady, mishaps>>

Delete ==
    /\ ~deleting
    /\ deleting' = TRUE
    /\ UNCHANGED <<cluster, labels, pc, loops, listed, dirty, steady, mishaps>>

-----------------------------------------------------------------------------
(* A pass of the worker *)

\* The pass ends with an error and will be repeated.
Fail == pc' = "idle" /\ UNCHANGED <<loops, listed, dirty>>

\* GetRuntimeInformation, then the first state.  Without a matching node, or with a
\* toolkit that no node runs the kernel of, the pass ends here, with an error; a
\* panic ends the process.
StartPass ==
    /\ pc = "idle" /\ ~deleting
    /\ GetNodesByLabels # {}
    /\ info' \in GetClusterInfo(DOMAIN Contents, <<>>, stream, {NodeInfo(n) : n \in GetNodesByLabels})
                 \ {Panic}
    /\ todo' = DOMAIN info'
    /\ steady' = GetNodesByLabels
    /\ cur' = 1
    /\ pc' = IF NumStates = 0 THEN "nostate" ELSE "run"
    /\ UNCHANGED <<cluster, labels, deleting, replica, listed, dirty, mishaps>>

\* After a replica, with the kernels of "rest" to go: the next one, or the labels.
NextReplica(rest) ==
    IF cur \in Affine /\ rest # {} THEN pc' = "run" /\ UNCHANGED <<listed, dirty>>
    ELSE pc' = "label" /\ listed' = GetNodesByLabels /\ dirty' = {}

\* An error of Helmer.Run counts only if it is the one of the last kernel.
ReplicaFails(rest) ==
    IF rest = {} THEN pc' = "idle" /\ UNCHANGED <<listed, dirty>> ELSE NextReplica(rest)

\* Helmer.Run for the next kernel, in the order of a Go map: any.  A status update
\* or the computation of the values may fail before, or the creation itself.
CreateReplica ==
    /\ pc = "run"
    /\ \/ \E k \in todo :
            /\ todo' = todo \ {k}
            /\ replica' = Key(cur, k)
            /\ \/ objs' = objs \cup {Key(cur, k)} /\ pc' = "wait" /\ UNCHANGED <<listed, dirty, mishaps>>
               \/ Mishap /\ ReplicaFails(todo') /\ UNCHANGED objs
            /\ UNCHANGED <<info, cur>>
       \/ Mishap /\ Fail /\ UNCHANGED objs
    /\ UNCHANGED <<nodes, stream, ready, was, labels, deleting, steady>>

\* Mutant: an error never counts.
WaitForReplicaForgiving ==
    /\ pc = "wait"
    /\ NextReplica(todo)
    /\ UNCHANGED <<cluster, labels, deleting, loops, steady, mishaps>>

\* It is available, or it was not within the time of the poll, or a call failed.
WaitForReplica ==
    /\ pc = "wait"
    /\ \/ replica \in ready /\ NextReplica(todo) /\ UNCHANGED mishaps
       \/ ((replica \notin ready /\ UNCHANGED mishaps) \/ Mishap) /\ ReplicaFails(todo)
    /\ UNCHANGED <<cluster, labels, deleting, loops, steady>>

\* Mutant: an error of an Update is logged and the node passed over.
LabelNodeOrSkip ==
    /\ pc = "label"
    /\ \E n \in listed :
         /\ \/ labels' = [labels EXCEPT ![n] = @ \cup {cur}] /\ UNCHANGED mishaps
            \/ Mishap /\ UNCHANGED labels
         /\ listed' = listed \ {n}
    /\ UNCHANGED <<cluster, deleting, pc, loops, dirty, steady>>

\* labelNodesAccordingToState: an Update per node; any error ends the pass.
LabelNode ==
    /\ pc = "label"
    /\ \/ \E n \in listed \ dirty :
            /\ labels' = [labels EXCEPT ![n] = @ \cup {cur}]
            /\ listed' = listed \ {n}
            /\ UNCHANGED <<pc, loops, dirty, mishaps>>
       \/ listed \cap dirty # {} /\ Fail /\ UNCHANGED <<labels, mishaps>>
       \/ Mishap /\ Fail /\ UNCHANGED labels
    /\ UNCHANGED <<cluster, deleting, steady>>

\* Mutant: one state too many.
NextStateTooFar ==
    /\ pc = "label" /\ listed = {}
    /\ IF cur <= NumStates
       THEN cur' = cur + 1 /\ todo' = KernelVersions /\ pc' = "run"
       ELSE pc' = "nostate" /\ UNCHANGED <<cur, todo>>
    /\ UNCHANGED <<cluster, labels, deleting, info, replica, listed, dirty, steady, mishaps>>

NextState ==
    /\ pc = "label" /\ listed = {}
    /\ IF cur < NumStates
       THEN cur' = cur + 1 /\ todo' = KernelVersions /\ pc' = "run"
       ELSE pc' = "nostate" /\ UNCHANGED <<cur, todo>>
    /\ UNCHANGED <<cluster, labels, deleting, info, replica, listed, dirty, steady, mishaps>>

\* The templates without a state.
RunStateless ==
    /\ pc = "nostate"
    /\ \/ pc' = "done" /\ UNCHANGED <<loops, listed, dirty, mishaps>>
       \/ Mishap /\ Fail
    /\ UNCHANGED <<cluster, labels, deleting, steady>>

\* SetAsReady; the request is done with.
EndPass ==
    /\ pc = "done"
    /\ Fail
    /\ UNCHANGED <<cluster, labels, deleting, steady, mishaps>>

-----------------------------------------------------------------------------
(* Finalization *)

ListNodes ==
    /\ pc = "idle" /\ deleting
    /\ pc' = "finalize"
    /\ listed' = GetNodesByLabels
    /\ dirty' = {}
    /\ steady' = GetNodesByLabels
    /\ UNCHANGED <<cluster, labels, deleting, loops, mishaps>>

\* Mutant: only the label of the last state is removed.
FinalizeNodeLastState ==
    /\ pc = "finalize"
    /\ \E n \in listed \ dirty :
         /\ labels' = [labels EXCEPT ![n] = @ \ {NumStates}]
         /\ listed' = listed \ {n}
    /\ UNCHANGED <<cluster, deleting, pc, loops, dirty, steady, mishaps>>

\* A conflict, a forbidden Update or a failing List ends the attempt; any other
\* error of an Update is dropped (a node that has gone, for one).
FinalizeNode ==
    /\ pc = "finalize"
    /\ \/ \E n \in listed :
            /\ \/ n \notin dirty /\ labels' = [labels EXCEPT ![n] = {}] /\ UNCHANGED <<steady, mishaps>>
               \/ n \in dirty /\ ~nodes[n].up /\ UNCHANGED <<labels, steady, mishaps>>
               \/ Mishap /\ steady' = steady \ {n} /\ UNCHANGED labels
            /\ listed' = listed \ {n}
            /\ UNCHANGED <<pc, loops, dirty>>
       \/ /\ \E n \in listed \cap dirty : nodes[n].up
          /\ Fail
          /\ UNCHANGED <<labels, steady, mishaps>>
       \/ Mishap /\ Fail /\ UNCHANGED <<labels, steady>>
    /\ UNCHANGED <<cluster, deleting>>

\* The finalizer is removed, and with it the SpecialResource.
Finalized ==
    /\ pc = "finalize" /\ listed = {}
    /\ pc' = "gone"
    /\ UNCHANGED <<cluster, labels, deleting, loops, listed, dirty, steady, mishaps>>

Pass == CreateReplica \/ WaitForReplica \/ LabelNode \/ NextState \/ RunStateless \/ EndPass

Finalize == ListNodes \/ FinalizeNode \/ Finalized

Next ==
    \/ \E n \in Node : NodeChanges(n)
    \/ StreamChanges
    \/ \E o \in Objects : AvailabilityChanges(o)
    \/ Delete
    \/ StartPass
    \/ Pass
    \/ Finalize

Spec == Init /\ [][Next]_vars

-----------------------------------------------------------------------------
(* Properties *)

\* The type invariant of the nodes, the replicas and the two loops over them.
TypeOK ==
    /\ nodes \in [Node -> NodeState]
    /\ labels \in [Node -> SUBSET States]
    /\ objs \subseteq Objects /\ ready \subseteq objs /\ was \subseteq objs
    /\ deleting \in BOOLEAN
    /\ pc \in {"idle", "run", "wait", "label", "nostate", "done", "finalize", "gone"}
    /\ stream \in Streams
    /\ KernelVersions \subseteq Kernel /\ todo \subseteq KernelVersions
    /\ cur \in 1..(NumStates + 1) /\ replica \in (1..(NumStates + 1)) \X (Kernel \cup {AnyKernel})
    /\ listed \subseteq Node /\ dirty \subseteq Node /\ steady \subseteq Node
    /\ mishaps \in 0..MaxMishaps

\* A pass leaves out no node: one that did not change since the pass began has
\* the labels of all states that the pass is done with, whatever conflicts with
\* other nodes and earlier passes there were (labelNodesAccordingToState).
SteadyNodesLabelled ==
    \A n \in steady :
        /\ pc \in {"run", "wait", "label"} => 1..(cur - 1) \subseteq labels[n]
        /\ pc \in {"nostate", "done"} => labels[n] = States

\* A kernel-affine state is waited for before the next one is begun: at least
\* one of its replicas has been available (the errors that do not count are
\* those of the kernels before the last).
LaterStatesWait ==
    \A o \in objs : o[1] > 1 /\ o[1] - 1 \in Affine =>
        \E k \in Kernel : <<o[1] - 1, k>> \in was

\* A deleted SpecialResource leaves no label on a node that did not change while
\* it was finalized and whose Update did not fail.
SteadyNodesClean == pc = "gone" => \A n \in steady : labels[n] = {}

\* The driver of a kernel is built with the toolkit made for that kernel, on the
\* operating system of the nodes that run it, or with none: never with the newest
\* toolkit just because it is there (updateInfo).
OwnToolkit ==
    \A k \in KernelVersions : info[k].toolkit # None =>
        k \in {info[k].toolkit.kernel, info[k].toolkit.rtKernel} /\ info[k].toolkit.os = OSOf[k]

=============================================================================
