--------------------------------- MODULE Poll ---------------------------------
(***************************************************************************)
(* When an object that is waited for counts as available (pkg/poll): one   *)
(* rule per kind, each looking once at what the object's controller has    *)
(* written into its status.                                                *)
(*                                                                         *)
(* A number of a status that the API leaves out when it is zero is Absent. *)
(***************************************************************************)
EXTENDS Integers

Absent == -1

Written(n) == IF n = 0 THEN Absent ELSE n

\* forPod, forBuild: makeStatusCallback on status.phase; a field that is missing
\* is an error, which the caller treats as "not available".
forPhase(phase, expected) == phase = expected

\* Mutant: a number that is missing is zero.
forDaemonSetCallbackZero(status) ==
    (IF status.numberAvailable = Absent THEN 0 ELSE status.numberAvailable) = status.desiredNumberScheduled

\* forDaemonSetCallback: numberUnavailable is looked at, unless numberAvailable is
\* there; a status with neither is not good enough.
forDaemonSetCallback(status) ==
    IF status.numberAvailable # Absent
    THEN status.numberAvailable = status.desiredNumberScheduled
    ELSE status.numberUnavailable = 0

\* Mutant: the pods are not looked at.
forNoLifecycle(onDelete, generation, podGenerations) == TRUE

\* forLifecycleAvailability: pods that were made from another template are still
\* running.  The generation is the one crud left in the object.
forLifecycleAvailability(onDelete, generation, podGenerations) ==
    onDelete => podGenerations \subseteq {generation}

\* forDeployment: over the ReplicaSets its selector finds.
forDeployment(replicaSets) ==
    \A rs \in replicaSets :
       rs.replicas # Absent /\ (rs.replicas # 0 => rs.availableReplicas = rs.replicas)

\* forStatefulSet.
forStatefulSet(replicas, currentReplicas) ==
    currentReplicas # Absent /\ currentReplicas = replicas

\* forJob: the types of the conditions whose status is True.
forJob(conditions) == "Complete" \in conditions

\* ForDaemonSetLogs: the pattern is in the log of every pod that is found.
ForDaemonSetLogs(matched) == matched \subseteq {TRUE}

=============================================================================
