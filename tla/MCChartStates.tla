---------------------------- MODULE MCChartStates ----------------------------
(* Instances of ChartStates for TLC. *)
EXTENDS ChartStates

CONSTANTS n1, n2, k1, k2, t1, t2

Machines == Permutations(Node)

Reported(k) == [base |-> k, arch |-> TRUE]

Kernels == {Reported(k1), Reported(k2)}

OperatingSystems == [k \in Kernels |-> IF k = Reported(k1) THEN "8.4" ELSE "8.6"]

\* The toolkit of k1 leaves out the architecture; k2 is the real-time kernel of the other.
Entry(t) ==
    IF t = t1 THEN [kernel |-> [base |-> k1, arch |-> FALSE], rtKernel |-> [base |-> None, arch |-> FALSE], os |-> "8.4"]
              ELSE [kernel |-> [base |-> None, arch |-> TRUE], rtKernel |-> Reported(k2), os |-> "8.6"]

Images ==
    [t \in {t1, t2} |->
       [form |-> "digest", media |-> "image", manifests |-> <<>>,
        layers |-> <<[toolkit |-> Entry(t), references |-> None, version |-> None]>>]]

\* Before and after an upgrade from t1 to t2.
Upgrades ==
    {<<[ref |-> t1, created |-> 1]>>, <<[ref |-> t1, created |-> 1], [ref |-> t2, created |-> 2]>>}

=============================================================================
