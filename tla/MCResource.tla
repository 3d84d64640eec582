------------------------------ MODULE MCResource ------------------------------
(* Instances of Resource for TLC. *)
EXTENDS Resource

CONSTANTS a, b, w1, w2, n1

Plain(kind) == [kind |-> kind, wait |-> FALSE, logs |-> FALSE, driver |-> FALSE, vendor |-> FALSE,
                onDelete |-> FALSE, affine |-> FALSE, nodes |-> Node]

Waited(kind) == [Plain(kind) EXCEPT !.wait = TRUE]

\* As in the chart simple-kmod: the driver is built if it has to be, and waited for.
Build  == [Waited("BuildConfig") EXCEPT !.vendor = TRUE, !.affine = TRUE]
Driver == [Waited("DaemonSet") EXCEPT !.driver = TRUE, !.vendor = TRUE, !.onDelete = TRUE,
                                      !.affine = TRUE, !.nodes = {n1}]

Charts(x, y) == [o \in Owner |-> IF o = a THEN x ELSE y]

TwoWorkers == [o \in Owner |-> IF o = a THEN w1 ELSE w2]

\* The kinds the SpecialResource and the SpecialResourceModule controller own.
Owned == [w \in Worker |-> IF w = w1 THEN {"Pod", "DaemonSet", "Deployment", "BuildConfig", "Secret"}
                           ELSE {"BuildConfig"}]

OneDriver  == Charts(<<Build, Driver, Plain("Secret")>>, <<>>)
TwoVendors == Charts(<<Build>>, <<Build, Driver>>)
Rolling    == Charts(<<[Waited("DaemonSet") EXCEPT !.logs = TRUE], Plain("Secret")>>, <<>>)
FewKinds   == Charts(<<Plain("CustomResourceDefinition"), Waited("Job"), Waited("Deployment"), Waited("Secret")>>, <<>>)
MoreKinds  == Charts(<<Waited("Pod"), Waited("StatefulSet"), Waited("BuildConfig"), Plain("Secret")>>, <<>>)

AllCharts == {OneDriver, TwoVendors, Rolling, FewKinds, MoreKinds}
Kmod      == {OneDriver}

=============================================================================
