----------------------- MODULE MCSpecialResourceModule -----------------------
(* Instances of SpecialResourceModule for TLC. *)
EXTENDS SpecialResourceModule

CONSTANTS r1, r2, r3, t1, t2, a, b

Layer == [toolkit |-> None, references |-> None, version |-> None]

Single(layers) == [form |-> "digest", media |-> "image", layers |-> layers, manifests |-> <<>>]

Release(t) == Single(<<Layer, [Layer EXCEPT !.version = "4.9", !.references = <<[name |-> "driver-toolkit", value |-> t]>>]>>)

ToolkitOf(k, arch) ==
    Single(<<[Layer EXCEPT !.toolkit = [kernel |-> [base |-> k, arch |-> arch],
                                        rtKernel |-> [base |-> k, arch |-> arch], os |-> "8.4"]]>>)

\* The toolkit t2 names the architecture in its kernels; r3 is an image without layers.
Images ==
    (r1 :> Release(t1)) @@ (r2 :> Release(t2)) @@ (r3 :> Single(<<>>))
    @@ (t1 :> ToolkitOf("k1", FALSE)) @@ (t2 :> ToolkitOf("k2", TRUE))

\* The channels disagree on the version 4.9.2.
Graphs == "4.9.2" :> <<r1, r2, None>>

InOrder == <<t1, t2>>

\* One module watches the object a, the other all objects labelled x, and those not
\* labelled y.
Watches ==
    [s \in Specs |->
       IF s = "one" THEN <<[name |-> a, selector |-> {}]>>
       ELSE <<[name |-> None, selector |-> {[value |-> "x", exclude |-> FALSE], [value |-> "y", exclude |-> TRUE]}]>>]

Object(values, labels) == [value |-> values, label |-> labels]

\* Objects with a release image, a version, or both; with no, another or an unusable
\* label; with nothing at the path, an image without layers, or what is no version.
Contained ==
    {Object({r1}, {"x"}), Object({"4.9.2"}, {}), Object({r1, "4.9.2"}, {"y"}), Object({r1}, None),
     Object({}, {"x"}), Object({r3}, {}), Object({"latest"}, {"x"})}

Beginnings ==
    {[n \in {a, b} |-> IF n = a THEN Object({r1}, {"x"}) ELSE None],
     [n \in {a, b} |-> IF n = a THEN Object({"4.9.2"}, {}) ELSE Object({r1}, {"x"})]}

=============================================================================
