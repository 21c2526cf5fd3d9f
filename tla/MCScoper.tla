------------------------------ MODULE MCScoper ------------------------------
(* Values for the constants of Scoper in the model-checking runs.          *)
EXTENDS Scoper, TLC

CONSTANTS c1, c2, c3, n1, n2, shared, sa

CRSpec(n, s) == [target |-> n, sa |-> s]

(* Same-namespace targets: the CRs live where the RoleBinding is.          *)
SameHome  == [c \in CRs |-> n1]
OneName   == [c \in CRs |-> shared]
OptionalSA == {CRSpec(Unset, sa), CRSpec(Unset, Unset)}
StaticSpec == {CRSpec(Unset, sa)}

(* Cross-namespace targets: both CRs live in n2 and may ask for either.    *)
CrossHome  == [c \in CRs |-> n2]
IntoAny    == {CRSpec(n1, sa), CRSpec(n2, sa), CRSpec(Unset, sa)}
============================================================================
