------------------------- MODULE MCNuodbController -------------------------
(***************************************************************************)
(* Instances of NuodbController for TLC.                                   *)
(***************************************************************************)
EXTENDS NuodbController

CONSTANTS c1, c2

\* One database with a Deployment.
TeManifest == [c \in {c1} |-> <<"te">>]

\* Two databases that share the readinessprobe ConfigMap; the second has only
\* what it shares, to keep the instance small.
SharedManifest == [c \in {c1, c2} |-> IF c = c1 THEN <<"readinessprobe", "sm">>
                                                ELSE <<"readinessprobe">>]

Counts(te, sm) == [r \in Role |-> IF r = "te" THEN te ELSE sm]

ScaleFromZero == {Counts(0, 0), Counts(1, 0)}
ScaleTwo  == {Counts(1, 1), Counts(2, 1)}
NoScaling == {Counts(1, 1)}
=============================================================================
