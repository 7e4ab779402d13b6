---------------------------- MODULE MCNuodbAdmin ----------------------------
(***************************************************************************)
(* Instances of NuodbAdminController for TLC.                              *)
(***************************************************************************)
EXTENDS NuodbAdminController

\* The StatefulSet with the Pod of hosted Insights; with its Service, which
\* goes at once and is not watched, and the ConfigMap, which stays.
Pods     == <<"nuodb-insights", "admin">>
Services == <<"insights-configmap", "insights-server", "admin">>

OnePod     == {"nuodb-insights"}
OneService == {"insights-server"}

Wants(n, on) == [admins |-> n, insights |-> on]

SwitchScale == {Wants(1, TRUE), Wants(2, FALSE)}
=============================================================================
