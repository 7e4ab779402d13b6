-------------------------- MODULE MCNuodbInsights --------------------------
(***************************************************************************)
(* Instances of NuodbInsightsServer for TLC: parts of the pipeline.        *)
(***************************************************************************)
EXTENDS NuodbInsightsServer

\* All servers in the namespace "nuodb".
OneNamespace == [s \in Server |-> "nuodb"]

\* The Elastic operator and the clusters it runs.
ElasticPipeline == <<"marker", "eckCrd", "eckRole", "eck", "es", "kibana">>
ElasticTeardown == <<"kibana", "es">>

\* What several servers share, and what depends on it.
SharedPipeline == <<"es", "template", "logstash">>
SharedTeardown == <<"es">>

\* Elasticsearch and the definition of its kind.
DefinedElastic == <<"eckCrd", "es">>

\* The Grafana operator and what it watches.
DashboardPipeline == <<"instance", "grafanaCrd", "operator", "datasource", "dashboard">>
DashboardTeardown == <<"dashboard", "datasource", "operator">>
=============================================================================
