--------------------------- MODULE MCMetricsPipeline ---------------------------
(* MetricsPipeline with pods of one or two containers.                     *)
EXTENDS MetricsPipeline

ReportedPods == {<<"low">>, <<"low", "partial">>}
=============================================================================
