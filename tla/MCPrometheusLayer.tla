--------------------------- MODULE MCPrometheusLayer ---------------------------
(***************************************************************************)
(* Instances of PrometheusLayer for TLC: the caller's operations, content  *)
(* lengths, chunk sizes and bounds are given by each .cfg.                  *)
(***************************************************************************)
EXTENDS PrometheusLayer

\* Every handler of PrometheusAccessor.
MCAllOps == Labels

\* A caller that stats and deletes.
MCStatDelete == {"Stat", "Delete"}

\* A caller that creates directories.
MCCreateDir == {"CreateDir"}

=============================================================================
