-------------------------- MODULE MCExportPipeline --------------------------
(* Small instances of ExportPipeline.                                       *)
EXTENDS ExportPipeline, TLC

CONSTANTS d1, d2, m1, m2, w1, w2

(* Two sets of details for one mediator, and for two.                       *)
OneMediator  == [d \in {d1, d2} |-> m1]
TwoMediators == (d1 :> m1) @@ (d2 :> m2)

(* The workers are alike: no action and no property tells them apart.       *)
WorkerSymmetry == Permutations({w1, w2})
=============================================================================
