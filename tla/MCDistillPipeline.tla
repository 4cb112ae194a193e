-------------------------- MODULE MCDistillPipeline --------------------------
(***************************************************************************)
(* Values of the constants of DistillPipeline for TLC: two ingests of one  *)
(* page; an ingest of an upload that is distilled; an input that is        *)
(* refused; and two distillations of two memories.                         *)
(***************************************************************************)
EXTENDS DistillPipeline, TLC

CONSTANTS i1, i2, f1, f2

MCWorkloads ==
    { [ingest |-> (i1 :> "url") @@ (i2 :> "url"), distill |-> {}, notes |-> 0],
      [ingest |-> (i1 :> "s3_uri"), distill |-> {f1}, notes |-> 0],
      [ingest |-> (i1 :> "bad"), distill |-> {}, notes |-> 0],
      [ingest |-> <<>>, distill |-> {f1, f2}, notes |-> 2] }
==============================================================================
