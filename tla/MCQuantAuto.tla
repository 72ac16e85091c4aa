---------------------------- MODULE MCQuantAuto -----------------------------
(* Entries as in the registry: a family of three codes in the order FP32,  *)
(* FP16, INT8 (bge-small-en-v1.5) and a family whose two entries share one *)
(* code (nomic-embed-text-v1.5).                                           *)
EXTENDS QuantAuto

MCRegistry ==
    << [name |-> "bge",   code |-> "bge-fp32", quant |-> "none"],
       [name |-> "bge",   code |-> "bge-fp16", quant |-> "fp16"],
       [name |-> "nomic", code |-> "nomic",    quant |-> "none"],
       [name |-> "nomic", code |-> "nomic",    quant |-> "dynamic"],
       [name |-> "bge",   code |-> "bge-int8", quant |-> "dynamic"] >>

(* Within the floor of each other, over it, and clearly faster; and probes  *)
(* of which one is over three times slower than the other.                 *)
MCMeasureRates == {0, 95, 106, 130}
MCProbeRates == {20, 100}
=============================================================================
