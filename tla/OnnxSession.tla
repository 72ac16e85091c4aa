---------------------------- MODULE OnnxSession ----------------------------
(***************************************************************************)
(* detail/onnx_session_impl.hpp: the ONNX Runtime objects that loading a   *)
(* model and running it create and release.  Each call into the runtime is *)
(* a step; ort_check throws when one fails, and nothing is released on the *)
(* way out.  A release never fails.                                        *)
(***************************************************************************)
EXTENDS Integers, Sequences, SequencesExt

Make(objs) == [make |-> objs, drop |-> {}]      \* a checked call that creates objects
Drop(obj) == [make |-> {}, drop |-> {obj}]      \* a release
Checked == [make |-> {}, drop |-> {}]           \* any other checked call

(* The objects that exist after the first k steps. *)
Held(steps, k) ==
    LET live[n \in 0..Len(steps)] ==
            IF n = 0 THEN {} ELSE (live[n - 1] \cup steps[n].make) \ steps[n].drop
    IN live[k]

(* The steps that can throw. *)
MayThrow(steps) == {k \in DOMAIN steps : steps[k].drop = {}}

(* query_io_names: each name is copied and given back. *)
Names(io, n) ==
    <<Checked>> \o [k \in 1..(2 * n) |-> IF k % 2 = 1 THEN Make({<<io, (k + 1) \div 2>>})
                                       ELSE Drop(<<io, (k + 1) \div 2>>)]

(* apply_quantization_config; apply_provider_config ignores failures.      *)
QuantizationSteps(quantization) ==
    CASE quantization = "static"  -> <<Checked, Checked>>
      [] quantization = "dynamic" -> <<Checked>>
      [] OTHER                    -> <<>>

(* load_from_file and load_from_memory. *)
LoadSteps(threads, quantization, inputs, outputs) ==
    <<Make({<<"options">>}), Checked, Checked, Checked>>
      \o (IF threads > 0 THEN <<Checked, Checked>> ELSE <<>>)
      \o QuantizationSteps(quantization)
      \o <<Make({<<"session">>}), Drop(<<"options">>), Checked>>
      \o Names("input", Len(inputs)) \o Names("output", outputs)

(* One output: its shape is asked for, its floats are copied.              *)
ExtractSteps(outputs) ==
    [k \in 1..(6 * outputs) |->
        LET i == (k + 5) \div 6 IN
        CASE k % 6 = 1 -> Make({<<"info", i>>})
          [] k % 6 = 5 -> Drop(<<"info", i>>)
          [] k % 6 = 0 -> Drop(<<"value", i>>)
          [] OTHER     -> Checked]

(* run: input_ids always, the two others when the model has that input.    *)
RunInputs(inputs) ==
    LET Present(n) == IF n \in Range(inputs) THEN <<n>> ELSE <<>> IN
    <<"input_ids">> \o Present("attention_mask") \o Present("token_type_ids")

RunStepsKeepingInfo(inputs, outputs) ==
    LET ins == RunInputs(inputs) IN
    <<Make({<<"memory">>})>>
      \o [i \in DOMAIN ins |-> Make({<<"input", ins[i]>>})]
      \o <<Make({<<"value", i>> : i \in 1..outputs})>>
      \o ExtractSteps(outputs)
      \o [i \in DOMAIN ins |-> Drop(<<"input", ins[i]>>)]
RunSteps(inputs, outputs) ==
    LET ins == RunInputs(inputs) IN
    <<Make({<<"memory">>})>>
      \o [i \in DOMAIN ins |-> Make({<<"input", ins[i]>>})]
      \o <<Make({<<"value", i>> : i \in 1..outputs})>>
      \o ExtractSteps(outputs)
      \o [i \in DOMAIN ins |-> Drop(<<"input", ins[i]>>)]
      \o <<Drop(<<"memory">>)>>
=============================================================================
