----------------------------- MODULE MCAutotune -----------------------------
(* Eight cores, two models, the synthetic corpus and two of a query and a  *)
(* single document, the same in both; at most two configurations run.  The *)
(* timings put the median and the tail in different orders, and one is     *)
(* slower than one document a second.                                      *)
EXTENDS Autotune, TLC

MCDocsOf == Synthetic :> Synthetic @@ "own" :> "one" @@ "asked anew" :> "one"
MCNDocs == Synthetic :> 20 @@ "one" :> 1

MCTimings == {<<2>>, <<1, 1, 9>>, <<25000>>}

TextPoints == {<<"a", Synthetic, <<1, 1, 32>>>>, <<"a", Synthetic, <<8, 1, 32>>>>,
               <<"a", Synthetic, <<1, 4, 256>>>>, <<"a", "own", <<1, 1, 32>>>>}
RerankPoints == {<<"a", Synthetic, <<1, 4, 64>>>>, <<"a", Synthetic, <<8, 16, 256>>>>,
                 <<"a", Synthetic, <<1, 8, 32>>>>, <<"a", Synthetic, <<1, 4, 512>>>>,
                 <<"b", Synthetic, <<1, 4, 64>>>>, <<"a", "own", <<1, 4, 64>>>>,
                 <<"a", "asked anew", <<1, 4, 64>>>>}
OtherPoints == {<<"a", Synthetic, <<32, 0, 0>>>>, <<"a", Synthetic, <<128, 5, 1>>>>,
                <<"a", Synthetic, <<1, 1, 0>>>>, <<"a", Synthetic, <<8, 16, 0>>>>}
MCPoints == TextPoints \cup RerankPoints \cup OtherPoints

Req(kinds, models, corpora, modes, objectives, mins, limits) ==
    [kind : kinds, model : models, corpus : corpora, mode : modes,
     objective : objectives, min : mins, limit : limits]

MCRequests ==
    Req({"text"}, {"a", "b"}, {Synthetic, "own"}, {"quick", "full"}, {""}, {0}, {0})
    \cup Req({"rerank"}, {"a"}, {Synthetic, "own", "asked anew"}, {"quick"},
             {"latency", "throughput", "balanced", "memory"}, {0}, {0})
    \cup Req({"rerank"}, {"a", "b"}, {Synthetic}, {"quick", "full"}, {"balanced"}, {0}, {0})
    \cup Req({"constrained"}, {"a"}, {Synthetic}, {"full"}, {"latency", "throughput"},
             {0, 100, 512}, {2, 30000})
    \cup Req({"auto_config"}, {"a"}, {Synthetic}, {"quick"}, {"latency"}, {0}, {2, 9})
    \cup Req({"sparse", "image"}, {"a"}, {Synthetic}, {"quick"}, {""}, {0}, {0})
=============================================================================
