---------------------------- MODULE MCModelCache ----------------------------
(* One process loads a model of a required and an optional file while     *)
(* another cleans the cache up, keeping the model, a repository whose      *)
(* directory is the same, or nothing.  The identifiers are shaped as those *)
(* of a text model are, whose model_code and model_name differ.            *)
EXTENDS ModelCache, TLC

CONSTANTS n1, n2, n3
MCInodes == {n1, n2, n3}
Sym == Permutations(MCInodes)

Xenova == <<"Xenova", "/", "bge", "-", "small">>
Baai == <<"BAAI", "/", "bge", "-", "small">>
Twin == <<"Xenova", "-", "bge", "/", "small">>
Other == <<"Qdrant", "/", "minilm">>
MCOthers == {Other}
MCStrays == {<<"logs">>}
MCKeepLists == {{Xenova}, {Twin}, {}}
MCNamedLists == {{Baai}}
=============================================================================
