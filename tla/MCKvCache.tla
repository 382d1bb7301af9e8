------------------------------ MODULE MCKvCache ------------------------------
(* Small instances of KvCache: two slots, contexts of three or four        *)
(* positions.                                                              *)
EXTENDS KvCache

Conf(n_cells, n_ctx, n_ubatch, n_swa, n_draft, unified, cache_prompt, ctx_shift) ==
  [n_cells |-> n_cells, n_ctx |-> n_ctx, n_ubatch |-> n_ubatch, n_swa |-> n_swa, n_draft |-> n_draft,
   unified |-> unified, cache_prompt |-> cache_prompt, ctx_shift |-> ctx_shift]

\* One stream too small for both slots, with drafts: with context shift, and
\* with prompts that reuse what a slot still holds.
Shared == {Conf(4, 4, 2, 0, 1, TRUE, FALSE, TRUE), Conf(4, 4, 2, 0, 1, TRUE, TRUE, FALSE)}

\* A stream per slot.
Separate == {Conf(4, 4, 2, 0, 1, FALSE, FALSE, TRUE), Conf(3, 3, 2, 0, 1, FALSE, TRUE, TRUE)}

\* A window of two tokens, so that cells are taken over.
Window == {Conf(4, 4, 1, 2, 0, TRUE, FALSE, FALSE)}

AllConfs == Shared \cup Separate \cup Window

\* A window, and prompts that reuse what a slot still holds; the cells are what
\* llama_kv_cache_iswa asks for: n_swa for each slot and a micro-batch.
WindowReuse == {Conf(5, 4, 1, 2, 0, TRUE, TRUE, FALSE)}
=============================================================================
