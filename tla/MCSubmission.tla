----------------------------- MODULE MCSubmission -----------------------------
EXTENDS Submission, FiniteSetsExt

\* Arithmetic in which every operand counts and the commands differ; only a
\* layer's keys and values are the same for every hidden state, which leaves
\* fewer histories of the caches to tell apart.
MCValues == 0 .. 1
MCFreshValues == {0}
MCResult(c, in) ==
  IF c.op \in {"attn_k", "attn_v"} THEN c.layer
  ELSE (c.group + c.layer + MapThenSumSet(LAMBDA r : in[r], DOMAIN in)) % 2

===============================================================================
