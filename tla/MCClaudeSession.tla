-------------------------- MODULE MCClaudeSession --------------------------
(* Instances of ClaudeSession for TLC; the prompts are interchangeable.     *)
EXTENDS ClaudeSession, TLC
PromptSymmetry == Permutations(Prompts)
=============================================================================
