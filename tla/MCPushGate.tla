----------------------------- MODULE MCPushGate -----------------------------
EXTENDS PushGate, TLC
CONSTANTS first, second
\* Before the contract, with it, and after it was dropped.
MCCommits == {"plain", "gated", "dropped"}
MCAncestors == [c \in MCCommits |->
    CASE c = "plain" -> {"plain"} [] c = "gated" -> {"plain", "gated"} [] c = "dropped" -> MCCommits]
MCCarries == {"gated"}
\* Two passes and a failure of one commit, and a pass of another.
MCReceipts == {first, second, "failed", "other"}
MCOf == [x \in MCReceipts |-> IF x = "other" THEN "plain" ELSE "gated"]
MCVerifies == {first, second, "other"}
\* Worktrees are interchangeable, and so are the two passes.
MCSymmetry == {f @@ g : f \in Permutations(Pushes), g \in Permutations({first, second})}
=============================================================================
