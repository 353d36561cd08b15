----------------------------- MODULE MCVideoJobs -----------------------------
(* An instance of VideoJobs for TLC. *)
EXTENDS VideoJobs, TLC

CONSTANTS c1, c2, c3, sora, canned, empty

MCAsks ==
    {[valid |-> TRUE, model |-> sora, prompt |-> "cat", seconds |-> ""],
     [valid |-> TRUE, model |-> sora, prompt |-> "dog", seconds |-> "8"],
     [valid |-> FALSE, model |-> sora, prompt |-> "", seconds |-> ""]}

MCVideoScenarios == {Benign, [Benign EXCEPT !.error = 503]}
=============================================================================
