------------------------------ MODULE MCOneShot ------------------------------
(* Instances of OneShot for TLC. *)
EXTENDS OneShot

CONSTANTS r1, r2, ada, dalle, canned, empty, none

MCOps == OneShotOps \cup {"video"}

Failing(code) == [Benign EXCEPT !.error = code]
Slow == [Benign EXCEPT !.latency = TRUE]

Ask(o, m) == [op |-> o, model |-> m, complete |-> TRUE]

\* Every use case; an image request with and without its model; requests
\* without a model or an input.
AllInputs ==
    {Ask(o, ada) : o \in OneShotOps}
        \cup {Ask("image", none), Ask("audio_speech", none),
              [Ask("embedding", ada) EXCEPT !.complete = FALSE]}

OneInput == {Ask("embedding", ada)}

Entry(m, o, s) == [model |-> m, op |-> o, scenario |-> s]

Seeds ==
    {<<>>,
     <<Entry(ada, "", Failing(400)), Entry(ada, "image", Failing(429)),
       Entry(dalle, "image", Slow), Entry(ada, "audio_speech", Failing(0))>>}

AllPuts == {Benign, Failing(429), Failing(42)}
SlowPuts == {Slow}
=============================================================================
