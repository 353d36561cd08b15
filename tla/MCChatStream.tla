---------------------------- MODULE MCChatStream ----------------------------
(* Instances of ChatStream for TLC. *)
EXTENDS ChatRefinement, TLC

CONSTANTS r1, r2, gpt, gemini, canned, long, short, empty

OneModel == {gpt}
TwoModels == {gpt, gemini}
MCTexts == {canned, long, short}
MCWordCount == [t \in MCTexts |-> IF t = short THEN 1 ELSE IF t = long THEN 3 ELSE 2]
MCTextLength == [t \in MCTexts |-> IF t = short THEN 3 ELSE IF t = long THEN 13 ELSE 8]

\* Scenarios the admin or the scenario file uses.
Plain(t) == [Benign EXCEPT !.text = t]
Slow(t)  == [Benign EXCEPT !.text = t, !.latency = TRUE, !.paced = TRUE]
Failing(code) == [Benign EXCEPT !.error = code]
LateFailing(code) == [Benign EXCEPT !.error = code, !.latency = TRUE]

Ask(m, s, st) == [model |-> m, surface |-> s, stream |-> st, valid |-> TRUE]
Bad(m, s) == [model |-> m, surface |-> s, stream |-> TRUE, valid |-> FALSE]

Entry(m, o, s) == [model |-> m, op |-> o, scenario |-> s]

\* One request on any of the five surfaces, streamed or not.
AllInputs ==
    {Ask(gpt, s, st) : s \in SurfaceNames, st \in BOOLEAN} \cup {Bad(gpt, "openai")}
\* Two streams that share the store, on surfaces that refuse a missing Flusher
\* before and after they start.
PairInputs ==
    {Ask(gpt, "openai", TRUE), Ask(gpt, "vertex", TRUE), Ask(gemini, "converse", FALSE)}

NoSeed == {<<>>}
Seeds ==
    {<<>>,
     <<Entry(gpt, "", Plain(long)), Entry(gpt, "video", Failing(429)),
       Entry(gpt, "chat", Slow(long))>>}

AllPuts ==
    {Plain(short), Slow(long), Failing(429), LateFailing(0), Failing(42), Failing(103)}
PairPuts == {Plain(short), LateFailing(429)}

=============================================================================
