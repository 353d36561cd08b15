--------------------------- MODULE MCCallPipeline ---------------------------
(* Instances of CallPipeline for TLC. *)
EXTENDS CallPipeline, TLC

CONSTANTS ask, askAgain, film, filmAgain, embed, embedAgain, \* calls
          gpt, sora, id1, id2, id3

\* Two equal chat calls, two different videos, and two equal calls of a route
\* whose replies have no id, for which LiteLLM has no call id either.
MCCalls == {ask, askAgain, film, filmAgain, embed, embedAgain}
MCSessions == {{ask, askAgain}, {film, filmAgain}, {embed, embedAgain}}

\* For the finding.
MCFilmSession == {{film, filmAgain}}

MCRouteOf ==
    [c \in Calls |->
        CASE c \in {ask, askAgain} -> "chat"
          [] c \in {film, filmAgain} -> "video"
          [] OTHER -> "plain"]
MCRequestOf ==
    [c \in Calls |-> CASE c = askAgain -> ask [] c = embedAgain -> embed [] OTHER -> c]
MCCallIdOf ==
    [c \in Calls |-> CASE c = ask -> id1 [] c = askAgain -> id2
                        [] c = film -> id3 [] OTHER -> NoCallId]

IdsOf(c) ==
    CASE RouteOf[c] = "chat"  -> {"chatcmpl"} \X (0..MaxTime)
      [] RouteOf[c] = "video" -> {"video"} \X (1..2)
      [] OTHER                -> {}

\* The documents of a call, under every key they might have: an event for each
\* call; a raw response for each call of two sessions, and for one call of the
\* third a raw response that is delivered twice.
KeysOf(c) == IdsOf(c) \cup {CallIdOf[c]}
EventPosts == UNION {{<<"event", c, k, 1>> : k \in KeysOf(c)} : c \in Calls}
RawPosts ==
    UNION {{<<"raw", c, k, 1>> : k \in KeysOf(c)} :
              c \in {ask, askAgain, embed, embedAgain}}
        \cup {<<"raw", film, CallIdOf[film], i>> : i \in 1..2}
MCDeliveries == EventPosts \cup RawPosts

MCKindOf == [d \in Deliveries |-> d[1]]
MCCallOf == [d \in Deliveries |-> d[2]]
MCKeyOf == [d \in Deliveries |-> d[3]]
MCModelOf ==
    [d \in Deliveries |-> IF RouteOf[CallOf[d]] = "chat" THEN gpt ELSE sora]
=============================================================================
