--------------------------- MODULE MCConversation ---------------------------
(* Instances of Conversation for TLC. *)
EXTENDS Conversation, TLC

CONSTANTS gpt, nova, v1, v2, gemini, openai, amazon, google

MCPieces == {gpt, nova, v1, v2, gemini}

\* A model of each provider; two of one family, told apart by what follows the
\* colon.
MCCatalog ==
    <<[id |-> <<gpt>>, owner |-> openai, providers |-> {"openai"}],
      [id |-> <<nova, v1>>, owner |-> amazon, providers |-> {"bedrock"}],
      [id |-> <<nova, v2>>, owner |-> amazon, providers |-> {"bedrock"}],
      [id |-> <<gemini>>, owner |-> google, providers |-> {"vertex"}]>>

\* Lengths that a division by four rounds and does not round; empty blocks.
MCSystems == {<<>>, <<0>>, <<6>>, <<3, 5>>}
MCHistories ==
    {<<>>, <<[role |-> "user", texts |-> <<3>>], [role |-> "assistant", texts |-> <<6>>]>>}
MCUtterances == {<<3>>, <<3, 5>>}
MCReplies == {2, 9}
=============================================================================
