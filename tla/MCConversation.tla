--------------------------- MODULE MCConversation ---------------------------
(* A tool that Claude Code has too, under another casing, and one that it  *)
(* has not; and a conversation by each adapter.                            *)
EXTENDS Adapters

MCTools == <<"read", "lookup">>
MCCanonical == [read |-> "Read", Read |-> "Read", lookup |-> "lookup"]
MCFolded == [read |-> "read", Read |-> "read", lookup |-> "lookup"]
MCUsages == {[input |-> 1, write |-> 2, read |-> 3]}

To(adapter, v4, named, hint, client_key) ==
  [adapter |-> adapter, v4 |-> v4, named_openai |-> named, hint |-> hint,
   client_key |-> client_key]
MCRoutes ==
  {To(adapter, FALSE, FALSE, FALSE, FALSE) : adapter \in {"claude_code", "anthropic", "codex"}}
    \cup {To("openai", TRUE, FALSE, FALSE, FALSE), To("openai", FALSE, TRUE, TRUE, FALSE),
          To("codex", FALSE, FALSE, FALSE, TRUE)}
MCCauses == AllCauses
=============================================================================
