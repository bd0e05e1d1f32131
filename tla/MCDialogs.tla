------------------------------ MODULE MCDialogs ------------------------------
EXTENDS Dialogs

MCMethod == [codex |-> "oauth", openai |-> "openai", cloudflare |-> "account", gemini |-> "key", typesafe |-> "decision",
             claude |-> "binary", compat |-> "compat", ollama |-> "local"]
MCProviders == DOMAIN MCMethod
MCNames == {"mine"}
MCCatalog == [p \in MCProviders \cup MCNames |-> IF p \in {"codex", "mine"} THEN {"a", "b"} ELSE {"b"}]

Plan(c, m, p, l, w, from) ==
    [commands |-> c, moves |-> m, prompts |-> p, logins |-> l, web |-> w, providers |-> from]

MCPlans == {
    Plan(<<"model", "model">>, 2, 1, 0, 0, MCProviders),
    Plan(<<"mcp", "mcp">>, 1, 1, 0, 0, {}),
    Plan(<<"mcp">>, 3, 1, 1, 1, {}),
    Plan(<<"mcp">>, 0, 0, 2, 3, {}),
    Plan(<<"mcp", "model", "model">>, 1, 0, 1, 0, {"codex"})}
=============================================================================
