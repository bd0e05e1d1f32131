------------------------------ MODULE McpOAuth ------------------------------
(***************************************************************************)
(* Logging in to an MCP server with OAuth (internal/runtime/mcp/oauth.go):  *)
(* a Login listens on a port for the browser's redirect, or takes the       *)
(* redirect URL the user pastes, and saves the client it registered and the *)
(* token in the keychain.  The window and the daemon (for its web page) run *)
(* logins in processes of their own and share the keychain and mcp.json;    *)
(* the daemon's connection to the server refreshes the token it loaded.     *)
(*                                                                         *)
(* The SDK's discovery, registration, exchange of the code and check of its *)
(* state are one step, in which the keychain may fail.  A code stands for   *)
(* the login whose URL was authorized; the default port is 0, and any other *)
(* has the number of the login the system gave it to.                       *)
(***************************************************************************)
EXTENDS Integers, Sequences, TLC

CONSTANTS
    Servers,     \* names of MCP servers
    MaxLogins    \* logins started

Processes == {"tui", "web"}
Logins == 1..MaxLogins

ASSUME LoginAssumption == MaxLogins \in Nat

VARIABLES
    servers,     \* mcp.json
    login,       \* what each Login holds, in the order they started
    pendingLogin,\* by process and server: the login whose channel is there, or 0
    client,      \* oauthClient of a server: the login that registered it, 0 for the user's own
    token,       \* oauthRecord by server: the login it comes from, or 0
    source,      \* persistTokenSource of the daemon's connection: the record it loaded, or 0
    latest,      \* the login that saved its token last
    renewed,     \* servers whose connection was made anew since
    overtaken    \* servers whose old connection refreshed an older token before that

oauthVars == <<login, pendingLogin, client, token, source, latest, renewed, overtaken>>

OAuthInit ==
    /\ login = <<>>
    /\ pendingLogin = [p \in Processes |-> [s \in Servers |-> 0]]
    /\ client = <<>>
    /\ token = [s \in Servers |-> 0] /\ source = token /\ latest = token
    /\ renewed = {} /\ overtaken = {}

-------------------------------------------------------------------------------
(* Login. *)

NewLogin(s, p) == [of |-> s, at |-> p, phase |-> "begin", client |-> 0, reuse |-> FALSE, port |-> 0, got |-> 0]

\* A goroutine starts it: startMcpLogin, McpOAuthLogin.
StartLogin(s, p) ==
    /\ Len(login) < MaxLogins
    /\ login' = Append(login, NewLogin(s, p))
    /\ UNCHANGED <<pendingLogin, client, token, source, latest, renewed, overtaken>>

Waits(l) == l \in DOMAIN login /\ login[l].phase = "wait"
Busy(port) == \E l \in Logins : Waits(l) /\ login[l].port = port

\* listenCallback: the stored client's port, which only a dynamic client can do without, or
\* the default one, or any.
Listen(l) ==
    LET s == login[l].of
        reuse == s \in DOMAIN client /\ ~Busy(client[s].port)
    IN  /\ login[l].phase = "begin"
        /\ s \in DOMAIN servers /\ servers[s].transport = "http"
        /\ s \in DOMAIN client /\ ~reuse => client[s].dynamic
        /\ login' = [login EXCEPT ![l].phase = "wait", ![l].reuse = reuse,
              ![l].client = IF reuse THEN client[s].id ELSE l,
              ![l].port = IF reuse THEN client[s].port ELSE IF Busy(0) THEN l ELSE 0]
        /\ pendingLogin' = [pendingLogin EXCEPT ![login[l].at][s] = l]
        /\ UNCHANGED <<client, token, source, latest, renewed, overtaken>>

\* deliver: the channel takes one answer.
Deliver(l, code) ==
    /\ login' = [login EXCEPT ![l].got = IF @ = 0 THEN code ELSE @]
    /\ UNCHANGED <<pendingLogin, client, token, source, latest, renewed, overtaken>>

\* A URL that has been shown can be authorized at any time.
Codes == {l \in DOMAIN login : login[l].phase # "begin"}

\* oauthCallbackHandler: the browser comes back to the port of the login it was authorized
\* for, whoever listens there by then.
Redirect ==
    \E code \in Codes, l \in Logins :
        Waits(l) /\ login[l].got = 0 /\ login[l].port = login[code].port /\ Deliver(l, code)

\* SubmitCallback.
SubmitCallback(s, p, code) ==
    IF pendingLogin[p][s] # 0 THEN Deliver(pendingLogin[p][s], code) ELSE UNCHANGED oauthVars

\* The deferred calls: the entry of the server goes, whose it is now.
Over(l) ==
    /\ login' = [login EXCEPT ![l].phase = "over"]
    /\ pendingLogin' = IF Waits(l) THEN [pendingLogin EXCEPT ![login[l].at][login[l].of] = 0]
                       ELSE pendingLogin

\* A new client is saved before its token.
SaveRegistered(l) ==
    client' = IF login[l].reuse THEN client
              ELSE (login[l].of :> [id |-> l, port |-> login[l].port, dynamic |-> TRUE]) @@ client

\* The code is this login's own: its token is saved.
LoginSucceeds(l) ==
    /\ Waits(l) /\ login[l].got = l
    /\ Over(l) /\ SaveRegistered(l)
    /\ token' = [token EXCEPT ![login[l].of] = l]
    /\ latest' = [latest EXCEPT ![login[l].of] = l]
    /\ renewed' = renewed \ {login[l].of}
    /\ overtaken' = overtaken \ {login[l].of}
    /\ UNCHANGED source

\* No server, no port, canceled, too late, refused, the code of another login, or a
\* keychain that fails.
LoginFails(l) ==
    /\ login[l].phase # "over"
    /\ Over(l)
    /\ UNCHANGED client \/ (login[l].got = l /\ SaveRegistered(l))
    /\ UNCHANGED <<token, source, latest, renewed, overtaken>>

-------------------------------------------------------------------------------
(* The daemon's connection to a server. *)

\* TokenSource: the record is loaded at the first request and kept.
LoadToken(s) ==
    /\ source[s] = 0 /\ token[s] # 0
    /\ source' = [source EXCEPT ![s] = token[s]]
    /\ UNCHANGED <<login, pendingLogin, client, token, latest, renewed, overtaken>>

\* Token: a refreshed token is saved in the record that was loaded.
Refresh(s) ==
    /\ source[s] # 0
    /\ token' = [token EXCEPT ![s] = source[s]]
    /\ overtaken' = IF source[s] = latest[s] \/ s \in renewed THEN overtaken ELSE overtaken \cup {s}
    /\ UNCHANGED <<login, pendingLogin, client, source, latest, renewed>>

\* Variant for mutation checks: the new connection keeps the old handler.
ReconnectKept(s) ==
    /\ renewed' = renewed \cup {s}
    /\ UNCHANGED <<login, pendingLogin, client, token, source, latest, overtaken>>

\* ReconnectServer: the new connection has a handler of its own.
Reconnect(s) ==
    /\ source' = [source EXCEPT ![s] = 0]
    /\ renewed' = renewed \cup {s}
    /\ UNCHANGED <<login, pendingLogin, client, token, latest, overtaken>>

LoginsUntouched == UNCHANGED <<login, pendingLogin, source, latest, renewed, overtaken>>

\* ClearOAuth.
ClearOAuth(s) ==
    /\ token' = [token EXCEPT ![s] = 0]
    /\ client' = [n \in DOMAIN client \ {s} |-> client[n]]
    /\ LoginsUntouched

UserClient == [id |-> 0, port |-> 0, dynamic |-> FALSE]

\* The user's own client, after ClearOAuth: runMcpClientSave, McpOAuthClient.
SaveOAuthClient(s) ==
    /\ token' = [token EXCEPT ![s] = 0]
    /\ client' = (s :> UserClient) @@ client
    /\ LoginsUntouched
=============================================================================
