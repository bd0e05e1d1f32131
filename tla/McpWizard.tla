------------------------------ MODULE McpWizard ------------------------------
(***************************************************************************)
(* /mcp (internal/runtime/tui/commandMcp*.go and their cases in update.go): *)
(* the pages that add an MCP server to mcp.json, remove one, log in to one  *)
(* and enter its OAuth client.  The drafts t.mcpAdd and t.mcpClient are     *)
(* shared by all pages of their kind and dereferenced without a check; esc  *)
(* goes back a page and leaves the draft as it is.                          *)
(*                                                                         *)
(* What the user types is only blank or not; a header is what it is for.    *)
(* mcp.json cannot fail here; the page of always-allowed tools and the text *)
(* of arguments and environment are left out.                               *)
(***************************************************************************)
EXTENDS Popups, McpOAuth

AddDrafts == [name : Servers \cup {None}, transport : {None, "stdio", "http"}, auth : BOOLEAN,
              headers : SUBSET {"bearer", "apikey", "basic", "extra"}]

ASSUME McpAssumption == None \notin Servers \cup AddDrafts \cup {"", "x", "oauth"}

VARIABLES
    mcpAdd,      \* the draft of a server, or None
    mcpClient,   \* the server whose client is being entered, or None
    mcpOAuth,    \* the server of the state the login popup shares, or None
    saved,       \* McpAddSaved on its way: the server, or None
    auths        \* history: the authentication was not chosen yet in this wizard, once, or
                 \* again with something of the first choice left in the draft

mcpVars == <<mcpAdd, mcpClient, mcpOAuth, saved, auths>>

Given(a, h) == IF a = "" THEN {} ELSE {h}

NewDraft == [name |-> None, transport |-> None, auth |-> FALSE, headers |-> {}]

\* A server of mcp.json that the wizard did not put there.
Plain(transport) ==
    [transport |-> transport, auth |-> transport = "http", headers |-> {}, redone |-> FALSE,
     chosen |-> [transport |-> transport, auth |-> transport = "http", headers |-> {}]]

McpInit ==
    /\ mcpAdd = None /\ mcpClient = None /\ mcpOAuth = None /\ saved = None /\ auths = "none"
    /\ \E s \in [Servers -> {"stdio", "http", "none"}] :
          servers = [n \in {m \in Servers : s[m] # "none"} |-> Plain(s[n])]

-------------------------------------------------------------------------------
(* The pages. *)

\* What can be chosen on each; "d" on the list asks to remove.
McpChoices(p) ==
    CASE p.step = "mcp" -> {<<"add", None>>} \cup ({"open", "remove"} \X DOMAIN servers)
      [] p.step = "remove" -> {"no", "yes"}
      [] p.step = "server" -> {"reconnect"} \cup (IF p.of \in DOMAIN servers /\ servers[p.of].auth
                                                  THEN {"login", "client"} ELSE {})
      [] p.step = "mcpname" -> Servers \cup {""}
      [] p.step = "transport" -> {"stdio", "http"}
      [] p.step \in {"command", "mcpurl", "bearer", "apikey", "basic", "headers", "clientid", "secret"} -> {"", "x"}
      [] p.step \in {"args", "env", "apikeyname", "redirect"} -> {"x"}
      [] p.step = "auth" -> {"none", "oauth", "bearer", "apikeyname", "basic"}
      [] p.step = "more" -> {"no", "yes"}
      [] p.step = "paste" -> Codes
      [] OTHER -> {}

\* Pages whose handler follows the draft's pointer without a look.
AddSteps == {"mcpname", "transport", "command", "args", "env", "mcpurl", "auth", "bearer", "apikeyname",
             "apikey", "basic", "more", "headers"}
ClientSteps == {"clientid", "secret"}

Ask(step, d) == Open(step, None) /\ mcpAdd' = d
StopAdd == popup' = <<>> /\ mcpAdd' = None

-------------------------------------------------------------------------------
(* Saving a server. *)

\* What the user chose on the page of a step, on the pages that led here.
Chose(step) ==
    LET at == {i \in DOMAIN child.from : child.from[i].step = step}
    IN  IF at = {} THEN None
        ELSE IF Max(at) = Len(child.from) THEN child.arg ELSE child.from[Max(at) + 1].via

\* The server those choices describe.
ChosenServer ==
    [transport |-> Chose("transport"),
     auth |-> Chose("auth") = "oauth",
     headers |-> (UNION {IF Chose(h) = None THEN {} ELSE Given(Chose(h), h) : h \in {"bearer", "apikey", "basic"}})
                   \cup (IF Chose("headers") = None THEN {} ELSE Given(Chose("headers"), "extra"))]

\* mcp.json with the server s, new or in the place of the one of that name.
WithServer(s, r) == [n \in DOMAIN servers \cup {s} |-> IF n = s THEN r ELSE servers[n]]

\* finalizeMcpAdd: the name's server in mcp.json becomes the draft's.
FinalizeMcpAdd(d) ==
    /\ servers' = WithServer(d.name, [transport |-> d.transport,
                                      auth |-> d.transport = "http" /\ d.auth,
                                      headers |-> IF d.transport = "http" THEN d.headers ELSE {},
                                      chosen |-> ChosenServer, redone |-> auths = "again"])
    /\ saved' = d.name
    /\ StopAdd

-------------------------------------------------------------------------------
(* The handlers. *)

\* startMcpLogin.
StartMcpLogin(behind, s) ==
    /\ mcpOAuth' = s
    /\ popup' = Push(behind, Page("mcplogin", s, None))
    /\ StartLogin(s, "tui")

\* The list of servers, as its own command or again after "no" or a removal.
List(behind) == popup' = Push(behind, Page("mcp", None, None))

\* runMcpMenuPick; McpRemovePick; commandMcpAdd always starts a new draft.
MenuPick ==
    /\ Chosen("mcp")
    /\ LET what == child.arg[1]  s == child.arg[2]
       IN  \/ what = "add" /\ Open("mcpname", None) /\ mcpAdd' = NewDraft /\ auths' = "none"
           \/ what = "open" /\ Open("server", s) /\ UNCHANGED <<mcpAdd, auths>>
           \/ what = "remove" /\ Open("remove", s) /\ UNCHANGED <<mcpAdd, auths>>
    /\ UNCHANGED <<oauthVars, servers, mcpClient, mcpOAuth, saved>>

\* McpRemoveConfirm; runMcpRemove clears the credentials of the server.
RunMcpRemove ==
    /\ Chosen("remove")
    /\ List(child.from)
    /\ LET s == Last(child.from).of
       IN  IF child.arg = "yes" /\ s \in DOMAIN servers
           THEN servers' = [n \in DOMAIN servers \ {s} |-> servers[n]] /\ ClearOAuth(s)
           ELSE UNCHANGED <<servers, oauthVars>>
    /\ UNCHANGED mcpVars

\* runMcpServerAction.
ServerAction ==
    /\ Chosen("server")
    /\ LET s == Last(child.from).of
       IN  \/ /\ child.arg = "login"
              /\ StartMcpLogin(child.from, s) /\ UNCHANGED mcpClient
           \/ /\ child.arg = "client"
              /\ Open("clientid", s) /\ mcpClient' = s
              /\ UNCHANGED <<oauthVars, mcpOAuth>>
           \/ /\ child.arg = "reconnect"
              /\ Reconnect(s) /\ UNCHANGED <<popup, mcpClient, mcpOAuth>>
    /\ UNCHANGED <<servers, mcpAdd, saved, auths>>

\* Variant for mutation checks: a name that will not do is asked for again.
AddNameAgain ==
    /\ Chosen("mcpname")
    /\ IF child.arg = "" THEN mcpAdd' = None /\ Open("mcpname", None)
       ELSE Ask("transport", [mcpAdd EXCEPT !.name = child.arg])
    /\ UNCHANGED <<oauthVars, servers, mcpClient, mcpOAuth, saved, auths>>

\* McpAddName: empty or not a name, and the draft goes.
AddName ==
    /\ Chosen("mcpname")
    /\ IF child.arg = "" THEN StopAdd ELSE Ask("transport", [mcpAdd EXCEPT !.name = child.arg])
    /\ UNCHANGED <<oauthVars, servers, mcpClient, mcpOAuth, saved, auths>>

\* McpAddTransport, McpAddCommand, McpAddArgs, McpAddEnv.
AddStdio ==
    \/ /\ Chosen("transport")
       /\ Ask(IF child.arg = "stdio" THEN "command" ELSE "mcpurl", [mcpAdd EXCEPT !.transport = child.arg])
       /\ UNCHANGED <<servers, saved>>
    \/ /\ Chosen("command")
       /\ IF child.arg = "" THEN StopAdd ELSE Ask("args", mcpAdd)
       /\ UNCHANGED <<servers, saved>>
    \/ Chosen("args") /\ Ask("env", mcpAdd) /\ UNCHANGED <<servers, saved>>
    \/ Chosen("env") /\ FinalizeMcpAdd(mcpAdd)

\* McpAddURL, McpAddAuthMethod: only oauth is written down, and nothing is taken back.
AddRemote ==
    \/ Chosen("mcpurl") /\ (IF child.arg = "" THEN StopAdd ELSE Ask("auth", mcpAdd)) /\ UNCHANGED auths
    \/ /\ Chosen("auth")
       /\ Ask(IF child.arg \in {"none", "oauth"} THEN "more" ELSE child.arg,
                [mcpAdd EXCEPT !.auth = @ \/ child.arg = "oauth"])
       /\ auths' = IF auths = "none" THEN "once"
                   ELSE IF mcpAdd.auth \/ mcpAdd.headers # {} THEN "again" ELSE auths

\* McpAddBearerToken, McpAddAPIKeyHeader, McpAddAPIKeyValue, McpAddBasicToken.
AddCredential ==
    \/ Chosen("apikeyname") /\ Ask("apikey", mcpAdd)
    \/ \E h \in {"bearer", "apikey", "basic"} :
          Chosen(h) /\ Ask("more", [mcpAdd EXCEPT !.headers = Given(child.arg, h)])

\* McpAddExtraHeaders, McpAddHeaders.
AddHeaders ==
    \/ Chosen("more") /\ child.arg = "yes" /\ Ask("headers", mcpAdd) /\ UNCHANGED <<servers, saved>>
    \/ Chosen("more") /\ child.arg = "no" /\ FinalizeMcpAdd(mcpAdd)
    \/ Chosen("headers") /\ FinalizeMcpAdd([mcpAdd EXCEPT !.headers = @ \cup Given(child.arg, "extra")])

Add ==
    /\ \/ (AddStdio \/ AddHeaders) /\ UNCHANGED auths
       \/ AddRemote /\ UNCHANGED <<servers, saved>>
       \/ AddCredential /\ UNCHANGED <<servers, saved, auths>>
    /\ UNCHANGED <<oauthVars, mcpClient, mcpOAuth>>

\* The client is saved and a login of it starts.
ClientSaved(s) ==
    /\ Len(login) < MaxLogins
    /\ token' = [token EXCEPT ![s] = 0]
    /\ client' = (s :> UserClient) @@ client
    /\ login' = Append(login, NewLogin(s, "tui"))
    /\ UNCHANGED <<pendingLogin, source, latest, renewed, overtaken>>

\* McpClientID, McpClientSecret, McpClientRedirect with runMcpClientSave, which logs in.
Client ==
    /\ \/ /\ Chosen("clientid")
          /\ IF child.arg = "" THEN popup' = <<>> /\ mcpClient' = None
             ELSE Open("secret", mcpClient) /\ UNCHANGED mcpClient
          /\ UNCHANGED <<oauthVars, mcpOAuth>>
       \/ /\ Chosen("secret")
          /\ Open("redirect", mcpClient)
          /\ UNCHANGED <<oauthVars, mcpClient, mcpOAuth>>
       \/ /\ Chosen("redirect") /\ mcpClient # None
          /\ ClientSaved(mcpClient)
          /\ mcpClient' = None /\ mcpOAuth' = mcpClient
          /\ popup' = Push(child.from, Page("mcplogin", mcpClient, None))
    /\ UNCHANGED <<servers, mcpAdd, saved, auths>>

\* runMcpOAuthPaste: the login popup comes back, whatever login there is.
Paste ==
    /\ Chosen("paste")
    /\ LET s == Last(child.from).of
       IN  /\ popup' = Push(child.from, Page("mcplogin", s, None))
           /\ SubmitCallback(s, "tui", child.arg)
    /\ UNCHANGED <<servers, mcpVars>>

McpHandler ==
    /\ MenuPick \/ RunMcpRemove \/ ServerAction \/ AddName \/ Add \/ Client \/ Paste
    /\ child' = None
    /\ UNCHANGED <<queue, prompted>>

-------------------------------------------------------------------------------
(* Commands, keys and messages. *)

CommandMcp ==
    /\ popup = <<>> /\ child = None
    /\ List(<<>>)
    /\ UNCHANGED <<child, queue, prompted, servers, oauthVars, mcpVars>>

\* openMcpOAuthPaste: p on the popup of a login.
OpenPaste ==
    /\ popup # <<>> /\ Top.step = "mcplogin"
    /\ popup' = <<Page("paste", Top.of, None)>>
    /\ UNCHANGED <<child, queue, prompted, servers, oauthVars, mcpVars>>

\* McpAddSaved: the login, or the connection; not taken while a popup is open.
Saved ==
    /\ saved # None
    /\ saved' = None
    /\ IF popup # <<>> THEN UNCHANGED <<popup, oauthVars, mcpOAuth>>
       ELSE IF saved \in DOMAIN servers /\ servers[saved].auth THEN StartMcpLogin(<<>>, saved)
       ELSE Reconnect(saved) /\ UNCHANGED <<popup, mcpOAuth>>
    /\ UNCHANGED <<child, queue, prompted, servers, mcpAdd, mcpClient, auths>>

\* runMcpOAuthDone: t.popup and t.mcpOAuth are nil, whatever they were.
McpOAuthDone ==
    /\ \E l \in DOMAIN login : login[l].at = "tui" /\ (LoginSucceeds(l) \/ LoginFails(l))
    /\ popup' = <<>> /\ mcpOAuth' = None
    /\ UNCHANGED <<child, queue, prompted, servers, mcpAdd, mcpClient, saved, auths>>

-------------------------------------------------------------------------------
(* The daemon: its web page and its connections (routes/handler/mcpOAuth.go). *)

Web ==
    /\ \/ \E s \in DOMAIN servers : servers[s].transport = "http" /\ (StartLogin(s, "web") \/ SaveOAuthClient(s))
       \/ \E l \in DOMAIN login : login[l].at = "web" /\ (LoginSucceeds(l) \/ LoginFails(l))
       \/ \E s \in Servers, code \in Codes : SubmitCallback(s, "web", code)
       \/ \E s \in Servers : ClearOAuth(s)
    /\ UNCHANGED <<popupVars, servers, mcpVars>>

Connection ==
    /\ \/ Redirect \/ \E l \in DOMAIN login : Listen(l)
       \/ \E s \in Servers : LoadToken(s) \/ Refresh(s) \/ Reconnect(s)
    /\ UNCHANGED <<popupVars, servers, mcpVars>>
=============================================================================
