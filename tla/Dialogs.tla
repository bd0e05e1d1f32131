------------------------------- MODULE Dialogs -------------------------------
(***************************************************************************)
(* The commands of the terminal window that ask through several pages, over *)
(* the one popup they share: /model add and /mcp, with the logins, fetches, *)
(* prompts and the daemon's own use of mcp.json and the keychain that cross *)
(* them.                                                                    *)
(***************************************************************************)
EXTENDS ModelWizard, McpWizard

CONSTANTS
    Plans        \* what a behaviour may be about: the commands that are typed, how often esc
                 \* goes back, prompts, logins and things the daemon does, and the providers
                 \* that are picked

ASSUME DialogsAssumption ==
    \A p \in Plans :
        /\ p.commands \in Seq({"model", "mcp"})
        /\ p.moves \in Nat /\ p.web \in Nat
        /\ p.providers \subseteq Providers
        /\ p.prompts \in 0..MaxPrompts /\ p.logins \in 0..MaxLogins

VARIABLES
    plan,        \* the plan of this behaviour
    done,        \* commands, moves and the daemon's actions so far
    crossed      \* history: an MCP login that ended closed the popup of a provider's login

dialogVars == <<popupVars, modelVars, mcpVars, oauthVars, servers, plan, done, crossed>>
model == <<modelVars>>
mcp == <<mcpVars, oauthVars, servers>>
rest == <<plan, done, crossed>>

DialogsInit ==
    /\ PopupInit /\ ModelInit /\ McpInit /\ OAuthInit
    /\ plan \in Plans
    /\ "model" \notin ToSet(plan.commands) => keychain = {}
    /\ "mcp" \notin ToSet(plan.commands) => servers = <<>>
    /\ done = [commands |-> 0, moves |-> 0, web |-> 0]
    /\ crossed = FALSE

Count(k) == done' = [done EXCEPT ![k] = @ + 1]
Counted(k) == done[k] < plan[k] /\ Count(k)

\* A command of its own.
Command ==
    /\ done.commands < Len(plan.commands) /\ Count("commands")
    /\ IF plan.commands[done.commands + 1] = "model" THEN CommandModelAdd /\ UNCHANGED mcp
       ELSE CommandMcp /\ UNCHANGED model
    /\ UNCHANGED <<plan, crossed>>

\* Enter on a page: a list that is still loading has no handler, and a page that asks for a
\* removal is left with d.
Enter ==
    /\ popup # <<>>
    /\ \/ \E arg \in ModelChoices(Top) \cup McpChoices(Top) : 
             Top.no = 0 /\ (Top.step = "provider" => arg \in plan.providers) /\ Choose(arg)
       \/ Top.no > 0 /\ ClosePopup /\ UNCHANGED <<child, prompted>>
    /\ UNCHANGED <<model, mcp, rest>>

Handler ==
    /\ \/ ModelHandler /\ UNCHANGED mcp
       \/ McpHandler /\ UNCHANGED model
    /\ UNCHANGED rest

Back ==
    /\ Escape /\ Counted("moves")
    /\ UNCHANGED <<model, mcp, plan, crossed>>

Prompts ==
    /\ Settle \/ Dropped \/ (prompted < plan.prompts /\ Pending)
    /\ UNCHANGED <<model, mcp, rest>>

ModelMessages == ModelMessage /\ UNCHANGED <<mcp, rest>>

McpMessages ==
    /\ OpenPaste \/ Saved \/ McpOAuthDone
    /\ crossed' = (crossed \/ (popup # <<>> /\ Top.step = "oauth" /\ popup' = <<>>))
    /\ UNCHANGED <<model, plan, done>>

Daemon ==
    /\ \/ Web /\ Counted("web")
       \/ Connection /\ UNCHANGED done
    /\ UNCHANGED <<model, plan, crossed>>

DialogsNext ==
    /\ Command \/ Enter \/ Handler \/ Back \/ Prompts \/ ModelMessages \/ McpMessages \/ Daemon
    /\ Len(login') <= plan.logins

DialogsSpec == DialogsInit /\ [][DialogsNext]_dialogVars

-------------------------------------------------------------------------------
(* What the pages promise. *)

\* The page on the screen, those esc leads back to (a login's popup has no way back), and
\* the one whose choice is on its way.
InHand ==
    IF popup # <<>> THEN IF Top.step \in {"oauth", "mcplogin"} THEN {Top} ELSE ToSet(popup)
    ELSE IF child # None THEN {Last(child.from)} ELSE {}

\* A handler that follows the pointer of a draft without a look finds it: the pages of
\* /mcp, and the notice after OpenAI's key, which a provider's login that failed behind
\* another page may take the draft from (runOAuthFailed).
PageHasDraft ==
    \A p \in InHand :
        /\ p.step \in AddSteps => mcpAdd # None
        /\ p.step \in ClientSteps => mcpClient # None
        /\ p.step = "vector" => modelAdd # None \/ crossed

\* A model is saved under the prefix of the provider or endpoint that lists it: the message
\* of a list names neither, and the draft may be another's when it comes.  Only a page that
\* still waits for its own list may take one that an earlier page had asked for; and only a
\* login that ends behind another page can leave a draft without a provider, or put the
\* draft of its own in the place of the one whose models have just been picked.
ModelsBelong ==
    \A m \in models : crossed \/ (m.of # None /\ (m.of \in mixed \/ m.id \in Catalog[m.of]))

\* A server is saved as the pages that led to it describe it, not with what the user had
\* chosen on pages he went back from; only the authentication keeps what was in the draft
\* when it is chosen a second time.
SavedIsChosen ==
    \A s \in DOMAIN servers : LET r == servers[s] IN
        /\ r.transport = r.chosen.transport
        /\ r.redone \/ (r.auth = r.chosen.auth /\ r.headers = r.chosen.headers)

\* Both: what a wizard saves is what its pages showed.
WizardsKeep == ModelsBelong /\ SavedIsChosen

\* The token on file is that of the last login, once the connection to the server was made
\* anew after it: the one before may still write back its own when it refreshes it.
NewestToken ==
    \A s \in Servers : token[s] # 0 => token[s] = latest[s] \/ s \in overtaken
=============================================================================
