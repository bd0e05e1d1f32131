----------------------------- MODULE ModelWizard -----------------------------
(***************************************************************************)
(* /model add (internal/runtime/tui/commandModelAdd.go): the pages that     *)
(* take a provider's login or key, list its models and save the picked ones *)
(* in config.json.  The draft (t.modelAdd) is shared by all pages; a list   *)
(* is fetched by a goroutine whose message names no provider, and a login   *)
(* by one whose message may come at any time.                               *)
(*                                                                         *)
(* Keys are only there or not; a model is its provider's prefix and its id. *)
(* The rest of config.json is ConfigFile's.  An unreadable config.json and  *)
(* the urls of a login are left out.                                        *)
(***************************************************************************)
EXTENDS Popups

CONSTANTS
    Providers,   \* what the provider page offers
    Method,      \* how each is added: oauth, key, openai, account, decision, binary, compat, local
    Names,       \* names a custom endpoint may be given
    Catalog,     \* the ids each provider, or endpoint, lists
    MaxLists     \* lists fetched

ModelPrefixes == Providers \cup Names
ModelDrafts == [provider : Providers \cup {None}, name : ModelPrefixes \cup {None}, loading : Nat]

ASSUME ModelAssumption ==
    /\ None \notin ModelPrefixes \cup ModelDrafts
    /\ Method \in [Providers -> {"oauth", "key", "openai", "account", "decision", "binary", "compat", "local"}]
    /\ DOMAIN Catalog = ModelPrefixes
    /\ MaxLists \in Nat

VARIABLES
    modelAdd,    \* the draft: None, or its provider, the name of its endpoint and its loading page
    lists,       \* fetches in flight
    listed,      \* fetches so far
    logins,      \* providers whose runOAuthFlow goes on
    keychain,    \* tokens, keys, account and gateway IDs that are stored
    models,      \* config.json: Models
    mixed        \* prefixes whose loading page took the list another page had asked for

modelVars == <<modelAdd, lists, listed, logins, keychain, models, mixed>>

Draft(p, name) == [provider |-> p, name |-> name, loading |-> 0]

\* The prefix the draft's models get.
Prefix(d) == IF d.name # None THEN d.name ELSE d.provider

ModelInit ==
    /\ modelAdd = None /\ lists = {} /\ listed = 0 /\ logins = {}
    /\ keychain \in {{}, Providers \cup {"account"}}
    /\ models = {} /\ mixed = {}

-------------------------------------------------------------------------------
(* What the handlers have in common. *)

NoList == UNCHANGED <<lists, listed, mixed>>

\* openModelAddModelPick, openModelAddLoading: the page that waits for the list, on top of
\* the pages in behind; a draft without a provider, which a login that ends may find, is
\* asked for a name.
PickModels(behind, d) ==
    IF d.provider = None
    THEN popup' = Push(behind, Page("modelname", None, None)) /\ modelAdd' = d /\ NoList
    ELSE LET n == listed + 1 IN
         /\ n <= MaxLists
         /\ listed' = n
         /\ lists' = lists \cup {[no |-> n, of |-> Prefix(d)]}
         /\ modelAdd' = [d EXCEPT !.loading = n]
         /\ popup' = Push(behind, [Page("models", Prefix(d), None) EXCEPT !.no = n])
         /\ UNCHANGED mixed

\* A handler that shows a page and keeps the draft d.
Show(step, d) == Open(step, d.provider) /\ modelAdd' = d /\ NoList

\* A handler that gives up: the draft goes and no page is left.
GiveUp == modelAdd' = None /\ popup' = <<>> /\ NoList

\* openModelAddAPIKey, openModelAddAccountID: is it there already?
AskKey(d) == Show(IF d.provider \in keychain THEN "replace" ELSE "key", d)
AskAccount(d) == Show(IF "account" \in keychain THEN "replaceaccount" ELSE "account", d)

\* startOAuthPopup.
StartOAuth(d) == Show("oauth", d) /\ logins' = logins \cup {d.provider}

\* keychain.Set, and SaveKey with it, which may fail.
Store(k) == keychain' = keychain \cup {k}

-------------------------------------------------------------------------------
(* The pages: what can be chosen on each. *)

ModelChoices(p) ==
    CASE p.step = "provider" -> Providers
      [] p.step \in {"relogin", "replace", "replaceaccount"} -> {"no", "yes"}
      [] p.step \in {"key", "account", "gatewayid", "url", "compatkey"} -> {"", "x"}
      [] p.step = "gateway" -> {"default", "custom"}
      [] p.step = "compatname" -> Names \cup {""}
      [] p.step = "vector" -> {"ok"}
      [] p.step = "models" -> SUBSET p.ids
      [] p.step = "modelname" -> {{}, {"typed"}}
      [] OTHER -> {}

\* runModelAddProviderPick.
ProviderPick ==
    /\ Chosen("provider")
    /\ LET p == child.arg  d == Draft(p, None)
       IN  CASE Method[p] = "oauth" ->
                  IF p \in keychain THEN Show("relogin", d) /\ UNCHANGED logins ELSE StartOAuth(d)
             [] Method[p] = "account" -> AskAccount(d) /\ UNCHANGED logins
             [] Method[p] = "compat" -> Show("url", d) /\ UNCHANGED logins
             [] Method[p] = "local" -> PickModels(child.from, Draft(p, p)) /\ UNCHANGED logins
             [] Method[p] = "binary" -> (PickModels(child.from, d) \/ GiveUp) /\ UNCHANGED logins
             [] OTHER -> AskKey(d) /\ UNCHANGED logins
    /\ UNCHANGED <<keychain, models>>

\* runOAuthReLoginPick.
ReLogin ==
    /\ Chosen("relogin") /\ modelAdd # None
    /\ IF child.arg = "yes" THEN StartOAuth(modelAdd)
       ELSE PickModels(child.from, modelAdd) /\ UNCHANGED logins
    /\ UNCHANGED <<keychain, models>>

\* After a key: a gateway, a notice, the end, or the models.
AfterKey(d) ==
    CASE Method[d.provider] = "account" -> Show("gateway", d)
      [] Method[d.provider] = "openai" -> Show("vector", d)
      [] Method[d.provider] = "decision" -> GiveUp
      [] OTHER -> PickModels(child.from, d)

\* runModelAddAPIKeyReplace.
KeyReplace ==
    /\ Chosen("replace") /\ modelAdd # None
    /\ IF child.arg = "yes" THEN Show("key", modelAdd)
       ELSE IF Method[modelAdd.provider] = "decision" THEN GiveUp
       ELSE PickModels(child.from, modelAdd)
    /\ UNCHANGED <<logins, keychain, models>>

\* runModelAddAPIKeySubmit.
KeySubmit ==
    /\ Chosen("key") /\ modelAdd # None
    /\ \/ GiveUp /\ UNCHANGED keychain
       \/ child.arg # "" /\ (AfterKey(modelAdd) \/ GiveUp) /\ Store(modelAdd.provider)
    /\ UNCHANGED <<logins, models>>

\* runModelAddAccountIDReplace, runModelAddAccountIDSubmit.
Account ==
    /\ modelAdd # None
    /\ \/ /\ Chosen("replaceaccount")
          /\ IF child.arg = "yes" THEN Show("account", modelAdd) ELSE AskKey(modelAdd)
          /\ UNCHANGED keychain
       \/ Chosen("account") /\ GiveUp /\ UNCHANGED keychain
       \/ Chosen("account") /\ child.arg # "" /\ AskKey(modelAdd) /\ Store("account")
    /\ UNCHANGED <<logins, models>>

\* runModelAddGatewayIDPick, runModelAddGatewayIDSubmit.
Gateway ==
    /\ modelAdd # None
    /\ \/ /\ Chosen("gateway") /\ child.arg = "custom"
          /\ Show("gatewayid", modelAdd) /\ UNCHANGED keychain
       \/ /\ (Chosen("gateway") /\ child.arg = "default") \/ (Chosen("gatewayid") /\ child.arg # "")
          /\ PickModels(child.from, modelAdd) /\ Store("gateway")
       \/ /\ (Chosen("gateway") /\ child.arg = "default") \/ Chosen("gatewayid")
          /\ GiveUp /\ UNCHANGED keychain
    /\ UNCHANGED <<logins, models>>

\* runModelAddCompatURLSubmit, runModelAddCompatNameSubmit, runModelAddCompatKeySubmit.
Compat ==
    /\ modelAdd # None
    /\ \/ Chosen("url") /\ child.arg # "" /\ Show("compatname", modelAdd) /\ UNCHANGED keychain
       \/ /\ Chosen("compatname") /\ child.arg # ""
          /\ Show("compatkey", [modelAdd EXCEPT !.name = child.arg]) /\ UNCHANGED keychain
       \/ /\ Chosen("compatkey") /\ (PickModels(child.from, modelAdd) \/ GiveUp)
          /\ IF child.arg # "" THEN Store(modelAdd.name) ELSE UNCHANGED keychain
       \/ /\ Chosen("url") \/ Chosen("compatname")
          /\ child.arg = ""
          /\ GiveUp /\ UNCHANGED keychain
    /\ UNCHANGED <<logins, models>>

\* ModelAddVectorNotice.
VectorNotice ==
    /\ Chosen("vector") /\ modelAdd # None
    /\ PickModels(child.from, modelAdd)
    /\ UNCHANGED <<logins, keychain, models>>

\* runModelAddModelMultiPick: the picked ids replace the models of the draft's prefix.
MultiPick ==
    /\ Chosen("models") \/ Chosen("modelname")
    /\ modelAdd # None
    /\ models' = {m \in models : m.of # Prefix(modelAdd)}
                    \cup {[of |-> Prefix(modelAdd), id |-> i] : i \in child.arg}
    /\ GiveUp
    /\ UNCHANGED <<logins, keychain>>

\* "model add state lost".
StateLost ==
    /\ child # None /\ popup = <<>> /\ modelAdd = None
    /\ Last(child.from).step \in {"relogin", "replace", "key", "replaceaccount", "account", "gateway",
                                  "gatewayid", "url", "compatname", "compatkey", "vector", "models", "modelname"}
    /\ UNCHANGED <<popup, modelVars>>

ModelHandler ==
    /\ \/ ProviderPick \/ ReLogin \/ KeyReplace \/ KeySubmit \/ Account \/ Gateway \/ Compat
       \/ VectorNotice \/ MultiPick \/ StateLost
    /\ child' = None
    /\ UNCHANGED <<queue, prompted>>

-------------------------------------------------------------------------------
(* Messages of the goroutines, popup or not. *)

\* commandModelAdd.
CommandModelAdd ==
    /\ popup = <<>> /\ child = None
    /\ modelAdd' = [provider |-> None, name |-> None, loading |-> 0]
    /\ popup' = <<Page("provider", None, None)>>
    /\ UNCHANGED <<child, queue, prompted, lists, listed, logins, keychain, models, mixed>>

\* Variant for mutation checks: any draft will do.
ModelAddLoadedAny == modelAdd # None /\ popup # <<>> /\ Top.step = "models"

\* modelAddLoaded: the page on the screen is the one the draft waits on.
ModelAddLoaded ==
    /\ modelAdd # None /\ popup # <<>>
    /\ Top.step = "models" /\ Top.no > 0 /\ Top.no = modelAdd.loading

\* runCompatModelsResult, runRemoteModelsResult: the list, or nothing, takes the page's
\* place; there is no way back from it.
ModelsResult ==
    /\ \E l \in lists : \E ids \in {Catalog[l.of], {}} :
          /\ lists' = lists \ {l}
          /\ IF ModelAddLoaded /\ ids # {}
             THEN /\ popup' = <<[Page("models", Prefix(modelAdd), None) EXCEPT !.ids = ids]>>
                  /\ mixed' = IF Top.no \in {0, l.no} THEN mixed ELSE mixed \cup {Prefix(modelAdd)}
             ELSE UNCHANGED <<popup, mixed>>
    /\ UNCHANGED <<child, queue, prompted, modelAdd, listed, logins, keychain, models>>

\* runOAuthSuccess: t.popup = nil, whatever it is, and the models of the draft there is.
OAuthSuccess ==
    /\ \E p \in logins :
          /\ logins' = logins \ {p}
          /\ keychain' = keychain \cup {p}
          /\ PickModels(<<>>, IF modelAdd = None THEN Draft(p, None) ELSE modelAdd)
    /\ UNCHANGED <<child, queue, prompted, models>>

\* runOAuthFailed: refused, canceled with esc, or too late.
OAuthFailed ==
    /\ \E p \in logins : logins' = logins \ {p}
    /\ GiveUp
    /\ UNCHANGED <<child, queue, prompted, keychain, models>>

ModelMessage == ModelsResult \/ OAuthSuccess \/ OAuthFailed
=============================================================================
