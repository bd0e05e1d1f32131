------------------------------ MODULE ConfigFile ------------------------------
(***************************************************************************)
(* config.json: the settings file that the TUI process and the handlers of *)
(* the daemon edit.  Nothing locks it.  Every edit loads the whole file,   *)
(* changes its copy and saves the whole copy, so two edits may overlap and *)
(* the later save takes back what the earlier one wrote.  What an edit may *)
(* rely on is its own copy: the models and the routing that refer to them  *)
(* are always read together and written together.                          *)
(*                                                                         *)
(* An edit is loaded in one step, with its checks and with the token it    *)
(* puts in the keychain, and saved in another.  The keys of config.json    *)
(* that no property tells apart (stt, tts, decision, image, admin channel, *)
(* key names, URLs of compatible providers) are one field, "other".  The   *)
(* keys written with config.Get and config.Write are "lang": the reply     *)
(* language and the start-up record, which Config does not know, and, the  *)
(* same way, output directory, official guide and skill sources.           *)
(* Names are model values, so NormalizeModel has nothing left to do.       *)
(***************************************************************************)
EXTENDS Naturals, Sequences, FiniteSets, SequencesExt, Sublists

CONSTANTS Models,      \* model names, with their provider prefix
          Provider,    \* [Models -> provider]: the prefix of a name
          Tiers,       \* the tags of SetModelTag
          Values,      \* values of the other settings
          Tokens,      \* bot tokens
          Writers,     \* whoever edits config.json: the TUI, daemon handlers
          Tui,         \* the one of them that is the TUI process
          None,        \* no value; the session model "auto"
          MaxEdits,    \* bound: edits begun in a behaviour
          Mixes        \* bound: a behaviour takes its edits from one of these
                       \* sets of kinds

ASSUME ConfigAssumption ==
    /\ Tui \in Writers
    /\ IsFiniteSet(Models) /\ DOMAIN Provider = Models
    /\ None \notin Models \union Tiers \union Values \union Tokens \union Writers
    /\ MaxEdits \in Nat

VARIABLES config,      \* the file
          keychain,    \* the bot token stored in the keychain, or None
          bot,         \* the model the session asks for, None for auto
          held,        \* the edit of each writer: its copy of the file, or NoEdit
          page,        \* the models the TUI's /model page lists
          picked,      \* names the TUI wrote without looking them up again
          edits,       \* edits begun
          mix          \* the kinds of edits of this behaviour

configVars == <<config, keychain, bot, held, page, picked, edits, mix>>

Listed(c) == ToSet(c.models)

OrNone(S) == S \union {None}

-----------------------------------------------------------------------------
(* What an edit does to its copy.                                          *)

WithPrefix(p) == {m \in Models : Provider[m] = p}

First(s) == IF s = <<>> THEN None ELSE Head(s)

(* The names of a list that are in S, in their order.                      *)
Among(s, S) == Pick(s, {i \in DOMAIN s : s[i] \in S})

(* The new list of one provider: its other models go, the new ones follow  *)
(* the models kept, in the order the map of new names is walked.           *)
Selected(c, p, chosen) ==
    LET kept == (Models \ WithPrefix(p)) \union ToSet(chosen)
        added == Models \ Listed(c)
    IN Among(c.models, kept) \o Among(chosen, added)

(* A dispatcher of this provider that is not selected any more gives way   *)
(* to the first model; the summary model and the tiers are left alone.     *)
Replaced(c, p, chosen) ==
    LET list == Selected(c, p, chosen)
        stays == c.dispatcher # None
                 /\ (c.dispatcher \in WithPrefix(p) => c.dispatcher \in ToSet(list))
    IN [c EXCEPT !.models = list,
                 !.dispatcher = IF stays THEN c.dispatcher ELSE First(list)]

Without(s, m) == Among(s, Models \ {m})

Cleared(v, m, instead) == IF v = m THEN instead ELSE v

RemovedInTui(c, m) ==
    [c EXCEPT !.models = Without(c.models, m),
              !.dispatcher = Cleared(c.dispatcher, m, None),
              !.summary = Cleared(c.summary, m, None)]

RemovedOnWeb(c, m) ==
    LET left == Without(c.models, m)
    IN [c EXCEPT !.models = left,
                 !.dispatcher = Cleared(c.dispatcher, m, First(left)),
                 !.summary = Cleared(c.summary, m, First(left))]

(* The names of the page go, in their new order, to the places they hold.  *)
Reordered(c, names) ==
    LET places == {i \in DOMAIN c.models : c.models[i] \in ToSet(names)}
    IN [c EXCEPT !.models = [i \in DOMAIN c.models |->
            IF i \in places THEN names[Rank(places, i)] ELSE c.models[i]]]

(* The names given come first, every other model keeps its place after.    *)
Prioritised(c, names) ==
    [c EXCEPT !.models = names \o Among(c.models, Models \ ToSet(names))]

Tagged(c, m, tier) == [c EXCEPT !.tags[m] = tier]

-----------------------------------------------------------------------------
NoEdit == [state |-> "none"]

Copy(to, whole, gone, again) ==
    [state |-> "loaded", to |-> to, whole |-> whole, gone |-> gone, reload |-> again]

Edits(w) == held[w].state = "loaded"

(* The edits.  Each loads the file, gives up when its checks fail, and     *)
(* else holds the copy it is going to save:                                *)
(*   to      the copy, edited                                              *)
(*   whole   saved by config.Write: "lang" is overwritten too              *)
(*   gone    a model whose sessions go back to auto after the save         *)
(*   reload  agents.Reload follows                                         *)
(* The TUI's page is closed by the choice that is made on it.              *)

ConfigInit ==
    /\ mix \in Mixes
    /\ config \in {c \in [models : {<<>>, SetToSeq(Models)},
                          dispatcher : {None}, summary : {None},
                          tags : {[m \in Models |-> None]}, other : {None},
                          lang : {None}, enabled : BOOLEAN, username : {None}] :
                       (c.models = <<>>) = ("channel" \in mix)
                       /\ (c.enabled => "channel" \in mix)}
    /\ keychain \in {IF config.enabled THEN t ELSE None : t \in Tokens}
    /\ bot = None
    /\ held = [w \in Writers |-> NoEdit]
    /\ page = {}
    /\ picked = {}
    /\ edits = 0

Load(w, kind, to, whole, gone, again) ==
    /\ kind \in mix
    /\ ~Edits(w)
    /\ edits < MaxEdits
    /\ held' = [held EXCEPT ![w] = Copy(to, whole, gone, again)]
    /\ edits' = edits + 1
    /\ page' = IF w = Tui THEN {} ELSE page
    /\ UNCHANGED <<config, bot, mix>>

(* The models of one provider are chosen anew, in the TUI or on the web.   *)
ReplaceModels(w) ==
    /\ \E p \in {Provider[m] : m \in Models} : \E chosen \in SUBSET WithPrefix(p) :
           \E order \in SetToSeqs(chosen) :
               Load(w, "models", Replaced(config, p, order), FALSE, None, TRUE)
    /\ UNCHANGED <<keychain, picked>>

(* A page of /model lists the models on file; it is not refreshed.         *)
OpenPage ==
    /\ mix \intersect {"models", "routing"} # {}
    /\ page' = Listed(config)
    /\ page' # page
    /\ UNCHANGED <<config, keychain, bot, held, picked, edits, mix>>

(* "d" on the page, confirmed.                                             *)
RemoveInTui ==
    /\ \E m \in page \intersect Listed(config) :
           Load(Tui, "models", RemovedInTui(config, m), FALSE, None, TRUE)
    /\ UNCHANGED <<keychain, picked>>

RemoveOnWeb(w) ==
    /\ w # Tui
    /\ \E m \in Listed(config) :
           Load(w, "models", RemovedOnWeb(config, m), FALSE, m, TRUE)
    /\ UNCHANGED <<keychain, picked>>

(* The page's models in a new order; refused when one of them is gone.     *)
SaveModelOrder ==
    /\ page # {} /\ page \subseteq Listed(config)
    /\ \E names \in SetToSeqs(page) :
           Load(Tui, "models", Reordered(config, names), FALSE, None, TRUE)
    /\ UNCHANGED <<keychain, picked>>

SetModelPriority(w) ==
    /\ w # Tui
    /\ \E names \in SetToSeqs(Listed(config)) : \E n \in 0..Len(names) :
           Load(w, "models", Prioritised(config, SubSeq(names, 1, n)), FALSE, None, TRUE)
    /\ UNCHANGED <<keychain, picked>>

(* The TUI takes the name from its page and does not look it up again.     *)
DispatcherSelect ==
    /\ \E m \in page \ {config.dispatcher} :
           /\ Load(Tui, "routing", [config EXCEPT !.dispatcher = m], FALSE, None, TRUE)
           /\ picked' = picked \union {m}
    /\ UNCHANGED keychain

SummarySelect ==
    /\ \E m \in OrNone(page) \ {config.summary} :
           Load(Tui, "routing", [config EXCEPT !.summary = m], FALSE, None, TRUE)
    /\ UNCHANGED <<keychain, picked>>

(* The web refuses a name the file does not list.                          *)
SetModelRouting(w) ==
    /\ w # Tui
    /\ \E m \in OrNone(Listed(config)) :
          \/ Load(w, "routing", [config EXCEPT !.dispatcher = m], FALSE, None, TRUE)
          \/ Load(w, "routing", [config EXCEPT !.summary = m], FALSE, None, TRUE)
    /\ UNCHANGED <<keychain, picked>>

SetModelTag(w) ==
    /\ \E m \in IF w = Tui THEN page ELSE Listed(config) : \E tier \in OrNone(Tiers) :
           Load(w, "settings", Tagged(config, m, tier), FALSE, None, FALSE)
    /\ UNCHANGED <<keychain, picked>>

(* A setting of the typed file: stt, tts, decision, image, admin channel.  *)
SetOther(w) ==
    /\ \E v \in OrNone(Values) :
           /\ w = Tui => v # config.other
           /\ Load(w, "settings", [config EXCEPT !.other = v], FALSE, None, FALSE)
    /\ UNCHANGED <<keychain, picked>>

(* A setting written with config.Get and config.Write: the whole file.     *)
SetLang(w) ==
    /\ \E v \in Values :
           Load(w, "settings", [config EXCEPT !.lang = v], TRUE, None, FALSE)
    /\ UNCHANGED <<keychain, picked>>

(* The bot is switched on with a token, or off.  The TUI has tried the     *)
(* token and knows the name of its user; a token is its own user's name.   *)
EnableChannel(w) ==
    /\ \E t \in Tokens :
           /\ keychain' = t
           /\ Load(w, "channel", [config EXCEPT !.enabled = TRUE,
                      !.username = IF w = Tui THEN t ELSE None], FALSE, None, FALSE)
    /\ UNCHANGED picked

DisableChannel(w) ==
    /\ w = Tui => config.enabled \/ config.username # None \/ keychain # None
    /\ keychain' = None
    /\ Load(w, "channel", [config EXCEPT !.enabled = FALSE, !.username = None],
             FALSE, None, FALSE)
    /\ UNCHANGED picked

(* config.Save: the copy overwrites the typed settings, whatever was saved *)
(* since it was loaded; config.Write overwrites the others too.            *)
Save(w) ==
    /\ Edits(w)
    /\ LET e == held[w]
       IN /\ config' = IF e.whole THEN e.to ELSE [e.to EXCEPT !.lang = config.lang]
          /\ bot' = IF e.gone # None THEN Cleared(bot, e.gone, None) ELSE bot
    /\ held' = [held EXCEPT ![w] = NoEdit]
    /\ UNCHANGED <<keychain, page, picked, edits, mix>>

(* The session's model, from the page or the next one in the cycle.        *)
SessionModelSelect ==
    /\ "models" \in mix
    /\ edits < MaxEdits
    /\ edits' = edits + 1
    /\ bot' \in OrNone(page \union Listed(config)) \ {bot}
    /\ page' = {}
    /\ UNCHANGED <<config, keychain, held, picked, mix>>

Edit ==
    \/ OpenPage
    \/ RemoveInTui
    \/ SaveModelOrder
    \/ DispatcherSelect
    \/ SummarySelect
    \/ SessionModelSelect
    \/ \E w \in Writers :
          \/ ReplaceModels(w)
          \/ RemoveOnWeb(w)
          \/ SetModelPriority(w)
          \/ SetModelRouting(w)
          \/ SetModelTag(w)
          \/ SetOther(w)
          \/ SetLang(w)
          \/ EnableChannel(w)
          \/ DisableChannel(w)

-----------------------------------------------------------------------------
(* The file never lists a model twice, and its dispatcher is a listed      *)
(* model, however the edits of two processes overlap: an edit changes the  *)
(* list and the dispatcher of one copy.  Only a name picked in the TUI,    *)
(* which is not looked up again, may be missing (commandDispatcher.go).    *)
RoutingListed ==
    /\ IsInjective(config.models)
    /\ config.dispatcher \in OrNone(Listed(config)) \union picked

=============================================================================
