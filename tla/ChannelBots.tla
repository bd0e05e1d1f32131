----------------------------- MODULE ChannelBots -----------------------------
(***************************************************************************)
(* The bot of a chat channel in the daemon (Discord; Telegram's is the     *)
(* same code).  ReloadDiscord is called at boot, by the watcher of         *)
(* config.json after the registry, and by the retries of a start that      *)
(* failed.  It reads the setting and the token before it waits for the     *)
(* mutex, leaves a bot alone whose pair it has seen, closes the bot it     *)
(* has, and starts one from the setting and the token of that moment.  A   *)
(* bot that starts may write its user name to config.json, the way any     *)
(* other edit does.                                                        *)
(***************************************************************************)
EXTENDS HostReload

CONSTANTS Bot,         \* the writer of the user name
          RetryMax,    \* reloadRetryMax: retries after a failed start
          Chains       \* bound: chains of retries that may be alive at once

ASSUME BotAssumption == /\ Bot \in Writers \ {Tui}
                        /\ RetryMax \in Nat \ {0}
                        /\ Chains \intersect {"boot", "watch", "none"} = {}

Callers == {"boot", "watch"} \union Chains

VARIABLES call,        \* per caller: a ReloadDiscord under way or asleep
          holder,      \* who holds discordMu
          running,     \* discordBot: the token it was started with, or None
          open,        \* connections open
          last,        \* lastDiscordEnabled and lastDiscordToken
          late,        \* the last restart went by a pair no longer current
          missed,      \* the watcher dropped an event, no reload read since
          givenUp      \* the last start failed and no retry is left

botVars == <<call, holder, running, open, last, late, missed, givenUp>>

vars == <<configVars, hostVars, botVars>>

Quiet == [step |-> "quiet", attempt |-> 0, enabled |-> FALSE, token |-> None]

Called == [step |-> "called", attempt |-> 0, enabled |-> FALSE, token |-> None]

Sleeping(n) == [step |-> "sleeps", attempt |-> n, enabled |-> FALSE, token |-> None]

Current == [enabled |-> config.enabled, token |-> keychain]

Pair(k) == [enabled |-> call[k].enabled, token |-> call[k].token]

BotInit ==
    /\ call = [k \in Callers |->
                  IF k = "boot" /\ "channel" \in mix THEN Called ELSE Quiet]
    /\ holder = "none"
    /\ running = None
    /\ open = 0
    /\ last = [enabled |-> FALSE, token |-> None]
    /\ late = FALSE
    /\ missed = FALSE
    /\ givenUp = FALSE

(* The pair is read outside the mutex.                                     *)
ReadPair(k) ==
    /\ call[k].step = "called"
    /\ call' = [call EXCEPT ![k] = [step |-> "waits", attempt |-> call[k].attempt,
                                     enabled |-> config.enabled, token |-> keychain]]
    /\ missed' = FALSE
    /\ UNCHANGED <<holder, running, open, last, late, givenUp>>

Returns(k) == call' = [call EXCEPT ![k] = Quiet]

Seen(k) == call[k].attempt = 0 /\ Pair(k) = last

(* Variant for mutation checks: the old bot is forgotten, not closed.      *)
Forget == running' = None /\ UNCHANGED open

Close == running' = None /\ open' = IF running # None THEN open - 1 ELSE open

(* With the mutex: a pair seen before changes nothing, unless this is a    *)
(* retry; else the bot is closed, and with nothing to start that is all.   *)
Enter(k) ==
    /\ call[k].step = "waits" /\ holder = "none"
    /\ UNCHANGED missed
    /\ IF Seen(k)
       THEN Returns(k) /\ UNCHANGED <<holder, running, open, last, late, givenUp>>
       ELSE /\ late' = (Pair(k) # Current)
            /\ Close
            /\ givenUp' = FALSE
            /\ IF ~call[k].enabled \/ call[k].token = None
               THEN last' = Pair(k) /\ Returns(k) /\ UNCHANGED holder
               ELSE /\ call' = [call EXCEPT ![k].step = "starts"]
                    /\ holder' = k
                    /\ UNCHANGED last

(* discord.New finds the setting off or the token gone: no bot, no error.  *)
NothingToStart(k) ==
    /\ holder = k /\ call[k].step = "starts"
    /\ ~config.enabled \/ keychain = None
    /\ last' = Pair(k)
    /\ late' = (late \/ Pair(k) # Current)
    /\ Returns(k)
    /\ holder' = "none"
    /\ UNCHANGED <<running, open, missed, givenUp, configVars>>

(* The bot connects with the token of now and writes its name if it has    *)
(* changed.                                                                *)
Started(k) ==
    /\ holder = k /\ call[k].step = "starts"
    /\ config.enabled /\ keychain # None
    /\ open' = open + 1
    /\ running' = keychain
    /\ last' = Pair(k)
    /\ late' = (late \/ Pair(k) # Current)
    /\ IF config.username = keychain
       THEN Returns(k) /\ holder' = "none" /\ UNCHANGED configVars
       ELSE /\ held' = [held EXCEPT ![Bot] =
                   Copy([config EXCEPT !.username = keychain], FALSE, None, FALSE)]
            /\ call' = [call EXCEPT ![k].step = "names"]
            /\ UNCHANGED <<holder, config, keychain, bot, page, picked, edits, mix>>
    /\ UNCHANGED <<missed, givenUp>>

(* The name is saved and the call is over.                                 *)
Named(k) ==
    /\ holder = k /\ call[k].step = "names"
    /\ ~Edits(Bot)
    /\ Returns(k)
    /\ holder' = "none"
    /\ UNCHANGED <<running, open, last, late, missed, givenUp, configVars>>

(* The start fails: nothing is remembered, and a retry is due after a      *)
(* while unless there have been enough of them.                            *)
StartFails(k) ==
    /\ holder = k /\ call[k].step = "starts"
    /\ config.enabled /\ keychain # None
    /\ IF call[k].attempt < RetryMax
       THEN \E c \in Chains :
               /\ c = k \/ call[c] = Quiet
               /\ k \in Chains => c = k
               /\ call' = [[call EXCEPT ![k] = Quiet]
                              EXCEPT ![c] = Sleeping(call[k].attempt + 1)]
               /\ UNCHANGED givenUp
       ELSE Returns(k) /\ givenUp' = TRUE
    /\ holder' = "none"
    /\ UNCHANGED <<running, open, last, late, missed, configVars>>

(* 30 s pass.                                                              *)
Retry(c) ==
    /\ call[c].step = "sleeps"
    /\ call' = [call EXCEPT ![c].step = "called"]
    /\ UNCHANGED <<holder, running, open, last, late, missed, givenUp>>

-----------------------------------------------------------------------------
Init == ConfigInit /\ HostInit /\ BotInit

(* One edit of a writer at a time, its reload included.                    *)
EditStep ==
    /\ Edit
    /\ \A w \in Writers : held'[w] # held[w] => w # Bot /\ reload[w] = Idle
    /\ UNCHANGED <<hostVars, botVars>>

SaveStep == \E w \in Writers : Saved(w) /\ UNCHANGED botVars

(* The watcher of the daemon takes no event while it sees to the bot.      *)
Busy(p) == p = "daemon" /\ call["watch"] # Quiet

(* The watcher of the daemon goes on to the bot when the registry is set.  *)
HostStep ==
    /\ \/ \E r \in Reloaders : ReadList(r) /\ UNCHANGED botVars
       \/ \E r \in Reloaders :
             /\ Install(r)
             /\ IF r = "daemon"
                THEN /\ call' = [call EXCEPT !["watch"].step = "called"]
                     /\ UNCHANGED <<holder, running, open, last, late, missed, givenUp>>
                ELSE UNCHANGED botVars
       \/ \E p \in Processes :
             /\ Watch(p, Busy(p))
             /\ UNCHANGED botVars
       \/ \E p \in Processes :
             /\ Drop(p, Busy(p))
             /\ missed' = (missed \/ p = "daemon")
             /\ UNCHANGED <<call, holder, running, open, last, late, givenUp>>
    /\ UNCHANGED configVars

BotStep ==
    /\ \/ \E k \in Callers : (ReadPair(k) \/ Enter(k)) /\ UNCHANGED configVars
       \/ \E k \in Callers : NothingToStart(k) \/ Started(k) \/ Named(k) \/ StartFails(k)
       \/ \E c \in Chains : Retry(c) /\ UNCHANGED configVars
    /\ UNCHANGED hostVars

Next == EditStep \/ SaveStep \/ HostStep \/ BotStep

Spec == Init /\ [][Next]_vars

-----------------------------------------------------------------------------
(* There is never more than one connection of the bot, and it is the one   *)
(* discordBot can close, whichever reloads and retries overlap             *)
(* (reloadDiscord.go).                                                     *)
OneConnection == open = IF running = None THEN 0 ELSE 1

(* The setting is carried out once the daemon has seen every save and no   *)
(* reload is on its way: a bot that is switched off does not run, and one  *)
(* that is switched on runs with the token stored, unless its start failed *)
(* until the retries were used up, the event of a save fell into the       *)
(* 200 ms window, or a reload went by a pair that had changed meanwhile    *)
(* (reloadDiscord.go, watchConfig.go).                                     *)
BotFollows ==
    LET settled == /\ events["daemon"] = 0 /\ ~missed /\ ~late
                   /\ reload["daemon"] = Idle
                   /\ \A w \in Writers : ~Edits(w)
                   /\ \A k \in Callers : call[k] = Quiet
    IN settled => running = IF config.enabled /\ ~givenUp THEN keychain ELSE None

(* What is on file is consistent, and each process comes to serve it.      *)
SettingsServed == RoutingListed /\ ServedTogether /\ ServedCurrent /\ BotFollows
=============================================================================
