---------------------------- MODULE MCChannelBots ----------------------------
(* config.json with two models of two providers, edited by the TUI and   *)
(* a web handler; or with one channel and two bot tokens.                  *)
EXTENDS ChannelBots, TLC

CONSTANTS a1, b1, tui, web, bot_

MCModels == {a1, b1}

MCProvider == [m \in MCModels |-> IF m = b1 THEN "b" ELSE "a"]

MCWriters == {tui, web, bot_}

MCMixes == {{"models", "routing"}, {"settings"}, {"channel"}}
=============================================================================
