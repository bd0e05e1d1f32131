---------------------------- MODULE MCChatListener ----------------------------
(* Instances of ChatListener for TLC: two requests that share one chat. *)
EXTENDS ChatListener, TLC

CONSTANTS a, b,          \* requests: a is a confirm, b asks questions
          l1, l2,        \* listener objects
          c1,            \* the chat
          t1, t2,        \* tasks
          h1, h2         \* handler goroutines

MCTaskOf == (a :> t1 @@ b :> t2)
MCHears == [r \in Reqs |-> Listeners]
MCChatOf == [r \in Reqs |-> c1]
MCQuestions == (a :> <<"pick">> @@ b :> <<"pick", "text">>)
\* Two taps at once on a request of two questions may end the daemon (AskNext).
MCOneEach == (a :> <<"pick">> @@ b :> <<"text">>)

\* Bound: the bot is not reloaded in a run in which two taps overlapped on one
\* prompt, before it or after it.
OverlapOrReload == overlapped = {} \/ stopped = {}

Alike == Permutations(Listeners) \cup Permutations(Handlers)
=============================================================================
