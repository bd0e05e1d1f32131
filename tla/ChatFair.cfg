SPECIFICATION FairSpec
CONSTANTS
    a = a  b = b  l1 = l1  l2 = l2  c1 = c1  t1 = t1  t2 = t2  h1 = h1  h2 = h2
    NoReq = NoReq  NoBot = NoBot  NoChat = NoChat
    Reqs = {a, b}
    Async = {b}
    Expiring = {}
    Tasks = {t1, t2}
    TaskOf <- MCTaskOf
    Resumed = {}
    Listeners = {l1}
    Hears <- MCHears
    Chats = {c1}
    ChatOf <- MCChatOf
    Confirms = {a}
    Questions <- MCOneEach
    Handlers = {h1, h2}
PROPERTIES EveryPromptShown EveryPromptSettled
