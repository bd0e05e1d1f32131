---------------------------- MODULE McpClientsProofs ----------------------------
(***************************************************************************)
(* Theorems about McpClients, for any number of calls, notifications, users *)
(* and client objects: as long as no two replacements of the client overlap *)
(* (`crossed` is FALSE), the registry holds what the manager's signature    *)
(* says, no open session is forgotten, a removed server stays gone and a    *)
(* renewal closes no session but the one it failed on.                      *)
(*                                                                         *)
(* The invariants are layered: types and the lock; what the registry holds  *)
(* (ToolsInv); the sessions; removal; renewal.  Each is proved by groups of *)
(* actions, as Next and Step name them.                                     *)
(*                                                                          *)
(* And theorems about ChatMessages, for any inputs and chats: the files of  *)
(* an album are handled once, the chat sees its answers whole and in order  *)
(* or is told, and a chat that was taken off the list stays off it.         *)
(***************************************************************************)
EXTENDS McpClients, ChatMessages, FiniteSetTheorems, TLAPS

\* The type invariant by parts: the environment, the manager, the goroutines.
TypeEnv ==
    /\ configured \in BOOLEAN /\ catalog \in Catalogs /\ faults \in 0..MaxFaults
    /\ noted \in BOOLEAN /\ crossed \in BOOLEAN
TypeMgr ==
    /\ sess \in [Clients -> {"open", "lost", "closed"}]
    /\ client \in Clients \cup {None}
    /\ sum \in Catalogs \cup {None}
    /\ defs \in [Tools -> Nat]
    /\ lock \in Gs \cup {None} /\ renewing \in Gs \cup {None}
TypeGs ==
    /\ asked \in [Users -> {"nothing", "reconnect", "remove", "all"}]
    /\ pc \in [Gs -> PCs]
    /\ held \in [Gs -> Clients \cup {None}]
    /\ got \in [Gs -> Catalogs \cup {None}]
    /\ todo \in [Gs -> SUBSET Tools]

\* A goroutine that registers has a list, and one that lists has a client.
GotInv == \A g \in Gs :
    /\ pc[g] \in {"install", "regist"} => got[g] \in Catalogs
    /\ pc[g] \in {"list", "install"} => held[g] # None

\* m.mu is held between two steps by Regist's loop and by Reconnect's connecting only.
LockInv == \A g \in Gs :
    /\ lock = g => pc[g] \in {"regist", "dialAll"}
    /\ pc[g] \in {"regist", "dialAll"} => lock = g

\* Only a user reconnects all servers.
UserInv == \A g \in Gs :
    pc[g] \in {"wipe", "pruneAll", "loadAll", "dialAll", "listAll"} => g \in Users

TypeInv == TypeEnv /\ TypeMgr /\ TypeGs /\ GotInv /\ LockInv /\ UserInv

LEMMA TypeParts == TypeOK <=> TypeEnv /\ TypeMgr /\ TypeGs
BY DEF TypeOK, TypeEnv, TypeMgr, TypeGs

LEMMA NewClientFresh == Fresh # {} => NewClient \in Fresh
BY DEF NewClient

LEMMA TypeInit == Init => TypeInv
<1> SUFFICES ASSUME Init PROVE TypeInv  OBVIOUS
<1>1. client \in Clients  BY McpAssumption DEF Init
<1>2. TypeEnv
  <2>1. configured \in BOOLEAN /\ noted \in BOOLEAN /\ crossed \in BOOLEAN  BY DEF Init
  <2>2. catalog \in Catalogs /\ faults \in 0..MaxFaults  BY McpAssumption DEF Init
  <2> QED  BY <2>1, <2>2 DEF TypeEnv
<1>3. TypeMgr  BY <1>1 DEF Init, TypeMgr
<1>4. TypeGs  BY DEF Init, TypeGs, PCs
<1>5. GotInv  BY DEF Init, GotInv
<1>6. LockInv  BY McpAssumption DEF Init, LockInv
<1>7. UserInv  BY DEF Init, UserInv
<1> QED  BY <1>2, <1>3, <1>4, <1>5, <1>6, <1>7 DEF TypeInv

LEMMA EnvType ==
    ASSUME TypeInv, [Next]_vars
    PROVE  TypeEnv'
<1>1. CASE ServerChanges \/ ServerLosesSession
  <2>1. configured' = configured /\ crossed' = crossed /\ noted' \in BOOLEAN
    BY <1>1 DEF ServerChanges, ServerLosesSession, TypeInv, TypeEnv
  <2>2. catalog' \in Catalogs /\ faults' \in 0..MaxFaults
    BY <1>1, McpAssumption DEF ServerChanges, ServerLosesSession, TypeInv, TypeEnv
  <2> QED  BY <2>1, <2>2 DEF TypeInv, TypeEnv
<1>2. CASE Poll \/ Listed
  BY <1>2 DEF Poll, Listed, Lookup, Over, envVars, mgrVars, locals, Go, TypeInv, TypeEnv
<1>3. ASSUME NEW h \in Gs, Call(h) \/ Notified(h) \/ ReconnectServer(h) \/ Reconnect(h) \/ Remove(h)
      PROVE  TypeEnv'
  BY <1>3 DEF Call, Notified, ReconnectServer, Reconnect, Remove, Lookup, Ask, Cross, envVars,
     mgrVars, locals, Go, TypeInv, TypeEnv
<1>4. ASSUME NEW h \in Gs, CallReturns(h) \/ RenewClient(h)
      PROVE  TypeEnv'
  BY <1>4 DEF CallReturns, RenewClient, Over, Cross, envVars, mgrVars, locals, Go, TypeInv,
     TypeEnv
<1>5. ASSUME NEW h \in Gs, Replace(h)
      PROVE  TypeEnv'
  BY <1>5 DEF Replace, Load, Disconnect, Prune, Dial, SetClient, Ended, Over, envVars, mgrVars,
     locals, Go, TypeInv, TypeEnv
<1>6. ASSUME NEW h \in Gs, Refresh(h)
      PROVE  TypeEnv'
  BY <1>6 DEF Refresh, Pick, List, Install, Regist, Signed, Ended, Over, Intrude, envVars,
     mgrVars, locals, Go, TypeInv, TypeEnv
<1>7. ASSUME NEW h \in Gs, ReplaceAll(h)
      PROVE  TypeEnv'
  BY <1>7 DEF ReplaceAll, Wipe, PruneAll, LoadAll, DialAll, ListAll, Over, Intrude, envVars,
     mgrVars, locals, Go, TypeInv, TypeEnv
<1>8. CASE UNCHANGED vars
  BY <1>8 DEF vars, envVars, mgrVars, locals, TypeInv, TypeEnv
<1> QED
  BY <1>1, <1>2, <1>3, <1>4, <1>5, <1>6, <1>7, <1>8 DEF Next, Step

LEMMA MgrType ==
    ASSUME TypeInv, [Next]_vars
    PROVE  TypeMgr'
<1>1. CASE ServerChanges \/ ServerLosesSession
  BY <1>1 DEF ServerChanges, ServerLosesSession, mgrVars, locals, TypeInv, TypeMgr, TypeGs,
     TypeEnv
<1>2. CASE Poll \/ Listed
  BY <1>2 DEF Poll, Listed, Lookup, Over, envVars, mgrVars, locals, Go, TypeInv, TypeMgr, TypeGs
<1>3. ASSUME NEW h \in Gs, Call(h) \/ Notified(h) \/ ReconnectServer(h) \/ Reconnect(h) \/ Remove(h)
      PROVE  TypeMgr'
  BY <1>3 DEF Call, Notified, ReconnectServer, Reconnect, Remove, Lookup, Ask, Cross, envVars,
     mgrVars, locals, Go, TypeInv, TypeMgr, TypeGs
<1>4. ASSUME NEW h \in Gs, CallReturns(h) \/ RenewClient(h)
      PROVE  TypeMgr'
  BY <1>4 DEF CallReturns, RenewClient, Over, Cross, envVars, mgrVars, locals, Go, TypeInv,
     TypeMgr, TypeGs
<1>5. ASSUME NEW h \in Gs, Replace(h)
      PROVE  TypeMgr'
  BY <1>5, NewClientFresh DEF Replace, Load, Disconnect, Prune, Dial, SetClient, Ended, Over,
     envVars, mgrVars, locals, Go, TypeInv, TypeMgr, TypeGs, Closed, NoTools, Fresh
<1>6. ASSUME NEW h \in Gs, Refresh(h)
      PROVE  TypeMgr'
  BY <1>6 DEF Refresh, Pick, List, Install, Regist, Signed, Ended, Over, Intrude, envVars,
     mgrVars, locals, Go, TypeInv, TypeMgr, TypeGs, NoTools, GotInv
<1>7. ASSUME NEW h \in Gs, ReplaceAll(h)
      PROVE  TypeMgr'
  BY <1>7, NewClientFresh DEF ReplaceAll, Wipe, PruneAll, LoadAll, DialAll, ListAll, Over,
     Intrude, envVars, mgrVars, locals, Go, TypeInv, TypeMgr, TypeGs, Closed, NoTools, Fresh
<1>8. CASE UNCHANGED vars
  BY <1>8 DEF vars, envVars, mgrVars, locals, TypeInv, TypeMgr, TypeGs
<1> QED
  BY <1>1, <1>2, <1>3, <1>4, <1>5, <1>6, <1>7, <1>8 DEF Next, Step

LEMMA GsType ==
    ASSUME TypeInv, [Next]_vars
    PROVE  TypeGs'
<1>1. CASE ServerChanges \/ ServerLosesSession
  BY <1>1 DEF ServerChanges, ServerLosesSession, mgrVars, locals, TypeInv, TypeMgr, TypeGs, PCs
<1>2. CASE Poll \/ Listed
  BY <1>2 DEF Poll, Listed, Lookup, Over, envVars, mgrVars, locals, Go, TypeInv, TypeMgr,
     TypeGs, PCs
<1>3. ASSUME NEW h \in Gs, Call(h) \/ Notified(h) \/ ReconnectServer(h) \/ Reconnect(h) \/ Remove(h)
      PROVE  TypeGs'
  BY <1>3 DEF Call, Notified, ReconnectServer, Reconnect, Remove, Lookup, Ask, Cross, envVars,
     mgrVars, locals, Go, TypeInv, TypeMgr, TypeGs, PCs
<1>4. ASSUME NEW h \in Gs, CallReturns(h) \/ RenewClient(h)
      PROVE  TypeGs'
  BY <1>4 DEF CallReturns, RenewClient, Over, Cross, envVars, mgrVars, locals, Go, TypeInv,
     TypeMgr, TypeGs, PCs
<1>5. ASSUME NEW h \in Gs, Replace(h)
      PROVE  TypeGs'
  BY <1>5, NewClientFresh DEF Replace, Load, Disconnect, Prune, Dial, SetClient, Ended, Over,
     envVars, mgrVars, locals, Go, TypeInv, TypeMgr, TypeGs, PCs, Fresh
<1>6. ASSUME NEW h \in Gs, Refresh(h)
      PROVE  TypeGs'
  BY <1>6, McpAssumption DEF Refresh, Pick, List, Install, Regist, Signed, Ended, Over, Intrude,
     envVars, mgrVars, locals, Go, TypeInv, TypeMgr, TypeGs, PCs, TypeEnv, GotInv
<1>7. ASSUME NEW h \in Gs, ReplaceAll(h)
      PROVE  TypeGs'
  BY <1>7, McpAssumption DEF ReplaceAll, Wipe, PruneAll, LoadAll, DialAll, ListAll, Over,
     Intrude, envVars, mgrVars, locals, Go, TypeInv, TypeMgr, TypeGs, PCs, TypeEnv
<1>8. CASE UNCHANGED vars
  BY <1>8 DEF vars, envVars, mgrVars, locals, TypeInv, TypeMgr, TypeGs, PCs
<1> QED
  BY <1>1, <1>2, <1>3, <1>4, <1>5, <1>6, <1>7, <1>8 DEF Next, Step

LEMMA GotStep ==
    ASSUME TypeInv, [Next]_vars
    PROVE  GotInv'
<1>1. CASE ServerChanges \/ ServerLosesSession
  BY <1>1 DEF ServerChanges, ServerLosesSession, mgrVars, locals, TypeInv, TypeMgr, TypeGs,
     TypeEnv, GotInv
<1>2. CASE Poll \/ Listed
  BY <1>2 DEF Poll, Listed, Lookup, Over, envVars, mgrVars, locals, Go, TypeInv, TypeMgr,
     TypeGs, TypeEnv, GotInv
<1>3. ASSUME NEW h \in Gs, Call(h) \/ Notified(h) \/ ReconnectServer(h) \/ Reconnect(h) \/ Remove(h)
      PROVE  GotInv'
  BY <1>3 DEF Call, Notified, ReconnectServer, Reconnect, Remove, Lookup, Ask, Cross, envVars,
     mgrVars, locals, Go, TypeInv, TypeMgr, TypeGs, TypeEnv, GotInv
<1>4. ASSUME NEW h \in Gs, CallReturns(h) \/ RenewClient(h)
      PROVE  GotInv'
  BY <1>4 DEF CallReturns, RenewClient, Over, Cross, envVars, mgrVars, locals, Go, TypeInv,
     TypeMgr, TypeGs, TypeEnv, GotInv
<1>5. ASSUME NEW h \in Gs, Replace(h)
      PROVE  GotInv'
  BY <1>5 DEF Replace, Load, Disconnect, Prune, Dial, SetClient, Ended, Over, envVars, mgrVars,
     locals, Go, TypeInv, TypeMgr, TypeGs, TypeEnv, GotInv
<1>6. ASSUME NEW h \in Gs, Refresh(h)
      PROVE  GotInv'
  BY <1>6 DEF Refresh, Pick, List, Install, Regist, Signed, Ended, Over, Intrude, envVars,
     mgrVars, locals, Go, TypeInv, TypeMgr, TypeGs, TypeEnv, GotInv
<1>7. ASSUME NEW h \in Gs, ReplaceAll(h)
      PROVE  GotInv'
  BY <1>7 DEF ReplaceAll, Wipe, PruneAll, LoadAll, DialAll, ListAll, Over, Intrude, envVars,
     mgrVars, locals, Go, TypeInv, TypeMgr, TypeGs, TypeEnv, GotInv
<1>8. CASE UNCHANGED vars
  BY <1>8 DEF vars, envVars, mgrVars, locals, TypeInv, TypeMgr, TypeGs, TypeEnv, GotInv
<1> QED
  BY <1>1, <1>2, <1>3, <1>4, <1>5, <1>6, <1>7, <1>8 DEF Next, Step

LEMMA LockStep ==
    ASSUME TypeInv, [Next]_vars
    PROVE  LockInv'
<1>1. CASE ServerChanges \/ ServerLosesSession
  BY <1>1, McpAssumption DEF ServerChanges, ServerLosesSession, mgrVars, locals, TypeInv,
     TypeMgr, TypeGs, LockInv
<1>2. CASE Poll \/ Listed
  BY <1>2, McpAssumption DEF Poll, Listed, Lookup, Over, envVars, mgrVars, locals, Go, TypeInv,
     TypeMgr, TypeGs, LockInv
<1>3. ASSUME NEW h \in Gs, Call(h) \/ Notified(h) \/ ReconnectServer(h) \/ Reconnect(h) \/ Remove(h)
      PROVE  LockInv'
  BY <1>3, McpAssumption DEF Call, Notified, ReconnectServer, Reconnect, Remove, Lookup, Ask,
     Cross, envVars, mgrVars, locals, Go, TypeInv, TypeMgr, TypeGs, LockInv
<1>4. ASSUME NEW h \in Gs, CallReturns(h) \/ RenewClient(h)
      PROVE  LockInv'
  BY <1>4, McpAssumption DEF CallReturns, RenewClient, Over, Cross, envVars, mgrVars, locals,
     Go, TypeInv, TypeMgr, TypeGs, LockInv
<1>5. ASSUME NEW h \in Gs, Replace(h)
      PROVE  LockInv'
  BY <1>5, McpAssumption DEF Replace, Load, Disconnect, Prune, Dial, SetClient, Ended, Over,
     envVars, mgrVars, locals, Go, TypeInv, TypeMgr, TypeGs, LockInv
<1>6. ASSUME NEW h \in Gs, Refresh(h)
      PROVE  LockInv'
  BY <1>6, McpAssumption DEF Refresh, Pick, List, Install, Regist, Signed, Ended, Over, Intrude,
     envVars, mgrVars, locals, Go, TypeInv, TypeMgr, TypeGs, LockInv
<1>7. ASSUME NEW h \in Gs, ReplaceAll(h)
      PROVE  LockInv'
  BY <1>7, McpAssumption DEF ReplaceAll, Wipe, PruneAll, LoadAll, DialAll, ListAll, Over,
     Intrude, envVars, mgrVars, locals, Go, TypeInv, TypeMgr, TypeGs, LockInv
<1>8. CASE UNCHANGED vars
  BY <1>8, McpAssumption DEF vars, envVars, mgrVars, locals, TypeInv, TypeMgr, TypeGs, LockInv
<1> QED
  BY <1>1, <1>2, <1>3, <1>4, <1>5, <1>6, <1>7, <1>8 DEF Next, Step

LEMMA UserStep ==
    ASSUME TypeInv, [Next]_vars
    PROVE  UserInv'
<1>1. CASE ServerChanges \/ ServerLosesSession
  BY <1>1 DEF ServerChanges, ServerLosesSession, mgrVars, locals, TypeInv, TypeGs, UserInv
<1>2. CASE Poll \/ Listed
  BY <1>2 DEF Poll, Listed, Lookup, Over, envVars, mgrVars, locals, Go, TypeInv, TypeGs, UserInv
<1>3. ASSUME NEW h \in Gs, Call(h) \/ Notified(h) \/ ReconnectServer(h) \/ Reconnect(h) \/ Remove(h)
      PROVE  UserInv'
  BY <1>3 DEF Call, Notified, ReconnectServer, Reconnect, Remove, Lookup, Ask, Cross, envVars,
     mgrVars, locals, Go, TypeInv, TypeGs, UserInv
<1>4. ASSUME NEW h \in Gs, CallReturns(h) \/ RenewClient(h)
      PROVE  UserInv'
  BY <1>4 DEF CallReturns, RenewClient, Over, Cross, envVars, mgrVars, locals, Go, TypeInv,
     TypeGs, UserInv
<1>5. ASSUME NEW h \in Gs, Replace(h)
      PROVE  UserInv'
  BY <1>5 DEF Replace, Load, Disconnect, Prune, Dial, SetClient, Ended, Over, envVars, mgrVars,
     locals, Go, TypeInv, TypeGs, UserInv
<1>6. ASSUME NEW h \in Gs, Refresh(h)
      PROVE  UserInv'
  BY <1>6 DEF Refresh, Pick, List, Install, Regist, Signed, Ended, Over, Intrude, envVars,
     mgrVars, locals, Go, TypeInv, TypeGs, UserInv
<1>7. ASSUME NEW h \in Gs, ReplaceAll(h)
      PROVE  UserInv'
  BY <1>7 DEF ReplaceAll, Wipe, PruneAll, LoadAll, DialAll, ListAll, Over, Intrude, envVars,
     mgrVars, locals, Go, TypeInv, TypeGs, UserInv
<1>8. CASE UNCHANGED vars
  BY <1>8 DEF vars, envVars, mgrVars, locals, TypeInv, TypeGs, UserInv
<1> QED
  BY <1>1, <1>2, <1>3, <1>4, <1>5, <1>6, <1>7, <1>8 DEF Next, Step

LEMMA TypeStep == TypeInv /\ [Next]_vars => TypeInv'
BY EnvType, MgrType, GsType, GotStep, LockStep, UserStep DEF TypeInv

LEMMA TypeInvariant == Spec => []TypeInv
BY TypeInit, TypeStep, PTL DEF Spec

\* Every variable keeps its type.
THEOREM TypesKept == Spec => []TypeOK
<1>1. TypeInv => TypeOK  BY TypeParts DEF TypeInv
<1> QED  BY <1>1, TypeInvariant, PTL

-----------------------------------------------------------------------------
(* What the registry holds.                                                 *)

\* From the point at which the old client is out of the map until the new one is in it.
Away == {"prune", "dial", "set", "pruneAll", "loadAll", "dialAll"}

OneReplacer == ~crossed => \A g, h \in Replacers : g = h

\* Nobody else brings a client while a replacement is under way.
AwayInv == ~crossed => \A g \in Gs : pc[g] \in Away => client = None /\ sum = None

\* A list is registered for a client that is there, tool by tool.
RegistInv == \A g \in Gs : pc[g] = "regist" =>
    /\ client # None /\ todo[g] \subseteq got[g]
    /\ ~crossed => Registered = got[g] \ todo[g]

\* RegisterAll finds an empty registry, which it does not look at.
ListAllInv == ~crossed => \A u \in Gs : pc[u] = "listAll" =>
    /\ u \in Users
    /\ sum = None
    /\ \A h \in Gs : pc[h] # "regist"

ToolsInv == OneReplacer /\ AwayInv /\ RegistInv /\ ListAllInv /\ RegistryMatches

LEMMA ToolsInit == Init => ToolsInv
<1> SUFFICES ASSUME Init PROVE ToolsInv  OBVIOUS
<1>1. client \in Clients /\ client # None  BY McpAssumption DEF Init
<1>2. sum = catalog /\ catalog \in Catalogs /\ sum # None /\ catalog \subseteq Tools
  BY McpAssumption DEF Init
<1>3. Registered = catalog  BY <1>2 DEF Init, Registered
<1>4. RegistryMatches  BY <1>1, <1>2, <1>3 DEF RegistryMatches
<1>5. \A g \in Gs : pc[g] = "idle"  BY DEF Init
<1>6. OneReplacer  BY <1>5 DEF OneReplacer, Replacers, Replacing
<1> QED  BY <1>4, <1>5, <1>6 DEF ToolsInv, AwayInv, Away, RegistInv, ListAllInv

\* `crossed` is never taken back.
LEMMA Uncrossed == [Next]_vars /\ ~crossed' => ~crossed
<1> SUFFICES ASSUME [Next]_vars, crossed PROVE crossed'  OBVIOUS
<1>1. CASE ServerChanges \/ ServerLosesSession
  BY <1>1 DEF ServerChanges, ServerLosesSession, mgrVars, locals
<1>2. CASE Poll \/ Listed
  BY <1>2 DEF Poll, Listed, Lookup, Over, envVars, mgrVars, locals, Go
<1>3. ASSUME NEW h \in Gs, Call(h) \/ Notified(h) \/ ReconnectServer(h) \/ Reconnect(h) \/ Remove(h)
      PROVE  crossed'
  BY <1>3 DEF Call, Notified, ReconnectServer, Reconnect, Remove, Lookup, Ask, Cross, envVars,
     mgrVars, locals, Go
<1>4. ASSUME NEW h \in Gs, CallReturns(h) \/ RenewClient(h)
      PROVE  crossed'
  BY <1>4 DEF CallReturns, RenewClient, Over, Cross, envVars, mgrVars, locals, Go
<1>5. ASSUME NEW h \in Gs, Replace(h)
      PROVE  crossed'
  BY <1>5 DEF Replace, Load, Disconnect, Prune, Dial, SetClient, Ended, Over, envVars, mgrVars,
     locals, Go
<1>6. ASSUME NEW h \in Gs, Refresh(h)
      PROVE  crossed'
  BY <1>6 DEF Refresh, Pick, List, Install, Regist, Signed, Ended, Over, Intrude, envVars,
     mgrVars, locals, Go
<1>7. ASSUME NEW h \in Gs, ReplaceAll(h)
      PROVE  crossed'
  BY <1>7 DEF ReplaceAll, Wipe, PruneAll, LoadAll, DialAll, ListAll, Over, Intrude, envVars,
     mgrVars, locals, Go
<1>8. CASE UNCHANGED vars
  BY <1>8 DEF vars, envVars, mgrVars, locals
<1> QED
  BY <1>1, <1>2, <1>3, <1>4, <1>5, <1>6, <1>7, <1>8 DEF Next, Step

LEMMA CrossApart ==
    ASSUME NEW g \in Gs, Cross(g), ~crossed'
    PROVE  \A h \in Gs : pc[h] \in Replacing => h = g
BY DEF Cross, Replacers

LEMMA ReplacerStep ==
    ASSUME TypeInv, OneReplacer, [Next]_vars
    PROVE  OneReplacer'
<1> SUFFICES ASSUME ~crossed', NEW a \in Gs, NEW b \in Gs,
                    pc'[a] \in Replacing, pc'[b] \in Replacing
             PROVE  a = b
  BY DEF OneReplacer, Replacers
<1>u. \A g, h \in Gs : pc[g] \in Replacing /\ pc[h] \in Replacing => g = h
  BY Uncrossed DEF OneReplacer, Replacers
<1>1. CASE ServerChanges \/ ServerLosesSession
  BY <1>1, <1>u DEF ServerChanges, ServerLosesSession, mgrVars, locals, TypeInv, TypeGs,
     Replacing
<1>2. CASE Poll \/ Listed
  BY <1>2, <1>u DEF Poll, Listed, Lookup, Over, envVars, mgrVars, locals, Go, TypeInv, TypeGs,
     Replacing
<1>3. ASSUME NEW h \in Gs, Call(h) \/ Notified(h) \/ ReconnectServer(h) \/ Reconnect(h) \/ Remove(h)
      PROVE  a = b
  BY <1>3, <1>u, CrossApart DEF Call, Notified, ReconnectServer, Reconnect, Remove, Lookup, Ask,
     Cross, envVars, mgrVars, locals, Go, TypeInv, TypeGs, Replacing
<1>4. ASSUME NEW h \in Gs, CallReturns(h) \/ RenewClient(h)
      PROVE  a = b
  BY <1>4, <1>u, CrossApart DEF CallReturns, RenewClient, Over, Cross, envVars, mgrVars, locals,
     Go, TypeInv, TypeGs, Replacing
<1>5. ASSUME NEW h \in Gs, Replace(h)
      PROVE  a = b
  BY <1>5, <1>u DEF Replace, Load, Disconnect, Prune, Dial, SetClient, Ended, Over, envVars,
     mgrVars, locals, Go, TypeInv, TypeGs, Replacing
<1>6. ASSUME NEW h \in Gs, Refresh(h)
      PROVE  a = b
  BY <1>6, <1>u DEF Refresh, Pick, List, Install, Regist, Signed, Ended, Over, Intrude, envVars,
     mgrVars, locals, Go, TypeInv, TypeGs, Replacing
<1>7. ASSUME NEW h \in Gs, ReplaceAll(h)
      PROVE  a = b
  BY <1>7, <1>u DEF ReplaceAll, Wipe, PruneAll, LoadAll, DialAll, ListAll, Over, Intrude,
     envVars, mgrVars, locals, Go, TypeInv, TypeGs, Replacing
<1>8. CASE UNCHANGED vars
  BY <1>8, <1>u DEF vars, envVars, mgrVars, locals, TypeInv, TypeGs, Replacing
<1> QED
  BY <1>1, <1>2, <1>3, <1>4, <1>5, <1>6, <1>7, <1>8 DEF Next, Step

LEMMA AwayStep ==
    ASSUME TypeInv, OneReplacer, AwayInv, RegistInv, [Next]_vars
    PROVE  AwayInv'
<1> SUFFICES ASSUME ~crossed', NEW a \in Gs, pc'[a] \in Away
             PROVE  client' = None /\ sum' = None
  BY DEF AwayInv
<1>u. /\ \A g, h \in Gs : pc[g] \in Replacing /\ pc[h] \in Replacing => g = h
      /\ \A g \in Gs : pc[g] \in Away => client = None /\ sum = None
      /\ \A g \in Gs : pc[g] = "regist" => client # None /\ lock = g
  BY Uncrossed DEF OneReplacer, Replacers, AwayInv, RegistInv, TypeInv, LockInv
<1>1. CASE ServerChanges \/ ServerLosesSession
  BY <1>1, <1>u, McpAssumption DEF ServerChanges, ServerLosesSession, mgrVars, locals, TypeInv,
     TypeMgr, TypeGs, LockInv, Replacing, Away
<1>2. CASE Poll \/ Listed
  BY <1>2, <1>u, McpAssumption DEF Poll, Listed, Lookup, Over, envVars, mgrVars, locals, Go,
     TypeInv, TypeMgr, TypeGs, LockInv, Replacing, Away
<1>3. ASSUME NEW h \in Gs, Call(h) \/ Notified(h) \/ ReconnectServer(h) \/ Reconnect(h) \/ Remove(h)
      PROVE  client' = None /\ sum' = None
  BY <1>3, <1>u, McpAssumption DEF Call, Notified, ReconnectServer, Reconnect, Remove, Lookup,
     Ask, Cross, envVars, mgrVars, locals, Go, TypeInv, TypeMgr, TypeGs, LockInv, Replacing,
     Away
<1>4. ASSUME NEW h \in Gs, CallReturns(h) \/ RenewClient(h)
      PROVE  client' = None /\ sum' = None
  BY <1>4, <1>u, McpAssumption DEF CallReturns, RenewClient, Over, Cross, envVars, mgrVars,
     locals, Go, TypeInv, TypeMgr, TypeGs, LockInv, Replacing, Away
<1>5. ASSUME NEW h \in Gs, Replace(h)
      PROVE  client' = None /\ sum' = None
  BY <1>5, <1>u, McpAssumption DEF Replace, Load, Disconnect, Prune, Dial, SetClient, Ended,
     Over, envVars, mgrVars, locals, Go, TypeInv, TypeMgr, TypeGs, LockInv, Replacing, Away
<1>6. ASSUME NEW h \in Gs, Refresh(h)
      PROVE  client' = None /\ sum' = None
  BY <1>6, <1>u, McpAssumption DEF Refresh, Pick, List, Install, Regist, Signed, Ended, Over,
     Intrude, envVars, mgrVars, locals, Go, TypeInv, TypeMgr, TypeGs, LockInv, Replacing, Away
<1>7. ASSUME NEW h \in Gs, ReplaceAll(h)
      PROVE  client' = None /\ sum' = None
  BY <1>7, <1>u, McpAssumption DEF ReplaceAll, Wipe, PruneAll, LoadAll, DialAll, ListAll, Over,
     Intrude, envVars, mgrVars, locals, Go, TypeInv, TypeMgr, TypeGs, LockInv, Replacing, Away
<1>8. CASE UNCHANGED vars
  BY <1>8, <1>u, McpAssumption DEF vars, envVars, mgrVars, locals, TypeInv, TypeMgr, TypeGs,
     LockInv, Replacing, Away
<1> QED
  BY <1>1, <1>2, <1>3, <1>4, <1>5, <1>6, <1>7, <1>8 DEF Next, Step

\* Between operations, and before any list is registered, the registry is empty.
LEMMA WipedBefore ==
    ASSUME TypeInv, ToolsInv, ~crossed, client # None, sum = None,
           \A g \in Gs : pc[g] # "regist"
    PROVE  Registered = {}
<1>1. ~Changing  BY DEF Changing, ToolsInv, AwayInv, Away
<1> QED  BY <1>1 DEF ToolsInv, RegistryMatches

LEMMA RegistStep ==
    ASSUME TypeInv, ToolsInv, [Next]_vars
    PROVE  RegistInv'
<1> SUFFICES ASSUME NEW a \in Gs, pc'[a] = "regist"
             PROVE  /\ client' # None /\ todo'[a] \subseteq got'[a]
                    /\ ~crossed' => Registered' = got'[a] \ todo'[a]
  BY DEF RegistInv
<1>u. ~crossed' => \A g \in Gs : pc[g] \in Away => client = None /\ sum = None
  BY Uncrossed DEF ToolsInv, AwayInv
<1>v. \A g \in Gs : pc[g] = "regist" =>
         /\ client # None /\ todo[g] \subseteq got[g] /\ lock = g
         /\ ~crossed' => Registered = got[g] \ todo[g]
  BY Uncrossed DEF ToolsInv, RegistInv, TypeInv, LockInv
<1>1. CASE ServerChanges \/ ServerLosesSession
  BY <1>1, <1>u, <1>v, McpAssumption DEF ServerChanges, ServerLosesSession, mgrVars, locals,
     TypeInv, TypeMgr, TypeGs, LockInv, GotInv, Away, Registered
<1>2. CASE Poll \/ Listed
  BY <1>2, <1>u, <1>v, McpAssumption DEF Poll, Listed, Lookup, Over, envVars, mgrVars, locals,
     Go, TypeInv, TypeMgr, TypeGs, LockInv, GotInv, Away, Registered
<1>3. ASSUME NEW h \in Gs, Call(h) \/ Notified(h) \/ ReconnectServer(h) \/ Reconnect(h) \/ Remove(h)
      PROVE  /\ client' # None /\ todo'[a] \subseteq got'[a]
             /\ ~crossed' => Registered' = got'[a] \ todo'[a]
  BY <1>3, <1>u, <1>v, McpAssumption DEF Call, Notified, ReconnectServer, Reconnect, Remove,
     Lookup, Ask, Cross, envVars, mgrVars, locals, Go, TypeInv, TypeMgr, TypeGs, LockInv,
     GotInv, Away, Registered
<1>4. ASSUME NEW h \in Gs, CallReturns(h) \/ RenewClient(h)
      PROVE  /\ client' # None /\ todo'[a] \subseteq got'[a]
             /\ ~crossed' => Registered' = got'[a] \ todo'[a]
  BY <1>4, <1>u, <1>v, McpAssumption DEF CallReturns, RenewClient, Over, Cross, envVars,
     mgrVars, locals, Go, TypeInv, TypeMgr, TypeGs, LockInv, GotInv, Away, Registered
<1>5. ASSUME NEW h \in Gs, Replace(h)
      PROVE  /\ client' # None /\ todo'[a] \subseteq got'[a]
             /\ ~crossed' => Registered' = got'[a] \ todo'[a]
  BY <1>5, <1>u, <1>v, McpAssumption DEF Replace, Load, Disconnect, Prune, Dial, SetClient,
     Ended, Over, envVars, mgrVars, locals, Go, TypeInv, TypeMgr, TypeGs, LockInv, GotInv, Away,
     Registered
<1>6. ASSUME NEW h \in Gs, Refresh(h)
      PROVE  /\ client' # None /\ todo'[a] \subseteq got'[a]
             /\ ~crossed' => Registered' = got'[a] \ todo'[a]
  <2>1. CASE Regist(h)
    <3>1. h = a /\ pc[a] = "regist"
      BY <1>v, <2>1, McpAssumption DEF Regist, TypeInv, LockInv, TypeMgr
    <3>2. PICK x \in todo[a] : /\ defs' = [defs EXCEPT ![x] = @ + 1]
                               /\ todo' = [todo EXCEPT ![a] = @ \ {x}]
      BY <2>1, <3>1 DEF Regist
    <3>3. x \in Tools /\ defs \in [Tools -> Nat] /\ client' = client /\ got' = got
          /\ todo'[a] = todo[a] \ {x}
      BY <2>1, <3>2 DEF Regist, mgrVars, TypeInv, TypeMgr, TypeGs
    <3>4. Registered' = Registered \cup {x}  BY <3>2, <3>3 DEF Registered
    <3> QED  BY <1>v, <3>1, <3>2, <3>3, <3>4
  <2>2. CASE Install(h)
    <3>1. CASE a = h
      <4>1. client = held[h] /\ held[h] # None /\ client' = client
        BY <2>2, <3>1 DEF Install, Ended, Over, Go, TypeInv, TypeGs, GotInv
      <4>2. got' = got /\ todo'[a] = got[a] /\ defs' = NoTools
        BY <2>2, <3>1 DEF Install, Ended, Over, Go, TypeInv, TypeGs
      <4>3. Registered' = {}  BY <4>2 DEF Registered, NoTools
      <4> QED  BY <4>1, <4>2, <4>3
    <3>2. CASE a # h
      <4>1. pc[a] = "regist" /\ lock = None
        BY <2>2, <3>2 DEF Install, Ended, Over, Go, TypeInv, TypeGs
      <4> QED  BY <1>v, <4>1, McpAssumption
    <3> QED  BY <3>1, <3>2
  <2>3. CASE Pick(h) \/ List(h) \/ Signed(h)
    BY <1>6, <1>u, <1>v, <2>3, McpAssumption DEF Pick, List, Signed, Ended, Over,
       envVars, mgrVars, locals, Go, TypeInv, TypeMgr, TypeGs, LockInv, Registered
  <2> QED  BY <1>6, <2>1, <2>2, <2>3 DEF Refresh
<1>7. ASSUME NEW h \in Gs, ReplaceAll(h)
      PROVE  /\ client' # None /\ todo'[a] \subseteq got'[a]
             /\ ~crossed' => Registered' = got'[a] \ todo'[a]
  <2>1. CASE ListAll(h)
    <3>1. CASE a = h
      <4>1. /\ client # None /\ client' = client /\ defs' = defs /\ lock = None
            /\ todo'[a] = catalog /\ got'[a] = catalog /\ pc[a] = "listAll"
        BY <2>1, <3>1 DEF ListAll, Over, Go, TypeInv, TypeGs
      <4>2. \A g \in Gs : pc[g] # "regist"  BY <1>v, <4>1, McpAssumption
      <4>3. ~crossed' => sum = None  BY <4>1, Uncrossed DEF ToolsInv, ListAllInv
      <4>4. ~crossed' => Registered = {}  BY <4>1, <4>2, <4>3, Uncrossed, WipedBefore
      <4>5. Registered' = Registered  BY <4>1 DEF Registered
      <4> QED  BY <4>1, <4>4, <4>5
    <3>2. CASE a # h
      <4>1. pc[a] = "regist" /\ lock = None
        BY <2>1, <3>2 DEF ListAll, Over, Go, TypeInv, TypeGs
      <4> QED  BY <1>v, <4>1, McpAssumption
    <3> QED  BY <3>1, <3>2
  <2>2. CASE PruneAll(h)
    <3>1. pc[a] = "regist" /\ pc[h] = "pruneAll" /\ h \in Gs /\ UNCHANGED <<client, todo, got>>
      BY <1>7, <2>2 DEF PruneAll, Go, mgrVars, locals, TypeInv, TypeGs
    <3> QED  BY <1>u, <1>v, <3>1 DEF Away
  <2>3. CASE Wipe(h) \/ LoadAll(h) \/ DialAll(h)
    BY <1>7, <1>u, <1>v, <2>3, McpAssumption DEF Wipe, LoadAll, DialAll, envVars, mgrVars, locals,
       Go, TypeInv, TypeMgr, TypeGs, LockInv, Registered
  <2> QED  BY <1>7, <2>1, <2>2, <2>3 DEF ReplaceAll
<1>8. CASE UNCHANGED vars
  BY <1>8, <1>u, <1>v, McpAssumption DEF vars, envVars, mgrVars, locals, TypeInv, TypeMgr,
     TypeGs, LockInv, GotInv, Away, Registered
<1> QED
  BY <1>1, <1>2, <1>3, <1>4, <1>5, <1>6, <1>7, <1>8 DEF Next, Step

LEMMA ListAllStep ==
    ASSUME TypeInv, ToolsInv, [Next]_vars
    PROVE  ListAllInv'
<1> SUFFICES ASSUME ~crossed', NEW a \in Gs, pc'[a] = "listAll"
             PROVE  /\ a \in Users /\ sum' = None
                    /\ \A g \in Gs : pc'[g] # "regist"
  BY DEF ListAllInv
<1>u. /\ \A g \in Gs : pc[g] \in Away => client = None /\ sum = None
      /\ \A g \in Gs : pc[g] = "listAll" =>
            g \in Users /\ sum = None /\ \A k \in Gs : pc[k] # "regist"
  BY Uncrossed DEF ToolsInv, AwayInv, ListAllInv
<1>1. CASE ServerChanges \/ ServerLosesSession
  BY <1>1, <1>u, McpAssumption DEF ServerChanges, ServerLosesSession, mgrVars, locals, TypeInv,
     TypeMgr, TypeGs, LockInv, Away, UserInv
<1>2. CASE Poll \/ Listed
  BY <1>2, <1>u, McpAssumption DEF Poll, Listed, Lookup, Over, envVars, mgrVars, locals, Go,
     TypeInv, TypeMgr, TypeGs, LockInv, Away, UserInv
<1>3. ASSUME NEW h \in Gs, Call(h) \/ Notified(h) \/ ReconnectServer(h) \/ Reconnect(h) \/ Remove(h)
      PROVE  /\ a \in Users /\ sum' = None
             /\ \A g \in Gs : pc'[g] # "regist"
  BY <1>3, <1>u, McpAssumption DEF Call, Notified, ReconnectServer, Reconnect, Remove, Lookup,
     Ask, Cross, envVars, mgrVars, locals, Go, TypeInv, TypeMgr, TypeGs, LockInv, Away, UserInv
<1>4. ASSUME NEW h \in Gs, CallReturns(h) \/ RenewClient(h)
      PROVE  /\ a \in Users /\ sum' = None
             /\ \A g \in Gs : pc'[g] # "regist"
  BY <1>4, <1>u, McpAssumption DEF CallReturns, RenewClient, Over, Cross, envVars, mgrVars,
     locals, Go, TypeInv, TypeMgr, TypeGs, LockInv, Away, UserInv
<1>5. ASSUME NEW h \in Gs, Replace(h)
      PROVE  /\ a \in Users /\ sum' = None
             /\ \A g \in Gs : pc'[g] # "regist"
  BY <1>5, <1>u, McpAssumption DEF Replace, Load, Disconnect, Prune, Dial, SetClient, Ended,
     Over, envVars, mgrVars, locals, Go, TypeInv, TypeMgr, TypeGs, LockInv, Away, UserInv
<1>6. ASSUME NEW h \in Gs, Refresh(h)
      PROVE  /\ a \in Users /\ sum' = None
             /\ \A g \in Gs : pc'[g] # "regist"
  BY <1>6, <1>u, McpAssumption DEF Refresh, Pick, List, Install, Regist, Signed, Ended, Over,
     Intrude, envVars, mgrVars, locals, Go, TypeInv, TypeMgr, TypeGs, LockInv, Away, UserInv
<1>7. ASSUME NEW h \in Gs, ReplaceAll(h)
      PROVE  /\ a \in Users /\ sum' = None
             /\ \A g \in Gs : pc'[g] # "regist"
  BY <1>7, <1>u, McpAssumption DEF ReplaceAll, Wipe, PruneAll, LoadAll, DialAll, ListAll, Over,
     Intrude, envVars, mgrVars, locals, Go, TypeInv, TypeMgr, TypeGs, LockInv, Away, UserInv
<1>8. CASE UNCHANGED vars
  BY <1>8, <1>u, McpAssumption DEF vars, envVars, mgrVars, locals, TypeInv, TypeMgr, TypeGs,
     LockInv, Away, UserInv
<1> QED
  BY <1>1, <1>2, <1>3, <1>4, <1>5, <1>6, <1>7, <1>8 DEF Next, Step

LEMMA MatchStep ==
    ASSUME TypeInv, ToolsInv, [Next]_vars
    PROVE  RegistryMatches'
<1> SUFFICES ASSUME ~crossed', \A g \in Gs : pc'[g] \notin {"prune", "pruneAll", "regist"}
             PROVE  Registered' = IF client' # None /\ sum' # None THEN sum' ELSE {}
  BY DEF RegistryMatches, Changing
<1>u. /\ \A g \in Gs : pc[g] \in Away => client = None /\ sum = None
      /\ \A g \in Gs : pc[g] = "regist" =>
            client # None /\ lock = g /\ Registered = got[g] \ todo[g]
  BY Uncrossed DEF ToolsInv, AwayInv, RegistInv, TypeInv, LockInv
<1>v. (\A g \in Gs : pc[g] \notin {"prune", "pruneAll", "regist"}) =>
         Registered = IF client # None /\ sum # None THEN sum ELSE {}
  BY Uncrossed DEF ToolsInv, RegistryMatches, Changing
<1>1. CASE ServerChanges \/ ServerLosesSession
  BY <1>1, <1>u, <1>v, McpAssumption DEF ServerChanges, ServerLosesSession, mgrVars, locals,
     TypeInv, TypeMgr, TypeGs, Away, Registered, NoTools
<1>2. CASE Poll \/ Listed
  BY <1>2, <1>u, <1>v, McpAssumption DEF Poll, Listed, Lookup, Over, envVars, mgrVars, locals,
     Go, TypeInv, TypeMgr, TypeGs, Away, Registered, NoTools
<1>3. ASSUME NEW h \in Gs, Call(h) \/ Notified(h) \/ ReconnectServer(h) \/ Reconnect(h) \/ Remove(h)
      PROVE  Registered' = IF client' # None /\ sum' # None THEN sum' ELSE {}
  BY <1>3, <1>u, <1>v, McpAssumption DEF Call, Notified, ReconnectServer, Reconnect, Remove,
     Lookup, Ask, Cross, envVars, mgrVars, locals, Go, TypeInv, TypeMgr, TypeGs, Away,
     Registered, NoTools
<1>4. ASSUME NEW h \in Gs, CallReturns(h) \/ RenewClient(h)
      PROVE  Registered' = IF client' # None /\ sum' # None THEN sum' ELSE {}
  BY <1>4, <1>u, <1>v, McpAssumption DEF CallReturns, RenewClient, Over, Cross, envVars,
     mgrVars, locals, Go, TypeInv, TypeMgr, TypeGs, Away, Registered, NoTools
<1>5. ASSUME NEW h \in Gs, Replace(h)
      PROVE  Registered' = IF client' # None /\ sum' # None THEN sum' ELSE {}
  BY <1>5, <1>u, <1>v, McpAssumption DEF Replace, Load, Disconnect, Prune, Dial, SetClient,
     Ended, Over, envVars, mgrVars, locals, Go, TypeInv, TypeMgr, TypeGs, Away, Registered,
     NoTools
<1>6. ASSUME NEW h \in Gs, Refresh(h)
      PROVE  Registered' = IF client' # None /\ sum' # None THEN sum' ELSE {}
  <2>1. CASE Regist(h)
    BY <1>v, <2>1 DEF Regist
  <2>2. CASE Install(h) /\ client = held[h]
    <3>1. pc'[h] = "regist"  BY <2>2 DEF Install, Go, TypeInv, TypeGs
    <3> QED  BY <3>1
  <2>3. CASE Signed(h)
    <3>1. pc[h] = "regist" /\ todo[h] = {} /\ sum' = got[h] /\ UNCHANGED <<client, defs>>
      BY <2>3 DEF Signed
    <3>2. got[h] \in Catalogs  BY <3>1 DEF TypeInv, GotInv
    <3>3. Registered' = Registered  BY <3>1 DEF Registered
    <3> QED  BY <1>u, <3>1, <3>2, <3>3, McpAssumption
  <2>4. CASE Pick(h) \/ List(h) \/ (Install(h) /\ client # held[h])
    BY <1>6, <1>v, <2>4 DEF Pick, List, Install, Ended, Over, envVars, mgrVars, locals, Go,
       TypeInv, TypeGs, Registered
  <2> QED  BY <1>6, <2>1, <2>2, <2>3, <2>4 DEF Refresh
<1>7. ASSUME NEW h \in Gs, ReplaceAll(h)
      PROVE  Registered' = IF client' # None /\ sum' # None THEN sum' ELSE {}
  BY <1>7, <1>u, <1>v, McpAssumption DEF ReplaceAll, Wipe, PruneAll, LoadAll, DialAll, ListAll,
     Over, Intrude, envVars, mgrVars, locals, Go, TypeInv, TypeMgr, TypeGs, Away, Registered,
     NoTools
<1>8. CASE UNCHANGED vars
  BY <1>8, <1>u, <1>v, McpAssumption DEF vars, envVars, mgrVars, locals, TypeInv, TypeMgr,
     TypeGs, Away, Registered, NoTools
<1> QED
  BY <1>1, <1>2, <1>3, <1>4, <1>5, <1>6, <1>7, <1>8 DEF Next, Step

LEMMA ToolsStep == TypeInv /\ ToolsInv /\ [Next]_vars => ToolsInv'
BY ReplacerStep, AwayStep, RegistStep, ListAllStep, MatchStep DEF ToolsInv

LEMMA ToolsInvariant == Spec => [](TypeInv /\ ToolsInv)
BY TypeInit, TypeStep, ToolsInit, ToolsStep, PTL DEF Spec

\* The registry and the manager's client and signature agree whenever nobody is between
\* a RemoveByPrefix and its Regists, however calls, polls, notifications and users
\* interleave (mcp.go:293, 339).
THEOREM RegistryAgrees == Spec => []RegistryMatches
<1>1. ToolsInv => RegistryMatches  BY DEF ToolsInv
<1> QED  BY <1>1, ToolsInvariant, PTL

-----------------------------------------------------------------------------
(* The sessions.                                                            *)

LEMMA SessionsInit == Init => NoneForgotten
BY DEF Init, NoneForgotten

LEMMA SessionsStep ==
    ASSUME TypeInv, ToolsInv, NoneForgotten, [Next]_vars
    PROVE  NoneForgotten'
<1> SUFFICES ASSUME ~crossed', NEW c \in Clients, sess'[c] # "closed"
             PROVE  c = client' \/ \E g \in Gs : pc'[g] = "set" /\ held'[g] = c
  BY DEF NoneForgotten
<1>u. /\ \A g, h \in Gs : pc[g] = "set" /\ pc[h] \in Replacing => g = h
      /\ \A g \in Gs : pc[g] \in Away => client = None
      /\ \A d \in Clients : sess[d] # "closed" =>
            d = client \/ \E g \in Gs : pc[g] = "set" /\ held[g] = d
  BY Uncrossed DEF ToolsInv, AwayInv, OneReplacer, Replacers, NoneForgotten, Replacing
<1>1. CASE ServerChanges \/ ServerLosesSession
  BY <1>1, <1>u, McpAssumption DEF ServerChanges, ServerLosesSession, mgrVars, locals, TypeInv,
     TypeMgr, TypeGs, Away, Replacing
<1>2. CASE Poll \/ Listed
  BY <1>2, <1>u, McpAssumption DEF Poll, Listed, Lookup, Over, envVars, mgrVars, locals, Go,
     TypeInv, TypeMgr, TypeGs, Away, Replacing
<1>3. ASSUME NEW h \in Gs, Call(h) \/ Notified(h) \/ ReconnectServer(h) \/ Reconnect(h) \/ Remove(h)
      PROVE  c = client' \/ \E g \in Gs : pc'[g] = "set" /\ held'[g] = c
  BY <1>3, <1>u, McpAssumption DEF Call, Notified, ReconnectServer, Reconnect, Remove, Lookup,
     Ask, Cross, envVars, mgrVars, locals, Go, TypeInv, TypeMgr, TypeGs, Away, Replacing
<1>4. ASSUME NEW h \in Gs, CallReturns(h) \/ RenewClient(h)
      PROVE  c = client' \/ \E g \in Gs : pc'[g] = "set" /\ held'[g] = c
  BY <1>4, <1>u, McpAssumption DEF CallReturns, RenewClient, Over, Cross, envVars, mgrVars,
     locals, Go, TypeInv, TypeMgr, TypeGs, Away, Replacing
<1>5. ASSUME NEW h \in Gs, Replace(h)
      PROVE  c = client' \/ \E g \in Gs : pc'[g] = "set" /\ held'[g] = c
  BY <1>5, <1>u, McpAssumption, NewClientFresh DEF Replace, Load, Disconnect, Prune, Dial,
     SetClient, Ended, Over, envVars, mgrVars, locals, Go, TypeInv, TypeMgr, TypeGs, Away,
     Replacing, Closed, Fresh
<1>6. ASSUME NEW h \in Gs, Refresh(h)
      PROVE  c = client' \/ \E g \in Gs : pc'[g] = "set" /\ held'[g] = c
  BY <1>6, <1>u, McpAssumption DEF Refresh, Pick, List, Install, Regist, Signed, Ended, Over,
     Intrude, envVars, mgrVars, locals, Go, TypeInv, TypeMgr, TypeGs, Away, Replacing
<1>7. ASSUME NEW h \in Gs, ReplaceAll(h)
      PROVE  c = client' \/ \E g \in Gs : pc'[g] = "set" /\ held'[g] = c
  BY <1>7, <1>u, McpAssumption, NewClientFresh DEF ReplaceAll, Wipe, PruneAll, LoadAll, DialAll,
     ListAll, Over, Intrude, envVars, mgrVars, locals, Go, TypeInv, TypeMgr, TypeGs, Away,
     Replacing, Closed, Fresh
<1>8. CASE UNCHANGED vars
  BY <1>8, <1>u, McpAssumption DEF vars, envVars, mgrVars, locals, TypeInv, TypeMgr, TypeGs,
     Away, Replacing
<1> QED
  BY <1>1, <1>2, <1>3, <1>4, <1>5, <1>6, <1>7, <1>8 DEF Next, Step

\* No client is replaced without its session being closed.
THEOREM NoSessionForgotten == Spec => []NoneForgotten
<1>1. TypeInv /\ ToolsInv /\ NoneForgotten /\ [Next]_vars => NoneForgotten'
  BY SessionsStep
<1> QED  BY <1>1, SessionsInit, ToolsInvariant, PTL DEF Spec

-----------------------------------------------------------------------------
(* A server that has been removed.                                          *)

\* The user who removes it does nothing else, after the configuration is saved.
AskedInv == \A g \in Users :
    asked[g] = "remove" => ~configured /\ pc[g] \in {"drop", "prune", "done"}

\* Nobody who looked at the configuration earlier is still on the way to connect.
GoneInv == ~crossed /\ ~configured => \A g \in Gs :
    /\ pc[g] \notin {"dial", "set", "dialAll"}
    /\ pc[g] \in {"drop", "prune"} => Removes(g)
    /\ Removes(g) /\ pc[g] = "done" => client = None

RemovalInv == AskedInv /\ GoneInv

LEMMA RemovalInit == Init => RemovalInv
BY DEF Init, RemovalInv, AskedInv, GoneInv, Removes

LEMMA AskedStep ==
    ASSUME TypeInv, AskedInv, [Next]_vars
    PROVE  AskedInv'
<1> SUFFICES ASSUME NEW a \in Users, asked'[a] = "remove"
             PROVE  ~configured' /\ pc'[a] \in {"drop", "prune", "done"}
  BY DEF AskedInv
<1>u. a \in Gs /\ (asked[a] = "remove" => ~configured /\ pc[a] \in {"drop", "prune", "done"})
  BY DEF AskedInv, Gs
<1>1. CASE ServerChanges \/ ServerLosesSession
  BY <1>1, <1>u DEF ServerChanges, ServerLosesSession, mgrVars, locals, TypeInv, TypeGs, Removes
<1>2. CASE Poll \/ Listed
  BY <1>2, <1>u DEF Poll, Listed, Lookup, Over, envVars, mgrVars, locals, Go, TypeInv, TypeGs,
     Removes
<1>3. ASSUME NEW h \in Gs, Call(h) \/ Notified(h) \/ ReconnectServer(h) \/ Reconnect(h) \/ Remove(h)
      PROVE  ~configured' /\ pc'[a] \in {"drop", "prune", "done"}
  BY <1>3, <1>u DEF Call, Notified, ReconnectServer, Reconnect, Remove, Lookup, Ask, Cross,
     envVars, mgrVars, locals, Go, TypeInv, TypeGs, Removes
<1>4. ASSUME NEW h \in Gs, CallReturns(h) \/ RenewClient(h)
      PROVE  ~configured' /\ pc'[a] \in {"drop", "prune", "done"}
  BY <1>4, <1>u DEF CallReturns, RenewClient, Over, Cross, envVars, mgrVars, locals, Go,
     TypeInv, TypeGs, Removes
<1>5. ASSUME NEW h \in Gs, Replace(h)
      PROVE  ~configured' /\ pc'[a] \in {"drop", "prune", "done"}
  BY <1>5, <1>u DEF Replace, Load, Disconnect, Prune, Dial, SetClient, Ended, Over, envVars,
     mgrVars, locals, Go, TypeInv, TypeGs, Removes
<1>6. ASSUME NEW h \in Gs, Refresh(h)
      PROVE  ~configured' /\ pc'[a] \in {"drop", "prune", "done"}
  BY <1>6, <1>u DEF Refresh, Pick, List, Install, Regist, Signed, Ended, Over, Intrude, envVars,
     mgrVars, locals, Go, TypeInv, TypeGs, Removes
<1>7. ASSUME NEW h \in Gs, ReplaceAll(h)
      PROVE  ~configured' /\ pc'[a] \in {"drop", "prune", "done"}
  BY <1>7, <1>u DEF ReplaceAll, Wipe, PruneAll, LoadAll, DialAll, ListAll, Over, Intrude,
     envVars, mgrVars, locals, Go, TypeInv, TypeGs, Removes
<1>8. CASE UNCHANGED vars
  BY <1>8, <1>u DEF vars, envVars, mgrVars, locals, TypeInv, TypeGs, Removes
<1> QED
  BY <1>1, <1>2, <1>3, <1>4, <1>5, <1>6, <1>7, <1>8 DEF Next, Step

LEMMA GoneStep ==
    ASSUME TypeInv, ToolsInv, RemovalInv, [Next]_vars
    PROVE  GoneInv'
<1> SUFFICES ASSUME ~crossed', ~configured', NEW a \in Gs
             PROVE  /\ pc'[a] \notin {"dial", "set", "dialAll"}
                    /\ pc'[a] \in {"drop", "prune"} => Removes(a)'
                    /\ Removes(a)' /\ pc'[a] = "done" => client' = None
  BY DEF GoneInv
<1>u. /\ \A g, h \in Gs : pc[g] \in Replacing /\ pc[h] \in Replacing => g = h
      /\ \A g \in Gs : pc[g] \in Away => client = None
      /\ \A g \in Users : asked[g] = "remove" => ~configured /\ pc[g] \in {"drop", "prune", "done"}
  BY Uncrossed DEF ToolsInv, OneReplacer, Replacers, AwayInv, RemovalInv, AskedInv
<1>v. ~configured => \A g \in Gs :
         /\ pc[g] \notin {"dial", "set", "dialAll"}
         /\ pc[g] \in {"drop", "prune"} => Removes(g)
         /\ Removes(g) /\ pc[g] = "done" => client = None
  BY Uncrossed DEF RemovalInv, GoneInv
<1>1. CASE ServerChanges \/ ServerLosesSession
  BY <1>1, <1>u, <1>v, McpAssumption DEF ServerChanges, ServerLosesSession, mgrVars, locals,
     TypeInv, TypeMgr, TypeGs, Away, Replacing, Removes
<1>2. CASE Poll \/ Listed
  BY <1>2, <1>u, <1>v, McpAssumption DEF Poll, Listed, Lookup, Over, envVars, mgrVars, locals,
     Go, TypeInv, TypeMgr, TypeGs, Away, Replacing, Removes
<1>3. ASSUME NEW h \in Gs, Call(h) \/ Notified(h) \/ ReconnectServer(h) \/ Reconnect(h) \/ Remove(h)
      PROVE  /\ pc'[a] \notin {"dial", "set", "dialAll"}
             /\ pc'[a] \in {"drop", "prune"} => Removes(a)'
             /\ Removes(a)' /\ pc'[a] = "done" => client' = None
  BY <1>3, <1>u, <1>v, McpAssumption, CrossApart DEF Call, Notified, ReconnectServer, Reconnect,
     Remove, Lookup, Ask, Cross, envVars, mgrVars, locals, Go, TypeInv, TypeMgr, TypeGs, Away,
     Replacing, Removes
<1>4. ASSUME NEW h \in Gs, CallReturns(h) \/ RenewClient(h)
      PROVE  /\ pc'[a] \notin {"dial", "set", "dialAll"}
             /\ pc'[a] \in {"drop", "prune"} => Removes(a)'
             /\ Removes(a)' /\ pc'[a] = "done" => client' = None
  BY <1>4, <1>u, <1>v, McpAssumption DEF CallReturns, RenewClient, Over, Cross, envVars,
     mgrVars, locals, Go, TypeInv, TypeMgr, TypeGs, Away, Replacing, Removes
<1>5. ASSUME NEW h \in Gs, Replace(h)
      PROVE  /\ pc'[a] \notin {"dial", "set", "dialAll"}
             /\ pc'[a] \in {"drop", "prune"} => Removes(a)'
             /\ Removes(a)' /\ pc'[a] = "done" => client' = None
  BY <1>5, <1>u, <1>v, McpAssumption DEF Replace, Load, Disconnect, Prune, Dial, SetClient,
     Ended, Over, envVars, mgrVars, locals, Go, TypeInv, TypeMgr, TypeGs, Away, Replacing,
     Removes
<1>6. ASSUME NEW h \in Gs, Refresh(h)
      PROVE  /\ pc'[a] \notin {"dial", "set", "dialAll"}
             /\ pc'[a] \in {"drop", "prune"} => Removes(a)'
             /\ Removes(a)' /\ pc'[a] = "done" => client' = None
  BY <1>6, <1>u, <1>v, McpAssumption DEF Refresh, Pick, List, Install, Regist, Signed, Ended,
     Over, Intrude, envVars, mgrVars, locals, Go, TypeInv, TypeMgr, TypeGs, Away, Replacing,
     Removes
<1>7. ASSUME NEW h \in Gs, ReplaceAll(h)
      PROVE  /\ pc'[a] \notin {"dial", "set", "dialAll"}
             /\ pc'[a] \in {"drop", "prune"} => Removes(a)'
             /\ Removes(a)' /\ pc'[a] = "done" => client' = None
  BY <1>7, <1>u, <1>v, McpAssumption DEF ReplaceAll, Wipe, PruneAll, LoadAll, DialAll, ListAll,
     Over, Intrude, envVars, mgrVars, locals, Go, TypeInv, TypeMgr, TypeGs, Away, Replacing,
     Removes
<1>8. CASE UNCHANGED vars
  BY <1>8, <1>u, <1>v, McpAssumption DEF vars, envVars, mgrVars, locals, TypeInv, TypeMgr,
     TypeGs, Away, Replacing, Removes
<1> QED
  BY <1>1, <1>2, <1>3, <1>4, <1>5, <1>6, <1>7, <1>8 DEF Next, Step

LEMMA RemovalInvariant == Spec => [](TypeInv /\ ToolsInv /\ RemovalInv)
<1>1. TypeInv /\ ToolsInv /\ RemovalInv /\ [Next]_vars => RemovalInv'
  BY AskedStep, GoneStep DEF RemovalInv
<1> QED  BY <1>1, RemovalInit, ToolsInvariant, PTL DEF Spec

\* Once the removal of a server has run, no poll, call, notification or reconnection that
\* was under way brings its client or its tools back (mcp.go:167 looks the configuration
\* up again).
THEOREM RemovalLasts == Spec => []RemovedStaysGone
<1>1. ToolsInv /\ RemovalInv => RemovedStaysGone
  <2> SUFFICES ASSUME ToolsInv, RemovalInv, ~crossed,
                      NEW g \in Gs, Removes(g), pc[g] = "done"
               PROVE  client = None /\ (~Changing => Registered = {})
    BY DEF RemovedStaysGone
  <2>1. ~configured  BY DEF RemovalInv, AskedInv, Removes
  <2>2. client = None  BY <2>1 DEF RemovalInv, GoneInv
  <2>3. ~Changing => Registered = {}  BY <2>2 DEF ToolsInv, RegistryMatches
  <2> QED  BY <2>2, <2>3
<1> QED  BY <1>1, RemovalInvariant, PTL

-----------------------------------------------------------------------------
(* Renewal.                                                                 *)

\* While a renewal is under way, the client is the one it failed on.
RenewInv == ~crossed => \A g \in Gs :
    renewing = g /\ pc[g] \in {"load", "drop"} => client \in {None, held[g]}

\* reconnectMu is held from the start of a renewal to its end.
RenewingInv == \A g \in Gs : renewing = g =>
    /\ pc[g] \in {"load", "drop", "prune", "dial", "set", "pick", "list", "install", "regist"}
    /\ ~Removes(g)

LEMMA RenewInit == Init => RenewInv /\ RenewingInv
BY McpAssumption DEF Init, RenewInv, RenewingInv

LEMMA RenewingStep ==
    ASSUME TypeInv, RemovalInv, RenewingInv, [Next]_vars
    PROVE  RenewingInv'
<1> SUFFICES ASSUME NEW a \in Gs, renewing' = a
             PROVE  /\ pc'[a] \in {"load", "drop", "prune", "dial", "set", "pick", "list",
                                 "install", "regist"}
                    /\ ~Removes(a)'
  BY DEF RenewingInv
<1>u. /\ \A g \in Gs : renewing = g =>
            /\ pc[g] \in {"load", "drop", "prune", "dial", "set", "pick", "list", "install",
                         "regist"}
            /\ ~Removes(g)
      /\ \A g \in Users : asked[g] = "remove" => pc[g] \in {"drop", "prune", "done"}
  BY DEF RenewingInv, RemovalInv, AskedInv
<1>1. CASE ServerChanges \/ ServerLosesSession
  BY <1>1, <1>u, McpAssumption DEF ServerChanges, ServerLosesSession, mgrVars, locals, TypeInv,
     TypeMgr, TypeGs, Removes
<1>2. CASE Poll \/ Listed
  BY <1>2, <1>u, McpAssumption DEF Poll, Listed, Lookup, Over, envVars, mgrVars, locals, Go,
     TypeInv, TypeMgr, TypeGs, Removes
<1>3. ASSUME NEW h \in Gs, Call(h) \/ Notified(h) \/ ReconnectServer(h) \/ Reconnect(h) \/ Remove(h)
      PROVE  /\ pc'[a] \in {"load", "drop", "prune", "dial", "set", "pick", "list",
                         "install", "regist"}
             /\ ~Removes(a)'
  BY <1>3, <1>u, McpAssumption DEF Call, Notified, ReconnectServer, Reconnect, Remove, Lookup,
     Ask, Cross, envVars, mgrVars, locals, Go, TypeInv, TypeMgr, TypeGs, Removes
<1>4. ASSUME NEW h \in Gs, CallReturns(h) \/ RenewClient(h)
      PROVE  /\ pc'[a] \in {"load", "drop", "prune", "dial", "set", "pick", "list",
                         "install", "regist"}
             /\ ~Removes(a)'
  BY <1>4, <1>u, McpAssumption DEF CallReturns, RenewClient, Over, Cross, envVars, mgrVars,
     locals, Go, TypeInv, TypeMgr, TypeGs, Removes
<1>5. ASSUME NEW h \in Gs, Replace(h)
      PROVE  /\ pc'[a] \in {"load", "drop", "prune", "dial", "set", "pick", "list",
                         "install", "regist"}
             /\ ~Removes(a)'
  BY <1>5, <1>u, McpAssumption DEF Replace, Load, Disconnect, Prune, Dial, SetClient, Ended,
     Over, envVars, mgrVars, locals, Go, TypeInv, TypeMgr, TypeGs, Removes
<1>6. ASSUME NEW h \in Gs, Refresh(h)
      PROVE  /\ pc'[a] \in {"load", "drop", "prune", "dial", "set", "pick", "list",
                         "install", "regist"}
             /\ ~Removes(a)'
  BY <1>6, <1>u, McpAssumption DEF Refresh, Pick, List, Install, Regist, Signed, Ended, Over,
     Intrude, envVars, mgrVars, locals, Go, TypeInv, TypeMgr, TypeGs, Removes
<1>7. ASSUME NEW h \in Gs, ReplaceAll(h)
      PROVE  /\ pc'[a] \in {"load", "drop", "prune", "dial", "set", "pick", "list",
                         "install", "regist"}
             /\ ~Removes(a)'
  BY <1>7, <1>u, McpAssumption DEF ReplaceAll, Wipe, PruneAll, LoadAll, DialAll, ListAll, Over,
     Intrude, envVars, mgrVars, locals, Go, TypeInv, TypeMgr, TypeGs, Removes
<1>8. CASE UNCHANGED vars
  BY <1>8, <1>u, McpAssumption DEF vars, envVars, mgrVars, locals, TypeInv, TypeMgr, TypeGs,
     Removes
<1> QED
  BY <1>1, <1>2, <1>3, <1>4, <1>5, <1>6, <1>7, <1>8 DEF Next, Step

LEMMA RenewStep ==
    ASSUME TypeInv, ToolsInv, RenewInv, RenewingInv, [Next]_vars
    PROVE  RenewInv'
<1> SUFFICES ASSUME ~crossed', NEW a \in Gs, renewing' = a, pc'[a] \in {"load", "drop"}
             PROVE  client' \in {None, held'[a]}
  BY DEF RenewInv
<1>u. /\ \A g, h \in Gs : pc[g] \in Replacing /\ pc[h] \in Replacing => g = h
      /\ \A g \in Gs : renewing = g /\ pc[g] \in {"load", "drop"} => client \in {None, held[g]}
      /\ \A g \in Gs : renewing = g => pc[g] \notin {"idle", "mutex"}
  BY Uncrossed DEF ToolsInv, OneReplacer, Replacers, RenewInv, RenewingInv
<1>1. CASE ServerChanges \/ ServerLosesSession
  BY <1>1, <1>u, McpAssumption DEF ServerChanges, ServerLosesSession, mgrVars, locals, TypeInv,
     TypeMgr, TypeGs, Replacing
<1>2. CASE Poll \/ Listed
  BY <1>2, <1>u, McpAssumption DEF Poll, Listed, Lookup, Over, envVars, mgrVars, locals, Go,
     TypeInv, TypeMgr, TypeGs, Replacing
<1>3. ASSUME NEW h \in Gs, Call(h) \/ Notified(h) \/ ReconnectServer(h) \/ Reconnect(h) \/ Remove(h)
      PROVE  client' \in {None, held'[a]}
  BY <1>3, <1>u, McpAssumption DEF Call, Notified, ReconnectServer, Reconnect, Remove, Lookup,
     Ask, Cross, envVars, mgrVars, locals, Go, TypeInv, TypeMgr, TypeGs, Replacing
<1>4. ASSUME NEW h \in Gs, CallReturns(h) \/ RenewClient(h)
      PROVE  client' \in {None, held'[a]}
  BY <1>4, <1>u, McpAssumption DEF CallReturns, RenewClient, Over, Cross, envVars, mgrVars,
     locals, Go, TypeInv, TypeMgr, TypeGs, Replacing
<1>5. ASSUME NEW h \in Gs, Replace(h)
      PROVE  client' \in {None, held'[a]}
  BY <1>5, <1>u, McpAssumption DEF Replace, Load, Disconnect, Prune, Dial, SetClient, Ended,
     Over, envVars, mgrVars, locals, Go, TypeInv, TypeMgr, TypeGs, Replacing
<1>6. ASSUME NEW h \in Gs, Refresh(h)
      PROVE  client' \in {None, held'[a]}
  BY <1>6, <1>u, McpAssumption DEF Refresh, Pick, List, Install, Regist, Signed, Ended, Over,
     Intrude, envVars, mgrVars, locals, Go, TypeInv, TypeMgr, TypeGs, Replacing
<1>7. ASSUME NEW h \in Gs, ReplaceAll(h)
      PROVE  client' \in {None, held'[a]}
  BY <1>7, <1>u, McpAssumption DEF ReplaceAll, Wipe, PruneAll, LoadAll, DialAll, ListAll, Over,
     Intrude, envVars, mgrVars, locals, Go, TypeInv, TypeMgr, TypeGs, Replacing
<1>8. CASE UNCHANGED vars
  BY <1>8, <1>u, McpAssumption DEF vars, envVars, mgrVars, locals, TypeInv, TypeMgr, TypeGs,
     Replacing
<1> QED
  BY <1>1, <1>2, <1>3, <1>4, <1>5, <1>6, <1>7, <1>8 DEF Next, Step

\* Callers that fail on one session together reconnect once: a renewal disconnects only
\* the client it failed on (mcp.go:261).
THEOREM RenewalsOwn == Spec => RenewsItsOwn
<1>1. /\ TypeInv /\ RemovalInv /\ RenewingInv /\ [Next]_vars => RenewingInv'
      /\ TypeInv /\ ToolsInv /\ RenewInv /\ RenewingInv /\ [Next]_vars => RenewInv'
  BY RenewingStep, RenewStep
<1>2. RenewInv /\ [Next]_vars =>
         [\A g \in Gs : (renewing = g /\ pc[g] = "drop" /\ pc'[g] = "prune" /\ ~crossed)
                           => client \in {None, held[g]}]_vars
  BY DEF RenewInv
<1> QED  BY <1>1, <1>2, RenewInit, RemovalInvariant, PTL DEF Spec, RenewsItsOwn

-----------------------------------------------------------------------------
(* ChatMessages: albums, answers in parts, and chats that are taken off.    *)

ChatConstants == Most \in Nat /\ MaxParts \in [InputKinds -> 0 .. Most]

Answer == [parts : 0 .. Most, attach : BOOLEAN, ok : BOOLEAN, lost : Nat]
Erasing == [of : SUBSET Chats, read : [Chats -> Nat], stale : BOOLEAN,
            at : {"new", "read", "done"}]

\* Until its run ends a handler has nothing to tell but that it goes no further.
Early == {"new", "gate", "group", "with", "check", "hear", "door", "told", "set", "clear", "run"}
Stages == Early \cup {"push", "send", "attach", "error", "done"}

ChatTypes ==
    /\ kind \in [Inputs -> InputKinds]
    /\ listed \in [Chats -> Nat]
    /\ gone \subseteq Chats
    /\ album \in Seq(Inputs)
    /\ timers \in [armed : BOOLEAN, old : Nat, fired : Nat]
    /\ files \in [Inputs -> SUBSET Inputs]
    /\ stage \in [Inputs -> Stages]
    /\ answer \in [Inputs -> Answer]
    /\ chat \in [Inputs -> Seq(Nat)]
    /\ erase \in [Removers -> Erasing]

\* A DELETE that none has overtaken has read the file without the chats that are off it.
OffListInv ==
    /\ RemovedStaysOut
    /\ \A r \in Removers : erase[r].at = "read" /\ ~erase[r].stale =>
          \A c \in gone : erase[r].read[c] = 0

\* The files that wait are in the group once, and no handler has them.
Holders(m) == {h \in Inputs : m \in files[h]}
Grouped == {album[i] : i \in 1 .. Len(album)}
AlbumInv ==
    /\ \A i, j \in 1 .. Len(album) : album[i] = album[j] => i = j
    /\ \A m \in Grouped : kind[m] = "file" /\ stage[m] = "group"
    /\ album # << >> => timers.armed \/ timers.fired > 0
    /\ \A m \in Inputs : stage[m] \in {"new", "group"} => files[m] = {}
    /\ \A m \in Inputs : kind[m] = "file" =>
          IF stage[m] = "new" \/ m \in Grouped THEN Holders(m) = {}
          ELSE \E h \in Inputs : Holders(m) = {h}

\* What is missing when a handler has sent its last part.
Short(m) == IF NextPart(m) <= answer[m].parts THEN 1 ELSE 0
NoFiles(m) == IF answer[m].attach /\ Count(m, Upload) = 0 THEN 1 ELSE 0
Told(m) == Count(m, Notice) + answer[m].lost

InOrder(m) == \A i \in Parts(m) : chat[m][i] = Cardinality({j \in Parts(m) : j <= i})
AnswerOK(m) ==
    /\ InOrder(m)
    /\ NextPart(m) - 1 <= answer[m].parts
    /\ stage[m] \in Early => chat[m] = << >> /\ answer[m] = NoAnswer
    /\ stage[m] \in {"push", "send"} => NextPart(m) <= answer[m].parts /\ Count(m, Upload) = 0
    /\ stage[m] = "push" => kind[m] = "schedule"
    /\ stage[m] = "attach" =>
          answer[m].attach /\ Count(m, Upload) = 0 /\ Short(m) <= Told(m)
    /\ stage[m] = "error" => answer[m].parts = 0 /\ ~answer[m].attach
    /\ stage[m] = "done" => Short(m) + NoFiles(m) <= Told(m)
AnswerInv == \A m \in Inputs : AnswerOK(m)

-----------------------------------------------------------------------------
(* The positions of a sequence with elements of a set. *)
Where(s, V) == {i \in 1 .. Len(s) : s[i] \in V}

LEMMA WhereFinite ==
    ASSUME NEW s \in Seq(Nat), NEW V
    PROVE  IsFiniteSet(Where(s, V)) /\ Cardinality(Where(s, V)) \in Nat
<1>1. Len(s) \in Nat /\ Where(s, V) \subseteq 1 .. Len(s)  BY DEF Where
<1>2. IsFiniteSet(1 .. Len(s))  BY <1>1, FS_Interval
<1> QED  BY <1>1, <1>2, FS_Subset, FS_CardinalityType

LEMMA WhereStays ==
    ASSUME NEW s \in Seq(Nat), NEW x \in Nat, NEW V, x \notin V
    PROVE  Where(Append(s, x), V) = Where(s, V)
BY DEF Where

LEMMA WhereGrows ==
    ASSUME NEW s \in Seq(Nat), NEW x \in Nat, NEW V, x \in V
    PROVE  /\ Where(Append(s, x), V) = Where(s, V) \cup {Len(s) + 1}
           /\ Cardinality(Where(Append(s, x), V)) = Cardinality(Where(s, V)) + 1
<1>1. Where(Append(s, x), V) = Where(s, V) \cup {Len(s) + 1} /\ Len(s) + 1 \notin Where(s, V)
  BY DEF Where
<1> QED  BY <1>1, WhereFinite, FS_AddElement

LEMMA Sets ==
    ASSUME NEW m \in Inputs
    PROVE  /\ Parts(m) = Where(chat[m], 1 .. Most)
           /\ \A w : Count(m, w) = Cardinality(Where(chat[m], {w}))
           /\ Parts(m)' = Where(chat'[m], 1 .. Most)
           /\ \A w : Count(m, w)' = Cardinality(Where(chat'[m], {w}))
BY DEF Parts, Count, Where

-----------------------------------------------------------------------------
LEMMA ChatTypesHold == ASSUME ChatConstants, ChatTypes, ChatNext PROVE ChatTypes'
<1>0. /\ \A m \in Inputs, x \in Stages :
            [stage EXCEPT ![m] = x] \in [Inputs -> Stages]
      /\ \A m \in Inputs, x \in Nat :
            [chat EXCEPT ![m] = Append(@, x)] \in [Inputs -> Seq(Nat)]
      /\ \A m \in Inputs :
            [answer EXCEPT ![m].lost = @ + 1] \in [Inputs -> Answer]
  <2>1. \A m \in Inputs, x \in Nat : Append(chat[m], x) \in Seq(Nat)  BY DEF ChatTypes
  <2>2. ASSUME NEW m \in Inputs PROVE [answer EXCEPT ![m].lost = @ + 1] \in [Inputs -> Answer]
    <3> PICK a \in Answer : a = answer[m]  BY DEF ChatTypes
    <3>1. [a EXCEPT !.lost = @ + 1] \in Answer  BY DEF Answer
    <3> QED  BY <3>1 DEF ChatTypes
  <2> QED  BY <2>1, <2>2 DEF ChatTypes
<1>1. ASSUME NEW m \in Inputs, NEW then \in Stages, Notify(m, then)
      PROVE  /\ stage' \in [Inputs -> Stages] /\ chat' \in [Inputs -> Seq(Nat)]
             /\ answer' \in [Inputs -> Answer]
  <2>1. stage' = [stage EXCEPT ![m] = then]  BY <1>1 DEF Notify, Goto
  <2>2. CASE chat' = [chat EXCEPT ![m] = Append(@, 0)] /\ UNCHANGED answer
    BY <1>0, <2>1, <2>2 DEF ChatTypes
  <2>3. CASE answer' = [answer EXCEPT ![m].lost = @ + 1] /\ UNCHANGED chat
    BY <1>0, <2>1, <2>3 DEF ChatTypes
  <2> QED  BY <1>1, <2>2, <2>3 DEF Notify, Notice
<1>2. ASSUME NEW m \in Inputs, NEW then \in Stages, ShowPart(m, then)
      PROVE  /\ stage' \in [Inputs -> Stages] /\ chat' \in [Inputs -> Seq(Nat)]
             /\ answer' \in [Inputs -> Answer]
  <2>1. NextPart(m) \in Nat
    <3>1. chat[m] \in Seq(Nat)  BY DEF ChatTypes
    <3>2. Cardinality(Parts(m)) \in Nat  BY <3>1, WhereFinite, Sets
    <3> QED  BY <3>2 DEF NextPart
  <2> QED  BY <1>0, <1>2, <2>1 DEF ShowPart, Goto, ChatTypes
<1>3. ASSUME NEW m \in Inputs, \/ TextArrives(m) \/ TelegramGate(m) \/ DiscordGate(m)
                               \/ IsAuthorized(m) \/ Clear(m) \/ NewCode(m) \/ SetCode(m)
                               \/ ScheduleRuns(m)
      PROVE  ChatTypes'
  <2>1. PICK x \in Stages : stage' = [stage EXCEPT ![m] = x]
    BY <1>3 DEF TextArrives, TelegramGate, DiscordGate, IsAuthorized, Clear, NewCode, SetCode,
                ScheduleRuns, Goto, Done, Stages, Early
  <2>2. UNCHANGED << kind, listed, gone, albumVars, sendVars, erase >>
    BY <1>3 DEF TextArrives, TelegramGate, DiscordGate, IsAuthorized, Clear, NewCode, SetCode,
                ScheduleRuns, fixed, doorVars
  <2> QED  BY <1>0, <2>1, <2>2 DEF ChatTypes, albumVars, sendVars
<1>4. ASSUME NEW m \in Inputs, \/ TelegramHear(m) \/ DiscordHear(m) \/ ResumeFromPending(m)
                               \/ TellError(m) \/ SendPart(m)
      PROVE  ChatTypes'
  <2>1. UNCHANGED << kind, listed, gone, albumVars, erase >>
    BY <1>4 DEF TelegramHear, DiscordHear, ResumeFromPending, TellError, SendPart, fixed, doorVars
  <2>2. "done" \in Stages /\ "run" \in Stages /\ After(m) \in Stages
    BY DEF Stages, Early, After
  <2>3. \/ Notify(m, "done") \/ Notify(m, After(m)) \/ ShowPart(m, After(m))
        \/ (Goto(m, "done") \/ Goto(m, "run")) /\ UNCHANGED sendVars
    BY <1>4 DEF TelegramHear, DiscordHear, ResumeFromPending, TellError, SendPart, Transcribe,
                SaveAttachments, Done
  <2>4. /\ stage' \in [Inputs -> Stages] /\ chat' \in [Inputs -> Seq(Nat)]
        /\ answer' \in [Inputs -> Answer]
    <3>1. CASE (Goto(m, "done") \/ Goto(m, "run")) /\ UNCHANGED sendVars
      <4>1. PICK x \in Stages : stage' = [stage EXCEPT ![m] = x]  BY <2>2, <3>1 DEF Goto
      <4> QED  BY <1>0, <3>1, <4>1 DEF sendVars, ChatTypes
    <3>2. CASE Notify(m, "done") \/ Notify(m, After(m))  BY <1>1, <2>2, <3>2
    <3>3. CASE ShowPart(m, After(m))  BY <1>2, <2>2, <3>3
    <3> QED  BY <2>3, <3>1, <3>2, <3>3
  <2> QED  BY <2>1, <2>4 DEF ChatTypes, albumVars
<1>5. ASSUME NEW m \in Inputs, PhotoArrives(m) \/ Add(m) \/ Authorize(m) PROVE ChatTypes'
  <2>1. PICK x \in Stages : stage' = [stage EXCEPT ![m] = x]
    BY <1>5 DEF PhotoArrives, Add, Authorize, Goto, Stages, Early
  <2>2. UNCHANGED << kind, sendVars, erase >>
    BY <1>5 DEF PhotoArrives, Add, Authorize, fixed
  <2>3. files' \in [Inputs -> SUBSET Inputs] /\ album' \in Seq(Inputs)
    <3>1. CASE PhotoArrives(m)  BY <3>1 DEF PhotoArrives, ChatTypes
    <3>2. CASE Add(m)  BY <3>2 DEF Add, ChatTypes
    <3>3. CASE Authorize(m)  BY <3>3 DEF Authorize, ChatTypes, albumVars
    <3> QED  BY <1>5, <3>1, <3>2, <3>3
  <2>5. timers' \in [armed : BOOLEAN, old : Nat, fired : Nat]
    <3>1. timers \in [armed : BOOLEAN, old : Nat, fired : Nat]  BY DEF ChatTypes
    <3>2. timers' = timers \/ timers' = [timers EXCEPT !.armed = TRUE]
      BY <1>5 DEF PhotoArrives, Add, Authorize, albumVars
    <3> QED  BY <3>1, <3>2
  <2>4. listed' \in [Chats -> Nat] /\ gone' \subseteq Chats
    BY <1>5 DEF PhotoArrives, Add, Authorize, ChatTypes, doorVars
  <2> QED  BY <1>0, <2>1, <2>2, <2>3, <2>4, <2>5 DEF ChatTypes, sendVars
<1>6. ASSUME NEW m \in Inputs, RunEnds(m) \/ SendAttachments(m) \/ PushResult(m) PROVE ChatTypes'
  <2>1. UNCHANGED << kind, listed, gone, albumVars, erase >>
    BY <1>6 DEF RunEnds, SendAttachments, PushResult, fixed, doorVars
  <2>2. "done" \in Stages /\ After(m) \in Stages /\ \A a : Deliver(m, a) \in Stages
        /\ "push" \in Stages
    BY DEF Stages, Early, After, Deliver
  <2>3. /\ stage' \in [Inputs -> Stages] /\ chat' \in [Inputs -> Seq(Nat)]
        /\ answer' \in [Inputs -> Answer]
    <3>1. CASE RunEnds(m)
      <4>1. MaxParts[kind[m]] \in 0 .. Most  BY DEF ChatConstants, ChatTypes
      <4>2. \A n \in 0 .. MaxParts[kind[m]], attach, ok \in BOOLEAN :
               [parts |-> n, attach |-> attach, ok |-> ok, lost |-> 0] \in Answer
        BY <4>1 DEF Answer, ChatConstants
      <4>3. PICK a \in Answer : answer' = [answer EXCEPT ![m] = a]  BY <3>1, <4>2 DEF RunEnds
      <4>4. PICK x \in Stages : stage' = [stage EXCEPT ![m] = x]
        BY <3>1, <2>2 DEF RunEnds, Goto
      <4> QED  BY <1>0, <3>1, <4>3, <4>4 DEF RunEnds, ChatTypes
    <3>2. CASE SendAttachments(m)
      <4>1. Upload \in Nat  BY DEF Upload, ChatConstants
      <4>2. CASE Notify(m, "done")  BY <1>1, <2>2, <4>2
      <4>3. CASE chat' = [chat EXCEPT ![m] = Append(@, Upload)] /\ Done(m) /\ UNCHANGED answer
        <5>1. stage' = [stage EXCEPT ![m] = "done"]  BY <4>3 DEF Done, Goto
        <5> HIDE DEF Upload
        <5> QED  BY <1>0, <2>2, <4>1, <4>3, <5>1 DEF ChatTypes
      <4> QED  BY <3>2, <4>2, <4>3 DEF SendAttachments
    <3>3. CASE PushResult(m)
      <4>1. PICK then \in Stages :
                \/ ShowPart(m, then)
                \/ /\ answer' = [answer EXCEPT ![m].lost = @ + 1]
                   /\ Goto(m, then) /\ UNCHANGED chat
        BY <2>2, <3>3 DEF PushResult
      <4>2. CASE ShowPart(m, then)  BY <1>2, <4>2
      <4>3. CASE /\ answer' = [answer EXCEPT ![m].lost = @ + 1]
                 /\ Goto(m, then) /\ UNCHANGED chat
        <5>1. stage' = [stage EXCEPT ![m] = then]  BY <4>3 DEF Goto
        <5> QED  BY <1>0, <4>3, <5>1 DEF ChatTypes
      <4> QED  BY <4>1, <4>2, <4>3
    <3> QED  BY <1>6, <3>1, <3>2, <3>3
  <2> QED  BY <2>1, <2>3 DEF ChatTypes, albumVars
<1>7. ASSUME TimerFires \/ CodeExpires PROVE ChatTypes'
  <2>1. timers \in [armed : BOOLEAN, old : Nat, fired : Nat]  BY DEF ChatTypes
  <2>2. timers' \in [armed : BOOLEAN, old : Nat, fired : Nat]
    <3> PICK a \in BOOLEAN, o \in Nat, f \in Nat : timers = [armed |-> a, old |-> o, fired |-> f]
      BY <2>1
    <3>1. CASE timers' = [timers EXCEPT !.armed = FALSE, !.fired = @ + 1]
      <4>1. timers' = [armed |-> FALSE, old |-> o, fired |-> f + 1]  BY <3>1
      <4> QED  BY <4>1
    <3>2. CASE timers.old > 0 /\ timers' = [timers EXCEPT !.old = @ - 1, !.fired = @ + 1]
      <4>1. timers' = [armed |-> a, old |-> o - 1, fired |-> f + 1] /\ o > 0  BY <3>2
      <4> QED  BY <4>1
    <3> QED  BY <1>7, <2>1, <3>1, <3>2 DEF TimerFires, CodeExpires, albumVars
  <2>3. UNCHANGED << kind, listed, gone, album, files, stage, answer, chat, erase >>
    BY <1>7 DEF TimerFires, CodeExpires, fixed, doorVars, albumVars, sendVars
  <2> QED  BY <2>2, <2>3 DEF ChatTypes
<1>8. ASSUME Flush PROVE ChatTypes'
  <2>1. timers.fired > 0 /\ timers' = Flushed(timers.old + (IF timers.armed THEN 1 ELSE 0))
        /\ UNCHANGED << kind, listed, gone, answer, chat, erase >>
    BY <1>8 DEF Flush, fixed, doorVars, sendVars
  <2>2. timers' \in [armed : BOOLEAN, old : Nat, fired : Nat]  BY <2>1 DEF Flushed, ChatTypes
  <2>3. /\ stage' \in [Inputs -> Stages] /\ album' \in Seq(Inputs)
        /\ files' \in [Inputs -> SUBSET Inputs]
    <3>1. CASE album = << >>  BY <1>8, <3>1 DEF Flush, ChatTypes
    <3>2. CASE album # << >>
      <4>1. Take(<< >>)  BY <1>8, <3>2 DEF Flush
      <4>2. {album[i] : i \in 1 .. Len(album)} \subseteq Inputs  BY DEF ChatTypes
      <4>3. files' \in [Inputs -> SUBSET Inputs]
        <5> PICK lot : lot = {album[i] : i \in 1 .. Len(album)}  OBVIOUS
        <5>1. files' = [files EXCEPT ![Head(album)] = lot]  BY <4>1 DEF Take
        <5> QED  BY <4>2, <5>1 DEF ChatTypes
      <4>4. album' \in Seq(Inputs)  BY <4>1 DEF Take
      <4>5. stage' \in [Inputs -> Stages]
        <5> PICK lot : lot = {album[i] : i \in 1 .. Len(album)}  OBVIOUS
        <5>1. stage' = [m \in Inputs |-> IF m = Head(album) THEN "gate"
                                         ELSE IF m \in lot THEN "with" ELSE stage[m]]
          BY <4>1 DEF Take
        <5>2. "gate" \in Stages /\ "with" \in Stages  BY DEF Stages, Early
        <5> QED  BY <5>1, <5>2 DEF ChatTypes
      <4> QED  BY <4>3, <4>4, <4>5
    <3> QED  BY <3>1, <3>2
  <2> QED  BY <2>1, <2>2, <2>3 DEF ChatTypes
<1>9. ASSUME NEW r \in Removers, ReadChats(r) PROVE ChatTypes'
  <2>1. \A c \in Chats : [of |-> {c}, read |-> listed, stale |-> FALSE, at |-> "read"] \in Erasing
    BY DEF Erasing, ChatTypes
  <2>2. PICK e \in Erasing : erase' = [erase EXCEPT ![r] = e]  BY <1>9, <2>1 DEF ReadChats
  <2> QED  BY <1>9, <2>2 DEF ReadChats, ChatTypes, fixed, doorVars, albumVars, sendVars
<1>10. ASSUME NEW r \in Removers, WriteKept(r) PROVE ChatTypes'
  <2>1. \A s \in Removers : /\ [erase[s] EXCEPT !.at = "done"] \in Erasing
                             /\ [erase[s] EXCEPT !.stale = (@ \/ erase[s].at = "read")] \in Erasing
    <3> TAKE s \in Removers
    <3> PICK e \in Erasing : e = erase[s]  BY DEF ChatTypes
    <3>1. [e EXCEPT !.at = "done"] \in Erasing  BY DEF Erasing
    <3>2. (e.stale \/ e.at = "read") \in BOOLEAN  OBVIOUS
    <3>3. [e EXCEPT !.stale = (@ \/ e.at = "read")] \in Erasing  BY <3>2 DEF Erasing
    <3> QED  BY <3>1, <3>3
  <2>2. erase' \in [Removers -> Erasing]  BY <1>10, <2>1 DEF WriteKept, Write
  <2>3. listed' \in [Chats -> Nat] /\ gone' \subseteq Chats
    BY <1>10 DEF WriteKept, Write, ChatTypes, Erasing
  <2> QED  BY <1>10, <2>2, <2>3 DEF WriteKept, Write, ChatTypes, fixed, albumVars, sendVars
<1> QED  BY <1>3, <1>4, <1>5, <1>6, <1>7, <1>8, <1>9, <1>10 DEF ChatNext

-----------------------------------------------------------------------------
(* Chats that are taken off the list. *)

LEMMA OffListKept == ASSUME ChatTypes, OffListInv, ChatNext PROVE OffListInv'
<1>1. ASSUME listed' = listed, gone' = gone, erase' = erase PROVE OffListInv'
  BY <1>1 DEF OffListInv, RemovedStaysOut
<1>2. ASSUME NEW m \in Inputs, Authorize(m) PROVE OffListInv'
  <2>1. /\ listed' = [listed EXCEPT ![Ours] = @ + 1] /\ gone' = gone \ {Ours}
        /\ erase' = erase
    BY <1>2 DEF Authorize
  <2>2. \A c \in gone' : c \in gone /\ listed'[c] = listed[c]  BY <2>1 DEF ChatTypes
  <2> QED  BY <2>1, <2>2 DEF OffListInv, RemovedStaysOut
<1>3. ASSUME NEW r \in Removers, ReadChats(r) PROVE OffListInv'
  <2>1. PICK of : erase' = [erase EXCEPT ![r] = [of |-> of, read |-> listed,
                                                 stale |-> FALSE, at |-> "read"]]
    BY <1>3 DEF ReadChats
  <2>2. listed' = listed /\ gone' = gone  BY <1>3 DEF ReadChats, doorVars
  <2>3. \A s \in Removers : erase'[s] = erase[s] \/ erase'[s].read = listed
    BY <2>1 DEF ChatTypes
  <2> QED  BY <2>2, <2>3 DEF OffListInv, RemovedStaysOut
<1>4. ASSUME NEW r \in Removers, WriteKept(r) PROVE OffListInv'
  <2>1. /\ erase[r].at = "read"
        /\ listed' = [c \in Chats |-> IF c \in erase[r].of THEN 0 ELSE erase[r].read[c]]
        /\ gone' = erase[r].of \cup (IF erase[r].stale THEN {} ELSE gone)
        /\ erase' = [s \in Removers |-> IF s = r THEN [erase[s] EXCEPT !.at = "done"]
                         ELSE [erase[s] EXCEPT !.stale = (@ \/ erase[s].at = "read")]]
    BY <1>4 DEF WriteKept, Write
  <2>2. erase[r].of \subseteq Chats  BY DEF ChatTypes, Erasing
  <2>3. \A c \in gone' : listed'[c] = 0
    <3> TAKE c \in gone'
    <3>1. CASE c \in erase[r].of  BY <2>1, <2>2, <3>1
    <3>2. CASE c \notin erase[r].of
      <4>1. ~erase[r].stale /\ c \in gone  BY <2>1, <3>2
      <4>2. erase[r].read[c] = 0  BY <2>1, <4>1 DEF OffListInv
      <4>3. c \in Chats
        <5>1. gone \subseteq Chats  BY DEF ChatTypes
        <5> QED  BY <4>1, <5>1
      <4> QED  BY <2>1, <3>2, <4>2, <4>3
    <3> QED  BY <3>1, <3>2
  <2>4. ASSUME NEW s \in Removers PROVE ~(erase'[s].at = "read" /\ ~erase'[s].stale)
    <3> PICK e \in Erasing : e = erase[s]  BY DEF ChatTypes
    <3>1. [e EXCEPT !.at = "done"].at = "done"  BY DEF Erasing
    <3>2. /\ [e EXCEPT !.stale = (@ \/ e.at = "read")].stale = (e.stale \/ e.at = "read")
          /\ [e EXCEPT !.stale = (@ \/ e.at = "read")].at = e.at
      BY DEF Erasing
    <3> QED  BY <2>1, <3>1, <3>2
  <2> QED  BY <2>3, <2>4 DEF OffListInv, RemovedStaysOut
<1>5. ASSUME TimerFires \/ Flush \/ CodeExpires PROVE OffListInv'
  BY <1>1, <1>5 DEF TimerFires, Flush, CodeExpires, doorVars
<1>6. ASSUME NEW m \in Inputs,
             \/ TextArrives(m) \/ PhotoArrives(m) \/ Add(m) \/ TelegramGate(m) \/ DiscordGate(m)
             \/ IsAuthorized(m) \/ Clear(m) \/ NewCode(m) \/ SetCode(m)
             \/ TelegramHear(m) \/ DiscordHear(m) \/ ResumeFromPending(m) \/ ScheduleRuns(m)
             \/ RunEnds(m) \/ TellError(m) \/ SendPart(m) \/ PushResult(m) \/ SendAttachments(m)
      PROVE  OffListInv'
  BY <1>1, <1>6 DEF TextArrives, PhotoArrives, Add, TelegramGate, DiscordGate, IsAuthorized, Clear,
       NewCode, SetCode, TelegramHear, DiscordHear, ResumeFromPending, ScheduleRuns, RunEnds,
       TellError, SendPart, PushResult, SendAttachments, doorVars
<1> QED  BY <1>2, <1>3, <1>4, <1>5, <1>6 DEF ChatNext

-----------------------------------------------------------------------------
(* Albums. *)

\* A handler goes on; a file's is in the group until it is taken.
MovesOn(m) ==
    /\ \E x \in Stages \ {"new", "group"} : stage' = [stage EXCEPT ![m] = x]
    /\ stage[m] # "group" /\ (stage[m] = "new" => kind[m] # "file")
    /\ UNCHANGED << kind, album, timers, files >>

LEMMA MovesKeepAlbum == ASSUME ChatTypes, AlbumInv, NEW m \in Inputs, MovesOn(m) PROVE AlbumInv'
<1> PICK x \in Stages \ {"new", "group"} : stage' = [stage EXCEPT ![m] = x]  BY DEF MovesOn
<1>1. /\ stage[m] # "group" /\ (stage[m] = "new" => kind[m] # "file")
      /\ UNCHANGED << kind, album, timers, files >>
  BY DEF MovesOn
<1>2. /\ \A n \in Inputs \ {m} : stage'[n] = stage[n]
      /\ stage'[m] \notin {"new", "group"}
  BY DEF ChatTypes
<1>3. Grouped' = Grouped /\ \A n : Holders(n)' = Holders(n)  BY <1>1 DEF Grouped, Holders
<1>4. Grouped \subseteq Inputs  BY DEF Grouped, ChatTypes
<1>5. \A n \in Grouped : kind'[n] = "file" /\ stage'[n] = "group"
  BY <1>1, <1>2, <1>4 DEF AlbumInv
<1>6. ASSUME NEW n \in Inputs, kind'[n] = "file"
      PROVE  IF stage'[n] = "new" \/ n \in Grouped' THEN Holders(n)' = {}
             ELSE \E h \in Inputs : Holders(n)' = {h}
  <2>1. IF stage[n] = "new" \/ n \in Grouped THEN Holders(n) = {}
        ELSE \E h \in Inputs : Holders(n) = {h}
    BY <1>1, <1>6 DEF AlbumInv
  <2> QED  BY <1>1, <1>2, <1>3, <1>6, <2>1
<1>7. \A n \in Inputs : stage'[n] \in {"new", "group"} => files'[n] = {}
  BY <1>1, <1>2 DEF AlbumInv
<1>8. /\ \A i, j \in 1 .. Len(album') : album'[i] = album'[j] => i = j
      /\ album' # << >> => timers'.armed \/ timers'.fired > 0
  BY <1>1 DEF AlbumInv
<1> QED  BY <1>3, <1>5, <1>6, <1>7, <1>8 DEF AlbumInv

LEMMA AddsKeepAlbum == ASSUME ChatTypes, AlbumInv, NEW m \in Inputs, Add(m) PROVE AlbumInv'
<1>1. /\ kind[m] = "file" /\ stage[m] = "new"
      /\ album' = Append(album, m) /\ timers' = [timers EXCEPT !.armed = TRUE]
      /\ stage' = [stage EXCEPT ![m] = "group"]
      /\ UNCHANGED << kind, files >>
  BY DEF Add, Goto, fixed
<1>2. m \notin Grouped  BY <1>1 DEF AlbumInv
<1>3. /\ Len(album') = Len(album) + 1 /\ album'[Len(album) + 1] = m /\ Len(album) \in Nat
      /\ \A i \in 1 .. Len(album) : album'[i] = album[i]
  BY <1>1 DEF ChatTypes
<1>4. Grouped' = Grouped \cup {m}  BY <1>3 DEF Grouped
<1>5. \A i, j \in 1 .. Len(album') : album'[i] = album'[j] => i = j
  BY <1>2, <1>3 DEF AlbumInv, Grouped
<1>6. /\ stage'[m] = "group" /\ \A n \in Inputs \ {m} : stage'[n] = stage[n]
  BY <1>1 DEF ChatTypes
<1>7. \A n : Holders(n)' = Holders(n)  BY <1>1 DEF Holders
<1>8. timers'.armed  BY <1>1 DEF ChatTypes
<1>9. Grouped \subseteq Inputs  BY DEF Grouped, ChatTypes
<1>10. \A n \in Grouped' : kind'[n] = "file" /\ stage'[n] = "group"
  BY <1>1, <1>4, <1>6, <1>9 DEF AlbumInv
<1>11. \A n \in Inputs : stage'[n] \in {"new", "group"} => files'[n] = {}
  BY <1>1, <1>6 DEF AlbumInv
<1>12. \A n \in Inputs : kind'[n] = "file" =>
          IF stage'[n] = "new" \/ n \in Grouped' THEN Holders(n)' = {}
          ELSE \E h \in Inputs : Holders(n)' = {h}
  <2>1. \A n \in Inputs : kind[n] = "file" =>
          IF stage[n] = "new" \/ n \in Grouped THEN Holders(n) = {}
          ELSE \E h \in Inputs : Holders(n) = {h}
    BY DEF AlbumInv
  <2> QED  BY <1>1, <1>4, <1>6, <1>7, <2>1
<1> QED  BY <1>5, <1>8, <1>10, <1>11, <1>12 DEF AlbumInv

LEMMA FlushesKeepAlbum == ASSUME ChatTypes, AlbumInv, Flush, album # << >> PROVE AlbumInv'
<1> PICK first \in Inputs, lot \in SUBSET Inputs :
        first = Head(album) /\ lot = Grouped /\ first \in lot
  <2>1. Head(album) = album[1] /\ 1 \in 1 .. Len(album)  BY DEF ChatTypes
  <2>2. Grouped \subseteq Inputs  BY DEF Grouped, ChatTypes
  <2>3. album[1] \in Grouped  BY <2>1 DEF Grouped
  <2> QED  BY <2>1, <2>2, <2>3
<1>1. /\ files' = [files EXCEPT ![first] = lot]
      /\ stage' = [n \in Inputs |-> IF n = first THEN "gate"
                                    ELSE IF n \in lot THEN "with" ELSE stage[n]]
      /\ album' = << >>
  BY DEF Flush, Take, Grouped
<1>2. kind' = kind  BY DEF Flush, fixed
<1>3. Grouped' = {}  BY <1>1 DEF Grouped
<1>4. files[first] = {}  BY DEF AlbumInv
<1>5. ASSUME NEW n \in Inputs, n \in lot PROVE Holders(n)' = {first}
  <2>1. Holders(n) = {}  BY <1>5 DEF AlbumInv
  <2>2. \A h \in Inputs : n \in files'[h] <=> h = first  BY <1>1, <1>5, <2>1 DEF Holders, ChatTypes
  <2> QED  BY <2>2 DEF Holders
<1>6. ASSUME NEW n \in Inputs, n \notin lot PROVE Holders(n)' = Holders(n)
  <2>1. \A h \in Inputs : n \in files'[h] <=> n \in files[h]  BY <1>1, <1>4, <1>6 DEF ChatTypes
  <2> QED  BY <2>1 DEF Holders
<1>7. /\ \A n \in lot : stage'[n] \in {"gate", "with"}
      /\ \A n \in Inputs \ lot : stage'[n] = stage[n]
  BY <1>1
<1>8. \A n \in Inputs : stage'[n] \in {"new", "group"} => files'[n] = {}
  BY <1>1, <1>7 DEF AlbumInv, ChatTypes
<1>9. ASSUME NEW n \in Inputs, kind'[n] = "file"
      PROVE  IF stage'[n] = "new" \/ n \in Grouped' THEN Holders(n)' = {}
             ELSE \E h \in Inputs : Holders(n)' = {h}
  <2>1. IF stage[n] = "new" \/ n \in Grouped THEN Holders(n) = {}
        ELSE \E h \in Inputs : Holders(n) = {h}
    BY <1>2, <1>9 DEF AlbumInv
  <2> QED  BY <1>3, <1>5, <1>6, <1>7, <2>1
<1>10. \A i, j \in 1 .. Len(album') : album'[i] = album'[j] => i = j  BY <1>1
<1> QED  BY <1>1, <1>3, <1>8, <1>9, <1>10 DEF AlbumInv

LEMMA AlbumKept == ASSUME ChatTypes, AlbumInv, ChatNext PROVE AlbumInv'
<1>1. ASSUME UNCHANGED << kind, album, files, stage >>,
             album # << >> => timers'.armed \/ timers'.fired > 0
      PROVE  AlbumInv'
  BY <1>1 DEF AlbumInv, Grouped, Holders
<1>2. ASSUME TimerFires PROVE AlbumInv'
  <2> PICK a \in BOOLEAN, o \in Nat, f \in Nat : timers = [armed |-> a, old |-> o, fired |-> f]
    BY DEF ChatTypes
  <2>1. timers'.fired = f + 1
    <3>1. CASE timers' = [timers EXCEPT !.armed = FALSE, !.fired = @ + 1]  BY <3>1
    <3>2. CASE timers' = [timers EXCEPT !.old = @ - 1, !.fired = @ + 1]  BY <3>2
    <3> QED  BY <1>2, <3>1, <3>2 DEF TimerFires
  <2>2. timers'.fired > 0  BY <2>1
  <2> QED  BY <1>1, <1>2, <2>2 DEF TimerFires, fixed
<1>3. ASSUME Flush, album = << >> PROVE AlbumInv'
  BY <1>1, <1>3 DEF Flush, fixed
<1>4. ASSUME CodeExpires \/ (\E r \in Removers : ReadChats(r) \/ WriteKept(r)) PROVE AlbumInv'
  BY <1>1, <1>4 DEF CodeExpires, ReadChats, WriteKept, Write, albumVars, fixed, AlbumInv
<1>5. ASSUME NEW m \in Inputs, PhotoArrives(m) PROVE AlbumInv'
  <2>1. /\ kind[m] = "photo" /\ stage[m] = "new"
        /\ files' = [files EXCEPT ![m] = {m}] /\ stage' = [stage EXCEPT ![m] = "gate"]
        /\ UNCHANGED << kind, album, timers >>
    BY <1>5 DEF PhotoArrives, Goto, fixed
  <2>2. files[m] = {} /\ m \notin Grouped  BY <2>1 DEF AlbumInv
  <2>3. Grouped' = Grouped  BY <2>1 DEF Grouped
  <2>4. \A n \in Inputs : kind[n] = "file" => Holders(n)' = Holders(n)
    BY <2>1, <2>2 DEF Holders, ChatTypes
  <2>5. /\ stage'[m] = "gate" /\ \A n \in Inputs \ {m} : stage'[n] = stage[n] /\ files'[n] = files[n]
    BY <2>1 DEF ChatTypes
  <2>6. Grouped \subseteq Inputs  BY DEF Grouped, ChatTypes
  <2>7. \A n \in Grouped' : kind'[n] = "file" /\ stage'[n] = "group"
    BY <2>1, <2>2, <2>3, <2>5, <2>6 DEF AlbumInv
  <2>8. \A n \in Inputs : stage'[n] \in {"new", "group"} => files'[n] = {}
    BY <2>5 DEF AlbumInv
  <2>9. \A n \in Inputs : kind'[n] = "file" =>
          IF stage'[n] = "new" \/ n \in Grouped' THEN Holders(n)' = {}
          ELSE \E h \in Inputs : Holders(n)' = {h}
    <3>1. \A n \in Inputs : kind[n] = "file" =>
            IF stage[n] = "new" \/ n \in Grouped THEN Holders(n) = {}
            ELSE \E h \in Inputs : Holders(n) = {h}
      BY DEF AlbumInv
    <3> QED  BY <2>1, <2>3, <2>4, <2>5, <3>1
  <2>10. /\ \A i, j \in 1 .. Len(album') : album'[i] = album'[j] => i = j
         /\ album' # << >> => timers'.armed \/ timers'.fired > 0
    BY <2>1 DEF AlbumInv
  <2> QED  BY <2>7, <2>8, <2>9, <2>10 DEF AlbumInv
<1>6. ASSUME NEW m \in Inputs,
             \/ TextArrives(m) \/ TelegramGate(m) \/ DiscordGate(m)
             \/ IsAuthorized(m) \/ Authorize(m) \/ Clear(m) \/ NewCode(m) \/ SetCode(m)
      PROVE  AlbumInv'
  <2>1. MovesOn(m)
    BY <1>6 DEF TextArrives, TelegramGate, DiscordGate, IsAuthorized, Authorize, Clear,
       NewCode, SetCode, MovesOn, Goto, Done, Stages, Early, fixed, albumVars
  <2> QED  BY <2>1, MovesKeepAlbum
<1>7. ASSUME NEW m \in Inputs,
             \/ TelegramHear(m) \/ DiscordHear(m) \/ ResumeFromPending(m) \/ ScheduleRuns(m)
             \/ RunEnds(m) \/ TellError(m) \/ SendPart(m) \/ PushResult(m) \/ SendAttachments(m)
      PROVE  AlbumInv'
  <2>1. stage[m] # "group" /\ (stage[m] = "new" => kind[m] # "file")
    BY <1>7 DEF TelegramHear, DiscordHear, ResumeFromPending, ScheduleRuns, RunEnds, TellError,
                SendPart, PushResult, SendAttachments
  <2>2. UNCHANGED << kind, album, timers, files >>
    BY <1>7 DEF TelegramHear, DiscordHear, ResumeFromPending, ScheduleRuns, RunEnds, TellError,
                SendPart, PushResult, SendAttachments, fixed, albumVars
  <2>3. /\ After(m) \in Stages \ {"new", "group"}
        /\ \A a : Deliver(m, a) \in Stages \ {"new", "group"}
        /\ {"done", "run", "push"} \subseteq Stages \ {"new", "group"}
    BY DEF After, Deliver, Stages, Early
  <2>4. stage[m] \in {"send", "push"} => stage[m] \in Stages \ {"new", "group"}
    BY DEF Stages, Early
  <2>5. \E x \in Stages \ {"new", "group"} : stage' = [stage EXCEPT ![m] = x]
    BY <1>7, <2>3, <2>4 DEF TelegramHear, DiscordHear, ResumeFromPending, ScheduleRuns, RunEnds,
       TellError, SendPart, PushResult, SendAttachments, Transcribe, SaveAttachments, Notify,
       ShowPart, Goto, Done
  <2>6. MovesOn(m)  BY <2>1, <2>2, <2>5 DEF MovesOn
  <2> QED  BY <2>6, MovesKeepAlbum
<1> QED  BY <1>2, <1>3, <1>4, <1>5, <1>6, <1>7, AddsKeepAlbum, FlushesKeepAlbum DEF ChatNext

-----------------------------------------------------------------------------
(* Answers. *)

(* What AnswerOK reads of an input. *)
LEMMA AnswersStay ==
    ASSUME NEW n \in Inputs, AnswerOK(n), kind'[n] = kind[n], stage'[n] = stage[n],
           answer'[n] = answer[n], chat'[n] = chat[n]
    PROVE  AnswerOK(n)'
BY DEF AnswerOK, InOrder, Parts, NextPart, Count, Short, NoFiles, Told

(* One handler's step. *)
LEMMA OneAnswers ==
    ASSUME ChatTypes, AnswerInv, NEW m \in Inputs, AnswerOK(m)', kind' = kind,
           \A n \in Inputs \ {m} : /\ stage'[n] = stage[n] /\ answer'[n] = answer[n]
                                   /\ chat'[n] = chat[n]
    PROVE  AnswerInv'
BY AnswersStay DEF AnswerInv

\* Nothing is shown before a run ends.
LEMMA Silent ==
    ASSUME ChatConstants, NEW m \in Inputs, chat[m] = << >>
    PROVE  /\ Parts(m) = {} /\ NextPart(m) = 1 /\ \A w : Count(m, w) = 0
<1>1. Parts(m) = {}  BY DEF Parts
<1>2. \A w : {i \in 1 .. Len(chat[m]) : chat[m][i] = w} = {}  OBVIOUS
<1>3. Cardinality({}) = 0  BY FS_EmptySet
<1> QED  BY <1>1, <1>2, <1>3 DEF NextPart, Count

LEMMA Counts ==
    ASSUME ChatTypes, NEW m \in Inputs
    PROVE  /\ NextPart(m) \in Nat /\ NextPart(m) >= 1
           /\ \A w : Count(m, w) \in Nat
           /\ answer[m].parts \in Nat /\ answer[m].lost \in Nat
<1>1. chat[m] \in Seq(Nat)  BY DEF ChatTypes
<1>2. Cardinality(Parts(m)) \in Nat
  <2>1. Cardinality(Where(chat[m], 1 .. Most)) \in Nat  BY <1>1, WhereFinite
  <2> QED  BY <2>1, Sets
<1>4. ASSUME NEW w PROVE Count(m, w) \in Nat
  <2>1. Cardinality(Where(chat[m], {w})) \in Nat  BY <1>1, WhereFinite
  <2> QED  BY <2>1 DEF Count, Where
<1>3. answer[m] \in Answer  BY DEF ChatTypes
<1> QED  BY <1>2, <1>3, <1>4 DEF NextPart, Answer

\* A notice reaches the chat or is lost: that is told or counted, and no part comes.
LEMMA Notices ==
    ASSUME ChatConstants, ChatTypes, NEW m \in Inputs, NEW then, Notify(m, then)
    PROVE  /\ stage'[m] = then /\ answer'[m].parts = answer[m].parts
           /\ answer'[m].attach = answer[m].attach
           /\ Parts(m)' = Parts(m) /\ \A i \in Parts(m) : chat'[m][i] = chat[m][i]
           /\ Count(m, Upload)' = Count(m, Upload)
           /\ Count(m, Notice)' + answer'[m].lost = Count(m, Notice) + answer[m].lost + 1
           /\ \A n \in Inputs \ {m} : /\ stage'[n] = stage[n] /\ answer'[n] = answer[n]
                                      /\ chat'[n] = chat[n]
<1>1. chat[m] \in Seq(Nat) /\ 0 \in Nat  BY DEF ChatTypes
<1>2. /\ stage'[m] = then /\ \A n \in Inputs \ {m} : stage'[n] = stage[n]
  BY DEF Notify, Goto, ChatTypes
<1>3. Upload \in Nat /\ Upload # 0 /\ Most \in Nat  BY DEF Upload, ChatConstants
<1>4. Count(m, Notice) \in Nat /\ answer[m].lost \in Nat  BY Counts
<1>5. CASE chat' = [chat EXCEPT ![m] = Append(@, Notice)] /\ UNCHANGED answer
  <2>1. chat'[m] = Append(chat[m], 0) /\ \A n \in Inputs \ {m} : chat'[n] = chat[n]
    BY <1>5 DEF ChatTypes, Notice
  <2>2. Parts(m)' = Parts(m)
    <3>1. 0 \notin 1 .. Most  BY <1>3
    <3>2. Where(chat'[m], 1 .. Most) = Where(chat[m], 1 .. Most)  BY <1>1, <2>1, <3>1, WhereStays
    <3> QED  BY <3>2, Sets
  <2>3. Count(m, Upload)' = Count(m, Upload)
    <3>1. 0 \notin {Upload}  BY <1>3
    <3>2. Where(chat'[m], {Upload}) = Where(chat[m], {Upload})  BY <1>1, <2>1, <3>1, WhereStays
    <3> QED  BY <3>2 DEF Count, Where, Upload
  <2>4. Count(m, Notice)' = Count(m, Notice) + 1
    <3>1. 0 \in {Notice}  BY DEF Notice
    <3>2. Cardinality(Where(chat'[m], {Notice})) = Cardinality(Where(chat[m], {Notice})) + 1
      BY <1>1, <2>1, <3>1, WhereGrows
    <3> QED  BY <3>2 DEF Count, Where, Notice
  <2>5. \A i \in Parts(m) : chat'[m][i] = chat[m][i]  BY <1>1, <2>1 DEF Parts
  <2>6. Count(m, Notice)' + answer'[m].lost = Count(m, Notice) + answer[m].lost + 1
    BY <1>4, <1>5, <2>4
  <2> QED  BY <1>2, <1>5, <2>1, <2>2, <2>3, <2>5, <2>6
<1>6. CASE answer' = [answer EXCEPT ![m].lost = @ + 1] /\ UNCHANGED chat
  <2> PICK a \in Answer : a = answer[m]  BY DEF ChatTypes
  <2>1. answer' = [answer EXCEPT ![m] = [a EXCEPT !.lost = @ + 1]]  BY <1>6
  <2>2. /\ [a EXCEPT !.lost = @ + 1].parts = a.parts /\ [a EXCEPT !.lost = @ + 1].attach = a.attach
        /\ [a EXCEPT !.lost = @ + 1].lost = a.lost + 1
    BY DEF Answer
  <2>3. answer'[m] = [a EXCEPT !.lost = @ + 1] /\ \A n \in Inputs \ {m} : answer'[n] = answer[n]
    BY <2>1 DEF ChatTypes
  <2>4. /\ Parts(m)' = Parts(m) /\ Count(m, Upload)' = Count(m, Upload)
        /\ Count(m, Notice)' = Count(m, Notice)
    BY <1>6 DEF Parts, Count, Upload, Notice
  <2>5. /\ answer'[m].parts = answer[m].parts /\ answer'[m].attach = answer[m].attach
        /\ answer'[m].lost = answer[m].lost + 1
    BY <2>2, <2>3
  <2>6. Count(m, Notice)' + answer'[m].lost = Count(m, Notice) + answer[m].lost + 1
    BY <1>4, <2>4, <2>5
  <2> QED  BY <1>2, <1>6, <2>3, <2>4, <2>5, <2>6
<1> QED  BY <1>5, <1>6 DEF Notify

\* A part that is shown is the next one.
LEMMA ShownInOrder ==
    ASSUME ChatConstants, ChatTypes, NEW m \in Inputs, AnswerOK(m), NextPart(m) <= answer[m].parts,
           chat' = [chat EXCEPT ![m] = Append(@, NextPart(m))]
    PROVE  /\ InOrder(m)' /\ NextPart(m)' = NextPart(m) + 1
           /\ Count(m, Upload)' = Count(m, Upload) /\ Count(m, Notice)' = Count(m, Notice)
<1> PICK x \in Nat : x = NextPart(m) /\ x >= 1 /\ x <= Most
  <2>1. answer[m].parts <= Most /\ Most \in Nat /\ answer[m].parts \in Nat
    BY DEF ChatTypes, Answer, ChatConstants
  <2> QED  BY <2>1, Counts
<1>1. chat[m] \in Seq(Nat) /\ Len(chat[m]) \in Nat  BY DEF ChatTypes
<1>2. chat'[m] = Append(chat[m], x)  BY DEF ChatTypes
<1>3. x \in 1 .. Most /\ x \notin {Upload} /\ x \notin {Notice}
  BY DEF Upload, Notice, ChatConstants
<1> PICK old : old = Parts(m)  OBVIOUS
<1>4. /\ Parts(m)' = old \cup {Len(chat[m]) + 1}
      /\ IsFiniteSet(old) /\ Cardinality(old) \in Nat
      /\ Cardinality(Parts(m)') = Cardinality(old) + 1
  <2>1. /\ Where(chat'[m], 1 .. Most) = Where(chat[m], 1 .. Most) \cup {Len(chat[m]) + 1}
        /\ Cardinality(Where(chat'[m], 1 .. Most)) = Cardinality(Where(chat[m], 1 .. Most)) + 1
    <3> PICK V : V = 1 .. Most  OBVIOUS
    <3>1. x \in V  BY <1>3
    <3>2. /\ Where(Append(chat[m], x), V) = Where(chat[m], V) \cup {Len(chat[m]) + 1}
          /\ Cardinality(Where(Append(chat[m], x), V)) = Cardinality(Where(chat[m], V)) + 1
      BY <1>1, <3>1, WhereGrows
    <3> QED  BY <1>2, <3>2
  <2>2. /\ IsFiniteSet(Where(chat[m], 1 .. Most))
        /\ Cardinality(Where(chat[m], 1 .. Most)) \in Nat
    BY <1>1, WhereFinite
  <2> QED  BY <2>1, <2>2, Sets
<1>5. NextPart(m)' = NextPart(m) + 1 /\ Cardinality(Parts(m)') = x
  BY <1>4 DEF NextPart
<1>6. Count(m, Upload)' = Count(m, Upload) /\ Count(m, Notice)' = Count(m, Notice)
  <2>1. Where(chat'[m], {Upload}) = Where(chat[m], {Upload})  BY <1>1, <1>2, <1>3, WhereStays
  <2>2. Where(chat'[m], {Notice}) = Where(chat[m], {Notice})  BY <1>1, <1>2, <1>3, WhereStays
  <2>3. Count(m, Upload)' = Count(m, Upload)  BY <2>1 DEF Count, Where, Upload
  <2>4. Count(m, Notice)' = Count(m, Notice)  BY <2>2 DEF Count, Where, Notice
  <2> QED  BY <2>3, <2>4
<1>7. InOrder(m)'
  <2> SUFFICES ASSUME NEW i \in Parts(m)'
               PROVE  chat'[m][i] = Cardinality({j \in Parts(m)' : j <= i})
    BY DEF InOrder
  <2>1. old \subseteq 1 .. Len(chat[m])  BY DEF Parts
  <2>2. CASE i \in old
    <3>1. {j \in Parts(m)' : j <= i} = {j \in old : j <= i}  BY <1>1, <1>4, <2>1, <2>2
    <3>2. chat'[m][i] = chat[m][i]  BY <1>1, <1>2, <2>1, <2>2
    <3> QED  BY <2>2, <3>1, <3>2 DEF AnswerOK, InOrder
  <2>3. CASE i = Len(chat[m]) + 1
    <3>1. {j \in Parts(m)' : j <= i} = Parts(m)'  BY <1>1, <1>4, <2>1, <2>3
    <3>2. chat'[m][i] = x  BY <1>1, <1>2, <2>3
    <3> QED  BY <1>5, <3>1, <3>2
  <2> QED  BY <1>4, <2>2, <2>3
<1> QED  BY <1>5, <1>6, <1>7

LEMMA PartsKeepAnswers ==
    ASSUME ChatConstants, ChatTypes, AnswerInv, NEW m \in Inputs, stage[m] \in {"push", "send"},
           ShowPart(m, After(m)), kind' = kind
    PROVE  AnswerInv'
<1>1. AnswerOK(m) /\ NextPart(m) <= answer[m].parts  BY DEF AnswerInv, AnswerOK
<1>2. /\ chat' = [chat EXCEPT ![m] = Append(@, NextPart(m))] /\ UNCHANGED answer
      /\ Goto(m, IF NextPart(m) < answer[m].parts THEN stage[m] ELSE After(m))
  BY DEF ShowPart
<1>3. /\ InOrder(m)' /\ NextPart(m)' = NextPart(m) + 1
      /\ Count(m, Upload)' = Count(m, Upload) /\ Count(m, Notice)' = Count(m, Notice)
  BY <1>1, <1>2, ShownInOrder
<1>4. /\ \A n \in Inputs \ {m} : stage'[n] = stage[n] /\ chat'[n] = chat[n]
      /\ stage'[m] = IF NextPart(m) < answer[m].parts THEN stage[m] ELSE After(m)
  BY <1>2 DEF ChatTypes, Goto
<1>5. Count(m, Upload) = 0 /\ (stage[m] = "push" => kind[m] = "schedule")
  BY <1>1 DEF AnswerOK
<1>6. /\ NextPart(m) \in Nat /\ answer[m].parts \in Nat
      /\ answer[m].lost \in Nat /\ Count(m, Notice) \in Nat
  BY Counts
<1>7. NextPart(m)' - 1 <= answer'[m].parts  BY <1>1, <1>2, <1>3, <1>6
<1>8. CASE NextPart(m) < answer[m].parts
  <2>1. stage'[m] = stage[m] /\ NextPart(m)' <= answer'[m].parts  BY <1>2, <1>3, <1>4, <1>6, <1>8
  <2>2. AnswerOK(m)'  BY <1>2, <1>3, <1>5, <1>7, <2>1 DEF AnswerOK, Early
  <2> QED  BY <1>2, <1>4, <2>2, OneAnswers
<1>9. CASE ~(NextPart(m) < answer[m].parts)
  <2>1. stage'[m] = After(m) /\ ~(NextPart(m)' <= answer'[m].parts)
    BY <1>1, <1>2, <1>3, <1>4, <1>6, <1>9
  <2>2. Short(m)' = 0 /\ Told(m)' \in Nat  BY <1>2, <1>3, <1>6, <2>1 DEF Short, Told
  <2>3. NoFiles(m)' = IF answer[m].attach THEN 1 ELSE 0  BY <1>2, <1>3, <1>5 DEF NoFiles
  <2>4. \/ stage'[m] = "attach" /\ answer'[m].attach
        \/ stage'[m] = "done" /\ ~answer'[m].attach
    BY <1>2, <2>1 DEF After
  <2>5. AnswerOK(m)'  BY <1>3, <1>5, <1>7, <2>2, <2>3, <2>4, <1>2 DEF AnswerOK, Early
  <2> QED  BY <1>2, <1>4, <2>5, OneAnswers
<1> QED  BY <1>8, <1>9

\* A send that fails: a notice, or a notice lost; the files follow.
LEMMA FailuresKeepAnswers ==
    ASSUME ChatConstants, ChatTypes, AnswerInv, NEW m \in Inputs, NEW then, kind' = kind,
           /\ stage'[m] = then /\ answer'[m].parts = answer[m].parts
           /\ answer'[m].attach = answer[m].attach
           /\ Parts(m)' = Parts(m) /\ \A i \in Parts(m) : chat'[m][i] = chat[m][i]
           /\ Count(m, Upload)' = Count(m, Upload)
           /\ Count(m, Notice)' + answer'[m].lost = Count(m, Notice) + answer[m].lost + 1
           /\ \A n \in Inputs \ {m} : /\ stage'[n] = stage[n] /\ answer'[n] = answer[n]
                                      /\ chat'[n] = chat[n],
           \/ stage[m] \in {"push", "send"} /\ then = After(m)
           \/ (stage[m] \in Early \cup {"error", "attach"}) /\ then = "done"
    PROVE  AnswerInv'
<1>1. AnswerOK(m)  BY DEF AnswerInv
<1>2. InOrder(m)'  BY <1>1 DEF AnswerOK, InOrder
<1>3. NextPart(m)' = NextPart(m)  BY DEF NextPart
<1>4. Short(m)' = Short(m) /\ NoFiles(m)' = NoFiles(m)  BY <1>3 DEF Short, NoFiles
<1>5. Told(m)' = Told(m) + 1 /\ Told(m) \in Nat
  BY Counts DEF Told
<1>6. Short(m) \in {0, 1} /\ NoFiles(m) \in {0, 1}  BY DEF Short, NoFiles
<1>7. NextPart(m)' - 1 <= answer'[m].parts  BY <1>1, <1>3 DEF AnswerOK
<1>8. CASE stage[m] \in {"push", "send"} /\ then = After(m)
  <2>1. Count(m, Upload)' = 0  BY <1>1, <1>8 DEF AnswerOK
  <2>2. \/ stage'[m] = "attach" /\ answer'[m].attach
        \/ stage'[m] = "done" /\ ~answer'[m].attach
    BY <1>8 DEF After
  <2>3. Short(m)' <= Told(m)'  BY <1>4, <1>5, <1>6
  <2>4. ~answer'[m].attach => NoFiles(m)' = 0  BY DEF NoFiles
  <2>5. ~answer'[m].attach => Short(m)' + NoFiles(m)' <= Told(m)'  BY <1>4, <1>6, <2>3, <2>4
  <2>6. AnswerOK(m)'  BY <1>2, <1>7, <2>1, <2>2, <2>3, <2>5 DEF AnswerOK, Early
  <2> QED  BY <2>6, OneAnswers
<1>9. CASE (stage[m] \in Early \cup {"error", "attach"}) /\ then = "done"
  <2>1. Short(m) + NoFiles(m) <= Told(m) + 1
    <3>1. CASE stage[m] = "attach"  BY <1>1, <1>5, <1>6, <3>1 DEF AnswerOK
    <3>2. CASE stage[m] # "attach"
      <4>1. answer[m].parts = 0 /\ ~answer[m].attach  BY <1>1, <1>9, <3>2 DEF AnswerOK, NoAnswer
      <4>2. NoFiles(m) = 0  BY <4>1 DEF NoFiles
      <4> QED  BY <1>5, <1>6, <4>2
    <3> QED  BY <3>1, <3>2
  <2>2. Short(m)' + NoFiles(m)' <= Told(m)'  BY <1>4, <1>5, <2>1
  <2>3. AnswerOK(m)'  BY <1>2, <1>7, <1>9, <2>2 DEF AnswerOK, Early
  <2> QED  BY <2>3, OneAnswers
<1> QED  BY <1>8, <1>9

\* A handler goes on or ends before it has anything to tell.
LEMMA EarlyKeepsAnswers ==
    ASSUME ChatConstants, ChatTypes, AnswerInv, NEW m \in Inputs, NEW then \in Early \cup {"done"},
           stage[m] \in Early, stage' = [stage EXCEPT ![m] = then],
           UNCHANGED << kind, answer, chat >>
    PROVE  AnswerInv'
<1>1. chat[m] = << >> /\ answer[m] = NoAnswer /\ AnswerOK(m)  BY DEF AnswerInv, AnswerOK
<1>2. stage'[m] = then /\ \A n \in Inputs \ {m} : stage'[n] = stage[n]  BY DEF ChatTypes
<1>3. /\ Parts(m) = {} /\ NextPart(m) = 1 /\ \A w : Count(m, w) = 0  BY <1>1, Silent
<1>4. Short(m) + NoFiles(m) <= Told(m)
  BY <1>1, <1>3 DEF Short, NoFiles, Told, NoAnswer
<1>5. /\ InOrder(m)' /\ NextPart(m)' = NextPart(m)
      /\ (Short(m) + NoFiles(m) <= Told(m))'
  BY <1>1, <1>4 DEF AnswerOK, InOrder, Parts, NextPart, Short, NoFiles, Told, Count, Upload, Notice
<1>6. AnswerOK(m)'  BY <1>1, <1>2, <1>5 DEF AnswerOK, Early
<1> QED  BY <1>2, <1>6, OneAnswers

LEMMA RunsKeepAnswers ==
    ASSUME ChatConstants, ChatTypes, AnswerInv, NEW m \in Inputs, RunEnds(m)
    PROVE  AnswerInv'
<1>1. stage[m] = "run" /\ UNCHANGED << kind, chat >>  BY DEF RunEnds, fixed
<1>2. PICK n \in 0 .. MaxParts[kind[m]], attach \in BOOLEAN, ok \in BOOLEAN :
          LET a == [parts |-> n, attach |-> attach, ok |-> ok, lost |-> 0] IN
          /\ attach => n > 0 /\ kind[m] \in Attaching
          /\ ~ok => n = 0
          /\ answer' = [answer EXCEPT ![m] = a]
          /\ Goto(m, IF n > 0 /\ ~SuppressDcPush(m) THEN "push"
                     ELSE IF kind[m] = "schedule" THEN "done" ELSE Deliver(m, a))
  BY DEF RunEnds
<1>3. n \in Nat  BY DEF ChatConstants, ChatTypes
<1>4. /\ answer'[m] = [parts |-> n, attach |-> attach, ok |-> ok, lost |-> 0]
      /\ \A k \in Inputs \ {m} : answer'[k] = answer[k]
  BY <1>2 DEF ChatTypes
<1>5. /\ stage'[m] \in {"push", "send", "done", "error"}
      /\ stage'[m] \in {"push", "send"} => n > 0
      /\ stage'[m] = "push" => kind[m] = "schedule"
      /\ stage'[m] \in {"done", "error"} => n = 0
      /\ \A k \in Inputs \ {m} : stage'[k] = stage[k]
  BY <1>2, <1>3 DEF ChatTypes, Goto, Deliver, SuppressDcPush
<1>6. chat[m] = << >>  BY <1>1 DEF AnswerInv, AnswerOK, Early
<1>7. /\ Parts(m) = {} /\ NextPart(m) = 1 /\ \A w : Count(m, w) = 0  BY <1>6, Silent
<1>8. /\ Parts(m)' = {} /\ NextPart(m)' = 1 /\ Count(m, Upload)' = 0 /\ Count(m, Notice)' = 0
  BY <1>1, <1>7 DEF Parts, NextPart, Count, Upload, Notice
<1>9. InOrder(m)'  BY <1>8 DEF InOrder
<1>10. n = 0 => ~attach  BY <1>2
<1>11. stage'[m] = "done" => (Short(m) + NoFiles(m) <= Told(m))'
  BY <1>4, <1>5, <1>8, <1>10 DEF Short, NoFiles, Told
<1>12. AnswerOK(m)'
  BY <1>1, <1>3, <1>4, <1>5, <1>8, <1>9, <1>10, <1>11 DEF AnswerOK, Early
<1> QED  BY <1>1, <1>4, <1>5, <1>12, OneAnswers

LEMMA UploadsKeepAnswers ==
    ASSUME ChatConstants, ChatTypes, AnswerInv, NEW m \in Inputs, SendAttachments(m)
    PROVE  AnswerInv'
<1>1. stage[m] = "attach" /\ kind' = kind  BY DEF SendAttachments, fixed
<1>2. CASE Notify(m, "done")
  <2>1. /\ stage'[m] = "done" /\ answer'[m].parts = answer[m].parts
        /\ answer'[m].attach = answer[m].attach
        /\ Parts(m)' = Parts(m) /\ \A i \in Parts(m) : chat'[m][i] = chat[m][i]
        /\ Count(m, Upload)' = Count(m, Upload)
        /\ Count(m, Notice)' + answer'[m].lost = Count(m, Notice) + answer[m].lost + 1
        /\ \A n \in Inputs \ {m} : /\ stage'[n] = stage[n] /\ answer'[n] = answer[n]
                                   /\ chat'[n] = chat[n]
    BY <1>2, Notices
  <2> QED  BY <1>1, <2>1, FailuresKeepAnswers
<1>3. CASE chat' = [chat EXCEPT ![m] = Append(@, Upload)] /\ Done(m) /\ UNCHANGED answer
  <2> PICK u \in Nat : u = Upload /\ u # 0 /\ u \notin 1 .. Most
    BY DEF Upload, ChatConstants
  <2>1. chat[m] \in Seq(Nat)  BY DEF ChatTypes
  <2>2. /\ chat'[m] = Append(chat[m], u) /\ stage'[m] = "done"
        /\ \A n \in Inputs \ {m} : chat'[n] = chat[n] /\ stage'[n] = stage[n]
    BY <1>3 DEF ChatTypes, Done, Goto
  <2>3. Parts(m)' = Parts(m)
    <3>1. Where(chat'[m], 1 .. Most) = Where(chat[m], 1 .. Most)  BY <2>1, <2>2, WhereStays
    <3> QED  BY <3>1, Sets
  <2>4. Count(m, Notice)' = Count(m, Notice)
    <3>1. Where(chat'[m], {0}) = Where(chat[m], {0})  BY <2>1, <2>2, WhereStays
    <3> QED  BY <3>1 DEF Count, Where, Notice
  <2>5. Count(m, Upload)' # 0
    <3>1. Cardinality(Where(chat'[m], {u})) = Cardinality(Where(chat[m], {u})) + 1
      BY <2>1, <2>2, WhereGrows
    <3>2. Cardinality(Where(chat[m], {u})) \in Nat  BY <2>1, WhereFinite
    <3>3. Count(m, Upload)' = Cardinality(Where(chat'[m], {u}))  BY DEF Count, Where, Upload
    <3> QED  BY <3>1, <3>2, <3>3
  <2>6. AnswerOK(m)  BY DEF AnswerInv
  <2>7. \A i \in Parts(m) : chat'[m][i] = chat[m][i]  BY <2>1, <2>2 DEF Parts
  <2>8. InOrder(m)' /\ NextPart(m)' = NextPart(m)
    BY <2>3, <2>6, <2>7 DEF AnswerOK, InOrder, NextPart
  <2>9. Short(m)' = Short(m) /\ NoFiles(m)' = 0 /\ Told(m)' = Told(m)
    BY <1>3, <2>4, <2>5, <2>8 DEF Short, NoFiles, Told
  <2>10. (Short(m) + NoFiles(m) <= Told(m))'
    BY <1>1, <2>6, <2>9 DEF AnswerOK, Short
  <2>11. AnswerOK(m)'  BY <1>3, <2>2, <2>6, <2>8, <2>10 DEF AnswerOK, Early
  <2> QED  BY <1>1, <1>3, <2>2, <2>11, OneAnswers
<1> QED  BY <1>2, <1>3 DEF SendAttachments

LEMMA NotifiesKeepAnswers ==
    ASSUME ChatConstants, ChatTypes, AnswerInv, NEW m \in Inputs, NEW then, Notify(m, then),
           kind' = kind,
           \/ stage[m] \in {"push", "send"} /\ then = After(m)
           \/ (stage[m] \in Early \cup {"error", "attach"}) /\ then = "done"
    PROVE  AnswerInv'
<1>1. /\ stage'[m] = then /\ answer'[m].parts = answer[m].parts
      /\ answer'[m].attach = answer[m].attach
      /\ Parts(m)' = Parts(m) /\ \A i \in Parts(m) : chat'[m][i] = chat[m][i]
      /\ Count(m, Upload)' = Count(m, Upload)
      /\ Count(m, Notice)' + answer'[m].lost = Count(m, Notice) + answer[m].lost + 1
      /\ \A n \in Inputs \ {m} : /\ stage'[n] = stage[n] /\ answer'[n] = answer[n]
                                 /\ chat'[n] = chat[n]
  BY Notices
<1> QED  BY <1>1, FailuresKeepAnswers

LEMMA PushesKeepAnswers ==
    ASSUME ChatConstants, ChatTypes, AnswerInv, NEW m \in Inputs, PushResult(m)
    PROVE  AnswerInv'
<1>1. stage[m] = "push" /\ kind' = kind /\ kind[m] = "schedule"
  BY DEF PushResult, fixed, AnswerInv, AnswerOK
<1>2. CASE ShowPart(m, IF kind[m] = "schedule" THEN After(m) ELSE Deliver(m, answer[m]))
  BY <1>1, <1>2, PartsKeepAnswers
<1>3. CASE /\ answer' = [answer EXCEPT ![m].lost = @ + 1]
           /\ Goto(m, After(m))
           /\ UNCHANGED chat
  <2>1. Notify(m, After(m))  BY <1>3 DEF Notify
  <2> QED  BY <1>1, <2>1, NotifiesKeepAnswers
<1> QED  BY <1>2, <1>3 DEF PushResult

LEMMA AnswersKept == ASSUME ChatConstants, ChatTypes, AlbumInv, AnswerInv, ChatNext PROVE AnswerInv'
<1>1. ASSUME UNCHANGED << kind, stage, answer, chat >> PROVE AnswerInv'
  BY <1>1, AnswersStay DEF AnswerInv
<1>2. ASSUME NEW m \in Inputs,
             \/ TextArrives(m) \/ PhotoArrives(m) \/ Add(m) \/ TelegramGate(m) \/ DiscordGate(m)
             \/ IsAuthorized(m) \/ Authorize(m) \/ Clear(m) \/ NewCode(m) \/ SetCode(m)
             \/ ScheduleRuns(m)
      PROVE  AnswerInv'
  <2>1. stage[m] \in Early /\ UNCHANGED << kind, answer, chat >>
    BY <1>2 DEF TextArrives, PhotoArrives, Add, TelegramGate, DiscordGate, IsAuthorized, Authorize,
       Clear, NewCode, SetCode, ScheduleRuns, Early, fixed, sendVars
  <2>2. PICK then \in Early \cup {"done"} : stage' = [stage EXCEPT ![m] = then]
    BY <1>2 DEF TextArrives, PhotoArrives, Add, TelegramGate, DiscordGate, IsAuthorized, Authorize,
       Clear, NewCode, SetCode, ScheduleRuns, Early, Goto, Done
  <2> QED  BY <2>1, <2>2, EarlyKeepsAnswers
<1>3. ASSUME NEW m \in Inputs, TelegramHear(m) \/ DiscordHear(m) \/ ResumeFromPending(m)
      PROVE  AnswerInv'
  <2>1. stage[m] \in Early /\ kind' = kind
    BY <1>3 DEF TelegramHear, DiscordHear, ResumeFromPending, Early, fixed
  <2>2. CASE Notify(m, "done")  BY <2>1, <2>2, NotifiesKeepAnswers
  <2>3. CASE (Goto(m, "done") \/ Goto(m, "run")) /\ UNCHANGED sendVars
    <3>1. PICK then \in Early \cup {"done"} : stage' = [stage EXCEPT ![m] = then]
      BY <2>3 DEF Goto, Early
    <3> QED  BY <2>1, <2>3, <3>1, EarlyKeepsAnswers DEF sendVars
  <2> QED
    BY <1>3, <2>2, <2>3 DEF TelegramHear, DiscordHear, ResumeFromPending, Transcribe,
                            SaveAttachments, Done
<1>4. ASSUME NEW m \in Inputs, TellError(m) PROVE AnswerInv'
  BY <1>4, NotifiesKeepAnswers DEF TellError, fixed
<1>5. ASSUME NEW m \in Inputs, SendPart(m) PROVE AnswerInv'
  <2>1. stage[m] = "send" /\ kind' = kind  BY <1>5 DEF SendPart, fixed
  <2> QED  BY <1>5, <2>1, PartsKeepAnswers, NotifiesKeepAnswers DEF SendPart
<1>6. ASSUME TimerFires \/ CodeExpires \/ \E r \in Removers : ReadChats(r) \/ WriteKept(r)
      PROVE  AnswerInv'
  BY <1>1, <1>6 DEF TimerFires, CodeExpires, ReadChats, WriteKept, Write, fixed, sendVars
<1>7. ASSUME Flush PROVE AnswerInv'
  <2>1. UNCHANGED << kind, answer, chat >>  BY <1>7 DEF Flush, fixed, sendVars
  <2>2. CASE album = << >>  BY <1>1, <1>7, <2>1, <2>2 DEF Flush
  <2>3. CASE album # << >>
    <3>1. \A n \in Inputs : stage'[n] = stage[n] \/ stage'[n] \in {"gate", "with"}
      BY <1>7, <2>3 DEF Flush, Take
    <3>2. \A n \in Inputs : stage'[n] # stage[n] => stage[n] \in Early
      <4>1. stage' = [n \in Inputs |-> IF n = Head(album) THEN "gate"
                                       ELSE IF n \in Grouped THEN "with" ELSE stage[n]]
        BY <1>7, <2>3 DEF Flush, Take, Grouped
      <4>2. \A n \in Grouped : stage[n] = "group"
        BY DEF AlbumInv
      <4>3. Head(album) \in Grouped
        <5>1. Head(album) = album[1] /\ 1 \in 1 .. Len(album)  BY <2>3 DEF ChatTypes
        <5> QED  BY <5>1 DEF Grouped
      <4> QED  BY <4>1, <4>2, <4>3 DEF Early
    <3>3. ASSUME NEW n \in Inputs, stage'[n] # stage[n] PROVE AnswerOK(n)'
      <4>1. stage[n] \in Early /\ stage'[n] \in {"gate", "with"}  BY <3>1, <3>2, <3>3
      <4>2. AnswerOK(n)  BY DEF AnswerInv
      <4>3. InOrder(n)' /\ NextPart(n)' = NextPart(n)
        BY <2>1, <4>2 DEF AnswerOK, InOrder, Parts, NextPart
      <4> QED  BY <2>1, <4>1, <4>2, <4>3 DEF AnswerOK, Early
    <3> QED  BY <2>1, <3>3, AnswersStay DEF AnswerInv
  <2> QED  BY <2>2, <2>3
<1> QED
  BY <1>2, <1>3, <1>4, <1>5, <1>6, <1>7, RunsKeepAnswers, PushesKeepAnswers, UploadsKeepAnswers
  DEF ChatNext

ChatInv == ChatTypes /\ OffListInv /\ AlbumInv /\ AnswerInv

LEMMA ChatStarts == ASSUME ChatConstants, ChatStart PROVE ChatInv
<1> PICK p \in Places, k \in [Inputs -> InputKinds], lines \in [Chats -> Nat],
         removals \in SUBSET Removers : ChatInit(p, k, lines, removals)
  BY DEF ChatStart
<1>1. /\ kind = k /\ listed = lines /\ gone = {} /\ album = << >>
      /\ timers = [armed |-> FALSE, old |-> 0, fired |-> 0]
      /\ files = [m \in Inputs |-> {}]
      /\ stage = [m \in Inputs |-> "new"]
      /\ answer = [m \in Inputs |-> NoAnswer]
      /\ chat = [m \in Inputs |-> << >>]
      /\ erase = [r \in Removers |-> [of |-> {}, read |-> lines, stale |-> FALSE,
                                      at |-> IF r \in removals THEN "new" ELSE "done"]]
  BY DEF ChatInit
<1>2. NoAnswer \in Answer  BY DEF NoAnswer, Answer, ChatConstants
<1>3. erase \in [Removers -> Erasing] /\ \A r \in Removers : erase[r].at # "read"
  BY <1>1 DEF Erasing
<1>4. ChatTypes  BY <1>1, <1>2, <1>3 DEF ChatTypes, Stages, Early
<1>5. OffListInv  BY <1>1, <1>3 DEF OffListInv, RemovedStaysOut
<1>6. AlbumInv
  <2>1. Grouped = {} /\ \A m : Holders(m) = {}  BY <1>1 DEF Grouped, Holders
  <2> QED  BY <1>1, <2>1 DEF AlbumInv
<1>7. ASSUME NEW m \in Inputs PROVE AnswerOK(m)
  <2>1. chat[m] = << >> /\ answer[m] = NoAnswer /\ stage[m] = "new"  BY <1>1
  <2>2. Parts(m) = {} /\ NextPart(m) = 1  BY <2>1, Silent
  <2>3. InOrder(m)  BY <2>2 DEF InOrder
  <2>4. NextPart(m) - 1 <= answer[m].parts  BY <2>1, <2>2 DEF NoAnswer
  <2> QED  BY <2>1, <2>3, <2>4 DEF AnswerOK
<1> QED  BY <1>4, <1>5, <1>6, <1>7 DEF ChatInv, AnswerInv

LEMMA ChatInvHolds == ASSUME ChatConstants PROVE ChatSpec => []ChatInv
<1>1. ChatStart => ChatInv  BY ChatStarts
<1>2. ChatInv /\ [ChatNext]_chatVars => ChatInv'
  <2>1. ASSUME ChatInv, ChatNext PROVE ChatInv'
    BY <2>1, ChatTypesHold, OffListKept, AlbumKept, AnswersKept DEF ChatInv
  <2>2. ASSUME ChatInv, UNCHANGED chatVars PROVE ChatInv'
    <3>1. UNCHANGED << kind, listed, gone, album, timers, files, stage, answer, chat, erase >>
      BY <2>2 DEF chatVars, fixed, doorVars, albumVars, sendVars
    <3>2. ChatTypes' /\ OffListInv'
      BY <2>2, <3>1 DEF ChatInv, ChatTypes, OffListInv, RemovedStaysOut
    <3>3. AlbumInv'  BY <2>2, <3>1 DEF ChatInv, AlbumInv, Grouped, Holders
    <3>4. AnswerInv'  BY <2>2, <3>1, AnswersStay DEF ChatInv, AnswerInv
    <3> QED  BY <3>2, <3>3, <3>4 DEF ChatInv
  <2> QED  BY <2>1, <2>2
<1> QED  BY <1>1, <1>2, PTL DEF ChatSpec

(* A file of an album waits in the group, with a timer or a flush to come,  *)
(* or one handler has it, however timers, late files and flushes cross      *)
(* (filegroup.go).                                                          *)
THEOREM FilesHandledOnce == ASSUME ChatConstants PROVE ChatSpec => []FilesOnce
<1>1. ChatInv => FilesOnce
  <2> SUFFICES ASSUME ChatInv, NEW m \in Inputs, kind[m] = "file", stage[m] # "new"
               PROVE  LET waits == \E i \in 1 .. Len(album) : album[i] = m
                          holders == {h \in Inputs : m \in files[h]}
                      IN  /\ waits => holders = {} /\ (timers.armed \/ timers.fired > 0)
                          /\ ~waits => Cardinality(holders) = 1
    BY DEF FilesOnce
  <2>1. IF m \in Grouped THEN Holders(m) = {} ELSE \E h \in Inputs : Holders(m) = {h}
    BY DEF ChatInv, AlbumInv
  <2>2. album # << >> => timers.armed \/ timers.fired > 0  BY DEF ChatInv, AlbumInv
  <2>3. CASE m \in Grouped
    <3>1. album # << >>  BY <2>3 DEF Grouped
    <3> QED  BY <2>1, <2>2, <2>3, <3>1 DEF Grouped, Holders
  <2>4. CASE m \notin Grouped
    <3>1. PICK h \in Inputs : Holders(m) = {h}  BY <2>1, <2>4
    <3>2. Cardinality({h}) = 1  BY FS_Singleton
    <3> QED  BY <2>4, <3>1, <3>2 DEF Grouped, Holders
  <2> QED  BY <2>3, <2>4
<1> QED  BY <1>1, ChatInvHolds, PTL

(* A chat sees the parts of an answer once and in order, and when the       *)
(* handler is through all of them and the files, but for a notice for each  *)
(* that was cut short, shown or lost (reply.go and the push hooks).         *)
THEOREM AnswersAreTold == ASSUME ChatConstants PROVE ChatSpec => []AnswersTold
<1>1. ChatInv => AnswersTold
  BY DEF ChatInv, AnswerInv, AnswerOK, AnswersTold, InOrder, Short, NoFiles, Told
<1> QED  BY <1>1, ChatInvHolds, PTL

(* A chat that was taken off the list of verified chats is not on it until  *)
(* it enters a code again, unless two removals overlap (channel.go).        *)
THEOREM RemovedStayOut == ASSUME ChatConstants PROVE ChatSpec => []RemovedStaysOut
<1>1. ChatInv => RemovedStaysOut  BY DEF ChatInv, OffListInv
<1> QED  BY <1>1, ChatInvHolds, PTL
=============================================================================
