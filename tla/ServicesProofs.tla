--------------------------- MODULE ServicesProofs ---------------------------
(***************************************************************************)
(* Theorems about the services beside the broker, for any numbers of       *)
(* resolvers, files, nodes, deletes, execs, pids, clients and tokens.      *)
(***************************************************************************)
EXTENDS LocalProvider, FileConfig, Access, TLAPS

-----------------------------------------------------------------------------
(* File references *)

(* A version enters the cache only while a resolver that found none there  *)
(* has the lock, so the cache of a file is written once; whatever has been *)
(* resolved is what the cache holds (file.rs 51-61).                       *)
ConfigInv ==
    /\ ConfigTypeOK
    /\ \A r \in Resolvers :
         /\ rpc[r] = "read" => cached[want[r]] = 0
         /\ rpc[r] \in {"wait", "read"} => Len(got[r]) < RefsPerConfig
    /\ \A r \in Resolvers : \A i \in 1..Len(got[r]) :
         got[r][i].version = cached[got[r][i].file]

(* What a lookup of a version does to the resolved references: at most one *)
(* is added, of the file that was asked for (config/mod.rs, file.rs 63-87).*)
LEMMA LookupFacts ==
    ASSUME ConfigTypeOK, NEW r \in Resolvers, NEW v \in 1..MaxVersion, Lookup(r, v),
           Len(got[r]) < RefsPerConfig
    PROVE  /\ got' \in [Resolvers -> Seq(Resolved)]
           /\ rpc' \in [Resolvers -> {"idle", "wait", "read", "ok", "error"}]
           /\ rpc'[r] # "read" /\ rpc'[r] # "wait" /\ \A s \in Resolvers \ {r} : rpc'[s] = rpc[s]
           /\ \A s \in Resolvers : Len(got'[s]) <= RefsPerConfig
           /\ \A s \in Resolvers \ {r} : got'[s] = got[s]
           /\ \A s \in Resolvers : \A i \in 1..Len(got'[s]) :
                \/ i \in 1..Len(got[s]) /\ got'[s][i] = got[s][i]
                \/ got'[s][i] = [file |-> want[r], version |-> v]
<1> DEFINE T == Seq(Resolved)
           e == [file |-> want[r], version |-> v]
<1>1. e \in Resolved
  BY DEF ConfigTypeOK, Resolved
<1>2. got[r] \in T /\ Len(got[r]) \in Nat
  BY DEF ConfigTypeOK
<1>3. CASE got' = [got EXCEPT ![r] = Append(@, e)]
           /\ rpc' = [rpc EXCEPT ![r] = IF Len(got[r]) + 1 = RefsPerConfig THEN "ok" ELSE "idle"]
  <2>1. got'[r] = Append(got[r], e) /\ \A s \in Resolvers \ {r} : got'[s] = got[s]
    BY <1>3 DEF ConfigTypeOK
  <2>2. Append(got[r], e) \in T /\ Len(Append(got[r], e)) = Len(got[r]) + 1
    BY <1>1, <1>2
  <2>3. \A i \in 1..Len(got'[r]) :
          (i \in 1..Len(got[r]) /\ got'[r][i] = got[r][i]) \/ got'[r][i] = e
    BY <1>1, <1>2, <2>1, <2>2
  <2>4. got' \in [Resolvers -> T]
    BY <1>3, <2>2 DEF ConfigTypeOK
  <2>5. \A s \in Resolvers : \A i \in 1..Len(got'[s]) :
          (i \in 1..Len(got[s]) /\ got'[s][i] = got[s][i]) \/ got'[s][i] = e
    BY <2>1, <2>3
  <2>6. Len(got[r]) + 1 <= RefsPerConfig
    BY <1>2, ConfigAssumption
  <2>7. \A s \in Resolvers : Len(got'[s]) <= RefsPerConfig
    BY <2>1, <2>2, <2>6 DEF ConfigTypeOK
  <2> HIDE DEF e
  <2>8. /\ rpc' \in [Resolvers -> {"idle", "wait", "read", "ok", "error"}]
        /\ rpc'[r] # "read" /\ rpc'[r] # "wait" /\ \A s \in Resolvers \ {r} : rpc'[s] = rpc[s]
    BY <1>3 DEF ConfigTypeOK
  <2> QED BY <2>1, <2>4, <2>5, <2>7, <2>8 DEF e
<1>4. CASE rpc' = [rpc EXCEPT ![r] = "error"] /\ UNCHANGED got
  BY <1>4 DEF ConfigTypeOK
<1> QED BY <1>3, <1>4 DEF Lookup

LEMMA ConfigInitInv == ConfigInit => ConfigInv
<1> SUFFICES ASSUME ConfigInit PROVE ConfigInv
  OBVIOUS
<1>1. (CHOOSE f \in Files : TRUE) \in Files
  BY ConfigAssumption
<1>2. \A r \in Resolvers : got[r] = <<>> /\ Len(got[r]) = 0
  BY DEF ConfigInit
<1>3. got \in [Resolvers -> Seq(Resolved)]
  BY DEF ConfigInit
<1>4. want \in [Resolvers -> Files]
  BY <1>1 DEF ConfigInit
<1> QED BY <1>2, <1>3, <1>4, ConfigAssumption DEF ConfigInit, ConfigInv, ConfigTypeOK

LEMMA ConfigNextInv == ConfigInv /\ [ConfigNext]_configVars => ConfigInv'
<1> SUFFICES ASSUME ConfigInv, [ConfigNext]_configVars PROVE ConfigInv'
  OBVIOUS
<1> USE ConfigAssumption
<1>1. ASSUME NEW f \in Files, EditFile(f) PROVE ConfigInv'
  BY SMTT(30), <1>1 DEF EditFile, ConfigInv, ConfigTypeOK
<1>2. ASSUME NEW f \in Files, BreakFile(f) PROVE ConfigInv'
  BY <1>2 DEF BreakFile, ConfigInv, ConfigTypeOK
<1>3. ASSUME NEW r \in Resolvers, NextReference(r) PROVE ConfigInv'
  <2>1. /\ rpc[r] = "idle" /\ Len(got[r]) < RefsPerConfig
        /\ UNCHANGED <<file, edits, cached, mutex, got>>
    BY <1>3 DEF NextReference
  <2>2. CASE \E f \in Files : want' = [want EXCEPT ![r] = f]
                              /\ rpc' = [rpc EXCEPT ![r] = "wait"]
    <3>1. ConfigTypeOK'
      BY SMTT(30), <2>1, <2>2 DEF ConfigInv, ConfigTypeOK
    <3>2. \A s \in Resolvers :
            /\ rpc'[s] = "read" => rpc[s] = "read" /\ want'[s] = want[s]
            /\ rpc'[s] \in {"wait", "read"} => Len(got[s]) < RefsPerConfig
      BY <2>1, <2>2 DEF ConfigInv, ConfigTypeOK
    <3> QED BY <2>1, <3>1, <3>2 DEF ConfigInv
  <2>3. CASE rpc' = [rpc EXCEPT ![r] = "error"] /\ UNCHANGED want
    <3>1. ConfigTypeOK'
      BY <2>1, <2>3 DEF ConfigInv, ConfigTypeOK
    <3>2. \A s \in Resolvers :
            /\ rpc'[s] = "read" => rpc[s] = "read" /\ want'[s] = want[s]
            /\ rpc'[s] \in {"wait", "read"} => Len(got[s]) < RefsPerConfig
      BY <2>1, <2>3 DEF ConfigInv, ConfigTypeOK
    <3> QED BY <2>1, <3>1, <3>2 DEF ConfigInv
  <2> QED BY <1>3, <2>2, <2>3 DEF NextReference
<1>4. ASSUME NEW r \in Resolvers, LoadLock(r) PROVE ConfigInv'
  <2> DEFINE hit == cached[want[r]]
  <2>1. rpc[r] = "wait" /\ mutex = "free" /\ UNCHANGED <<file, edits, cached, want>>
    BY <1>4 DEF LoadLock
  <2>2. CASE hit # 0 /\ Lookup(r, hit) /\ UNCHANGED mutex
    <3>1. hit \in 1..MaxVersion
      BY <2>2 DEF ConfigInv, ConfigTypeOK
    <3>2. Len(got[r]) < RefsPerConfig
      BY <2>1 DEF ConfigInv
    <3> HIDE DEF hit
    <3>3. /\ got' \in [Resolvers -> Seq(Resolved)]
          /\ rpc' \in [Resolvers -> {"idle", "wait", "read", "ok", "error"}]
          /\ rpc'[r] # "read" /\ rpc'[r] # "wait" /\ \A s \in Resolvers \ {r} : rpc'[s] = rpc[s]
          /\ \A s \in Resolvers : Len(got'[s]) <= RefsPerConfig
          /\ \A s \in Resolvers \ {r} : got'[s] = got[s]
          /\ \A s \in Resolvers : \A i \in 1..Len(got'[s]) :
               \/ i \in 1..Len(got[s]) /\ got'[s][i] = got[s][i]
               \/ got'[s][i] = [file |-> want[r], version |-> hit]
      BY <2>2, <3>1, <3>2, LookupFacts DEF ConfigInv
    <3>4. \A s \in Resolvers : \A i \in 1..Len(got'[s]) :
            got'[s][i].version = cached'[got'[s][i].file]
      <4> SUFFICES ASSUME NEW s \in Resolvers, NEW i \in 1..Len(got'[s])
                   PROVE  got'[s][i].version = cached'[got'[s][i].file]
        OBVIOUS
      <4>1. CASE i \in 1..Len(got[s]) /\ got'[s][i] = got[s][i]
        BY <2>1, <4>1 DEF ConfigInv
      <4>2. CASE got'[s][i] = [file |-> want[r], version |-> hit]
        BY <2>1, <4>2 DEF hit
      <4> QED BY <3>3, <4>1, <4>2
    <3>5. ConfigTypeOK'
      BY <2>1, <2>2, <3>3 DEF ConfigInv, ConfigTypeOK
    <3>6. ASSUME NEW s \in Resolvers
          PROVE  /\ rpc'[s] = "read" => cached'[want'[s]] = 0
                 /\ rpc'[s] \in {"wait", "read"} => Len(got'[s]) < RefsPerConfig
      <4>1. CASE s = r
        BY <3>3, <4>1
      <4>2. CASE s # r
        BY <2>1, <3>3, <4>2 DEF ConfigInv
      <4> QED BY <4>1, <4>2
    <3> QED BY <3>4, <3>5, <3>6 DEF ConfigInv
  <2>3. CASE hit = 0 /\ mutex' = r /\ rpc' = [rpc EXCEPT ![r] = "read"] /\ UNCHANGED got
    <3>1. r # "free" /\ rpc \in [Resolvers -> {"idle", "wait", "read", "ok", "error"}]
      BY ConfigAssumption DEF ConfigInv, ConfigTypeOK
    <3>2. /\ rpc' \in [Resolvers -> {"idle", "wait", "read", "ok", "error"}]
          /\ rpc'[r] = "read" /\ \A s \in Resolvers \ {r} : rpc'[s] = rpc[s]
      BY <2>3, <3>1
    <3>3. \A s \in Resolvers : rpc[s] # "read"
      BY <2>1, ConfigAssumption DEF ConfigInv, ConfigTypeOK
    <3>4. \A s \in Resolvers : rpc'[s] = "read" <=> mutex' = s
      BY <2>3, <3>2, <3>3
    <3>5. ConfigTypeOK'
      BY <2>1, <2>3, <3>2, <3>4 DEF ConfigInv, ConfigTypeOK
    <3> QED BY <2>1, <2>3, <3>2, <3>5 DEF ConfigInv
  <2> QED BY <1>4, <2>2, <2>3 DEF LoadLock
<1>5. ASSUME NEW r \in Resolvers, LoadRead(r) PROVE ConfigInv'
  <2>1. rpc[r] = "read" /\ mutex = r /\ mutex' = "free" /\ UNCHANGED <<file, edits, want>>
    BY <1>5 DEF LoadRead, ConfigInv, ConfigTypeOK
  <2>2. CASE rpc' = [rpc EXCEPT ![r] = "error"] /\ UNCHANGED <<cached, got>>
    BY <2>1, <2>2 DEF ConfigInv, ConfigTypeOK
  <2>3. CASE /\ file[want[r]] # 0
             /\ cached' = [cached EXCEPT ![want[r]] = file[want[r]]]
             /\ Lookup(r, file[want[r]])
    <3> DEFINE v == file[want[r]]
    <3>1. v \in 1..MaxVersion /\ cached' \in [Files -> 0..MaxVersion] /\ cached'[want[r]] = v
          /\ cached[want[r]] = 0 /\ \A f \in Files \ {want[r]} : cached'[f] = cached[f]
      BY <2>1, <2>3 DEF ConfigInv, ConfigTypeOK
    <3>2. Len(got[r]) < RefsPerConfig
      BY <2>1 DEF ConfigInv
    <3>a. Lookup(r, v)
      BY <2>3
    <3> HIDE DEF v
    <3>3. /\ got' \in [Resolvers -> Seq(Resolved)]
          /\ rpc' \in [Resolvers -> {"idle", "wait", "read", "ok", "error"}]
          /\ rpc'[r] # "read" /\ rpc'[r] # "wait" /\ \A s \in Resolvers \ {r} : rpc'[s] = rpc[s]
          /\ \A s \in Resolvers : Len(got'[s]) <= RefsPerConfig
          /\ \A s \in Resolvers \ {r} : got'[s] = got[s]
          /\ \A s \in Resolvers : \A i \in 1..Len(got'[s]) :
               \/ i \in 1..Len(got[s]) /\ got'[s][i] = got[s][i]
               \/ got'[s][i] = [file |-> want[r], version |-> v]
      BY <3>a, <3>1, <3>2, LookupFacts DEF ConfigInv
    <3>b. \A s \in Resolvers : \A i \in 1..Len(got[s]) : got[s][i] \in Resolved
      BY DEF ConfigInv, ConfigTypeOK
    <3>c. \A s \in Resolvers : \A i \in 1..Len(got[s]) :
            got[s][i].file # want[r] /\ got[s][i].file \in Files
      BY <3>1, <3>b DEF ConfigInv, Resolved
    <3>4. \A s \in Resolvers : \A i \in 1..Len(got'[s]) :
            got'[s][i].version = cached'[got'[s][i].file]
      <4> SUFFICES ASSUME NEW s \in Resolvers, NEW i \in 1..Len(got'[s])
                   PROVE  got'[s][i].version = cached'[got'[s][i].file]
        OBVIOUS
      <4>1. CASE i \in 1..Len(got[s]) /\ got'[s][i] = got[s][i]
        BY <3>1, <3>c, <4>1 DEF ConfigInv
      <4>2. CASE got'[s][i] = [file |-> want[r], version |-> v]
        BY <3>1, <4>2
      <4> QED BY <3>3, <4>1, <4>2
    <3>5. ConfigTypeOK'
      BY ZenonT(30), <2>1, <3>1, <3>3 DEF ConfigInv, ConfigTypeOK
    <3>6. \A s \in Resolvers : rpc'[s] # "read"
      BY <2>1, <3>3 DEF ConfigInv, ConfigTypeOK
    <3> QED BY <2>1, <3>3, <3>4, <3>5, <3>6 DEF ConfigInv
  <2> QED BY <1>5, <2>2, <2>3 DEF LoadRead
<1>6. CASE UNCHANGED configVars
  BY <1>6 DEF configVars, ConfigInv, ConfigTypeOK
<1> QED BY <1>1, <1>2, <1>3, <1>4, <1>5, <1>6 DEF ConfigNext, ConfigRuns

(* However the operator edits, breaks and restores the files, and however  *)
(* the resolvers interleave, all references to a file resolve from one     *)
(* version of it, for any numbers of resolvers, files and edits (file.rs   *)
(* 34-87).                                                                 *)
THEOREM ConfigsAgree == ConfigSpec => []ResolvedOK
<1>1. ConfigInv => ResolvedOK
  <2> SUFFICES ASSUME ConfigInv PROVE OneVersionOfAFile
    BY DEF ConfigInv, ResolvedOK
  <2> QED BY DEF ConfigInv, OneVersionOfAFile
<1> QED BY <1>1, ConfigInitInv, ConfigNextInv, PTL DEF ConfigSpec

-----------------------------------------------------------------------------
(* Access *)

Token == [sub : Agents \cup {Operator}, role : {"admin", "agent", "other"}, exp : Int,
          iss : {"ours", "theirs"}]

Connection == [who : Parties, agent : Agents, kind : {"stream", "tunnel"}, since : Nat]

AccessTypeOK ==
    /\ now \in 1..MaxTime
    /\ held \in [Parties -> SUBSET Token]
    /\ open \in SUBSET Connection

(* AccessOK is inductive with the types of what it speaks of. *)
AccessInv == AccessTypeOK /\ AccessOK

LEMMA AccessInitInv == AccessInit => AccessInv
<1> SUFFICES ASSUME AccessInit PROVE AccessInv
  OBVIOUS
<1> USE AccessAssumption
<1>1. now \in 1..MaxTime /\ open = {}
  BY DEF AccessInit
<1>2. \A p \in Parties : \A tok \in held[p] :
        tok \in Token /\ (p \in Clients /\ tok.role = "admin" => tok.iss = "theirs")
  <2> SUFFICES ASSUME NEW p \in Parties, NEW tok \in held[p]
               PROVE  tok \in Token /\ (p \in Clients /\ tok.role = "admin" => tok.iss = "theirs")
    OBVIOUS
  <2>1. CASE p = Operator
    <3>1. tok = Claims(Operator, "admin", AdminExpiry, "ours")
      BY <2>1 DEF AccessInit
    <3> QED BY <2>1, <3>1 DEF Claims, Token, Parties
  <2>2. CASE p # Operator
    <3>1. \/ \E a \in Agents : tok = Claims(a, "other", MaxTime, "ours")
          \/ tok = Claims(Operator, "admin", MaxTime, "theirs")
      BY <2>2 DEF AccessInit
    <3> QED BY <3>1 DEF Claims, Token
  <2> QED BY <2>1, <2>2
<1>3. held \in [Parties -> SUBSET Token]
  <2>1. held = [p \in Parties |-> held[p]]
    BY DEF AccessInit
  <2> QED BY <1>2, <2>1
<1>4. NoEscalation
  BY <1>2 DEF NoEscalation, AccessInit, NoRequest, Parties
<1> QED BY <1>1, <1>3, <1>4 DEF AccessInv, AccessTypeOK, AccessOK, OpenedWithAGrant

(* A minted token is the operator's server's own, for an agent, and good   *)
(* unless now + ttl overflowed (protocol jwt.rs, api/tokens.rs 58-71).     *)
LEMMA MintFacts ==
    ASSUME AccessTypeOK, NEW a \in Agents, NEW ttl \in Ttls, ttl > 0
    PROVE  LET tok == ClaimsAgent(a, ttl)
           IN  /\ tok \in Token /\ tok.role = "agent" /\ tok.iss = "ours" /\ tok.sub = a
               /\ tok.exp >= 0 => tok.exp > now /\ Validate(tok)
<1> DEFINE e == Plus(now, ttl)
<1>1. ttl \in 1..MaxI64 /\ now \in 1..MaxI64
  BY AccessAssumption DEF AccessTypeOK
<1>2. e \in Int /\ (e >= 0 => e > now)
  BY <1>1, AccessAssumption DEF Plus
<1>3. e >= 0 => e >= now - Leeway
  BY <1>1, <1>2, AccessAssumption
<1> HIDE DEF e
<1>4. ClaimsAgent(a, ttl) = [sub |-> a, role |-> "agent", exp |-> e, iss |-> "ours"]
  BY DEF ClaimsAgent, Claims, e
<1> QED BY <1>2, <1>3, <1>4 DEF Token, Validate, Unexpired

(* What a request or a tick can do to the tokens: the operator adds one to *)
(* a client's, or nothing changes (api/tokens.rs 36-78).                   *)
LEMMA HeldNext ==
    ASSUME AccessInv, [AccessNext]_accessVars
    PROVE  \/ UNCHANGED held
           \/ \E to \in Clients, a \in Agents, ttl \in Ttls :
                /\ ttl > 0 /\ UNCHANGED now /\ UNCHANGED open
                /\ answer' = [who |-> Operator, route |-> "mint", result |-> "ok"]
                /\ held' = [held EXCEPT ![to] = @ \cup {ClaimsAgent(a, ttl)}]
<1>1. ASSUME NEW p \in Parties, NEW tok \in held[p], NEW a \in Agents, NEW ttl \in Ttls,
             NEW to \in Clients, MintToken(p, tok, a, ttl, to), held' # held
      PROVE  /\ ttl > 0 /\ UNCHANGED now /\ UNCHANGED open
             /\ answer' = [who |-> Operator, route |-> "mint", result |-> "ok"]
             /\ held' = [held EXCEPT ![to] = @ \cup {ClaimsAgent(a, ttl)}]
  <2>1. /\ RequireAdmin(tok) = "ok" /\ ~(ttl <= 0) /\ UNCHANGED <<now, open>>
        /\ answer' = [who |-> p, route |-> "mint", result |-> "ok"]
        /\ held' = [held EXCEPT ![to] = @ \cup {ClaimsAgent(a, ttl)}]
    BY <1>1 DEF MintToken, Respond
  <2>2. tok.role = "admin" /\ tok.iss = "ours"
    BY <2>1 DEF RequireAdmin, Validate
  <2>3. p = Operator
    BY <2>2 DEF AccessInv, AccessOK, NoEscalation, Parties
  <2>4. ttl > 0
    BY <2>1, AccessAssumption
  <2> QED BY <2>1, <2>3, <2>4
<1> QED BY <1>1 DEF AccessNext, accessVars, AccessTick, CloseConnection, NoToken, AdminRoute,
                    AgentRoute, TunnelUpgrade

(* Tokens are never taken back, so what was granted stays granted. *)
LEMMA HeldGrows ==
    ASSUME AccessInv, [AccessNext]_accessVars
    PROVE  /\ held' \in [Parties -> SUBSET Token]
           /\ \A p \in Parties : held[p] \subseteq held'[p]
           /\ \A p \in Parties : \A tok \in held'[p] \ held[p] :
                /\ tok.role = "agent"
                /\ tok.exp >= 0 => tok.exp > now /\ Validate(tok)
<1>1. CASE UNCHANGED held
  BY <1>1 DEF AccessInv, AccessTypeOK
<1>2. ASSUME NEW to \in Clients, NEW a \in Agents, NEW ttl \in Ttls, ttl > 0,
             held' = [held EXCEPT ![to] = @ \cup {ClaimsAgent(a, ttl)}]
      PROVE  /\ held' \in [Parties -> SUBSET Token]
             /\ \A p \in Parties : held[p] \subseteq held'[p]
             /\ \A p \in Parties : \A tok \in held'[p] \ held[p] : tok = ClaimsAgent(a, ttl)
  <2>1. ClaimsAgent(a, ttl) \in Token
    BY <1>2, MintFacts DEF AccessInv
  <2> QED BY <1>2, <2>1 DEF AccessInv, AccessTypeOK, Parties
<1> QED BY <1>1, <1>2, HeldNext, MintFacts DEF AccessInv

LEMMA GrantedStays ==
    ASSUME AccessInv, [AccessNext]_accessVars, NEW p \in Parties, NEW a, NEW at, Granted(p, a, at)
    PROVE  Granted(p, a, at)'
  BY HeldGrows DEF Granted

LEMMA ClockNext ==
    ASSUME AccessInv, [AccessNext]_accessVars
    PROVE  now \in 1..MaxTime /\ now' \in 1..MaxTime /\ now <= now'
<1>1. now \in 1..MaxTime /\ MaxTime \in Nat
  BY AccessAssumption DEF AccessInv, AccessTypeOK
<1>2. CASE AccessTick
  BY <1>1, <1>2 DEF AccessTick
<1>3. CASE UNCHANGED now
  BY <1>1, <1>3
<1>4. AccessTick \/ UNCHANGED now
  BY ZenonT(30) DEF AccessNext, accessVars, CloseConnection, NoToken, MintToken, AdminRoute, AgentRoute,
         TunnelUpgrade
<1> QED BY <1>2, <1>3, <1>4

LEMMA AccessNextInv == AccessInv /\ [AccessNext]_accessVars => AccessInv'
<1> SUFFICES ASSUME AccessInv, [AccessNext]_accessVars PROVE AccessInv'
  OBVIOUS
<1> USE AccessAssumption
<1>1. now' \in 1..MaxTime
  BY ClockNext
<1>2. held' \in [Parties -> SUBSET Token]
  BY HeldGrows
<1>3. \A p \in Clients : \A tok \in held'[p] : tok.role = "admin" => tok.iss = "theirs"
  BY HeldGrows DEF AccessInv, AccessOK, NoEscalation, Parties
(* Who is let in has a token for it. *)
<1>4. ASSUME NEW p \in Parties, NEW tok \in held[p], NEW a \in Agents,
             p \in Clients, RequireAgentOrAdmin(tok, a) = "ok"
      PROVE  Granted(p, a, now)
  <2>1. Validate(tok) /\ (tok.role = "admin" \/ tok.sub = a)
    BY <1>4 DEF RequireAgentOrAdmin
  <2>2. tok.role = "agent"
    BY <1>4, <2>1 DEF Validate, AccessInv, AccessOK, NoEscalation
  <2> QED BY <2>1, <2>2 DEF Validate, Unexpired, Granted
<1>5. ASSUME NEW p \in Parties, NEW tok \in held[p], NEW a \in Agents,
             AuthorizeTunnel(tok, a) = "ok"
      PROVE  Granted(p, a, now)
  BY <1>5 DEF AuthorizeTunnel, Validate, Unexpired, Granted
<1>6. ASSUME NEW p \in Parties, NEW tok \in held[p], RequireAdmin(tok) = "ok"
      PROVE  p = Operator
  BY <1>6 DEF RequireAdmin, Validate, AccessInv, AccessOK, NoEscalation, Parties
<1>7. \A c \in open' \ open :
        /\ c \in Connection
        /\ c.who \in Clients \/ c.kind = "tunnel" => Granted(c.who, c.agent, c.since)
  <2>1. ASSUME NEW p \in Parties, NEW tok \in held[p], NEW a \in Agents, NEW stays \in BOOLEAN,
               AgentRoute(p, tok, a, stays), NEW c \in open' \ open
        PROVE  /\ c \in Connection
               /\ c.who \in Clients \/ c.kind = "tunnel" => Granted(c.who, c.agent, c.since)
    <3>1. /\ RequireAgentOrAdmin(tok, a) = "ok"
          /\ c = [who |-> p, agent |-> a, kind |-> "stream", since |-> now]
      BY <2>1 DEF AgentRoute
    <3> QED BY <1>4, <3>1 DEF Connection, AccessInv, AccessTypeOK
  <2>2. ASSUME NEW p \in Parties, NEW tok \in held[p], NEW a \in Agents,
               TunnelUpgrade(p, tok, a), NEW c \in open' \ open
        PROVE  c \in Connection /\ Granted(c.who, c.agent, c.since)
    <3>1. /\ AuthorizeTunnel(tok, a) = "ok"
          /\ c = [who |-> p, agent |-> a, kind |-> "tunnel", since |-> now]
      BY <2>2 DEF TunnelUpgrade
    <3> QED BY <1>5, <3>1 DEF Connection, AccessInv, AccessTypeOK
  <2> QED BY <2>1, <2>2 DEF AccessNext, accessVars, AccessTick, CloseConnection, NoToken,
                            MintToken, AdminRoute
<1>8. open' \in SUBSET Connection
  BY <1>7 DEF AccessInv, AccessTypeOK
<1>9. OpenedWithAGrant'
  <2> SUFFICES ASSUME NEW c \in open', c.who \in Clients \/ c.kind = "tunnel"
               PROVE  Granted(c.who, c.agent, c.since)'
    BY DEF OpenedWithAGrant
  <2>1. Granted(c.who, c.agent, c.since)
    BY <1>7 DEF AccessInv, AccessOK, OpenedWithAGrant
  <2>2. c.who \in Parties
    BY <1>8 DEF Connection
  <2> QED BY <2>1, <2>2, GrantedStays
<1>10. answer'.route \in {"mint", "admin"} /\ answer'.result = "ok" => answer'.who = Operator
  <2>1. ASSUME NEW p \in Parties, NEW tok \in held[p], NEW a \in Agents, NEW ttl \in Ttls,
               NEW to \in Clients, MintToken(p, tok, a, ttl, to)
        PROVE  answer'.result = "ok" => answer'.who = Operator
    <3>1. answer'.result = "ok" => RequireAdmin(tok) = "ok"
      BY <2>1 DEF MintToken, Respond
    <3>2. answer'.who = p
      BY <2>1 DEF MintToken, Respond
    <3> QED BY <1>6, <3>1, <3>2
  <2>2. ASSUME NEW p \in Parties, NEW tok \in held[p], NEW a \in Agents, AdminRoute(p, tok, a)
        PROVE  answer'.result = "ok" => answer'.who = Operator
    BY <1>6, <2>2 DEF AdminRoute, Respond
  <2>3. ASSUME NEW p \in Parties, NoToken(p) PROVE answer'.result # "ok"
    BY <2>3 DEF NoToken, Respond
  <2>4. ASSUME NEW p \in Parties, NEW tok \in held[p], NEW a \in Agents, NEW stays \in BOOLEAN,
               AgentRoute(p, tok, a, stays) \/ TunnelUpgrade(p, tok, a)
        PROVE  answer'.route \in {"agent", "tunnel"}
    BY <2>4 DEF AgentRoute, TunnelUpgrade, Respond
  <2>5. CASE UNCHANGED answer
    BY <2>5 DEF AccessInv, AccessOK, NoEscalation
  <2> QED BY <2>1, <2>2, <2>3, <2>4, <2>5 DEF AccessNext, accessVars, AccessTick, CloseConnection
<1> QED BY <1>1, <1>2, <1>3, <1>8, <1>9, <1>10
        DEF AccessInv, AccessTypeOK, AccessOK, NoEscalation

(* For any agents, clients, lifetimes and clock: whatever a client has     *)
(* opened it had an unexpired grant for, and only the operator mints,      *)
(* lists and deletes (routes.rs 70-241).                                   *)
THEOREM NobodyEscalates == AccessSpec => []AccessOK
<1>1. AccessInv => AccessOK
  BY DEF AccessInv
<1> QED BY <1>1, AccessInitInv, AccessNextInv, PTL DEF AccessSpec

(* A minted token validates from its minting on unless its expiry          *)
(* overflowed, and no token comes back from its expiry (auth.rs 58-139,    *)
(* api/tokens.rs 36-78).                                                   *)
THEOREM TokensLiveOnce == AccessSpec => TokensOK
<1>1. AccessInv /\ [AccessNext]_accessVars
        => [\A p \in Clients : \A tok \in held'[p] \ held[p] :
              tok.exp >= 0 => tok.exp > now /\ Validate(tok)]_accessVars
  BY HeldGrows DEF Parties
<1>2. AccessInv /\ [AccessNext]_accessVars
        => [\A p \in Parties : \A tok \in held[p] : ~Validate(tok) => ~Validate(tok)']_accessVars
  <2> SUFFICES ASSUME AccessInv, [AccessNext]_accessVars, NEW p \in Parties, NEW tok \in held[p],
                      Validate(tok)'
               PROVE  Validate(tok)
    OBVIOUS
  <2>1. now \in Nat /\ now' \in Nat /\ now <= now'
    BY ClockNext
  <2>2. tok.exp \in Int
    BY DEF AccessInv, AccessTypeOK, Token
  <2> QED BY <2>1, <2>2, AccessAssumption DEF Validate, Unexpired
<1> QED BY <1>1, <1>2, AccessInitInv, AccessNextInv, PTL
        DEF AccessSpec, TokensOK, MintedIsAccepted, ExpiryIsFinal

-----------------------------------------------------------------------------
(* The local-process provider *)

(* The type of what the operations read and write. *)
TablesOK ==
    /\ table \in [Pids -> Nodes \cup {None}]
    /\ proc \in [Pids -> ProcessRecord]
    /\ node \in [Nodes -> NodeRecord]
    /\ del \in [Deletes -> DeleteRecord]
    /\ ex \in [Execs -> ExecRecord]

(* A node that is in the table is there under its own pid, its process is  *)
(* its own, and no delete has taken it; a returned node is in the table or *)
(* some delete has taken it.                                               *)
TableOK ==
    /\ \A p \in Pids : \A n \in Nodes : table[p] = n =>
         /\ node[n].pc = "returned" /\ node[n].pid = p /\ proc[p].owner = n
         /\ \A d \in Deletes : del[d].took # n
    /\ \A n \in Nodes : node[n].pc = "returned" =>
         table[node[n].pid] = n \/ \E d \in Deletes : del[d].took = n

(* A process that belongs to a node or an exec is the one it started. *)
OwnersOK ==
    /\ \A n \in Nodes :
         /\ node[n].pc \in {"spawned", "returned"} => node[n].pid \in Pids
         /\ node[n].pc = "spawned" => proc[node[n].pid].owner = n /\ node[n].dir
         /\ node[n].status = "Exited" => node[n].pc = "returned"
         /\ \A p \in Pids : proc[p].owner = n =>
              node[n].pid = p /\ node[n].pc \in {"spawned", "returned"}
    /\ \A x \in Execs :
         /\ ex[x].pc = "running" => ex[x].pid \in Pids /\ proc[ex[x].pid].owner = x
         /\ \A p \in Pids : proc[p].owner = x => ex[x].pid = p /\ ex[x].pc = "running"

(* A delete has a node to itself, with its process up to the reaping and   *)
(* without any afterwards.                                                 *)
TakenOK ==
    \A d \in Deletes :
        /\ del[d].pc = "idle" => del[d].took = None
        /\ del[d].pc \in {"kill", "wait", "finish"} => del[d].took \in Nodes
        /\ del[d].took \in Nodes => node[del[d].took].pc = "returned" /\ del[d].target \in Nodes
        /\ del[d].pc \in {"kill", "wait"} => proc[Victim(d)].owner = del[d].took
        /\ del[d].took # None /\ del[d].pc \notin {"kill", "wait"} =>
             \A p \in Pids : proc[p].owner # del[d].took
        /\ \A e \in Deletes : del[e].took = del[d].took => e = d \/ del[d].took = None

(* The pipes of an exec that has answered have come to their end. *)
PipesOK ==
    /\ piped \subseteq Nodes \cup Execs
    /\ \A x \in Execs : ex[x].pc = "done" => x \notin piped

ProviderInv ==
    /\ TablesOK /\ TableOK /\ OwnersOK /\ TakenOK
    /\ ExitedIsReaped /\ DeleteTakesItsNode

LEMMA ProviderInitInv == ProviderInit => ProviderInv
<1> SUFFICES ASSUME ProviderInit PROVE ProviderInv
  OBVIOUS
<1>1. TablesOK
  BY DEF ProviderInit, TablesOK, ProcessRecord, NodeRecord, DeleteRecord, ExecRecord,
         NodePC, DeletePC, ExecPC
<1> QED BY <1>1, ProviderAssumption
        DEF ProviderInit, ProviderInv, TableOK, OwnersOK, TakenOK, ExitedIsReaped,
            DeleteTakesItsNode

(* What the operating system does to one process leaves the others alone. *)
LEMMA ProcessFacts ==
    ASSUME proc \in [Pids -> ProcessRecord], NEW p \in Pids
    PROVE  /\ \A w \in Nodes \cup Execs : Fork(p, w) =>
                /\ proc' \in [Pids -> ProcessRecord] /\ proc'[p].owner = w
                /\ \A q \in Pids \ {p} : proc'[q] = proc[q]
           /\ Reap(p) =>
                /\ proc' \in [Pids -> ProcessRecord] /\ proc'[p].owner = None
                /\ \A q \in Pids \ {p} : proc'[q] = proc[q]
           /\ DropChild(p) =>
                /\ proc' \in [Pids -> ProcessRecord] /\ proc'[p].owner = "orphan"
                /\ \A q \in Pids \ {p} : proc'[q] = proc[q]
           /\ proc' = [proc EXCEPT ![p].alive = FALSE] =>
                /\ proc' \in [Pids -> ProcessRecord]
                /\ \A q \in Pids : proc'[q].owner = proc[q].owner
<1>1. ASSUME NEW w \in Nodes \cup Execs, Fork(p, w)
      PROVE  /\ proc' \in [Pids -> ProcessRecord] /\ proc'[p].owner = w
             /\ \A q \in Pids \ {p} : proc'[q] = proc[q]
  BY <1>1 DEF Fork, ProcessRecord
<1>2. ASSUME Reap(p)
      PROVE  /\ proc' \in [Pids -> ProcessRecord] /\ proc'[p].owner = None
             /\ \A q \in Pids \ {p} : proc'[q] = proc[q]
  BY <1>2 DEF Reap, ProcessRecord
<1>3. ASSUME DropChild(p)
      PROVE  /\ proc' \in [Pids -> ProcessRecord] /\ proc'[p].owner = "orphan"
             /\ \A q \in Pids \ {p} : proc'[q] = proc[q]
  BY <1>3 DEF DropChild, ProcessRecord
<1>4. ASSUME proc' = [proc EXCEPT ![p].alive = FALSE]
      PROVE  /\ proc' \in [Pids -> ProcessRecord]
             /\ \A q \in Pids : proc'[q].owner = proc[q].owner
  BY <1>4 DEF ProcessRecord
<1> QED BY <1>1, <1>2, <1>3, <1>4

(* What create_node and delete_node write of a node. *)
LEMMA NodeFacts ==
    ASSUME node \in [Nodes -> NodeRecord], NEW n \in Nodes
    PROVE  /\ \A p \in Pids :
                node' = [node EXCEPT ![n].pc = "spawned", ![n].pid = p, ![n].dir = TRUE] =>
                /\ node' \in [Nodes -> NodeRecord]
                /\ node'[n].pc = "spawned" /\ node'[n].pid = p /\ node'[n].dir
                /\ node'[n].status = node[n].status
                /\ \A m \in Nodes \ {n} : node'[m] = node[m]
           /\ node' = [node EXCEPT ![n].pc = "failed", ![n].dir = TRUE] =>
                /\ node' \in [Nodes -> NodeRecord]
                /\ node'[n].pc = "failed" /\ node'[n].status = node[n].status
                /\ \A m \in Nodes \ {n} : node'[m] = node[m]
           /\ \A pc \in NodePC : node' = [node EXCEPT ![n].pc = pc] =>
                /\ node' \in [Nodes -> NodeRecord]
                /\ node'[n].pc = pc /\ node'[n].pid = node[n].pid
                /\ node'[n].status = node[n].status /\ node'[n].dir = node[n].dir
                /\ \A m \in Nodes \ {n} : node'[m] = node[m]
           /\ \A left \in BOOLEAN :
                node' = [node EXCEPT ![n].status = "Exited", ![n].dir = left] =>
                /\ node' \in [Nodes -> NodeRecord]
                /\ node'[n].pc = node[n].pc /\ node'[n].pid = node[n].pid
                /\ \A m \in Nodes \ {n} : node'[m] = node[m]
<1>1. ASSUME NEW p \in Pids,
             node' = [node EXCEPT ![n].pc = "spawned", ![n].pid = p, ![n].dir = TRUE]
      PROVE  /\ node' \in [Nodes -> NodeRecord]
             /\ node'[n].pc = "spawned" /\ node'[n].pid = p /\ node'[n].dir
             /\ node'[n].status = node[n].status
             /\ \A m \in Nodes \ {n} : node'[m] = node[m]
  BY <1>1 DEF NodeRecord, NodePC
<1>2. ASSUME node' = [node EXCEPT ![n].pc = "failed", ![n].dir = TRUE]
      PROVE  /\ node' \in [Nodes -> NodeRecord]
             /\ node'[n].pc = "failed" /\ node'[n].status = node[n].status
             /\ \A m \in Nodes \ {n} : node'[m] = node[m]
  BY ZenonT(30), <1>2 DEF NodeRecord, NodePC
<1>3. ASSUME NEW pc \in NodePC, node' = [node EXCEPT ![n].pc = pc]
      PROVE  /\ node' \in [Nodes -> NodeRecord]
             /\ node'[n].pc = pc /\ node'[n].pid = node[n].pid
             /\ node'[n].status = node[n].status /\ node'[n].dir = node[n].dir
             /\ \A m \in Nodes \ {n} : node'[m] = node[m]
  BY <1>3 DEF NodeRecord
<1>4. ASSUME NEW left \in BOOLEAN,
             node' = [node EXCEPT ![n].status = "Exited", ![n].dir = left]
      PROVE  /\ node' \in [Nodes -> NodeRecord]
             /\ node'[n].pc = node[n].pc /\ node'[n].pid = node[n].pid
             /\ \A m \in Nodes \ {n} : node'[m] = node[m]
  BY <1>4 DEF NodeRecord
<1> QED BY <1>1, <1>2, <1>3, <1>4

LEMMA ExecFacts ==
    ASSUME ex \in [Execs -> ExecRecord], NEW x \in Execs, NEW pc \in ExecPC,
           NEW n \in Nodes \cup {None}, ex' = [ex EXCEPT ![x].pc = pc, ![x].node = n]
    PROVE  /\ ex' \in [Execs -> ExecRecord] /\ ex'[x].pc = pc
           /\ \A y \in Execs \ {x} : ex'[y] = ex[y]
  BY DEF ExecRecord

LEMMA GotoFacts ==
    ASSUME del \in [Deletes -> DeleteRecord], NEW d \in Deletes, NEW pc \in DeletePC,
           DeleteGoto(d, pc)
    PROVE  /\ del' \in [Deletes -> DeleteRecord] /\ del'[d].pc = pc
           /\ \A e \in Deletes : del'[e].took = del[e].took /\ del'[e].target = del[e].target
           /\ \A e \in Deletes \ {d} : del'[e].pc = del[e].pc
  BY DEF DeleteGoto, DeleteRecord

(* Every step of the provider and of the operating system. *)
LEMMA ProviderNextInv == ProviderInv /\ [ProviderNext]_providerVars => ProviderInv'
<1> SUFFICES ASSUME ProviderInv, [ProviderNext]_providerVars PROVE ProviderInv'
  OBVIOUS
<1> USE ProviderAssumption
<1>a. /\ table \in [Pids -> Nodes \cup {None}] /\ proc \in [Pids -> ProcessRecord]
      /\ node \in [Nodes -> NodeRecord] /\ del \in [Deletes -> DeleteRecord]
      /\ ex \in [Execs -> ExecRecord]
  BY DEF ProviderInv, TablesOK
<1>b. /\ \A d \in Deletes : del[d].took \in Nodes \cup {None} /\ del[d].pc \in DeletePC
      /\ \A n \in Nodes : node[n].pc \in NodePC /\ node[n].pid \in Pids \cup {None}
                          /\ node[n].status \in {"Running", "Exited"}
      /\ \A x \in Execs : ex[x].pc \in ExecPC /\ ex[x].pid \in Pids \cup {None}
      /\ \A p \in Pids : table[p] \in Nodes \cup {None}
  BY <1>a DEF DeleteRecord, NodeRecord, ExecRecord
(* Deletes that go on leave it true what the deletes have taken. *)
<1>c. ASSUME \A e \in Deletes :
               /\ del'[e].took = del[e].took /\ del'[e].target = del[e].target
               /\ del[e].pc \notin {"kill", "wait"} => del'[e].pc \notin {"kill", "wait"}
      PROVE  DeleteTakesItsNode'
  <2> SUFFICES ASSUME NEW d \in Deletes, del[d].took \notin {None, del[d].target}
               PROVE  \E e \in Deletes \ {d} : del'[e].took = del[d].target
                                                 /\ del'[e].pc \notin {"kill", "wait"}
    BY <1>c DEF DeleteTakesItsNode
  <2>1. PICK e \in Deletes \ {d} : del[e].took = del[d].target /\ del[e].pc \notin {"kill", "wait"}
    BY DEF ProviderInv, DeleteTakesItsNode
  <2> QED BY <1>c, <2>1
(* A step that gives no process to anybody else and leaves the table alone. *)
<1>d. ASSUME UNCHANGED table, \A e \in Deletes : del'[e].took = del[e].took,
             \A m \in Nodes : node'[m].pc = node[m].pc /\ node'[m].pid = node[m].pid,
             \A p \in Pids : table[p] \in Nodes => proc'[p].owner = proc[p].owner
      PROVE  TableOK'
  BY <1>d DEF ProviderInv, TableOK
<1>e. ASSUME \A p \in Pids : proc'[p].owner = proc[p].owner, UNCHANGED <<node, ex>>
      PROVE  OwnersOK'
  BY <1>e DEF ProviderInv, OwnersOK
<1>1. ASSUME NEW p \in Pids, ReapOrphan(p) PROVE ProviderInv'
  <2>1. /\ proc[p].owner = "orphan" /\ UNCHANGED <<table, node, del, ex>>
        /\ proc' \in [Pids -> ProcessRecord] /\ proc'[p].owner = None
        /\ \A q \in Pids \ {p} : proc'[q] = proc[q]
    BY <1>1, <1>a, ProcessFacts DEF ReapOrphan
  <2>2. TablesOK'
    BY <2>1, <1>a DEF TablesOK
  <2>3. TableOK'
    BY <2>1, <1>a, <1>b DEF ProviderInv, TableOK
  <2>4. OwnersOK'
    BY <2>1, <1>a, <1>b DEF ProviderInv, OwnersOK
  <2>5. TakenOK'
    BY <2>1, <1>a, <1>b DEF ProviderInv, TakenOK, OwnersOK, Victim, DeletePC
  <2>6. ExitedIsReaped'
    BY <2>1, <1>a, <1>b DEF ProviderInv, ExitedIsReaped
  <2>7. DeleteTakesItsNode'
    BY <2>1, <1>c
  <2> QED BY <2>2, <2>3, <2>4, <2>5, <2>6, <2>7 DEF ProviderInv
<1>2. ASSUME NEW p \in Pids, ProcessExits(p) PROVE ProviderInv'
  <2>1. /\ UNCHANGED <<table, node, del, ex>> /\ proc' \in [Pids -> ProcessRecord]
        /\ \A q \in Pids : proc'[q].owner = proc[q].owner
    BY <1>2, <1>a, ProcessFacts DEF ProcessExits
  <2>2. TablesOK'
    BY <2>1, <1>a DEF TablesOK
  <2>3. TableOK'
    BY <2>1, <1>d
  <2>4. OwnersOK'
    BY <2>1, <1>e
  <2>5. TakenOK'
    BY <2>1, <1>a, <1>b DEF ProviderInv, TakenOK, OwnersOK, Victim, DeletePC
  <2>6. ExitedIsReaped'
    BY <2>1, <1>a, <1>b DEF ProviderInv, ExitedIsReaped
  <2>7. DeleteTakesItsNode'
    BY <2>1, <1>c
  <2> QED BY <2>2, <2>3, <2>4, <2>5, <2>6, <2>7 DEF ProviderInv
<1>3. ASSUME NEW n \in Nodes, NEW p \in Pids, node[n].pc = "idle", Free(p), Fork(p, n),
             node' = [node EXCEPT ![n].pc = "spawned", ![n].pid = p, ![n].dir = TRUE],
             UNCHANGED <<table, del, ex>> PROVE ProviderInv'
  <2>1. /\ node[n].pc = "idle" /\ proc[p].owner = None /\ UNCHANGED <<table, del, ex>>
        /\ proc' \in [Pids -> ProcessRecord] /\ proc'[p].owner = n
        /\ \A q \in Pids \ {p} : proc'[q] = proc[q]
    BY <1>3, <1>a, ProcessFacts DEF Free
  <2>2. /\ node' \in [Nodes -> NodeRecord]
        /\ node'[n].pc = "spawned" /\ node'[n].pid = p /\ node'[n].dir
        /\ node'[n].status = node[n].status
        /\ \A m \in Nodes \ {n} : node'[m] = node[m]
    BY <1>3, <1>a, NodeFacts
  <2>3. TablesOK'
    BY <2>1, <2>2, <1>a DEF TablesOK
  <2>4. TableOK'
    BY <2>1, <2>2, <1>a, <1>b DEF ProviderInv, TableOK
  <2>5. OwnersOK'
    BY <2>1, <2>2, <1>a, <1>b DEF ProviderInv, OwnersOK, TableOK
  <2>6. TakenOK'
    <3>1. \A e \in Deletes : del[e].took # n
      BY <2>1, <1>b DEF ProviderInv, TakenOK
    <3>2. \A e \in Deletes : del[e].took \in Nodes =>
            del[e].took \in Nodes \ {n} /\ node'[del[e].took] = node[del[e].took]
      BY <2>2, <3>1
    <3>3. \A e \in Deletes : del[e].pc \in {"kill", "wait"} =>
            Victim(e)' = Victim(e) /\ Victim(e) \in Pids \ {p}
      BY <2>1, <2>2, <3>2 DEF ProviderInv, TakenOK, OwnersOK, Victim
    <3> QED BY <2>1, <2>2, <3>1, <3>2, <3>3, <1>b DEF ProviderInv, TakenOK
  <2>7. ExitedIsReaped'
    BY <2>1, <2>2, <1>a, <1>b DEF ProviderInv, ExitedIsReaped, OwnersOK
  <2>8. DeleteTakesItsNode'
    BY <2>1, <2>2, <1>c
  <2> QED BY <2>3, <2>4, <2>5, <2>6, <2>7, <2>8 DEF ProviderInv
<1>4. ASSUME NEW n \in Nodes, node[n].pc = "idle", UNCHANGED <<table, del, ex, proc>>,
             node' = [node EXCEPT ![n].pc = "failed", ![n].dir = TRUE] PROVE ProviderInv'
  <2>1. /\ node[n].pc = "idle" /\ UNCHANGED <<table, del, ex, proc>>
        /\ node' \in [Nodes -> NodeRecord]
        /\ node'[n].pc = "failed" /\ node'[n].status = node[n].status
        /\ \A m \in Nodes \ {n} : node'[m] = node[m]
    BY <1>4, <1>a, NodeFacts
  <2>2. TablesOK'
    BY <2>1, <1>a DEF TablesOK
  <2>3. TableOK'
    BY <2>1, <1>a, <1>b DEF ProviderInv, TableOK
  <2>4. OwnersOK'
    BY <2>1, <1>a, <1>b DEF ProviderInv, OwnersOK
  <2>5. TakenOK'
    BY <2>1, <1>a, <1>b DEF ProviderInv, TakenOK, Victim
  <2>6. ExitedIsReaped'
    BY <2>1, <1>a, <1>b DEF ProviderInv, ExitedIsReaped
  <2>7. DeleteTakesItsNode'
    BY <2>1, <1>c
  <2> QED BY <2>2, <2>3, <2>4, <2>5, <2>6, <2>7 DEF ProviderInv
<1>5. ASSUME NEW n \in Nodes, Insert(n) PROVE ProviderInv'
  <2>1. "returned" \in NodePC
    BY DEF NodePC
  <2>2. /\ node[n].pc = "spawned" /\ UNCHANGED <<proc, del, ex>>
        /\ node' \in [Nodes -> NodeRecord]
        /\ node'[n].pc = "returned" /\ node'[n].pid = node[n].pid
        /\ node'[n].status = node[n].status /\ node'[n].dir = node[n].dir
        /\ \A m \in Nodes \ {n} : node'[m] = node[m]
    BY <1>5, <1>a, <2>1, NodeFacts DEF Insert
  <2>3. node[n].pid \in Pids /\ proc[node[n].pid].owner = n
    BY <2>1, <2>2 DEF ProviderInv, OwnersOK
  <2>4. /\ table' \in [Pids -> Nodes \cup {None}] /\ table'[node[n].pid] = n
        /\ \A q \in Pids : q # node[n].pid => table'[q] = table[q]
    BY <1>5, <1>a, <2>1, <2>2, <2>3 DEF Insert
  <2>5. TablesOK'
    BY <2>1, <2>2, <2>3, <2>4, <1>a DEF TablesOK
  <2>6. TableOK'
    BY <2>1, <2>2, <2>3, <2>4, <1>a, <1>b DEF ProviderInv, TableOK, OwnersOK, TakenOK
  <2>7. OwnersOK'
    BY <2>1, <2>2, <2>3, <2>4, <1>a, <1>b DEF ProviderInv, OwnersOK
  <2>8. TakenOK'
    <3>1. \A e \in Deletes : del[e].took # n
      BY <2>2, <1>b DEF ProviderInv, TakenOK
    <3>2. \A e \in Deletes : del[e].took \in Nodes => node'[del[e].took] = node[del[e].took]
      BY <2>2, <3>1
    <3> QED BY <2>2, <3>1, <3>2, <1>b DEF ProviderInv, TakenOK, Victim
  <2>9. ExitedIsReaped'
    BY <2>1, <2>2, <2>3, <2>4, <1>a, <1>b DEF ProviderInv, ExitedIsReaped, OwnersOK
  <2>10. DeleteTakesItsNode'
    BY <2>1, <2>2, <2>3, <2>4, <1>c
  <2> QED BY <2>5, <2>6, <2>7, <2>8, <2>9, <2>10 DEF ProviderInv
<1>6. ASSUME NEW n \in Nodes, CancelCreate(n) PROVE ProviderInv'
  <2>1. /\ node[n].pc = "spawned" /\ UNCHANGED <<table, del, ex>>
        /\ node' \in [Nodes -> NodeRecord]
        /\ node'[n].pc = "failed" /\ node'[n].pid = node[n].pid
        /\ node'[n].status = node[n].status /\ node'[n].dir = node[n].dir
        /\ \A m \in Nodes \ {n} : node'[m] = node[m]
    BY <1>6, <1>a, NodeFacts DEF CancelCreate, NodePC
  <2>2. node[n].pid \in Pids /\ proc[node[n].pid].owner = n
    BY <2>1 DEF ProviderInv, OwnersOK
  <2>3. /\ proc' \in [Pids -> ProcessRecord] /\ proc'[node[n].pid].owner = "orphan"
        /\ \A q \in Pids \ {node[n].pid} : proc'[q] = proc[q]
    BY <1>6, <1>a, <2>1, <2>2, ProcessFacts DEF CancelCreate
  <2>4. TablesOK'
    BY <2>1, <2>2, <2>3, <1>a DEF TablesOK
  <2>5. TableOK'
    BY <2>1, <2>2, <2>3, <1>a, <1>b DEF ProviderInv, TableOK
  <2>6. OwnersOK'
    BY <2>1, <2>2, <2>3, <1>a, <1>b DEF ProviderInv, OwnersOK
  <2>7. TakenOK'
    <3>1. \A e \in Deletes : del[e].took # n
      BY <2>1, <1>b DEF ProviderInv, TakenOK
    <3>2. \A e \in Deletes : del[e].took \in Nodes => node'[del[e].took] = node[del[e].took]
      BY <2>1, <3>1
    <3>3. \A e \in Deletes : del[e].pc \in {"kill", "wait"} =>
            Victim(e)' = Victim(e) /\ Victim(e) \in Pids \ {node[n].pid}
      BY <2>1, <2>2, <3>1, <3>2 DEF ProviderInv, TakenOK, OwnersOK, Victim
    <3> QED BY <2>1, <2>2, <2>3, <3>1, <3>2, <3>3, <1>b DEF ProviderInv, TakenOK
  <2>8. ExitedIsReaped'
    BY <2>1, <2>2, <2>3, <1>a, <1>b DEF ProviderInv, ExitedIsReaped
  <2>9. DeleteTakesItsNode'
    BY <2>1, <2>2, <2>3, <1>c
  <2> QED BY <2>4, <2>5, <2>6, <2>7, <2>8, <2>9 DEF ProviderInv
<1>7. ASSUME NEW n \in Nodes, NEW d \in Deletes, DeleteRemove(d, n) PROVE ProviderInv'
  <2>1. /\ del[d].pc = "idle" /\ node[n].pc = "returned" /\ UNCHANGED <<proc, node, ex>>
        /\ del' = [del EXCEPT ![d] = [pc |-> IF table[node[n].pid] = None THEN "ok" ELSE "kill",
                                      target |-> n, took |-> table[node[n].pid]]]
        /\ table' = [table EXCEPT ![node[n].pid] = None]
    BY <1>7 DEF DeleteRemove
  <2>2. node[n].pid \in Pids /\ table[node[n].pid] \in Nodes \cup {None}
    BY <2>1, <1>b DEF ProviderInv, OwnersOK
  <2>3. /\ table' \in [Pids -> Nodes \cup {None}] /\ table'[node[n].pid] = None
        /\ \A q \in Pids : q # node[n].pid => table'[q] = table[q]
    BY <1>a, <2>1, <2>2
  <2>4. /\ del'[d].took = table[node[n].pid] /\ del'[d].target = n
        /\ table[node[n].pid] = None => del'[d].pc = "ok"
        /\ table[node[n].pid] # None => del'[d].pc = "kill"
        /\ \A e \in Deletes \ {d} : del'[e] = del[e]
    BY <1>a, <2>1, <2>2, <2>3
  <2>5. del' \in [Deletes -> DeleteRecord]
    BY <1>a, <2>1, <2>2, <2>3, <2>4 DEF DeleteRecord, DeletePC
  <2>6. TablesOK'
    BY <2>1, <2>2, <2>3, <2>4, <2>5, <1>a DEF TablesOK
  <2>7. TableOK'
    BY <2>1, <2>2, <2>3, <2>4, <2>5, <1>a, <1>b DEF ProviderInv, TableOK, TakenOK
  <2>8. OwnersOK'
    BY <2>1, <2>2, <2>3, <2>4, <2>5, <1>a, <1>b DEF ProviderInv, OwnersOK
  <2>9. TakenOK'
    <3>1. /\ del'[d].pc \in {"ok", "kill"} /\ del'[d].target = n
          /\ \A e \in Deletes \ {d} : Victim(e)' = Victim(e)
          /\ Victim(d)' = node[table[node[n].pid]].pid
      BY <2>1, <2>2, <2>4 DEF Victim
    <3>2. CASE table[node[n].pid] = None
      <4>1. del'[d].pc = "ok" /\ del'[d].took = None
        BY <2>4, <3>2
      <4>2. \A e \in Deletes : e # d => del'[e] = del[e] /\ Victim(e)' = Victim(e)
        BY <2>4, <3>1
      <4>3. UNCHANGED <<proc, node>> /\ None \notin Nodes /\ TakenOK
        BY <2>1, <1>b, ProviderAssumption DEF ProviderInv
      <4> QED BY <4>1, <4>2, <4>3 DEF TakenOK
    <3>3. CASE table[node[n].pid] \in Nodes
      <4> DEFINE m == table[node[n].pid]
      <4>1. /\ m \in Nodes /\ m # None /\ node[m].pc = "returned" /\ node[m].pid = node[n].pid
            /\ proc[node[n].pid].owner = m /\ \A e \in Deletes : del[e].took # m
        BY <2>2, <3>3, <1>b, ProviderAssumption DEF ProviderInv, TableOK
      <4>2. /\ del'[d].pc = "kill" /\ del'[d].took = m
            /\ proc[Victim(d)'].owner = m
        BY <2>4, <3>1, <4>1
      <4> HIDE DEF m
      <4> QED BY <2>1, <2>4, <3>1, <4>1, <4>2, <1>b DEF ProviderInv, TakenOK
    <3> QED BY <2>2, <3>2, <3>3
  <2>10. ExitedIsReaped'
    BY <2>1, <2>2, <2>3, <2>4, <2>5, <1>a, <1>b DEF ProviderInv, ExitedIsReaped
  <2>11. DeleteTakesItsNode'
    <3> DEFINE m == table[node[n].pid]
    <3>1. ASSUME m \notin {None, n}
          PROVE  \E e \in Deletes \ {d} : del[e].took = n /\ del[e].pc \notin {"kill", "wait"}
      <4>1. m \in Nodes /\ proc[node[n].pid].owner = m
        BY <2>2, <3>1 DEF ProviderInv, TableOK
      <4>2. PICK e \in Deletes : del[e].took = n
        BY <2>1, <2>2, <3>1 DEF ProviderInv, TableOK
      <4>3. e # d
        BY <2>1, <4>2 DEF ProviderInv, TakenOK
      <4>4. del[e].pc \notin {"kill", "wait"}
        BY <3>1, <4>1, <4>2 DEF ProviderInv, TakenOK, Victim
      <4> QED BY <4>2, <4>3, <4>4
    <3>2. ASSUME NEW f \in Deletes, del'[f].took \notin {None, del'[f].target}
          PROVE  \E e \in Deletes \ {f} : del'[e].took = del'[f].target
                                            /\ del'[e].pc \notin {"kill", "wait"}
      <4>1. CASE f = d
        BY <2>4, <3>1, <3>2, <4>1
      <4>2. CASE f # d
        <5>1. PICK e \in Deletes \ {f} : del[e].took = del[f].target
                                         /\ del[e].pc \notin {"kill", "wait"}
          BY <2>4, <3>2, <4>2 DEF ProviderInv, DeleteTakesItsNode
        <5>2. e # d
          <6>1. del[f].took # None
            BY <2>4, <3>2, <4>2
          <6>2. SUFFICES ASSUME e = d PROVE FALSE
            OBVIOUS
          <6>3. del[f].target = None
            BY <2>1, <5>1, <6>2 DEF ProviderInv, TakenOK
          <6> QED BY <6>1, <6>3, <1>b DEF ProviderInv, TakenOK
        <5> QED BY <2>4, <4>2, <5>1, <5>2
      <4> QED BY <4>1, <4>2
    <3> QED BY <3>2 DEF DeleteTakesItsNode
  <2> QED BY <2>6, <2>7, <2>8, <2>9, <2>10, <2>11 DEF ProviderInv
<1>8. ASSUME NEW n \in Nodes, NEW x \in Execs, ExecGet(x, n) PROVE ProviderInv'
  <2>1. /\ ex[x].pc = "idle" /\ node[n].pc = "returned" /\ UNCHANGED <<table, proc, node, del>>
        /\ ex' = [ex EXCEPT ![x].pc = IF table[node[n].pid] = None THEN "error" ELSE "got",
                            ![x].node = table[node[n].pid]]
    BY <1>8 DEF ExecGet
  <2>2. node[n].pid \in Pids /\ table[node[n].pid] \in Nodes \cup {None}
    BY <2>1, <1>b DEF ProviderInv, OwnersOK
  <2>3. PICK c \in {"error", "got"} :
          ex' = [ex EXCEPT ![x].pc = c, ![x].node = table[node[n].pid]]
    BY <2>1, <2>2
  <2>4. ex' \in [Execs -> ExecRecord] /\ ex'[x].pc \in {"error", "got"}
        /\ \A y \in Execs \ {x} : ex'[y] = ex[y]
    <3> DEFINE v == table[node[n].pid]
    <3>1. v \in Nodes \cup {None} /\ ex' = [ex EXCEPT ![x].pc = c, ![x].node = v]
      BY <2>2, <2>3
    <3>2. c \in ExecPC
      BY DEF ExecPC
    <3> HIDE DEF v
    <3>3. /\ ex' \in [Execs -> ExecRecord] /\ ex'[x].pc = c
          /\ \A y \in Execs \ {x} : ex'[y] = ex[y]
      BY <1>a, <3>1, <3>2, ExecFacts, Zenon
    <3> QED BY <3>3
  <2>5. TablesOK'
    BY <2>1, <2>2, <2>3, <2>4, <1>a DEF TablesOK
  <2>6. TableOK'
    BY <2>1, <2>2, <2>3, <2>4, <1>a, <1>b DEF ProviderInv, TableOK
  <2>7. OwnersOK'
    <3>1. UNCHANGED <<proc, node>> /\ \A p \in Pids : proc[p].owner # x
      BY <2>1 DEF ProviderInv, OwnersOK
    <3>2. ex'[x].pc # "running" /\ \A y \in Execs \ {x} : ex'[y] = ex[y]
      BY <2>4
    <3> QED BY <3>1, <3>2 DEF ProviderInv, OwnersOK
  <2>8. TakenOK'
    BY <2>1, <2>2, <2>3, <2>4, <1>a, <1>b DEF ProviderInv, TakenOK, Victim
  <2>9. ExitedIsReaped'
    BY <2>1, <2>2, <2>3, <2>4, <1>a, <1>b DEF ProviderInv, ExitedIsReaped
  <2>10. DeleteTakesItsNode'
    BY <2>1, <2>2, <2>3, <2>4, <1>c
  <2> QED BY <2>5, <2>6, <2>7, <2>8, <2>9, <2>10 DEF ProviderInv
<1>9. ASSUME NEW d \in Deletes, DeleteKill(d) PROVE ProviderInv'
  <2>1. /\ del[d].pc = "kill" /\ UNCHANGED <<table, node, ex>>
        /\ del' \in [Deletes -> DeleteRecord] /\ del'[d].pc = "wait"
        /\ \A e \in Deletes : del'[e].took = del[e].took /\ del'[e].target = del[e].target
        /\ \A e \in Deletes \ {d} : del'[e].pc = del[e].pc
    BY <1>9, <1>a, GotoFacts DEF DeleteKill, DeletePC
  <2>2. Victim(d) \in Pids
    BY <2>1 DEF Victim, ProviderInv, TakenOK, OwnersOK
  <2>3. /\ proc' \in [Pids -> ProcessRecord]
        /\ \A q \in Pids : proc'[q].owner = proc[q].owner
    BY <1>9, <1>a, <2>1, <2>2, ProcessFacts DEF DeleteKill
  <2>4. TablesOK'
    BY <2>1, <2>2, <2>3, <1>a DEF TablesOK
  <2>5. TableOK'
    BY <2>1, <2>2, <2>3, <1>d
  <2>6. OwnersOK'
    BY <2>1, <2>2, <2>3, <1>e
  <2>7. TakenOK'
    BY <2>1, <2>2, <2>3, <1>a, <1>b DEF ProviderInv, TakenOK, OwnersOK, Victim, DeletePC
  <2>8. ExitedIsReaped'
    BY <2>1, <2>2, <2>3, <1>a, <1>b DEF ProviderInv, ExitedIsReaped
  <2>9. DeleteTakesItsNode'
    BY <2>1, <2>2, <2>3, <1>c
  <2> QED BY <2>4, <2>5, <2>6, <2>7, <2>8, <2>9 DEF ProviderInv
<1>10. ASSUME NEW d \in Deletes, DeleteWait(d) PROVE ProviderInv'
  <2>1. /\ del[d].pc = "wait" /\ UNCHANGED <<table, node, ex>>
        /\ del' \in [Deletes -> DeleteRecord] /\ del'[d].pc = "finish"
        /\ \A e \in Deletes : del'[e].took = del[e].took /\ del'[e].target = del[e].target
        /\ \A e \in Deletes \ {d} : del'[e].pc = del[e].pc
    BY <1>10, <1>a, GotoFacts DEF DeleteWait, DeletePC
  <2>2. /\ del[d].took \in Nodes /\ Victim(d) = node[del[d].took].pid /\ Victim(d) \in Pids
        /\ proc[Victim(d)].owner = del[d].took
    BY <2>1 DEF Victim, ProviderInv, TakenOK, OwnersOK
  <2>3. /\ proc' \in [Pids -> ProcessRecord] /\ proc'[Victim(d)].owner = None
        /\ \A q \in Pids \ {Victim(d)} : proc'[q] = proc[q]
    BY <1>10, <1>a, <2>1, <2>2, ProcessFacts DEF DeleteWait
  <2>4. TablesOK'
    BY <2>1, <2>2, <2>3, <1>a DEF TablesOK
  <2>5. TableOK'
    BY SMTT(40), <2>1, <2>2, <2>3, <1>a, <1>b DEF ProviderInv, TableOK
  <2>6. OwnersOK'
    BY <2>1, <2>2, <2>3, <1>a, <1>b DEF ProviderInv, OwnersOK, TakenOK
  <2>7. TakenOK'
    BY SMTT(40), <2>1, <2>2, <2>3, <1>a, <1>b DEF ProviderInv, TakenOK, OwnersOK, TableOK, Victim, DeletePC
  <2>8. ExitedIsReaped'
    BY <2>1, <2>2, <2>3, <1>a, <1>b DEF ProviderInv, ExitedIsReaped
  <2>9. DeleteTakesItsNode'
    BY <2>1, <2>2, <2>3, <1>c
  <2> QED BY <2>4, <2>5, <2>6, <2>7, <2>8, <2>9 DEF ProviderInv
<1>11. ASSUME NEW d \in Deletes, DeleteFinish(d) PROVE ProviderInv'
  <2>1. /\ del[d].pc = "finish" /\ UNCHANGED <<table, proc, ex>>
        /\ del' \in [Deletes -> DeleteRecord] /\ del'[d].pc = "ok"
        /\ \A e \in Deletes : del'[e].took = del[e].took /\ del'[e].target = del[e].target
        /\ \A e \in Deletes \ {d} : del'[e].pc = del[e].pc
    BY <1>11, <1>a, GotoFacts DEF DeleteFinish, DeletePC
  <2>2. del[d].took \in Nodes /\ node[del[d].took].pc = "returned"
        /\ \A p \in Pids : proc[p].owner # del[d].took
    BY <2>1 DEF ProviderInv, TakenOK
  <2>3. PICK left \in BOOLEAN :
          node' = [node EXCEPT ![del[d].took].status = "Exited", ![del[d].took].dir = left]
    BY <1>11 DEF DeleteFinish
  <2>4. /\ node' \in [Nodes -> NodeRecord]
        /\ \A m \in Nodes : node'[m].pc = node[m].pc /\ node'[m].pid = node[m].pid
        /\ \A m \in Nodes \ {del[d].took} : node'[m] = node[m]
    <3> DEFINE n == del[d].took
    <3>1. n \in Nodes /\ node' = [node EXCEPT ![n].status = "Exited", ![n].dir = left]
      BY <2>2, <2>3
    <3> HIDE DEF n
    <3>2. /\ node' \in [Nodes -> NodeRecord]
          /\ node'[n].pc = node[n].pc /\ node'[n].pid = node[n].pid
          /\ \A m \in Nodes \ {n} : node'[m] = node[m]
      BY <1>a, <3>1, NodeFacts
    <3>3. \A m \in Nodes : node'[m].pc = node[m].pc /\ node'[m].pid = node[m].pid
      BY <3>1, <3>2
    <3> QED BY <3>2, <3>3 DEF n
  <2>5. TablesOK'
    BY <2>1, <2>2, <2>3, <2>4, <1>a DEF TablesOK
  <2>6. TableOK'
    BY <2>1, <2>2, <2>3, <2>4, <1>d
  <2>7. OwnersOK'
    <3> DEFINE n == del[d].took
    <3>1. n \in Nodes /\ node[n].pc = "returned" /\ UNCHANGED <<proc, ex>>
      BY <2>1, <2>2
    <3>2. /\ \A m \in Nodes : node'[m].pc = node[m].pc /\ node'[m].pid = node[m].pid
          /\ \A m \in Nodes \ {n} : node'[m] = node[m]
      BY <2>4
    <3> HIDE DEF n
    <3> QED BY <3>1, <3>2 DEF ProviderInv, OwnersOK
  <2>8. TakenOK'
    <3>1. \A e \in Deletes : del[e].took \in Nodes =>
            node'[del[e].took].pc = node[del[e].took].pc /\ Victim(e)' = Victim(e)
      BY <2>1, <2>4 DEF Victim
    <3>2. \A e \in Deletes : del'[e].pc \in {"kill", "wait"} => del[e].pc = del'[e].pc
      BY <2>1
    <3>3. \A e \in Deletes : del'[e].pc \in {"kill", "wait", "finish"} =>
            del[e].took \in Nodes /\ del'[e].took = del[e].took
      BY <2>1, <2>2 DEF ProviderInv, TakenOK
    <3>4. \A e \in Deletes : del'[e].took # None /\ del'[e].pc \notin {"kill", "wait"} =>
            \A p \in Pids : proc'[p].owner # del'[e].took
      BY <2>1 DEF ProviderInv, TakenOK
    <3> QED BY <2>1, <3>1, <3>2, <3>3, <3>4, <1>b DEF ProviderInv, TakenOK
  <2>9. ExitedIsReaped'
    BY <2>1, <2>2, <2>3, <2>4, <1>a, <1>b DEF ProviderInv, ExitedIsReaped
  <2>10. DeleteTakesItsNode'
    BY <2>1, <2>2, <2>3, <2>4, <1>c
  <2> QED BY <2>5, <2>6, <2>7, <2>8, <2>9, <2>10 DEF ProviderInv
<1>12. ASSUME NEW x \in Execs, NEW p \in Pids, ex[x].pc = "got", Free(p), Fork(p, x),
             ex' = [ex EXCEPT ![x].pc = "running", ![x].pid = p], UNCHANGED <<table, node, del>> PROVE ProviderInv'
  <2>1. /\ ex[x].pc = "got" /\ proc[p].owner = None /\ UNCHANGED <<table, node, del>>
        /\ proc' \in [Pids -> ProcessRecord] /\ proc'[p].owner = x
        /\ \A q \in Pids \ {p} : proc'[q] = proc[q]
    BY <1>12, <1>a, ProcessFacts DEF Free
  <2>2. /\ ex' \in [Execs -> ExecRecord] /\ ex'[x].pc = "running" /\ ex'[x].pid = p
        /\ \A y \in Execs \ {x} : ex'[y] = ex[y]
    BY ZenonT(30), <1>12, <1>a DEF ExecRecord, ExecPC
  <2>3. TablesOK'
    BY <2>1, <2>2, <1>a DEF TablesOK
  <2>4. TableOK'
    BY <2>1, <2>2, <1>a, <1>b DEF ProviderInv, TableOK
  <2>5. OwnersOK'
    BY <2>1, <2>2, <1>a, <1>b DEF ProviderInv, OwnersOK
  <2>6. TakenOK'
    BY SMTT(40), <2>1, <2>2, <1>a, <1>b DEF ProviderInv, TakenOK, OwnersOK, Victim, DeletePC
  <2>7. ExitedIsReaped'
    BY <2>1, <2>2, <1>a, <1>b DEF ProviderInv, ExitedIsReaped
  <2>8. DeleteTakesItsNode'
    BY <2>1, <2>2, <1>c
  <2> QED BY <2>3, <2>4, <2>5, <2>6, <2>7, <2>8 DEF ProviderInv
<1>13. ASSUME NEW x \in Execs, ex[x].pc = "got", ex' = [ex EXCEPT ![x].pc = "error"],
              UNCHANGED <<table, node, del, proc>> PROVE ProviderInv'
  <2>1. /\ ex[x].pc = "got" /\ UNCHANGED <<table, node, del, proc>>
        /\ ex' \in [Execs -> ExecRecord] /\ ex'[x].pc = "error"
        /\ \A y \in Execs \ {x} : ex'[y] = ex[y]
    BY <1>13, <1>a DEF ExecRecord, ExecPC
  <2>2. TablesOK'
    BY <2>1, <1>a DEF TablesOK
  <2>3. TableOK'
    BY <2>1, <1>a, <1>b DEF ProviderInv, TableOK
  <2>4. OwnersOK'
    BY <2>1, <1>a, <1>b DEF ProviderInv, OwnersOK
  <2>5. TakenOK'
    BY <2>1, <1>a, <1>b DEF ProviderInv, TakenOK, Victim
  <2>6. ExitedIsReaped'
    BY <2>1, <1>a, <1>b DEF ProviderInv, ExitedIsReaped
  <2>7. DeleteTakesItsNode'
    BY <2>1, <1>c
  <2> QED BY <2>2, <2>3, <2>4, <2>5, <2>6, <2>7 DEF ProviderInv
<1>14. ASSUME NEW x \in Execs, ExecReap(x) PROVE ProviderInv'
  <2>1. /\ ex[x].pc = "running" /\ UNCHANGED <<table, node, del>>
        /\ ex' \in [Execs -> ExecRecord] /\ ex'[x].pc = "reaped"
        /\ \A y \in Execs \ {x} : ex'[y] = ex[y]
    BY <1>14, <1>a DEF ExecReap, ExecRecord, ExecPC
  <2>2. ex[x].pid \in Pids /\ proc[ex[x].pid].owner = x
    BY <2>1 DEF ProviderInv, OwnersOK
  <2>3. /\ proc' \in [Pids -> ProcessRecord] /\ proc'[ex[x].pid].owner = None
        /\ \A q \in Pids \ {ex[x].pid} : proc'[q] = proc[q]
    BY <1>14, <1>a, <2>1, <2>2, ProcessFacts DEF ExecReap
  <2>4. TablesOK'
    BY <2>1, <2>2, <2>3, <1>a DEF TablesOK
  <2>5. TableOK'
    BY SMTT(40), <2>1, <2>2, <2>3, <1>a, <1>b DEF ProviderInv, TableOK
  <2>6. OwnersOK'
    BY SMTT(40), <2>1, <2>2, <2>3, <1>a, <1>b DEF ProviderInv, OwnersOK
  <2>7. TakenOK'
    BY SMTT(40), <2>1, <2>2, <2>3, <1>a, <1>b DEF ProviderInv, TakenOK, OwnersOK, Victim, DeletePC
  <2>8. ExitedIsReaped'
    BY <2>1, <2>2, <2>3, <1>a, <1>b DEF ProviderInv, ExitedIsReaped
  <2>9. DeleteTakesItsNode'
    BY <2>1, <2>2, <2>3, <1>c
  <2> QED BY <2>4, <2>5, <2>6, <2>7, <2>8, <2>9 DEF ProviderInv
<1>15. ASSUME NEW x \in Execs, ExecTimeout(x), ex[x].pc = "running" PROVE ProviderInv'
  <2>1. /\ ex[x].pc = "running" /\ UNCHANGED <<table, node, del>>
        /\ ex' \in [Execs -> ExecRecord] /\ ex'[x].pc = "timeout"
        /\ \A y \in Execs \ {x} : ex'[y] = ex[y]
    BY <1>15, <1>a DEF ExecTimeout, ExecRecord, ExecPC
  <2>2. ex[x].pid \in Pids /\ proc[ex[x].pid].owner = x
    BY <2>1 DEF ProviderInv, OwnersOK
  <2>3. /\ proc' \in [Pids -> ProcessRecord] /\ proc'[ex[x].pid].owner = "orphan"
        /\ \A q \in Pids \ {ex[x].pid} : proc'[q] = proc[q]
    BY <1>15, <1>a, <2>1, <2>2, ProcessFacts DEF ExecTimeout
  <2>4. TablesOK'
    BY <2>1, <2>2, <2>3, <1>a DEF TablesOK
  <2>5. TableOK'
    BY SMTT(40), <2>1, <2>2, <2>3, <1>a, <1>b DEF ProviderInv, TableOK
  <2>6. OwnersOK'
    BY SMTT(40), <2>1, <2>2, <2>3, <1>a, <1>b DEF ProviderInv, OwnersOK
  <2>7. TakenOK'
    BY SMTT(40), <2>1, <2>2, <2>3, <1>a, <1>b DEF ProviderInv, TakenOK, OwnersOK, Victim, DeletePC
  <2>8. ExitedIsReaped'
    BY <2>1, <2>2, <2>3, <1>a, <1>b DEF ProviderInv, ExitedIsReaped
  <2>9. DeleteTakesItsNode'
    BY <2>1, <2>2, <2>3, <1>c
  <2> QED BY <2>4, <2>5, <2>6, <2>7, <2>8, <2>9 DEF ProviderInv
<1>22. ASSUME NEW x \in Execs, ex[x].pc = "reaped", 
             ex' = [ex EXCEPT ![x].pc = "done"] \/ ex' = [ex EXCEPT ![x].pc = "timeout"],
             UNCHANGED <<table, node, del, proc>> PROVE ProviderInv'
  <2>1. /\ ex[x].pc = "reaped" /\ UNCHANGED <<table, node, del, proc>>
        /\ ex' \in [Execs -> ExecRecord] /\ ex'[x].pc \in {"done", "timeout"}
        /\ \A y \in Execs \ {x} : ex'[y] = ex[y]
    BY <1>22, <1>a DEF ExecRecord, ExecPC
  <2>2. TablesOK'
    BY <2>1, <1>a DEF TablesOK
  <2>3. TableOK'
    BY <2>1, <1>a, <1>b DEF ProviderInv, TableOK
  <2>4. OwnersOK'
    BY <2>1, <1>a, <1>b DEF ProviderInv, OwnersOK
  <2>5. TakenOK'
    BY <2>1, <1>a, <1>b DEF ProviderInv, TakenOK, Victim
  <2>6. ExitedIsReaped'
    BY <2>1, <1>a, <1>b DEF ProviderInv, ExitedIsReaped
  <2>7. DeleteTakesItsNode'
    BY <2>1, <1>c
  <2> QED BY <2>2, <2>3, <2>4, <2>5, <2>6, <2>7 DEF ProviderInv
<1>16. ASSUME NEW d \in Deletes, CancelDelete(d), del[d].pc = "finish" PROVE ProviderInv'
  <2>1. /\ del[d].pc = "finish" /\ UNCHANGED <<table, node, ex, proc>>
        /\ del' \in [Deletes -> DeleteRecord] /\ del'[d].pc = "dropped"
        /\ \A e \in Deletes : del'[e].took = del[e].took /\ del'[e].target = del[e].target
        /\ \A e \in Deletes \ {d} : del'[e].pc = del[e].pc
    BY <1>16, <1>a, GotoFacts DEF CancelDelete, DeletePC
  <2>2. TablesOK'
    BY <2>1, <1>a DEF TablesOK
  <2>3. TableOK'
    BY <2>1, <1>d
  <2>4. OwnersOK'
    BY <2>1, <1>a, <1>b DEF ProviderInv, OwnersOK
  <2>5. TakenOK'
    BY <2>1, <1>a, <1>b DEF ProviderInv, TakenOK, Victim
  <2>6. ExitedIsReaped'
    BY <2>1, <1>a, <1>b DEF ProviderInv, ExitedIsReaped
  <2>7. DeleteTakesItsNode'
    BY <2>1, <1>c
  <2> QED BY <2>2, <2>3, <2>4, <2>5, <2>6, <2>7 DEF ProviderInv
<1>17. ASSUME NEW d \in Deletes, CancelDelete(d), del[d].pc \in {"kill", "wait"} PROVE ProviderInv'
  <2>1. /\ del[d].pc \in {"kill", "wait"} /\ UNCHANGED <<table, node, ex>>
        /\ del' \in [Deletes -> DeleteRecord] /\ del'[d].pc = "dropped"
        /\ \A e \in Deletes : del'[e].took = del[e].took /\ del'[e].target = del[e].target
        /\ \A e \in Deletes \ {d} : del'[e].pc = del[e].pc
    BY <1>17, <1>a, GotoFacts DEF CancelDelete, DeletePC
  <2>2. /\ del[d].took \in Nodes /\ Victim(d) = node[del[d].took].pid /\ Victim(d) \in Pids
        /\ proc[Victim(d)].owner = del[d].took
    BY <2>1 DEF Victim, ProviderInv, TakenOK, OwnersOK
  <2>3. /\ proc' \in [Pids -> ProcessRecord] /\ proc'[Victim(d)].owner = "orphan"
        /\ \A q \in Pids \ {Victim(d)} : proc'[q] = proc[q]
    BY <1>17, <1>a, <2>1, <2>2, ProcessFacts DEF CancelDelete
  <2>4. TablesOK'
    BY <2>1, <2>2, <2>3, <1>a DEF TablesOK
  <2>5. TableOK'
    BY <2>1, <2>2, <2>3, <1>a, <1>b DEF ProviderInv, TableOK
  <2>p. /\ node[del[d].took].pc = "returned" /\ del[d].took \notin Execs
        /\ \A m \in Nodes \cup Execs : \A q \in Pids :
             proc'[q].owner = m => proc[q].owner = m /\ q # Victim(d)
    BY <2>1, <2>2, <2>3, <1>b, ProviderAssumption DEF ProviderInv, TakenOK
  <2>6. OwnersOK'
    <3>1. ASSUME NEW n \in Nodes
          PROVE  /\ node[n].pc \in {"spawned", "returned"} => node[n].pid \in Pids
                 /\ node[n].pc = "spawned" => proc'[node[n].pid].owner = n /\ node[n].dir
                 /\ node[n].status = "Exited" => node[n].pc = "returned"
                 /\ \A q \in Pids : proc'[q].owner = n =>
                      node[n].pid = q /\ node[n].pc \in {"spawned", "returned"}
      BY <2>2, <2>3, <2>p, <1>b DEF ProviderInv, OwnersOK
    <3>2. ASSUME NEW x \in Execs
          PROVE  /\ ex[x].pc = "running" => ex[x].pid \in Pids /\ proc'[ex[x].pid].owner = x
                 /\ \A q \in Pids : proc'[q].owner = x => ex[x].pid = q /\ ex[x].pc = "running"
      BY <2>2, <2>3, <2>p, <1>b DEF ProviderInv, OwnersOK
    <3> QED BY <2>1, <3>1, <3>2 DEF OwnersOK
  <2>7. TakenOK'
    <3>1. \A c \in Deletes : del'[c].pc \in {"kill", "wait"} => c # d /\ del[c].pc = del'[c].pc
      BY <2>1
    <3>2. ASSUME NEW c \in Deletes, del'[c].pc \in {"kill", "wait"}
          PROVE  proc'[Victim(c)'].owner = del'[c].took
      <4>1. /\ c # d /\ del[c].took \in Nodes /\ del[c].took # del[d].took
            /\ Victim(c)' = Victim(c) /\ Victim(c) \in Pids /\ proc[Victim(c)].owner = del[c].took
        BY <2>1, <2>2, <3>1, <3>2, <1>b, ProviderAssumption
           DEF ProviderInv, TakenOK, OwnersOK, Victim
      <4> QED BY <2>1, <2>2, <2>3, <4>1
    <3>3. ASSUME NEW c \in Deletes, del'[c].took # None, del'[c].pc \notin {"kill", "wait"},
                 NEW q \in Pids
          PROVE  proc'[q].owner # del'[c].took
      <4>1. del'[c].took \in Nodes
        BY <2>1, <3>3, <1>a DEF DeleteRecord
      <4>2. CASE c = d
        BY <2>1, <2>2, <2>p, <3>3, <4>1, <4>2, <1>b DEF ProviderInv, OwnersOK, Victim
      <4>3. CASE c # d
        BY <2>1, <2>p, <3>3, <4>1, <4>3, <1>b DEF ProviderInv, TakenOK
      <4> QED BY <4>2, <4>3
    <3>4. ASSUME NEW c \in Deletes
          PROVE  /\ del'[c].pc = "idle" => del'[c].took = None
                 /\ del'[c].pc \in {"kill", "wait", "finish"} => del'[c].took \in Nodes
                 /\ del'[c].took \in Nodes =>
                      node'[del'[c].took].pc = "returned" /\ del'[c].target \in Nodes
                 /\ \A e \in Deletes : del'[e].took = del'[c].took => e = c \/ del'[c].took = None
      BY <2>1, <1>b DEF ProviderInv, TakenOK
    <3> QED BY <3>2, <3>3, <3>4, Zenon DEF TakenOK
  <2>8. ExitedIsReaped'
    BY <2>1, <2>2, <2>3, <1>a, <1>b DEF ProviderInv, ExitedIsReaped
  <2>9. DeleteTakesItsNode'
    BY <2>1, <2>2, <2>3, <1>c
  <2> QED BY <2>4, <2>5, <2>6, <2>7, <2>8, <2>9 DEF ProviderInv
<1>18a. ASSUME UNCHANGED <<table, proc, node, del, ex>> PROVE ProviderInv'
  BY <1>18a DEF ProviderInv, TablesOK, TableOK, OwnersOK, TakenOK, Victim,
                ExitedIsReaped, DeleteTakesItsNode
<1>18. CASE UNCHANGED providerVars
  BY <1>18, <1>18a DEF providerVars
<1>19. ASSUME NEW n \in Nodes, Spawn(n) PROVE ProviderInv'
  BY <1>3, <1>4, <1>19 DEF Spawn
<1>20. ASSUME NEW x \in Execs, ExecSpawn(x) PROVE ProviderInv'
  BY <1>12, <1>13, <1>20 DEF ExecSpawn
<1>21. ASSUME NEW d \in Deletes, CancelDelete(d) PROVE ProviderInv'
  BY <1>16, <1>17, <1>21 DEF CancelDelete
<1>23. ASSUME NEW x \in Execs, ExecDone(x) PROVE ProviderInv'
  BY <1>22, <1>23 DEF ExecDone
<1>24. ASSUME NEW x \in Execs, ExecTimeout(x) PROVE ProviderInv'
  <2>1. CASE ex[x].pc = "running"
    BY <1>15, <1>24, <2>1
  <2>2. CASE ex[x].pc = "reaped"
    BY <1>22, <1>24, <2>2 DEF ExecTimeout
  <2> QED BY <1>24, <2>1, <2>2 DEF ExecTimeout
<1>25. ASSUME NEW w \in Nodes \cup Execs, PipesInherited(w) \/ PipesReleased(w)
       PROVE  ProviderInv'
  BY <1>18a, <1>25 DEF PipesInherited, PipesReleased
<1> QED BY <1>1, <1>2, <1>3, <1>4, <1>5, <1>6, <1>7, <1>8, <1>9, <1>10, <1>11, <1>12, <1>13, <1>14, <1>15, <1>16, <1>17, <1>18, <1>19, <1>20, <1>21, <1>23, <1>24, <1>25
        DEF ProviderNext, ProviderRuns, DeleteStep

(* A process that inherits the pipes of an exec is started by its child,   *)
(* which has none once the exec has answered.                              *)
LEMMA PipesNext == ProviderInv /\ PipesOK /\ [ProviderNext]_providerVars => PipesOK'
<1> SUFFICES ASSUME ProviderInv, PipesOK, [ProviderNext]_providerVars PROVE PipesOK'
  OBVIOUS
<1>a. ex \in [Execs -> ExecRecord]
  BY DEF ProviderInv, TablesOK
<1>1. ASSUME UNCHANGED piped, \A x \in Execs : ex'[x].pc = "done" => ex[x].pc = "done" \/ x \notin piped
      PROVE  PipesOK'
  BY <1>1 DEF PipesOK
<1>2. ASSUME UNCHANGED <<piped, ex>> PROVE PipesOK'
  BY <1>1, <1>2
<1>3. ASSUME NEW p \in Pids, ReapOrphan(p) \/ ProcessExits(p) PROVE PipesOK'
  BY <1>2, <1>3 DEF ReapOrphan, ProcessExits
<1>4. ASSUME NEW n \in Nodes, Spawn(n) \/ Insert(n) \/ CancelCreate(n) PROVE PipesOK'
  BY <1>2, <1>4 DEF Spawn, Insert, CancelCreate
<1>5. ASSUME NEW d \in Deletes, DeleteStep(d) \/ CancelDelete(d) \/ \E n \in Nodes : DeleteRemove(d, n)
      PROVE  PipesOK'
  BY <1>2, <1>5 DEF DeleteStep, DeleteKill, DeleteWait, DeleteFinish, CancelDelete, DeleteRemove
<1>b. ASSUME NEW x \in Execs, UNCHANGED piped, ex'[x].pc = "done" => x \notin piped,
             \A y \in Execs \ {x} : ex'[y] = ex[y]
      PROVE  PipesOK'
  BY <1>1, <1>b
<1>6. ASSUME NEW x \in Execs, NEW n \in Nodes, ExecGet(x, n) PROVE PipesOK'
  <2>1. UNCHANGED piped /\ ex'[x].pc # "done" /\ \A y \in Execs \ {x} : ex'[y] = ex[y]
    BY <1>a, <1>6 DEF ExecGet, ExecRecord
  <2> QED BY <1>b, <2>1
<1>7. ASSUME NEW x \in Execs, ExecSpawn(x) PROVE PipesOK'
  <2>1. UNCHANGED piped /\ ex'[x].pc # "done" /\ \A y \in Execs \ {x} : ex'[y] = ex[y]
    BY <1>a, <1>7 DEF ExecSpawn, ExecRecord
  <2> QED BY <1>b, <2>1
<1>8. ASSUME NEW x \in Execs, ExecReap(x) \/ ExecDone(x) \/ ExecTimeout(x) PROVE PipesOK'
  <2>1. CASE ExecReap(x)
    <3>1. UNCHANGED piped /\ ex'[x].pc # "done" /\ \A y \in Execs \ {x} : ex'[y] = ex[y]
      BY <1>a, <2>1 DEF ExecReap, ExecRecord
    <3> QED BY <1>b, <3>1
  <2>2. CASE ExecDone(x)
    <3>1. UNCHANGED piped /\ x \notin piped /\ \A y \in Execs \ {x} : ex'[y] = ex[y]
      BY <1>a, <2>2 DEF ExecDone, ExecRecord
    <3> QED BY <1>b, <3>1
  <2>3. CASE ExecTimeout(x)
    <3>1. UNCHANGED piped /\ ex'[x].pc # "done" /\ \A y \in Execs \ {x} : ex'[y] = ex[y]
      BY <1>a, <2>3 DEF ExecTimeout, ExecRecord
    <3> QED BY <1>b, <3>1
  <2> QED BY <1>8, <2>1, <2>2, <2>3
<1>9. ASSUME NEW w \in Nodes \cup Execs, PipesInherited(w) PROVE PipesOK'
  <2>1. PICK p \in Pids : proc[p].owner = w
    BY <1>9 DEF PipesInherited
  <2>2. w \in Execs => ex[w].pc = "running"
    BY <2>1 DEF ProviderInv, OwnersOK
  <2> QED BY <1>9, <2>2 DEF PipesInherited, PipesOK
<1>10. ASSUME NEW w \in Nodes \cup Execs, PipesReleased(w) PROVE PipesOK'
  BY <1>10 DEF PipesReleased, PipesOK
<1>11. CASE UNCHANGED providerVars
  BY <1>2, <1>11 DEF providerVars
<1> QED BY <1>3, <1>4, <1>5, <1>6, <1>7, <1>8, <1>9, <1>10, <1>11 DEF ProviderNext, ProviderRuns

(* For any nodes, deletes, execs and pids, with futures dropped at any     *)
(* await and pids that come back: an id in the table is the pid of its     *)
(* node's own child, a node is said to have exited only when its child is  *)
(* reaped, a delete takes another node than its caller meant only when     *)
(* that one is already deleted, and the child of an exec that has returned *)
(* is gone and, if it answered, its pipes at their end, although what the  *)
(* child started is not killed with it (local.rs 123-264).                 *)
THEOREM NodesCorrect == ProviderSpec => []NodesOK
<1>1. ProviderInv /\ PipesOK => NodesOK
  <2> SUFFICES ASSUME ProviderInv, PipesOK
               PROVE  ProviderTypeOK /\ IdIsOwnProcess /\ ExecReturnsWhole
    BY DEF ProviderInv, NodesOK
  <2>1. IdIsOwnProcess
    BY ProviderAssumption DEF ProviderInv, TablesOK, TableOK, IdIsOwnProcess, ListNodes
  <2>2. ExecReturnsWhole
    BY DEF ProviderInv, OwnersOK, PipesOK, ExecReturnsWhole
  <2>3. ProviderTypeOK
    BY DEF ProviderInv, TablesOK, PipesOK, ProviderTypeOK
  <2> QED BY <2>1, <2>2, <2>3
<1>2. ProviderInit => PipesOK
  BY DEF ProviderInit, PipesOK
<1> QED BY <1>1, <1>2, ProviderInitInv, ProviderNextInv, PipesNext, PTL DEF ProviderSpec

=============================================================================
