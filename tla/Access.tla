------------------------------- MODULE Access -------------------------------
(***************************************************************************)
(* Who may do what (server/src/auth.rs, routes.rs, api/tokens.rs; the      *)
(* claims and their checks are those of protocol/src/jwt.rs).  An operator *)
(* has an admin token and mints agent tokens, which it hands to clients: a *)
(* supervisor or a web frontend.  A token is its claims; one that is not   *)
(* signed with the key does not decode and is not modelled.  SSE streams   *)
(* and tunnels stay open after the request that opened them.               *)
(***************************************************************************)
EXTENDS Integers, FiniteSets

CONSTANTS Agents, Clients, Operator,
          Ttls,       \* ttl_secs of mint requests
          MaxI64,     \* the largest i64
          AdminExpiry,  \* of the operator's token
          Leeway,     \* of jsonwebtoken's default Validation
          MaxTime,    \* bound: the clock
          MaxOpen,    \* bound: connections open at a time
          MaxMinted   \* bound: tokens minted

ASSUME AccessAssumption ==
    /\ Operator \notin Clients /\ Operator \notin Agents
    /\ MaxI64 \in Nat /\ MaxTime \in 1..MaxI64 /\ MaxOpen \in Nat /\ MaxMinted \in Nat
    /\ AdminExpiry \in Nat /\ Leeway \in Nat /\ Ttls \subseteq -1..MaxI64

VARIABLES
    now,      \* Utc::now()
    held,     \* the tokens each party has been given
    open,     \* the tunnels and streams: [who, agent, kind, since]
    answer    \* the last request and what became of it

accessVars == <<now, held, open, answer>>

Parties == Clients \cup {Operator}

Claims(sub, role, exp, iss) == [sub |-> sub, role |-> role, exp |-> exp, iss |-> iss]

(* i64 addition, as the release build does it. *)
Plus(a, b) == IF a + b > MaxI64 THEN a + b - 2 * (MaxI64 + 1) ELSE a + b

ClaimsAgentRelative(agent, ttl) == Claims(agent, "agent", ttl, "ours")

ClaimsAgent(agent, ttl) == Claims(agent, "agent", Plus(now, ttl), "ours")

NoRequest == [who |-> Operator, route |-> "none", result |-> "none"]

(* An operator of another deployment with the same key has its own issuer; *)
(* one that embeds the server can sign any claims.                         *)
AccessInit ==
    /\ now = 1
    /\ held = [p \in Parties |->
                 IF p = Operator THEN {Claims(Operator, "admin", AdminExpiry, "ours")}
                 ELSE {Claims(a, "other", MaxTime, "ours") : a \in Agents}
                      \cup {Claims(Operator, "admin", MaxTime, "theirs")}]
    /\ open = {}
    /\ answer = NoRequest

-----------------------------------------------------------------------------
(* Validation *)

UnexpiredSwapped(tok) == tok.exp >= 0 /\ tok.exp <= now + Leeway

(* validate_exp of jsonwebtoken: a negative exp does not parse. *)
Unexpired(tok) == tok.exp >= 0 /\ tok.exp >= now - Leeway

(* validate(): issuer, expiry, role. *)
Validate(tok) == tok.iss = "ours" /\ Unexpired(tok) /\ tok.role \in {"admin", "agent"}

RequireAdminAnyRole(tok) == IF ~Validate(tok) THEN "unauthorized" ELSE "ok"

RequireAdmin(tok) ==
    IF ~Validate(tok) THEN "unauthorized"
    ELSE IF tok.role # "admin" THEN "forbidden"
    ELSE "ok"

RequireAnyAgent(tok, agent) ==
    IF ~Validate(tok) THEN "unauthorized" ELSE "ok"

RequireAgentOrAdmin(tok, agent) ==
    IF ~Validate(tok) THEN "unauthorized"
    ELSE IF tok.role # "admin" /\ tok.sub # agent THEN "forbidden"
    ELSE "ok"

(* authorize_tunnel: agent tokens only, for the agent of the path. *)
AuthorizeTunnel(tok, agent) ==
    IF ~Validate(tok) THEN "unauthorized"
    ELSE IF tok.role # "agent" \/ tok.sub # agent THEN "forbidden"
    ELSE "ok"

-----------------------------------------------------------------------------
(* Requests.  A request without a bearer token is unauthorized; on the     *)
(* tunnel route the header's token, if any, hides the query's.             *)

Respond(who, route, result) ==
    answer' = [who |-> who, route |-> route, result |-> result]

NoToken(who) ==
    /\ Respond(who, "any", "unauthorized")
    /\ UNCHANGED <<now, held, open>>

(* POST /tokens *)
MintToken(who, tok, agent, ttl, to) ==
    LET result == IF RequireAdmin(tok) # "ok" THEN RequireAdmin(tok)
                  ELSE IF ttl <= 0 THEN "bad request" ELSE "ok"
        minted == ClaimsAgent(agent, ttl)
    IN  /\ Cardinality({t \in held[to] : t.role = "agent"}) < MaxMinted
        /\ Respond(who, "mint", result)
        /\ held' = IF result = "ok" THEN [held EXCEPT ![to] = @ \cup {minted}] ELSE held
        /\ UNCHANGED <<now, open>>

(* GET /agents, GET /agents/{id}, DELETE /agents/{id} *)
AdminRoute(who, tok, agent) ==
    /\ Respond(who, "admin", RequireAdmin(tok))
    /\ UNCHANGED <<now, held, open>>

(* POST /agents/{id}/messages and /cancel; GET /agents/{id}/stream, which  *)
(* stays open.                                                             *)
AgentRoute(who, tok, agent, stays) ==
    LET result == RequireAgentOrAdmin(tok, agent)
    IN  /\ Cardinality(open) < MaxOpen
        /\ Respond(who, "agent", result)
        /\ open' = IF stays /\ result = "ok"
                   THEN open \cup {[who |-> who, agent |-> agent, kind |-> "stream", since |-> now]}
                   ELSE open
        /\ UNCHANGED <<now, held>>

(* GET /tunnel/{agent_id} with a header and perhaps a query token. *)
TunnelUpgrade(who, header, agent) ==
    LET result == AuthorizeTunnel(header, agent)
    IN  /\ Cardinality(open) < MaxOpen
        /\ Respond(who, "tunnel", result)
        /\ open' = IF result = "ok"
                   THEN open \cup {[who |-> who, agent |-> agent, kind |-> "tunnel", since |-> now]}
                   ELSE open
        /\ UNCHANGED <<now, held>>

CloseConnection(c) ==
    /\ open' = open \ {c}
    /\ UNCHANGED <<now, held, answer>>

AccessTick ==
    /\ now < MaxTime
    /\ now' = now + 1
    /\ UNCHANGED <<held, open, answer>>

AccessNext ==
    \/ AccessTick
    \/ \E c \in open : CloseConnection(c)
    \/ \E p \in Parties :
        \/ NoToken(p)
        \/ \E tok \in held[p], a \in Agents :
            \/ \E ttl \in Ttls, to \in Clients : MintToken(p, tok, a, ttl, to)
            \/ AdminRoute(p, tok, a)
            \/ \E stays \in BOOLEAN : AgentRoute(p, tok, a, stays)
            \/ TunnelUpgrade(p, tok, a)

AccessSpec == AccessInit /\ [][AccessNext]_accessVars

-----------------------------------------------------------------------------
(* The agent tokens the operator's server has minted for a client. *)
Granted(p, agent, at) ==
    \E tok \in held[p] : /\ tok.role = "agent" /\ tok.iss = "ours" /\ tok.sub = agent
                         /\ tok.exp >= at - Leeway

(* Whatever a party other than the operator has opened, was opened under a *)
(* token the operator minted for that very agent and that had not expired; *)
(* a tunnel is never opened by an admin token (routes.rs 111-139, 222-241).*)
OpenedWithAGrant ==
    \A c \in open : c.who \in Clients \/ c.kind = "tunnel" => Granted(c.who, c.agent, c.since)

(* No sequence of requests gives a client a right it was not given: only   *)
(* the operator mints, lists, describes and deletes (routes.rs 88-102).    *)
NoEscalation ==
    /\ answer.route \in {"mint", "admin"} /\ answer.result = "ok" => answer.who = Operator
    /\ \A p \in Clients : \A tok \in held[p] : tok.role = "admin" => tok.iss = "theirs"

(* A minted token is accepted by the server that minted it, at once and up *)
(* to its expiry, unless its expiry overflowed (tokens.rs 67-71: "so the   *)
(* minted token validates with the same instance that signed it").         *)
MintedIsAccepted ==
    [][\A p \in Clients : \A tok \in held'[p] \ held[p] :
         tok.exp >= 0 => tok.exp > now /\ Validate(tok)]_accessVars

(* Once a token is rejected as expired it is rejected for good, so that a  *)
(* supervisor that goes on retrying with it never connects (tunnel.rs 61). *)
ExpiryIsFinal ==
    [][\A p \in Parties : \A tok \in held[p] : ~Validate(tok) => ~Validate(tok)']_accessVars

(* No sequence of requests lets a party do what no token of its own allows *)
(* (routes.rs 70-241).                                                     *)
AccessOK == OpenedWithAGrant /\ NoEscalation

(* A token is good from its minting to its expiry and never after (auth.rs *)
(* 58-139, api/tokens.rs 36-78).                                           *)
TokensOK == MintedIsAccepted /\ ExpiryIsFinal
=============================================================================
