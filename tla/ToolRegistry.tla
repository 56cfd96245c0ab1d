---------------------------- MODULE ToolRegistry ----------------------------
(***************************************************************************)
(* The tools of overloop: how the table of names is put together at        *)
(* start-up (loop/src/main.rs) from the builtins, the MCP servers that     *)
(* answer and the operator's ACP tools, what the LLM is shown of it, and   *)
(* who runs a call (loop/src/tools/registry.rs, agentic_loop.rs, the MCP   *)
(* client's sessions in loop/src/mcp/client.rs).  A builtin's own work is  *)
(* its outcome.                                                            *)
(***************************************************************************)
EXTENDS Integers, Sequences, FiniteSets

CONSTANTS ServerCount,   \* MCP servers in the configuration
          Names,         \* tool names
          Builtins,      \* those of register_builtins
          MaxRestarts    \* bound: restarts of an MCP server

ASSUME ToolsAssumption ==
    /\ ServerCount \in Nat /\ Builtins \subseteq Names /\ MaxRestarts \in Nat

Servers == 1..ServerCount
NoTool == [client |-> 0, server |-> 0]

VARIABLES
    toolPc,     \* "initialize", "list" (of server `at`), "acp" or "ready"
    at,         \* the server being connected
    clients,    \* mcp_clients: [server, session]
    session,    \* session_id of the client being connected
    mcpTools,   \* mcp_tools: the client's index and, as a history, the server that listed it
    acpDefs,    \* acp_defs, by name
    epoch,      \* the session id each server knows; a restart forgets it
    offered,    \* history: what each server listed
    call        \* the last call: name, who ran it, how it ended

toolVars == <<toolPc, at, clients, session, mcpTools, acpDefs, epoch, offered, call>>

NoCall == [name |-> "none", by |-> "nobody", result |-> "none"]

(* The table of MCP tools only ever holds indexes of clients that exist    *)
(* (registry.rs 137-149).                                                  *)
ToolsTypeOK ==
    /\ toolPc \in {"initialize", "list", "acp", "ready"}
    /\ at \in 1..(ServerCount + 1)
    /\ clients \in Seq([server : Servers, session : 1..(MaxRestarts + 1)])
    /\ \A n \in Names : mcpTools[n].client \in 0..Len(clients)
    /\ epoch \in [Servers -> 1..(MaxRestarts + 1)]

StartAt(i) == IF i <= ServerCount THEN "initialize" ELSE "acp"

ToolsInit ==
    /\ toolPc = StartAt(1) /\ at = 1
    /\ clients = <<>> /\ session = 0
    /\ mcpTools = [n \in Names |-> NoTool]
    /\ acpDefs = <<>>
    /\ epoch = [s \in Servers |-> 1]
    /\ offered = [s \in Servers |-> {}]
    /\ call = NoCall

-----------------------------------------------------------------------------
(* connect_mcp *)

(* Transport, HTTP status, parse and JSON-RPC errors: main logs the error  *)
(* and goes on to the next server; this client is dropped.                 *)
ConnectFails ==
    /\ toolPc \in {"initialize", "list"}
    /\ toolPc' = StartAt(at + 1) /\ at' = at + 1 /\ session' = 0
    /\ UNCHANGED <<clients, mcpTools, acpDefs, epoch, offered, call>>

(* initialize: send() keeps the session id of the response's header. *)
Initialize ==
    /\ toolPc = "initialize"
    /\ session' = epoch[at]
    /\ toolPc' = "list"
    /\ UNCHANGED <<at, clients, mcpTools, acpDefs, epoch, offered, call>>

RegisterToolsNoSession(tools, idx) ==
    /\ mcpTools' = [n \in Names |-> IF n \in tools THEN [client |-> idx, server |-> at] ELSE mcpTools[n]]
    /\ clients' = Append(clients, [server |-> at, session |-> MaxRestarts + 1])

(* The tools enter the table under the index the client is about to get,   *)
(* over those of earlier servers with the same names.                      *)
RegisterTools(tools, idx) ==
    /\ mcpTools' = [n \in Names |-> IF n \in tools THEN [client |-> idx, server |-> at] ELSE mcpTools[n]]
    /\ clients' = Append(clients, [server |-> at, session |-> session])

ListToolsByPosition(tools) ==
    /\ toolPc = "list" /\ session = epoch[at]
    /\ RegisterTools(tools, at)
    /\ offered' = [offered EXCEPT ![at] = tools]
    /\ toolPc' = StartAt(at + 1) /\ at' = at + 1 /\ session' = 0
    /\ UNCHANGED <<acpDefs, epoch, call>>

ListToolsReusesIndex(tools) ==
    /\ toolPc = "list" /\ session = epoch[at]
    /\ RegisterTools(tools, IF clients = <<>> THEN 1 ELSE Len(clients))
    /\ offered' = [offered EXCEPT ![at] = tools]
    /\ toolPc' = StartAt(at + 1) /\ at' = at + 1 /\ session' = 0
    /\ UNCHANGED <<acpDefs, epoch, call>>

(* tools/list, under the session just opened. *)
ListTools(tools) ==
    /\ toolPc = "list" /\ session = epoch[at]
    /\ RegisterTools(tools, Len(clients) + 1)
    /\ offered' = [offered EXCEPT ![at] = tools]
    /\ toolPc' = StartAt(at + 1) /\ at' = at + 1 /\ session' = 0
    /\ UNCHANGED <<acpDefs, epoch, call>>

(* A server that restarts has forgotten its sessions. *)
RestartServer(s) ==
    /\ epoch[s] <= MaxRestarts
    /\ epoch' = [epoch EXCEPT ![s] = @ + 1]
    /\ UNCHANGED <<toolPc, at, clients, session, mcpTools, acpDefs, offered, call>>

(* parse_acp_tools: entries without a name are left out. *)
ParseAcpTools(listed) == SelectSeq(listed, LAMBDA name : name \in Names)

(* acp.tools_list and set_acp_tools: an error, or a list without tools,    *)
(* changes nothing.                                                        *)
SetAcpTools(listed) ==
    /\ toolPc = "acp"
    /\ acpDefs' = ParseAcpTools(listed)
    /\ toolPc' = "ready"
    /\ UNCHANGED <<at, clients, session, mcpTools, epoch, offered, call>>

-----------------------------------------------------------------------------
(* definitions() and the dispatch of a call *)

IsAcpTool(n) == \E i \in 1..Len(acpDefs) : acpDefs[i] = n
IsMcpTool(n) == mcpTools[n] # NoTool

DefinitionsUnfiltered ==
    [n \in Names |-> {<<"acp", i>> : i \in {j \in 1..Len(acpDefs) : acpDefs[j] = n}}
                     \cup {<<"mcp", mcpTools[n].server>> : k \in {m \in {n} : IsMcpTool(m)}}
                     \cup {<<"builtin", 0>> : k \in {m \in {n} : m \in Builtins}}]

(* What definitions() shows under each name, and from whom: the operator's *)
(* tools as they come, then the MCP tools and the builtins with names not  *)
(* seen before.                                                            *)
Definitions ==
    [n \in Names |->
        IF IsAcpTool(n) THEN {<<"acp", i>> : i \in {j \in 1..Len(acpDefs) : acpDefs[j] = n}}
        ELSE IF IsMcpTool(n) THEN {<<"mcp", mcpTools[n].server>>}
        ELSE IF n \in Builtins THEN {<<"builtin", 0>>}
        ELSE {}]

Calls(n, by, result) ==
    /\ call' = [name |-> n, by |-> by, result |-> result]
    /\ UNCHANGED <<toolPc, at, session, mcpTools, acpDefs, epoch, offered>>

(* The operator's tools go through the tunnel, before anything local. *)
CallAcp(n) ==
    /\ toolPc = "ready" /\ IsAcpTool(n)
    /\ \E r \in {"ok", "error"} : Calls(n, <<"acp", 0>>, r)
    /\ UNCHANGED clients

CallBuiltin(n) ==
    /\ toolPc = "ready" /\ ~IsAcpTool(n) /\ n \in Builtins
    /\ \E r \in {"ok", "error"} : Calls(n, <<"builtin", 0>>, r)
    /\ UNCHANGED clients

(* call_tool: no new session is asked for.  A server that does not know    *)
(* the session may refuse, and whatever it answers may name another one,   *)
(* which send() keeps, of errors too.                                      *)
CallMcp(n) ==
    /\ toolPc = "ready" /\ ~IsAcpTool(n) /\ n \notin Builtins /\ IsMcpTool(n)
    /\ LET k == mcpTools[n].client
           c == clients[k]
           forgotten == IF c.session = epoch[c.server] THEN {} ELSE {"no session"}
       IN  /\ \E r \in {"ok", "error"} \cup forgotten : Calls(n, <<"mcp", c.server>>, r)
           /\ clients' \in {clients, [clients EXCEPT ![k].session = epoch[c.server]]}

CallUnknown(n) ==
    /\ toolPc = "ready" /\ ~IsAcpTool(n) /\ n \notin Builtins /\ ~IsMcpTool(n)
    /\ Calls(n, <<"unknown", 0>>, "error")
    /\ UNCHANGED clients

ToolsNext ==
    \/ ConnectFails \/ Initialize
    \/ \E tools \in SUBSET Names : ListTools(tools)
    \/ \E s \in Servers : RestartServer(s)
    \/ \E n, k \in Names \cup {"no name"} : SetAcpTools(<<n, k>>)
    \/ \E n \in Names : CallAcp(n) \/ CallBuiltin(n) \/ CallMcp(n) \/ CallUnknown(n)

ToolsSpec == ToolsInit /\ [][ToolsNext]_toolVars

-----------------------------------------------------------------------------
(* A call runs where its definition came from: at the server that listed   *)
(* the tool, whichever servers failed to connect before it, and never      *)
(* nowhere.  A builtin that an MCP tool hides from the LLM is the          *)
(* exception (registry.rs 196-206).                                        *)
RunsWhatWasShown ==
    call # NoCall =>
        LET shown == Definitions[call.name]
            clash == call.name \in Builtins /\ IsMcpTool(call.name)
        IN  \/ shown = {} /\ call.by[1] = "unknown"
            \/ call.by[1] = "acp" /\ \E d \in shown : d[1] = "acp"
            \/ call.by \in shown
            \/ clash /\ call.by[1] = "builtin"

(* An MCP server refuses a call for want of a session only when it has     *)
(* restarted since it was connected (client.rs 110-159).                   *)
SessionHolds ==
    call.result = "no session" => epoch[call.by[2]] > 1

(* The LLM sees a name twice only if the operator listed it twice          *)
(* (registry.rs 169-170).                                                  *)
ShownOnce ==
    \A n \in Names : Cardinality(Definitions[n]) > 1 =>
        \E i, j \in 1..Len(acpDefs) : i # j /\ acpDefs[i] = n /\ acpDefs[j] = n

(* The table of tools stays true to the servers that are connected: what   *)
(* the LLM is shown is what runs, where it was listed, in its session      *)
(* (registry.rs 136-226, client.rs 58-159).                                *)
ToolsOK == ToolsTypeOK /\ RunsWhatWasShown /\ SessionHolds /\ ShownOnce
=============================================================================
