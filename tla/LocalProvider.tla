---------------------------- MODULE LocalProvider ----------------------------
(***************************************************************************)
(* The local-process compute provider (compute/src/providers/local.rs).  A *)
(* node is a child process and its id is the child's pid, so a pid may     *)
(* come back as the id of a later node once its process has been reaped.   *)
(* create, delete, exec and log streams are concurrent futures that meet   *)
(* in the node table and in the operating system; a caller may drop a      *)
(* create, a delete or an exec at any await.                               *)
(***************************************************************************)
EXTENDS Naturals, FiniteSets

CONSTANTS Pids, Nodes, Deletes, Execs, None

ASSUME ProviderAssumption ==
    /\ None \notin Pids \cup Nodes \cup Execs \cup {"orphan"}
    /\ "orphan" \notin Nodes \cup Execs
    /\ Nodes \cap Execs = {}

VARIABLES
    table,   \* nodes: the node under a pid, or None
    proc,    \* the operating system: who a pid belongs to, and whether it runs
    node,    \* a LocalNode, and the create_node that makes it
    piped,    \* the nodes and execs whose output pipes a process that their child
             \* has started (and nobody here knows) has inherited and keeps open
    del,     \* a delete_node for the id of node `target`; `took` what it removed
    ex       \* an exec

providerVars == <<table, proc, piped, node, del, ex>>

NodePC == {"idle", "spawned", "returned", "failed"}
DeletePC == {"idle", "kill", "wait", "finish", "ok", "dropped"}
ExecPC == {"idle", "got", "running", "reaped", "done", "error", "timeout"}

ProcessRecord == [owner : Nodes \cup Execs \cup {None, "orphan"}, alive : BOOLEAN]
NodeRecord == [pc : NodePC, pid : Pids \cup {None}, status : {"Running", "Exited"},
               dir : BOOLEAN]
DeleteRecord == [pc : DeletePC, target : Nodes \cup {None}, took : Nodes \cup {None}]
ExecRecord == [pc : ExecPC, node : Nodes \cup {None}, pid : Pids \cup {None}]

(* The tables and the futures keep to their types. *)
ProviderTypeOK ==
    /\ table \in [Pids -> Nodes \cup {None}]
    /\ proc \in [Pids -> ProcessRecord]
    /\ piped \subseteq Nodes \cup Execs
    /\ node \in [Nodes -> NodeRecord]
    /\ del \in [Deletes -> DeleteRecord]
    /\ ex \in [Execs -> ExecRecord]

ProviderInit ==
    /\ table = [p \in Pids |-> None]
    /\ proc = [p \in Pids |-> [owner |-> None, alive |-> FALSE]]
    /\ piped = {}
    /\ node = [n \in Nodes |-> [pc |-> "idle", pid |-> None, status |-> "Running",
                                dir |-> FALSE]]
    /\ del = [d \in Deletes |-> [pc |-> "idle", target |-> None, took |-> None]]
    /\ ex = [x \in Execs |-> [pc |-> "idle", node |-> None, pid |-> None]]

(* list_nodes; get() and with it describe_node find the same nodes. *)
ListNodes == {table[p] : p \in Pids} \ {None}

-----------------------------------------------------------------------------
(* The operating system *)

Free(p) == proc[p].owner = None

Fork(p, who) == proc' = [proc EXCEPT ![p] = [owner |-> who, alive |-> TRUE]]

(* A zombie is reaped; its pid is free again. *)
Reap(p) == proc' = [proc EXCEPT ![p].owner = None]

(* kill_on_drop: the child is killed now and reaped later.  Processes it   *)
(* has started are not: kill() names the child alone.                      *)
DropChild(p) == proc' = [proc EXCEPT ![p] = [owner |-> "orphan", alive |-> FALSE]]

ReapOrphan(p) ==
    /\ proc[p].owner = "orphan"
    /\ Reap(p)
    /\ UNCHANGED <<table, piped, node, del, ex>>

(* A node's child or an exec's process exits by itself. *)
ProcessExits(p) ==
    /\ proc[p].alive
    /\ proc' = [proc EXCEPT ![p].alive = FALSE]
    /\ UNCHANGED <<table, piped, node, del, ex>>

(* A running child starts a process that inherits its output (overloop     *)
(* inherits the agent's stderr).  One that is started with its output      *)
(* redirected holds nothing: nothing here waits for it or kills it, and it *)
(* is not followed.                                                        *)
PipesInherited(w) ==
    /\ w \notin piped
    /\ \E p \in Pids : proc[p] = [owner |-> w, alive |-> TRUE]
    /\ piped' = piped \cup {w}
    /\ UNCHANGED <<table, proc, node, del, ex>>

(* The last of the processes that hold them ends, or closes them. *)
PipesReleased(w) ==
    /\ w \in piped
    /\ piped' = piped \ {w}
    /\ UNCHANGED <<table, proc, node, del, ex>>

-----------------------------------------------------------------------------
(* create_node *)

(* The directory is made and the child spawned in it, with its log pumps.  *)
(* When spawn fails the directory stays; when the directory cannot be made *)
(* nothing has happened.                                                   *)
Spawn(n) ==
    /\ node[n].pc = "idle"
    /\ \/ \E p \in Pids :
            /\ Free(p)
            /\ Fork(p, n)
            /\ node' = [node EXCEPT ![n].pc = "spawned", ![n].pid = p,
                                   ![n].dir = TRUE]
       \/ node' = [node EXCEPT ![n].pc = "failed", ![n].dir = TRUE] /\ UNCHANGED proc
    /\ UNCHANGED <<table, piped, del, ex>>

(* The node enters the table under its pid, and the handle is returned. *)
Insert(n) ==
    /\ node[n].pc = "spawned"
    /\ table' = [table EXCEPT ![node[n].pid] = n]
    /\ node' = [node EXCEPT ![n].pc = "returned"]
    /\ UNCHANGED <<proc, piped, del, ex>>

(* The future is dropped while it waits for the table's lock. *)
CancelCreate(n) ==
    /\ node[n].pc = "spawned"
    /\ DropChild(node[n].pid)
    /\ node' = [node EXCEPT ![n].pc = "failed"]
    /\ UNCHANGED <<table, piped, del, ex>>

-----------------------------------------------------------------------------
(* delete_node *)

DeleteKeepsEntry(d, n) ==
    /\ del[d].pc = "idle" /\ node[n].pc = "returned"
    /\ LET found == table[node[n].pid]
       IN  del' = [del EXCEPT ![d] = [pc |-> IF found = None THEN "ok" ELSE "kill",
                                      target |-> n, took |-> found]]
    /\ UNCHANGED <<table, proc, piped, node, ex>>

(* A caller that was given n's id deletes it.  An id that is not in the    *)
(* table is fine; one that is may by now be another node's.                *)
DeleteRemove(d, n) ==
    /\ del[d].pc = "idle" /\ node[n].pc = "returned"
    /\ LET found == table[node[n].pid]
       IN  del' = [del EXCEPT ![d] = [pc |-> IF found = None THEN "ok" ELSE "kill",
                                      target |-> n, took |-> found]]
    /\ table' = [table EXCEPT ![node[n].pid] = None]
    /\ UNCHANGED <<proc, piped, node, ex>>

DeleteGoto(d, pc) == del' = [del EXCEPT ![d].pc = pc]
Victim(d) == node[del[d].took].pid

DeleteKillOnly(d) ==
    /\ del[d].pc = "kill"
    /\ DeleteGoto(d, "finish")
    /\ UNCHANGED <<table, proc, piped, node, ex>>

DeleteKillReaps(d) ==
    /\ del[d].pc = "kill"
    /\ proc' = [proc EXCEPT ![Victim(d)] = [owner |-> None, alive |-> FALSE]]
    /\ DeleteGoto(d, "wait")
    /\ UNCHANGED <<table, piped, node, ex>>

DeleteWaitsOnly(d) ==
    /\ del[d].pc = "kill"
    /\ DeleteGoto(d, "wait")
    /\ UNCHANGED <<table, proc, piped, node, ex>>

(* The child is taken out of its mutex and killed. *)
DeleteKill(d) ==
    /\ del[d].pc = "kill"
    /\ proc' = [proc EXCEPT ![Victim(d)].alive = FALSE]
    /\ DeleteGoto(d, "wait")
    /\ UNCHANGED <<table, piped, node, ex>>

DeleteWaitReadsOutput(d) ==
    /\ del[d].pc = "wait" /\ ~proc[Victim(d)].alive /\ del[d].took \notin piped
    /\ Reap(Victim(d))
    /\ DeleteGoto(d, "finish")
    /\ UNCHANGED <<table, piped, node, ex>>

DeleteWait(d) ==
    /\ del[d].pc = "wait" /\ ~proc[Victim(d)].alive
    /\ Reap(Victim(d))
    /\ DeleteGoto(d, "finish")
    /\ UNCHANGED <<table, piped, node, ex>>

(* The status, then remove_dir_all, whose error is ignored. *)
DeleteFinish(d) ==
    /\ del[d].pc = "finish"
    /\ \E left \in BOOLEAN :
         node' = [node EXCEPT ![del[d].took].status = "Exited", ![del[d].took].dir = left]
    /\ DeleteGoto(d, "ok")
    /\ UNCHANGED <<table, proc, piped, ex>>

(* The future is dropped at an await, the child with it if it has it. *)
CancelDelete(d) ==
    /\ del[d].pc \in {"kill", "wait", "finish"}
    /\ IF del[d].pc \in {"kill", "wait"} THEN DropChild(Victim(d)) ELSE UNCHANGED proc
    /\ DeleteGoto(d, "dropped")
    /\ UNCHANGED <<table, piped, node, ex>>

-----------------------------------------------------------------------------
(* exec *)

ExecGet(x, n) ==
    /\ ex[x].pc = "idle" /\ node[n].pc = "returned"
    /\ LET found == table[node[n].pid]
       IN  ex' = [ex EXCEPT ![x].pc = IF found = None THEN "error" ELSE "got",
                            ![x].node = found]
    /\ UNCHANGED <<table, proc, piped, node, del>>

(* The command starts in the node's directory or in one of the request's   *)
(* choice, or it does not start: it is empty, or there is no such program  *)
(* or directory.                                                           *)
ExecSpawn(x) ==
    /\ ex[x].pc = "got"
    /\ \/ \E p \in Pids :
            /\ Free(p)
            /\ Fork(p, x)
            /\ ex' = [ex EXCEPT ![x].pc = "running", ![x].pid = p]
       \/ ex' = [ex EXCEPT ![x].pc = "error"] /\ UNCHANGED proc
    /\ UNCHANGED <<table, piped, node, del>>

ExecReapReturns(x) ==
    /\ ex[x].pc = "running" /\ ~proc[ex[x].pid].alive
    /\ Reap(ex[x].pid)
    /\ ex' = [ex EXCEPT ![x].pc = "done"]
    /\ UNCHANGED <<table, piped, node, del>>

(* output() waits for the child and for the end of its output at once: the *)
(* child may be reaped long before its pipes end.                          *)
ExecReap(x) ==
    /\ ex[x].pc = "running" /\ ~proc[ex[x].pid].alive
    /\ Reap(ex[x].pid)
    /\ ex' = [ex EXCEPT ![x].pc = "reaped"]
    /\ UNCHANGED <<table, piped, node, del>>

ExecDone(x) ==
    /\ ex[x].pc = "reaped" /\ x \notin piped
    /\ ex' = [ex EXCEPT ![x].pc = "done"]
    /\ UNCHANGED <<table, proc, piped, node, del>>

ExecTimeoutLeaves(x) ==
    /\ ex[x].pc \in {"running", "reaped"}
    /\ ex' = [ex EXCEPT ![x].pc = "timeout"]
    /\ UNCHANGED <<table, proc, piped, node, del>>

(* The timeout, the caller, or an error of one of the reads drops the      *)
(* command's future, and with it the child that is not yet reaped.         *)
ExecTimeout(x) ==
    /\ ex[x].pc \in {"running", "reaped"}
    /\ IF ex[x].pc = "running" THEN DropChild(ex[x].pid) ELSE UNCHANGED proc
    /\ ex' = [ex EXCEPT ![x].pc = "timeout"]
    /\ UNCHANGED <<table, piped, node, del>>

-----------------------------------------------------------------------------
(* Who has a sender of the node's log channel: whoever has the node, and   *)
(* its log pumps up to the end of the child's output, while the child runs *)
(* or somebody else holds its pipes.  A log stream sees what is sent while *)
(* it is subscribed, skips lines when it lags, and ends with the last      *)
(* sender.                                                                 *)
LogSenders(n) ==
    {p \in Pids : table[p] = n \/ proc[p] = [owner |-> n, alive |-> TRUE]}
    \cup ({n} \cap piped)
    \cup {d \in Deletes : del[d].took = n /\ del[d].pc \in {"kill", "wait", "finish"}}
    \cup {x \in Execs : ex[x].node = n /\ ex[x].pc \in {"got", "running", "reaped"}}

-----------------------------------------------------------------------------
DeleteStep(d) == DeleteKill(d) \/ DeleteWait(d) \/ DeleteFinish(d)

(* What goes on by itself once started. *)
ProviderRuns ==
    \/ \E d \in Deletes : DeleteStep(d)
    \/ \E x \in Execs : ExecSpawn(x) \/ ExecReap(x) \/ ExecDone(x)

ProviderNext ==
    \/ \E p \in Pids : ReapOrphan(p) \/ ProcessExits(p)
    \/ \E w \in Nodes \cup Execs : PipesInherited(w) \/ PipesReleased(w)
    \/ \E n \in Nodes :
        \/ Spawn(n) \/ Insert(n) \/ CancelCreate(n)
        \/ \E d \in Deletes : DeleteRemove(d, n)
        \/ \E x \in Execs : ExecGet(x, n)
    \/ ProviderRuns
    \/ \E d \in Deletes : CancelDelete(d)
    \/ \E x \in Execs : ExecTimeout(x)

ProviderSpec == ProviderInit /\ [][ProviderNext]_providerVars

-----------------------------------------------------------------------------
(* An id in the table is the pid of its node's own child, running or not   *)
(* yet reaped: no list, describe, exec or delete meets a pid that the      *)
(* operating system has given to somebody else, and insert() overwrites    *)
(* nothing (local.rs 144-147, 178, 209-215).                               *)
IdIsOwnProcess ==
    \A n \in ListNodes :
        LET p == node[n].pid IN table[p] = n /\ proc[p].owner = n

(* delete_node says a node has exited, and removes its workspace, only     *)
(* with its process reaped (local.rs 213-218).                             *)
ExitedIsReaped ==
    \A n \in Nodes :
        node[n].status = "Exited" \/ (node[n].pc = "returned" /\ ~node[n].dir)
            => \A p \in Pids : proc[p].owner # n

(* A delete takes another node than the one its caller was given the id of *)
(* only when that one is already deleted and reaped: a repeated delete is  *)
(* harmless up to the reuse of the pid, not beyond (provider.rs 62).       *)
DeleteTakesItsNode ==
    \A d \in Deletes :
        LET n == del[d].target
        IN  del[d].took \notin {None, n} =>
              \E e \in Deletes \ {d} : del[e].took = n /\ del[e].pc \notin {"kill", "wait"}

(* The child of an exec does not outlive it, killed or reaped, and an exec *)
(* that answers has the whole output, also of the processes that inherited *)
(* its pipes.  What the child has started may well go on after a timeout   *)
(* (kill_on_drop and output(), local.rs 242-250).                          *)
ExecReturnsWhole ==
    \A x \in Execs :
        /\ ex[x].pc \in {"done", "error", "timeout"} => \A p \in Pids : proc[p].owner # x
        /\ ex[x].pc = "done" => x \notin piped

(* A node that is out of the table loses its senders, so that its log      *)
(* streams end, unless an exec keeps it or a process that the node started *)
(* keeps its output open: delete_node kills the child and does not wait    *)
(* for the end of its output (local.rs 209-216, 223, 266-309).             *)
LogStreamsEnd ==
    \A n \in Nodes :
        (node[n].pc = "returned" /\ n \notin ListNodes) ~>
            (LogSenders(n) \subseteq {n} \cup {x \in Execs : ex[x].pc \in {"running", "reaped"}})

(* The node table and the operating system agree under concurrent and      *)
(* dropped creates, deletes and execs, with pids that come back (local.rs  *)
(* 123-264).                                                               *)
NodesOK ==
    /\ ProviderTypeOK
    /\ IdIsOwnProcess
    /\ ExitedIsReaped
    /\ DeleteTakesItsNode
    /\ ExecReturnsWhole
=============================================================================
