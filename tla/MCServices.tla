----------------------------- MODULE MCServices -----------------------------
(* The parts beside the broker that share no state with each other: the    *)
(* local compute provider, the resolver of its configuration, and access   *)
(* to the server.  A behaviour is one of the parts; the others stand still. *)
EXTENDS LocalProvider, FileConfig, Access

VARIABLE part

Init ==
    /\ part \in {"provider", "config", "access"}
    /\ ProviderInit /\ ConfigInit /\ AccessInit

ProviderPart(A) == part = "provider" /\ A /\ UNCHANGED <<part, configVars, accessVars>>
ConfigPart(A) == part = "config" /\ A /\ UNCHANGED <<part, providerVars, accessVars>>
AccessPart(A) == part = "access" /\ A /\ UNCHANGED <<part, providerVars, configVars>>

Next == ProviderPart(ProviderNext) \/ ConfigPart(ConfigNext) \/ AccessPart(AccessNext)

serviceVars == <<part, providerVars, configVars, accessVars>>

(* Futures that are polled go on; processes and operators need not.  The   *)
(* futures of a part take finitely many steps and one that can step can    *)
(* until it does, so that fairness of them together is fairness of each.   *)
Spec ==
    /\ Init /\ [][Next]_serviceVars
    /\ WF_serviceVars(ProviderPart(ProviderRuns) \/ ConfigPart(ConfigRuns))

(* Futures of the services end: log streams of deleted nodes (local.rs     *)
(* 208-309) and resolves whose file cannot be read (file.rs 51-61).        *)
ServicesSettle == LogStreamsEnd /\ ResolvesReturn
=============================================================================
