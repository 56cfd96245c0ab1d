----------------------------- MODULE FileConfig -----------------------------
(***************************************************************************)
(* Resolving pool configurations against secret files                      *)
(* (compute/src/config/mod.rs, file.rs, env.rs).  Several resolve() calls  *)
(* share one FileConfigProvider, whose cache is behind an async mutex held *)
(* across the read of the file, while the operator edits, removes and      *)
(* restores the file.  A resolve() looks its references up one by one and  *)
(* stops at the first error.                                               *)
(***************************************************************************)
EXTENDS Integers, Sequences

CONSTANTS Resolvers, Files,
          RefsPerConfig,  \* references in one configuration
          MaxVersion      \* bound: edits of a file

ASSUME ConfigAssumption ==
    /\ RefsPerConfig \in Nat /\ MaxVersion \in Nat \ {0}
    /\ Files # {} /\ "free" \notin Resolvers

VARIABLES
    file,     \* what is on disk: its version, or 0 when it is missing or does not parse
    edits,    \* the latest version of each file
    cached,   \* the provider's cache: a version, or 0
    mutex,    \* who holds the cache's lock, or "free"
    rpc,      \* a resolver: "idle", "wait", "read", "ok", "error"
    want,     \* the file of its current reference
    got       \* what its references resolved to: [file, version]

configVars == <<file, edits, cached, mutex, rpc, want, got>>

Resolved == [file : Files, version : 1..MaxVersion]

(* The cache, the lock and the resolvers keep to their types; whoever reads *)
(* a file holds the lock (file.rs 52-61).                                  *)
ConfigTypeOK ==
    /\ file \in [Files -> 0..MaxVersion] /\ edits \in [Files -> 1..MaxVersion]
    /\ cached \in [Files -> 0..MaxVersion]
    /\ mutex \in Resolvers \cup {"free"}
    /\ rpc \in [Resolvers -> {"idle", "wait", "read", "ok", "error"}]
    /\ want \in [Resolvers -> Files]
    /\ got \in [Resolvers -> Seq(Resolved)]
    /\ \A r \in Resolvers : Len(got[r]) <= RefsPerConfig /\ (rpc[r] = "read" <=> mutex = r)

ConfigInit ==
    /\ file = [f \in Files |-> 1] /\ edits = [f \in Files |-> 1]
    /\ cached = [f \in Files |-> 0]
    /\ mutex = "free"
    /\ rpc = [r \in Resolvers |-> "idle"]
    /\ want = [r \in Resolvers |-> CHOOSE f \in Files : TRUE]
    /\ got = [r \in Resolvers |-> <<>>]

(* The operator's file *)
EditFile(f) ==
    /\ edits[f] < MaxVersion
    /\ edits' = [edits EXCEPT ![f] = @ + 1]
    /\ file' = [file EXCEPT ![f] = edits[f] + 1]
    /\ UNCHANGED <<cached, mutex, rpc, want, got>>

BreakFile(f) ==
    /\ file[f] # 0
    /\ file' = [file EXCEPT ![f] = 0]
    /\ UNCHANGED <<edits, cached, mutex, rpc, want, got>>

(* resolve_value comes to its next reference.  An unknown scheme, a file   *)
(* reference without a key, an env reference with one and an unset         *)
(* variable are errors at once.                                            *)
NextReference(r) ==
    /\ rpc[r] = "idle"
    /\ Len(got[r]) < RefsPerConfig
    /\ \/ \E f \in Files : want' = [want EXCEPT ![r] = f] /\ rpc' = [rpc EXCEPT ![r] = "wait"]
       \/ rpc' = [rpc EXCEPT ![r] = "error"] /\ UNCHANGED want
    /\ UNCHANGED <<file, edits, cached, mutex, got>>

(* lookup(): a dotted key that the parsed file lacks, or that is not a     *)
(* scalar, is an error; otherwise the reference has its value.             *)
Lookup(r, version) ==
    \/ /\ got' = [got EXCEPT ![r] = Append(@, [file |-> want[r], version |-> version])]
       /\ rpc' = [rpc EXCEPT ![r] = IF Len(got[r]) + 1 = RefsPerConfig THEN "ok" ELSE "idle"]
    \/ rpc' = [rpc EXCEPT ![r] = "error"] /\ UNCHANGED got

LoadUnlocked(r) ==
    /\ rpc[r] = "wait"
    /\ LET hit == cached[want[r]]
       IN  \/ hit # 0 /\ Lookup(r, hit)
           \/ hit = 0 /\ rpc' = [rpc EXCEPT ![r] = "read"] /\ UNCHANGED got
    /\ UNCHANGED <<file, edits, cached, want, mutex>>

(* load(): the lock, and the cached file if there is one. *)
LoadLock(r) ==
    /\ rpc[r] = "wait" /\ mutex = "free"
    /\ LET hit == cached[want[r]]
       IN  \/ hit # 0 /\ Lookup(r, hit) /\ UNCHANGED mutex
           \/ hit = 0 /\ mutex' = r /\ rpc' = [rpc EXCEPT ![r] = "read"] /\ UNCHANGED got
    /\ UNCHANGED <<file, edits, cached, want>>

LoadReadStuck(r) ==
    /\ rpc[r] = "read"
    /\ file[want[r]] # 0
    /\ mutex' = "free"
    /\ cached' = [cached EXCEPT ![want[r]] = file[want[r]]]
    /\ Lookup(r, file[want[r]])
    /\ UNCHANGED <<file, edits, want>>

LoadReadUncached(r) ==
    /\ rpc[r] = "read"
    /\ mutex' = "free"
    /\ IF file[want[r]] = 0 THEN rpc' = [rpc EXCEPT ![r] = "error"] /\ UNCHANGED got
       ELSE Lookup(r, file[want[r]])
    /\ UNCHANGED <<file, edits, cached, want>>

(* load(): read and parse.  A failure is not cached. *)
LoadRead(r) ==
    /\ rpc[r] = "read"
    /\ mutex' = "free"
    /\ \/ /\ file[want[r]] = 0
          /\ rpc' = [rpc EXCEPT ![r] = "error"]
          /\ UNCHANGED <<cached, got>>
       \/ /\ file[want[r]] # 0
          /\ cached' = [cached EXCEPT ![want[r]] = file[want[r]]]
          /\ Lookup(r, file[want[r]])
    /\ UNCHANGED <<file, edits, want>>

ConfigRuns == \E r \in Resolvers : NextReference(r) \/ LoadLock(r) \/ LoadRead(r)

ConfigNext ==
    \/ \E f \in Files : EditFile(f) \/ BreakFile(f)
    \/ ConfigRuns

(* The resolvers beside the operator, safety alone. *)
ConfigSpec == ConfigInit /\ [][ConfigNext]_configVars

-----------------------------------------------------------------------------
(* All references to a file, in one configuration and across pools, are    *)
(* resolved from one version of it, however often it is edited meanwhile   *)
(* (file.rs 15: "read once on first lookup and cached").                   *)
OneVersionOfAFile ==
    \A r, s \in Resolvers : \A i \in 1..Len(got[r]), j \in 1..Len(got[s]) :
        got[r][i].file = got[s][j].file => got[r][i].version = got[s][j].version

(* Every resolve() returns: nobody waits for ever on the cache's lock,     *)
(* also when the holder's read fails (file.rs 51-61).                      *)
ResolvesReturn == \A r \in Resolvers : (rpc[r] = "wait") ~> (rpc[r] \in {"idle", "ok", "error"})

(* Configurations resolved while files change agree on one version of each *)
(* file, read under the cache's lock (file.rs 34-87).                      *)
ResolvedOK == ConfigTypeOK /\ OneVersionOfAFile
=============================================================================
