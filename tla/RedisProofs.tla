----------------------------- MODULE RedisProofs -----------------------------
(***************************************************************************)
(* Theorems about the broker on the Redis backend, for any instances,      *)
(* tunnels, pushes, requests and capacities, and any number of faults: who *)
(* holds the lease, what becomes of a push, and what operators are shown   *)
(* of the directory and of the agent's notifications.                      *)
(***************************************************************************)
EXTENDS RedisBroker, RedisViews, RedisStream, FiniteSetTheorems, TLAPS

-----------------------------------------------------------------------------
(* The lease.                                                              *)

Serving == {"consumer", "drain", "open"}

(* Tunnels that have not begun have no host; a heartbeat runs from the     *)
(* directory on; a release begins when the tunnel has gone.                *)
TasksOK ==
    \A t \in Tunnels :
        /\ tpc[t] = "idle" <=> host[t] = None
        /\ hb[t] = "on" => tpc[t] \in Serving
        /\ release[t] # "none" => tpc[t] = "gone"

(* The key is of the tunnel that set it last, or gone. *)
KeyOfLatest ==
    /\ latest = None => owner = None
    /\ latest # None => /\ owner \in {None, host[latest]}
                        /\ tpc[latest] \notin {"idle", "publish", "set"}

(* Between its SET and its heartbeat, and while that runs, the tunnel that *)
(* set the key last keeps it.                                              *)
KeyIsKept ==
    (latest # None /\ (hb[latest] = "on" \/ tpc[latest] = "directory") /\ ~SharesHost(latest))
        => owner = host[latest]

LeaseInv == LeaseTypeOK /\ TasksOK /\ KeyOfLatest /\ KeyIsKept

LEMMA FaultType ==
    ASSUME NEW kind, Fault(kind), faults \in 0..MaxFaults
    PROVE  faults' \in 0..MaxFaults
BY LeaseAssumption DEF Fault

(* A step of the acquire or of the tunnel's main task that leaves the key, *)
(* the heartbeats and the releases alone.                                  *)
LEMMA LeaseMoves ==
    ASSUME LeaseInv, LeaseTypeOK', NEW t \in Tunnels, NEW pc \in Serving, tpc[t] \in Serving,
           Goto(t, pc), UNCHANGED <<owner, host, hb, release, latest>>
    PROVE  LeaseInv'
<1>1. tpc \in [Tunnels -> TunnelPC] /\ pc \notin {"idle", "publish", "set", "gone", "directory"}
      /\ tpc' = [tpc EXCEPT ![t] = pc]
  BY DEF LeaseInv, LeaseTypeOK, Goto, Serving
<1>2. \A u \in Tunnels : tpc'[u] = IF u = t THEN pc ELSE tpc[u]
  BY <1>1
<1>3. TasksOK'
  BY <1>2 DEF LeaseInv, TasksOK, Serving
<1>4. KeyOfLatest'
  BY <1>1, <1>2 DEF LeaseInv, LeaseTypeOK, KeyOfLatest
<1>5. SharesHost(latest)' <=> SharesHost(latest)
  BY Zenon DEF SharesHost
<1>6. KeyIsKept'
  BY <1>1, <1>2, <1>5 DEF LeaseInv, LeaseTypeOK, KeyIsKept
<1> QED BY <1>3, <1>4, <1>6 DEF LeaseInv

LEMMA LeaseAcquire ==
    ASSUME LeaseInv, NEW t \in Tunnels,
           (\E i \in Instances : GetOwner(t, i)) \/ PublishTakeover(t) \/ SetOwner(t)
              \/ EnterDirectory(t) \/ AcquireFails(t)
    PROVE  LeaseInv'
<1>0. LeaseTypeOK /\ TasksOK /\ KeyOfLatest /\ KeyIsKept
  BY DEF LeaseInv
<1> USE DEF Goto, redisVars, taskVars
<1>1. ASSUME NEW i \in Instances, GetOwner(t, i) PROVE LeaseInv'
  <2>1. LeaseTypeOK' /\ TasksOK'
    BY <1>0, <1>1, LeaseAssumption DEF GetOwner, LeaseTypeOK, TasksOK, TunnelPC, Serving
  <2>2. latest # None => latest # t /\ host[latest] # None /\ latest \in Tunnels
    BY <1>0, <1>1 DEF GetOwner, KeyOfLatest, TasksOK, LeaseTypeOK
  <2>3. KeyOfLatest'
    BY <1>0, <1>1, <2>2 DEF GetOwner, KeyOfLatest, LeaseTypeOK
  <2>4. latest # None /\ SharesHost(latest) => SharesHost(latest)'
    <3>1. host[t] = None
      BY <1>0, <1>1 DEF GetOwner, TasksOK
    <3> QED BY <1>0, <1>1, <2>2, <3>1 DEF GetOwner, SharesHost, LeaseTypeOK
  <2>5. KeyIsKept'
    BY <1>0, <1>1, <2>2, <2>4 DEF GetOwner, KeyIsKept, LeaseTypeOK
  <2> QED BY <2>1, <2>3, <2>5 DEF LeaseInv
<1>2. CASE PublishTakeover(t)
  <2>1. tpc[t] = "publish" /\ tpc' = [tpc EXCEPT ![t] = "set"]
        /\ UNCHANGED <<owner, host, hb, release, control, latest>>
    BY <1>2 DEF PublishTakeover
  <2>2. signal' \in [Tunnels -> BOOLEAN] /\ faults' \in 0..MaxFaults
    BY <1>0, <1>2, FaultType DEF PublishTakeover, Broadcast, LeaseTypeOK
  <2>3. LeaseTypeOK'
    BY <1>0, <2>1, <2>2 DEF LeaseTypeOK, TunnelPC
  <2>4. TasksOK' /\ KeyOfLatest'
    BY <1>0, <2>1 DEF LeaseTypeOK, TasksOK, KeyOfLatest, Serving
  <2>5. SharesHost(latest)' <=> SharesHost(latest)
    BY <2>1, Zenon DEF SharesHost
  <2>6. KeyIsKept'
    BY <1>0, <2>1, <2>5 DEF LeaseTypeOK, KeyIsKept
  <2> QED BY <2>3, <2>4, <2>6 DEF LeaseInv
<1>3. CASE SetOwner(t)
  <2>1. host[t] \in Instances /\ host[t] # None
    BY <1>0, <1>3 DEF SetOwner, LeaseTypeOK, TasksOK
  <2>2. LeaseTypeOK' /\ TasksOK'
    BY <1>0, <1>3, <2>1 DEF SetOwner, LeaseTypeOK, TasksOK, TunnelPC, Serving
  <2>3. KeyOfLatest' /\ KeyIsKept'
    BY <1>0, <1>3, LeaseAssumption DEF SetOwner, LeaseTypeOK, KeyOfLatest, KeyIsKept
  <2> QED BY <2>2, <2>3 DEF LeaseInv
<1>4. CASE EnterDirectory(t)
  <2>1. tpc[t] = "directory" /\ tpc' = [tpc EXCEPT ![t] = "consumer"]
        /\ hb' = [hb EXCEPT ![t] = "on"] /\ UNCHANGED <<owner, host, release, latest>>
    BY <1>4 DEF EnterDirectory
  <2>2. LeaseTypeOK' /\ TasksOK'
    BY <1>0, <1>4 DEF EnterDirectory, LeaseTypeOK, TasksOK, TunnelPC, Serving
  <2>3. KeyOfLatest'
    BY <1>0, <2>1 DEF LeaseTypeOK, KeyOfLatest
  <2>4. SharesHost(latest)' <=> SharesHost(latest)
    BY <2>1, Zenon DEF SharesHost
  <2>5. KeyIsKept'
    BY <1>0, <2>1, <2>4 DEF LeaseTypeOK, KeyIsKept
  <2> QED BY <2>2, <2>3, <2>5 DEF LeaseInv
<1>5. CASE AcquireFails(t)
  <2>1. /\ tpc[t] \in {"set", "directory"} /\ tpc' = [tpc EXCEPT ![t] = "gone"]
        /\ UNCHANGED <<host, hb, release, control, signal>>
        /\ (UNCHANGED <<owner, latest>>) \/ (owner' = host[t] /\ latest' = t)
    BY <1>5 DEF AcquireFails
  <2>2. hb[t] # "on" /\ host[t] \in Instances /\ t # None
    BY <1>0, <2>1, LeaseAssumption DEF LeaseTypeOK, TasksOK, Serving
  <2>3. faults' \in 0..MaxFaults
    BY <1>0, <1>5, FaultType DEF AcquireFails, LeaseTypeOK
  <2>4. LeaseTypeOK' /\ TasksOK'
    BY <1>0, <2>1, <2>2, <2>3 DEF LeaseTypeOK, TasksOK, TunnelPC, Serving
  <2>5. KeyOfLatest'
    BY <1>0, <2>1, <2>2 DEF LeaseTypeOK, KeyOfLatest
  <2>6. \A u \in Tunnels : SharesHost(u)' <=> SharesHost(u)
    BY <2>1, Zenon DEF SharesHost
  <2>7. KeyIsKept'
    BY <1>0, <2>1, <2>2, <2>6 DEF LeaseTypeOK, KeyIsKept
  <2> QED BY <2>4, <2>5, <2>7 DEF LeaseInv
<1> QED BY <1>1, <1>2, <1>3, <1>4, <1>5

(* Steps that leave every tunnel where it is, and the key to the instance  *)
(* that has it, unless nobody there is renewing it.                        *)
LEMMA LeaseKept ==
    ASSUME LeaseInv, LeaseTypeOK', UNCHANGED <<tpc, host, latest>>,
           \A t \in Tunnels : hb'[t] = "on" => hb[t] = "on",
           \A t \in Tunnels : release'[t] # "none" => release[t] # "none",
           owner' \in {owner, None},
           owner' # owner => \/ latest = None
                             \/ owner # host[latest] \/ SharesHost(latest)
                             \/ hb[latest] # "on" /\ tpc[latest] # "directory"
    PROVE  LeaseInv'
<1>1. TasksOK' /\ KeyOfLatest'
  BY DEF LeaseInv, LeaseTypeOK, TasksOK, KeyOfLatest
<1>2. SharesHost(latest)' <=> SharesHost(latest)
  BY Zenon DEF SharesHost
<1>3. KeyIsKept'
  BY <1>2 DEF LeaseInv, LeaseTypeOK, KeyIsKept
<1> QED BY <1>1, <1>3 DEF LeaseInv

LEMMA LeaseBackground ==
    ASSUME LeaseInv,
           NEW t \in Tunnels,
           StopHeartbeat(t) \/ Subscribe(t) \/ ReleaseOwner(t) \/ ReleaseCleanup(t)
    PROVE  LeaseInv'
<1>0. LeaseTypeOK /\ TasksOK /\ KeyOfLatest /\ KeyIsKept
  BY DEF LeaseInv
<1> USE DEF redisVars
<1>1. CASE StopHeartbeat(t)
  <2>1. hb[t] = "on" /\ hb' = [hb EXCEPT ![t] = "stopped"]
        /\ UNCHANGED <<owner, tpc, host, release, control, signal, latest>>
    BY <1>1 DEF StopHeartbeat
  <2>2. faults' \in 0..MaxFaults
    BY <1>0, <1>1, FaultType DEF StopHeartbeat, LeaseTypeOK
  <2>3. LeaseTypeOK'
    BY <1>0, <2>1, <2>2 DEF LeaseTypeOK
  <2>4. \A u \in Tunnels : hb'[u] = "on" => hb[u] = "on"
    BY <1>0, <2>1 DEF LeaseTypeOK
  <2> QED BY <2>1, <2>3, <2>4, LeaseKept
<1>2. CASE Subscribe(t)
  <2>1. UNCHANGED <<owner, tpc, host, hb, release, signal, latest>>
        /\ \E c \in {"on", "failed"} : control' = [control EXCEPT ![t] = c]
    BY <1>2 DEF Subscribe
  <2>2. faults' \in 0..MaxFaults
    BY <1>0, <1>2, FaultType DEF Subscribe, LeaseTypeOK
  <2>3. LeaseTypeOK'
    BY <1>0, <2>1, <2>2 DEF LeaseTypeOK
  <2> QED BY <2>1, <2>3, LeaseKept
<1>3. CASE ReleaseOwner(t)
  <2>1. /\ release[t] = "cas" /\ UNCHANGED <<tpc, host, hb, control, signal, latest>>
        /\ owner' = owner \/ (owner = host[t] /\ owner' = None)
        /\ \E x \in {"cleanup", "done"} : release' = [release EXCEPT ![t] = x]
    BY <1>3 DEF ReleaseOwner
  <2>2. faults' \in 0..MaxFaults
    BY <1>0, <1>3, FaultType DEF ReleaseOwner, LeaseTypeOK
  <2>3. LeaseTypeOK'
    BY <1>0, <2>1, <2>2 DEF LeaseTypeOK
  <2>4. \A u \in Tunnels : release'[u] # "none" => release[u] # "none"
    BY <1>0, <2>1 DEF LeaseTypeOK
  <2>5. tpc[t] = "gone" /\ hb[t] # "on"
    BY <1>0, <2>1 DEF TasksOK, Serving
  <2>6. owner' # owner => \/ latest = None
                          \/ owner # host[latest] \/ SharesHost(latest)
                          \/ hb[latest] # "on" /\ tpc[latest] # "directory"
    BY <2>1, <2>5 DEF SharesHost
  <2> QED BY <2>1, <2>3, <2>4, <2>6, LeaseKept
<1>4. CASE ReleaseCleanup(t)
  <2>1. /\ release[t] = "cleanup" /\ release' = [release EXCEPT ![t] = "done"]
        /\ UNCHANGED <<owner, tpc, host, hb, control, signal, latest, faults>>
    BY <1>4 DEF ReleaseCleanup
  <2>2. LeaseTypeOK' /\ \A u \in Tunnels : release'[u] # "none" => release[u] # "none"
    BY <1>0, <2>1 DEF LeaseTypeOK
  <2> QED BY <2>1, <2>2, LeaseKept
<1> QED BY <1>1, <1>2, <1>3, <1>4

LEMMA LeaseEnds ==
    ASSUME LeaseInv,
           \/ \E t \in Tunnels : DropOwnership(t)
           \/ \E i \in Instances : CrashTunnels(i)
           \/ Expire \/ Disconnect
    PROVE  LeaseInv'
<1>0. LeaseTypeOK /\ TasksOK /\ KeyOfLatest /\ KeyIsKept
  BY DEF LeaseInv
<1> USE DEF redisVars, taskVars
<1>1. ASSUME NEW t \in Tunnels, DropOwnership(t) PROVE LeaseInv'
  <2>1. /\ tpc[t] = "open" /\ tpc' = [tpc EXCEPT ![t] = "gone"]
        /\ hb' = [hb EXCEPT ![t] = "off"] /\ UNCHANGED <<owner, host, latest, faults>>
        /\ release' = [release EXCEPT ![t] = "cas"]
        /\ control' = [control EXCEPT ![t] = "none"]
        /\ signal' = [signal EXCEPT ![t] = FALSE]
    BY <1>1 DEF DropOwnership, Goto
  <2>2. LeaseTypeOK' /\ TasksOK'
    BY <1>0, <2>1 DEF LeaseTypeOK, TasksOK, TunnelPC, Serving
  <2>3. KeyOfLatest'
    BY <1>0, <2>1 DEF LeaseTypeOK, KeyOfLatest
  <2>4. SharesHost(latest)' <=> SharesHost(latest)
    BY <2>1, Zenon DEF SharesHost
  <2>5. KeyIsKept'
    BY <1>0, <2>1, <2>4 DEF LeaseTypeOK, KeyIsKept
  <2> QED BY <2>2, <2>3, <2>5 DEF LeaseInv
<1>2. ASSUME NEW i \in Instances, CrashTunnels(i) PROVE LeaseInv'
  <2>1. /\ tpc' = [t \in Tunnels |-> IF host[t] = i THEN "gone" ELSE tpc[t]]
        /\ hb' = [t \in Tunnels |-> IF host[t] = i THEN "off" ELSE hb[t]]
        /\ release' = [t \in Tunnels |-> IF host[t] = i THEN "done" ELSE release[t]]
        /\ control' = [t \in Tunnels |-> IF host[t] = i THEN "none" ELSE control[t]]
        /\ UNCHANGED <<owner, host, signal, latest>>
    BY <1>2 DEF CrashTunnels
  <2>2. faults' \in 0..MaxFaults
    BY <1>0, <1>2, FaultType DEF CrashTunnels, LeaseTypeOK
  <2>3. LeaseTypeOK'
    BY <1>0, <2>1, <2>2 DEF LeaseTypeOK, TunnelPC
  <2>4. TasksOK'
    BY <1>0, <2>1, LeaseAssumption DEF LeaseTypeOK, TasksOK, Serving
  <2>5. KeyOfLatest'
    BY <1>0, <2>1 DEF LeaseTypeOK, KeyOfLatest
  <2>6. SharesHost(latest)' <=> SharesHost(latest)
    BY <2>1, Zenon DEF SharesHost
  <2>7. KeyIsKept'
    BY <1>0, <2>1, <2>6 DEF LeaseTypeOK, KeyIsKept
  <2> QED BY <2>3, <2>4, <2>5, <2>7 DEF LeaseInv
<1>3. CASE Expire
  <2>1. /\ \A t \in Tunnels : host[t] = owner => hb[t] # "on" /\ tpc[t] # "directory"
        /\ owner' = None /\ UNCHANGED <<tpc, host, hb, release, control, signal, latest, faults>>
    BY <1>3 DEF Expire
  <2>2. LeaseTypeOK'
    BY <1>0, <2>1 DEF LeaseTypeOK
  <2>3. owner' # owner => \/ latest = None
                          \/ owner # host[latest] \/ SharesHost(latest)
                          \/ hb[latest] # "on" /\ tpc[latest] # "directory"
    BY <1>0, <2>1 DEF LeaseTypeOK
  <2> QED BY <2>1, <2>2, <2>3, LeaseKept
<1>4. CASE Disconnect
  <2>1. UNCHANGED <<owner, tpc, host, hb, release, control, latest, faults>>
        /\ signal' = [u \in Tunnels |-> signal[u] \/ control[u] = "on"]
    BY <1>4 DEF Disconnect, Broadcast
  <2>2. LeaseTypeOK'
    BY <1>0, <2>1 DEF LeaseTypeOK
  <2> QED BY <2>1, <2>2, LeaseKept
<1> QED BY <1>1, <1>2, <1>3, <1>4

-----------------------------------------------------------------------------
(* Pushes.                                                                 *)

(* A consumer that is about to acknowledge has put the entry on a channel, *)
(* or has tried to put it on the dead-letter stream.                       *)
ConsumersOK ==
    \A t \in Tunnels :
        /\ cpc[t] # "off" => host[t] # None
        /\ cpc[t] \in {"reply", "ack", "dlq_add", "dlq_ack"} => entry[t] \in Messages
        /\ cpc[t] = "ack" => entry[t] \in handed
        /\ cpc[t] = "dlq_ack" => entry[t] \in dead \cup spilled

PushInv == LeaseInv /\ RedisTypeOK /\ ConsumersOK /\ NothingForgotten

Remembered(m) ==
    \/ NotGivenYet(m) \/ pending[m] # None \/ InBuffer(m)
    \/ m \in dead \/ m \in handed \/ m \in spilled

LEMMA RememberedIs ==
    NothingForgotten <=> \A m \in Messages : post[m] \in {"live", "queued"} => Remembered(m)
BY DEF NothingForgotten, Remembered

LEMMA RememberedNext ==
    ASSUME NothingForgotten,
           \A m \in Messages : post[m] \in {"live", "queued"} /\ Remembered(m) => Remembered(m)',
           \A m \in Messages : post'[m] \in {"live", "queued"} =>
              post[m] \in {"live", "queued"} \/ Remembered(m)'
    PROVE  NothingForgotten'
BY RememberedIs DEF NothingForgotten, Remembered

(* The intervals 0..i, for i in S, have a minimal one. *)
LEMMA SmallestIndex ==
    ASSUME NEW S \in SUBSET Nat, S # {}
    PROVE  (CHOOSE i \in S : \A j \in S : i <= j) \in S
<1> DEFINE T == {0..i : i \in S}
           R == StrictSubsetOrdering(Nat)
<1>1. T # {} /\ T \subseteq FiniteSubsetsOf(Nat)
  <2>1. \A i \in S : IsFiniteSet(0..i)
    BY FS_Interval
  <2>2. \A i \in S : 0..i \in FiniteSubsetsOf(Nat)
    <3> SUFFICES ASSUME NEW i \in S PROVE 0..i \in FiniteSubsetsOf(Nat)
      OBVIOUS
    <3>1. 0..i \in SUBSET Nat
      OBVIOUS
    <3> QED BY <2>1, <3>1, Zenon DEF FiniteSubsetsOf
  <2>3. T # {}
    OBVIOUS
  <2> QED BY <2>2, <2>3, Zenon
<1>2. PICK I \in T : \A J \in T : ~(<<J, I>> \in R)
  <2>1. IsWellFoundedOn(R, FiniteSubsetsOf(Nat))
    BY FS_StrictSubsetOrderingWellFounded, Zenon
  <2> HIDE DEF R, T
  <2> QED BY <1>1, <2>1, WFMin, Zenon
<1>3. PICK i \in S : I = 0..i
  BY <1>2
<1>4. ASSUME NEW j \in S, j < i PROVE FALSE
  <2>1. 0..j \in T /\ 0..j \subseteq Nat /\ 0..i \subseteq Nat /\ 0..j \subseteq 0..i
    BY <1>4
  <2>2. 0..j # 0..i
    <3>1. i \in 0..i /\ i \notin 0..j
      BY <1>4
    <3> QED BY <3>1
  <2>3. <<0..j, 0..i>> \in R
    BY <2>1, <2>2 DEF StrictSubsetOrdering
  <2> QED BY <1>2, <1>3, <2>1, <2>3
<1>5. \A j \in S : i <= j
  BY <1>4
<1> QED BY <1>5

(* The lease moves and the inbox does not. *)
LEMMA InboxUntouched ==
    ASSUME PushInv, LeaseInv',
           UNCHANGED <<inboxVars, cpc, readId, entry, handed, spilled, handle, buffer, post>>,
           rx' \in [Tunnels -> BOOLEAN],
           \A t \in Tunnels : host[t] # None => host'[t] # None
    PROVE  PushInv'
<1>1. RedisTypeOK'
  BY DEF PushInv, LeaseInv, RedisTypeOK, InboxTypeOK, inboxVars
<1>2. ConsumersOK'
  BY DEF PushInv, ConsumersOK, inboxVars
<1>3. NothingForgotten'
  BY Zenon DEF PushInv, NothingForgotten, NotGivenYet, InBuffer, inboxVars
<1> QED BY <1>1, <1>2, <1>3 DEF PushInv

(* A tunnel's consumer stops for good: its lease is dropped, another of    *)
(* its instance drops its own, or the instance crashes.                    *)
LEMMA ConsumersStop ==
    ASSUME PushInv, LeaseInv',
           UNCHANGED <<inboxVars, host, readId, entry, handed, spilled, buffer, post>>,
           cpc' \in [Tunnels -> ConsumerPC],
           \A t \in Tunnels : cpc'[t] # "off" => cpc'[t] = cpc[t],
           rx' \in [Tunnels -> BOOLEAN], handle' \in [Instances -> Tunnels \cup {None}]
    PROVE  PushInv'
<1>1. RedisTypeOK'
  BY DEF PushInv, LeaseInv, RedisTypeOK, InboxTypeOK, inboxVars
<1>2. ConsumersOK'
  BY DEF PushInv, ConsumersOK, inboxVars
<1>3. NothingForgotten'
  BY Zenon DEF PushInv, NothingForgotten, NotGivenYet, InBuffer, inboxVars
<1> QED BY <1>1, <1>2, <1>3 DEF PushInv

LEMMA PushTunnelSteps ==
    ASSUME PushInv, NEW t \in Tunnels,
           \/ \E i \in Instances : Connect(t, i)
           \/ LeaseStep(t) \/ StartConsumer(t) \/ Drain(t) \/ Close(t) \/ CloseChannel(t)
           \/ BackgroundStep(t)
    PROVE  PushInv'
<1>0. /\ LeaseInv /\ LeaseTypeOK /\ TasksOK /\ InboxTypeOK /\ RedisTypeOK
      /\ ConsumersOK /\ NothingForgotten
  BY DEF PushInv, LeaseInv, RedisTypeOK
<1>1. ASSUME NEW i \in Instances, Connect(t, i) PROVE PushInv'
  <2>1. GetOwner(t, i) /\ rx' = [rx EXCEPT ![t] = TRUE]
        /\ UNCHANGED <<inboxVars, cpc, readId, entry, handed, spilled, handle, buffer, post>>
    BY <1>1 DEF Connect
  <2>2. LeaseInv'
    BY <1>0, <2>1, LeaseAcquire
  <2>3. rx' \in [Tunnels -> BOOLEAN] /\ \A u \in Tunnels : host[u] # None => host'[u] # None
    BY <1>0, <2>1, LeaseAssumption DEF GetOwner, InboxTypeOK, LeaseTypeOK
  <2> QED BY <2>1, <2>2, <2>3, InboxUntouched
<1>2. CASE LeaseStep(t)
  <2>1. /\ PublishTakeover(t) \/ SetOwner(t) \/ EnterDirectory(t) \/ AcquireFails(t)
        /\ rx' = [rx EXCEPT ![t] = tpc'[t] # "gone"]
        /\ UNCHANGED <<inboxVars, cpc, readId, entry, handed, spilled, handle, buffer, post>>
    BY <1>2 DEF LeaseStep
  <2>2. LeaseInv'
    BY <1>0, <2>1, LeaseAcquire
  <2>3. host' = host
    BY <2>1 DEF PublishTakeover, SetOwner, EnterDirectory, AcquireFails
  <2>4. rx' \in [Tunnels -> BOOLEAN]
    BY <1>0, <2>1 DEF InboxTypeOK
  <2> QED BY <2>1, <2>2, <2>3, <2>4, InboxUntouched
<1>3. CASE BackgroundStep(t)
  <2>1. /\ StopHeartbeat(t) \/ Subscribe(t) \/ ReleaseOwner(t) \/ ReleaseCleanup(t)
        /\ UNCHANGED <<inboxVars, consumerVars, handle, buffer, post>>
    BY <1>3 DEF BackgroundStep
  <2>2. LeaseInv'
    BY <1>0, <2>1, LeaseBackground
  <2>3. host' = host
    BY <2>1 DEF StopHeartbeat, Subscribe, ReleaseOwner, ReleaseCleanup
  <2>4. UNCHANGED <<cpc, readId, entry, rx, handed, spilled>>
    BY <2>1 DEF consumerVars
  <2> QED BY <1>0, <2>1, <2>2, <2>3, <2>4, InboxUntouched DEF InboxTypeOK
<1>4. CASE CloseChannel(t)
  <2>1. rx' = [rx EXCEPT ![t] = FALSE] /\ UNCHANGED leaseVars
        /\ UNCHANGED <<inboxVars, cpc, readId, entry, handed, spilled, handle, buffer, post>>
    BY <1>4 DEF CloseChannel
  <2>2. LeaseInv' /\ host' = host
    BY <1>0, <2>1, LeaseKept DEF leaseVars, redisVars, taskVars, LeaseTypeOK
  <2>3. rx' \in [Tunnels -> BOOLEAN]
    BY <1>0, <2>1 DEF InboxTypeOK
  <2> QED BY <2>1, <2>2, <2>3, InboxUntouched
<1>5. CASE Close(t)
  <2>1. /\ DropOwnership(t)
        /\ cpc' = [u \in Tunnels |-> IF u = handle[host[t]] THEN "off" ELSE cpc[u]]
        /\ handle' = [handle EXCEPT ![host[t]] = None]
        /\ UNCHANGED <<inboxVars, readId, entry, rx, handed, spilled, buffer, post>>
    BY <1>5 DEF Close
  <2>2. LeaseInv'
    BY <1>0, <2>1, LeaseEnds
  <2>3. host' = host
    BY <2>1 DEF DropOwnership
  <2>4. cpc' \in [Tunnels -> ConsumerPC] /\ \A u \in Tunnels : cpc'[u] # "off" => cpc'[u] = cpc[u]
    BY <1>0, <2>1 DEF InboxTypeOK, ConsumerPC
  <2>5. handle' \in [Instances -> Tunnels \cup {None}] /\ rx' \in [Tunnels -> BOOLEAN]
    BY <1>0, <2>1 DEF InboxTypeOK, RedisTypeOK
  <2> QED BY <2>1, <2>2, <2>3, <2>4, <2>5, ConsumersStop
<1>6. CASE StartConsumer(t)
  <2>1. /\ tpc[t] = "consumer" /\ Goto(t, "drain") /\ cpc' = [cpc EXCEPT ![t] = "poll"]
        /\ group' \in {group, TRUE} /\ handle' = [handle EXCEPT ![host[t]] = t]
        /\ UNCHANGED <<owner, host, hb, release, control, signal, latest, stream, given, pending,
                       count, dead, readId, entry, rx, handed, spilled, buffer, post>>
    BY <1>6 DEF StartConsumer, ConsumerAt, redisVars, taskVars
  <2>2. faults' \in 0..MaxFaults
    BY <1>0, <1>6, FaultType DEF StartConsumer, LeaseTypeOK
  <2>3. LeaseTypeOK'
    BY <1>0, <2>1, <2>2 DEF LeaseTypeOK, Goto, TunnelPC
  <2>4. LeaseInv'
    BY <1>0, <2>1, <2>3, LeaseMoves DEF Serving
  <2>5. host[t] # None
    BY <1>0, <2>1 DEF TasksOK
  <2>6. RedisTypeOK'
    BY <1>0, <2>1, <2>3 DEF RedisTypeOK, InboxTypeOK, ConsumerPC
  <2>7. ConsumersOK'
    BY <1>0, <2>1, <2>5 DEF ConsumersOK, InboxTypeOK
  <2>8. NothingForgotten'
    BY <1>0, <2>1, Zenon DEF NothingForgotten, NotGivenYet, InBuffer
  <2> QED BY <2>4, <2>6, <2>7, <2>8 DEF PushInv
<1>7. CASE Drain(t)
  <2> DEFINE B == {buffer[i] : i \in 1..Len(buffer)}
  <2>1. /\ tpc[t] = "drain" /\ Goto(t, "open") /\ buffer' = <<>>
        /\ control' = [control EXCEPT ![t] = "starting"]
        /\ (handed' = handed \cup B /\ spilled' = spilled)
              \/ (spilled' = spilled \cup B /\ handed' = handed)
        /\ UNCHANGED <<owner, host, hb, release, signal, latest, stream, given, group, pending,
                       count, dead, cpc, readId, entry, rx, handle, post>>
    BY <1>7 DEF Drain, redisVars, inboxVars
  <2>2. faults' \in 0..MaxFaults
    BY <1>0, <1>7, FaultType DEF Drain, LeaseTypeOK
  <2>3. LeaseTypeOK'
    BY <1>0, <2>1, <2>2 DEF LeaseTypeOK, Goto, TunnelPC
  <2>4. LeaseInv'
    BY <1>0, <2>1, <2>3, LeaseMoves DEF Serving
  <2>5. B \subseteq Messages
    BY <1>0 DEF RedisTypeOK
  <2>6. \A m \in Messages : InBuffer(m) => m \in B
    BY DEF InBuffer
  <2> HIDE DEF B
  <2>7. RedisTypeOK'
    <3>1. handed' \subseteq Messages /\ spilled' \subseteq Messages
      BY <1>0, <2>1, <2>5 DEF InboxTypeOK
    <3>2. buffer' \in Seq(Messages) /\ Len(buffer') <= BufferCap
      BY <2>1, BufferAssumption
    <3> QED BY <1>0, <2>1, <2>3, <3>1, <3>2 DEF RedisTypeOK, InboxTypeOK
  <2>8. ConsumersOK'
    BY <1>0, <2>1 DEF ConsumersOK
  <2>9. NothingForgotten'
    <3>1. \A m \in Messages : NotGivenYet(m)' <=> NotGivenYet(m)
      BY <2>1, Zenon DEF NotGivenYet
    <3> QED BY <1>0, <2>1, <2>6, <3>1 DEF NothingForgotten
  <2> QED BY <2>4, <2>7, <2>8, <2>9 DEF PushInv
<1> QED BY <1>1, <1>2, <1>3, <1>4, <1>5, <1>6, <1>7

(* A step of a consumer changes nothing of the lease but the faults. *)
LEMMA LeaseAside ==
    ASSUME LeaseInv, UNCHANGED <<redisVars, tpc, host, taskVars, latest>>, faults' \in 0..MaxFaults
    PROVE  LeaseInv'
<1>1. UNCHANGED <<owner, tpc, host, hb, release, control, signal, latest>>
  BY DEF redisVars, taskVars
<1>2. LeaseTypeOK'
  BY <1>1 DEF LeaseInv, LeaseTypeOK
<1> QED BY <1>1, <1>2, LeaseKept

(* XREADGROUP or XAUTOCLAIM of the entry m for tunnel t: it is pending     *)
(* under t's name, and t has it in hand or polls again.                    *)
LEMMA EntryHandedOut ==
    ASSUME PushInv, NEW t \in Tunnels, NEW m \in Messages, cpc[t] = "poll",
           faults' \in 0..MaxFaults,
           UNCHANGED <<redisVars, tpc, host, taskVars, latest, handle, buffer, post,
                       stream, group, dead, rx, handed, spilled>>,
           readId' \in [Tunnels -> {"0", ">"}],
           \/ given' = given
           \/ given' = given + 1 /\ given < Len(stream) /\ m = stream[given + 1],
           pending' = [pending EXCEPT ![m] = host[t]],
           count' = [count EXCEPT ![m] = CappedInc(@)],
           \/ UNCHANGED <<entry, cpc>>
           \/ /\ entry' = [entry EXCEPT ![t] = m]
              /\ \E pc \in {"reply", "dlq_add"} : cpc' = [cpc EXCEPT ![t] = pc]
    PROVE  PushInv'
<1>0. LeaseInv /\ LeaseTypeOK /\ InboxTypeOK /\ RedisTypeOK /\ ConsumersOK /\ NothingForgotten
  BY DEF PushInv, LeaseInv, RedisTypeOK
<1>1. LeaseInv'
  BY <1>0, LeaseAside
<1>2. host[t] # None /\ host[t] \in Instances
  BY <1>0 DEF ConsumersOK, LeaseTypeOK
<1>3. given' \in 0..Len(stream)
  BY <1>0 DEF InboxTypeOK
<1>4. count' \in [Messages -> 0..MaxDeliveries]
  BY <1>0, InboxAssumption DEF InboxTypeOK, CappedInc
<1>5. pending' \in [Messages -> Instances \cup {None}]
      /\ \A k \in Messages : pending'[k] = IF k = m THEN host[t] ELSE pending[k]
  BY <1>0, <1>2 DEF InboxTypeOK
<1>6. cpc' \in [Tunnels -> ConsumerPC] /\ entry' \in [Tunnels -> Messages \cup {None}]
  BY ZenonT(30), <1>0 DEF InboxTypeOK, ConsumerPC
<1>7. RedisTypeOK'
  BY <1>0, <1>1, <1>3, <1>4, <1>5, <1>6 DEF LeaseInv, RedisTypeOK, InboxTypeOK
<1>8. ConsumersOK'
  BY <1>0, <1>2 DEF ConsumersOK, InboxTypeOK
<1>9. ASSUME NEW k \in Messages, Remembered(k) PROVE Remembered(k)'
  <2>1. CASE k = m
    BY <1>2, <1>5, <2>1 DEF Remembered
  <2>2. CASE k # m
    <3>1. NotGivenYet(k) => NotGivenYet(k)'
      BY <1>0, <2>2 DEF NotGivenYet, InboxTypeOK
    <3>2. InBuffer(k)' <=> InBuffer(k)
      BY Zenon DEF InBuffer
    <3> QED BY <1>5, <1>9, <2>2, <3>1, <3>2 DEF Remembered
  <2> QED BY <2>1, <2>2
<1>10. NothingForgotten'
  BY <1>0, <1>9, RememberedNext
<1> QED BY <1>1, <1>7, <1>8, <1>10 DEF PushInv

(* XACK of an entry that was handed over or dead-lettered. *)
LEMMA EntryAcked ==
    ASSUME PushInv, NEW t \in Tunnels, cpc[t] \in {"ack", "dlq_ack"},
           faults' \in 0..MaxFaults,
           UNCHANGED <<redisVars, tpc, host, taskVars, latest, handle, buffer, post,
                       stream, given, group, count, dead, readId, rx, handed, spilled>>,
           cpc' = [cpc EXCEPT ![t] = "poll"], entry' = [entry EXCEPT ![t] = None],
           pending' \in {pending, [pending EXCEPT ![entry[t]] = None]}
    PROVE  PushInv'
<1>0. LeaseInv /\ LeaseTypeOK /\ InboxTypeOK /\ RedisTypeOK /\ ConsumersOK /\ NothingForgotten
  BY DEF PushInv, LeaseInv, RedisTypeOK
<1>1. LeaseInv'
  BY <1>0, LeaseAside
<1>2. entry[t] \in Messages /\ entry[t] \in handed \cup dead \cup spilled
  BY <1>0 DEF ConsumersOK
<1>3. pending' \in [Messages -> Instances \cup {None}]
      /\ \A k \in Messages : k # entry[t] => pending'[k] = pending[k]
  BY <1>0, <1>2 DEF InboxTypeOK
<1>4. RedisTypeOK'
  BY <1>0, <1>1, <1>3 DEF LeaseInv, RedisTypeOK, InboxTypeOK, ConsumerPC
<1>5. ConsumersOK'
  BY <1>0 DEF ConsumersOK, InboxTypeOK
<1>6. ASSUME NEW k \in Messages, Remembered(k) PROVE Remembered(k)'
  <2>1. (NotGivenYet(k)' <=> NotGivenYet(k)) /\ (InBuffer(k)' <=> InBuffer(k))
    BY Zenon DEF NotGivenYet, InBuffer
  <2> QED BY <1>2, <1>3, <1>6, <2>1 DEF Remembered
<1>7. NothingForgotten'
  BY <1>0, <1>6, RememberedNext
<1> QED BY <1>1, <1>4, <1>5, <1>7 DEF PushInv

LEMMA PushConsumerSteps ==
    ASSUME PushInv, NEW t \in Tunnels, Consume(t) \/ Sweep(t)
    PROVE  PushInv'
<1>0. LeaseInv /\ LeaseTypeOK /\ InboxTypeOK /\ RedisTypeOK /\ ConsumersOK /\ NothingForgotten
  BY DEF PushInv, LeaseInv, RedisTypeOK
<1>1. UNCHANGED <<redisVars, tpc, host, taskVars, latest, handle, buffer, post>>
  BY Zenon DEF Consume, Sweep
<1>a. faults \in 0..MaxFaults
  BY <1>0 DEF LeaseTypeOK
<1>2. ASSUME NEW m \in Messages, HandOut(t, m)
      PROVE  /\ faults' \in 0..MaxFaults
             /\ pending' = [pending EXCEPT ![m] = host[t]]
             /\ count' = [count EXCEPT ![m] = CappedInc(@)]
             /\ \/ UNCHANGED <<entry, cpc>>
                \/ /\ entry' = [entry EXCEPT ![t] = m]
                   /\ cpc' = [cpc EXCEPT ![t] = "reply"]
  BY <1>2, <1>a, FaultType DEF HandOut, ConsumerAt
<1>3. CASE ReadPending(t)
  <2> DEFINE mine == {i \in 1..Len(stream) : pending[stream[i]] = host[t]}
             first == CHOOSE i \in mine : \A j \in mine : i <= j
  <2>1. cpc[t] = "poll" /\ UNCHANGED <<stream, given, group, dead, rx, handed, spilled>>
    BY <1>3 DEF ReadPending
  <2>2. CASE mine # {} /\ HandOut(t, stream[first]) /\ UNCHANGED readId
    <3>1. first \in mine
      <4>1. mine \in SUBSET Nat
        OBVIOUS
      <4> HIDE DEF mine
      <4> QED BY <2>2, <4>1, SmallestIndex
    <3>2. stream[first] \in Messages
      BY <1>0, <3>1 DEF InboxTypeOK
    <3> HIDE DEF first
    <3>3. readId' \in [Tunnels -> {"0", ">"}]
      BY <1>0, <2>2 DEF InboxTypeOK
    <3> QED BY <1>1, <1>2, <2>1, <2>2, <3>2, <3>3, EntryHandedOut
  <2>3. CASE UNCHANGED <<pending, count, entry, cpc, faults>>
             /\ readId' = [readId EXCEPT ![t] = ">"]
    <3>1. LeaseInv'
      BY <1>0, <1>1, <1>a, <2>3, LeaseAside
    <3>2. RedisTypeOK'
      BY <1>0, <1>1, <2>1, <2>3, <3>1 DEF LeaseInv, RedisTypeOK, InboxTypeOK
    <3>3. ConsumersOK'
      BY <1>0, <1>1, <2>1, <2>3 DEF ConsumersOK
    <3>4. NothingForgotten'
      BY <1>0, <1>1, <2>1, <2>3, Zenon DEF NothingForgotten, NotGivenYet, InBuffer
    <3> QED BY <3>1, <3>2, <3>3, <3>4 DEF PushInv
  <2> QED BY <1>3, <2>2, <2>3 DEF ReadPending
<1>4. CASE ReadNew(t)
  <2>1. /\ cpc[t] = "poll" /\ given < Len(stream) /\ given' = given + 1
        /\ HandOut(t, stream[given + 1])
        /\ UNCHANGED <<stream, group, dead, readId, rx, handed, spilled>>
    BY <1>4 DEF ReadNew
  <2>2. stream[given + 1] \in Messages
    BY <1>0, <2>1 DEF InboxTypeOK
  <2>3. readId' \in [Tunnels -> {"0", ">"}]
    BY <1>0, <2>1 DEF InboxTypeOK
  <2> QED BY <1>1, <1>2, <2>1, <2>2, <2>3, EntryHandedOut
<1>5. CASE HandleReply(t)
  <2>1. /\ cpc[t] = "reply"
        /\ \/ rx[t] /\ handed' = handed \cup {entry[t]} /\ cpc' = [cpc EXCEPT ![t] = "ack"]
           \/ ~rx[t] /\ handed' = handed /\ cpc' = [cpc EXCEPT ![t] = "off"]
        /\ UNCHANGED <<stream, given, group, pending, count, dead, readId, entry, rx, spilled, faults>>
    BY <1>5 DEF HandleReply, ConsumerAt, inboxVars
  <2>2. entry[t] \in Messages
    BY <1>0, <2>1 DEF ConsumersOK
  <2>3. LeaseInv'
    BY <1>0, <1>1, <1>a, <2>1, LeaseAside
  <2>4. RedisTypeOK'
    BY <1>0, <1>1, <2>1, <2>2, <2>3 DEF LeaseInv, RedisTypeOK, InboxTypeOK, ConsumerPC
  <2>5. ConsumersOK'
    BY <1>0, <1>1, <2>1, <2>2 DEF ConsumersOK, InboxTypeOK
  <2>6. NothingForgotten'
    <3>1. \A m \in Messages : (NotGivenYet(m)' <=> NotGivenYet(m)) /\ (InBuffer(m)' <=> InBuffer(m))
      BY <1>1, <2>1, Zenon DEF NotGivenYet, InBuffer
    <3> QED BY <1>0, <1>1, <2>1, <3>1 DEF NothingForgotten
  <2> QED BY <2>3, <2>4, <2>5, <2>6 DEF PushInv
<1>6. CASE Ack(t)
  <2>1. faults' \in 0..MaxFaults
    BY <1>6, <1>a, FaultType DEF Ack
  <2>2. /\ cpc[t] = "ack" /\ cpc' = [cpc EXCEPT ![t] = "poll"]
        /\ entry' = [entry EXCEPT ![t] = None]
        /\ pending' \in {pending, [pending EXCEPT ![entry[t]] = None]}
        /\ UNCHANGED <<stream, given, group, count, dead, readId, rx, handed, spilled>>
    BY <1>6 DEF Ack, ConsumerAt
  <2> QED BY <1>1, <2>1, <2>2, EntryAcked
<1>7. CASE AddDeadLetter(t)
  <2>1. faults' \in 0..MaxFaults
    BY <1>7, <1>a, FaultType DEF AddDeadLetter
  <2>2. /\ cpc[t] = "dlq_add" /\ cpc' = [cpc EXCEPT ![t] = "dlq_ack"]
        /\ \/ dead' = dead \cup {entry[t]} /\ spilled' = spilled
           \/ spilled' = spilled \cup {entry[t]} /\ dead' = dead
        /\ UNCHANGED <<stream, given, group, pending, count, readId, entry, rx, handed>>
    BY <1>7 DEF AddDeadLetter, ConsumerAt
  <2>3. entry[t] \in Messages
    BY <1>0, <2>2 DEF ConsumersOK
  <2>4. LeaseInv'
    BY <1>0, <1>1, <2>1, LeaseAside
  <2>5. RedisTypeOK'
    BY <1>0, <1>1, <2>2, <2>3, <2>4 DEF LeaseInv, RedisTypeOK, InboxTypeOK, ConsumerPC
  <2>6. ConsumersOK'
    BY <1>0, <1>1, <2>2, <2>3 DEF ConsumersOK, InboxTypeOK
  <2>7. NothingForgotten'
    <3>1. \A m \in Messages : (NotGivenYet(m)' <=> NotGivenYet(m)) /\ (InBuffer(m)' <=> InBuffer(m))
      BY <1>1, <2>2, Zenon DEF NotGivenYet, InBuffer
    <3> QED BY <1>0, <1>1, <2>2, <3>1 DEF NothingForgotten
  <2> QED BY <2>4, <2>5, <2>6, <2>7 DEF PushInv
<1>8. CASE AckDeadLetter(t)
  <2>1. faults' \in 0..MaxFaults
    BY <1>8, <1>a, FaultType DEF AckDeadLetter
  <2>2. /\ cpc[t] = "dlq_ack" /\ cpc' = [cpc EXCEPT ![t] = "poll"]
        /\ entry' = [entry EXCEPT ![t] = None]
        /\ pending' \in {pending, [pending EXCEPT ![entry[t]] = None]}
        /\ UNCHANGED <<stream, given, group, count, dead, readId, rx, handed, spilled>>
    BY <1>8 DEF AckDeadLetter, ConsumerAt
  <2> QED BY <1>1, <2>1, <2>2, EntryAcked
<1>9. ASSUME NEW m \in Messages, NEW old \in BOOLEAN, Autoclaim(t, m, old) PROVE PushInv'
  <2>1. faults' \in 0..MaxFaults
    BY <1>9, <1>a, FaultType DEF Autoclaim
  <2>2. /\ cpc[t] = "poll" /\ pending' = [pending EXCEPT ![m] = host[t]]
        /\ count' = [count EXCEPT ![m] = CappedInc(@)]
        /\ \/ UNCHANGED <<entry, cpc>>
           \/ entry' = [entry EXCEPT ![t] = m] /\ cpc' = [cpc EXCEPT ![t] = "dlq_add"]
        /\ UNCHANGED <<stream, given, group, dead, readId, rx, handed, spilled>>
    BY <1>9 DEF Autoclaim, ConsumerAt
  <2>3. readId' \in [Tunnels -> {"0", ">"}]
    BY <1>0, <2>2 DEF InboxTypeOK
  <2> QED BY <1>1, <2>1, <2>2, <2>3, EntryHandedOut
<1>10. CASE Sweep(t)
  BY <1>9, <1>10, Zenon DEF Sweep
<1>11. CASE Consume(t)
  BY <1>3, <1>4, <1>5, <1>6, <1>7, <1>8, <1>11, Zenon DEF Consume, ConsumerStep
<1> QED BY <1>10, <1>11

(* XADD that may or may not have run. *)
Extends(u, s, e, S) ==
    /\ u \in Seq(S) /\ Len(u) >= Len(s) /\ Len(s) \in Nat /\ Len(u) \in Nat
    /\ \A i \in 1..Len(s) : u[i] = s[i]
    /\ u = Append(s, e) => Len(u) = Len(s) + 1 /\ u[Len(s) + 1] = e

LEMMA MaybeAppended ==
    ASSUME NEW S, NEW s \in Seq(S), NEW e \in S, NEW u \in {s, Append(s, e)}
    PROVE  Extends(u, s, e, S)
<1>1. CASE u = Append(s, e)
  BY <1>1 DEF Extends
<1>2. CASE u = s /\ u # Append(s, e)
  BY <1>2 DEF Extends
<1> QED BY <1>1, <1>2

LEMMA PushHandlerSteps ==
    ASSUME PushInv, NEW m \in Messages, Deliver(m) \/ PushBuffer(m)
    PROVE  PushInv'
<1>0. LeaseInv /\ LeaseTypeOK /\ InboxTypeOK /\ RedisTypeOK /\ ConsumersOK /\ NothingForgotten
  BY DEF PushInv, LeaseInv, RedisTypeOK
<1>a. faults \in 0..MaxFaults
  BY <1>0 DEF LeaseTypeOK
<1>1. CASE Deliver(m)
  <2>1. /\ UNCHANGED <<redisVars, tpc, host, taskVars, latest, given, group, pending, count, dead,
                       consumerVars, handle, buffer>>
        /\ stream' \in {stream, Append(stream, m)}
        /\ \/ post' = [post EXCEPT ![m] = "live"] /\ stream' = Append(stream, m)
           \/ post' = [post EXCEPT ![m] = "absent"]
    BY <1>1 DEF Deliver
  <2>2. UNCHANGED <<cpc, readId, entry, rx, handed, spilled>>
    BY <2>1 DEF consumerVars
  <2>3. faults' \in 0..MaxFaults
    BY <1>1, <1>a, FaultType DEF Deliver
  <2>4. LeaseInv'
    BY <1>0, <2>1, <2>3, LeaseAside
  <2>5. /\ stream' \in Seq(Messages) /\ Len(stream') >= Len(stream) /\ Len(stream) \in Nat
        /\ Len(stream') \in Nat
        /\ \A i \in 1..Len(stream) : stream'[i] = stream[i]
        /\ stream' = Append(stream, m) => Len(stream') = Len(stream) + 1
                                          /\ stream'[Len(stream) + 1] = m
    <3>1. stream \in Seq(Messages)
      BY <1>0 DEF InboxTypeOK
    <3>2. Extends(stream', stream, m, Messages)
      BY <2>1, <3>1, MaybeAppended
    <3> QED BY <3>2, Zenon DEF Extends
  <2>6. given \in Nat /\ given <= Len(stream) /\ given' = given
    BY <1>0, <2>1 DEF InboxTypeOK
  <2>7. RedisTypeOK'
    <3>1. post' \in [Messages -> {"new", "absent", "live", "queued", "full"}]
      BY <1>0, <2>1 DEF RedisTypeOK
    <3>2. given' \in 0..Len(stream')
      BY <2>5, <2>6
    <3> QED BY <1>0, <2>1, <2>2, <2>4, <2>5, <3>1, <3>2 DEF LeaseInv, RedisTypeOK, InboxTypeOK
  <2>8. ConsumersOK'
    BY <1>0, <2>1, <2>2 DEF ConsumersOK
  <2>9. \A k \in Messages : NotGivenYet(k) => NotGivenYet(k)'
    <3> SUFFICES ASSUME NEW k \in Messages, NEW i \in (given + 1)..Len(stream), stream[i] = k
                 PROVE  \E j \in (given' + 1)..Len(stream') : stream'[j] = k
      BY DEF NotGivenYet
    <3>1. i \in 1..Len(stream) /\ i \in (given' + 1)..Len(stream')
      BY <2>5, <2>6
    <3> QED BY <2>5, <3>1
  <2>10. ASSUME NEW k \in Messages, Remembered(k) PROVE Remembered(k)'
    <3>1. InBuffer(k)' <=> InBuffer(k)
      BY <2>1, Zenon DEF InBuffer
    <3> QED BY <2>1, <2>2, <2>9, <2>10, <3>1 DEF Remembered
  <2>11. ASSUME NEW k \in Messages, post'[k] \in {"live", "queued"}
         PROVE  post[k] \in {"live", "queued"} \/ Remembered(k)'
    <3>1. CASE k # m
      BY <1>0, <2>1, <2>11, <3>1 DEF RedisTypeOK
    <3>2. CASE k = m
      <4>1. stream' = Append(stream, m)
        BY <1>0, <2>1, <2>11, <3>2 DEF RedisTypeOK
      <4>2. Len(stream) + 1 \in (given' + 1)..Len(stream')
        BY <2>5, <2>6, <4>1
      <4>3. NotGivenYet(m)'
        BY <2>5, <4>1, <4>2 DEF NotGivenYet
      <4> QED BY <3>2, <4>3 DEF Remembered
    <3> QED BY <3>1, <3>2
  <2>12. NothingForgotten'
    BY <1>0, <2>10, <2>11, RememberedNext
  <2> QED BY <2>4, <2>7, <2>8, <2>12 DEF PushInv
<1>2. CASE PushBuffer(m)
  <2>1. /\ UNCHANGED <<redisVars, tpc, host, taskVars, latest, inboxVars, consumerVars, handle>>
        /\ buffer' = buffer \/ (Len(buffer) < BufferCap /\ buffer' = Append(buffer, m))
        /\ \/ post' = [post EXCEPT ![m] = "queued"] /\ buffer' = Append(buffer, m)
           \/ post' = [post EXCEPT ![m] = "full"]
    BY <1>2 DEF PushBuffer
  <2>2. UNCHANGED <<cpc, readId, entry, rx, handed, spilled, stream, given, group, pending,
                    count, dead>>
    BY <2>1 DEF consumerVars, inboxVars
  <2>3. faults' \in 0..MaxFaults
    BY <1>2, <1>a, FaultType DEF PushBuffer
  <2>4. LeaseInv'
    BY <1>0, <2>1, <2>3, LeaseAside
  <2>5. /\ buffer' \in Seq(Messages) /\ Len(buffer') <= BufferCap
        /\ Len(buffer) \in Nat /\ Len(buffer') \in Nat /\ Len(buffer') >= Len(buffer)
        /\ \A i \in 1..Len(buffer) : buffer'[i] = buffer[i]
        /\ buffer' = Append(buffer, m) => Len(buffer') = Len(buffer) + 1
                                          /\ buffer'[Len(buffer) + 1] = m
    <3>1. buffer \in Seq(Messages) /\ Len(buffer) <= BufferCap
      BY <1>0 DEF RedisTypeOK
    <3>2. buffer' \in {buffer, Append(buffer, m)}
      BY <2>1
    <3>3. /\ buffer' \in Seq(Messages)
          /\ Len(buffer) \in Nat /\ Len(buffer') \in Nat /\ Len(buffer') >= Len(buffer)
          /\ \A i \in 1..Len(buffer) : buffer'[i] = buffer[i]
          /\ buffer' = Append(buffer, m) => Len(buffer') = Len(buffer) + 1
                                            /\ buffer'[Len(buffer) + 1] = m
      <4>1. Extends(buffer', buffer, m, Messages)
        BY <3>1, <3>2, MaybeAppended
      <4> QED BY <4>1, Zenon DEF Extends
    <3>4. Len(buffer') <= BufferCap
      <4>1. CASE buffer' = buffer
        BY <3>1, <4>1
      <4>2. CASE Len(buffer) < BufferCap /\ buffer' = Append(buffer, m)
        BY <3>3, <4>2, BufferAssumption
      <4> QED BY <2>1, <4>1, <4>2
    <3> QED BY <3>3, <3>4
  <2>6. RedisTypeOK'
    <3>1. post' \in [Messages -> {"new", "absent", "live", "queued", "full"}]
      BY <1>0, <2>1 DEF RedisTypeOK
    <3> QED BY <1>0, <2>1, <2>2, <2>4, <2>5, <3>1 DEF LeaseInv, RedisTypeOK, InboxTypeOK
  <2>7. ConsumersOK'
    BY <1>0, <2>1, <2>2 DEF ConsumersOK
  <2>8. \A k \in Messages : InBuffer(k) => InBuffer(k)'
    BY <2>5 DEF InBuffer
  <2>9. ASSUME NEW k \in Messages, Remembered(k) PROVE Remembered(k)'
    <3>1. NotGivenYet(k)' <=> NotGivenYet(k)
      BY <2>2, Zenon DEF NotGivenYet
    <3> QED BY <2>2, <2>8, <2>9, <3>1 DEF Remembered
  <2>10. ASSUME NEW k \in Messages, post'[k] \in {"live", "queued"}
         PROVE  post[k] \in {"live", "queued"} \/ Remembered(k)'
    <3>1. CASE k # m
      BY <1>0, <2>1, <2>10, <3>1 DEF RedisTypeOK
    <3>2. CASE k = m
      <4>1. buffer' = Append(buffer, m)
        BY <1>0, <2>1, <2>10, <3>2 DEF RedisTypeOK
      <4>2. InBuffer(m)'
        BY <2>5, <4>1 DEF InBuffer
      <4> QED BY <3>2, <4>2 DEF Remembered
    <3> QED BY <3>1, <3>2
  <2>11. NothingForgotten'
    BY <1>0, <2>9, <2>10, RememberedNext
  <2> QED BY <2>4, <2>6, <2>7, <2>11 DEF PushInv
<1> QED BY <1>1, <1>2

LEMMA PushNextInv == PushInv /\ [Next]_vars => PushInv'
<1> SUFFICES ASSUME PushInv, [Next]_vars PROVE PushInv'
  OBVIOUS
<1>0. LeaseInv /\ LeaseTypeOK /\ InboxTypeOK /\ RedisTypeOK
  BY DEF PushInv, LeaseInv, RedisTypeOK
<1>1. ASSUME NEW i \in Instances, Crash(i) PROVE PushInv'
  <2>1. /\ CrashTunnels(i)
        /\ cpc' = [t \in Tunnels |-> IF host[t] = i THEN "off" ELSE cpc[t]]
        /\ rx' = [t \in Tunnels |-> rx[t] /\ host[t] # i]
        /\ handle' = [handle EXCEPT ![i] = None]
        /\ UNCHANGED <<inboxVars, readId, entry, handed, spilled, buffer, post>>
    BY <1>1 DEF Crash
  <2>2. LeaseInv' /\ host' = host
    BY <1>0, <2>1, LeaseEnds DEF CrashTunnels
  <2>3. /\ cpc' \in [Tunnels -> ConsumerPC] /\ rx' \in [Tunnels -> BOOLEAN]
        /\ \A t \in Tunnels : cpc'[t] # "off" => cpc'[t] = cpc[t]
        /\ handle' \in [Instances -> Tunnels \cup {None}]
    BY <1>0, <2>1 DEF InboxTypeOK, RedisTypeOK, ConsumerPC
  <2> QED BY <2>1, <2>2, <2>3, ConsumersStop
<1>2. CASE KeyExpires \/ Delete
  <2>1. (Expire \/ Disconnect) /\ UNCHANGED <<inboxVars, consumerVars, handle, buffer, post>>
    BY <1>2 DEF KeyExpires, Delete
  <2>2. LeaseInv' /\ host' = host
    BY <1>0, <2>1, LeaseEnds DEF Expire, Disconnect
  <2>3. UNCHANGED <<cpc, readId, entry, rx, handed, spilled>>
    BY <2>1 DEF consumerVars
  <2>4. rx' \in [Tunnels -> BOOLEAN]
    BY <1>0, <2>3 DEF InboxTypeOK
  <2> QED BY <2>1, <2>2, <2>3, <2>4, InboxUntouched
<1>3. CASE UNCHANGED vars
  <2>1. UNCHANGED leaseVars /\ UNCHANGED <<inboxVars, consumerVars, handle, buffer, post>>
    BY <1>3 DEF vars
  <2>2. UNCHANGED <<redisVars, tpc, host, taskVars, latest, faults>>
    BY <2>1 DEF leaseVars
  <2>3. LeaseInv'
    BY <1>0, <2>2, LeaseAside DEF LeaseTypeOK
  <2>4. UNCHANGED <<cpc, readId, entry, rx, handed, spilled>>
    BY <2>1 DEF consumerVars
  <2>5. rx' \in [Tunnels -> BOOLEAN]
    BY <1>0, <2>4 DEF InboxTypeOK
  <2> QED BY <2>1, <2>2, <2>3, <2>4, <2>5, InboxUntouched
<1> QED BY <1>1, <1>2, <1>3, PushTunnelSteps, PushConsumerSteps, PushHandlerSteps DEF Next

LEMMA PushInit == Init => PushInv
<1> SUFFICES ASSUME Init PROVE PushInv
  OBVIOUS
<1>1. LeaseTypeOK
  BY LeaseAssumption DEF Init, LeaseInit, LeaseTypeOK, TunnelPC
<1>2. TasksOK /\ KeyOfLatest /\ KeyIsKept
  BY LeaseAssumption DEF Init, LeaseInit, TasksOK, KeyOfLatest, KeyIsKept
<1>3. InboxTypeOK
  <2>1. /\ <<>> \in Seq(Messages) /\ 0 \in 0..Len(<<>>) /\ 0 \in 0..MaxDeliveries
        /\ "off" \in ConsumerPC
    BY InboxAssumption DEF ConsumerPC
  <2> QED BY <2>1, Zenon DEF Init, InboxInit, InboxTypeOK
<1>4. RedisTypeOK
  BY <1>1, <1>3, BufferAssumption DEF Init, RedisTypeOK
<1>5. ConsumersOK /\ NothingForgotten
  BY DEF Init, InboxInit, ConsumersOK, NothingForgotten
<1> QED BY <1>1, <1>2, <1>4, <1>5 DEF LeaseInv, PushInv

LEMMA PushCorrect == Spec => []PushInv
BY PushInit, PushNextInv, PTL DEF Spec

(* Keys, tasks, the pending entries and the offline buffer keep to their   *)
(* types and the buffer to its capacity (queue.rs 29-35), whatever fails.  *)
THEOREM RedisTypeCorrect == Spec => []RedisTypeOK
<1>1. PushInv => RedisTypeOK
  BY DEF PushInv
<1> QED BY <1>1, PushCorrect, PTL

(* The tunnel that set the owner key last keeps it while its heartbeat     *)
(* runs: no release, expiry, crash or half-done acquire of any number of   *)
(* other instances takes it away (lease.rs 124-260).                       *)
THEOREM LatestKeepsLease == Spec => []LatestHolderOwns
<1>1. PushInv => LatestHolderOwns
  BY DEF PushInv, LeaseInv, KeyIsKept, LatestHolderOwns
<1> QED BY <1>1, PushCorrect, PTL

(* An accepted push is in the stream, pending, buffered, dead-lettered or  *)
(* on a channel, for any number of consumers that are aborted, crash, or   *)
(* lose replies (inbox.rs 98-229, registry.rs 133-147), but for the two    *)
(* steps whose failure drops it.                                           *)
THEOREM PushesRemembered == Spec => []NothingForgotten
<1>1. PushInv => NothingForgotten
  BY DEF PushInv
<1> QED BY <1>1, PushCorrect, PTL

-----------------------------------------------------------------------------
(* The directory.                                                          *)

DirectoryTypeOK ==
    /\ listed \in BOOLEAN /\ recent \in BOOLEAN /\ claims \in BOOLEAN
    /\ stage \in [Tunnels -> {"none", "sadd", "zrem", "claims", "entered", "srem", "zadd", "left"}]
    /\ ahead \subseteq Tunnels /\ settled \subseteq Readers
    /\ view \in [Readers -> [pc : {"idle", "claims", "recent", "done"}, one : BOOLEAN,
                             member : BOOLEAN, shown : SUBSET {"connected", "disconnected"}]]

(* While the tunnel that set the key last is there, alone on its instance, *)
(* only the releases that were ahead of it still have a pipeline to run,   *)
(* and without any it is listed from its SADD on.                          *)
ListedInv ==
    (latest # None /\ tpc[latest] # "gone" /\ Alone(latest)) =>
        /\ \A u \in Tunnels : release[u] = "cleanup" => u \in ahead
        /\ stage[latest] \in {"sadd", "zrem", "claims", "entered"}
        /\ ahead = {} => listed \/ stage[latest] = "sadd"

(* What a request has seen, and that it is still so if nothing changed. *)
RequestOK(r) ==
    LET v == view[r] IN
    /\ v.pc = "claims" => v.member /\ v.shown = {}
    /\ v.member => v.shown \subseteq {"connected"}
    /\ ~v.member => v.shown \subseteq {"disconnected"}
    /\ v.pc = "recent" /\ ~v.member => v.shown = {}
    /\ r \in settled /\ faults = 0 =>
          /\ v.pc # "idle"
          /\ v.member <=> listed
          /\ v.pc \in {"recent", "done"} /\ v.member => v.shown = {"connected"}
          /\ v.pc = "done" /\ ~v.member /\ v.shown = {} => ~recent

DirectoryInv ==
    LeaseInv /\ DirectoryTypeOK /\ ListedInv /\ \A r \in Readers : RequestOK(r)

LEMMA FaultCounted ==
    ASSUME LeaseInv, NEW kind, Fault(kind)
    PROVE  faults' # 0
BY LeaseAssumption DEF LeaseInv, LeaseTypeOK, Fault

(* A step that starts no cleanup, brings no tunnel back and touches no set *)
(* keeps what ListedInv says of the tunnel that set the key last.          *)
LEMMA ListedKept ==
    ASSUME LeaseInv, ListedInv, UNCHANGED <<latest, listed, stage, ahead>>,
           latest # None /\ tpc'[latest] # "gone" => tpc[latest] # "gone",
           latest # None /\ Alone(latest)' => Alone(latest),
           \A u \in Tunnels : release'[u] = "cleanup" =>
              \/ release[u] = "cleanup"
              \/ latest = None \/ tpc[latest] = "gone" \/ ~Alone(latest)
    PROVE  ListedInv'
BY DEF ListedInv

LEMMA RequestsKept ==
    ASSUME \A r \in Readers : RequestOK(r), UNCHANGED <<listed, recent, view, settled>>,
           faults' = 0 => faults = 0
    PROVE  \A r \in Readers : RequestOK(r)'
BY DEF RequestOK

(* Steps of leases that no command of the two pipelines is part of. *)
LEMMA DirectoryLeaseSteps ==
    ASSUME DirectoryInv, UNCHANGED viewVars, NEW t \in Tunnels,
           \/ Acquire(t) \/ Entered(t) \/ OpenTunnel(t) \/ Left(t)
           \/ AcquireFails(t) \/ StopHeartbeat(t) \/ Subscribe(t) \/ DropOwnership(t)
           \/ ReleaseOwner(t)
           \/ Expire \/ Disconnect \/ \E i \in Instances : CrashTunnels(i)
    PROVE  DirectoryInv'
<1>0. LeaseInv /\ LeaseTypeOK /\ TasksOK /\ KeyOfLatest /\ DirectoryTypeOK /\ ListedInv
      /\ \A r \in Readers : RequestOK(r)
  BY DEF DirectoryInv, LeaseInv
<1>1. UNCHANGED <<listed, recent, claims, stage, ahead, view, settled>>
  BY DEF viewVars
<1>2. DirectoryTypeOK'
  BY <1>0, <1>1 DEF DirectoryTypeOK
<1>3. ASSUME faults' # 0 \/ faults' = faults PROVE \A r \in Readers : RequestOK(r)'
  BY <1>0, <1>1, <1>3, RequestsKept
<1>4. ASSUME host' = host, latest # None, Alone(latest)', latest' = latest PROVE Alone(latest)
  BY <1>4 DEF Alone
<1> USE DEF redisVars, taskVars
<1>5. ASSUME NEW i \in Instances, GetOwner(t, i) PROVE DirectoryInv'
  <2>1. LeaseInv'
    BY <1>0, <1>5, LeaseAcquire
  <2>2. /\ tpc[t] = "idle" /\ host' = [host EXCEPT ![t] = i]
        /\ \A u \in Tunnels \ {t} : tpc'[u] = tpc[u] /\ host'[u] = host[u]
        /\ UNCHANGED <<release, latest, faults>>
    BY <1>0, <1>5 DEF GetOwner, Goto, LeaseTypeOK
  <2>3. latest # None => latest \in Tunnels \ {t} /\ host[latest] # None /\ host[t] = None
    BY <1>0, <2>2 DEF KeyOfLatest, TasksOK, LeaseTypeOK
  <2>4. latest # None /\ Alone(latest)' => Alone(latest)
    BY <2>2, <2>3 DEF Alone
  <2>5. ListedInv'
    BY <1>0, <1>1, <2>2, <2>3, <2>4, ListedKept
  <2> QED BY <1>2, <1>3, <2>1, <2>2, <2>5 DEF DirectoryInv
<1>6. CASE PublishTakeover(t)
  <2>1. LeaseInv'
    BY <1>0, <1>6, LeaseAcquire
  <2>2. faults' # 0 \/ faults' = faults
    BY <1>0, <1>6, FaultCounted DEF PublishTakeover
  <2>3. tpc[t] = "publish" /\ tpc' = [tpc EXCEPT ![t] = "set"] /\ UNCHANGED <<host, release, latest>>
    BY <1>6 DEF PublishTakeover, Goto
  <2>4. ListedInv'
    BY <1>0, <1>1, <1>4, <2>3, ListedKept DEF LeaseTypeOK
  <2> QED BY <1>2, <1>3, <2>1, <2>2, <2>4 DEF DirectoryInv
<1>7. CASE AcquireFails(t)
  <2>1. LeaseInv'
    BY <1>0, <1>7, LeaseAcquire
  <2>2. faults' # 0
    BY <1>0, <1>7, FaultCounted DEF AcquireFails
  <2>3. /\ tpc' = [tpc EXCEPT ![t] = "gone"] /\ UNCHANGED <<host, release>>
        /\ latest' = latest \/ latest' = t
    BY <1>7 DEF AcquireFails, Goto
  <2>4. ListedInv'
    <3>1. CASE latest' = latest
      BY <1>0, <1>1, <1>4, <2>3, <3>1, ListedKept DEF LeaseTypeOK
    <3>2. CASE latest' = t
      BY <1>0, <2>3, <3>2 DEF ListedInv, LeaseTypeOK
    <3> QED BY <2>3, <3>1, <3>2
  <2> QED BY <1>2, <1>3, <2>1, <2>2, <2>4 DEF DirectoryInv
<1>8. CASE Entered(t)
  <2>1. EnterDirectory(t)
    BY <1>8 DEF Entered
  <2>2. LeaseInv'
    BY <1>0, <2>1, LeaseAcquire
  <2>3. tpc[t] = "directory" /\ tpc' = [tpc EXCEPT ![t] = "consumer"]
        /\ UNCHANGED <<host, release, latest, faults>>
    BY <2>1 DEF EnterDirectory, Goto
  <2>4. ListedInv'
    BY <1>0, <1>1, <1>4, <2>3, ListedKept DEF LeaseTypeOK
  <2> QED BY <1>2, <1>3, <2>2, <2>3, <2>4 DEF DirectoryInv
<1>9. CASE OpenTunnel(t)
  <2>1. tpc[t] = "consumer" /\ Goto(t, "open") /\ control' = [control EXCEPT ![t] = "starting"]
        /\ UNCHANGED <<owner, host, hb, release, signal, latest, faults>>
    BY <1>9 DEF OpenTunnel
  <2>2. LeaseTypeOK'
    BY <1>0, <2>1 DEF LeaseTypeOK, Goto, TunnelPC
  <2>3. LeaseInv'
    BY <1>0, <2>1, <2>2, LeaseMoves DEF Serving
  <2>4. ListedInv'
    BY <1>0, <1>1, <1>4, <2>1, ListedKept DEF LeaseTypeOK, Goto
  <2> QED BY <1>2, <1>3, <2>1, <2>3, <2>4 DEF DirectoryInv
<1>10. CASE Left(t)
  <2>1. /\ release[t] = "cleanup" /\ release' = [release EXCEPT ![t] = "done"]
        /\ UNCHANGED <<owner, tpc, host, hb, control, signal, latest>>
        /\ faults' = faults \/ Fault("release")
    BY <1>10 DEF Left, ReleaseCleanup
  <2>2. faults' \in 0..MaxFaults /\ (faults' # 0 \/ faults' = faults)
    BY <1>0, <2>1, FaultType, FaultCounted DEF LeaseTypeOK
  <2>3. \A u \in Tunnels : release'[u] # "none" => release[u] # "none" /\ release'[u] \in {release[u], "done"}
    BY <1>0, <2>1 DEF LeaseTypeOK
  <2>4. LeaseTypeOK'
    BY <1>0, <2>1, <2>2 DEF LeaseTypeOK
  <2>5. LeaseInv'
    BY <1>0, <2>1, <2>3, <2>4, LeaseKept
  <2>6. ListedInv'
    BY <1>0, <1>1, <1>4, <2>1, <2>3, ListedKept
  <2> QED BY <1>2, <1>3, <2>2, <2>5, <2>6 DEF DirectoryInv
<1>11. CASE StopHeartbeat(t) \/ Subscribe(t)
  <2>1. LeaseInv'
    BY <1>0, <1>11, LeaseBackground
  <2>2. UNCHANGED <<tpc, host, release, latest>> /\ (faults' # 0 \/ faults' = faults)
    BY <1>0, <1>11, FaultCounted DEF StopHeartbeat, Subscribe
  <2>3. ListedInv'
    BY <1>0, <1>1, <1>4, <2>2, ListedKept
  <2> QED BY <1>2, <1>3, <2>1, <2>2, <2>3 DEF DirectoryInv
<1>12. CASE ReleaseOwner(t)
  <2>1. LeaseInv'
    BY <1>0, <1>12, LeaseBackground
  <2>2. /\ release[t] = "cas" /\ UNCHANGED <<tpc, host, latest>>
        /\ faults' # 0 \/ faults' = faults
        /\ \/ release' = [release EXCEPT ![t] = "done"]
           \/ release' = [release EXCEPT ![t] = "cleanup"] /\ owner = host[t]
    BY <1>0, <1>12, FaultCounted DEF ReleaseOwner
  <2>3. tpc[t] = "gone" /\ host[t] # None
    BY <1>0, <2>2 DEF TasksOK
  <2>4. \A u \in Tunnels : release'[u] = "cleanup" =>
            \/ release[u] = "cleanup"
            \/ latest = None \/ tpc[latest] = "gone" \/ ~Alone(latest)
    <3>1. ASSUME owner = host[t], latest # None, tpc[latest] # "gone" PROVE ~Alone(latest)
      BY <1>0, <2>3, <3>1 DEF KeyOfLatest, Alone
    <3>2. ASSUME NEW u \in Tunnels, release'[u] = "cleanup", release[u] # "cleanup"
          PROVE  owner = host[t]
      BY <1>0, <2>2, <3>2 DEF LeaseTypeOK
    <3> QED BY <3>1, <3>2
  <2>5. ListedInv'
    BY <1>0, <1>1, <1>4, <2>2, <2>4, ListedKept
  <2> QED BY <1>2, <1>3, <2>1, <2>2, <2>5 DEF DirectoryInv
<1>13. CASE DropOwnership(t)
  <2>1. LeaseInv'
    BY <1>0, <1>13, LeaseEnds
  <2>2. /\ tpc' = [tpc EXCEPT ![t] = "gone"] /\ UNCHANGED <<host, latest, faults>>
        /\ release' = [release EXCEPT ![t] = "cas"]
    BY <1>13 DEF DropOwnership, Goto
  <2>3. ListedInv'
    BY <1>0, <1>1, <1>4, <2>2, ListedKept DEF LeaseTypeOK
  <2> QED BY <1>2, <1>3, <2>1, <2>2, <2>3 DEF DirectoryInv
<1>14. CASE Expire \/ Disconnect
  <2>1. LeaseInv'
    BY <1>0, <1>14, LeaseEnds
  <2>2. UNCHANGED <<tpc, host, release, latest, faults>>
    BY <1>14 DEF Expire, Disconnect
  <2>3. ListedInv'
    BY <1>0, <1>1, <1>4, <2>2, ListedKept
  <2> QED BY <1>2, <1>3, <2>1, <2>2, <2>3 DEF DirectoryInv
<1>15. ASSUME NEW i \in Instances, CrashTunnels(i) PROVE DirectoryInv'
  <2>1. LeaseInv'
    BY <1>0, <1>15, LeaseEnds
  <2>2. faults' # 0
    BY <1>0, <1>15, FaultCounted DEF CrashTunnels
  <2>3. /\ tpc' = [u \in Tunnels |-> IF host[u] = i THEN "gone" ELSE tpc[u]]
        /\ release' = [u \in Tunnels |-> IF host[u] = i THEN "done" ELSE release[u]]
        /\ UNCHANGED <<host, latest>>
    BY <1>15 DEF CrashTunnels
  <2>4. ListedInv'
    BY <1>0, <1>1, <1>4, <2>3, ListedKept DEF LeaseTypeOK
  <2> QED BY <1>2, <1>3, <2>1, <2>2, <2>4 DEF DirectoryInv
<1> QED BY <1>5, <1>6, <1>7, <1>8, <1>9, <1>10, <1>11, <1>12, <1>13, <1>14, <1>15 DEF Acquire

(* The SET and the commands of the two pipelines. *)
LEMMA DirectorySetSteps ==
    ASSUME DirectoryInv, NEW t \in Tunnels, TakeKey(t) \/ Enter(t) \/ LeaveDirectory(t)
    PROVE  DirectoryInv'
<1>0. LeaseInv /\ LeaseTypeOK /\ TasksOK /\ KeyOfLatest /\ DirectoryTypeOK /\ ListedInv
      /\ \A r \in Readers : RequestOK(r)
  BY DEF DirectoryInv, LeaseInv
<1> USE DEF StageAt
<1>1. CASE TakeKey(t)
  <2>1. LeaseInv'
    BY <1>0, <1>1, LeaseAcquire DEF TakeKey
  <2>2. /\ latest' = t /\ UNCHANGED <<host, release, faults, listed, recent, claims, view, settled>>
        /\ stage' = [stage EXCEPT ![t] = "sadd"]
        /\ ahead' = {u \in Tunnels : release[u] = "cleanup"}
    BY <1>1 DEF TakeKey, SetOwner, taskVars
  <2>3. DirectoryTypeOK'
    BY <1>0, <2>2 DEF DirectoryTypeOK
  <2>4. ListedInv'
    BY <1>0, <2>2 DEF ListedInv, DirectoryTypeOK
  <2>5. \A r \in Readers : RequestOK(r)'
    BY <1>0, <2>2, RequestsKept
  <2> QED BY <2>1, <2>3, <2>4, <2>5 DEF DirectoryInv
<1>2. ASSUME UNCHANGED <<leaseVars, view>>,
             settled' = IF listed' # listed \/ recent' # recent THEN {} ELSE settled
      PROVE  LeaseInv' /\ \A r \in Readers : RequestOK(r)'
  <2>1. UNCHANGED <<redisVars, tpc, host, taskVars, latest, faults>>
    BY <1>2 DEF leaseVars
  <2>2. LeaseInv'
    BY <1>0, <2>1, LeaseAside DEF LeaseTypeOK
  <2>3. ASSUME listed' # listed \/ recent' # recent
        PROVE  \A r \in Readers : RequestOK(r)'
    BY <1>0, <1>2, <2>3 DEF RequestOK
  <2>4. ASSUME listed' = listed /\ recent' = recent
        PROVE  \A r \in Readers : RequestOK(r)'
    BY <1>0, <1>2, <2>1, <2>4, RequestsKept
  <2> QED BY <2>2, <2>3, <2>4
<1>3. CASE Enter(t)
  <2>1. /\ UNCHANGED <<leaseVars, ahead, view>>
        /\ settled' = IF listed' # listed \/ recent' # recent THEN {} ELSE settled
        /\ listed' = listed \/ listed' = TRUE
        /\ \E s \in {"zrem", "claims", "entered"} :
              stage' = [stage EXCEPT ![t] = s]
              /\ (stage[t] = "sadd" => listed')
              /\ stage[t] \in {"sadd", "zrem", "claims"}
        /\ recent' \in {recent, FALSE} /\ claims' \in {claims, TRUE}
    BY <1>3 DEF Enter
  <2>2. DirectoryTypeOK'
    BY <1>0, <2>1 DEF DirectoryTypeOK
  <2>3. UNCHANGED <<tpc, host, release, latest>>
    BY <2>1 DEF leaseVars, taskVars
  <2>4. latest # None => (Alone(latest)' <=> Alone(latest))
    BY <2>3 DEF Alone
  <2>5. ListedInv'
    BY <1>0, <2>1, <2>3, <2>4 DEF ListedInv, DirectoryTypeOK, LeaseTypeOK
  <2> QED BY <1>2, <2>1, <2>2, <2>5 DEF DirectoryInv
<1>4. CASE LeaveDirectory(t)
  <2>1. /\ release[t] = "cleanup"
        /\ UNCHANGED <<leaseVars, claims, ahead, view>>
        /\ settled' = IF listed' # listed \/ recent' # recent THEN {} ELSE settled
        /\ listed' \in {listed, FALSE} /\ recent' \in {recent, TRUE}
        /\ \E s \in {"srem", "zadd", "left"} : stage' = [stage EXCEPT ![t] = s]
    BY <1>4 DEF LeaveDirectory
  <2>2. DirectoryTypeOK'
    BY <1>0, <2>1 DEF DirectoryTypeOK
  <2>3. UNCHANGED <<tpc, host, release, latest>> /\ tpc[t] = "gone"
    BY <1>0, <2>1 DEF leaseVars, taskVars, TasksOK
  <2>4. latest # None => (Alone(latest)' <=> Alone(latest))
    BY <2>3 DEF Alone
  <2>5. ListedInv'
    BY <1>0, <2>1, <2>3, <2>4 DEF ListedInv, DirectoryTypeOK, LeaseTypeOK
  <2> QED BY <1>2, <2>1, <2>2, <2>5 DEF DirectoryInv
<1> QED BY <1>1, <1>3, <1>4

ViewRecord == [pc : {"idle", "claims", "recent", "done"}, one : BOOLEAN,
               member : BOOLEAN, shown : SUBSET {"connected", "disconnected"}]

(* Requests read and never write. *)
LEMMA DirectoryRequests ==
    ASSUME DirectoryInv, NEW r \in Readers,
           (\E one \in BOOLEAN : ReadConnected(r, one)) \/ Hydrate(r) \/ ReadRecent(r)
    PROVE  DirectoryInv'
<1>0. LeaseInv /\ LeaseTypeOK /\ DirectoryTypeOK /\ ListedInv /\ \A q \in Readers : RequestOK(q)
  BY DEF DirectoryInv, LeaseInv
<1>1. /\ view \in [Readers -> ViewRecord] /\ listed \in BOOLEAN /\ recent \in BOOLEAN
      /\ settled \subseteq Readers
  BY <1>0 DEF DirectoryTypeOK, ViewRecord
<1>2. /\ UNCHANGED <<redisVars, tpc, host, taskVars, latest, listed, recent, claims, stage, ahead>>
      /\ settled' = settled \/ settled' = settled \cup {r}
  BY DEF ReadConnected, Hydrate, ReadRecent
<1>3. faults' \in 0..MaxFaults /\ (faults' = faults \/ faults' # 0)
  BY <1>0, FaultType, FaultCounted DEF ReadConnected, Hydrate, ReadRecent, LeaseTypeOK
<1>4. LeaseInv'
  BY <1>0, <1>2, <1>3, LeaseAside
<1>5. ListedInv'
  <2>1. latest # None => (Alone(latest)' <=> Alone(latest))
    BY <1>2 DEF Alone
  <2> QED BY <1>0, <1>2, <2>1, ListedKept DEF taskVars
<1>6. view[r] \in ViewRecord /\ RequestOK(r)
  BY <1>0, <1>1
<1>7. \E w \in ViewRecord : view' = [view EXCEPT ![r] = w] /\ RequestOK(r)'
  <2>1. ASSUME NEW one \in BOOLEAN, NEW pc \in {"claims", "recent"}, NEW member \in BOOLEAN,
               view' = [view EXCEPT ![r] = [pc |-> pc, one |-> one, member |-> member, shown |-> {}]],
               pc = "claims" => member, faults' = 0 => (pc = "claims" <=> listed) /\ (member <=> listed)
        PROVE  \E w \in ViewRecord : view' = [view EXCEPT ![r] = w] /\ RequestOK(r)'
    <3> DEFINE w == [pc |-> pc, one |-> one, member |-> member, shown |-> {}]
    <3>1. w \in ViewRecord /\ view'[r] = w
      BY <1>1, <2>1 DEF ViewRecord
    <3>2. RequestOK(r)'
      BY <1>1, <1>2, <2>1, <3>1 DEF RequestOK
    <3> QED BY <2>1, <3>1, <3>2
  <2>2. ASSUME NEW one \in BOOLEAN, ReadConnected(r, one)
        PROVE  \E w \in ViewRecord : view' = [view EXCEPT ![r] = w] /\ RequestOK(r)'
    <3>1. CASE /\ UNCHANGED faults
               /\ view' = [view EXCEPT ![r] = [pc |-> IF listed THEN "claims" ELSE "recent",
                                               one |-> one, member |-> listed, shown |-> {}]]
      BY <1>1, <2>1, <3>1
    <3>2. CASE /\ Fault("view")
               /\ view' = [view EXCEPT ![r] = [pc |-> "recent", one |-> one, member |-> FALSE, shown |-> {}]]
      <4>1. faults' # 0
        BY <1>0, <3>2, FaultCounted
      <4> QED BY <2>1, <3>2, <4>1
    <3> QED BY <2>2, <3>1, <3>2 DEF ReadConnected
  <2>3. ASSUME NEW pc \in {"recent", "done"}, NEW member \in BOOLEAN,
               NEW shown \in SUBSET {"connected", "disconnected"},
               SetView(r, pc, member, shown), settled' = settled,
               member => shown \subseteq {"connected"}, ~member => shown \subseteq {"disconnected"},
               pc = "recent" /\ ~member => shown = {},
               faults' = 0 /\ r \in settled =>
                  /\ member <=> listed
                  /\ member => shown = {"connected"}
                  /\ pc = "done" /\ ~member /\ shown = {} => ~recent
        PROVE  \E w \in ViewRecord : view' = [view EXCEPT ![r] = w] /\ RequestOK(r)'
    <3> DEFINE w == [pc |-> pc, one |-> view[r].one, member |-> member, shown |-> shown]
    <3>1. w \in ViewRecord /\ view' = [view EXCEPT ![r] = w] /\ view'[r] = w
      BY <1>1, <1>6, <2>3 DEF ViewRecord, SetView
    <3>2. RequestOK(r)'
      BY <1>1, <1>2, <2>3, <3>1 DEF RequestOK
    <3> QED BY <3>1, <3>2
  <2>4. ASSUME Hydrate(r)
        PROVE  \E w \in ViewRecord : view' = [view EXCEPT ![r] = w] /\ RequestOK(r)'
    <3> DEFINE pc == IF view[r].one THEN "done" ELSE "recent"
    <3>1. /\ view[r].pc = "claims" /\ settled' = settled /\ pc \in {"recent", "done"}
          /\ \/ SetView(r, pc, TRUE, {"connected"}) /\ UNCHANGED faults
             \/ SetView(r, pc, TRUE, {}) /\ Fault("view")
      BY <2>4 DEF Hydrate
    <3>2. r \in settled /\ faults = 0 => listed
      BY <1>6, <3>1 DEF RequestOK, ViewRecord
    <3> HIDE DEF pc
    <3>3. CASE SetView(r, pc, TRUE, {"connected"}) /\ UNCHANGED faults
      BY <1>1, <2>3, <3>1, <3>2, <3>3
    <3>4. CASE SetView(r, pc, TRUE, {}) /\ Fault("view")
      <4>1. faults' # 0
        BY <1>0, <3>4, FaultCounted
      <4> QED BY <2>3, <3>1, <3>4, <4>1
    <3> QED BY <3>1, <3>3, <3>4
  <2>5. ASSUME ReadRecent(r)
        PROVE  \E w \in ViewRecord : view' = [view EXCEPT ![r] = w] /\ RequestOK(r)'
    <3> DEFINE m == view[r].member
               new == {d \in {"disconnected"} : recent /\ ~m}
               old == view[r].shown
    <3>1. /\ view[r].pc = "recent" /\ settled' = settled
          /\ \/ SetView(r, "done", m, old \cup new) /\ UNCHANGED faults
             \/ SetView(r, "done", m, old) /\ Fault("view")
      BY <2>5 DEF ReadRecent
    <3>2. /\ m \in BOOLEAN /\ old \in SUBSET {"connected", "disconnected"}
          /\ m => old \subseteq {"connected"}
          /\ ~m => old = {}
          /\ r \in settled /\ faults = 0 => (m <=> listed) /\ (m => old = {"connected"})
      BY <1>6, <3>1 DEF RequestOK, ViewRecord
    <3>3. /\ old \cup new \in SUBSET {"connected", "disconnected"}
          /\ m => old \cup new = old
          /\ ~m => old \cup new = {d \in {"disconnected"} : recent}
      BY <3>2
    <3>4. CASE SetView(r, "done", m, old \cup new) /\ UNCHANGED faults
      <4> DEFINE all == old \cup new
      <4>1. /\ all \in SUBSET {"connected", "disconnected"}
            /\ m => all = old
            /\ ~m => all \subseteq {"disconnected"}
            /\ ~m /\ all = {} => ~recent
            /\ SetView(r, "done", m, all)
        BY <3>3, <3>4
      <4> HIDE DEF all, m, old
      <4> QED BY <2>3, <3>1, <3>2, <3>4, <4>1
    <3>5. CASE SetView(r, "done", m, old) /\ Fault("view")
      <4>1. faults' # 0
        BY <1>0, <3>5, FaultCounted
      <4> HIDE DEF m, old
      <4> QED BY <2>3, <3>1, <3>2, <3>5, <4>1
    <3> QED BY <3>1, <3>4, <3>5
  <2> QED BY <2>2, <2>4, <2>5
<1>8. PICK w \in ViewRecord : view' = [view EXCEPT ![r] = w]
  BY <1>7
<1>9. DirectoryTypeOK'
  <2>1. view' \in [Readers -> ViewRecord]
    BY <1>1, <1>8
  <2> QED BY <1>0, <1>1, <1>2, <2>1 DEF DirectoryTypeOK, ViewRecord
<1>10. ASSUME NEW q \in Readers, q # r PROVE RequestOK(q)'
  <2>1. view'[q] = view[q] /\ RequestOK(q)
    BY <1>0, <1>1, <1>8, <1>10
  <2> QED BY <1>2, <1>3, <1>10, <2>1 DEF RequestOK
<1> QED BY <1>4, <1>5, <1>7, <1>9, <1>10 DEF DirectoryInv

LEMMA DirectoryNextInv == DirectoryInv /\ [ViewNext]_<<leaseVars, viewVars>> => DirectoryInv'
<1> SUFFICES ASSUME DirectoryInv, [ViewNext]_<<leaseVars, viewVars>> PROVE DirectoryInv'
  OBVIOUS
<1>0. LeaseInv /\ LeaseTypeOK /\ DirectoryTypeOK /\ ListedInv /\ \A r \in Readers : RequestOK(r)
  BY DEF DirectoryInv, LeaseInv
<1>1. ASSUME UNCHANGED leaseVars, claims' \in BOOLEAN,
             UNCHANGED <<listed, recent, stage, ahead, view, settled>>
      PROVE  DirectoryInv'
  <2>1. UNCHANGED <<redisVars, tpc, host, taskVars, latest, faults>> /\ release' = release
    BY <1>1 DEF leaseVars, taskVars
  <2>2. LeaseInv'
    BY <1>0, <2>1, LeaseAside DEF LeaseTypeOK
  <2>3. latest # None => (Alone(latest)' <=> Alone(latest))
    BY <2>1 DEF Alone
  <2>4. ListedInv' /\ \A r \in Readers : RequestOK(r)'
    BY <1>0, <1>1, <2>1, <2>3, ListedKept, RequestsKept
  <2>5. DirectoryTypeOK'
    BY <1>0, <1>1 DEF DirectoryTypeOK
  <2> QED BY <2>2, <2>4, <2>5 DEF DirectoryInv
<1>2. CASE ClaimsExpire
  BY <1>1, <1>2 DEF ClaimsExpire
<1>3. CASE UNCHANGED <<leaseVars, viewVars>>
  BY <1>0, <1>1, <1>3 DEF viewVars, DirectoryTypeOK
<1>4. ASSUME NEW t \in Tunnels,
             Acquire(t) \/ Entered(t) \/ OpenTunnel(t) \/ Left(t)
      PROVE  DirectoryInv'
  <2>1. UNCHANGED viewVars
    BY <1>4 DEF Acquire, Entered, OpenTunnel, Left
  <2> QED BY <1>4, <2>1, DirectoryLeaseSteps
<1>5. ASSUME NEW t \in Tunnels, UNCHANGED viewVars,
             AcquireFails(t) \/ StopHeartbeat(t) \/ Subscribe(t) \/ DropOwnership(t) \/ ReleaseOwner(t)
      PROVE  DirectoryInv'
  BY <1>5, DirectoryLeaseSteps
<1>6. ASSUME Expire \/ Disconnect \/ \E i \in Instances : CrashTunnels(i), UNCHANGED viewVars
      PROVE  DirectoryInv'
  <2>1. Tunnels # {}
    BY <1>0, <1>6 DEF Expire, Disconnect, CrashTunnels, KeyOfLatest, DirectoryInv, LeaseInv, LeaseTypeOK
  <2> QED BY <1>6, <2>1, DirectoryLeaseSteps
<1> QED BY <1>2, <1>3, <1>4, <1>5, <1>6, DirectorySetSteps, DirectoryRequests DEF ViewNext

LEMMA DirectoryInit == ViewInit => DirectoryInv
<1> SUFFICES ASSUME ViewInit PROVE DirectoryInv
  OBVIOUS
<1>1. LeaseTypeOK
  BY LeaseAssumption DEF ViewInit, LeaseInit, LeaseTypeOK, TunnelPC
<1>2. TasksOK /\ KeyOfLatest /\ KeyIsKept /\ ListedInv
  BY LeaseAssumption DEF ViewInit, LeaseInit, TasksOK, KeyOfLatest, KeyIsKept, ListedInv
<1>3. DirectoryTypeOK /\ \A r \in Readers : RequestOK(r)
  BY DEF ViewInit, DirectoryTypeOK, RequestOK
<1> QED BY <1>1, <1>2, <1>3 DEF LeaseInv, DirectoryInv

LEMMA RequestShows ==
    ASSUME DirectoryTypeOK, NEW r \in Readers, RequestOK(r), view[r].pc = "done"
    PROVE  /\ Cardinality(view[r].shown) <= 1
           /\ view[r].shown = {} /\ r \in settled /\ faults = 0 => ~listed /\ ~recent
<1> DEFINE s == view[r].shown
<1>1. s = {} \/ \E d : s = {d}
  <2>1. s \subseteq {"connected"} \/ s \subseteq {"disconnected"}
    BY DEF RequestOK
  <2> QED BY <2>1
<1>2. Cardinality(s) <= 1
  <2>1. CASE s = {}
    BY <2>1, FS_EmptySet
  <2>2. ASSUME NEW d, s = {d} PROVE Cardinality(s) <= 1
    <3>1. Cardinality({d}) = 1
      BY FS_Singleton
    <3> HIDE DEF s
    <3> QED BY <2>2, <3>1
  <2> QED BY <1>1, <2>1, <2>2
<1>3. s = {} /\ r \in settled /\ faults = 0 => ~listed /\ ~recent
  BY DEF DirectoryTypeOK, RequestOK
<1> QED BY <1>2, <1>3

(* For any number of tunnels, releases and requests: the tunnel that took  *)
(* the lease last stays listed unless a release that had already deleted   *)
(* the key was still to run its SREM; an operator sees the agent at most   *)
(* once, and misses it only if it was nowhere, moved, or Redis failed      *)
(* (lease.rs 132-255, registry.rs 160-240).                                *)
THEOREM DirectoryCorrect == DirectorySpec => []DirectoryOK
<1>1. DirectoryInv => DirectoryOK
  <2> SUFFICES ASSUME DirectoryInv PROVE DirectoryOK
    OBVIOUS
  <2>1. OwnerIsListed
    BY DEF DirectoryInv, ListedInv, OwnerIsListed
  <2>2. ReportedOnce
    BY RequestShows DEF DirectoryInv, ReportedOnce
  <2> QED BY <2>1, <2>2 DEF DirectoryOK
<1>2. DirectorySpec => []DirectoryInv
  BY DirectoryInit, DirectoryNextInv, PTL DEF DirectorySpec
<1> QED BY <1>1, <1>2, PTL

-----------------------------------------------------------------------------
(* The fan-out of notifications.                                           *)

StreamTypeOK ==
    /\ published \in Nat /\ lost \in SUBSET (1..published)
    /\ task \in [Subscribers -> {"none", "starting", "on", "ended"}]
    /\ wire \in [Subscribers -> Seq(Nat)]
    /\ sse \in [Subscribers -> Seq(Nat)]

(* A stretch of what was published, and the frame that comes after.        *)
Gone(f, g, l) == \A h \in Nat : f < h /\ h < g => h \in l
Stretch(q, n, l) ==
    \A i \in 1..Len(q) :
        /\ q[i] \in Nat /\ 1 <= q[i] /\ q[i] <= n /\ q[i] \notin l
        /\ i > 1 => q[i - 1] < q[i] /\ Gone(q[i - 1], q[i], l)

(* What is on the wire goes on where the client's stream ends, and while   *)
(* the subscription holds the two end at what was published last.          *)
StreamOK(s, w, q, n, l) ==
    /\ Stretch(q, n, l) /\ Stretch(w, n, l)
    /\ q # <<>> /\ w # <<>> => q[Len(q)] < w[1] /\ Gone(q[Len(q)], w[1], l)
    /\ s = "on" => /\ w # <<>> => Gone(w[Len(w)], n + 1, l)
                   /\ w = <<>> /\ q # <<>> => Gone(q[Len(q)], n + 1, l)
    /\ s \in {"none", "starting"} => w = <<>> /\ q = <<>>
    /\ s = "ended" => w = <<>>

StreamInv ==
    StreamTypeOK /\ \A s \in Subscribers : StreamOK(task[s], wire[s], sse[s], published, lost)

Appended(a, b, x) == b = Append(a, x)

LEMMA AppendedAt ==
    ASSUME NEW a \in Seq(Nat), NEW x \in Nat, NEW b, Appended(a, b, x)
    PROVE  /\ b \in Seq(Nat) /\ Len(b) = Len(a) + 1 /\ Len(a) \in Nat
           /\ b # <<>> /\ b[Len(b)] = x /\ (a = <<>> => b[1] = x) /\ (a # <<>> => Len(a) > 0 /\ b[1] = a[1])
           /\ \A i \in 1..Len(a) : b[i] = a[i]
BY DEF Appended

LEMMA StretchAppended ==
    ASSUME NEW a \in Seq(Nat), NEW n \in Nat, NEW l, NEW x \in Nat, NEW b, Appended(a, b, x),
           Stretch(a, n, l), 1 <= x, x <= n, x \notin l,
           a # <<>> => a[Len(a)] < x /\ Gone(a[Len(a)], x, l)
    PROVE  Stretch(b, n, l)
<1>1. /\ Len(b) = Len(a) + 1 /\ Len(a) \in Nat /\ b[Len(b)] = x
      /\ \A i \in 1..Len(a) : b[i] = a[i]
      /\ a # <<>> => Len(a) > 0
  BY AppendedAt
<1> SUFFICES ASSUME NEW i \in 1..Len(b)
             PROVE  /\ b[i] \in Nat /\ 1 <= b[i] /\ b[i] <= n /\ b[i] \notin l
                    /\ i > 1 => b[i - 1] < b[i] /\ Gone(b[i - 1], b[i], l)
  BY Zenon DEF Stretch
<1>2. CASE i = Len(b)
  <2>1. CASE a = <<>>
    BY <1>1, <1>2, <2>1
  <2>2. CASE a # <<>>
    <3>1. b[i] = x /\ i - 1 = Len(a) /\ Len(a) \in 1..Len(a) /\ b[i - 1] = a[Len(a)]
      BY <1>1, <1>2, <2>2
    <3> QED BY <2>2, <3>1
  <2> QED BY <2>1, <2>2
<1>3. CASE i # Len(b)
  <2>1. i \in 1..Len(a) /\ b[i] = a[i] /\ (i > 1 => i - 1 \in 1..Len(a) /\ b[i - 1] = a[i - 1])
    BY SMTT(30), <1>1, <1>3
  <2>2. /\ a[i] \in Nat /\ 1 <= a[i] /\ a[i] <= n /\ a[i] \notin l
        /\ i > 1 => a[i - 1] < a[i] /\ Gone(a[i - 1], a[i], l)
    BY <2>1, Zenon DEF Stretch
  <2> QED BY <2>1, <2>2
<1> QED BY <1>2, <1>3

LEMMA StretchTail ==
    ASSUME NEW a \in Seq(Nat), a # <<>>, NEW n \in Nat, NEW l, Stretch(a, n, l), NEW b, b = Tail(a)
    PROVE  /\ b \in Seq(Nat) /\ Stretch(b, n, l)
           /\ Head(a) = a[1] /\ a[1] \in Nat /\ 1 <= a[1] /\ a[1] <= n /\ a[1] \notin l
           /\ b # <<>> => /\ a[1] < b[1] /\ Gone(a[1], b[1], l) /\ b[Len(b)] = a[Len(a)]
           /\ b = <<>> => a[1] = a[Len(a)]
<1>1. /\ b \in Seq(Nat) /\ Len(a) = Len(b) + 1 /\ Len(b) \in Nat /\ Head(a) = a[1]
      /\ \A i \in 1..Len(b) : b[i] = a[i + 1]
      /\ b # <<>> => Len(b) > 0
      /\ b = <<>> => Len(b) = 0
  <2>1. b \in Seq(Nat) /\ Head(a) = a[1]
    OBVIOUS
  <2>2. Len(a) = Len(b) + 1 /\ Len(b) \in Nat
    OBVIOUS
  <2>3. \A i \in 1..Len(b) : b[i] = a[i + 1]
    BY <2>2
  <2>4. b # <<>> => Len(b) > 0
    BY <2>1
  <2>5. b = <<>> => Len(b) = 0
    OBVIOUS
  <2> QED BY <2>1, <2>2, <2>3, <2>4, <2>5
<1>2. 1 \in 1..Len(a)
  BY <1>1
<1>3. a[1] \in Nat /\ 1 <= a[1] /\ a[1] <= n /\ a[1] \notin l
  BY <1>2, Zenon DEF Stretch
<1>4. Stretch(b, n, l)
  <2> SUFFICES ASSUME NEW i \in 1..Len(b)
               PROVE  /\ b[i] \in Nat /\ 1 <= b[i] /\ b[i] <= n /\ b[i] \notin l
                      /\ i > 1 => b[i - 1] < b[i] /\ Gone(b[i - 1], b[i], l)
    BY Zenon DEF Stretch
  <2>1. PICK k \in 1..Len(a) : k = i + 1
    BY <1>1
  <2>2. b[i] = a[k] /\ k > 1 /\ (i > 1 => b[i - 1] = a[k - 1])
    BY <1>1, <2>1
  <2>3. /\ a[k] \in Nat /\ 1 <= a[k] /\ a[k] <= n /\ a[k] \notin l
        /\ k > 1 => a[k - 1] < a[k] /\ Gone(a[k - 1], a[k], l)
    BY Zenon DEF Stretch
  <2> QED BY <2>2, <2>3
<1>5. ASSUME b # <<>> PROVE a[1] < b[1] /\ Gone(a[1], b[1], l) /\ b[Len(b)] = a[Len(a)]
  <2>1. 2 \in 1..Len(a) /\ b[1] = a[2] /\ 2 - 1 = 1 /\ 2 > 1 /\ b[Len(b)] = a[Len(a)]
    BY <1>1, <1>5
  <2>2. 2 > 1 => a[2 - 1] < a[2] /\ Gone(a[2 - 1], a[2], l)
    BY <2>1, Zenon DEF Stretch
  <2> QED BY <2>1, <2>2
<1>6. b = <<>> => a[1] = a[Len(a)]
  BY <1>1
<1> QED BY <1>1, <1>3, <1>4, <1>5, <1>6

(* One more frame is published, or lost. *)
LEMMA StretchLater ==
    ASSUME NEW q, NEW n \in Nat, NEW l, NEW l2, l2 = l \/ l2 = l \cup {n + 1}, Stretch(q, n, l)
    PROVE  Stretch(q, n + 1, l2) /\ \A f, g : Gone(f, g, l) => Gone(f, g, l2)
<1>1. \A f, g : Gone(f, g, l) => Gone(f, g, l2)
  BY DEF Gone
<1>2. \A i \in 1..Len(q) :
        /\ q[i] \in Nat /\ 1 <= q[i] /\ q[i] <= n /\ q[i] \notin l
        /\ i > 1 => q[i - 1] < q[i] /\ Gone(q[i - 1], q[i], l)
  BY Zenon DEF Stretch
<1>3. \A i \in 1..Len(q) : q[i] <= n + 1 /\ q[i] \notin l2
  BY <1>2
<1> QED BY <1>1, <1>2, <1>3, Zenon DEF Stretch

LEMMA GoneOn ==
    ASSUME NEW f, NEW n \in Nat, NEW l
    PROVE  Gone(f, n + 1, l) => Gone(f, n + 2, l \cup {n + 1})
BY DEF Gone

LEMMA StreamNextInv == StreamInv /\ [FanNext]_fanVars => StreamInv'
<1> SUFFICES ASSUME StreamInv, [FanNext]_fanVars PROVE StreamInv'
  OBVIOUS
<1>t. StreamTypeOK
  BY DEF StreamInv
<1>i. \A s \in Subscribers : StreamOK(task[s], wire[s], sse[s], published, lost)
  BY DEF StreamInv
<1>s. \A s \in Subscribers : wire[s] \in Seq(Nat) /\ sse[s] \in Seq(Nat)
  BY <1>t DEF StreamTypeOK
<1>n. published \in Nat /\ published \notin {} /\ \A f \in lost : f \in Nat /\ f <= published
  BY <1>t DEF StreamTypeOK
<1>1. CASE UNCHANGED fanVars
  BY <1>1 DEF fanVars, StreamInv, StreamTypeOK
<1>2. CASE PublishFrame
  <2>1. published' = published + 1 /\ task' = task /\ sse' = sse
    BY <1>2 DEF PublishFrame
  <2>2. CASE /\ wire' = [s \in Subscribers |-> IF task[s] = "on" THEN Append(wire[s], published') ELSE wire[s]]
             /\ lost' = lost
    <3>1. StreamTypeOK'
      <4>1. ASSUME NEW s \in Subscribers PROVE Append(wire[s], published + 1) \in Seq(Nat)
        BY <1>s, <1>n
      <4>2. wire' \in [Subscribers -> Seq(Nat)]
        BY <1>s, <2>1, <2>2, <4>1
      <4>3. published' \in Nat /\ lost' \in SUBSET (1..published')
        BY <1>t, <1>n, <2>1, <2>2 DEF StreamTypeOK
      <4> QED BY <1>t, <2>1, <4>2, <4>3 DEF StreamTypeOK
    <3>2. ASSUME NEW s \in Subscribers
          PROVE  StreamOK(task[s], wire'[s], sse[s], published + 1, lost)
      <4>0. StreamOK(task[s], wire[s], sse[s], published, lost)
        BY <1>i
      <4>1. /\ Stretch(sse[s], published + 1, lost) /\ Stretch(wire[s], published + 1, lost)
        BY <1>n, <4>0, StretchLater DEF StreamOK
      <4>2. CASE task[s] # "on"
        <5>1. wire'[s] = wire[s]
          BY <2>2, <4>2
        <5> QED BY <4>0, <4>1, <4>2, <5>1, Zenon DEF StreamOK
      <4>3. CASE task[s] = "on"
        <5>1. Appended(wire[s], wire'[s], published + 1)
          BY <2>1, <2>2, <4>3 DEF Appended
        <5> DEFINE w == wire[s]
                   v == wire'[s]
                   q == sse[s]
        <5>2. /\ v # <<>> /\ v[Len(v)] = published + 1
              /\ (w = <<>> => v[1] = published + 1) /\ (w # <<>> => v[1] = w[1])
          BY SMTT(30), <1>s, <1>n, <5>1, AppendedAt
        <5>3. ASSUME NEW a \in Seq(Nat), a # <<>>, Stretch(a, published, lost) PROVE a[Len(a)] < published + 1
          <6>1. Len(a) \in 1..Len(a)
            BY <5>3
          <6>2. a[Len(a)] \in Nat /\ a[Len(a)] <= published
            BY <5>3, <6>1, Zenon DEF Stretch
          <6> QED BY <1>n, <6>2
        <5>4. Stretch(w, published, lost) /\ Stretch(q, published, lost)
          BY <4>0 DEF StreamOK
        <5>5. /\ w # <<>> => w[Len(w)] < published + 1 /\ Gone(w[Len(w)], published + 1, lost)
              /\ w = <<>> /\ q # <<>> => q[Len(q)] < published + 1 /\ Gone(q[Len(q)], published + 1, lost)
          BY <1>s, <4>0, <4>3, <5>3, <5>4 DEF StreamOK
        <5>6. published + 1 \in Nat /\ 1 <= published + 1 /\ published + 1 \notin lost
          BY <1>n
        <5>7. Stretch(v, published + 1, lost)
          BY <1>s, <4>1, <5>1, <5>5, <5>6, StretchAppended
        <5>8. Gone(published + 1, published + 1 + 1, lost)
          BY <1>n DEF Gone
        <5>9. q # <<>> => q[Len(q)] < v[1] /\ Gone(q[Len(q)], v[1], lost)
          <6>1. CASE w = <<>>
            BY <5>2, <5>5, <6>1
          <6>2. CASE w # <<>>
            <7>1. q # <<>> => q[Len(q)] < w[1] /\ Gone(q[Len(q)], w[1], lost)
              BY <4>0, <6>2, Zenon DEF StreamOK
            <7> QED BY <5>2, <6>2, <7>1
          <6> QED BY <6>1, <6>2
        <5> QED BY <4>1, <4>3, <5>2, <5>7, <5>8, <5>9 DEF StreamOK
      <4> QED BY <4>2, <4>3
    <3> QED BY <2>1, <2>2, <3>1, <3>2 DEF StreamInv
  <2>3. CASE wire' = wire /\ lost' = lost \cup {published'}
    <3>1. StreamTypeOK'
      BY <1>t, <2>1, <2>3 DEF StreamTypeOK
    <3>2. ASSUME NEW s \in Subscribers
          PROVE  StreamOK(task[s], wire[s], sse[s], published + 1, lost \cup {published + 1})
      <4>0. StreamOK(task[s], wire[s], sse[s], published, lost)
        BY <1>i
      <4>1. /\ Stretch(sse[s], published + 1, lost \cup {published + 1})
            /\ Stretch(wire[s], published + 1, lost \cup {published + 1})
            /\ \A f, g : Gone(f, g, lost) => Gone(f, g, lost \cup {published + 1})
        <5>1. PICK l : l = lost \cup {published + 1}
          OBVIOUS
        <5>2. Stretch(sse[s], published, lost) /\ Stretch(wire[s], published, lost)
          BY <4>0 DEF StreamOK
        <5>3. /\ Stretch(sse[s], published + 1, l) /\ Stretch(wire[s], published + 1, l)
              /\ \A f, g : Gone(f, g, lost) => Gone(f, g, l)
          BY <1>n, <5>1, <5>2, StretchLater
        <5> QED BY <5>1, <5>3
      <4>2. \A f : Gone(f, published + 1, lost) => Gone(f, published + 1 + 1, lost \cup {published + 1})
        BY <1>n DEF Gone
      <4> QED BY <4>0, <4>1, <4>2, Zenon DEF StreamOK
    <3> QED BY <2>1, <2>3, <3>1, <3>2 DEF StreamInv
  <2> QED BY <1>2, <2>2, <2>3 DEF PublishFrame
<1>3. ASSUME NEW s \in Subscribers, SubscribeStream(s) \/ Subscribed(s) PROVE StreamInv'
  <2>0. /\ task[s] \in {"none", "starting"}
        /\ UNCHANGED <<published, lost, wire, sse>>
        /\ \E x \in {"starting", "on", "ended"} : task' = [task EXCEPT ![s] = x]
    BY <1>3 DEF SubscribeStream, Subscribed
  <2>1. StreamTypeOK'
    BY <1>t, <2>0 DEF StreamTypeOK
  <2>2. wire[s] = <<>> /\ sse[s] = <<>> /\ Stretch(<<>>, published, lost)
    <3>1. wire[s] = <<>> /\ sse[s] = <<>> /\ Stretch(wire[s], published, lost)
      BY <1>i, <2>0 DEF StreamOK
    <3> QED BY <3>1
  <2>3. \A x \in {"starting", "on", "ended"} : StreamOK(x, <<>>, <<>>, published, lost)
    BY <2>2 DEF StreamOK
  <2>4. ASSUME NEW r \in Subscribers PROVE StreamOK(task'[r], wire[r], sse[r], published, lost)
    <3>1. CASE r = s
      <4>1. task'[s] \in {"starting", "on", "ended"}
        BY <1>t, <2>0 DEF StreamTypeOK
      <4> QED BY <2>2, <2>3, <3>1, <4>1
    <3>2. CASE r # s
      <4>1. task'[r] = task[r]
        BY <1>t, <2>0, <3>2 DEF StreamTypeOK
      <4> QED BY <1>i, <4>1
    <3> QED BY <3>1, <3>2
  <2> QED BY <2>0, <2>1, <2>4 DEF StreamInv
<1>4. ASSUME NEW s \in Subscribers, LoseConnection(s) \/ LeaveStream(s) PROVE StreamInv'
  <2>0. /\ task' = [task EXCEPT ![s] = "ended"] /\ wire' = [wire EXCEPT ![s] = <<>>]
        /\ UNCHANGED <<published, lost, sse>>
    BY <1>4 DEF LoseConnection, LeaveStream
  <2>1. StreamTypeOK'
    BY <1>t, <2>0 DEF StreamTypeOK
  <2>4. ASSUME NEW r \in Subscribers PROVE StreamOK(task'[r], wire'[r], sse[r], published, lost)
    <3>1. CASE r = s
      <4>1. task'[r] = "ended" /\ wire'[r] = <<>>
        BY <1>t, <2>0, <3>1 DEF StreamTypeOK
      <4>2. Stretch(sse[r], published, lost)
        BY <1>i DEF StreamOK
      <4> QED BY <4>1, <4>2 DEF StreamOK, Stretch
    <3>2. CASE r # s
      <4>1. task'[r] = task[r] /\ wire'[r] = wire[r]
        BY <1>t, <2>0, <3>2 DEF StreamTypeOK
      <4> QED BY <1>i, <4>1
    <3> QED BY <3>1, <3>2
  <2> QED BY <2>0, <2>1, <2>4 DEF StreamInv
<1>5. ASSUME NEW s \in Subscribers, Forward(s) PROVE StreamInv'
  <2> DEFINE w == wire[s]
             q == sse[s]
  <2>0. /\ task[s] = "on" /\ w # <<>>
        /\ sse' = [sse EXCEPT ![s] = Append(q, Head(w))] /\ wire' = [wire EXCEPT ![s] = Tail(w)]
        /\ UNCHANGED <<published, lost, task>>
    BY <1>5 DEF Forward
  <2>i. StreamOK("on", w, q, published, lost)
    BY <1>i, <2>0
  <2>s. w \in Seq(Nat) /\ q \in Seq(Nat)
    BY <1>s
  <2> HIDE DEF w, q
  <2>1. PICK v \in Seq(Nat) : v = Tail(w)
    <3>1. w # <<>>
      BY <2>0
    <3>2. Tail(w) \in Seq(Nat)
      BY <2>s, <3>1
    <3> QED BY <3>2, Zenon
  <2>2. /\ Stretch(v, published, lost)
        /\ Head(w) = w[1] /\ w[1] \in Nat /\ 1 <= w[1] /\ w[1] <= published /\ w[1] \notin lost
        /\ v # <<>> => /\ w[1] < v[1] /\ Gone(w[1], v[1], lost) /\ v[Len(v)] = w[Len(w)]
        /\ v = <<>> => w[1] = w[Len(w)]
    <3>1. Stretch(w, published, lost)
      BY <2>i DEF StreamOK
    <3> QED BY <2>s, <1>n, <2>0, <2>1, <3>1, StretchTail
  <2>3. PICK p \in Seq(Nat) : p = Append(q, w[1])
    <3>1. w[1] \in Nat
      BY <2>2
    <3>2. Append(q, w[1]) \in Seq(Nat)
      BY <2>s, <3>1
    <3> QED BY <3>2, Zenon
  <2>4. Appended(q, p, w[1])
    BY <2>3 DEF Appended
  <2>5. p # <<>> /\ p[Len(p)] = w[1]
    BY <2>s, <2>2, <2>4, AppendedAt
  <2>6. Stretch(p, published, lost)
    <3>1. Stretch(q, published, lost) /\ (q # <<>> => q[Len(q)] < w[1] /\ Gone(q[Len(q)], w[1], lost))
      BY <2>0, <2>i, Zenon DEF StreamOK
    <3> QED BY <2>s, <1>n, <2>2, <2>4, <3>1, StretchAppended
  <2>7. Gone(w[Len(w)], published + 1, lost)
    BY <2>0, <2>i, Zenon DEF StreamOK
  <2>8. StreamOK("on", v, p, published, lost)
    BY <2>2, <2>5, <2>6, <2>7 DEF StreamOK
  <2>9. wire' = [wire EXCEPT ![s] = v] /\ sse' = [sse EXCEPT ![s] = p]
    BY <2>0, <2>1, <2>2, <2>3
  <2>10. StreamTypeOK'
    BY ZenonT(30), <1>t, <2>0, <2>9 DEF StreamTypeOK
  <2>11. ASSUME NEW r \in Subscribers PROVE StreamOK(task[r], wire'[r], sse'[r], published, lost)
    <3>1. CASE r = s
      <4>1. wire'[r] = v /\ sse'[r] = p
        BY <1>t, <2>9, <3>1 DEF StreamTypeOK
      <4> QED BY <2>0, <2>8, <3>1, <4>1
    <3>2. CASE r # s
      <4>1. sse'[r] = sse[r] /\ wire'[r] = wire[r]
        BY <1>t, <2>9, <3>2 DEF StreamTypeOK
      <4> QED BY <1>i, <4>1
    <3> QED BY <3>1, <3>2
  <2> QED BY <2>0, <2>10, <2>11 DEF StreamInv
<1> QED BY <1>1, <1>2, <1>3, <1>4, <1>5 DEF FanNext

(* What an SSE client on the Redis backend gets is one stretch of what was *)
(* published: after its first frame only frames whose PUBLISH failed are   *)
(* missing, for any number of subscribers that come late, leave and lose   *)
(* their connection (broker.rs 35-100).                                    *)
THEOREM StreamsUnbroken == FanSpec => []OneStretch
<1>1. FanInit => StreamInv
  <2>1. <<>> \in Seq(Nat) /\ Len(<<>>) = 0
    OBVIOUS
  <2>2. \A l : Stretch(<<>>, 0, l)
    BY DEF Stretch
  <2> SUFFICES ASSUME FanInit PROVE StreamInv
    OBVIOUS
  <2>3. StreamTypeOK
    BY <2>1 DEF FanInit, StreamTypeOK
  <2>4. \A s \in Subscribers : task[s] = "none" /\ wire[s] = <<>> /\ sse[s] = <<>>
    BY DEF FanInit
  <2>5. published = 0
    BY DEF FanInit
  <2>6. StreamOK("none", <<>>, <<>>, 0, lost)
    BY <2>2 DEF StreamOK
  <2> QED BY <2>3, <2>4, <2>5, <2>6, Zenon DEF StreamInv
<1>2. StreamInv => OneStretch
  <2> SUFFICES ASSUME StreamInv, NEW s \in Subscribers, NEW i \in 1..Len(sse[s])
               PROVE  /\ sse[s][i] \in 1..published /\ sse[s][i] \notin lost
                      /\ i > 1 => NextPublished(sse[s][i - 1], sse[s][i])
    BY Zenon DEF OneStretch
  <2> DEFINE q == sse[s]
  <2>1. Stretch(q, published, lost) /\ published \in Nat /\ q \in Seq(Nat)
    BY DEF StreamInv, StreamOK, StreamTypeOK
  <2> HIDE DEF q
  <2>2. i \in 1..Len(q)
    BY DEF q
  <2>3. /\ q[i] \in Nat /\ 1 <= q[i] /\ q[i] <= published /\ q[i] \notin lost
        /\ i > 1 => q[i - 1] < q[i] /\ Gone(q[i - 1], q[i], lost)
    BY <2>1, <2>2, Zenon DEF Stretch
  <2>4. ASSUME i > 1 PROVE NextPublished(q[i - 1], q[i])
    <3>1. i - 1 \in 1..Len(q)
      BY <2>2, <2>4
    <3>2. q[i - 1] \in Nat
      BY <2>1, <3>1
    <3> QED BY <2>3, <2>4, <3>2 DEF NextPublished, Gone
  <2> QED BY <2>1, <2>3, <2>4 DEF q
<1> QED BY <1>1, <1>2, StreamNextInv, PTL DEF FanSpec
=============================================================================
