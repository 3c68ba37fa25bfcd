------------------------- MODULE ReplicationProofs -------------------------
(***************************************************************************)
(* Proofs about crates/ruvector-replication, in two parts.                 *)
(*                                                                         *)
(* ReplicaSet and Failover, for any replicas, any number of monitoring     *)
(* tasks, any threshold and any number of changes: one primary, quorums    *)
(* that are majorities, and one failover at a time.                        *)
(*                                                                         *)
(* ChangeStream, for any number of sessions and entries, any sizes of      *)
(* batches and channels and any checkpoint interval: types, the order of   *)
(* what a session sends, what it leaves out, and what lies below a         *)
(* checkpoint.                                                             *)
(***************************************************************************)
EXTENDS Failover, ChangeStream, FiniteSetTheorems, TLAPS

\* A step of the set, whoever takes it.
SetStep ==
    \/ \E i \in Ids, r \in Roles : AddReplica(i, r)
    \/ \E i \in Ids : RemoveReplica(i)
    \/ \E i \in Ids : CanPromote(i) /\ Promote(i)
    \/ \E i \in Ids : Demote(i)
    \/ \E n \in 1..Cardinality(Ids) : SetQuorumSize(n)
    \/ UNCHANGED set

SetInv == SetTypeOK /\ OnePrimary /\ QuorumIsMajority

-----------------------------------------------------------------------------
(* The set                                                                 *)

LEMMA VotersFinite ==
  ASSUME NEW roles
  PROVE  IsFiniteSet(Voters(roles)) /\ Cardinality(Voters(roles)) \in Nat
<1>1. Voters(roles) \subseteq Ids
  BY DEF Voters
<1>2. IsFiniteSet(Voters(roles))
  BY <1>1, ReplicaSetAssumption, FS_Subset
<1> QED
  BY <1>2, FS_CardinalityType

\* More than half, for every size: update_quorum_size.
LEMMA QuorumOfIsMajority ==
  ASSUME NEW roles
  PROVE  QuorumOf(roles) \in Nat /\ 2 * QuorumOf(roles) > Cardinality(Voters(roles))
BY VotersFinite DEF QuorumOf

LEMMA SetInitInv == SetInit => SetInv
<1> SUFFICES ASSUME SetInit PROVE SetInv
  OBVIOUS
<1>1. /\ role \in [Ids -> Roles \cup {None}]
      /\ \A i, j \in Ids : role[i] = "primary" /\ role[j] = "primary" => i = j
  BY ReplicaSetAssumption DEF SetInit, Roles
<1>2. CASE \E i \in Ids : role[i] = "primary"
  <2>1. primary \in Ids /\ role[primary] = "primary"
    BY <1>2 DEF SetInit
  <2>2. SetTypeOK /\ OnePrimary
    BY <1>1, <2>1, QuorumOfIsMajority DEF SetInit, SetTypeOK, OnePrimary
  <2> QED
    BY <2>2, QuorumOfIsMajority DEF SetInv, SetInit, QuorumIsMajority
<1>3. CASE ~\E i \in Ids : role[i] = "primary"
  <2>1. primary = None
    BY <1>3 DEF SetInit
  <2>2. SetTypeOK /\ OnePrimary
    BY <1>1, <1>3, <2>1, QuorumOfIsMajority DEF SetInit, SetTypeOK, OnePrimary
  <2> QED
    BY <2>2, QuorumOfIsMajority DEF SetInv, SetInit, QuorumIsMajority
<1> QED
  BY <1>2, <1>3

LEMMA SetStepType == SetInv /\ SetStep => SetTypeOK'
<1> SUFFICES ASSUME SetInv, SetStep PROVE SetTypeOK'
  OBVIOUS
<1> USE DEF SetInv, SetTypeOK
<1>1. ASSUME NEW i \in Ids, NEW r \in Roles, AddReplica(i, r)
      PROVE  SetTypeOK'
  BY <1>1, QuorumOfIsMajority DEF AddReplica, UpdateQuorum
<1>2. ASSUME NEW i \in Ids, RemoveReplica(i)
      PROVE  SetTypeOK'
  BY <1>2, QuorumOfIsMajority DEF RemoveReplica, UpdateQuorum
<1>3. ASSUME NEW i \in Ids, Promote(i)
      PROVE  SetTypeOK'
  BY <1>3 DEF Promote, set, Roles
<1>4. CASE \E i \in Ids : Demote(i)
  BY <1>4 DEF Demote, Roles
<1>5. CASE \E n \in 1..Cardinality(Ids) : SetQuorumSize(n)
  BY <1>5 DEF SetQuorumSize
<1>6. CASE UNCHANGED set
  BY <1>6 DEF set
<1> QED
  BY <1>1, <1>2, <1>3, <1>4, <1>5, <1>6 DEF SetStep

LEMMA SetStepPrimary == SetInv /\ SetStep => OnePrimary'
<1> SUFFICES ASSUME SetInv, SetStep PROVE OnePrimary'
  OBVIOUS
<1> USE ReplicaSetAssumption DEF SetInv, SetTypeOK, OnePrimary
<1>1. ASSUME NEW i \in Ids, NEW r \in Roles, AddReplica(i, r)
      PROVE  OnePrimary'
  BY <1>1 DEF AddReplica, Members, Roles
<1>2. ASSUME NEW i \in Ids, RemoveReplica(i)
      PROVE  OnePrimary'
  BY <1>2 DEF RemoveReplica, Members
<1>3. ASSUME NEW i \in Ids, CanPromote(i), Promote(i)
      PROVE  OnePrimary'
  <2>1. CASE role[i] = "primary"
    BY <1>3, <2>1 DEF Promote, set
  <2>2. CASE role[i] # "primary"
    <3>1. /\ primary' = i
          /\ \A j \in Ids : role'[j] = IF j = i THEN "primary"
                                      ELSE IF j = primary /\ j \in Members THEN "secondary"
                                      ELSE role[j]
      BY <1>3, <2>2 DEF Promote
    <3>2. ASSUME NEW j \in Ids, role'[j] = "primary"
          PROVE  j = i
      BY <3>1, <3>2 DEF Members
    <3> QED
      BY <3>1, <3>2
  <2> QED
    BY <2>1, <2>2
<1>4. CASE \E i \in Ids : Demote(i)
  BY <1>4 DEF Demote
<1>5. CASE \E n \in 1..Cardinality(Ids) : SetQuorumSize(n)
  BY <1>5 DEF SetQuorumSize
<1>6. CASE UNCHANGED set
  BY <1>6 DEF set
<1> QED
  BY <1>1, <1>2, <1>3, <1>4, <1>5, <1>6 DEF SetStep

\* A promotion exchanges voters as long as no id was added twice: the primary
\* that steps down is one.
LEMMA SetStepQuorum == SetInv /\ SetStep => QuorumIsMajority'
<1> SUFFICES ASSUME SetInv, SetStep PROVE QuorumIsMajority'
  OBVIOUS
<1> USE DEF SetInv, QuorumIsMajority
<1>1. ASSUME NEW i \in Ids, NEW r \in Roles, AddReplica(i, r)
      PROVE  QuorumIsMajority'
  BY <1>1, QuorumOfIsMajority DEF AddReplica, UpdateQuorum
<1>2. ASSUME NEW i \in Ids, RemoveReplica(i)
      PROVE  QuorumIsMajority'
  BY <1>2, QuorumOfIsMajority DEF RemoveReplica, UpdateQuorum
<1>3. ASSUME NEW i \in Ids, CanPromote(i), Promote(i)
      PROVE  QuorumIsMajority'
  <2> SUFFICES ASSUME overwritten' = {}
               PROVE  Voters(role') = Voters(role) /\ UNCHANGED <<quorum, overwritten, chosen>>
    BY <1>3
  <2>1. UNCHANGED <<quorum, overwritten, chosen>>
    BY <1>3 DEF Promote, set
  <2>2. CASE role[i] = "primary"
    BY <1>3, <2>1, <2>2 DEF Promote, set
  <2>3. CASE role[i] # "primary"
    <3>1. \A j \in Ids : role'[j] = IF j = i THEN "primary"
                                    ELSE IF j = primary /\ j \in Members THEN "secondary"
                                    ELSE role[j]
      BY <1>3, <2>3 DEF Promote
    <3>2. primary \in Ids => role[primary] = "primary"
      BY <2>1, ReplicaSetAssumption DEF OnePrimary
    <3>3. \A j \in Ids : role'[j] \in {None, "witness"} <=> role[j] \in {None, "witness"}
      BY <1>3, <3>1, <3>2, ReplicaSetAssumption DEF CanPromote, Members
    <3> QED
      BY <2>1, <3>3 DEF Voters
  <2> QED
    BY <2>2, <2>3
<1>4. ASSUME NEW i \in Ids, Demote(i)
      PROVE  QuorumIsMajority'
  <2>1. \A j \in Ids : role'[j] \in {None, "witness"} <=> role[j] \in {None, "witness"}
    BY <1>4, ReplicaSetAssumption DEF Demote, SetTypeOK
  <2>2. Voters(role') = Voters(role)
    BY <2>1 DEF Voters
  <2> QED
    BY <1>4, <2>2 DEF Demote
<1>5. CASE \E n \in 1..Cardinality(Ids) : SetQuorumSize(n)
  BY <1>5 DEF SetQuorumSize
<1>6. CASE UNCHANGED set
  BY <1>6 DEF set
<1> QED
  BY <1>1, <1>2, <1>3, <1>4, <1>5, <1>6 DEF SetStep

-----------------------------------------------------------------------------
(* The tasks                                                               *)

MonTypes ==
    [at : {"round", "count", "claim", "select", "promote", "clear"},
     todo : SUBSET Ids, id : Ids \cup {None}, failed : BOOLEAN]

\* Every step of Failover is a step of the set, or leaves it alone.
LEMMA NextIsSetStep == TypeOK /\ [Next]_vars => SetStep
<1> SUFFICES ASSUME TypeOK, [Next]_vars PROVE SetStep
  OBVIOUS
<1> USE DEF SetStep
<1>1. ASSUME NEW m \in Monitors, Monitor(m)
      PROVE  SetStep
  <2>1. CASE PromoteCandidate(m)
    <3>1. CASE CanPromote(mon[m].id)
      BY <2>1, <3>1 DEF PromoteCandidate, TypeOK
    <3> QED
      BY <2>1, <3>1 DEF PromoteCandidate
  <2> QED
    BY <1>1, <2>1 DEF Monitor, Tick, CheckHealth, CountFailure, Claim, Select, ClearFlag
<1>2. CASE Change
  BY <1>2 DEF Change, ManualFailover
<1> QED
  BY <1>1, <1>2 DEF Next, SetPolicy, FallSilent, vars

LEMMA GotoType ==
  ASSUME TypeOK, NEW m \in Monitors,
         NEW at \in {"round", "claim", "select", "clear"}, Goto(m, at)
  PROVE  mon' \in [Monitors -> MonTypes]
         /\ mon'[m].at = at
         /\ \A n \in Monitors \ {m} : mon'[n] = mon[n]
BY DEF TypeOK, Goto, Waiting, MonTypes

\* What the steps of one task leave behind: the other tasks, and a place that
\* is neither count nor promote unless it names a replica.
LEMMA MonitorType ==
  ASSUME TypeOK, NEW m \in Monitors, Monitor(m)
  PROVE  /\ mon' \in [Monitors -> MonTypes]
         /\ mon'[m].at \in {"count", "promote"} => mon'[m].id \in Ids
         /\ \A n \in Monitors \ {m} : mon'[n] = mon[n]
         /\ failures' \in [Ids -> 0..Threshold]
         /\ inProgress' \in BOOLEAN
<1> USE DEF TypeOK
<1>1. CASE Tick(m)
  BY <1>1 DEF Tick, MonTypes, Members
<1>2. CASE \E i \in Ids : CheckHealth(m, i)
  BY <1>2 DEF CheckHealth, MonTypes
<1>3. CASE CountFailure(m)
  <2>1. failures' \in [Ids -> 0..Threshold]
    BY <1>3, FailoverAssumption DEF CountFailure
  <2> QED
    BY <1>3, <2>1, GotoType DEF CountFailure
<1>4. CASE Claim(m) \/ PromoteCandidate(m) \/ ClearFlag(m)
  BY <1>4, GotoType DEF Claim, PromoteCandidate, ClearFlag
<1>5. CASE Select(m)
  <2>1. CASE Goto(m, "round")
    BY <1>5, <2>1, GotoType DEF Select
  <2>2. ASSUME NEW i \in Candidates, mon' = [mon EXCEPT ![m].at = "promote", ![m].id = i]
        PROVE  /\ mon' \in [Monitors -> MonTypes]
               /\ mon'[m].id \in Ids
               /\ \A n \in Monitors \ {m} : mon'[n] = mon[n]
    BY <2>2 DEF MonTypes, Candidates
  <2> QED
    BY <1>5, <2>1, <2>2 DEF Select
<1> QED
  BY <1>1, <1>2, <1>3, <1>4, <1>5 DEF Monitor

LEMMA TypeStep == TypeOK /\ SetInv /\ [Next]_vars => TypeOK'
<1> SUFFICES ASSUME TypeOK, SetInv, [Next]_vars PROVE TypeOK'
  OBVIOUS
<1>0. SetTypeOK'
  BY NextIsSetStep, SetStepType
<1>1. ASSUME NEW m \in Monitors, Monitor(m)
      PROVE  TypeOK'
  <2>1. UNCHANGED <<silent, auto, changes>>
    BY <1>1 DEF Monitor, Tick, CheckHealth, CountFailure, Claim, Select, PromoteCandidate, ClearFlag
  <2> QED
    BY <1>0, <1>1, <2>1, MonitorType DEF TypeOK, MonTypes
<1>2. CASE Change \/ SetPolicy
  <2>1. changes < MaxChanges /\ changes' = changes + 1 /\ auto' \in {auto, ~auto}
    BY <1>2 DEF Change, SetPolicy
  <2>2. changes' \in 0..MaxChanges
    BY <2>1, FailoverAssumption DEF TypeOK
  <2>3. auto' \in BOOLEAN
    BY <2>1 DEF TypeOK
  <2>4. silent' \subseteq Ids /\ UNCHANGED <<failures, inProgress, mon>>
    BY <1>2 DEF Change, ManualFailover, SetPolicy, TypeOK
  <2> QED
    BY <1>0, <2>2, <2>3, <2>4 DEF TypeOK
<1>3. CASE \E i \in Ids : FallSilent(i)
  BY <1>0, <1>3 DEF FallSilent, TypeOK
<1>4. CASE UNCHANGED vars
  BY <1>0, <1>4 DEF vars, TypeOK
<1> QED
  BY <1>1, <1>2, <1>3, <1>4 DEF Next

LEMMA FlagStep == TypeOK /\ OneFailoverAtATime /\ [Next]_vars => OneFailoverAtATime'
<1> SUFFICES ASSUME TypeOK, OneFailoverAtATime, [Next]_vars PROVE OneFailoverAtATime'
  OBVIOUS
<1> USE DEF OneFailoverAtATime
<1>1. ASSUME NEW m \in Monitors, Monitor(m)
      PROVE  OneFailoverAtATime'
  <2>1. \A n \in Monitors \ {m} : mon'[n] = mon[n]
    BY <1>1, MonitorType
  <2>2. \A n \in Monitors \ {m} : InFailover(n)' = InFailover(n)
    BY <2>1 DEF InFailover
  <2>3. CASE Tick(m) \/ CountFailure(m) \/ \E i \in Ids : CheckHealth(m, i)
    <3>1. ~InFailover(m)' /\ inProgress' = inProgress
      <4>1. CASE Tick(m)
        BY <4>1 DEF Tick, InFailover, TypeOK
      <4>2. CASE CountFailure(m)
        BY <4>2, GotoType DEF CountFailure, InFailover
      <4>3. CASE \E i \in Ids : CheckHealth(m, i)
        BY <4>3 DEF CheckHealth, InFailover, TypeOK
      <4> QED
        BY <2>3, <4>1, <4>2, <4>3
    <3> QED
      BY <2>2, <3>1
  <2>4. CASE Claim(m)
    <3>1. inProgress' /\ (inProgress => ~InFailover(m)')
      BY <2>4, GotoType DEF Claim, InFailover
    <3> QED
      BY <2>2, <3>1
  <2>5. CASE Select(m) \/ PromoteCandidate(m)
    <3>1. InFailover(m)
      BY <2>5 DEF Select, PromoteCandidate, InFailover
    <3>2. inProgress' = inProgress \/ ~InFailover(m)'
      BY <2>5, GotoType DEF Select, PromoteCandidate, InFailover
    <3> QED
      BY <2>2, <3>1, <3>2
  <2>6. CASE ClearFlag(m)
    <3>1. InFailover(m) /\ ~InFailover(m)'
      BY <2>6, GotoType DEF ClearFlag, InFailover
    <3> QED
      BY <2>2, <3>1
  <2> QED
    BY <1>1, <2>3, <2>4, <2>5, <2>6 DEF Monitor
<1>2. CASE UNCHANGED <<inProgress, mon>>
  BY <1>2 DEF InFailover
<1> QED
  BY <1>1, <1>2 DEF Next, Change, SetPolicy, FallSilent, vars

-----------------------------------------------------------------------------
(* Theorems                                                                *)

FailoverInv == TypeOK /\ SetInv /\ OneFailoverAtATime

LEMMA FailoverInvariant == Spec => []FailoverInv
<1>1. Init => FailoverInv
  <2> SUFFICES ASSUME Init PROVE FailoverInv
    OBVIOUS
  <2>1. SetInv
    BY SetInitInv DEF Init
  <2>2. TypeOK
    <3>1. failures \in [Ids -> 0..Threshold] /\ changes \in 0..MaxChanges
      BY FailoverAssumption DEF Init
    <3>2. mon \in [Monitors -> MonTypes] /\ \A m \in Monitors : mon[m].at = "round"
      BY DEF Init, Waiting, MonTypes
    <3> QED
      BY <2>1, <3>1, <3>2 DEF Init, SetInv, TypeOK, MonTypes
  <2>3. OneFailoverAtATime
    BY DEF Init, Waiting, OneFailoverAtATime, InFailover
  <2> QED
    BY <2>1, <2>2, <2>3 DEF FailoverInv
<1>2. FailoverInv /\ [Next]_vars => FailoverInv'
  BY NextIsSetStep, SetStepType, SetStepPrimary, SetStepQuorum, TypeStep, FlagStep
     DEF FailoverInv, SetInv
<1> QED
  BY <1>1, <1>2, PTL DEF Spec

\* Every variable of ReplicaSet and Failover keeps its type.
THEOREM FailoverTypeOK == Spec => []TypeOK
<1>1. FailoverInv => TypeOK
  BY DEF FailoverInv
<1> QED
  BY <1>1, FailoverInvariant, PTL

\* No operation of ReplicaSet, and no promotion of a candidate that was picked
\* under an earlier lock, makes a second primary.
THEOREM NeverTwoPrimaries == Spec => []OnePrimary
<1>1. FailoverInv => OnePrimary
  BY DEF FailoverInv, SetInv
<1> QED
  BY <1>1, FailoverInvariant, PTL

\* The quorum of update_quorum_size stays a majority of the members with data
\* through promotions, which do not recompute it.
THEOREM QuorumsAreMajorities == Spec => []QuorumIsMajority
<1>1. FailoverInv => QuorumIsMajority
  BY DEF FailoverInv, SetInv
<1> QED
  BY <1>1, FailoverInvariant, PTL

\* failover_in_progress excludes a second failover, whatever number of tasks
\* start_monitoring was called for.
THEOREM FailoversExclude == Spec => []OneFailoverAtATime
<1>1. FailoverInv => OneFailoverAtATime
  BY DEF FailoverInv
<1> QED
  BY <1>1, FailoverInvariant, PTL

-----------------------------------------------------------------------------
(* The log and its sessions                                                *)

HasLast(batch) == batch # {} => \E k \in batch : \A j \in batch : j <= k

\* Every number was given to an entry, which is in the log or was truncated.
LogInv == 1..sequence \subseteq entries \cup truncated

\* While a batch is read, what it has found lies between current_sequence and
\* the key to be read next, and every key there was found, was truncated, or
\* was not appended yet.
Reads(s) ==
    LET t == task[s]
    IN  /\ t.current < t.next /\ t.next <= t.current + BatchSize
        /\ \A k \in t.got : t.current < k /\ k < t.next
        /\ \A k \in t.missed : t.current < k
        /\ \A k \in Nat : t.current < k /\ k < t.next =>
             k \in t.got \cup t.missed \cup truncated

\* A batch that waits for the channel is all behind what was sent, and
\* current_sequence is its last entry.
Waits(s) ==
    LET t == task[s]
    IN  /\ t.current \in t.got /\ \A k \in t.got : k <= t.current /\ t.start < k
        /\ \A j \in Sent(s), k \in t.got : j < k

TaskOK(s) ==
    LET t == task[s]
    IN  /\ t.at = "unborn" => t = Unborn /\ Sent(s) = {}
        /\ t.start <= t.current
        /\ t.at = "read" => Reads(s)
        /\ t.at \in {"send", "ended"} => Waits(s)
        /\ \A k \in Sent(s) : t.start < k /\ k <= t.current

\* No batch is empty, and batches, and what was received, have a last entry.
BatchOK(s) ==
    /\ HasLast(task[s].got)
    /\ HasLast(received[s])
    /\ \A n \in DOMAIN buffer[s] : buffer[s][n] # {} /\ HasLast(buffer[s][n])

OrderOK(s) ==
    /\ \A j \in received[s], k \in Buffered(s) : j < k
    /\ \A m, n \in DOMAIN buffer[s] : m < n =>
         \A j \in buffer[s][m], k \in buffer[s][n] : j < k

Explained(s, k) ==
    \/ k \in Sent(s) \cup truncated \cup overtaken[s]
    \/ task[s].at \in {"send", "ended"} /\ k \in task[s].got

GapsOK(s) == \A k \in (task[s].start + 1)..task[s].current : Explained(s, k)

SessionOK(s) == TaskOK(s) /\ BatchOK(s) /\ OrderOK(s) /\ GapsOK(s)

\* What a new session need not read: truncated, left out by a caller, or sent or
\* passed by some session.
Covered == truncated \cup skipped \cup UNION {Sent(s) \cup overtaken[s] : s \in Sessions}

SentInv == 1..checkpoint \subseteq Covered /\ \A s \in Sessions : 1..task[s].start \subseteq Covered

StreamInv == StreamTypeOK /\ LogInv /\ (\A s \in Sessions : SessionOK(s)) /\ SentInv

Tasks == [at : {"unborn", "read", "send", "checkpoint", "ended"},
          start : 0..MaxSequence, current : 0..MaxSequence,
          next : Nat, got : SUBSET Numbers, missed : SUBSET Nat, since : Nat]

-----------------------------------------------------------------------------
(* Last entries, and what a step of one session leaves alone               *)

LEMMA LastIs ==
  ASSUME NEW batch, batch # {}, HasLast(batch)
  PROVE  LastOf(batch) \in batch /\ \A j \in batch : j <= LastOf(batch)
<1>1. \E k \in batch : \A j \in batch : j <= k
  BY DEF HasLast
<1> QED
  BY <1>1 DEF LastOf

LEMMA NumbersAreNat == Numbers \subseteq Nat /\ MaxSequence \in Nat /\ BatchSize \in Nat \ {0}
BY StreamAssumption DEF Numbers

\* What has been sent is numbers of entries.
LEMMA SentTyped ==
  ASSUME StreamTypeOK, NEW s \in Sessions
  PROVE  /\ task[s] \in Tasks /\ buffer[s] \in Seq(SUBSET Numbers) /\ received[s] \in SUBSET Numbers
         /\ overtaken[s] \in SUBSET Numbers
         /\ Buffered(s) \subseteq Numbers /\ Sent(s) \subseteq Numbers
<1>1. buffer[s] \in Seq(SUBSET Numbers) /\ received[s] \in SUBSET Numbers /\ task[s] \in Tasks
      /\ overtaken[s] \in SUBSET Numbers
  BY DEF StreamTypeOK, Tasks
<1>2. \A n \in DOMAIN buffer[s] : buffer[s][n] \in SUBSET Numbers
  BY <1>1
<1> QED
  BY <1>1, <1>2 DEF Buffered, Sent

LEMMA SentStays ==
  ASSUME NEW s \in Sessions, buffer'[s] = buffer[s], received'[s] = received[s]
  PROVE  Sent(s)' = Sent(s) /\ Buffered(s)' = Buffered(s)
BY DEF Sent, Buffered

\* A session that does nothing keeps its invariant, whatever is truncated.
LEMMA Bystander ==
  ASSUME NEW s \in Sessions, SessionOK(s), task'[s] = task[s], buffer'[s] = buffer[s],
         received'[s] = received[s], overtaken[s] \subseteq overtaken'[s],
         truncated \subseteq truncated'
  PROVE  SessionOK(s)'
<1>1. Sent(s)' = Sent(s) /\ Buffered(s)' = Buffered(s)
  BY SentStays
<1>2. TaskOK(s)'
  BY <1>1 DEF SessionOK, TaskOK, Reads, Waits
<1>3. BatchOK(s)' /\ OrderOK(s)'
  BY <1>1 DEF SessionOK, BatchOK, OrderOK
<1>4. GapsOK(s)'
  BY <1>1 DEF SessionOK, GapsOK, Explained
<1> QED
  BY <1>2, <1>3, <1>4 DEF SessionOK

\* A step of the session s that appends and truncates nothing.
LEMMA OneSession ==
  ASSUME StreamInv, NEW s \in Sessions,
         \A r \in Sessions \ {s} : /\ task'[r] = task[r] /\ buffer'[r] = buffer[r]
                                   /\ received'[r] = received[r] /\ overtaken'[r] = overtaken[r],
         UNCHANGED log, skipped \subseteq skipped', StreamTypeOK', SessionOK(s)',
         Sent(s) \cup overtaken[s] \subseteq Sent(s)' \cup overtaken'[s],
         1..checkpoint' \subseteq Covered, 1..task'[s].start \subseteq Covered \cup skipped'
  PROVE  StreamInv'
<1>1. \A r \in Sessions \ {s} : SessionOK(r)'
  BY Bystander DEF StreamInv, log
<1>2. \A r \in Sessions \ {s} : Sent(r)' = Sent(r) /\ overtaken'[r] = overtaken[r]
  BY SentStays
<1>3. \A r \in Sessions : Sent(r) \cup overtaken[r] \subseteq Sent(r)' \cup overtaken'[r]
  BY <1>2
<1>4. Covered \subseteq Covered'
  BY <1>3 DEF Covered, log
<1>5. \A r \in Sessions : 1..task'[r].start \subseteq Covered \cup skipped'
  BY DEF StreamInv, SentInv
<1>6. SentInv'
  <2>1. skipped' \subseteq Covered'
    BY DEF Covered
  <2> QED
    BY <1>4, <1>5, <2>1 DEF SentInv
<1>7. LogInv'
  BY DEF StreamInv, LogInv, log
<1> QED
  BY <1>1, <1>6, <1>7 DEF StreamInv

\* A step of no session.
LEMMA NoSession ==
  ASSUME StreamInv, UNCHANGED <<task, buffer, received, overtaken>>, truncated \subseteq truncated',
         skipped \subseteq skipped', StreamTypeOK', LogInv',
         1..checkpoint' \subseteq Covered \cup skipped'
  PROVE  StreamInv'
<1>1. \A s \in Sessions : SessionOK(s)'
  BY Bystander DEF StreamInv
<1>2. \A s \in Sessions : Sent(s)' = Sent(s)
  BY SentStays
<1>3. Covered \subseteq Covered'
  BY <1>2 DEF Covered
<1>4. SentInv'
  <2>1. skipped' \subseteq Covered'
    BY DEF Covered
  <2> QED
    BY <1>3, <2>1 DEF StreamInv, SentInv
<1> QED
  BY <1>1, <1>4 DEF StreamInv

-----------------------------------------------------------------------------
(* The log and the checkpoint calls                                        *)

LEMMA InitHolds == StreamInit => StreamInv
<1> SUFFICES ASSUME StreamInit PROVE StreamInv
  OBVIOUS
<1> USE NumbersAreNat
<1>1. StreamTypeOK
  <2>1. task \in [Sessions -> Tasks]
    BY DEF StreamInit, Unborn, Tasks
  <2>2. buffer \in [Sessions -> Seq(SUBSET Numbers)]
    BY DEF StreamInit
  <2> QED
    BY <2>1, <2>2, StreamAssumption DEF StreamInit, StreamTypeOK, Tasks
<1>2. LogInv
  BY DEF StreamInit, LogInv
<1>3. \A s \in Sessions : task[s] = Unborn /\ buffer[s] = <<>> /\ received[s] = {}
  BY DEF StreamInit
<1>4. \A s \in Sessions : Sent(s) = {} /\ Buffered(s) = {}
  BY <1>3 DEF Sent, Buffered
<1>5. \A s \in Sessions : SessionOK(s)
  BY <1>3, <1>4 DEF SessionOK, TaskOK, BatchOK, OrderOK, GapsOK, Unborn, HasLast
<1>6. SentInv
  BY <1>3 DEF SentInv, Unborn, StreamInit
<1> QED
  BY <1>1, <1>2, <1>5, <1>6 DEF StreamInv

LEMMA AppendEntryKeeps == StreamInv /\ AppendEntry => StreamInv'
<1> SUFFICES ASSUME StreamInv, AppendEntry PROVE StreamInv'
  OBVIOUS
<1> USE NumbersAreNat
<1>1. StreamTypeOK'
  BY DEF StreamInv, StreamTypeOK, AppendEntry, channel
<1>2. LogInv'
  BY DEF StreamInv, StreamTypeOK, LogInv, AppendEntry
<1>3. 1..checkpoint' \subseteq Covered
  BY DEF StreamInv, SentInv, AppendEntry
<1> QED
  BY <1>1, <1>2, <1>3, NoSession DEF AppendEntry, channel

LEMMA TruncateKeeps == ASSUME NEW n PROVE StreamInv /\ Truncate(n) => StreamInv'
<1> SUFFICES ASSUME StreamInv, Truncate(n) PROVE StreamInv'
  OBVIOUS
<1>1. StreamTypeOK'
  BY NumbersAreNat, StreamAssumption DEF StreamInv, StreamTypeOK, Truncate, channel
<1>2. LogInv' /\ 1..checkpoint' \subseteq Covered
  BY DEF StreamInv, LogInv, SentInv, Truncate
<1> QED
  BY <1>1, <1>2, NoSession DEF Truncate, channel

LEMMA SweepKeeps == ASSUME NEW k PROVE StreamInv /\ Sweep(k) => StreamInv'
<1> SUFFICES ASSUME StreamInv, Sweep(k) PROVE StreamInv'
  OBVIOUS
<1>1. StreamTypeOK'
  BY DEF StreamInv, StreamTypeOK, Sweep, channel
<1>2. LogInv' /\ 1..checkpoint' \subseteq Covered
  BY DEF StreamInv, LogInv, SentInv, Sweep
<1> QED
  BY <1>1, <1>2, NoSession DEF Sweep, channel

LEMMA ClearCheckpointKeeps == StreamInv /\ ClearCheckpoint => StreamInv'
<1> SUFFICES ASSUME StreamInv, ClearCheckpoint PROVE StreamInv'
  OBVIOUS
<1>1. StreamTypeOK'
  BY NumbersAreNat, StreamAssumption DEF StreamInv, StreamTypeOK, ClearCheckpoint, log, channel
<1>2. LogInv' /\ 1..checkpoint' \subseteq Covered
  BY DEF StreamInv, LogInv, SentInv, ClearCheckpoint, log
<1> QED
  BY <1>1, <1>2, NoSession DEF ClearCheckpoint, log, channel

\* What is at or below a number is not above the checkpoint, and covered, or is
\* left out by who names the number.
LEMMA AboveRest ==
  ASSUME StreamInv, NEW n \in 0..MaxSequence
  PROVE  Above(n) \subseteq Numbers /\ 1..n \subseteq Covered \cup Above(n)
BY NumbersAreNat DEF StreamInv, StreamTypeOK, SentInv, Above, Numbers

LEMMA SetCheckpointKeeps ==
  ASSUME NEW n \in 1..MaxSequence PROVE StreamInv /\ SetCheckpoint(n) => StreamInv'
<1> SUFFICES ASSUME StreamInv, SetCheckpoint(n) PROVE StreamInv'
  OBVIOUS
<1> USE NumbersAreNat
<1>1. Above(n) \subseteq Numbers /\ 1..n \subseteq Covered \cup Above(n)
  BY AboveRest
<1>2. StreamTypeOK'
  <2>1. checkpoint' \in 0..MaxSequence /\ calls' \in 0..MaxCalls
    BY StreamAssumption DEF StreamInv, StreamTypeOK, SetCheckpoint
  <2> QED
    BY <1>1, <2>1 DEF StreamInv, StreamTypeOK, SetCheckpoint, log, channel
<1>3. LogInv'
  BY DEF StreamInv, LogInv, SetCheckpoint, log
<1>4. 1..checkpoint' \subseteq Covered \cup skipped'
  BY <1>1 DEF SetCheckpoint
<1> QED
  BY <1>2, <1>3, <1>4, NoSession DEF SetCheckpoint, log, channel

LEMMA DetachKeeps == ASSUME NEW s \in Sessions PROVE StreamInv /\ Detach(s) => StreamInv'
<1> SUFFICES ASSUME StreamInv, Detach(s) PROVE StreamInv'
  OBVIOUS
<1>1. StreamTypeOK'
  BY DEF StreamInv, StreamTypeOK, Detach, log
<1>2. LogInv' /\ 1..checkpoint' \subseteq Covered
  BY DEF StreamInv, LogInv, SentInv, Detach, log
<1> QED
  BY <1>1, <1>2, NoSession DEF Detach, log

-----------------------------------------------------------------------------
(* The steps of a session                                                  *)

LEMMA ReadingIs ==
  ASSUME NEW t \in Tasks
  PROVE  /\ Reading(t) \in Tasks
         /\ Reading(t).at = "read" /\ Reading(t).start = t.start /\ Reading(t).current = t.current
         /\ Reading(t).next = t.current + 1 /\ Reading(t).got = {} /\ Reading(t).missed = {}
<1>1. t.current + 1 \in Nat /\ t.start \in 0..MaxSequence /\ t.current \in 0..MaxSequence
      /\ t.since \in Nat
  BY NumbersAreNat DEF Tasks
<1>2. /\ Reading(t).at = "read" /\ Reading(t).start = t.start /\ Reading(t).current = t.current
      /\ Reading(t).next = t.current + 1 /\ Reading(t).got = {} /\ Reading(t).missed = {}
      /\ Reading(t).since = t.since
  BY DEF Reading, Tasks
<1>3. Reading(t) \in Tasks
  BY <1>1 DEF Reading, Tasks
<1> QED
  BY <1>2, <1>3

\* The task of a session changes to t and its channel stays: the types, and what
\* is left to show.
LEMMA TaskTypes ==
  ASSUME StreamTypeOK, NEW s \in Sessions, NEW t \in Tasks, task' = [task EXCEPT ![s] = t],
         UNCHANGED <<log, buffer, received, overtaken>>, skipped' \subseteq Numbers,
         calls' \in 0..MaxCalls, checkpoint' \in 0..MaxSequence,
         attached' \in [Sessions -> BOOLEAN]
  PROVE  StreamTypeOK' /\ task'[s] = t
<1>1. task' \in [Sessions -> Tasks] /\ task'[s] = t
  BY DEF StreamTypeOK, Tasks
<1> QED
  BY <1>1 DEF StreamTypeOK, Tasks, log

\* A session opens at a number below which everything is covered, or left out by
\* who opens it.
LEMMA OpenKeeps ==
  ASSUME StreamInv, NEW s \in Sessions, NEW start \in 0..MaxSequence, Open(s, start),
         calls' \in 0..MaxCalls, skipped \subseteq skipped', skipped' \subseteq Numbers,
         1..start \subseteq Covered \cup skipped'
  PROVE  StreamInv'
<1> USE NumbersAreNat
<1> DEFINE u == [Unborn EXCEPT !.start = start, !.current = start]
           t == Reading(u)
<1>1. start \in 0..MaxSequence
  OBVIOUS
<1>2. u \in Tasks /\ u.start = start /\ u.current = start
  BY <1>1 DEF Unborn, Tasks
<1>3. t \in Tasks /\ t.at = "read" /\ t.start = start /\ t.current = start /\ t.next = start + 1
      /\ t.got = {} /\ t.missed = {}
  BY <1>2, ReadingIs
<1>4. StreamTypeOK' /\ task'[s] = t
  <2>1. task' = [task EXCEPT ![s] = t] /\ attached' \in [Sessions -> BOOLEAN]
        /\ UNCHANGED <<log, buffer, received, overtaken>> /\ checkpoint' = checkpoint
    BY DEF Open, StreamInv, StreamTypeOK
  <2> HIDE DEF t
  <2> QED
    BY <2>1, <1>3, TaskTypes DEF StreamInv, StreamTypeOK
<1>5. Sent(s)' = Sent(s) /\ Sent(s) = {} /\ Buffered(s)' = Buffered(s)
  <2>1. buffer'[s] = buffer[s] /\ received'[s] = received[s]
    BY DEF Open
  <2>2. Sent(s) = {}
    BY DEF Open, Unborn, StreamInv, SessionOK, TaskOK
  <2> QED
    BY <2>1, <2>2, SentStays
<1> HIDE DEF t, u
<1>6. TaskOK(s)'
  BY <1>1, <1>3, <1>4, <1>5 DEF TaskOK, Reads
<1>7. BatchOK(s)' /\ OrderOK(s)'
  BY <1>3, <1>4, <1>5 DEF StreamInv, SessionOK, BatchOK, OrderOK, HasLast, Open
<1>8. GapsOK(s)'
  BY <1>1, <1>3, <1>4 DEF GapsOK
<1>9. 1..checkpoint' \subseteq Covered /\ 1..task'[s].start \subseteq Covered \cup skipped'
  BY <1>3, <1>4 DEF StreamInv, SentInv, Open
<1> QED
  BY <1>4, <1>5, <1>6, <1>7, <1>8, <1>9, OneSession DEF Open, SessionOK

LEMMA StreamFromKeeps ==
  ASSUME NEW s \in Sessions, NEW n \in 0..MaxSequence
  PROVE  StreamInv /\ StreamFrom(s, n) => StreamInv'
<1> SUFFICES ASSUME StreamInv, StreamFrom(s, n) PROVE StreamInv'
  OBVIOUS
<1>1. Above(n) \subseteq Numbers /\ 1..n \subseteq Covered \cup Above(n)
  BY AboveRest
<1>2. calls' \in 0..MaxCalls
  BY StreamAssumption DEF StreamInv, StreamTypeOK, StreamFrom
<1>3. skipped' = skipped \cup Above(n) /\ skipped \subseteq Numbers /\ Open(s, n)
  BY DEF StreamInv, StreamTypeOK, StreamFrom
<1> QED
  BY <1>1, <1>2, <1>3, OpenKeeps

LEMMA ResumeKeeps == ASSUME NEW s \in Sessions PROVE StreamInv /\ Resume(s) => StreamInv'
<1> SUFFICES ASSUME StreamInv, Resume(s) PROVE StreamInv'
  OBVIOUS
<1>1. /\ checkpoint \in 0..MaxSequence /\ Open(s, checkpoint) /\ calls' \in 0..MaxCalls
      /\ skipped' = skipped /\ skipped \subseteq Numbers
  BY DEF StreamInv, StreamTypeOK, Resume
<1>2. 1..checkpoint \subseteq Covered
  BY DEF StreamInv, SentInv
<1> QED
  BY <1>1, <1>2, OpenKeeps

LEMMA SendFailsKeeps == ASSUME NEW s \in Sessions PROVE StreamInv /\ SendFails(s) => StreamInv'
<1> SUFFICES ASSUME StreamInv, SendFails(s) PROVE StreamInv'
  OBVIOUS
<1> DEFINE t == [task[s] EXCEPT !.at = "ended"]
<1>1. task[s] \in Tasks
  BY SentTyped DEF StreamInv
<1>2. t \in Tasks /\ t.at = "ended" /\ t.start = task[s].start /\ t.current = task[s].current
      /\ t.got = task[s].got
  BY <1>1 DEF Tasks
<1>3. StreamTypeOK' /\ task'[s] = t
  <2>1. task' = [task EXCEPT ![s] = t]
    BY DEF SendFails
  <2> HIDE DEF t
  <2> QED
    BY <2>1, <1>2, TaskTypes DEF SendFails, channel, StreamInv, StreamTypeOK
<1> HIDE DEF t
<1>4. Sent(s)' = Sent(s) /\ Buffered(s)' = Buffered(s)
  BY SentStays DEF SendFails, channel
<1>5. TaskOK(s)'
  BY <1>2, <1>3, <1>4 DEF StreamInv, SessionOK, TaskOK, Waits, SendFails
<1>6. BatchOK(s)' /\ OrderOK(s)' /\ GapsOK(s)'
  BY <1>2, <1>3, <1>4 DEF StreamInv, SessionOK, BatchOK, OrderOK, GapsOK, Explained, SendFails,
                          channel, log
<1>7. 1..checkpoint' \subseteq Covered /\ 1..task'[s].start \subseteq Covered
  BY <1>2, <1>3 DEF StreamInv, SentInv, SendFails
<1> QED
  BY <1>3, <1>4, <1>5, <1>6, <1>7, OneSession DEF SendFails, SessionOK, channel

LEMMA WriteCheckpointKeeps ==
  ASSUME NEW s \in Sessions PROVE StreamInv /\ WriteCheckpoint(s) => StreamInv'
<1> SUFFICES ASSUME StreamInv, WriteCheckpoint(s) PROVE StreamInv'
  OBVIOUS
<1> USE NumbersAreNat
<1> DEFINE u == [task[s] EXCEPT !.since = 0]
           t == Reading(u)
<1>1. task[s] \in Tasks /\ task[s].current \in 0..MaxSequence /\ task[s].at = "checkpoint"
  BY SentTyped DEF StreamInv, WriteCheckpoint, Tasks
<1>2. u \in Tasks /\ u.start = task[s].start /\ u.current = task[s].current
  BY <1>1 DEF Tasks
<1>3. t \in Tasks /\ t.at = "read" /\ t.start = task[s].start /\ t.current = task[s].current
      /\ t.next = t.current + 1 /\ t.got = {} /\ t.missed = {}
  BY <1>2, ReadingIs
<1>4. StreamTypeOK' /\ task'[s] = t
  <2>1. task' = [task EXCEPT ![s] = t] /\ checkpoint' \in 0..MaxSequence
        /\ attached' \in [Sessions -> BOOLEAN]
    BY <1>1 DEF WriteCheckpoint, channel, StreamInv, StreamTypeOK
  <2> HIDE DEF t
  <2> QED
    BY <2>1, <1>3, TaskTypes DEF WriteCheckpoint, channel, StreamInv, StreamTypeOK, log
<1> HIDE DEF t, u
<1>5. Sent(s)' = Sent(s) /\ Buffered(s)' = Buffered(s)
  BY SentStays DEF WriteCheckpoint, channel
<1>6. TaskOK(s)'
  BY <1>1, <1>3, <1>4, <1>5 DEF StreamInv, SessionOK, TaskOK, Reads, Tasks
<1>7. BatchOK(s)' /\ OrderOK(s)'
  BY <1>3, <1>4, <1>5 DEF StreamInv, SessionOK, BatchOK, OrderOK, HasLast, WriteCheckpoint, channel
<1>8. \A k \in (task[s].start + 1)..task[s].current :
        k \in Sent(s) \cup truncated \cup overtaken[s]
  BY <1>1 DEF StreamInv, SessionOK, GapsOK, Explained
<1>9. GapsOK(s)'
  BY <1>3, <1>4, <1>5, <1>8 DEF GapsOK, Explained, WriteCheckpoint, channel, log
<1>10. 1..checkpoint' \subseteq Covered /\ 1..task'[s].start \subseteq Covered
  <2>1. 1..task[s].start \subseteq Covered
    BY DEF StreamInv, SentInv
  <2>2. (task[s].start + 1)..task[s].current \subseteq Covered
    BY <1>8 DEF Covered
  <2>3. 1..task[s].current \subseteq 1..task[s].start \cup (task[s].start + 1)..task[s].current
    BY <1>1 DEF Tasks
  <2>4. checkpoint' = task[s].current
    BY DEF WriteCheckpoint
  <2> QED
    BY <1>3, <1>4, <2>1, <2>2, <2>3, <2>4
<1> QED
  BY <1>4, <1>5, <1>6, <1>7, <1>9, <1>10, OneSession DEF WriteCheckpoint, SessionOK, channel

LEMMA FiniteNumbers ==
  ASSUME NEW S \in SUBSET Numbers PROVE IsFiniteSet(S) /\ Cardinality(S) \in Nat
<1>1. IsFiniteSet(Numbers)
  BY NumbersAreNat, FS_Interval DEF Numbers
<1>2. IsFiniteSet(S)
  BY <1>1, FS_Subset
<1> QED
  BY <1>2, FS_CardinalityType

\* A batch is put behind the others: what was sent grows by it, and the channel
\* stays in the order of the log.
LEMMA SentGrows ==
  ASSUME NEW s \in Sessions, StreamInv, NEW batch \in SUBSET Numbers, batch # {}, HasLast(batch),
         \A j \in Sent(s), k \in batch : j < k,
         buffer' = [buffer EXCEPT ![s] = Append(@, batch)], received' = received
  PROVE  /\ buffer' \in [Sessions -> Seq(SUBSET Numbers)]
         /\ Sent(s)' = Sent(s) \cup batch /\ OrderOK(s)'
         /\ \A n \in DOMAIN buffer'[s] : buffer'[s][n] # {} /\ HasLast(buffer'[s][n])
<1> DEFINE b == buffer[s]
<1>1. b \in Seq(SUBSET Numbers) /\ buffer \in [Sessions -> Seq(SUBSET Numbers)]
  BY DEF StreamInv, StreamTypeOK
<1>2. /\ buffer'[s] = Append(b, batch) /\ Append(b, batch) \in Seq(SUBSET Numbers)
      /\ received'[s] = received[s]
  BY <1>1
<1>3. buffer' \in [Sessions -> Seq(SUBSET Numbers)]
  BY <1>1, <1>2
<1>4. /\ DOMAIN buffer'[s] = DOMAIN b \cup {Len(b) + 1} /\ Len(b) \in Nat /\ DOMAIN b = 1..Len(b)
      /\ buffer'[s][Len(b) + 1] = batch
      /\ \A n \in DOMAIN b : buffer'[s][n] = b[n]
  BY <1>1, <1>2
<1> HIDE DEF b
<1>5. Buffered(s)' = Buffered(s) \cup batch
  BY <1>4 DEF Buffered, b
<1>6. Sent(s)' = Sent(s) \cup batch
  BY <1>2, <1>5 DEF Sent
<1>7. \A n \in DOMAIN b : b[n] \subseteq Sent(s)
  BY DEF Sent, Buffered, b
<1>8. \A m, n \in DOMAIN buffer'[s] : m < n =>
        \A j \in buffer'[s][m], k \in buffer'[s][n] : j < k
  <2> SUFFICES ASSUME NEW m \in DOMAIN buffer'[s], NEW n \in DOMAIN buffer'[s], m < n,
                      NEW j \in buffer'[s][m], NEW k \in buffer'[s][n]
               PROVE  j < k
    OBVIOUS
  <2>1. m \in DOMAIN b
    BY <1>4
  <2>2. CASE n \in DOMAIN b
    BY <1>4, <2>1, <2>2 DEF StreamInv, SessionOK, OrderOK, b
  <2>3. CASE n = Len(b) + 1
    BY <1>4, <1>7, <2>1, <2>3
  <2> QED
    BY <1>4, <2>2, <2>3
<1>9. \A j \in received[s], k \in Buffered(s)' : j < k
  <2>1. received[s] \subseteq Sent(s)
    BY DEF Sent
  <2> QED
    BY <1>5, <2>1 DEF StreamInv, SessionOK, OrderOK
<1>10. \A n \in DOMAIN buffer'[s] : buffer'[s][n] # {} /\ HasLast(buffer'[s][n])
  BY <1>4 DEF StreamInv, SessionOK, BatchOK, b
<1> QED
  BY <1>2, <1>3, <1>6, <1>8, <1>9, <1>10 DEF OrderOK

LEMMA SendKeeps == ASSUME NEW s \in Sessions PROVE StreamInv /\ Send(s) => StreamInv'
<1> SUFFICES ASSUME StreamInv, Send(s) PROVE StreamInv'
  OBVIOUS
<1> USE NumbersAreNat
<1> DEFINE batch == task[s].got
           u == [task[s] EXCEPT !.since = @ + Cardinality(batch)]
           t == IF Due(s) THEN [task[s] EXCEPT !.at = "checkpoint"] ELSE Reading(u)
<1>1. /\ task[s] \in Tasks /\ batch \in SUBSET Numbers /\ task[s].at = "send"
      /\ task[s].current \in Nat /\ task[s].start \in Nat /\ Sent(s) \subseteq Numbers
  BY SentTyped DEF StreamInv, Send, Tasks
<1>2. Waits(s)
  BY <1>1 DEF StreamInv, SessionOK, TaskOK
<1>3. /\ batch # {} /\ HasLast(batch) /\ \A j \in Sent(s), k \in batch : j < k
      /\ \A k \in batch : task[s].start < k /\ k <= task[s].current
  BY <1>2 DEF Waits, StreamInv, SessionOK, BatchOK
<1>4. u \in Tasks /\ u.start = task[s].start /\ u.current = task[s].current
  BY <1>1, FiniteNumbers DEF Tasks
<1>5. /\ t \in Tasks /\ t.at \in {"read", "checkpoint"} /\ t.start = task[s].start
      /\ t.current = task[s].current /\ (t.got = {} \/ t.got = batch)
      /\ t.at = "read" => t.next = t.current + 1 /\ t.got = {} /\ t.missed = {}
  <2>1. CASE Due(s)
    BY <1>1, <2>1 DEF Tasks
  <2>2. CASE ~Due(s)
    BY <1>4, <2>2, ReadingIs
  <2> QED
    BY <2>1, <2>2
<1>6. /\ buffer' \in [Sessions -> Seq(SUBSET Numbers)]
      /\ Sent(s)' = Sent(s) \cup batch /\ OrderOK(s)'
      /\ \A n \in DOMAIN buffer'[s] : buffer'[s][n] # {} /\ HasLast(buffer'[s][n])
  BY <1>1, <1>3, SentGrows DEF Send
<1>7. StreamTypeOK' /\ task'[s] = t
  <2>1. task' = [task EXCEPT ![s] = t]
    BY Zenon DEF Send
  <2> HIDE DEF t
  <2>2. task' \in [Sessions -> Tasks] /\ task'[s] = t
    BY <1>5, <2>1 DEF StreamInv, StreamTypeOK, Tasks
  <2> QED
    BY <1>6, <2>2 DEF StreamInv, StreamTypeOK, Tasks, Send, log
<1> HIDE DEF t, u
<1>8. TaskOK(s)'
  BY <1>1, <1>3, <1>5, <1>6, <1>7 DEF StreamInv, SessionOK, TaskOK, Reads
<1>9. BatchOK(s)'
  BY <1>3, <1>5, <1>6, <1>7 DEF StreamInv, SessionOK, BatchOK, HasLast, Send
<1>10. GapsOK(s)'
  BY <1>1, <1>5, <1>6, <1>7 DEF StreamInv, SessionOK, GapsOK, Explained, Send, log
<1>11. 1..checkpoint' \subseteq Covered /\ 1..task'[s].start \subseteq Covered
  BY <1>5, <1>7 DEF StreamInv, SentInv, Send
<1>12. \A r \in Sessions \ {s} : /\ task'[r] = task[r] /\ buffer'[r] = buffer[r]
                                  /\ received'[r] = received[r] /\ overtaken'[r] = overtaken[r]
  BY DEF Send
<1>13. UNCHANGED log /\ overtaken' = overtaken /\ skipped' = skipped
  BY DEF Send
<1>14. SessionOK(s)'
  BY <1>6, <1>8, <1>9, <1>10 DEF SessionOK
<1> QED
  BY <1>6, <1>7, <1>11, <1>12, <1>13, <1>14, OneSession

\* The first batch moves from the channel to what was received, behind which it
\* was, so that it brings the new last entry.
LEMMA ReceiveKeeps == ASSUME NEW s \in Sessions PROVE StreamInv /\ Receive(s) => StreamInv'
<1> SUFFICES ASSUME StreamInv, Receive(s) PROVE StreamInv'
  OBVIOUS
<1> USE NumbersAreNat
<1> DEFINE b == buffer[s]
           batch == Head(b)
<1>1. /\ b \in Seq(SUBSET Numbers) /\ b # <<>> /\ buffer \in [Sessions -> Seq(SUBSET Numbers)]
      /\ received \in [Sessions -> SUBSET Numbers]
      /\ buffer' = [buffer EXCEPT ![s] = Tail(@)]
      /\ received' = [received EXCEPT ![s] = @ \cup Head(b)]
  BY DEF StreamInv, StreamTypeOK, Receive
<1>2. /\ Len(b) \in Nat \ {0} /\ DOMAIN b = 1..Len(b) /\ batch = b[1] /\ batch \in SUBSET Numbers
      /\ Tail(b) \in Seq(SUBSET Numbers) /\ DOMAIN Tail(b) = 1..(Len(b) - 1)
      /\ \A n \in DOMAIN Tail(b) : Tail(b)[n] = b[n + 1] /\ n + 1 \in DOMAIN b
  BY <1>1
<1>3. buffer'[s] = Tail(b) /\ received'[s] = received[s] \cup batch
  BY <1>1
<1>4. buffer' \in [Sessions -> Seq(SUBSET Numbers)] /\ received' \in [Sessions -> SUBSET Numbers]
  <2>1. received[s] \cup batch \in SUBSET Numbers
    BY <1>1, <1>2
  <2> QED
    BY <1>1, <1>2, <2>1
<1>5. \A r \in Sessions \ {s} : /\ task'[r] = task[r] /\ buffer'[r] = buffer[r]
                                 /\ received'[r] = received[r] /\ overtaken'[r] = overtaken[r]
  BY <1>1 DEF Receive
<1>6. UNCHANGED log /\ task' = task /\ overtaken' = overtaken /\ checkpoint' = checkpoint
      /\ calls' = calls /\ attached' = attached /\ skipped' = skipped
  BY DEF Receive
<1> HIDE DEF b, batch
<1>7. StreamTypeOK'
  BY <1>4, <1>6 DEF StreamInv, StreamTypeOK, log
<1>8. /\ \A n \in DOMAIN b : b[n] # {} /\ HasLast(b[n])
      /\ \A m, n \in DOMAIN b : m < n => \A j \in b[m], k \in b[n] : j < k
      /\ \A j \in received[s], k \in Buffered(s) : j < k
      /\ HasLast(received[s])
      /\ Buffered(s) = UNION {b[n] : n \in DOMAIN b}
  BY DEF b, StreamInv, SessionOK, BatchOK, OrderOK, Buffered
<1>9. Buffered(s) = batch \cup Buffered(s)' /\ Sent(s)' = Sent(s)
  <2>1. Buffered(s)' = UNION {b[n] : n \in (DOMAIN b) \ {1}}
    <3>1. Buffered(s)' = UNION {Tail(b)[n] : n \in DOMAIN Tail(b)}
      BY <1>3 DEF Buffered
    <3>2. \A n \in (DOMAIN b) \ {1} : n - 1 \in DOMAIN Tail(b) /\ Tail(b)[n - 1] = b[n]
      BY <1>2
    <3>3. \A n \in DOMAIN Tail(b) : n + 1 \in (DOMAIN b) \ {1} /\ Tail(b)[n] = b[n + 1]
      BY <1>2
    <3> QED
      BY <3>1, <3>2, <3>3
  <2>2. 1 \in DOMAIN b
    BY <1>2
  <2>3. Buffered(s) = batch \cup Buffered(s)'
    BY <1>2, <1>8, <2>1, <2>2
  <2> QED
    BY <1>3, <2>3 DEF Sent
<1>10. OrderOK(s)'
  <2>1. \A k \in Buffered(s)' : \E n \in DOMAIN b : 1 < n /\ k \in b[n]
    <3>1. Buffered(s)' = UNION {Tail(b)[n] : n \in DOMAIN Tail(b)}
      BY <1>3 DEF Buffered
    <3>2. \A n \in DOMAIN Tail(b) : 1 < n + 1 /\ n + 1 \in DOMAIN b /\ Tail(b)[n] = b[n + 1]
      BY <1>2
    <3> QED
      BY <3>1, <3>2
  <2>2. 1 \in DOMAIN b
    BY <1>2
  <2>3. \A j \in received'[s], k \in Buffered(s)' : j < k
    BY <1>2, <1>3, <1>8, <1>9, <2>1, <2>2
  <2>4. \A m, n \in DOMAIN Tail(b) : m < n =>
          \A j \in Tail(b)[m], k \in Tail(b)[n] : j < k
    BY <1>2, <1>8
  <2> QED
    BY <1>3, <2>3, <2>4 DEF OrderOK
<1>11. BatchOK(s)'
  <2>1. 1 \in DOMAIN b
    BY <1>2
  <2>2. batch # {} /\ HasLast(batch) /\ \A j \in received[s], k \in batch : j < k
    BY <1>2, <1>8, <1>9, <2>1
  <2>3. PICK k \in batch : \A j \in batch : j <= k
    BY <2>2 DEF HasLast
  <2>4. \A j \in received[s] \cup batch : j <= k
    BY <1>1, <1>2, <2>2, <2>3
  <2>5. HasLast(received'[s])
    BY <1>3, <2>3, <2>4 DEF HasLast
  <2>6. \A n \in DOMAIN buffer'[s] : buffer'[s][n] # {} /\ HasLast(buffer'[s][n])
    BY <1>2, <1>3, <1>8
  <2> QED
    BY <1>6, <2>5, <2>6 DEF BatchOK, StreamInv, SessionOK
<1>12. TaskOK(s)' /\ GapsOK(s)'
  BY <1>6, <1>9 DEF StreamInv, SessionOK, TaskOK, Reads, Waits, GapsOK, Explained, log
<1>13. 1..checkpoint' \subseteq Covered /\ 1..task'[s].start \subseteq Covered
  BY <1>6 DEF StreamInv, SentInv
<1>14. SessionOK(s)'
  BY <1>10, <1>11, <1>12 DEF SessionOK
<1> QED
  BY <1>5, <1>6, <1>7, <1>9, <1>13, <1>14, OneSession

\* The task after a key was read, before the end of the batch is looked at.
Passed(s) ==
    LET k == task[s].next
    IN  [task[s] EXCEPT !.next = k + 1,
                        !.got = IF k \in entries THEN @ \cup {k} ELSE @,
                        !.missed = IF k > sequence THEN @ \cup {k} ELSE @]

EndOfBatch(s) == task[s].next = task[s].current + BatchSize

LEMMA ReadKeyIs ==
  ASSUME NEW s \in Sessions, StreamInv, ReadKey(s)
  PROVE  /\ task[s].at = "read"
         /\ task' = [task EXCEPT ![s] = IF EndOfBatch(s) THEN AfterBatch(Passed(s)) ELSE Passed(s)]
         /\ overtaken' = [overtaken EXCEPT ![s] =
              IF EndOfBatch(s)
              THEN @ \cup {j \in Passed(s).missed : \E g \in Passed(s).got : j < g} ELSE @]
         /\ UNCHANGED <<log, checkpoint, calls, channel, skipped>>
BY Zenon DEF ReadKey, Passed, EndOfBatch

\* A key that is not in the log was truncated, or is still to be appended.
LEMMA PassedIs ==
  ASSUME NEW s \in Sessions, StreamInv, task[s].at = "read"
  PROVE  LET t == task[s]  p == Passed(s)
         IN  /\ p \in Tasks /\ p.at = "read" /\ p.start = t.start /\ p.current = t.current
             /\ p.next = t.next + 1
             /\ \A k \in p.got : t.current < k /\ k < p.next
             /\ \A k \in p.missed : t.current < k
             /\ \A k \in Nat : t.current < k /\ k < p.next => k \in p.got \cup p.missed \cup truncated
             /\ HasLast(p.got)
<1> USE NumbersAreNat
<1> DEFINE t == task[s]
           k == t.next
           got == IF k \in entries THEN t.got \cup {k} ELSE t.got
           missed == IF k > sequence THEN t.missed \cup {k} ELSE t.missed
<1>1. t \in Tasks /\ Reads(s) /\ HasLast(t.got)
  BY SentTyped DEF StreamInv, SessionOK, TaskOK, BatchOK
<1>2. /\ t.current \in Nat /\ k \in Nat /\ t.got \in SUBSET Numbers /\ t.missed \in SUBSET Nat
      /\ t.current < k /\ (\A j \in t.got : t.current < j /\ j < k)
      /\ (\A j \in t.missed : t.current < j)
      /\ \A j \in Nat : t.current < j /\ j < k => j \in t.got \cup t.missed \cup truncated
  BY <1>1 DEF Reads, Tasks
<1>3. sequence \in 0..MaxSequence /\ entries \subseteq 1..sequence /\ 1..sequence \subseteq entries \cup truncated
  BY DEF StreamInv, StreamTypeOK, LogInv
<1>4. got \in SUBSET Numbers /\ missed \in SUBSET Nat
  BY <1>2, <1>3 DEF Numbers
<1>5. Passed(s) = [t EXCEPT !.next = k + 1, !.got = got, !.missed = missed]
  BY Zenon DEF Passed
<1>6. /\ Passed(s) \in Tasks /\ Passed(s).at = "read" /\ Passed(s).start = t.start
      /\ Passed(s).current = t.current /\ Passed(s).next = k + 1
      /\ Passed(s).got = got /\ Passed(s).missed = missed
  <2> HIDE DEF got, missed
  <2>1. k + 1 \in Nat
    BY <1>2
  <2> QED
    BY <1>1, <1>4, <1>5, <2>1 DEF Tasks
<1>7. /\ got \subseteq t.got \cup {k} /\ missed \subseteq t.missed \cup {k}
      /\ (\A j \in got : t.current < j /\ j < k + 1) /\ \A j \in missed : t.current < j
  <2>1. got \subseteq t.got \cup {k} /\ missed \subseteq t.missed \cup {k}
    OBVIOUS
  <2> HIDE DEF got, missed
  <2>2. \A j \in got : t.current < j /\ j < k + 1
    BY <1>2, <1>4, <2>1 DEF Numbers
  <2>3. \A j \in missed : t.current < j
    BY <1>2, <2>1
  <2> QED
    BY <2>1, <2>2, <2>3
<1>8. ASSUME NEW j \in Nat, t.current < j, j < k + 1
      PROVE  j \in got \cup missed \cup truncated
  <2>1. CASE j = k
    BY <1>2, <1>3, <2>1
  <2>2. CASE j # k
    BY <1>2, <1>8, <2>2
  <2> QED
    BY <2>1, <2>2
<1>9. HasLast(got)
  <2>1. CASE k \in entries
    <3>1. k \in got
      BY <2>1
    <3> HIDE DEF got
    <3>2. \A j \in got : j <= k
      BY <1>2, <1>4, <1>7 DEF Numbers
    <3> QED
      BY <3>1, <3>2 DEF HasLast
  <2>2. CASE k \notin entries
    BY <1>1, <2>2
  <2> QED
    BY <2>1, <2>2
<1> QED
  BY <1>6, <1>7, <1>8, <1>9

LEMMA AfterBatchIs ==
  ASSUME NEW p \in Tasks, p.got # {}, HasLast(p.got)
  PROVE  LET t == AfterBatch(p)
         IN  /\ t \in Tasks /\ t.at = "send" /\ t.start = p.start /\ t.got = p.got
             /\ t.current \in p.got /\ \A j \in p.got : j <= t.current
<1> USE NumbersAreNat
<1> DEFINE last == LastOf(p.got)
<1>1. last \in p.got /\ \A j \in p.got : j <= last
  BY LastIs
<1>2. AfterBatch(p) = [p EXCEPT !.at = "send", !.current = last, !.next = 0, !.missed = {}]
  BY DEF AfterBatch
<1>3. last \in 0..MaxSequence
  BY <1>1 DEF Tasks, Numbers
<1> HIDE DEF last
<1>4. /\ AfterBatch(p).at = "send" /\ AfterBatch(p).start = p.start /\ AfterBatch(p).got = p.got
      /\ AfterBatch(p).current = last
  BY <1>2 DEF Tasks
<1>5. p.start \in 0..MaxSequence /\ p.got \in SUBSET Numbers /\ p.since \in Nat /\ 0 \in Nat
  BY DEF Tasks
<1>6. AfterBatch(p) \in Tasks
  BY <1>2, <1>3, <1>5 DEF Tasks
<1> QED
  BY <1>1, <1>4, <1>6

LEMMA ReadKeyKeeps == ASSUME NEW s \in Sessions PROVE StreamInv /\ ReadKey(s) => StreamInv'
<1> SUFFICES ASSUME StreamInv, ReadKey(s) PROVE StreamInv'
  OBVIOUS
<1> USE NumbersAreNat
<1> DEFINE p == Passed(s)
           t == IF EndOfBatch(s) THEN AfterBatch(p) ELSE p
           new == IF EndOfBatch(s) THEN {j \in p.missed : \E g \in p.got : j < g} ELSE {}
<1>1. /\ task[s].at = "read" /\ task' = [task EXCEPT ![s] = t]
      /\ overtaken' = [overtaken EXCEPT ![s] = @ \cup new]
      /\ UNCHANGED <<log, checkpoint, calls, channel, skipped>>
  BY ReadKeyIs
<1>2. /\ task[s] \in Tasks /\ task[s].current \in Nat /\ task[s].start \in Nat
      /\ task[s].start <= task[s].current /\ Sent(s) \subseteq Numbers
      /\ (\A j \in Sent(s) : task[s].start < j /\ j <= task[s].current)
      /\ task[s].next <= task[s].current + BatchSize /\ task[s].next \in Nat
      /\ task[s].current < task[s].next
      /\ task \in [Sessions -> Tasks] /\ overtaken \in [Sessions -> SUBSET Numbers]
  <2>1. /\ task[s] \in Tasks /\ Sent(s) \subseteq Numbers
        /\ task \in [Sessions -> Tasks] /\ overtaken \in [Sessions -> SUBSET Numbers]
    BY SentTyped DEF StreamInv, StreamTypeOK, Tasks
  <2>2. TaskOK(s) /\ Reads(s)
    BY <1>1 DEF StreamInv, SessionOK, TaskOK
  <2>3. task[s].current \in Nat /\ task[s].start \in Nat /\ task[s].next \in Nat
    BY <2>1 DEF Tasks
  <2> QED
    BY <2>1, <2>2, <2>3 DEF TaskOK, Reads
<1>3. /\ p \in Tasks /\ p.at = "read" /\ p.start = task[s].start /\ p.current = task[s].current
      /\ p.next = task[s].next + 1 /\ p.got \in SUBSET Numbers /\ p.missed \in SUBSET Nat
      /\ \A k \in p.got : task[s].current < k /\ k < p.next
      /\ \A k \in p.missed : task[s].current < k
      /\ \A k \in Nat : task[s].current < k /\ k < p.next => k \in p.got \cup p.missed \cup truncated
      /\ HasLast(p.got)
  BY <1>1, PassedIs DEF Tasks
<1> HIDE DEF p
<1>4. new \in SUBSET Numbers
  BY <1>2, <1>3 DEF Numbers
<1>5. t \in Tasks /\ t.start = task[s].start /\ HasLast(t.got) /\ t.at \in {"read", "send"}
      /\ t.current \in Nat
  <2>1. CASE ~EndOfBatch(s)
    BY <1>2, <1>3, <2>1
  <2>2. CASE EndOfBatch(s) /\ p.got = {}
    <3>1. t = Reading(p)
      BY <2>2 DEF AfterBatch
    <3> QED
      BY <1>2, <1>3, <3>1, ReadingIs DEF HasLast
  <2>3. CASE EndOfBatch(s) /\ p.got # {}
    BY <1>3, <2>3, AfterBatchIs DEF Tasks
  <2> QED
    BY <2>1, <2>2, <2>3
<1>6. task'[s] = t /\ overtaken'[s] = overtaken[s] \cup new
  BY <1>1, <1>2
<1>7. StreamTypeOK'
  <2> HIDE DEF t, new
  <2>1. task' \in [Sessions -> Tasks] /\ overtaken' \in [Sessions -> SUBSET Numbers]
    BY <1>1, <1>2, <1>4, <1>5
  <2> QED
    BY <1>1, <2>1 DEF StreamInv, StreamTypeOK, Tasks, log, channel
<1>8. Sent(s)' = Sent(s) /\ Buffered(s)' = Buffered(s)
  BY <1>1, SentStays DEF channel
<1>9. TaskOK(s)' /\ GapsOK(s)'
  <2>1. \A k \in (task[s].start + 1)..task[s].current : k \in Sent(s) \cup truncated \cup overtaken[s]
    BY <1>1 DEF StreamInv, SessionOK, GapsOK, Explained
  <2>2. CASE ~EndOfBatch(s)
    <3>1. t = p /\ p.next <= p.current + BatchSize
      BY <1>2, <1>3, <2>2 DEF EndOfBatch
    <3>2. Reads(s)'
      BY <1>1, <1>2, <1>3, <1>6, <3>1 DEF Reads, log
    <3>3. TaskOK(s)'
      BY <1>2, <1>3, <1>6, <1>8, <3>1, <3>2 DEF TaskOK
    <3>4. GapsOK(s)'
      BY <1>1, <1>3, <1>6, <1>8, <2>1, <3>1 DEF GapsOK, Explained, log
    <3> QED
      BY <3>3, <3>4
  <2>3. CASE EndOfBatch(s) /\ p.got = {}
    <3>1. t = Reading(p)
      BY <2>3 DEF AfterBatch
    <3>2. t.at = "read" /\ t.current = task[s].current /\ t.next = t.current + 1 /\ t.got = {}
          /\ t.missed = {} /\ t.start = task[s].start
      BY <1>3, <3>1, ReadingIs
    <3> HIDE DEF t
    <3>3. Reads(s)'
      BY <1>2, <1>6, <3>2 DEF Reads
    <3>4. TaskOK(s)'
      BY <1>2, <1>6, <1>8, <3>2, <3>3 DEF TaskOK
    <3>5. GapsOK(s)'
      BY <1>1, <1>6, <1>8, <2>1, <3>2 DEF GapsOK, Explained, log
    <3> QED
      BY <3>4, <3>5
  <2>4. CASE EndOfBatch(s) /\ p.got # {}
    <3>1. t.at = "send" /\ t.got = p.got /\ t.current \in p.got /\ \A j \in p.got : j <= t.current
      BY <1>3, <2>4, AfterBatchIs
    <3>2. t.current < p.next /\ task[s].current < t.current /\ new = {j \in p.missed : \E g \in p.got : j < g}
      BY <1>3, <2>4, <3>1
    <3> HIDE DEF t, new
    <3>3. Waits(s)'
      BY <1>2, <1>3, <1>5, <1>6, <1>8, <3>1 DEF Waits, Numbers
    <3>4. TaskOK(s)'
      <4>1. t.start <= t.current
        BY <1>2, <1>5, <3>2
      <4>2. \A j \in Sent(s) : t.start < j /\ j <= t.current
        BY <1>2, <1>5, <3>2 DEF Numbers
      <4> QED
        BY <1>6, <1>8, <3>1, <3>3, <4>1, <4>2 DEF TaskOK
    <3>5. ASSUME NEW k \in (t.start + 1)..t.current
          PROVE  k \in Sent(s) \cup truncated \cup overtaken[s] \cup new \cup p.got
      <4>1. CASE k <= task[s].current
        BY <1>2, <1>5, <2>1, <4>1
      <4>2. CASE ~(k <= task[s].current)
        <5>1. k \in Nat /\ task[s].current < k /\ k <= t.current
          BY <1>2, <1>5, <4>2
        <5>2. k \in p.got \cup p.missed \cup truncated
          BY <1>2, <1>3, <1>5, <3>2, <5>1
        <5>3. CASE k \in p.missed
          <6>1. k = t.current \/ k < t.current
            BY <1>5, <5>1
          <6> QED
            BY <3>1, <3>2, <5>3, <6>1
        <5> QED
          BY <5>2, <5>3
      <4> QED
        BY <4>1, <4>2
    <3>6. GapsOK(s)'
      BY <1>1, <1>6, <1>8, <3>1, <3>5 DEF GapsOK, Explained, log
    <3> QED
      BY <3>4, <3>6
  <2> QED
    BY <2>2, <2>3, <2>4
<1> HIDE DEF t, new
<1>10. BatchOK(s)' /\ OrderOK(s)'
  BY <1>1, <1>5, <1>6, <1>8 DEF StreamInv, SessionOK, BatchOK, OrderOK, channel
<1>11. 1..checkpoint' \subseteq Covered /\ 1..task'[s].start \subseteq Covered
  BY <1>1, <1>5, <1>6 DEF StreamInv, SentInv
<1>12. \A r \in Sessions \ {s} : /\ task'[r] = task[r] /\ buffer'[r] = buffer[r]
                                  /\ received'[r] = received[r] /\ overtaken'[r] = overtaken[r]
  BY <1>1, <1>2 DEF channel
<1>13. SessionOK(s)' /\ Sent(s) \cup overtaken[s] \subseteq Sent(s)' \cup overtaken'[s]
  BY <1>6, <1>8, <1>9, <1>10 DEF SessionOK
<1>14. UNCHANGED log /\ skipped' = skipped
  BY <1>1
<1> QED
  BY <1>7, <1>11, <1>12, <1>13, <1>14, OneSession

-----------------------------------------------------------------------------
(* The theorems                                                            *)

LEMMA StreamInvariant == StreamSpec => []StreamInv
<1>1. StreamInv /\ [StreamNext]_streamVars => StreamInv'
  <2> SUFFICES ASSUME StreamInv, [StreamNext]_streamVars PROVE StreamInv'
    OBVIOUS
  <2>1. CASE AppendEntry
    BY <2>1, AppendEntryKeeps
  <2>2. CASE \E n \in 1..(sequence + 1) : Truncate(n)
    BY <2>2, TruncateKeeps
  <2>3. CASE \E k \in 1..MaxSequence : Sweep(k)
    BY <2>3, SweepKeeps
  <2>4. CASE \E s \in Sessions : (\E n \in 0..MaxSequence : StreamFrom(s, n)) \/ Resume(s)
    BY <2>4, StreamFromKeeps, ResumeKeeps
  <2>5. CASE \E s \in Sessions : Task(s)
    BY <2>5, ReadKeyKeeps, SendKeeps, SendFailsKeeps, WriteCheckpointKeeps DEF Task
  <2>6. CASE \E s \in Sessions : Receive(s) \/ Detach(s)
    BY <2>6, ReceiveKeeps, DetachKeeps
  <2>7. CASE ClearCheckpoint \/ \E n \in 1..MaxSequence : SetCheckpoint(n)
    BY <2>7, ClearCheckpointKeeps, SetCheckpointKeeps
  <2>8. CASE UNCHANGED streamVars
    <3>1. StreamTypeOK' /\ LogInv' /\ 1..checkpoint' \subseteq Covered
      BY <2>8 DEF streamVars, StreamInv, StreamTypeOK, LogInv, SentInv
    <3> QED
      BY <2>8, <3>1, NoSession DEF streamVars
  <2> QED
    BY <2>1, <2>2, <2>3, <2>4, <2>5, <2>6, <2>7, <2>8 DEF StreamNext
<1> QED
  BY <1>1, InitHolds, PTL DEF StreamSpec

\* Every variable of the log, its stream and its sessions keeps its type.
THEOREM StreamTyped == StreamSpec => []StreamTypeOK
<1>1. StreamInv => StreamTypeOK
  BY DEF StreamInv
<1> QED
  BY <1>1, StreamInvariant, PTL

\* A session sends nothing twice and nothing late (stream_from reads on behind
\* the last entry it found), however many sessions, calls and entries there are.
THEOREM SessionsInLogOrder == StreamSpec => []InLogOrder
<1>1. StreamInv => InLogOrder
  BY DEF StreamInv, SessionOK, TaskOK, OrderOK, InLogOrder
<1> QED
  BY <1>1, StreamInvariant, PTL

\* What a session leaves out was truncated, or was appended between two reads
\* of one batch (get_range holds no lock over the batch).
THEOREM SessionGapsExplained == StreamSpec => []GapsExplained
<1>1. StreamInv => GapsExplained
  BY DEF StreamInv, SessionOK, GapsOK, Explained, GapsExplained
<1> QED
  BY <1>1, StreamInvariant, PTL

\* Resuming at the checkpoint (resume) skips only what some session has sent, what
\* was truncated and what was overtaken, whichever task wrote the checkpoint, and
\* what a caller of stream_from or set_checkpoint chose to leave out.
THEOREM CheckpointCovers == StreamSpec => []CheckpointWasSent
<1>1. StreamInv => CheckpointWasSent
  BY DEF StreamInv, SentInv, Covered, CheckpointWasSent
<1> QED
  BY <1>1, StreamInvariant, PTL

=============================================================================
