------------------------------ MODULE Failover ------------------------------
(***************************************************************************)
(* FailoverManager of crates/ruvector-replication over a ReplicaSet.       *)
(*                                                                         *)
(* start_monitoring spawns a task (Monitors; nothing stops a second call). *)
(* Each round it lists the replicas, and for every one of them reads its   *)
(* health, counts failures, and perhaps triggers a failover: it claims a   *)
(* flag, picks a candidate under the read lock, promotes it under the      *)
(* write lock and gives the flag up.  Every lock it takes is an action.    *)
(* Meanwhile the program adds, removes, promotes and demotes replicas.     *)
(***************************************************************************)
EXTENDS ReplicaSet

CONSTANTS
    Monitors,
    Threshold,      \* failure_threshold
    MaxChanges      \* bound: changes the program makes to the set

ASSUME FailoverAssumption ==
    /\ Threshold \in Nat
    /\ MaxChanges \in Nat

VARIABLES
    silent,         \* members whose last heartbeat is older than the timeout
    auto,           \* auto_failover
    failures,       \* failure_counts, kept up to Threshold
    inProgress,     \* failover_in_progress
    mon,            \* where each monitoring task is
    changes         \* bound: changes made so far

vars == <<set, silent, auto, failures, inProgress, mon, changes>>

Waiting == [at |-> "round", todo |-> {}, id |-> None, failed |-> FALSE]

Init ==
    /\ SetInit
    /\ silent = {}
    /\ auto = TRUE
    /\ failures = [i \in Ids |-> 0]
    /\ inProgress = FALSE
    /\ mon = [m \in Monitors |-> Waiting]
    /\ changes = 0

\* On, with nothing kept but the rest of the round.
Goto(m, at) ==
    mon' = [mon EXCEPT ![m] = [Waiting EXCEPT !.at = at, !.todo = mon[m].todo]]

-----------------------------------------------------------------------------
(* The monitoring task                                                     *)

Tick(m) ==
    /\ mon[m].at = "round" /\ mon[m].todo = {}
    /\ Members # {}
    /\ mon' = [mon EXCEPT ![m].todo = Members]
    /\ UNCHANGED <<set, silent, auto, failures, inProgress, changes>>

\* Mutant: silence is not noticed.
CheckHealthDeaf(m, i) ==
    /\ mon[m].at = "round" /\ i \in mon[m].todo
    /\ mon' = [mon EXCEPT ![m] = [at |-> "count", todo |-> @.todo \ {i}, id |-> i,
                                  failed |-> i \notin Members]]
    /\ UNCHANGED <<set, silent, auto, failures, inProgress, changes>>

\* check_replica_health: a replica that is gone has failed, too.
CheckHealth(m, i) ==
    /\ mon[m].at = "round" /\ i \in mon[m].todo
    /\ mon' = [mon EXCEPT ![m] = [at |-> "count", todo |-> @.todo \ {i}, id |-> i,
                                  failed |-> i \notin Members \/ i \in silent]]
    /\ UNCHANGED <<set, silent, auto, failures, inProgress, changes>>

\* The count is not reset by a failover, nor when the replica leaves.
CountFailure(m) ==
    LET i == mon[m].id
        n == IF ~mon[m].failed THEN 0
             ELSE IF failures[i] < Threshold THEN failures[i] + 1 ELSE failures[i]
    IN  /\ mon[m].at = "count"
        /\ failures' = [failures EXCEPT ![i] = n]
        /\ Goto(m, IF mon[m].failed /\ n >= Threshold /\ auto THEN "claim" ELSE "round")
        /\ UNCHANGED <<set, silent, auto, inProgress, changes>>

\* Mutant: the flag is not looked at.
ClaimAlways(m) ==
    /\ mon[m].at = "claim"
    /\ inProgress' = TRUE
    /\ Goto(m, "select")
    /\ UNCHANGED <<set, silent, auto, failures, changes>>

\* trigger_failover begins, or returns because one is in progress.
Claim(m) ==
    /\ mon[m].at = "claim"
    /\ inProgress' = TRUE
    /\ Goto(m, IF inProgress THEN "round" ELSE "select")
    /\ UNCHANGED <<set, silent, auto, failures, changes>>

\* select_failover_candidate: all members are equally healthy and preferred.
Candidates == {i \in Ids : role[i] = "secondary"}

\* Without a quorum the flag is given up; without a candidate the error is
\* returned at once, and the flag stays.
Select(m) ==
    /\ mon[m].at = "select"
    /\ \/ ~HasQuorum /\ inProgress' = FALSE /\ Goto(m, "round")
       \/ HasQuorum /\ Candidates = {} /\ Goto(m, "round") /\ UNCHANGED inProgress
       \/ /\ HasQuorum /\ UNCHANGED inProgress
          /\ \E i \in Candidates :
               mon' = [mon EXCEPT ![m].at = "promote", ![m].id = i]
    /\ UNCHANGED <<set, silent, auto, failures, changes>>

\* Mutant: the primary so far is not demoted.
PromoteBeside(m) ==
    /\ mon[m].at = "promote"
    /\ IF CanPromote(mon[m].id)
       THEN /\ role' = [role EXCEPT ![mon[m].id] = "primary"]
            /\ primary' = mon[m].id
            /\ UNCHANGED <<quorum, overwritten, chosen>>
       ELSE UNCHANGED set
    /\ Goto(m, "clear")
    /\ UNCHANGED <<silent, auto, failures, inProgress, changes>>

\* The candidate may have left or become a witness since it was selected: then
\* the promotion fails and nothing changes.
PromoteCandidate(m) ==
    /\ mon[m].at = "promote"
    /\ IF CanPromote(mon[m].id) THEN Promote(mon[m].id) ELSE UNCHANGED set
    /\ Goto(m, "clear")
    /\ UNCHANGED <<silent, auto, failures, inProgress, changes>>

ClearFlag(m) ==
    /\ mon[m].at = "clear"
    /\ inProgress' = FALSE
    /\ Goto(m, "round")
    /\ UNCHANGED <<set, silent, auto, failures, changes>>

Monitor(m) ==
    \/ Tick(m)
    \/ \E i \in Ids : CheckHealth(m, i)
    \/ CountFailure(m)
    \/ Claim(m)
    \/ Select(m)
    \/ PromoteCandidate(m)
    \/ ClearFlag(m)

-----------------------------------------------------------------------------
(* The program around it                                                   *)

\* manual_failover holds the write lock from the quorum check to the promotion
\* and looks neither at the flag nor at the health of a named target.
ManualFailover(i) ==
    /\ HasQuorum /\ CanPromote(i)
    /\ Promote(i)
    /\ UNCHANGED silent

Change ==
    /\ changes < MaxChanges
    /\ changes' = changes + 1
    /\ \/ \E i \in Ids, r \in Roles : AddReplica(i, r) /\ silent' = silent \ {i}
       \/ \E i \in Ids : RemoveReplica(i) /\ silent' = silent \ {i}
       \/ \E i \in Ids : ManualFailover(i)
       \/ \E i \in Ids : Demote(i) /\ UNCHANGED silent
       \/ \E n \in 1..Cardinality(Ids) : SetQuorumSize(n) /\ UNCHANGED silent
    /\ UNCHANGED <<auto, failures, inProgress, mon>>

SetPolicy ==
    /\ changes < MaxChanges
    /\ changes' = changes + 1
    /\ auto' = ~auto
    /\ UNCHANGED <<set, silent, failures, inProgress, mon>>

\* The timeout of a member passes; nothing renews a heartbeat in the set.
FallSilent(i) ==
    /\ i \in Members \ silent
    /\ silent' = silent \cup {i}
    /\ UNCHANGED <<set, auto, failures, inProgress, mon, changes>>

Next ==
    \/ \E m \in Monitors : Monitor(m)
    \/ Change
    \/ SetPolicy
    \/ \E i \in Ids : FallSilent(i)

Spec == Init /\ [][Next]_vars

\* The interval keeps ticking and the runtime keeps polling the tasks.
FairSpec == Spec /\ \A m \in Monitors : WF_vars(Monitor(m))

-----------------------------------------------------------------------------
(* Properties                                                              *)

InFailover(m) == mon[m].at \in {"select", "promote", "clear"}

\* Every variable has its type.
TypeOK ==
    /\ SetTypeOK
    /\ silent \subseteq Ids
    /\ auto \in BOOLEAN
    /\ failures \in [Ids -> 0..Threshold]
    /\ inProgress \in BOOLEAN
    /\ mon \in [Monitors ->
                  [at : {"round", "count", "claim", "select", "promote", "clear"},
                   todo : SUBSET Ids, id : Ids \cup {None}, failed : BOOLEAN]]
    /\ \A m \in Monitors : mon[m].at \in {"count", "promote"} => mon[m].id \in Ids
    /\ changes \in 0..MaxChanges

\* At most one task is between claiming the flag and giving it up, and the flag
\* is up all that time: manual failovers and failed selections included.
OneFailoverAtATime ==
    /\ \A m \in Monitors : InFailover(m) => inProgress
    /\ \A m, n \in Monitors : InFailover(m) /\ InFailover(n) => m = n

\* "Whether failover is in progress" (failover.rs:118) is no longer true of the
\* flag: a selection without a candidate left it up, no task takes it down any
\* more, and automatic failover is over.
FlagAbandoned == inProgress /\ \A m \in Monitors : ~InFailover(m)

\* A set with a quorum and a silent secondary gets a primary, unless the
\* secondary goes or is heard of again, the quorum is lost, the policy is
\* changed, or the flag was left up by a failover that found no candidate.
PrimaryAppears ==
    \A i \in Ids :
        i \in silent /\ role[i] = "secondary" /\ HasQuorum ~>
            \/ \E j \in Ids : role[j] = "primary"
            \/ i \notin silent \/ role[i] # "secondary"
            \/ ~HasQuorum \/ ~auto \/ FlagAbandoned

=============================================================================
