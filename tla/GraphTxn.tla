------------------------------ MODULE GraphTxn ------------------------------
(***************************************************************************)
(* TransactionManager of crates/ruvector-graph: multi-version transactions *)
(* over nodes, edges and hyperedges.                                       *)
(*                                                                         *)
(* A transaction buffers its writes and deletes.  commit reads the clock   *)
(* once and then goes through the buffer key by key; every key's version   *)
(* list is locked on its own, so other threads begin, read and commit in   *)
(* between.  A read takes the buffered value, else goes through the key's  *)
(* versions from the newest pushed to the oldest.  There is no conflict    *)
(* detection and no clean-up, and the isolation level is never looked at.  *)
(***************************************************************************)
EXTENDS Naturals, Sequences

CONSTANTS
    Txns,                       \* Transaction handles
    Managers,                   \* TransactionManager and its clones
    Nodes, Edges, Hyperedges,   \* ids
    Values,
    MaxTime,                    \* bound: readings of the clock
    MayWrite,                   \* the ids each transaction writes or deletes
    None

Keys == Nodes \cup Edges \cup Hyperedges

Readable == Nodes \cup Edges

ASSUME GraphTxnAssumption ==
    /\ Nodes \cap Edges = {} /\ Readable \cap Hyperedges = {}
    /\ MaxTime \in Nat \ {0}
    /\ MayWrite \in [Txns -> SUBSET Keys]
    /\ None \notin Values /\ None \notin Managers

VARIABLES
    clock,      \* now(), in microseconds: many calls read the same
    next,       \* next_txn_id of every manager; 0 while it does not exist
    active,     \* ids in active_txns
    committed,  \* ids in committed_txns
    versions,   \* node_versions, edge_versions and hyperedge_versions
    txn         \* the transactions

vars == <<clock, next, active, committed, versions, txn>>

Times == 1..MaxTime

-----------------------------------------------------------------------------

Unborn == [at |-> "unborn", id |-> 0, time |-> 0,
           put |-> [k \in Keys |-> None], del |-> {}, todo |-> {}]

Init ==
    /\ clock = 1
    /\ \E m \in Managers : next = [n \in Managers |-> IF n = m THEN 1 ELSE 0]
    /\ active = {}
    /\ committed = {}
    /\ versions = [k \in Keys |-> <<>>]
    /\ txn = [t \in Txns |-> Unborn]

At(t, label) == txn[t].at = label

\* The system clock moves; that it may be set back is left out.
Tick ==
    /\ clock' \in {n \in Times : n > clock}
    /\ UNCHANGED <<next, active, committed, versions, txn>>

\* Clone copies the counter and shares the maps.
CloneManager(m, n) ==
    /\ next[m] # 0 /\ next[n] = 0
    /\ next' = [next EXCEPT ![n] = next[m]]
    /\ UNCHANGED <<clock, active, committed, versions, txn>>

\* begin: time is start_time.
Begin(t, m) ==
    /\ At(t, "unborn") /\ next[m] # 0
    /\ next' = [next EXCEPT ![m] = @ + 1]
    /\ active' = active \cup {next[m]}
    /\ txn' = [txn EXCEPT ![t].at = "active", ![t].id = next[m], ![t].time = clock]
    /\ UNCHANGED <<clock, committed, versions>>

\* write_node, write_edge and write_hyperedge.  An id that the transaction has
\* deleted stays deleted.
Write(t, k, v) ==
    /\ At(t, "active") /\ k \in MayWrite[t]
    /\ txn' = [txn EXCEPT ![t].put[k] = v]
    /\ UNCHANGED <<clock, next, active, committed, versions>>

\* delete_node and delete_edge; the id need not exist.
Delete(t, k) ==
    /\ At(t, "active") /\ k \in MayWrite[t] /\ k \in Readable
    /\ txn' = [txn EXCEPT ![t].del = @ \cup {k}]
    /\ UNCHANGED <<clock, next, active, committed, versions>>

-----------------------------------------------------------------------------
(* commit                                                                  *)

PutStage(k) == IF k \in Nodes THEN 1 ELSE IF k \in Edges THEN 2 ELSE 3

DeleteStage(k) == IF k \in Nodes THEN 4 ELSE 5

\* The loops of commit, in the order of the code; each loop takes the ids of a
\* hash table in any order.
Plan(t) ==
    {[stage |-> PutStage(k), key |-> k] : k \in {j \in Keys : txn[t].put[j] # None}}
        \cup {[stage |-> DeleteStage(k), key |-> k] : k \in txn[t].del}

\* commit reads the clock: from here on time is commit_time.
CommitStart(t) ==
    /\ At(t, "active")
    /\ txn' = [txn EXCEPT ![t].at = "commit", ![t].time = clock, ![t].todo = Plan(t)]
    /\ UNCHANGED <<clock, next, active, committed, versions>>

Turn(t, s) ==
    /\ At(t, "commit") /\ s \in txn[t].todo
    /\ \A r \in txn[t].todo : s.stage <= r.stage

NewVersion(t, k) ==
    [value |-> txn[t].put[k], by |-> txn[t].id, created |-> txn[t].time, deleted |-> 0]

\* Mutant: a version that nobody can see any more is reused.
CommitPutReuses(t, s) ==
    /\ Turn(t, s) /\ s.stage <= 3
    /\ versions' = [versions EXCEPT ![s.key] =
         IF @ # <<>> /\ @[Len(@)].deleted # 0
         THEN [@ EXCEPT ![Len(@)] = NewVersion(t, s.key)]
         ELSE Append(@, NewVersion(t, s.key))]
    /\ txn' = [txn EXCEPT ![t].todo = @ \ {s}]
    /\ UNCHANGED <<clock, next, active, committed>>

\* One buffered write: a version is pushed.
CommitPut(t, s) ==
    /\ Turn(t, s) /\ s.stage <= 3
    /\ versions' = [versions EXCEPT ![s.key] = Append(@, NewVersion(t, s.key))]
    /\ txn' = [txn EXCEPT ![t].todo = @ \ {s}]
    /\ UNCHANGED <<clock, next, active, committed>>

\* One buffered delete: the last version is marked, deleted or not.
MarkDeleted(vs, time) ==
    IF vs = <<>> THEN vs ELSE [vs EXCEPT ![Len(vs)].deleted = time]

CommitDelete(t, s) ==
    /\ Turn(t, s) /\ s.stage > 3
    /\ versions' = [versions EXCEPT ![s.key] = MarkDeleted(@, txn[t].time)]
    /\ txn' = [txn EXCEPT ![t].todo = @ \ {s}]
    /\ UNCHANGED <<clock, next, active, committed>>

CommitEnd(t) ==
    /\ At(t, "commit") /\ txn[t].todo = {}
    /\ txn' = [txn EXCEPT ![t].at = "committed"]
    /\ active' = active \ {txn[t].id}
    /\ committed' = committed \cup {txn[t].id}
    /\ UNCHANGED <<clock, next, versions>>

\* The handle is gone, and its buffer with it.
Aborted(t) == [Unborn EXCEPT !.at = "aborted", !.id = txn[t].id]

\* Mutant: what was buffered is flushed.
RollbackFlushes(t) ==
    /\ At(t, "active")
    /\ txn' = [txn EXCEPT ![t] = Aborted(t)]
    /\ active' = active \ {txn[t].id}
    /\ versions' = [k \in Keys |->
         IF txn[t].put[k] # None THEN Append(versions[k], NewVersion(t, k))
         ELSE versions[k]]
    /\ UNCHANGED <<clock, next, committed>>

\* rollback.
Rollback(t) ==
    /\ At(t, "active")
    /\ txn' = [txn EXCEPT ![t] = Aborted(t)]
    /\ active' = active \ {txn[t].id}
    /\ UNCHANGED <<clock, next, committed, versions>>

\* The handle is dropped with neither: active_txns keeps its entry.
Abandon(t) ==
    /\ At(t, "active")
    /\ txn' = [txn EXCEPT ![t] = Aborted(t)]
    /\ UNCHANGED <<clock, next, active, committed, versions>>

Next ==
    \/ Tick
    \/ \E m, n \in Managers : CloneManager(m, n)
    \/ \E t \in Txns :
         \/ \E m \in Managers : Begin(t, m)
         \/ \E k \in Keys, v \in Values : Write(t, k, v)
         \/ \E k \in Keys : Delete(t, k)
         \/ CommitStart(t)
         \/ \E s \in txn[t].todo : CommitPut(t, s) \/ CommitDelete(t, s)
         \/ CommitEnd(t)
         \/ Rollback(t)
         \/ Abandon(t)

Spec == Init /\ [][Next]_vars

-----------------------------------------------------------------------------
(* Reads                                                                   *)

\* Mutant: the newest committed version, whenever it was committed.
VisibleWhenCommitted(ver, t) ==
    /\ ver.deleted = 0
    /\ ver.by # txn[t].id

\* read_node and read_edge of TransactionManager skip what was created later,
\* deleted by then, or written under the reader's own id.
Visible(ver, t) ==
    /\ ver.created <= txn[t].time
    /\ ver.deleted # 0 => ver.deleted > txn[t].time
    /\ ver.by # txn[t].id

VisibleAt(t, k) == {n \in DOMAIN versions[k] : Visible(versions[k][n], t)}

\* The value of the newest visible version: what the transaction reads where it
\* has buffered nothing.
Stored(t, k) ==
    IF VisibleAt(t, k) = {} THEN None
    ELSE versions[k][CHOOSE n \in VisibleAt(t, k) :
                         \A o \in VisibleAt(t, k) : o <= n].value

-----------------------------------------------------------------------------
(* Properties                                                              *)

Version == [value : Values, by : Nat, created : Times, deleted : Times \cup {0}]

Step == [stage : 1..5, key : Keys]

\* The values each variable takes; no time is later than the clock.
TypeOK ==
    /\ clock \in Times
    /\ \A t \in Txns : txn[t].time <= clock
    /\ \A k \in Keys : \A n \in DOMAIN versions[k] : versions[k][n].created <= clock
    /\ next \in [Managers -> Nat]
    /\ active \subseteq Nat
    /\ committed \subseteq Nat
    /\ versions \in [Keys -> Seq(Version)]
    /\ txn \in [Txns -> [at   : {"unborn", "active", "commit", "committed", "aborted"},
                         id   : Nat,
                         time : Times \cup {0},
                         put  : [Keys -> Values \cup {None}],
                         del  : SUBSET Readable,
                         todo : SUBSET Step]]

\* No dirty data: every version was written by a transaction that has begun to
\* commit, never by one that was rolled back, abandoned or is still open.
NoDirtyVersion ==
    \A k \in Keys : \A n \in DOMAIN versions[k] : \E t \in Txns :
        /\ txn[t].at \in {"commit", "committed"}
        /\ txn[t].id = versions[k][n].by
        /\ txn[t].put[k] = versions[k][n].value

\* No lost write: what a committed transaction wrote is in the version list of
\* the id, with its commit time, whatever other transactions did since or
\* meanwhile.
CommittedWritesKept ==
    \A t \in Txns, k \in Keys : At(t, "committed") /\ txn[t].put[k] # None =>
        \E n \in DOMAIN versions[k] :
            /\ versions[k][n].value = txn[t].put[k]
            /\ versions[k][n].by = txn[t].id
            /\ versions[k][n].created = txn[t].time

\* The committing transactions whose time the reader's start has reached.
Straddling(t) == {u \in Txns : At(u, "commit") /\ txn[u].time <= txn[t].time}

\* Somebody is about to delete an id whose last version is deleted already.
DeletedTwice(k) ==
    \E u \in Txns : \E s \in txn[u].todo :
        /\ s.key = k /\ s.stage > 3
        /\ versions[k] # <<>> /\ versions[k][Len(versions[k])].deleted # 0

\* What a transaction reads from the store changes under it for two reasons
\* only: a commit that began no later than the reader, by the clock, is still
\* writing; or an id is deleted a second time.
SnapshotStable ==
    [][\A t \in Txns, k \in Readable :
          /\ At(t, "active") /\ At(t, "active")'
          /\ Stored(t, k) # Stored(t, k)'
          => Straddling(t) # {} \/ DeletedTwice(k)]_vars

=============================================================================
