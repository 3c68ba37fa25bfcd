----------------------------- MODULE ReplicaSet -----------------------------
(***************************************************************************)
(* ReplicaSet of crates/ruvector-replication: the roles of the replicas,   *)
(* the id of the primary kept beside them, and the size of a quorum.       *)
(* Operations take &mut self, so each is one step.  Nothing in the crate   *)
(* changes the status or the lag of a replica inside the set: every member *)
(* stays Healthy, with lag 0 and priority 100.                             *)
(***************************************************************************)
EXTENDS Naturals, FiniteSets

CONSTANTS
    Ids,
    Starts,         \* bound: the roles the program begins with
    None

ASSUME ReplicaSetAssumption ==
    /\ IsFiniteSet(Ids)
    /\ Starts \subseteq [Ids -> {"primary", "secondary", "witness", None}]
    /\ \A r \in Starts : \A i, j \in Ids : r[i] = "primary" /\ r[j] = "primary" => i = j
    /\ None \notin Ids \cup {"primary", "secondary", "witness"}

VARIABLES
    role,           \* the role of each member; None for an id not in the set
    primary,        \* primary_id
    quorum,         \* quorum_size
    overwritten,    \* history: ids that were added while in the set
    chosen          \* history: quorum_size was set by hand

set == <<role, primary, quorum, overwritten, chosen>>

Roles == {"primary", "secondary", "witness"}

Members == {i \in Ids : role[i] # None}

\* The members of a role map that count for the quorum.
Voters(roles) == {i \in Ids : roles[i] \notin {None, "witness"}}

\* Mutant: half of the voters are enough.
HalfOf(roles) == Cardinality(Voters(roles)) \div 2

\* update_quorum_size.
QuorumOf(roles) == Cardinality(Voters(roles)) \div 2 + 1

\* has_quorum.
HasQuorum == Cardinality(Voters(role)) >= quorum

\* A set the program has built from an empty one by adding replicas.
SetInit ==
    /\ role \in Starts
    /\ primary = IF \E i \in Ids : role[i] = "primary"
                 THEN CHOOSE i \in Ids : role[i] = "primary" ELSE None
    /\ quorum = QuorumOf(role)
    /\ overwritten = {}
    /\ chosen = FALSE

\* What add_replica and remove_replica end with.
UpdateQuorum ==
    /\ quorum' = QuorumOf(role')
    /\ chosen' = FALSE

\* Mutant: a second primary is accepted.
AddAnyReplica(i, r) ==
    /\ primary' = IF r = "primary" THEN i ELSE primary
    /\ role' = [role EXCEPT ![i] = r]
    /\ overwritten' = IF i \in Members THEN overwritten \cup {i} ELSE overwritten
    /\ UpdateQuorum

\* add_replica.  A member with this id is replaced, whatever its role was.
AddReplica(i, r) ==
    /\ r = "primary" => primary = None
    /\ primary' = IF r = "primary" THEN i ELSE primary
    /\ role' = [role EXCEPT ![i] = r]
    /\ overwritten' = IF i \in Members THEN overwritten \cup {i} ELSE overwritten
    /\ UpdateQuorum

RemoveReplica(i) ==
    /\ i \in Members
    /\ role' = [role EXCEPT ![i] = None]
    /\ primary' = IF role[i] = "primary" THEN None ELSE primary
    /\ UpdateQuorum
    /\ UNCHANGED overwritten

\* promote_to_primary, when it does not fail.  Whoever primary_id names, if it
\* is a member, becomes a secondary.
Promote(i) ==
    IF role[i] = "primary" THEN UNCHANGED set
    ELSE /\ role' = [j \in Ids |-> IF j = i THEN "primary"
                                   ELSE IF j = primary /\ j \in Members THEN "secondary"
                                   ELSE role[j]]
         /\ primary' = i
         /\ UNCHANGED <<quorum, overwritten, chosen>>

CanPromote(i) == role[i] \in {"primary", "secondary"}

\* demote_to_secondary, which does nothing to other roles.
Demote(i) ==
    /\ role[i] = "primary"
    /\ role' = [role EXCEPT ![i] = "secondary"]
    /\ primary' = None
    /\ UNCHANGED <<quorum, overwritten, chosen>>

SetQuorumSize(n) ==
    /\ quorum' = n
    /\ chosen' = TRUE
    /\ UNCHANGED <<role, primary, overwritten>>

-----------------------------------------------------------------------------
SetTypeOK ==
    /\ role \in [Ids -> Roles \cup {None}]
    /\ primary \in Ids \cup {None}
    /\ quorum \in Nat
    /\ overwritten \subseteq Ids
    /\ chosen \in BOOLEAN

\* A replica that thinks it is the primary is the one primary_id names, so
\* there are never two; and primary_id names a primary, unless that id was
\* added again with another role, or removed after that, which leaves the set
\* without a primary and refuses to add one.
OnePrimary ==
    /\ \A i \in Ids : role[i] = "primary" => primary = i
    /\ primary # None /\ primary \notin overwritten => role[primary] = "primary"

\* Two disjoint halves of the members that hold data never both have a quorum,
\* unless it was set by hand or a witness became a secondary: that needs a
\* primary_id whose replica was added again.
QuorumIsMajority ==
    ~chosen /\ overwritten = {} => 2 * quorum > Cardinality(Voters(role))

=============================================================================
