-------------------------------- MODULE Raft --------------------------------
(***************************************************************************)
(* RaftNode of crates/ruvector-raft.  One loop per node takes messages and *)
(* timeouts from a channel and handles each to its end, so a handler is    *)
(* one action: a step down to a newer term followed by the handler proper. *)
(*                                                                         *)
(* The node builds its requests and returns its responses; what carries    *)
(* them is left to the embedding program.  Here it may lose, delay,        *)
(* reorder and repeat: a message it keeps can be received at any time, any *)
(* number of times or never.                                               *)
(* The node never builds an AppendEntries request with entries; a sender   *)
(* that goes by next_index, as state.rs describes it, stands in for it.    *)
(* Snapshots are acknowledged and ignored by the code and left out here.   *)
(***************************************************************************)
EXTENDS Naturals, Sequences, FiniteSets

CONSTANTS
    Servers,
    Stands,         \* bound: the terms each server may stand for
    MaxInFlight,    \* bound: messages the network keeps
    Feeds,          \* bound: whom each leader sends entries to
    MaxLog,         \* bound: length of the log of a leader that takes a command
    None

ASSUME RaftAssumption ==
    /\ IsFiniteSet(Servers)
    /\ None \notin Servers
    /\ Stands \in [Servers -> SUBSET Nat]
    /\ Feeds \in [Servers -> SUBSET Servers] /\ \A i \in Servers : i \notin Feeds[i]
    /\ MaxInFlight \in Nat /\ MaxLog \in [Servers -> Nat]

VARIABLES
    srv,            \* the state of every node
    msgs            \* what the network keeps

vars == <<srv, msgs>>

Others(i) == Servers \ {i}

\* Delivery leaves a message where it is; what the network has no room for is
\* lost, the old or the new.
Network(sent) ==
    LET all == msgs \cup sent IN
    msgs' \in IF Cardinality(all) <= MaxInFlight THEN {all}
              ELSE {M \in SUBSET all : Cardinality(M) = MaxInFlight}


-----------------------------------------------------------------------------
(* State                                                                   *)

\* PersistentState, VolatileState, RaftState, LeaderState (none: two empty
\* functions), the votes of ElectionState, and current_leader.
Fresh == [term |-> 0, voted |-> None, log |-> <<>>, commit |-> 0,
          state |-> "follower", next |-> <<>>, match |-> <<>>,
          votes |-> {}, leader |-> None]

Init ==
    /\ srv = [i \in Servers |-> Fresh]
    /\ msgs = {}

\* A log entry is its term and the leader that took the command.
TermAt(log, n) == IF n \in DOMAIN log THEN log[n].term ELSE 0

LastTerm(log) == TermAt(log, Len(log))

\* Mutant: the entry before the new ones is not looked at.
MatchesAnything(log, n, t) == n <= Len(log)

\* RaftLog::matches, with no snapshot.
Matches(log, n, t) == n > 0 => n \in DOMAIN log /\ log[n].term = t

Quorum(votes) == Cardinality(votes) >= Cardinality(Servers) \div 2 + 1

\* Mutant: a leader or candidate goes on in the newer term.
StepDownKeepsState(s, t) ==
    IF t > s.term THEN [s EXCEPT !.term = t, !.voted = None, !.leader = None] ELSE s

\* handle_rpc_message: a newer term comes first.
StepDown(s, t) ==
    IF t > s.term
    THEN [s EXCEPT !.term = t, !.voted = None, !.state = "follower",
                   !.next = <<>>, !.match = <<>>, !.leader = None]
    ELSE s

-----------------------------------------------------------------------------
(* Elections                                                               *)

VoteRequest(i, j, s) ==
    [type |-> "vote", from |-> i, to |-> j, term |-> s.term,
     lastIndex |-> Len(s.log), lastTerm |-> LastTerm(s.log)]

\* handle_election_timeout and start_election.  current_leader stays.
StartElection(i) ==
    LET s == [srv[i] EXCEPT !.term = @ + 1, !.voted = i,
                            !.state = "candidate", !.votes = {i}]
    IN
    /\ s.term \in Stands[i]
    /\ srv[i].state # "leader"
    /\ srv' = [srv EXCEPT ![i] = s]
    /\ Network({VoteRequest(i, j, s) : j \in Others(i)})

UpToDate(m, log) ==
    IF m.lastTerm # LastTerm(log) THEN m.lastTerm >= LastTerm(log)
    ELSE m.lastIndex >= Len(log)

\* Mutant: an earlier vote of the term is forgotten.
ShouldGrantTwice(s, m) == m.term >= s.term /\ UpToDate(m, s.log)

\* VoteValidator::should_grant_vote.
ShouldGrant(s, m) ==
    /\ m.term >= s.term
    /\ s.voted \in {None, m.from}
    /\ UpToDate(m, s.log)

VoteReply(i, m, s, granted) ==
    [type |-> "voted", from |-> i, to |-> m.from, term |-> s.term, granted |-> granted]

HandleRequestVote(i, m) ==
    LET s == StepDown(srv[i], m.term)
        granted == ShouldGrant(s, m)
    IN
    /\ m.type = "vote"
    /\ srv' = [srv EXCEPT ![i] = IF granted THEN [s EXCEPT !.voted = m.from] ELSE s]
    /\ Network({VoteReply(i, m, s, granted)})

\* become_leader.
Lead(i, s) ==
    [s EXCEPT !.state = "leader", !.leader = i,
              !.next = [j \in Others(i) |-> Len(s.log) + 1],
              !.match = [j \in Others(i) |-> 0]]

Counts(s, m) == s.state = "candidate" /\ m.term = s.term /\ m.granted

HandleVoteReply(i, m) ==
    LET s == StepDown(srv[i], m.term)
        v == [s EXCEPT !.votes = @ \cup {m.from}]
    IN
    /\ m.type = "voted"
    /\ srv' = [srv EXCEPT ![i] =
         IF ~Counts(s, m) THEN s ELSE IF Quorum(v.votes) THEN Lead(i, v) ELSE v]
    /\ Network({})

-----------------------------------------------------------------------------
(* Replication                                                             *)

\* handle_client_command.
ClientCommand(i) ==
    /\ srv[i].state = "leader" /\ Len(srv[i].log) < MaxLog[i]
    /\ srv' = [srv EXCEPT ![i].log = Append(@, [term |-> srv[i].term, by |-> i])]
    /\ Network({})

AppendRequest(i, j, prev, entries) ==
    [type |-> "append", from |-> i, to |-> j, term |-> srv[i].term, prev |-> prev,
     prevTerm |-> TermAt(srv[i].log, prev), entries |-> entries,
     commit |-> srv[i].commit]

\* handle_heartbeat_timeout and send_heartbeats.
Heartbeat(i) ==
    /\ srv[i].state = "leader"
    /\ Network({AppendRequest(i, j, 0, <<>>) : j \in Others(i)})
    /\ UNCHANGED srv

\* Not in the code: a request with the entries from next_index on.
SendEntries(i, j) ==
    LET n == srv[i].next[j]
        log == srv[i].log
    IN
    /\ srv[i].state = "leader" /\ j \in Feeds[i] /\ n <= Len(log)
    /\ Network({AppendRequest(i, j, n - 1, SubSeq(log, n, Len(log)))})
    /\ UNCHANGED srv

AppendReply(i, m, s, ok) ==
    [type |-> "appended", from |-> i, to |-> m.from, term |-> s.term, ok |-> ok,
     match |-> IF ok THEN Len(s.log) ELSE 0]

\* The entries of m that contradict the log.
Conflicts(log, m) ==
    {n \in DOMAIN log : n - m.prev \in DOMAIN m.entries /\ log[n].term # m.entries[n - m.prev].term}

\* truncate_from the first conflict.
Truncated(log, m) ==
    SubSeq(log, 1, Cardinality({n \in DOMAIN log : \A o \in Conflicts(log, m) : n < o}))

\* append_entries refuses entries that do not start behind the last one.
Appendable(log, m) == m.entries = <<>> \/ Len(log) = m.prev

\* What follows the checks: log and commit index after m.
Appended(s, m) ==
    LET last == IF m.entries = <<>> THEN m.prev ELSE m.prev + Len(m.entries)
        upTo == IF m.commit < last THEN m.commit ELSE last
    IN [s EXCEPT !.log = @ \o m.entries,
                 !.commit = IF upTo > @ THEN upTo ELSE @]

HandleAppend(i, m) ==
    LET s == StepDown(srv[i], m.term)
        h == [s EXCEPT !.leader = m.from]
        t == [h EXCEPT !.log = Truncated(h.log, m)]
        Answer(after, ok) ==
            /\ srv' = [srv EXCEPT ![i] = after]
            /\ Network({AppendReply(i, m, after, ok)})
    IN
    /\ m.type = "append"
    /\ \/ m.term < s.term /\ Answer(s, FALSE)
       \/ m.term >= s.term /\ ~Matches(h.log, m.prev, m.prevTerm) /\ Answer(h, FALSE)
       \/ /\ m.term >= s.term /\ Matches(h.log, m.prev, m.prevTerm)
          /\ IF Appendable(t.log, m) THEN Answer(Appended(t, m), TRUE) ELSE Answer(t, FALSE)

\* The median of the followers' match_index: enough of them have it that they
\* are a majority together with the leader.
MedianMatch(match) ==
    LET js == DOMAIN match
        enough == Cardinality(js) - Cardinality(js) \div 2
        reached == {n \in {match[j] : j \in js} :
                        Cardinality({j \in js : match[j] >= n}) >= enough}
    IN IF js = {} THEN 0 ELSE CHOOSE n \in reached : \A o \in reached : o <= n

\* Only an entry of the leader's own term is committed by counting.
Committable(s, n) == n > s.commit /\ n \in DOMAIN s.log /\ s.log[n].term = s.term

\* handle_append_entries_response; the term of the reply is not looked at again.
HandleAppendReply(i, m) ==
    LET s == StepDown(srv[i], m.term)
        a == [s EXCEPT !.match[m.from] = m.match, !.next[m.from] = m.match + 1]
        n == MedianMatch(a.match)
    IN
    /\ m.type = "appended"
    /\ srv' = [srv EXCEPT ![i] =
         IF s.state # "leader" THEN s
         ELSE IF m.ok THEN IF Committable(a, n) THEN [a EXCEPT !.commit = n] ELSE a
         ELSE IF s.next[m.from] > 1 THEN [s EXCEPT !.next[m.from] = @ - 1] ELSE s]
    /\ Network({})

-----------------------------------------------------------------------------

Receive(m) ==
    \/ HandleRequestVote(m.to, m)
    \/ HandleVoteReply(m.to, m)
    \/ HandleAppend(m.to, m)
    \/ HandleAppendReply(m.to, m)

Next ==
    \/ \E i \in Servers :
         \/ StartElection(i)
         \/ ClientCommand(i)
         \/ Heartbeat(i)
         \/ \E j \in Servers : SendEntries(i, j)
    \/ \E m \in msgs : Receive(m)

Spec == Init /\ [][Next]_vars

-----------------------------------------------------------------------------
(* Properties                                                              *)

Entry == [term : Nat, by : Servers]

\* The values each variable takes; leader state exists on leaders only.
TypeOK ==
    \A i \in Servers : LET s == srv[i] IN
        /\ s.term \in Nat /\ s.commit \in Nat
        /\ s.voted \in Servers \cup {None} /\ s.leader \in Servers \cup {None}
        /\ s.log \in Seq(Entry)
        /\ s.votes \subseteq Servers
        /\ s.state \in {"follower", "candidate", "leader"}
        /\ IF s.state = "leader"
           THEN s.match \in [Others(i) -> Nat] /\ s.next \in [Others(i) -> Nat \ {0}]
           ELSE s.match = <<>> /\ s.next = <<>>

Leads(i, t) == srv[i].state = "leader" /\ srv[i].term = t

\* There is at most one leader in a term, however votes, replies and newer
\* terms overtake each other.
ElectionSafety ==
    \A i, j \in Servers : Leads(i, srv[j].term) /\ Leads(j, srv[i].term) => i = j

\* Logs that have an entry of one term at one index agree up to it, after any
\* mix of appends, conflicts, truncations and stale requests.
LogMatching ==
    \A i, j \in Servers :
        \A n \in DOMAIN srv[i].log \cap DOMAIN srv[j].log :
            srv[i].log[n].term = srv[j].log[n].term =>
                SubSeq(srv[i].log, 1, n) = SubSeq(srv[j].log, 1, n)

\* A leader, while it leads, only appends to its log, whatever requests of
\* other terms it still receives.
LeaderAppendOnly ==
    [][\A i \in Servers :
          srv[i].state = "leader" /\ srv'[i].state = "leader" =>
              SubSeq(srv'[i].log, 1, Len(srv[i].log)) = srv[i].log]_vars

\* match_index is the "index of highest log entry known to be replicated"
\* (state.rs:174): up to it the follower has the leader's log.
MatchIsReplicated ==
    \A i \in Servers : srv[i].state = "leader" => \A j \in Others(i) :
        LET n == srv[i].match[j] IN
        srv[j].term <= srv[i].term =>
            /\ n <= Len(srv[i].log) /\ n <= Len(srv[j].log)
            /\ SubSeq(srv[j].log, 1, n) = SubSeq(srv[i].log, 1, n)

=============================================================================
