----------------------------- MODULE RaftProofs -----------------------------
(***************************************************************************)
(* Proofs about Raft, for any finite set of servers, any bounds and any    *)
(* network that loses, repeats and reorders: type correctness, one leader  *)
(* per term, matching logs, and leaders that never rewrite their log.      *)
(*                                                                         *)
(* One leader: a vote is given once in a term, so the votes that           *)
(* candidates of one term have counted, and the grants still in the        *)
(* network, never name one voter for two candidates; two majorities share  *)
(* a voter.                                                                *)
(*                                                                         *)
(* The logs: a leader may be gone while its entries and its requests are   *)
(* still about, and the code keeps no trace of it.  The invariant says     *)
(* that a record of past leaders exists, one per term with its votes and   *)
(* its log, such that every log is, up to each entry, the log of the       *)
(* leader of that entry's term, and every request a piece of the log of    *)
(* the leader of its own.                                                  *)
(***************************************************************************)
EXTENDS Raft, FiniteSetTheorems, SequenceTheorems, TLAPS

States == {"follower", "candidate", "leader"}

Node(i) ==
    [term : Nat, voted : Servers \cup {None}, log : Seq(Entry), commit : Nat,
     state : States, next : {<<>>} \cup [Others(i) -> Nat \ {0}],
     match : {<<>>} \cup [Others(i) -> Nat],
     votes : SUBSET Servers, leader : Servers \cup {None}]

LeaderState(i, s) ==
    IF s.state = "leader"
    THEN s.match \in [Others(i) -> Nat] /\ s.next \in [Others(i) -> Nat \ {0}]
    ELSE s.match = <<>> /\ s.next = <<>>

NodeOK(i, s) == s \in Node(i) /\ LeaderState(i, s)

Message ==
    [type : {"vote"}, from : Servers, to : Servers, term : Nat,
     lastIndex : Nat, lastTerm : Nat]
    \cup [type : {"voted"}, from : Servers, to : Servers, term : Nat, granted : BOOLEAN]
    \cup [type : {"append"}, from : Servers, to : Servers, term : Nat, prev : Nat,
          prevTerm : Nat, entries : Seq(Entry), commit : Nat]
    \cup [type : {"appended"}, from : Servers, to : Servers, term : Nat, ok : BOOLEAN,
          match : Nat]

MessageOK(m) == m \in Message /\ m.from # m.to

Typed ==
    /\ DOMAIN srv = Servers /\ srv = [i \in Servers |-> srv[i]]
    /\ \A i \in Servers : NodeOK(i, srv[i])
    /\ \A m \in msgs : MessageOK(m)

-----------------------------------------------------------------------------
(* Logs and the network                                                    *)

LEMMA NetworkKeeps ==
  ASSUME NEW sent, Network(sent)
  PROVE  msgs' \subseteq msgs \cup sent
BY DEF Network

LEMMA TermAtTyped ==
  ASSUME NEW log \in Seq(Entry), NEW n
  PROVE  TermAt(log, n) \in Nat
<1>1. CASE n \in DOMAIN log
  <2>1. log[n] \in Entry
    BY <1>1, ElementOfSeq, LenProperties
  <2> QED
    BY <1>1, <2>1 DEF TermAt, Entry
<1>2. CASE n \notin DOMAIN log
  BY <1>2 DEF TermAt
<1> QED
  BY <1>1, <1>2

LEMMA TruncatedTyped ==
  ASSUME NEW log \in Seq(Entry), NEW m
  PROVE  Truncated(log, m) \in Seq(Entry)
<1> DEFINE keep == {n \in DOMAIN log : \A o \in Conflicts(log, m) : n < o}
<1>1. Len(log) \in Nat /\ DOMAIN log = 1..Len(log)
  BY LenProperties
<1>2. IsFiniteSet(1..Len(log)) /\ Cardinality(1..Len(log)) = Len(log)
  BY <1>1, FS_Interval
<1>3. keep \in SUBSET (1..Len(log))
  BY <1>1
<1> HIDE DEF keep
<1>4. IsFiniteSet(keep) /\ Cardinality(keep) <= Len(log)
  BY <1>2, <1>3, FS_Subset
<1>5. Cardinality(keep) \in Nat
  BY <1>4, FS_CardinalityType
<1>6. \A i \in 1..Cardinality(keep) : log[i] \in Entry
  BY <1>1, <1>4, <1>5, ElementOfSeq
<1>7. SubSeq(log, 1, Cardinality(keep)) \in Seq(Entry)
  BY <1>5, <1>6, SubSeqProperties
<1> QED
  BY <1>7 DEF Truncated, keep

LEMMA StepDownTyped ==
  ASSUME NEW i \in Servers, NEW s, NodeOK(i, s), NEW t \in Nat
  PROVE  /\ NodeOK(i, StepDown(s, t))
         /\ StepDown(s, t).log = s.log
BY DEF StepDown, NodeOK, Node, LeaderState, States

LEMMA OneChanges ==
  ASSUME Typed, NEW i \in Servers, NEW r, NodeOK(i, r), srv' = [srv EXCEPT ![i] = r],
         \A m \in msgs' : MessageOK(m)
  PROVE  Typed'
BY DEF Typed

-----------------------------------------------------------------------------
(* Types                                                                   *)

LEMMA InitTyped == Init => Typed
<1> SUFFICES ASSUME Init PROVE Typed
  OBVIOUS
<1>1. ASSUME NEW i \in Servers PROVE NodeOK(i, Fresh)
  BY EmptySeq DEF Fresh, NodeOK, Node, LeaderState, States
<1> QED
  BY <1>1 DEF Init, Typed

LEMMA StartElectionTyped ==
  ASSUME Typed, NEW i \in Servers, StartElection(i)
  PROVE  Typed'
<1> DEFINE s == [srv[i] EXCEPT !.term = @ + 1, !.voted = i,
                               !.state = "candidate", !.votes = {i}]
<1>1. NodeOK(i, srv[i]) /\ srv[i].state # "leader"
  BY DEF Typed, StartElection
<1>2. NodeOK(i, s)
  <2>1. srv[i] \in Node(i) /\ srv[i].match = <<>> /\ srv[i].next = <<>>
    BY <1>1 DEF NodeOK, LeaderState
  <2>2. s \in Node(i)
    <3> DEFINE n == srv[i].term + 1
               vs == {i}
    <3>1. n \in Nat /\ vs \in SUBSET Servers
      BY <2>1 DEF Node
    <3>2. s = [srv[i] EXCEPT !.term = n, !.voted = i, !.state = "candidate", !.votes = vs]
      OBVIOUS
    <3> HIDE DEF n, vs, s
    <3> QED
      BY <2>1, <3>1, <3>2 DEF Node, States
  <2>3. s.state = "candidate" /\ s.match = <<>> /\ s.next = <<>>
    BY <2>1 DEF Node
  <2> QED
    BY <2>2, <2>3 DEF NodeOK, LeaderState
<1>3. srv' = [srv EXCEPT ![i] = s] /\ Network({VoteRequest(i, j, s) : j \in Others(i)})
  BY DEF StartElection
<1> HIDE DEF s
<1>4. s.term \in Nat /\ s.log \in Seq(Entry)
  BY <1>2 DEF NodeOK, Node
<1>5. Len(s.log) \in Nat /\ LastTerm(s.log) \in Nat
  BY <1>4, LenProperties, TermAtTyped DEF LastTerm
<1>6. ASSUME NEW j \in Others(i) PROVE MessageOK(VoteRequest(i, j, s))
  BY <1>4, <1>5 DEF MessageOK, Message, VoteRequest, Others
<1>7. \A m \in msgs' : MessageOK(m)
  BY <1>3, <1>6, NetworkKeeps DEF Typed
<1> QED
  BY <1>2, <1>3, <1>7, OneChanges

LEMMA ClientCommandTyped ==
  ASSUME Typed, NEW i \in Servers, ClientCommand(i)
  PROVE  Typed'
<1> DEFINE e == [term |-> srv[i].term, by |-> i]
           r == [srv[i] EXCEPT !.log = Append(@, e)]
<1>1. NodeOK(i, srv[i]) /\ srv \in [Servers -> {srv[j] : j \in Servers}]
  BY DEF Typed
<1>2. Append(srv[i].log, e) \in Seq(Entry)
  BY <1>1, AppendProperties DEF NodeOK, Node, Entry
<1>3. srv' = [srv EXCEPT ![i] = r] /\ Network({})
  BY <1>1 DEF ClientCommand, NodeOK, Node
<1>4. NodeOK(i, r)
  BY <1>1, <1>2 DEF NodeOK, Node, LeaderState
<1>5. \A m \in msgs' : MessageOK(m)
  BY <1>3, NetworkKeeps DEF Typed
<1> HIDE DEF r
<1> QED
  BY <1>3, <1>4, <1>5, OneChanges

LEMMA AppendRequestTyped ==
  ASSUME Typed, NEW i \in Servers, NEW j \in Others(i), NEW prev \in Nat,
         NEW entries \in Seq(Entry)
  PROVE  MessageOK(AppendRequest(i, j, prev, entries))
<1>1. srv[i].term \in Nat /\ srv[i].log \in Seq(Entry) /\ srv[i].commit \in Nat
  BY DEF Typed, NodeOK, Node
<1>2. TermAt(srv[i].log, prev) \in Nat
  BY <1>1, TermAtTyped
<1> QED
  BY <1>1, <1>2 DEF MessageOK, Message, AppendRequest, Others

LEMMA HeartbeatTyped ==
  ASSUME Typed, NEW i \in Servers, Heartbeat(i)
  PROVE  Typed'
<1>1. <<>> \in Seq(Entry)
  BY EmptySeq
<1>2. \A j \in Others(i) : MessageOK(AppendRequest(i, j, 0, <<>>))
  BY <1>1, AppendRequestTyped
<1>3. \A m \in msgs' : MessageOK(m)
  BY <1>2, NetworkKeeps DEF Heartbeat, Typed
<1> QED
  BY <1>3 DEF Heartbeat, Typed

LEMMA SendEntriesTyped ==
  ASSUME Typed, NEW i \in Servers, NEW j \in Servers, SendEntries(i, j)
  PROVE  Typed'
<1> DEFINE n == srv[i].next[j]
           log == srv[i].log
<1>1. /\ NodeOK(i, srv[i]) /\ srv[i].state = "leader" /\ j \in Feeds[i] /\ n <= Len(log)
      /\ Network({AppendRequest(i, j, n - 1, SubSeq(log, n, Len(log)))})
      /\ UNCHANGED srv
  BY DEF Typed, SendEntries
<1>2. j \in Others(i)
  BY <1>1, RaftAssumption DEF Others
<1>3. n \in Nat \ {0} /\ n - 1 \in Nat /\ log \in Seq(Entry)
  BY <1>1, <1>2 DEF NodeOK, Node, LeaderState
<1>4. SubSeq(log, n, Len(log)) \in Seq(Entry)
  <2> HIDE DEF n, log
  <2>1. \A k \in n..Len(log) : log[k] \in Entry
    BY <1>3, ElementOfSeq, LenProperties
  <2>2. Len(log) \in Int
    BY <1>3, LenProperties
  <2> QED
    BY <1>3, <2>1, <2>2, SubSeqProperties
<1>5. MessageOK(AppendRequest(i, j, n - 1, SubSeq(log, n, Len(log))))
  BY <1>2, <1>3, <1>4, AppendRequestTyped
<1>6. \A m \in msgs' : MessageOK(m)
  BY <1>1, <1>5, NetworkKeeps DEF Typed
<1> QED
  BY <1>1, <1>6 DEF Typed

\* What a message of each type carries.
LEMMA Carried ==
  ASSUME Typed, NEW m \in msgs
  PROVE  /\ m.from \in Servers /\ m.to \in Servers /\ m.from # m.to /\ m.term \in Nat
         /\ m.type = "voted" => m.granted \in BOOLEAN
         /\ m.type = "append" =>
              m.prev \in Nat /\ m.entries \in Seq(Entry) /\ m.commit \in Nat
         /\ m.type = "appended" => m.ok \in BOOLEAN /\ m.match \in Nat
         /\ NodeOK(m.to, StepDown(srv[m.to], m.term))
         /\ StepDown(srv[m.to], m.term).term \in Nat
<1>1. MessageOK(m)
  BY DEF Typed
<1>2. m.to \in Servers /\ m.term \in Nat
  BY <1>1 DEF MessageOK, Message
<1>3. NodeOK(m.to, StepDown(srv[m.to], m.term))
  BY <1>2, StepDownTyped DEF Typed
<1>4. StepDown(srv[m.to], m.term).term \in Nat
  BY <1>3 DEF NodeOK, Node
<1> QED
  BY <1>1, <1>3, <1>4 DEF MessageOK, Message

LEMMA HandleRequestVoteTyped ==
  ASSUME Typed, NEW m \in msgs, HandleRequestVote(m.to, m)
  PROVE  Typed'
<1> DEFINE s == StepDown(srv[m.to], m.term)
           granted == ShouldGrant(s, m)
           r == IF granted THEN [s EXCEPT !.voted = m.from] ELSE s
<1>1. /\ srv' = [srv EXCEPT ![m.to] = r]
      /\ Network({VoteReply(m.to, m, s, granted)})
  BY DEF HandleRequestVote
<1>2. granted \in BOOLEAN
  BY DEF ShouldGrant
<1>3. NodeOK(m.to, s) /\ m.from \in Servers /\ m.to \in Servers /\ m.from # m.to /\ s.term \in Nat
  BY Carried
<1> HIDE DEF s, granted
<1>4. NodeOK(m.to, r)
  BY <1>3 DEF NodeOK, Node, LeaderState
<1>5. MessageOK(VoteReply(m.to, m, s, granted))
  BY <1>2, <1>3 DEF MessageOK, Message, VoteReply
<1>6. \A o \in msgs' : MessageOK(o)
  BY <1>1, <1>5, NetworkKeeps DEF Typed
<1> HIDE DEF r
<1> QED
  BY <1>1, <1>3, <1>4, <1>6, OneChanges

LEMMA HandleVoteReplyTyped ==
  ASSUME Typed, NEW m \in msgs, HandleVoteReply(m.to, m)
  PROVE  Typed'
<1> DEFINE s == StepDown(srv[m.to], m.term)
           v == [s EXCEPT !.votes = @ \cup {m.from}]
           r == IF ~Counts(s, m) THEN s ELSE IF Quorum(v.votes) THEN Lead(m.to, v) ELSE v
<1>1. srv' = [srv EXCEPT ![m.to] = r] /\ Network({})
  BY DEF HandleVoteReply
<1>2. NodeOK(m.to, s) /\ m.from \in Servers /\ m.to \in Servers
  BY Carried
<1> HIDE DEF s
<1>3. NodeOK(m.to, v)
  BY <1>2 DEF NodeOK, Node, LeaderState
<1> HIDE DEF v
<1>4. NodeOK(m.to, Lead(m.to, v))
  <2>1. Len(v.log) \in Nat
    BY <1>3, LenProperties DEF NodeOK, Node
  <2> DEFINE next == [j \in Others(m.to) |-> Len(v.log) + 1]
             match == [j \in Others(m.to) |-> 0]
  <2>2. next \in [Others(m.to) -> Nat \ {0}] /\ match \in [Others(m.to) -> Nat]
    BY <2>1
  <2>3. Lead(m.to, v) = [v EXCEPT !.state = "leader", !.leader = m.to,
                                  !.next = next, !.match = match]
    BY DEF Lead
  <2>4. v \in Node(m.to)
    BY <1>3 DEF NodeOK
  <2> HIDE DEF next, match
  <2>5. /\ Lead(m.to, v) \in Node(m.to) /\ Lead(m.to, v).state = "leader"
        /\ Lead(m.to, v).next = next /\ Lead(m.to, v).match = match
    BY <1>2, <2>2, <2>3, <2>4 DEF Node, States
  <2> QED
    BY <2>2, <2>5 DEF NodeOK, LeaderState
<1>5. NodeOK(m.to, r)
  BY <1>2, <1>3, <1>4
<1>6. \A o \in msgs' : MessageOK(o)
  BY <1>1, NetworkKeeps DEF Typed
<1> HIDE DEF r
<1> QED
  BY <1>1, <1>2, <1>5, <1>6, OneChanges

LEMMA AppendReplyTyped ==
  ASSUME NEW i \in Servers, NEW s, NodeOK(i, s), NEW ok \in BOOLEAN, NEW m,
         m.from \in Servers, m.from # i
  PROVE  MessageOK(AppendReply(i, m, s, ok))
<1>1. s.term \in Nat /\ Len(s.log) \in Nat
  BY LenProperties DEF NodeOK, Node
<1> QED
  BY <1>1 DEF MessageOK, Message, AppendReply

LEMMA AppendedTyped ==
  ASSUME NEW i \in Servers, NEW s, NodeOK(i, s), NEW m,
         m.entries \in Seq(Entry), m.prev \in Nat, m.commit \in Nat
  PROVE  NodeOK(i, Appended(s, m))
<1> DEFINE last == IF m.entries = <<>> THEN m.prev ELSE m.prev + Len(m.entries)
           upTo == IF m.commit < last THEN m.commit ELSE last
           commit == IF upTo > s.commit THEN upTo ELSE s.commit
           log == s.log \o m.entries
<1>1. log \in Seq(Entry)
  BY ConcatProperties DEF NodeOK, Node
<1>2. Len(m.entries) \in Nat
  BY LenProperties
<1>3. commit \in Nat
  BY <1>2 DEF NodeOK, Node
<1>4. Appended(s, m) = [s EXCEPT !.log = log, !.commit = commit]
  BY DEF Appended, NodeOK, Node
<1> HIDE DEF log, commit
<1> QED
  BY <1>1, <1>3, <1>4 DEF NodeOK, Node, LeaderState

\* What HandleAppend may leave the node as: the step down, with the hint, the
\* log cut, or the log cut and extended.
LEMMA HandleAppendCases ==
  ASSUME NEW m, HandleAppend(m.to, m)
  PROVE  LET s == StepDown(srv[m.to], m.term)
             h == [s EXCEPT !.leader = m.from]
             t == [h EXCEPT !.log = Truncated(h.log, m)]
         IN  \E r \in {s, h, t, Appended(t, m)}, ok \in BOOLEAN :
                /\ srv' = [srv EXCEPT ![m.to] = r]
                /\ Network({AppendReply(m.to, m, r, ok)})
BY DEF HandleAppend

LEMMA HandleAppendTyped ==
  ASSUME Typed, NEW m \in msgs, HandleAppend(m.to, m)
  PROVE  Typed'
<1> DEFINE s == StepDown(srv[m.to], m.term)
           h == [s EXCEPT !.leader = m.from]
           t == [h EXCEPT !.log = Truncated(h.log, m)]
<1>1. PICK r \in {s, h, t, Appended(t, m)}, ok \in BOOLEAN :
        /\ srv' = [srv EXCEPT ![m.to] = r]
        /\ Network({AppendReply(m.to, m, r, ok)})
  BY HandleAppendCases
<1>2. /\ NodeOK(m.to, s) /\ m.from \in Servers /\ m.to \in Servers /\ m.from # m.to
      /\ m.prev \in Nat /\ m.entries \in Seq(Entry) /\ m.commit \in Nat
  BY Carried DEF HandleAppend
<1> HIDE DEF s
<1>3. NodeOK(m.to, h)
  BY <1>2 DEF NodeOK, Node, LeaderState
<1>4. NodeOK(m.to, t)
  <2> DEFINE cut == Truncated(h.log, m)
  <2>1. cut \in Seq(Entry)
    BY <1>3, TruncatedTyped DEF NodeOK, Node
  <2> HIDE DEF cut, h
  <2> QED
    BY <1>3, <2>1 DEF NodeOK, Node, LeaderState, cut
<1> HIDE DEF h, t
<1>5. NodeOK(m.to, r)
  BY <1>1, <1>2, <1>3, <1>4, AppendedTyped
<1>6. MessageOK(AppendReply(m.to, m, r, ok))
  BY <1>2, <1>5, AppendReplyTyped
<1>7. \A o \in msgs' : MessageOK(o)
  BY <1>1, <1>6, NetworkKeeps DEF Typed
<1> QED
  BY <1>1, <1>2, <1>5, <1>7, OneChanges

LEMMA HandleAppendReplyTyped ==
  ASSUME Typed, NEW m \in msgs, HandleAppendReply(m.to, m)
  PROVE  Typed'
<1> DEFINE s == StepDown(srv[m.to], m.term)
           a == [s EXCEPT !.match[m.from] = m.match, !.next[m.from] = m.match + 1]
           n == MedianMatch(a.match)
           b == [s EXCEPT !.next[m.from] = @ - 1]
           r == IF s.state # "leader" THEN s
                ELSE IF m.ok THEN IF Committable(a, n) THEN [a EXCEPT !.commit = n] ELSE a
                ELSE IF s.next[m.from] > 1 THEN b ELSE s
<1>1. srv' = [srv EXCEPT ![m.to] = r] /\ Network({})
  BY DEF HandleAppendReply
<1>2. NodeOK(m.to, s) /\ m.to \in Servers /\ m.from \in Others(m.to) /\ m.match \in Nat
  BY Carried DEF HandleAppendReply, Others
<1> HIDE DEF s, n
<1>3. ASSUME s.state = "leader" PROVE NodeOK(m.to, a)
  <2> DEFINE match == [s.match EXCEPT ![m.from] = m.match]
             next == [s.next EXCEPT ![m.from] = m.match + 1]
  <2>1. match \in [Others(m.to) -> Nat] /\ next \in [Others(m.to) -> Nat \ {0}]
    BY <1>2, <1>3 DEF NodeOK, LeaderState
  <2>2. a = [s EXCEPT !.match = match, !.next = next]
    BY <1>2 DEF NodeOK, Node
  <2> HIDE DEF match, next, a
  <2> QED
    BY <1>2, <1>3, <2>1, <2>2 DEF NodeOK, Node, LeaderState
<1>4. ASSUME s.state = "leader", s.next[m.from] > 1 PROVE NodeOK(m.to, b)
  <2> DEFINE next == [s.next EXCEPT ![m.from] = s.next[m.from] - 1]
  <2>1. next \in [Others(m.to) -> Nat \ {0}]
    BY <1>2, <1>4 DEF NodeOK, LeaderState
  <2>2. b = [s EXCEPT !.next = next]
    BY <1>2 DEF NodeOK, Node
  <2> HIDE DEF next, b
  <2> QED
    BY <1>2, <1>4, <2>1, <2>2 DEF NodeOK, Node, LeaderState
<1> HIDE DEF a, b
<1>5. ASSUME s.state = "leader", Committable(a, n) PROVE NodeOK(m.to, [a EXCEPT !.commit = n])
  <2>1. n \in Nat
    BY <1>3, <1>5, LenProperties DEF Committable, NodeOK, Node
  <2> QED
    BY <1>3, <1>5, <2>1 DEF NodeOK, Node, LeaderState
<1>6. NodeOK(m.to, r)
  BY <1>2, <1>3, <1>4, <1>5
<1>7. \A o \in msgs' : MessageOK(o)
  BY <1>1, NetworkKeeps DEF Typed
<1> HIDE DEF r
<1> QED
  BY <1>1, <1>2, <1>6, <1>7, OneChanges

LEMMA TypedInductive == Typed /\ [Next]_vars => Typed'
<1> SUFFICES ASSUME Typed, [Next]_vars PROVE Typed'
  OBVIOUS
<1>1. ASSUME NEW i \in Servers, StartElection(i) \/ ClientCommand(i) \/ Heartbeat(i)
      PROVE  Typed'
  BY <1>1, StartElectionTyped, ClientCommandTyped, HeartbeatTyped
<1>2. ASSUME NEW i \in Servers, NEW j \in Servers, SendEntries(i, j) PROVE Typed'
  BY <1>2, SendEntriesTyped
<1>3. ASSUME NEW m \in msgs, Receive(m) PROVE Typed'
  BY <1>3, HandleRequestVoteTyped, HandleVoteReplyTyped, HandleAppendTyped,
     HandleAppendReplyTyped DEF Receive
<1>4. CASE UNCHANGED vars
  BY <1>4 DEF vars, Typed
<1> QED
  BY <1>1, <1>2, <1>3, <1>4 DEF Next

-----------------------------------------------------------------------------
(* Votes                                                                   *)

\* j gave its vote of term t to i: it still has, or is past that term.
Cast(i, j, t) ==
    \/ srv[j].term > t
    \/ srv[j].term = t /\ srv[j].voted = i

Grant(m) == m.type = "voted" /\ m.granted

\* What a candidate or leader has counted was cast for it.
CountedAreCast ==
    \A i \in Servers : srv[i].state # "follower" =>
        \A j \in srv[i].votes : Cast(i, j, srv[i].term)

GrantsAreCast == \A m \in msgs : Grant(m) => Cast(m.to, m.from, m.term)

\* Nobody's vote is there twice: counted by two, counted by one and granted to
\* another, or granted to two.
CountedOnce ==
    \A i, j \in Servers :
        /\ srv[i].state # "follower" /\ srv[j].state # "follower"
        /\ srv[i].term = srv[j].term /\ srv[i].votes \cap srv[j].votes # {}
        => i = j

CountedOrGranted ==
    \A i \in Servers, m \in msgs :
        /\ srv[i].state # "follower" /\ Grant(m)
        /\ srv[i].term = m.term /\ m.from \in srv[i].votes
        => i = m.to

GrantedOnce ==
    \A m, n \in msgs :
        Grant(m) /\ Grant(n) /\ m.from = n.from /\ m.term = n.term => m.to = n.to

LeadersHaveQuorum ==
    \A i \in Servers : srv[i].state = "leader" => Quorum(srv[i].votes)

VoteInv ==
    /\ CountedAreCast /\ GrantsAreCast
    /\ CountedOnce /\ CountedOrGranted /\ GrantedOnce
    /\ LeadersHaveQuorum

\* What the argument needs of the types.
LEMMA VoteTypes ==
  ASSUME Typed
  PROVE  /\ \A i \in Servers : /\ srv[i].term \in Nat /\ srv[i].votes \subseteq Servers
                               /\ srv[i].voted \in Servers \cup {None}
                               /\ srv[i].state \in States
         /\ \A m \in msgs : /\ m.term \in Nat /\ m.from \in Servers /\ m.to \in Servers
                            /\ m.from # m.to
<1>1. \A i \in Servers : srv[i] \in Node(i)
  BY DEF Typed, NodeOK
<1>2. \A m \in msgs : m \in Message /\ m.from # m.to
  BY DEF Typed, MessageOK
<1>3. ASSUME NEW m \in Message
      PROVE  m.term \in Nat /\ m.from \in Servers /\ m.to \in Servers
  BY DEF Message
<1> QED
  BY <1>1, <1>2, <1>3 DEF Node

\* A step of one server that counts no vote, casts none and grants none: it
\* keeps term, vote and candidacy, or steps down to a newer term.
LEMMA QuietStep ==
  ASSUME Typed, VoteInv, NEW i \in Servers,
         \A j \in Servers \ {i} : srv'[j] = srv[j],
         \/ /\ srv'[i].term = srv[i].term /\ srv'[i].voted = srv[i].voted
            /\ srv'[i].state = srv[i].state /\ srv'[i].votes = srv[i].votes
         \/ /\ srv'[i].term \in Nat /\ srv'[i].term > srv[i].term
            /\ srv'[i].state = "follower",
         \A m \in msgs' : Grant(m) => m \in msgs
  PROVE  VoteInv'
<1> USE VoteTypes
<1>1. \A j \in Servers : srv'[j].state # "follower" =>
        /\ srv[j].state = srv'[j].state /\ srv[j].term = srv'[j].term
        /\ srv[j].votes = srv'[j].votes
  OBVIOUS
<1>t. \A j \in Servers : srv[j].term \in Nat /\ srv'[j].term \in Nat
  OBVIOUS
<1>2. ASSUME NEW j \in Servers, NEW k \in Servers, NEW t \in Nat, Cast(k, j, t)
      PROVE  Cast(k, j, t)'
  <2>1. CASE j # i
    BY <1>2, <2>1 DEF Cast
  <2>2. CASE j = i /\ srv'[i].term = srv[i].term /\ srv'[i].voted = srv[i].voted
    BY <1>2, <2>2 DEF Cast
  <2>3. CASE j = i /\ srv'[i].term > srv[i].term
    <3>1. srv[i].term >= t
      BY <1>2, <1>t, <2>3 DEF Cast
    <3>2. srv'[j].term > t
      BY <1>t, <2>3, <3>1
    <3> QED
      BY <3>2 DEF Cast
  <2> QED
    BY <2>1, <2>2, <2>3
<1>3. CountedAreCast'
  BY <1>1, <1>2 DEF VoteInv, CountedAreCast
<1>4. GrantsAreCast'
  BY <1>2 DEF VoteInv, GrantsAreCast
<1>5. CountedOnce'
  BY <1>1 DEF VoteInv, CountedOnce
<1>6. CountedOrGranted'
  BY <1>1 DEF VoteInv, CountedOrGranted
<1>7. GrantedOnce'
  BY DEF VoteInv, GrantedOnce
<1>8. LeadersHaveQuorum'
  BY <1>1 DEF VoteInv, LeadersHaveQuorum
<1> QED
  BY <1>3, <1>4, <1>5, <1>6, <1>7, <1>8 DEF VoteInv

LEMMA StartElectionVotes ==
  ASSUME Typed, VoteInv, NEW i \in Servers, StartElection(i)
  PROVE  VoteInv'
<1> USE VoteTypes
<1>1. /\ \A j \in Servers \ {i} : srv'[j] = srv[j]
      /\ srv'[i].term = srv[i].term + 1 /\ srv'[i].voted = i
      /\ srv'[i].state = "candidate" /\ srv'[i].votes = {i}
  <2> DEFINE s == [srv[i] EXCEPT !.term = @ + 1, !.voted = i,
                                 !.state = "candidate", !.votes = {i}]
  <2>1. srv' = [srv EXCEPT ![i] = s] /\ srv[i] \in Node(i) /\ i \in DOMAIN srv
    BY DEF StartElection, Typed, NodeOK
  <2>2. s.term = srv[i].term + 1 /\ s.voted = i /\ s.state = "candidate" /\ s.votes = {i}
    BY <2>1 DEF Node
  <2> HIDE DEF s
  <2> QED
    BY <2>1, <2>2 DEF Typed
<1>2. \A m \in msgs' : Grant(m) => m \in msgs
  <2>1. PICK s : Network({VoteRequest(i, j, s) : j \in Others(i)})
    BY DEF StartElection
  <2> QED
    BY <2>1, NetworkKeeps DEF Grant, VoteRequest
<1>3. ASSUME NEW j \in Servers, NEW k \in Servers, NEW t \in Nat, Cast(k, j, t)
      PROVE  Cast(k, j, t)'
  <2>1. CASE j # i
    BY <1>1, <1>3, <2>1 DEF Cast
  <2>2. CASE j = i
    <3>1. srv[i].term \in Nat /\ srv[i].term >= t
      BY <1>3, <2>2 DEF Cast
    <3>2. srv'[j].term > t
      BY <1>1, <2>2, <3>1
    <3> QED
      BY <3>2 DEF Cast
  <2> QED
    BY <2>1, <2>2
<1>4. CountedAreCast'
  BY <1>1, <1>3 DEF VoteInv, CountedAreCast, Cast
<1>5. GrantsAreCast'
  BY <1>2, <1>3 DEF VoteInv, GrantsAreCast
\* Nobody has i's vote of the new term yet.
<1>6. \A j \in Servers \ {i} : srv[j].state # "follower" /\ srv[j].term = srv[i].term + 1
        => i \notin srv[j].votes
  BY DEF VoteInv, CountedAreCast, Cast
<1>7. \A m \in msgs : Grant(m) /\ m.term = srv[i].term + 1 => m.from # i
  BY DEF VoteInv, GrantsAreCast, Cast
<1>8. CountedOnce'
  BY <1>1, <1>6 DEF VoteInv, CountedOnce
<1>9. CountedOrGranted'
  BY <1>1, <1>2, <1>7 DEF VoteInv, CountedOrGranted
<1>10. GrantedOnce' /\ LeadersHaveQuorum'
  BY <1>1, <1>2 DEF VoteInv, GrantedOnce, LeadersHaveQuorum
<1> QED
  BY <1>4, <1>5, <1>8, <1>9, <1>10 DEF VoteInv

LEMMA StepDownVotes ==
  ASSUME NEW i \in Servers, NEW s, NodeOK(i, s), NEW t \in Nat
  PROVE  LET d == StepDown(s, t) IN
         /\ NodeOK(i, d) /\ t <= d.term /\ s.term <= d.term
         /\ \/ d = s
            \/ d.term = t /\ t > s.term /\ d.state = "follower" /\ d.voted = None
<1>1. NodeOK(i, StepDown(s, t))
  BY StepDownTyped
<1>2. s.term \in Nat
  BY DEF NodeOK, Node
<1>3. CASE t > s.term
  <2>1. /\ StepDown(s, t).term = t /\ StepDown(s, t).state = "follower"
        /\ StepDown(s, t).voted = None
    BY <1>3 DEF StepDown, NodeOK, Node
  <2> QED
    BY <1>1, <1>2, <1>3, <2>1
<1>4. CASE ~(t > s.term)
  BY <1>1, <1>2, <1>4 DEF StepDown
<1> QED
  BY <1>3, <1>4

\* A handler that does no more to the vote than the step down, and grants none.
LEMMA QuietHandler ==
  ASSUME Typed, VoteInv, NEW m \in msgs, NEW r,
         srv' = [srv EXCEPT ![m.to] = r],
         LET s == StepDown(srv[m.to], m.term) IN
           /\ r.term = s.term /\ r.voted = s.voted /\ r.state = s.state /\ r.votes = s.votes,
         \A o \in msgs' : Grant(o) => o \in msgs
  PROVE  VoteInv'
<1> DEFINE i == m.to
           s == StepDown(srv[i], m.term)
<1>1. i \in Servers /\ m.term \in Nat /\ NodeOK(i, srv[i]) /\ i \in DOMAIN srv
  BY VoteTypes DEF Typed
<1>2. /\ NodeOK(i, s) /\ m.term <= s.term /\ srv[i].term <= s.term
      /\ \/ s = srv[i]
         \/ s.term = m.term /\ m.term > srv[i].term /\ s.state = "follower"
  BY <1>1, StepDownVotes
<1> HIDE DEF s
<1>3. /\ \A j \in Servers \ {i} : srv'[j] = srv[j]
      /\ srv'[i] = r
  BY <1>1 DEF Typed
<1>4. r.term = s.term /\ r.voted = s.voted /\ r.state = s.state /\ r.votes = s.votes
  BY DEF s
<1> HIDE DEF i
<1>5. s.term \in Nat
  BY <1>2 DEF NodeOK, Node
<1>6. \/ /\ srv'[i].term = srv[i].term /\ srv'[i].voted = srv[i].voted
         /\ srv'[i].state = srv[i].state /\ srv'[i].votes = srv[i].votes
      \/ /\ srv'[i].term \in Nat /\ srv'[i].term > srv[i].term
         /\ srv'[i].state = "follower"
  BY <1>2, <1>3, <1>4, <1>5
<1> QED
  BY <1>1, <1>3, <1>6, QuietStep

LEMMA HandleAppendVotes ==
  ASSUME Typed, VoteInv, NEW m \in msgs, HandleAppend(m.to, m)
  PROVE  VoteInv'
<1> DEFINE s == StepDown(srv[m.to], m.term)
           h == [s EXCEPT !.leader = m.from]
           t == [h EXCEPT !.log = Truncated(h.log, m)]
<1>1. PICK r \in {s, h, t, Appended(t, m)}, ok \in BOOLEAN :
        /\ srv' = [srv EXCEPT ![m.to] = r]
        /\ Network({AppendReply(m.to, m, r, ok)})
  BY HandleAppendCases
<1>2. s \in Node(m.to)
  BY Carried DEF NodeOK
<1>3. r.term = s.term /\ r.voted = s.voted /\ r.state = s.state /\ r.votes = s.votes
  <2> HIDE DEF s
  <2>1. h.term = s.term /\ h.voted = s.voted /\ h.state = s.state /\ h.votes = s.votes
    BY <1>2 DEF Node
  <2>2. t.term = s.term /\ t.voted = s.voted /\ t.state = s.state /\ t.votes = s.votes
    BY <1>2 DEF Node
  <2>3. LET a == Appended(t, m) IN
        a.term = s.term /\ a.voted = s.voted /\ a.state = s.state /\ a.votes = s.votes
    BY <2>2 DEF Appended
  <2> HIDE DEF h, t
  <2> QED
    BY <1>1, <2>1, <2>2, <2>3
<1>4. \A o \in msgs' : Grant(o) => o \in msgs
  BY <1>1, NetworkKeeps DEF Grant, AppendReply
<1> HIDE DEF h, t
<1> QED
  BY <1>1, <1>3, <1>4, QuietHandler

LEMMA HandleAppendReplyVotes ==
  ASSUME Typed, VoteInv, NEW m \in msgs, HandleAppendReply(m.to, m)
  PROVE  VoteInv'
<1> DEFINE s == StepDown(srv[m.to], m.term)
           a == [s EXCEPT !.match[m.from] = m.match, !.next[m.from] = m.match + 1]
           n == MedianMatch(a.match)
           b == [s EXCEPT !.next[m.from] = @ - 1]
           r == IF s.state # "leader" THEN s
                ELSE IF m.ok THEN IF Committable(a, n) THEN [a EXCEPT !.commit = n] ELSE a
                ELSE IF s.next[m.from] > 1 THEN b ELSE s
<1>1. srv' = [srv EXCEPT ![m.to] = r] /\ Network({})
  BY DEF HandleAppendReply
<1>2. s \in Node(m.to)
  BY Carried DEF NodeOK
<1>3. r.term = s.term /\ r.voted = s.voted /\ r.state = s.state /\ r.votes = s.votes
  <2> HIDE DEF s, n
  <2>1. a.term = s.term /\ a.voted = s.voted /\ a.state = s.state /\ a.votes = s.votes
    BY <1>2 DEF Node
  <2>2. LET c == [a EXCEPT !.commit = n] IN
        c.term = s.term /\ c.voted = s.voted /\ c.state = s.state /\ c.votes = s.votes
    BY <2>1
  <2>3. b.term = s.term /\ b.voted = s.voted /\ b.state = s.state /\ b.votes = s.votes
    BY <1>2 DEF Node
  <2> HIDE DEF a, b
  <2> QED
    BY <2>1, <2>2, <2>3
<1>4. \A o \in msgs' : Grant(o) => o \in msgs
  BY <1>1, NetworkKeeps
<1> HIDE DEF r
<1> QED
  BY <1>1, <1>3, <1>4, QuietHandler

LEMMA HandleRequestVoteVotes ==
  ASSUME Typed, VoteInv, NEW m \in msgs, HandleRequestVote(m.to, m)
  PROVE  VoteInv'
<1> DEFINE i == m.to
           c == m.from
           s == StepDown(srv[i], m.term)
           granted == ShouldGrant(s, m)
           r == IF granted THEN [s EXCEPT !.voted = c] ELSE s
           reply == VoteReply(i, m, s, granted)
<1>1. srv' = [srv EXCEPT ![i] = r] /\ msgs' \subseteq msgs \cup {reply}
  BY NetworkKeeps DEF HandleRequestVote
<1>2. /\ i \in Servers /\ c \in Servers /\ m.term \in Nat /\ NodeOK(i, srv[i])
      /\ i \in DOMAIN srv
  BY VoteTypes DEF Typed
<1>3. /\ NodeOK(i, s) /\ m.term <= s.term /\ srv[i].term <= s.term
      /\ \/ s = srv[i]
         \/ s.term = m.term /\ m.term > srv[i].term /\ s.state = "follower" /\ s.voted = None
  BY <1>2, StepDownVotes
<1>4. /\ reply.type = "voted" /\ reply.from = i /\ reply.to = c
      /\ reply.term = s.term /\ reply.granted = granted
  BY DEF VoteReply
<1>5. CASE ~granted
  <2>1. r = s
    BY <1>5
  <2>2. \A o \in msgs' : Grant(o) => o \in msgs
    BY <1>1, <1>4, <1>5 DEF Grant
  <2> HIDE DEF r
  <2> QED
    BY <1>1, <2>1, <2>2, QuietHandler
<1>6. CASE granted
  <2>1. s.voted \in {None, c}
    BY <1>6 DEF ShouldGrant
  <2> HIDE DEF s, granted, reply
  <2>2. /\ r.term = s.term /\ r.voted = c /\ r.state = s.state /\ r.votes = s.votes
        /\ \A j \in Servers \ {i} : srv'[j] = srv[j]
        /\ srv'[i] = r
    BY <1>1, <1>2, <1>3, <1>6 DEF NodeOK, Node, Typed
  <2> HIDE DEF r
  \* Whatever i has given away in this term, it has given to c.
  <2>3. ASSUME NEW j \in Servers, Cast(j, i, s.term) PROVE j = c
    BY <1>2, <1>3, <2>1, <2>3, RaftAssumption DEF Cast, NodeOK, Node
  <2>4. ASSUME NEW j \in Servers, NEW k \in Servers, NEW t \in Nat, Cast(j, k, t)
        PROVE  Cast(j, k, t)'
    <3>1. CASE k # i
      BY <2>2, <2>4, <3>1 DEF Cast
    <3>2. CASE k = i /\ t = s.term
      BY <2>2, <2>3, <2>4, <3>2 DEF Cast
    <3>3. CASE k = i /\ t # s.term
      BY <1>2, <1>3, <2>2, <2>4, <3>3 DEF Cast, NodeOK, Node
    <3> QED
      BY <3>1, <3>2, <3>3
  <2>5. \A j \in Servers : srv'[j].state # "follower" =>
          /\ srv[j].state = srv'[j].state /\ srv[j].term = srv'[j].term
          /\ srv[j].votes = srv'[j].votes
    BY <1>3, <2>2
  <2>6. CountedAreCast'
    BY <2>4, <2>5, VoteTypes DEF VoteInv, CountedAreCast
  <2>7. GrantsAreCast'
    <3> SUFFICES ASSUME NEW o \in msgs', Grant(o) PROVE Cast(o.to, o.from, o.term)'
      BY DEF GrantsAreCast
    <3>1. CASE o \in msgs
      BY <2>4, <3>1, VoteTypes DEF VoteInv, GrantsAreCast
    <3>2. CASE o = reply
      BY <1>4, <2>2, <3>2 DEF Cast
    <3> QED
      BY <1>1, <3>1, <3>2
  <2>8. CountedOnce'
    BY <2>5 DEF VoteInv, CountedOnce
  <2>9. CountedOrGranted'
    <3> SUFFICES ASSUME NEW j \in Servers, NEW o \in msgs', Grant(o),
                        srv'[j].state # "follower", srv'[j].term = o.term,
                        o.from \in srv'[j].votes
                 PROVE  j = o.to
      BY DEF CountedOrGranted, Grant
    <3>1. CASE o \in msgs
      BY <2>5, <3>1 DEF VoteInv, CountedOrGranted
    <3>2. CASE o = reply
      <4>1. Cast(j, i, s.term)
        BY <1>4, <2>5, <3>2 DEF VoteInv, CountedAreCast
      <4> QED
        BY <1>4, <2>3, <3>2, <4>1
    <3> QED
      BY <1>1, <3>1, <3>2
  <2>10. GrantedOnce'
    <3>1. ASSUME NEW o \in msgs, Grant(o), o.from = i, o.term = s.term PROVE o.to = c
      BY <2>3, <3>1, VoteTypes DEF VoteInv, GrantsAreCast
    <3> QED
      BY <1>1, <1>4, <3>1 DEF VoteInv, GrantedOnce, Grant
  <2>11. LeadersHaveQuorum'
    BY <2>5 DEF VoteInv, LeadersHaveQuorum
  <2> QED
    BY <2>6, <2>7, <2>8, <2>9, <2>10, <2>11 DEF VoteInv
<1> QED
  BY <1>5, <1>6

LEMMA HandleVoteReplyVotes ==
  ASSUME Typed, VoteInv, NEW m \in msgs, HandleVoteReply(m.to, m)
  PROVE  VoteInv'
<1> DEFINE i == m.to
           s == StepDown(srv[i], m.term)
           v == [s EXCEPT !.votes = @ \cup {m.from}]
           r == IF ~Counts(s, m) THEN s ELSE IF Quorum(v.votes) THEN Lead(i, v) ELSE v
<1>1. srv' = [srv EXCEPT ![i] = r] /\ msgs' \subseteq msgs /\ m.type = "voted"
  BY NetworkKeeps DEF HandleVoteReply
<1>2. /\ i \in Servers /\ m.from \in Servers /\ m.term \in Nat /\ NodeOK(i, srv[i])
      /\ i \in DOMAIN srv
  BY VoteTypes DEF Typed
<1>3. /\ NodeOK(i, s)
      /\ \/ s = srv[i]
         \/ s.term = m.term /\ m.term > srv[i].term /\ s.state = "follower" /\ s.voted = None
  BY <1>2, StepDownVotes
<1>4. CASE ~Counts(s, m)
  <2>1. r = s
    BY <1>4
  <2>2. \A o \in msgs' : Grant(o) => o \in msgs
    BY <1>1
  <2> HIDE DEF r
  <2> QED
    BY <1>1, <2>1, <2>2, QuietHandler
<1>5. CASE Counts(s, m)
  <2>1. s = srv[i] /\ s.state = "candidate" /\ m.term = s.term /\ Grant(m)
    BY <1>1, <1>3, <1>5 DEF Counts, Grant
  <2> HIDE DEF s
  <2>2. /\ v.term = s.term /\ v.voted = s.voted /\ v.state = s.state
        /\ v.votes = s.votes \cup {m.from} /\ DOMAIN v = DOMAIN s
    BY <1>3 DEF NodeOK, Node
  <2>3. v \in [DOMAIN s -> {v[f] : f \in DOMAIN s}] /\ {"state", "leader", "next", "match"} \subseteq DOMAIN s
    BY <1>3 DEF NodeOK, Node
  <2>4. LET l == Lead(i, v) IN
        l.term = s.term /\ l.voted = s.voted /\ l.state = "leader" /\ l.votes = v.votes
    BY <1>3, <2>2 DEF Lead, NodeOK, Node
  <2>5. /\ r.term = s.term /\ r.voted = s.voted /\ r.votes = s.votes \cup {m.from}
        /\ r.state # "follower" /\ (r.state = "leader" => Quorum(r.votes))
    BY <1>5, <2>1, <2>2, <2>4
  <2> HIDE DEF v, r
  <2>6. srv'[i] = r /\ \A j \in Servers \ {i} : srv'[j] = srv[j]
    BY <1>1, <1>2 DEF Typed
  <2>7. /\ \A j \in Servers : srv'[j].term = srv[j].term /\ srv'[j].voted = srv[j].voted
        /\ \A j \in Servers \ {i} : srv'[j].state = srv[j].state /\ srv'[j].votes = srv[j].votes
        /\ srv'[i].votes = srv[i].votes \cup {m.from}
        /\ srv[i].state = "candidate" /\ srv'[i].state # "follower"
        /\ srv'[i].state = "leader" => Quorum(srv'[i].votes)
    BY <2>1, <2>5, <2>6
  <2>8. \A j \in Servers, k \in Servers, t \in Nat : Cast(j, k, t)' <=> Cast(j, k, t)
    BY <2>7 DEF Cast
  <2>9. Cast(i, m.from, srv[i].term)
    BY <2>1 DEF VoteInv, GrantsAreCast
  <2>10. CountedAreCast'
    <3> SUFFICES ASSUME NEW j \in Servers, srv'[j].state # "follower", NEW k \in srv'[j].votes
                 PROVE  \/ srv'[k].term > srv'[j].term
                        \/ srv'[k].term = srv'[j].term /\ srv'[k].voted = j
      BY DEF CountedAreCast, Cast
    <3>1. k \in Servers
      <4>1. srv[j].votes \subseteq Servers
        BY DEF Typed, NodeOK, Node
      <4> QED
        BY <1>2, <2>7, <4>1
    <3>2. Cast(j, k, srv[j].term)
      BY <2>7, <2>9 DEF VoteInv, CountedAreCast
    <3> QED
      BY <2>7, <3>1, <3>2 DEF Cast
  <2>11. GrantsAreCast'
    BY <1>1, <2>8, VoteTypes DEF VoteInv, GrantsAreCast
  \* Nobody else has counted the voter in this term, or is granted its vote.
  <2>12. ASSUME NEW j \in Servers, srv[j].state # "follower", srv[j].term = srv[i].term,
                m.from \in srv[j].votes
         PROVE  j = i
    BY <2>1, <2>12 DEF VoteInv, CountedOrGranted
  <2>13. ASSUME NEW o \in msgs, Grant(o), o.term = srv[i].term, o.from = m.from
         PROVE  o.to = i
    BY <2>1, <2>13 DEF VoteInv, GrantedOnce
  <2>14. CountedOnce'
    <3> SUFFICES ASSUME NEW j \in Servers, NEW k \in Servers, j # k,
                        srv'[j].state # "follower", srv'[k].state # "follower",
                        srv'[j].term = srv'[k].term, NEW x \in srv'[j].votes, x \in srv'[k].votes
                 PROVE  FALSE
      BY DEF CountedOnce
    <3>1. srv[j].state # "follower" /\ srv[k].state # "follower" /\ srv[j].term = srv[k].term
      BY <2>7
    <3>2. CASE x \in srv[j].votes /\ x \in srv[k].votes
      BY <3>1, <3>2 DEF VoteInv, CountedOnce
    <3>3. CASE x = m.from /\ (j = i \/ k = i)
      BY <2>7, <2>12, <3>1, <3>3
    <3> QED
      BY <2>7, <3>2, <3>3
  <2>15. CountedOrGranted'
    <3> SUFFICES ASSUME NEW j \in Servers, NEW o \in msgs, Grant(o),
                        srv'[j].state # "follower", srv'[j].term = o.term,
                        o.from \in srv'[j].votes
                 PROVE  j = o.to
      BY <1>1 DEF CountedOrGranted, Grant
    <3>1. CASE o.from \in srv[j].votes
      BY <2>7, <3>1 DEF VoteInv, CountedOrGranted
    <3>2. CASE j = i /\ o.from = m.from
      BY <2>7, <2>13, <3>2
    <3> QED
      BY <2>7, <3>1, <3>2
  <2>16. GrantedOnce' /\ LeadersHaveQuorum'
    BY <1>1, <2>7 DEF VoteInv, GrantedOnce, LeadersHaveQuorum
  <2> QED
    BY <2>10, <2>11, <2>14, <2>15, <2>16 DEF VoteInv
<1> QED
  BY <1>4, <1>5

\* Steps that only send, or only append to a log, and messages of other kinds.
LEMMA OtherStepsVotes ==
  ASSUME Typed, VoteInv, NEW i \in Servers,
         ClientCommand(i) \/ Heartbeat(i) \/ \E j \in Servers : SendEntries(i, j)
  PROVE  VoteInv'
<1>1. \A m \in msgs' : Grant(m) => m \in msgs
  <2>1. CASE ClientCommand(i)
    BY <2>1, NetworkKeeps DEF ClientCommand
  <2>2. CASE Heartbeat(i)
    BY <2>2, NetworkKeeps DEF Heartbeat, AppendRequest, Grant
  <2>3. ASSUME NEW j \in Servers, SendEntries(i, j)
        PROVE  \A m \in msgs' : Grant(m) => m \in msgs
    <3> DEFINE new == AppendRequest(i, j, srv[i].next[j] - 1,
                          SubSeq(srv[i].log, srv[i].next[j], Len(srv[i].log)))
    <3>1. Network({new})
      BY <2>3 DEF SendEntries
    <3>2. new.type = "append"
      BY DEF AppendRequest
    <3> HIDE DEF new
    <3> QED
      BY <3>1, <3>2, NetworkKeeps DEF Grant
  <2> QED
    BY <2>1, <2>2, <2>3
<1>2. /\ \A j \in Servers \ {i} : srv'[j] = srv[j]
      /\ srv'[i].term = srv[i].term /\ srv'[i].voted = srv[i].voted
      /\ srv'[i].state = srv[i].state /\ srv'[i].votes = srv[i].votes
  <2>1. CASE UNCHANGED srv
    BY <2>1
  <2>2. CASE ClientCommand(i)
    <3>1. srv[i] \in Node(i) /\ i \in DOMAIN srv
      BY DEF Typed, NodeOK
    <3> QED
      BY <2>2, <3>1 DEF ClientCommand, Typed, Node
  <2> QED
    BY <2>1, <2>2 DEF Heartbeat, SendEntries
<1> QED
  BY <1>1, <1>2, QuietStep

LEMMA VotesInductive == Typed /\ VoteInv /\ [Next]_vars => VoteInv'
<1> SUFFICES ASSUME Typed, VoteInv, [Next]_vars PROVE VoteInv'
  OBVIOUS
<1>1. ASSUME NEW i \in Servers, StartElection(i) PROVE VoteInv'
  BY <1>1, StartElectionVotes
<1>2. ASSUME NEW i \in Servers,
             ClientCommand(i) \/ Heartbeat(i) \/ \E j \in Servers : SendEntries(i, j)
      PROVE  VoteInv'
  BY <1>2, OtherStepsVotes
<1>3. ASSUME NEW m \in msgs, Receive(m) PROVE VoteInv'
  BY <1>3, HandleRequestVoteVotes, HandleVoteReplyVotes, HandleAppendVotes,
     HandleAppendReplyVotes DEF Receive
<1>4. CASE UNCHANGED vars
  BY <1>4 DEF vars, VoteInv, CountedAreCast, GrantsAreCast, CountedOnce, CountedOrGranted,
              GrantedOnce, LeadersHaveQuorum, Cast
<1> QED
  BY <1>1, <1>2, <1>3, <1>4 DEF Next

LEMMA InitVotes == Init => VoteInv
BY DEF Init, Fresh, VoteInv, CountedAreCast, GrantsAreCast, CountedOnce, CountedOrGranted,
       GrantedOnce, LeadersHaveQuorum

-----------------------------------------------------------------------------
(* The specification                                                       *)

LEMMA MajoritiesMeet ==
  ASSUME NEW A \in SUBSET Servers, NEW B \in SUBSET Servers, Quorum(A), Quorum(B)
  PROVE  A \cap B # {}
<1>1. IsFiniteSet(A) /\ IsFiniteSet(B) /\ IsFiniteSet(Servers)
  BY RaftAssumption, FS_Subset
<1>2. /\ Cardinality(A) \in Nat /\ Cardinality(B) \in Nat /\ Cardinality(Servers) \in Nat
  BY <1>1, FS_CardinalityType
<1>3. Cardinality(A) + Cardinality(B) > Cardinality(Servers)
  BY <1>2 DEF Quorum
<1> QED
  BY <1>1, <1>3, FS_MajoritiesIntersect

LEMMA AlwaysInv == Spec => [](Typed /\ VoteInv)
<1>1. Init => Typed /\ VoteInv
  BY InitTyped, InitVotes
<1>2. Typed /\ VoteInv /\ [Next]_vars => (Typed /\ VoteInv)'
  BY TypedInductive, VotesInductive
<1> QED
  BY <1>1, <1>2, PTL DEF Spec

\* Every node's state has its types, and next_index and match_index exist on
\* leaders alone, whatever messages of whatever term a node receives.
THEOREM RaftTypeOK == Spec => []TypeOK
<1>1. Typed => TypeOK
  BY DEF Typed, TypeOK, NodeOK, Node, LeaderState, States
<1> QED
  BY <1>1, AlwaysInv, PTL

\* A term has at most one leader, for any number of servers and candidates and
\* any network (start_election, should_grant_vote, handle_request_vote_response).
THEOREM OneLeaderPerTerm == Spec => []ElectionSafety
<1>1. ASSUME Typed, VoteInv PROVE ElectionSafety
  <2> SUFFICES ASSUME NEW i \in Servers, NEW j \in Servers,
                      Leads(i, srv[j].term), Leads(j, srv[i].term)
               PROVE  i = j
    BY DEF ElectionSafety
  <2>1. /\ srv[i].state = "leader" /\ srv[j].state = "leader" /\ srv[i].term = srv[j].term
    BY DEF Leads
  <2>2. srv[i].votes \cap srv[j].votes # {}
    BY <1>1, <2>1, MajoritiesMeet, VoteTypes DEF VoteInv, LeadersHaveQuorum
  <2> QED
    BY <1>1, <2>1, <2>2 DEF VoteInv, CountedOnce
<1> QED
  BY <1>1, AlwaysInv, PTL

-----------------------------------------------------------------------------
(* What has led                                                            *)

\* The record of the terms: who led a term, the votes it had counted, and its
\* log when it last led.  The code keeps no such thing; that a record exists
\* which agrees with the state is the invariant.
Records == [by : Servers \cup {None}, votes : SUBSET Servers, log : Seq(Entry)]
Histories == [Nat -> Records]

Led(h, t) == h[t].by # None

\* The votes of a leader of the past still stand: cast for it, counted by no
\* other, and granted to no other.
VotesStand(h) ==
    \A t \in Nat : Led(h, t) =>
        /\ Quorum(h[t].votes)
        /\ \A j \in h[t].votes : Cast(h[t].by, j, t)
        /\ \A i \in Servers :
             /\ srv[i].state # "follower" /\ srv[i].term = t
             /\ srv[i].votes \cap h[t].votes # {}
             => i = h[t].by
        /\ \A m \in msgs : Grant(m) /\ m.term = t /\ m.from \in h[t].votes => m.to = h[t].by

\* The leader of a term leads it still, with the recorded log, or is past it.
LeadersRecorded(h) ==
    /\ \A t \in Nat : Led(h, t) =>
        LET s == srv[h[t].by] IN
        \/ s.term > t
        \/ s.term = t /\ s.state = "leader" /\ s.log = h[t].log
    /\ \A i \in Servers : srv[i].state = "leader" => h[srv[i].term].by = i

\* Up to each of its entries, a log is that of the leader of the entry's term.
Derived(h, log) ==
    \A n \in DOMAIN log : LET H == h[log[n].term] IN
        /\ H.by # None /\ n <= Len(H.log)
        /\ \A k \in 1..n : log[k] = H.log[k]

LogsDerived(h) ==
    /\ \A i \in Servers : Derived(h, srv[i].log)
    /\ \A t \in Nat : Led(h, t) => Derived(h, h[t].log)

\* A request to append is a piece of the log of the leader of its term.
Excerpt(h, m) == LET H == h[m.term] IN
    /\ H.by = m.from
    /\ m.prev + Len(m.entries) <= Len(H.log)
    /\ m.prevTerm = TermAt(H.log, m.prev)
    /\ \A k \in DOMAIN m.entries : m.entries[k] = H.log[m.prev + k]

Recorded(h) ==
    /\ VotesStand(h) /\ LeadersRecorded(h) /\ LogsDerived(h)
    /\ \A m \in msgs : m.type = "append" => Excerpt(h, m)

HistoryInv == \E h \in Histories : Recorded(h)

LEMMA LogTypes ==
  ASSUME Typed, NEW h \in Histories
  PROVE  /\ \A i \in Servers : srv[i].log \in Seq(Entry)
         /\ \A t \in Nat : /\ h[t].by \in Servers \cup {None} /\ h[t].votes \subseteq Servers
                           /\ h[t].log \in Seq(Entry)
         /\ \A log \in Seq(Entry) : /\ Len(log) \in Nat /\ DOMAIN log = 1..Len(log)
                                    /\ \A n \in DOMAIN log : log[n] \in Entry /\ log[n].term \in Nat
<1>1. \A i \in Servers : srv[i].log \in Seq(Entry)
  BY DEF Typed, NodeOK, Node
<1>2. \A t \in Nat : h[t] \in Records
  BY DEF Histories
<1>3. ASSUME NEW log \in Seq(Entry)
      PROVE  /\ Len(log) \in Nat /\ DOMAIN log = 1..Len(log)
             /\ \A n \in DOMAIN log : log[n] \in Entry /\ log[n].term \in Nat
  <2>1. Len(log) \in Nat /\ DOMAIN log = 1..Len(log)
    BY LenProperties
  <2>2. ASSUME NEW n \in DOMAIN log PROVE log[n] \in Entry
    BY <2>1, ElementOfSeq
  <2> QED
    BY <2>1, <2>2 DEF Entry
<1> QED
  BY <1>1, <1>2, <1>3 DEF Records

-----------------------------------------------------------------------------
(* What one server's step leaves of the record                             *)

Alone(i) == \A j \in Servers \ {i} : srv'[j] = srv[j]

OneVote(i) ==
    \/ srv'[i].term > srv[i].term
    \/ srv'[i].term = srv[i].term /\ srv[i].voted \in {None, srv'[i].voted}

LEMMA CastStays ==
  ASSUME Typed, Typed', NEW i \in Servers, Alone(i), OneVote(i),
         NEW j \in Servers, NEW k \in Servers, NEW t \in Nat, Cast(j, k, t)
  PROVE  Cast(j, k, t)'
<1>0. srv[i].term \in Nat /\ srv'[i].term \in Nat
  BY DEF Typed, NodeOK, Node
<1>1. CASE k # i
  BY <1>1 DEF Cast, Alone
<1>2. CASE k = i
  BY <1>0, <1>2, RaftAssumption DEF Cast, OneVote
<1> QED
  BY <1>1, <1>2

\* Votes are added where they are cast or where they were granted.
VotesAdded(i) ==
    /\ \/ srv'[i].state = "follower"
       \/ /\ srv[i].state # "follower" /\ srv'[i].term = srv[i].term
          /\ \A k \in srv'[i].votes :
               \/ k \in srv[i].votes
               \/ \E m \in msgs : Grant(m) /\ m.from = k /\ m.to = i /\ m.term = srv[i].term
       \/ srv'[i].voted = i /\ srv'[i].votes = {i}
    /\ \A m \in msgs' : Grant(m) =>
         m \in msgs \/ (m.from = i /\ m.term = srv'[i].term /\ m.to = srv'[i].voted)

LEMMA VotesStandStep ==
  ASSUME Typed, Typed', NEW h \in Histories, VotesStand(h),
         NEW i \in Servers, Alone(i), OneVote(i), VotesAdded(i)
  PROVE  VotesStand(h)'
<1> SUFFICES ASSUME NEW t \in Nat, Led(h, t)
             PROVE  /\ Quorum(h[t].votes)
                    /\ \A j \in h[t].votes : Cast(h[t].by, j, t)'
                    /\ \A j \in Servers :
                         /\ srv'[j].state # "follower" /\ srv'[j].term = t
                         /\ srv'[j].votes \cap h[t].votes # {}
                         => j = h[t].by
                    /\ \A m \in msgs' :
                         Grant(m) /\ m.term = t /\ m.from \in h[t].votes => m.to = h[t].by
  BY DEF VotesStand, Cast, Grant, Quorum, Led
<1>1. /\ h[t].by \in Servers /\ h[t].votes \subseteq Servers
      /\ srv'[i].term \in Nat
  BY LogTypes DEF Led, Typed, NodeOK, Node
<1>2. Quorum(h[t].votes)
  BY DEF VotesStand
<1>3. \A j \in h[t].votes : Cast(h[t].by, j, t)'
  BY <1>1, CastStays DEF VotesStand
<1>4. ASSUME NEW j \in Servers, srv'[j].state # "follower", srv'[j].term = t,
             NEW k \in srv'[j].votes, k \in h[t].votes
      PROVE  j = h[t].by
  <2>1. CASE srv[j].state # "follower" /\ srv[j].term = t /\ k \in srv[j].votes
    BY <1>4, <2>1 DEF VotesStand
  <2>2. CASE \E m \in msgs : Grant(m) /\ m.from = k /\ m.to = j /\ m.term = t
    BY <1>4, <2>2 DEF VotesStand
  <2>3. CASE k = j /\ j = i /\ srv'[i].voted = i
    BY <1>1, <1>3, <1>4, <2>3 DEF Cast
  <2> QED
    BY <1>4, <2>1, <2>2, <2>3 DEF VotesAdded, Alone
<1>5. ASSUME NEW m \in msgs', Grant(m), m.term = t, m.from \in h[t].votes
      PROVE  m.to = h[t].by
  <2>1. CASE m \in msgs
    BY <1>5, <2>1 DEF VotesStand
  <2>2. CASE m.from = i /\ m.term = srv'[i].term /\ m.to = srv'[i].voted
    BY <1>1, <1>3, <1>5, <2>2 DEF Cast
  <2> QED
    BY <1>5, <2>1, <2>2 DEF VotesAdded
<1> QED
  BY <1>2, <1>3, <1>4, <1>5

\* A leader stays as it is or steps down to a newer term; nobody becomes one.
SameLeaders(i) ==
    /\ srv'[i].term > srv[i].term
       \/ (/\ srv'[i].term = srv[i].term
           /\ srv[i].state = "leader" => srv'[i].state = "leader" /\ srv'[i].log = srv[i].log)
    /\ srv'[i].state = "leader" => srv[i].state = "leader" /\ srv'[i].term = srv[i].term

NewExcerpts(h) == \A m \in msgs' : m.type = "append" => m \in msgs \/ Excerpt(h, m)

LEMMA RecordStays ==
  ASSUME Typed, Typed', NEW h \in Histories, Recorded(h),
         NEW i \in Servers, Alone(i), OneVote(i), VotesAdded(i), SameLeaders(i),
         Derived(h, srv'[i].log), NewExcerpts(h)
  PROVE  Recorded(h)'
<1>1. VotesStand(h)'
  BY VotesStandStep DEF Recorded
<1>2. LeadersRecorded(h)'
  <2>1. ASSUME NEW t \in Nat, Led(h, t)
        PROVE  \/ srv'[h[t].by].term > t
               \/ /\ srv'[h[t].by].term = t /\ srv'[h[t].by].state = "leader"
                  /\ srv'[h[t].by].log = h[t].log
    <3>1. h[t].by \in Servers /\ srv[i].term \in Nat /\ srv'[i].term \in Nat
      BY <2>1, LogTypes DEF Led, Typed, NodeOK, Node
    <3>2. \/ srv[h[t].by].term > t
          \/ srv[h[t].by].term = t /\ srv[h[t].by].state = "leader" /\ srv[h[t].by].log = h[t].log
      BY <2>1 DEF Recorded, LeadersRecorded
    <3>3. CASE h[t].by # i
      BY <3>1, <3>2, <3>3 DEF Alone
    <3>4. CASE h[t].by = i
      BY <3>1, <3>2, <3>4 DEF SameLeaders
    <3> QED
      BY <3>3, <3>4
  <2>2. \A j \in Servers : srv'[j].state = "leader" => h[srv'[j].term].by = j
    BY DEF Recorded, LeadersRecorded, SameLeaders, Alone
  <2> QED
    BY <2>1, <2>2 DEF LeadersRecorded, Led
<1>3. LogsDerived(h)'
  BY DEF Recorded, LogsDerived, Alone, Derived, Led
<1>4. \A m \in msgs' : m.type = "append" => Excerpt(h, m)
  BY DEF Recorded, NewExcerpts
<1> QED
  BY <1>1, <1>2, <1>3, <1>4 DEF Recorded, Excerpt

-----------------------------------------------------------------------------
(* Logs against the record                                                 *)

LEMMA DerivedPrefix ==
  ASSUME NEW h, NEW log \in Seq(Entry), Derived(h, log), NEW p \in Seq(Entry),
         Len(p) <= Len(log), \A k \in 1..Len(p) : p[k] = log[k]
  PROVE  Derived(h, p)
<1>1. Len(log) \in Nat /\ DOMAIN log = 1..Len(log) /\ Len(p) \in Nat /\ DOMAIN p = 1..Len(p)
  BY LenProperties
<1>2. ASSUME NEW n \in DOMAIN p
      PROVE  /\ h[p[n].term].by # None /\ n <= Len(h[p[n].term].log)
             /\ \A k \in 1..n : p[k] = h[p[n].term].log[k]
  <2>1. n \in DOMAIN log /\ p[n] = log[n] /\ \A k \in 1..n : k \in 1..Len(p)
    BY <1>1
  <2> QED
    BY <2>1 DEF Derived
<1> QED
  BY <1>2 DEF Derived

Grows(h, g) ==
    \A t \in Nat : Led(h, t) =>
        /\ g[t].by = h[t].by /\ Len(h[t].log) <= Len(g[t].log)
        /\ \A k \in 1..Len(h[t].log) : g[t].log[k] = h[t].log[k]

LEMMA DerivedGrows ==
  ASSUME NEW h \in Histories, NEW g \in Histories, Grows(h, g),
         NEW log \in Seq(Entry), Derived(h, log)
  PROVE  Derived(g, log)
<1> SUFFICES ASSUME NEW n \in DOMAIN log
             PROVE  /\ g[log[n].term].by # None /\ n <= Len(g[log[n].term].log)
                    /\ \A k \in 1..n : log[k] = g[log[n].term].log[k]
  BY DEF Derived
<1> DEFINE t == log[n].term
<1>1. Len(log) \in Nat /\ DOMAIN log = 1..Len(log) /\ n \in Nat
  BY LenProperties
<1>2. t \in Nat
  <2>1. log[n] \in Entry
    BY <1>1, ElementOfSeq
  <2> QED
    BY <2>1 DEF Entry
<1>3. Len(h[t].log) \in Nat /\ Len(g[t].log) \in Nat
  BY <1>2, LenProperties DEF Histories, Records
<1>4. h[t].by # None /\ n <= Len(h[t].log) /\ \A k \in 1..n : log[k] = h[t].log[k]
  BY DEF Derived
<1>5. /\ g[t].by = h[t].by /\ Len(h[t].log) <= Len(g[t].log)
      /\ \A k \in 1..Len(h[t].log) : g[t].log[k] = h[t].log[k]
  BY <1>2, <1>4 DEF Grows, Led
<1> HIDE DEF t
<1>6. \A k \in 1..n : k \in 1..Len(h[t].log)
  BY <1>1, <1>3, <1>4
<1>7. g[t].by # None /\ n <= Len(g[t].log)
  BY <1>1, <1>3, <1>4, <1>5
<1>8. \A k \in 1..n : log[k] = g[t].log[k]
  BY <1>4, <1>5, <1>6
<1> QED
  BY <1>7, <1>8 DEF t

LEMMA ExcerptGrows ==
  ASSUME Typed, NEW h \in Histories, NEW g \in Histories, Grows(h, g),
         NEW m \in msgs, m.type = "append", Excerpt(h, m)
  PROVE  Excerpt(g, m)
<1> DEFINE H == h[m.term].log
           G == g[m.term].log
<1>1. /\ m.term \in Nat /\ m.from \in Servers /\ m.prev \in Nat /\ m.entries \in Seq(Entry)
  BY Carried
<1>2. H \in Seq(Entry) /\ G \in Seq(Entry)
  BY <1>1 DEF Histories, Records
<1>3. Led(h, m.term)
  BY <1>1, RaftAssumption DEF Excerpt, Led
<1>4. /\ g[m.term].by = h[m.term].by /\ Len(H) <= Len(G)
      /\ \A k \in 1..Len(H) : G[k] = H[k]
  BY <1>1, <1>3 DEF Grows
<1>5. /\ h[m.term].by = m.from /\ m.prev + Len(m.entries) <= Len(H)
      /\ m.prevTerm = TermAt(H, m.prev)
      /\ \A k \in DOMAIN m.entries : m.entries[k] = H[m.prev + k]
  BY DEF Excerpt
<1> HIDE DEF H, G
<1>6. /\ Len(H) \in Nat /\ DOMAIN H = 1..Len(H) /\ Len(G) \in Nat /\ DOMAIN G = 1..Len(G)
      /\ Len(m.entries) \in Nat /\ DOMAIN m.entries = 1..Len(m.entries)
  BY <1>1, <1>2, LenProperties
<1>7. TermAt(G, m.prev) = TermAt(H, m.prev)
  <2>1. m.prev \in 1..Len(H) \/ m.prev = 0
    BY <1>1, <1>5, <1>6
  <2>2. m.prev \in DOMAIN G <=> m.prev \in DOMAIN H
    BY <1>4, <1>6, <2>1
  <2> QED
    BY <1>4, <1>6, <2>1, <2>2 DEF TermAt
<1>8. \A k \in DOMAIN m.entries : m.prev + k \in 1..Len(H)
  BY <1>1, <1>5, <1>6
<1>9. \A k \in DOMAIN m.entries : m.entries[k] = G[m.prev + k]
  BY <1>4, <1>5, <1>8
<1>10. m.prev + Len(m.entries) <= Len(G)
  BY <1>1, <1>4, <1>5, <1>6
<1> QED
  BY <1>4, <1>5, <1>7, <1>9, <1>10 DEF Excerpt, G

\* A request that matches the log before the new entries: up to there, the log
\* is the one of the request's leader; cut at the first conflict and extended
\* it is a prefix of that leader's log.
LEMMA MatchedPrefix ==
  ASSUME Typed, NEW h \in Histories, LogsDerived(h), NEW m \in msgs, m.type = "append",
         Excerpt(h, m), NEW log \in Seq(Entry), Derived(h, log),
         Matches(log, m.prev, m.prevTerm)
  PROVE  m.prev <= Len(log) /\ \A k \in 1..m.prev : log[k] = h[m.term].log[k]
<1>1. /\ m.term \in Nat /\ m.from \in Servers /\ m.prev \in Nat /\ m.entries \in Seq(Entry)
  BY Carried
<1>2. Len(log) \in Nat /\ DOMAIN log = 1..Len(log) /\ Len(m.entries) \in Nat
  BY <1>1, LenProperties
<1>3. CASE m.prev = 0
  BY <1>2, <1>3
<1>4. CASE m.prev > 0
  <2> DEFINE H == h[m.term].log
             t == log[m.prev].term
  <2>1. m.prev \in DOMAIN log /\ t = m.prevTerm
    BY <1>4 DEF Matches
  <2>2. H \in Seq(Entry) /\ Led(h, m.term)
    BY <1>1, RaftAssumption DEF Histories, Records, Excerpt, Led
  <2>3. Len(H) \in Nat /\ DOMAIN H = 1..Len(H)
    BY <2>2, LenProperties
  <2>4. Derived(h, H)
    BY <1>1, <2>2 DEF LogsDerived
  <2>5. m.prev \in DOMAIN H
    BY <1>1, <1>2, <1>4, <2>3 DEF Excerpt
  <2>6. H[m.prev].term = t
    BY <2>1, <2>5 DEF Excerpt, TermAt
  <2>7. \A k \in 1..m.prev : H[k] = h[t].log[k]
    BY <2>4, <2>5, <2>6 DEF Derived
  <2>8. \A k \in 1..m.prev : log[k] = h[t].log[k]
    BY <2>1 DEF Derived
  <2> QED
    BY <1>2, <2>1, <2>7, <2>8
<1> QED
  BY <1>1, <1>3, <1>4

LEMMA TruncatedPrefix ==
  ASSUME NEW log \in Seq(Entry), NEW m
  PROVE  /\ Truncated(log, m) \in Seq(Entry) /\ Len(Truncated(log, m)) <= Len(log)
         /\ \A k \in 1..Len(Truncated(log, m)) : Truncated(log, m)[k] = log[k]
<1> DEFINE keep == {n \in DOMAIN log : \A o \in Conflicts(log, m) : n < o}
<1>1. Len(log) \in Nat /\ DOMAIN log = 1..Len(log)
  BY LenProperties
<1>2. IsFiniteSet(1..Len(log)) /\ Cardinality(1..Len(log)) = Len(log)
  BY <1>1, FS_Interval
<1>3. keep \in SUBSET (1..Len(log))
  BY <1>1
<1> HIDE DEF keep
<1>4. IsFiniteSet(keep) /\ Cardinality(keep) <= Len(log)
  BY <1>2, <1>3, FS_Subset
<1>5. Cardinality(keep) \in Nat
  BY <1>4, FS_CardinalityType
<1>6. \A i \in 1..Cardinality(keep) : log[i] \in Entry
  BY <1>1, <1>4, <1>5, ElementOfSeq
<1> DEFINE cut == SubSeq(log, 1, Cardinality(keep))
<1>7. /\ cut \in Seq(Entry) /\ Len(cut) = Cardinality(keep)
      /\ \A i \in 1..Cardinality(keep) : cut[i] = log[i]
  BY <1>5, <1>6, SubSeqProperties
<1> QED
  BY <1>4, <1>7 DEF Truncated, keep

LEMMA AppendedDerived ==
  ASSUME Typed, NEW h \in Histories, LogsDerived(h), NEW m \in msgs, m.type = "append",
         Excerpt(h, m), NEW log \in Seq(Entry), Derived(h, log),
         Matches(log, m.prev, m.prevTerm), Appendable(Truncated(log, m), m)
  PROVE  Derived(h, Truncated(log, m) \o m.entries)
<1> DEFINE cut == Truncated(log, m)
           H == h[m.term].log
           new == cut \o m.entries
<1>1. /\ m.term \in Nat /\ m.from \in Servers /\ m.prev \in Nat /\ m.entries \in Seq(Entry)
  BY Carried
<1>2. /\ cut \in Seq(Entry) /\ Len(cut) <= Len(log) /\ \A k \in 1..Len(cut) : cut[k] = log[k]
  BY TruncatedPrefix
<1>3. m.prev <= Len(log) /\ \A k \in 1..m.prev : log[k] = H[k]
  BY MatchedPrefix
<1>4. /\ H \in Seq(Entry) /\ Derived(h, H) /\ m.prev + Len(m.entries) <= Len(H)
      /\ \A k \in DOMAIN m.entries : m.entries[k] = H[m.prev + k]
  BY <1>1, RaftAssumption DEF Histories, Records, Excerpt, LogsDerived, Led
<1>5. m.entries = <<>> \/ Len(cut) = m.prev
  BY DEF Appendable
<1> HIDE DEF cut, H
<1>6. /\ Len(cut) \in Nat /\ Len(m.entries) \in Nat /\ DOMAIN m.entries = 1..Len(m.entries)
      /\ Len(H) \in Nat /\ Len(log) \in Nat
  BY <1>1, <1>2, <1>4, LenProperties
<1>7. CASE m.entries = <<>>
  <2>1. new = cut
    BY <1>2, <1>7, ConcatProperties
  <2> QED
    BY <1>2, <2>1, DerivedPrefix DEF cut
<1>8. CASE Len(cut) = m.prev
  <2>1. /\ new \in Seq(Entry) /\ Len(new) = m.prev + Len(m.entries)
        /\ \A k \in 1..Len(new) :
             new[k] = IF k <= m.prev THEN cut[k] ELSE m.entries[k - m.prev]
    <3>1. /\ new \in Seq(Entry) /\ Len(new) = Len(cut) + Len(m.entries)
          /\ \A k \in 1..(Len(cut) + Len(m.entries)) :
               new[k] = IF k <= Len(cut) THEN cut[k] ELSE m.entries[k - Len(cut)]
      BY <1>1, <1>2, ConcatProperties
    <3> HIDE DEF new
    <3> QED
      BY <1>8, <3>1
  <2> HIDE DEF new
  <2>2. ASSUME NEW k \in 1..Len(new) PROVE new[k] = H[k]
    <3>1. CASE k <= m.prev
      <4>1. k \in 1..Len(cut) /\ k \in 1..m.prev /\ new[k] = cut[k]
        BY <1>1, <1>6, <1>8, <2>1, <3>1
      <4> QED
        BY <1>2, <1>3, <4>1
    <3>2. CASE k > m.prev
      <4>1. k - m.prev \in DOMAIN m.entries /\ m.prev + (k - m.prev) = k
        BY <1>1, <1>6, <2>1, <3>2
      <4> QED
        BY <1>1, <1>4, <2>1, <3>2, <4>1
    <3> QED
      BY <1>1, <1>6, <2>1, <3>1, <3>2
  <2>3. Derived(h, new)
    BY <1>4, <2>1, <2>2, DerivedPrefix
  <2> QED
    BY <2>3 DEF new, cut
<1> QED
  BY <1>5, <1>7, <1>8

-----------------------------------------------------------------------------
(* The record along each action                                            *)

LEMMA QuietRecord ==
  ASSUME Typed, Typed', NEW m \in msgs, NEW r,
         srv' = [srv EXCEPT ![m.to] = r],
         LET s == StepDown(srv[m.to], m.term) IN
           /\ r.term = s.term /\ r.voted = s.voted /\ r.state = s.state /\ r.votes = s.votes,
         srv[m.to].state = "leader" /\ m.term <= srv[m.to].term => r.log = srv[m.to].log,
         \A o \in msgs' : Grant(o) => o \in msgs
  PROVE  /\ m.to \in Servers /\ srv'[m.to] = r
         /\ Alone(m.to) /\ OneVote(m.to) /\ VotesAdded(m.to) /\ SameLeaders(m.to)
<1> DEFINE i == m.to
           s == StepDown(srv[i], m.term)
<1>1. i \in Servers /\ m.term \in Nat /\ NodeOK(i, srv[i]) /\ i \in DOMAIN srv
  BY VoteTypes DEF Typed
<1>2. /\ NodeOK(i, s) /\ m.term <= s.term /\ srv[i].term <= s.term
      /\ \/ s = srv[i]
         \/ s.term = m.term /\ m.term > srv[i].term /\ s.state = "follower"
  BY <1>1, StepDownVotes
<1> HIDE DEF s
<1>3. Alone(i) /\ srv'[i] = r
  BY <1>1 DEF Typed, Alone
<1>4. r.term = s.term /\ r.voted = s.voted /\ r.state = s.state /\ r.votes = s.votes
  BY DEF s
<1>5. srv[i].state = "leader" /\ m.term <= srv[i].term => r.log = srv[i].log
  OBVIOUS
<1> HIDE DEF i
<1>6. s.term \in Nat /\ srv[i].term \in Nat
  BY <1>1, <1>2 DEF NodeOK, Node
<1>7. OneVote(i)
  BY <1>2, <1>3, <1>4, <1>6 DEF OneVote
<1>8. VotesAdded(i)
  BY <1>2, <1>3, <1>4, <1>6 DEF VotesAdded
<1>9. SameLeaders(i)
  BY <1>1, <1>2, <1>3, <1>4, <1>5, <1>6 DEF SameLeaders
<1> QED
  BY <1>1, <1>3, <1>7, <1>8, <1>9 DEF i

\* How a node is left by a request to append, and its log.
LEMMA HandleAppendLog ==
  ASSUME Typed, NEW m \in msgs, HandleAppend(m.to, m)
  PROVE  LET s == StepDown(srv[m.to], m.term)
             log == srv[m.to].log
         IN  \E r : \E ok \in BOOLEAN :
                /\ srv' = [srv EXCEPT ![m.to] = r]
                /\ Network({AppendReply(m.to, m, r, ok)})
                /\ r.term = s.term /\ r.voted = s.voted /\ r.state = s.state /\ r.votes = s.votes
                /\ \/ r.log = log
                   \/ /\ m.term >= s.term /\ Matches(log, m.prev, m.prevTerm)
                      /\ \/ r.log = Truncated(log, m)
                         \/ /\ Appendable(Truncated(log, m), m)
                            /\ r.log = Truncated(log, m) \o m.entries
<1> DEFINE s == StepDown(srv[m.to], m.term)
           h == [s EXCEPT !.leader = m.from]
           t == [h EXCEPT !.log = Truncated(h.log, m)]
           a == Appended(t, m)
           Answer(after, ok) ==
             /\ srv' = [srv EXCEPT ![m.to] = after]
             /\ Network({AppendReply(m.to, m, after, ok)})
<1>1. \/ Answer(s, FALSE)
      \/ m.term >= s.term /\ Answer(h, FALSE)
      \/ /\ m.term >= s.term /\ Matches(h.log, m.prev, m.prevTerm)
         /\ \/ Appendable(t.log, m) /\ Answer(a, TRUE)
            \/ Answer(t, FALSE)
  BY DEF HandleAppend
<1>2. s \in Node(m.to)
  BY Carried DEF NodeOK
<1>3. s.log = srv[m.to].log
  <2>1. m.to \in Servers /\ m.term \in Nat
    BY Carried
  <2>2. NodeOK(m.to, srv[m.to])
    BY <2>1 DEF Typed
  <2> QED
    BY <2>1, <2>2, StepDownTyped
<1> HIDE DEF s
<1>4. /\ h.term = s.term /\ h.voted = s.voted /\ h.state = s.state /\ h.votes = s.votes
      /\ h.log = s.log
  BY <1>2 DEF Node
<1>5. /\ t.term = s.term /\ t.voted = s.voted /\ t.state = s.state /\ t.votes = s.votes
      /\ t.log = Truncated(s.log, m)
  BY <1>2 DEF Node
<1>6. /\ a.term = s.term /\ a.voted = s.voted /\ a.state = s.state /\ a.votes = s.votes
      /\ a.log = Truncated(s.log, m) \o m.entries
  <2> DEFINE last == IF m.entries = <<>> THEN m.prev ELSE m.prev + Len(m.entries)
             upTo == IF m.commit < last THEN m.commit ELSE last
             commit == IF upTo > t.commit THEN upTo ELSE t.commit
             log == t.log \o m.entries
  <2>1. a = [t EXCEPT !.log = log, !.commit = commit]
    BY <1>2 DEF Appended, Node
  <2>2. {"term", "voted", "state", "votes", "log"} \subseteq DOMAIN t
    BY <1>2 DEF Node
  <2>3. log = Truncated(s.log, m) \o m.entries
    BY <1>5
  <2> HIDE DEF a, t, log, commit
  <2>4. /\ a.term = t.term /\ a.voted = t.voted /\ a.state = t.state /\ a.votes = t.votes
        /\ a.log = log
    BY <2>1, <2>2
  <2> QED
    BY <1>5, <2>3, <2>4
<1> HIDE DEF h, t, a
<1> DEFINE Outcome(r) ==
             /\ r.term = s.term /\ r.voted = s.voted /\ r.state = s.state /\ r.votes = s.votes
             /\ \/ r.log = s.log
                \/ /\ m.term >= s.term /\ Matches(s.log, m.prev, m.prevTerm)
                   /\ \/ r.log = Truncated(s.log, m)
                      \/ /\ Appendable(Truncated(s.log, m), m)
                         /\ r.log = Truncated(s.log, m) \o m.entries
<1>7. Outcome(s) /\ Outcome(h)
  BY <1>4
<1>8. m.term >= s.term /\ Matches(h.log, m.prev, m.prevTerm) => Outcome(t)
  BY <1>4, <1>5
<1>9. /\ m.term >= s.term /\ Matches(h.log, m.prev, m.prevTerm) /\ Appendable(t.log, m)
      => Outcome(a)
  BY <1>4, <1>5, <1>6
<1> HIDE DEF Outcome, Answer
<1>10. \E r : \E ok \in BOOLEAN : Answer(r, ok) /\ Outcome(r)
  BY <1>1, <1>7, <1>8, <1>9
<1> QED
  BY <1>3, <1>10 DEF Answer, Outcome, s

\* No leader takes a request of the term it leads: such a request is its own,
\* and nobody sends to itself.
LEMMA HandleAppendRecord ==
  ASSUME Typed, Typed', NEW h \in Histories, Recorded(h),
         NEW m \in msgs, HandleAppend(m.to, m)
  PROVE  Recorded(h)' /\ m.to \in Servers /\ Alone(m.to) /\ SameLeaders(m.to)
<1> DEFINE s == StepDown(srv[m.to], m.term)
           log == srv[m.to].log
<1>1. PICK r : \E ok \in BOOLEAN :
        /\ srv' = [srv EXCEPT ![m.to] = r]
        /\ Network({AppendReply(m.to, m, r, ok)})
        /\ r.term = s.term /\ r.voted = s.voted /\ r.state = s.state /\ r.votes = s.votes
        /\ \/ r.log = log
           \/ /\ m.term >= s.term /\ Matches(log, m.prev, m.prevTerm)
              /\ \/ r.log = Truncated(log, m)
                 \/ Appendable(Truncated(log, m), m) /\ r.log = Truncated(log, m) \o m.entries
  BY HandleAppendLog
<1>2. /\ m.type = "append" /\ Excerpt(h, m) /\ LogsDerived(h) /\ LeadersRecorded(h)
      /\ m.to \in Servers /\ m.from # m.to /\ m.term \in Nat
  BY Carried DEF HandleAppend, Recorded
<1>3. log \in Seq(Entry) /\ Derived(h, log)
  BY <1>2, LogTypes DEF LogsDerived
<1>4. Derived(h, r.log)
  <2>1. Derived(h, Truncated(log, m))
    BY <1>3, TruncatedPrefix, DerivedPrefix
  <2>2. ASSUME Matches(log, m.prev, m.prevTerm), Appendable(Truncated(log, m), m)
        PROVE  Derived(h, Truncated(log, m) \o m.entries)
    BY <1>2, <1>3, <2>2, AppendedDerived
  <2> HIDE DEF log
  <2> QED
    BY <1>1, <1>3, <2>1, <2>2
<1>5. ~(srv[m.to].state = "leader" /\ m.term = srv[m.to].term)
  BY <1>2 DEF LeadersRecorded, Excerpt
<1>6. srv[m.to].state = "leader" /\ m.term <= srv[m.to].term => r.log = srv[m.to].log
  <2> SUFFICES ASSUME srv[m.to].state = "leader", m.term <= srv[m.to].term, r.log # log
               PROVE  FALSE
    OBVIOUS
  <2>1. srv[m.to].term \in Nat /\ m.term \in Nat
    BY <1>2 DEF Typed, NodeOK, Node
  <2>2. s.term = srv[m.to].term
    BY <2>1 DEF StepDown
  <2> HIDE DEF s, log
  <2>3. m.term >= s.term
    BY <1>1
  <2> QED
    BY <1>5, <2>1, <2>2, <2>3
<1>7. PICK ok \in BOOLEAN : Network({AppendReply(m.to, m, r, ok)})
  BY <1>1
<1>8. (\A o \in msgs' : Grant(o) => o \in msgs) /\ NewExcerpts(h)
  BY <1>7, NetworkKeeps DEF Grant, AppendReply, NewExcerpts
<1> HIDE DEF log
<1>9. /\ srv'[m.to] = r
      /\ Alone(m.to) /\ OneVote(m.to) /\ VotesAdded(m.to) /\ SameLeaders(m.to)
  BY <1>1, <1>6, <1>8, QuietRecord
<1> QED
  BY <1>2, <1>4, <1>8, <1>9, RecordStays

LEMMA LeadRecord ==
  ASSUME Typed, Typed', VoteInv', NEW h \in Histories, Recorded(h), NEW i \in Servers,
         Alone(i), OneVote(i), VotesAdded(i), srv[i].state = "candidate",
         srv'[i].state = "leader", srv'[i].term = srv[i].term, srv'[i].log = srv[i].log,
         msgs' \subseteq msgs
  PROVE  \E g \in Histories : Recorded(g)'
<1>1. PICK t \in Nat, V \in SUBSET Servers, L \in Seq(Entry) :
        srv'[i].term = t /\ srv'[i].votes = V /\ srv'[i].log = L
  BY DEF Typed, NodeOK, Node
<1> DEFINE new == [by |-> i, votes |-> V, log |-> L]
           g == [h EXCEPT ![t] = new]
<1>2. new \in Records /\ new.by = i /\ new.votes = V /\ new.log = L
  BY DEF Records
<1>3. /\ g \in Histories /\ g[t].by = i /\ g[t].votes = V /\ g[t].log = L
      /\ \A u \in Nat \ {t} : g[u] = h[u]
  BY <1>2 DEF Histories
<1> HIDE DEF new, g
<1>4. VotesStand(h)'
  BY VotesStandStep DEF Recorded
<1>5. Quorum(V)
  BY <1>1 DEF VoteInv, LeadersHaveQuorum
<1>6. ~Led(h, t)
  <2> SUFFICES ASSUME Led(h, t) PROVE FALSE
    OBVIOUS
  <2>1. h[t].votes \subseteq Servers /\ Quorum(h[t].votes)
    BY LogTypes DEF Recorded, VotesStand
  <2>2. V \cap h[t].votes # {}
    BY <1>5, <2>1, MajoritiesMeet
  <2>3. i = h[t].by
    BY <1>1, <1>4, <2>2 DEF VotesStand, Led
  <2>4. srv[i].term = t
    BY <1>1
  <2> QED
    BY <2>3, <2>4 DEF Recorded, LeadersRecorded
<1>7. Grows(h, g)
  BY <1>3, <1>6, LogTypes DEF Grows
<1>8. VotesStand(g)'
  <2> SUFFICES ASSUME NEW u \in Nat, Led(g, u)
               PROVE  /\ Quorum(g[u].votes)
                      /\ \A j \in g[u].votes : Cast(g[u].by, j, u)'
                      /\ \A j \in Servers :
                           /\ srv'[j].state # "follower" /\ srv'[j].term = u
                           /\ srv'[j].votes \cap g[u].votes # {}
                           => j = g[u].by
                      /\ \A m \in msgs' :
                           Grant(m) /\ m.term = u /\ m.from \in g[u].votes => m.to = g[u].by
    BY DEF VotesStand, Cast, Grant, Quorum, Led
  <2>1. CASE u # t
    BY <1>3, <1>4, <2>1 DEF VotesStand, Cast, Grant, Quorum, Led
  <2>2. CASE u = t
    <3>1. g[u].by = i /\ g[u].votes = srv'[i].votes /\ u = srv'[i].term
      BY <1>1, <1>3, <2>2
    <3>2. \A j \in srv'[i].votes : Cast(i, j, u)'
      BY <3>1 DEF VoteInv, CountedAreCast, Cast
    <3>3. ASSUME NEW j \in Servers, srv'[j].state # "follower", srv'[j].term = u,
                 srv'[j].votes \cap srv'[i].votes # {}
          PROVE  j = i
      BY <3>1, <3>3 DEF VoteInv, CountedOnce
    <3>4. ASSUME NEW m \in msgs', Grant(m), m.term = u, m.from \in srv'[i].votes
          PROVE  m.to = i
      BY <3>1, <3>4 DEF VoteInv, CountedOrGranted, Grant
    <3> QED
      BY <1>1, <1>5, <3>1, <3>2, <3>3, <3>4
  <2> QED
    BY <2>1, <2>2
<1>9. LeadersRecorded(g)'
  <2>1. ASSUME NEW u \in Nat, Led(g, u)
        PROVE  \/ srv'[g[u].by].term > u
               \/ /\ srv'[g[u].by].term = u /\ srv'[g[u].by].state = "leader"
                  /\ srv'[g[u].by].log = g[u].log
    <3>1. CASE u = t
      BY <1>1, <1>3, <3>1
    <3>2. CASE u # t
      <4>1. g[u] = h[u] /\ h[u].by \in Servers
        BY <1>3, <2>1, <3>2, LogTypes DEF Led
      <4>2. \/ srv[h[u].by].term > u
            \/ srv[h[u].by].term = u /\ srv[h[u].by].state = "leader" /\ srv[h[u].by].log = h[u].log
        BY <2>1, <4>1 DEF Recorded, LeadersRecorded, Led
      <4>3. CASE h[u].by = i
        BY <1>1, <3>2, <4>1, <4>2, <4>3
      <4>4. CASE h[u].by # i
        BY <4>1, <4>2, <4>4 DEF Alone
      <4> QED
        BY <4>3, <4>4
    <3> QED
      BY <3>1, <3>2
  <2>2. ASSUME NEW j \in Servers, srv'[j].state = "leader" PROVE g[srv'[j].term].by = j
    <3>1. CASE j = i
      BY <1>1, <1>3, <3>1
    <3>2. CASE j # i
      <4>1. srv'[j] = srv[j] /\ srv[j].term \in Nat
        BY <3>2 DEF Alone, Typed, NodeOK, Node
      <4>2. h[srv[j].term].by = j
        BY <2>2, <4>1 DEF Recorded, LeadersRecorded
      <4>3. srv[j].term # t
        BY <1>6, <4>2, RaftAssumption DEF Led
      <4> QED
        BY <1>3, <4>1, <4>2, <4>3
    <3> QED
      BY <3>1, <3>2
  <2> QED
    BY <2>1, <2>2 DEF LeadersRecorded, Led
<1>10. LogsDerived(g)'
  <2>1. \A j \in Servers : srv'[j].log = srv[j].log
    BY DEF Alone
  <2>2. \A j \in Servers : Derived(g, srv[j].log)
    BY <1>3, <1>7, LogTypes, DerivedGrows DEF Recorded, LogsDerived
  <2>3. ASSUME NEW u \in Nat, Led(g, u) PROVE Derived(g, g[u].log)
    <3>1. CASE u = t
      BY <1>1, <1>3, <2>2, <3>1
    <3>2. CASE u # t
      BY <1>3, <1>7, <2>3, <3>2, LogTypes, DerivedGrows DEF Recorded, LogsDerived, Led
    <3> QED
      BY <3>1, <3>2
  <2> QED
    BY <2>1, <2>2, <2>3 DEF LogsDerived, Derived, Led
<1>11. \A m \in msgs' : m.type = "append" => Excerpt(g, m)
  BY <1>3, <1>7, ExcerptGrows DEF Recorded
<1> QED
  BY <1>3, <1>8, <1>9, <1>10, <1>11 DEF Recorded, Excerpt

LEMMA ClientCommandRecord ==
  ASSUME Typed, Typed', NEW h \in Histories, Recorded(h), NEW i \in Servers, ClientCommand(i)
  PROVE  \E g \in Histories : Recorded(g)'
<1>1. PICK t \in Nat, L \in Seq(Entry) : srv[i].term = t /\ srv[i].log = L
  BY DEF Typed, NodeOK, Node
<1> DEFINE e == [term |-> t, by |-> i]
           M == Append(L, e)
<1>2. /\ M \in Seq(Entry) /\ Len(L) \in Nat /\ Len(M) = Len(L) + 1 /\ M[Len(L) + 1].term = t
      /\ \A k \in 1..Len(L) : M[k] = L[k]
      /\ DOMAIN M = 1..Len(M)
  <2>1. e \in Entry /\ e.term = t
    BY DEF Entry
  <2> HIDE DEF e
  <2>2. /\ M \in Seq(Entry) /\ Len(L) \in Nat /\ Len(M) = Len(L) + 1 /\ M[Len(L) + 1] = e
        /\ \A k \in 1..Len(L) : M[k] = L[k]
    BY <2>1, AppendProperties, LenProperties
  <2> QED
    BY <2>1, <2>2, LenProperties
<1>3. /\ Alone(i) /\ srv[i].state = "leader" /\ srv'[i].log = M
      /\ srv'[i].term = srv[i].term /\ srv'[i].voted = srv[i].voted
      /\ srv'[i].state = srv[i].state /\ srv'[i].votes = srv[i].votes
      /\ msgs' \subseteq msgs
  <2>1. srv[i] \in Node(i) /\ i \in DOMAIN srv
    BY DEF Typed, NodeOK
  <2>2. srv' = [srv EXCEPT ![i] = [srv[i] EXCEPT !.log = M]]
    BY <1>1 DEF ClientCommand
  <2> HIDE DEF M
  <2>3. srv'[i] = [srv[i] EXCEPT !.log = M] /\ Alone(i)
    BY <2>1, <2>2 DEF Typed, Alone
  <2>4. srv[i].state = "leader" /\ msgs' \subseteq msgs
    BY NetworkKeeps DEF ClientCommand
  <2> QED
    BY <2>1, <2>3, <2>4 DEF Node
<1> DEFINE g == [h EXCEPT ![t].log = M]
<1> HIDE DEF M
<1>4. h[t].by = i /\ h[t].log = L
  BY <1>1, <1>3, RaftAssumption DEF Recorded, LeadersRecorded, Led
<1>5. /\ g \in Histories /\ g[t].log = M
      /\ \A u \in Nat : g[u].by = h[u].by /\ g[u].votes = h[u].votes
      /\ \A u \in Nat \ {t} : g[u] = h[u]
  BY <1>2 DEF Histories, Records
<1> HIDE DEF g
<1>6. Grows(h, g)
  <2> SUFFICES ASSUME NEW u \in Nat
               PROVE  /\ g[u].by = h[u].by /\ Len(h[u].log) <= Len(g[u].log)
                      /\ \A k \in 1..Len(h[u].log) : g[u].log[k] = h[u].log[k]
    BY DEF Grows
  <2>1. Len(h[u].log) \in Nat
    BY LogTypes
  <2> QED
    BY <1>2, <1>4, <1>5, <2>1
<1>7. VotesStand(g)'
  <2>1. OneVote(i) /\ VotesAdded(i)
    BY <1>3 DEF OneVote, VotesAdded
  <2>2. VotesStand(h)'
    BY <1>3, <2>1, VotesStandStep DEF Recorded
  <2> QED
    BY <1>5, <2>2 DEF VotesStand, Cast, Grant, Quorum, Led
<1>8. LeadersRecorded(g)'
  <2>1. ASSUME NEW u \in Nat, Led(g, u)
        PROVE  \/ srv'[g[u].by].term > u
               \/ /\ srv'[g[u].by].term = u /\ srv'[g[u].by].state = "leader"
                  /\ srv'[g[u].by].log = g[u].log
    <3>1. CASE u = t
      BY <1>1, <1>3, <1>4, <1>5, <3>1
    <3>2. CASE u # t
      <4>1. g[u] = h[u] /\ h[u].by \in Servers
        BY <1>5, <2>1, <3>2, LogTypes DEF Led
      <4>2. \/ srv[h[u].by].term > u
            \/ srv[h[u].by].term = u /\ srv[h[u].by].state = "leader" /\ srv[h[u].by].log = h[u].log
        BY <2>1, <4>1 DEF Recorded, LeadersRecorded, Led
      <4>3. CASE h[u].by = i
        BY <1>1, <1>3, <3>2, <4>1, <4>2, <4>3
      <4>4. CASE h[u].by # i
        BY <4>1, <4>2, <4>4, <1>3 DEF Alone
      <4> QED
        BY <4>3, <4>4
    <3> QED
      BY <3>1, <3>2
  <2>2. ASSUME NEW j \in Servers, srv'[j].state = "leader" PROVE g[srv'[j].term].by = j
    <3>1. srv[j].state = "leader" /\ srv'[j].term = srv[j].term /\ srv[j].term \in Nat
      BY <1>3, <2>2 DEF Alone, Typed, NodeOK, Node
    <3> QED
      BY <1>5, <3>1 DEF Recorded, LeadersRecorded
  <2> QED
    BY <2>1, <2>2 DEF LeadersRecorded, Led
<1>9. LogsDerived(g)'
  <2>1. Derived(g, L)
    BY <1>1, <1>5, <1>6, DerivedGrows DEF Recorded, LogsDerived
  <2>2. Derived(g, M)
    <3> SUFFICES ASSUME NEW n \in DOMAIN M
                 PROVE  /\ g[M[n].term].by # None /\ n <= Len(g[M[n].term].log)
                        /\ \A k \in 1..n : M[k] = g[M[n].term].log[k]
      BY DEF Derived
    <3>1. CASE n = Len(L) + 1
      BY <1>2, <1>4, <1>5, <3>1, RaftAssumption
    <3>2. CASE n \in 1..Len(L)
      <4>1. n \in DOMAIN L /\ M[n] = L[n] /\ \A k \in 1..n : M[k] = L[k]
        BY <1>1, <1>2, <3>2, LenProperties
      <4> QED
        BY <2>1, <4>1 DEF Derived
    <3> QED
      BY <1>2, <3>1, <3>2
  <2>3. ASSUME NEW j \in Servers PROVE Derived(g, srv'[j].log)
    <3>1. CASE j = i
      BY <1>3, <2>2, <3>1
    <3>2. CASE j # i
      <4>1. srv'[j].log = srv[j].log /\ srv[j].log \in Seq(Entry)
        BY <1>3, <3>2, LogTypes DEF Alone
      <4>2. Derived(h, srv[j].log)
        BY DEF Recorded, LogsDerived
      <4>3. Derived(g, srv[j].log)
        BY <1>5, <1>6, <4>1, <4>2, DerivedGrows
      <4> QED
        BY <4>1, <4>3
    <3> QED
      BY <3>1, <3>2
  <2>4. ASSUME NEW u \in Nat, Led(g, u) PROVE Derived(g, g[u].log)
    <3>1. CASE u = t
      BY <1>5, <2>2, <3>1
    <3>2. CASE u # t
      BY <1>5, <1>6, <2>4, <3>2, LogTypes, DerivedGrows DEF Recorded, LogsDerived, Led
    <3> QED
      BY <3>1, <3>2
  <2> QED
    BY <2>3, <2>4 DEF LogsDerived, Derived, Led
<1>10. \A m \in msgs' : m.type = "append" => Excerpt(g, m)
  BY <1>3, <1>5, <1>6, ExcerptGrows DEF Recorded
<1> QED
  BY <1>5, <1>7, <1>8, <1>9, <1>10 DEF Recorded, Excerpt

\* What a leader sends is a piece of its log.
LEMMA SendRecord ==
  ASSUME Typed, Typed', NEW h \in Histories, Recorded(h), NEW i \in Servers,
         Heartbeat(i) \/ \E j \in Servers : SendEntries(i, j)
  PROVE  Recorded(h)'
<1>1. srv[i].state = "leader" /\ UNCHANGED srv
  BY DEF Heartbeat, SendEntries
<1>2. PICK t \in Nat, L \in Seq(Entry) : srv[i].term = t /\ srv[i].log = L
  BY DEF Typed, NodeOK, Node
<1>3. h[t].by = i /\ h[t].log = L
  BY <1>1, <1>2, RaftAssumption DEF Recorded, LeadersRecorded, Led
<1>4. Len(L) \in Nat /\ DOMAIN L = 1..Len(L)
  BY LenProperties
<1>5. ASSUME NEW j, NEW prev \in Nat, NEW entries \in Seq(Entry),
             prev + Len(entries) <= Len(L), \A k \in DOMAIN entries : entries[k] = L[prev + k]
      PROVE  LET m == AppendRequest(i, j, prev, entries) IN
             Excerpt(h, m) /\ ~Grant(m) /\ m.type = "append"
  BY <1>2, <1>3, <1>5 DEF AppendRequest, Excerpt, Grant
<1>6. /\ NewExcerpts(h)
      /\ \A m \in msgs' : Grant(m) => m \in msgs
  <2>1. CASE Heartbeat(i)
    <3>1. PICK none \in Seq(Entry) : none = <<>>
      BY EmptySeq
    <3>2. /\ 0 \in Nat /\ 0 + Len(none) <= Len(L)
          /\ \A k \in DOMAIN none : none[k] = L[0 + k]
      BY <1>4, <3>1
    <3>3. \A j \in Others(i) : LET m == AppendRequest(i, j, 0, none) IN
            Excerpt(h, m) /\ ~Grant(m) /\ m.type = "append"
      BY <1>5, <3>2, Zenon
    <3>4. msgs' \subseteq msgs \cup {AppendRequest(i, j, 0, none) : j \in Others(i)}
      BY <2>1, <3>1, NetworkKeeps DEF Heartbeat
    <3> QED
      BY <3>3, <3>4 DEF NewExcerpts
  <2>2. ASSUME NEW j \in Servers, SendEntries(i, j)
        PROVE  NewExcerpts(h) /\ \A m \in msgs' : Grant(m) => m \in msgs
    <3> DEFINE n == srv[i].next[j]
               piece == SubSeq(L, n, Len(L))
               m == AppendRequest(i, j, n - 1, piece)
    <3>1. j \in Feeds[i] /\ n <= Len(L) /\ msgs' \subseteq msgs \cup {m}
      BY <1>2, <2>2, NetworkKeeps DEF SendEntries
    <3>2. n \in Nat \ {0}
      <4>1. j \in Others(i) /\ NodeOK(i, srv[i])
        BY <3>1, RaftAssumption DEF Others, Typed
      <4> QED
        BY <1>1, <4>1 DEF NodeOK, LeaderState
    <3> HIDE DEF n
    <3>3. \A k \in n..Len(L) : L[k] \in Entry
      BY <1>4, <3>2, ElementOfSeq
    <3>4. /\ piece \in Seq(Entry) /\ Len(piece) = Len(L) - n + 1
          /\ \A k \in 1..(Len(L) - n + 1) : piece[k] = L[n + k - 1]
      BY <1>4, <3>1, <3>2, <3>3, SubSeqProperties
    <3> HIDE DEF piece
    <3>5. /\ n - 1 \in Nat /\ (n - 1) + Len(piece) <= Len(L)
          /\ DOMAIN piece = 1..Len(piece)
          /\ \A k \in DOMAIN piece : n + k - 1 = (n - 1) + k
      BY <1>4, <3>1, <3>2, <3>4, LenProperties
    <3>6. \A k \in DOMAIN piece : piece[k] = L[(n - 1) + k]
      BY <3>4, <3>5
    <3>7. Excerpt(h, m) /\ ~Grant(m) /\ m.type = "append"
      BY <1>5, <3>4, <3>5, <3>6
    <3> HIDE DEF m
    <3> QED
      BY <3>1, <3>7 DEF NewExcerpts
  <2> QED
    BY <2>1, <2>2
<1>7. Alone(i) /\ OneVote(i) /\ VotesAdded(i) /\ SameLeaders(i)
  BY <1>1, <1>6 DEF Alone, OneVote, VotesAdded, SameLeaders
<1>8. Derived(h, srv'[i].log)
  BY <1>1 DEF Recorded, LogsDerived
<1> QED
  BY <1>6, <1>7, <1>8, RecordStays

LEMMA StartElectionRecord ==
  ASSUME Typed, Typed', NEW h \in Histories, Recorded(h), NEW i \in Servers, StartElection(i)
  PROVE  Recorded(h)'
<1> DEFINE s == [srv[i] EXCEPT !.term = @ + 1, !.voted = i,
                               !.state = "candidate", !.votes = {i}]
<1>1. /\ srv' = [srv EXCEPT ![i] = s] /\ srv[i] \in Node(i) /\ i \in DOMAIN srv
      /\ srv[i].state # "leader"
      /\ Network({VoteRequest(i, j, s) : j \in Others(i)})
  BY DEF StartElection, Typed, NodeOK
<1>2. /\ s.term = srv[i].term + 1 /\ s.voted = i /\ s.state = "candidate" /\ s.votes = {i}
      /\ s.log = srv[i].log /\ srv[i].term \in Nat
  BY <1>1 DEF Node
<1> HIDE DEF s
<1>3. srv'[i] = s /\ Alone(i)
  BY <1>1 DEF Typed, Alone
<1>4. NewExcerpts(h) /\ \A m \in msgs' : Grant(m) => m \in msgs
  BY <1>1, NetworkKeeps DEF Grant, VoteRequest, NewExcerpts
<1>5. OneVote(i) /\ VotesAdded(i) /\ SameLeaders(i)
  BY <1>1, <1>2, <1>3, <1>4 DEF OneVote, VotesAdded, SameLeaders
<1>6. Derived(h, srv'[i].log)
  BY <1>2, <1>3 DEF Recorded, LogsDerived
<1> QED
  BY <1>3, <1>4, <1>5, <1>6, RecordStays

LEMMA HandleAppendReplyRecord ==
  ASSUME Typed, Typed', NEW h \in Histories, Recorded(h),
         NEW m \in msgs, HandleAppendReply(m.to, m)
  PROVE  Recorded(h)' /\ m.to \in Servers /\ Alone(m.to) /\ SameLeaders(m.to)
<1> DEFINE s == StepDown(srv[m.to], m.term)
           a == [s EXCEPT !.match[m.from] = m.match, !.next[m.from] = m.match + 1]
           n == MedianMatch(a.match)
           b == [s EXCEPT !.next[m.from] = @ - 1]
           r == IF s.state # "leader" THEN s
                ELSE IF m.ok THEN IF Committable(a, n) THEN [a EXCEPT !.commit = n] ELSE a
                ELSE IF s.next[m.from] > 1 THEN b ELSE s
<1>1. srv' = [srv EXCEPT ![m.to] = r] /\ Network({})
  BY DEF HandleAppendReply
<1>2. s \in Node(m.to) /\ m.to \in Servers /\ s.log = srv[m.to].log
  BY Carried, StepDownTyped DEF NodeOK, Typed
<1>3. /\ r.term = s.term /\ r.voted = s.voted /\ r.state = s.state /\ r.votes = s.votes
      /\ r.log = s.log
  <2> HIDE DEF s, n
  <2>1. /\ a.term = s.term /\ a.voted = s.voted /\ a.state = s.state /\ a.votes = s.votes
        /\ a.log = s.log
    BY <1>2 DEF Node
  <2>2. LET c == [a EXCEPT !.commit = n] IN
        /\ c.term = s.term /\ c.voted = s.voted /\ c.state = s.state /\ c.votes = s.votes
        /\ c.log = s.log
    BY <2>1
  <2>3. /\ b.term = s.term /\ b.voted = s.voted /\ b.state = s.state /\ b.votes = s.votes
        /\ b.log = s.log
    BY <1>2 DEF Node
  <2> HIDE DEF a, b
  <2> QED
    BY <2>1, <2>2, <2>3
<1>4. msgs' \subseteq msgs
  BY <1>1, NetworkKeeps
<1> HIDE DEF r
<1>5. NewExcerpts(h) /\ \A o \in msgs' : Grant(o) => o \in msgs
  BY <1>4 DEF NewExcerpts
<1>6. /\ srv'[m.to] = r
      /\ Alone(m.to) /\ OneVote(m.to) /\ VotesAdded(m.to) /\ SameLeaders(m.to)
  BY <1>1, <1>2, <1>3, <1>5, QuietRecord
<1>7. Derived(h, srv'[m.to].log)
  BY <1>2, <1>3, <1>6 DEF Recorded, LogsDerived
<1> QED
  BY <1>2, <1>5, <1>6, <1>7, RecordStays

LEMMA HandleRequestVoteRecord ==
  ASSUME Typed, Typed', NEW h \in Histories, Recorded(h),
         NEW m \in msgs, HandleRequestVote(m.to, m)
  PROVE  Recorded(h)' /\ m.to \in Servers /\ Alone(m.to) /\ SameLeaders(m.to)
<1> DEFINE i == m.to
           s == StepDown(srv[i], m.term)
           granted == ShouldGrant(s, m)
           r == IF granted THEN [s EXCEPT !.voted = m.from] ELSE s
           reply == VoteReply(i, m, s, granted)
<1>1. srv' = [srv EXCEPT ![i] = r] /\ msgs' \subseteq msgs \cup {reply}
  BY NetworkKeeps DEF HandleRequestVote
<1>2. i \in Servers /\ m.term \in Nat /\ NodeOK(i, srv[i]) /\ i \in DOMAIN srv
  BY VoteTypes DEF Typed
<1>3. /\ NodeOK(i, s) /\ m.term <= s.term /\ srv[i].term <= s.term
      /\ \/ s = srv[i]
         \/ s.term = m.term /\ m.term > srv[i].term /\ s.state = "follower"
      /\ s.log = srv[i].log
  BY <1>2, StepDownVotes, StepDownTyped
<1>4. /\ reply.type = "voted" /\ reply.from = i /\ reply.to = m.from
      /\ reply.term = s.term /\ reply.granted = granted
  BY DEF VoteReply
<1>5. granted => s.voted \in {None, m.from}
  BY DEF ShouldGrant
<1> HIDE DEF s, granted, reply
<1>6. /\ r.term = s.term /\ r.state = s.state /\ r.votes = s.votes /\ r.log = s.log
      /\ r.voted = IF granted THEN m.from ELSE s.voted
  BY <1>3 DEF NodeOK, Node
<1> HIDE DEF r
<1>7. srv'[i] = r /\ Alone(i)
  BY <1>1, <1>2 DEF Typed, Alone
<1>8. s.term \in Nat /\ srv[i].term \in Nat
  BY <1>2, <1>3 DEF NodeOK, Node
<1> HIDE DEF i
<1>9. OneVote(i)
  BY <1>3, <1>5, <1>6, <1>7, <1>8 DEF OneVote
<1>10. VotesAdded(i)
  <2>1. \A o \in msgs' : Grant(o) =>
          o \in msgs \/ (o.from = i /\ o.term = srv'[i].term /\ o.to = srv'[i].voted)
    BY <1>1, <1>4, <1>6, <1>7 DEF Grant
  <2> QED
    BY <1>3, <1>6, <1>7, <2>1 DEF VotesAdded
<1>11. SameLeaders(i)
  BY <1>3, <1>6, <1>7, <1>8 DEF SameLeaders
<1>12. NewExcerpts(h)
  BY <1>1, <1>4 DEF NewExcerpts
<1>13. Derived(h, srv'[i].log)
  BY <1>2, <1>3, <1>6, <1>7 DEF Recorded, LogsDerived
<1>14. Recorded(h)'
  BY <1>2, <1>7, <1>9, <1>10, <1>11, <1>12, <1>13, RecordStays
<1> QED
  BY <1>2, <1>7, <1>11, <1>14 DEF i

LEMMA HandleVoteReplyRecord ==
  ASSUME Typed, Typed', VoteInv', NEW h \in Histories, Recorded(h),
         NEW m \in msgs, HandleVoteReply(m.to, m)
  PROVE  /\ \E g \in Histories : Recorded(g)'
         /\ m.to \in Servers /\ Alone(m.to)
         /\ srv[m.to].state = "leader" => SameLeaders(m.to)
<1> DEFINE i == m.to
           s == StepDown(srv[i], m.term)
           v == [s EXCEPT !.votes = @ \cup {m.from}]
           r == IF ~Counts(s, m) THEN s ELSE IF Quorum(v.votes) THEN Lead(i, v) ELSE v
<1>1. srv' = [srv EXCEPT ![i] = r] /\ msgs' \subseteq msgs /\ m.type = "voted"
  BY NetworkKeeps DEF HandleVoteReply
<1>2. /\ i \in Servers /\ m.from \in Servers /\ m.term \in Nat /\ NodeOK(i, srv[i])
      /\ i \in DOMAIN srv
  BY VoteTypes DEF Typed
<1>3. /\ NodeOK(i, s)
      /\ \/ s = srv[i]
         \/ s.term = m.term /\ m.term > srv[i].term /\ s.state = "follower" /\ s.voted = None
      /\ s.log = srv[i].log
  BY <1>2, StepDownVotes, StepDownTyped
<1>4. NewExcerpts(h) /\ \A o \in msgs' : Grant(o) => o \in msgs
  BY <1>1 DEF NewExcerpts
<1>5. CASE ~Counts(s, m)
  <2>1. r = s
    BY <1>5
  <2> HIDE DEF r
  <2>2. /\ srv'[i] = r
        /\ Alone(i) /\ OneVote(i) /\ VotesAdded(i) /\ SameLeaders(i)
    BY <1>1, <1>3, <1>4, <2>1, QuietRecord
  <2>3. Derived(h, srv'[i].log)
    BY <1>2, <1>3, <2>1, <2>2 DEF Recorded, LogsDerived
  <2>4. Recorded(h)'
    BY <1>2, <1>4, <2>2, <2>3, RecordStays
  <2> QED
    BY <1>2, <2>2, <2>4
<1>6. CASE Counts(s, m)
  <2>1. s = srv[i] /\ s.state = "candidate" /\ m.term = s.term /\ Grant(m)
    BY <1>1, <1>3, <1>6 DEF Counts, Grant
  <2> HIDE DEF s
  <2>2. /\ v.term = s.term /\ v.voted = s.voted /\ v.state = s.state /\ v.log = s.log
        /\ v.votes = s.votes \cup {m.from} /\ DOMAIN v = DOMAIN s
    BY <1>3 DEF NodeOK, Node
  <2>3. LET l == Lead(i, v) IN
        /\ l.term = s.term /\ l.voted = s.voted /\ l.state = "leader" /\ l.votes = v.votes
        /\ l.log = s.log
    BY <1>3, <2>2 DEF Lead, NodeOK, Node
  <2>4. /\ r.term = s.term /\ r.voted = s.voted /\ r.votes = s.votes \cup {m.from}
        /\ r.log = s.log
        /\ r.state = IF Quorum(v.votes) THEN "leader" ELSE "candidate"
    BY <1>6, <2>1, <2>2, <2>3
  <2> HIDE DEF v, r
  <2>5. srv'[i] = r /\ Alone(i)
    BY <1>1, <1>2 DEF Typed, Alone
  <2> HIDE DEF i
  <2>6. OneVote(i)
    BY <2>1, <2>4, <2>5 DEF OneVote
  <2>7. VotesAdded(i)
    BY <1>4, <2>1, <2>4, <2>5 DEF VotesAdded, i
  <2>8. CASE r.state = "leader"
    <3>1. \E g \in Histories : Recorded(g)'
      BY <1>1, <1>2, <2>1, <2>4, <2>5, <2>6, <2>7, <2>8, LeadRecord
    <3> QED
      BY <1>2, <2>1, <2>5, <3>1 DEF i
  <2>9. CASE r.state = "candidate"
    <3>1. SameLeaders(i)
      BY <2>1, <2>4, <2>5, <2>9 DEF SameLeaders
    <3>2. Derived(h, srv'[i].log)
      BY <1>2, <2>1, <2>4, <2>5 DEF Recorded, LogsDerived
    <3>3. Recorded(h)'
      BY <1>2, <1>4, <2>5, <2>6, <2>7, <3>1, <3>2, RecordStays
    <3> QED
      BY <1>2, <2>1, <2>5, <3>3 DEF i
  <2> QED
    BY <2>4, <2>8, <2>9
<1> QED
  BY <1>5, <1>6

LEMMA HistoryInductive == Typed /\ VoteInv /\ HistoryInv /\ [Next]_vars => HistoryInv'
<1> SUFFICES ASSUME Typed, VoteInv, [Next]_vars, NEW h \in Histories, Recorded(h)
             PROVE  \E g \in Histories : Recorded(g)'
  BY DEF HistoryInv, Recorded, VotesStand, LeadersRecorded, LogsDerived, Derived, Excerpt,
         Led, Cast, Grant, Quorum
<1>1. Typed' /\ VoteInv'
  BY TypedInductive, VotesInductive
<1>2. ASSUME NEW i \in Servers,
             \/ StartElection(i) \/ ClientCommand(i) \/ Heartbeat(i)
             \/ \E j \in Servers : SendEntries(i, j)
      PROVE  \E g \in Histories : Recorded(g)'
  BY <1>1, <1>2, StartElectionRecord, ClientCommandRecord, SendRecord
<1>3. ASSUME NEW m \in msgs, Receive(m) PROVE \E g \in Histories : Recorded(g)'
  BY <1>1, <1>3, HandleRequestVoteRecord, HandleVoteReplyRecord, HandleAppendRecord,
     HandleAppendReplyRecord DEF Receive
<1>4. CASE UNCHANGED vars
  <2>1. Recorded(h)'
    BY <1>4 DEF vars, Recorded, VotesStand, LeadersRecorded, LogsDerived, Derived, Excerpt,
                Led, Cast, Grant, Quorum
  <2> QED
    BY <2>1
<1> QED
  BY <1>2, <1>3, <1>4 DEF Next

LEMMA InitHistory == Init => HistoryInv
<1> SUFFICES ASSUME Init PROVE HistoryInv
  OBVIOUS
<1> DEFINE blank == [by |-> None, votes |-> {}, log |-> <<>>]
           h == [t \in Nat |-> blank]
<1>1. blank \in Records /\ blank.by = None
  BY EmptySeq DEF Records
<1> HIDE DEF blank
<1>2. h \in Histories /\ \A t \in Nat : ~Led(h, t)
  BY <1>1 DEF Histories, Led
<1> HIDE DEF h
<1>3. \A i \in Servers : srv[i].state = "follower" /\ srv[i].log = <<>>
  BY DEF Init, Fresh
<1>4. msgs = {}
  BY DEF Init
<1>5. Recorded(h)
  BY <1>2, <1>3, <1>4 DEF Recorded, VotesStand, LeadersRecorded, LogsDerived, Derived
<1> QED
  BY <1>2, <1>5 DEF HistoryInv

-----------------------------------------------------------------------------
(* What follows from the record                                            *)

LEMMA DerivedMatch ==
  ASSUME NEW h, NEW a \in Seq(Entry), NEW b \in Seq(Entry), Derived(h, a), Derived(h, b),
         NEW n \in DOMAIN a \cap DOMAIN b, a[n].term = b[n].term
  PROVE  SubSeq(a, 1, n) = SubSeq(b, 1, n)
<1>1. /\ DOMAIN a = 1..Len(a) /\ DOMAIN b = 1..Len(b) /\ Len(a) \in Nat /\ Len(b) \in Nat
      /\ n \in Nat /\ n >= 1
  BY LenProperties
<1>2. \A k \in 1..n : a[k] = b[k]
  BY DEF Derived
<1>3. \A k \in 1..n : a[k] \in Entry /\ b[k] \in Entry
  BY <1>1, ElementOfSeq
<1> DEFINE x == SubSeq(a, 1, n)
           y == SubSeq(b, 1, n)
<1>4. /\ x \in Seq(Entry) /\ Len(x) = n /\ \A k \in 1..n : x[k] = a[k]
      /\ y \in Seq(Entry) /\ Len(y) = n /\ \A k \in 1..n : y[k] = b[k]
  BY <1>1, <1>3, SubSeqProperties
<1> HIDE DEF x, y
<1>5. x = y
  BY <1>2, <1>4, SeqEqual
<1> QED
  BY <1>5 DEF x, y

OnlyAppend ==
    \A i \in Servers : srv[i].state = "leader" /\ srv'[i].state = "leader" =>
        SubSeq(srv'[i].log, 1, Len(srv[i].log)) = srv[i].log

LEMMA SameLeadersAppend ==
  ASSUME Typed, Typed', NEW i \in Servers, Alone(i),
         srv[i].state = "leader" => SameLeaders(i)
  PROVE  OnlyAppend
<1> SUFFICES ASSUME NEW j \in Servers, srv[j].state = "leader", srv'[j].state = "leader"
             PROVE  SubSeq(srv'[j].log, 1, Len(srv[j].log)) = srv[j].log
  BY DEF OnlyAppend
<1>1. srv'[j].log = srv[j].log
  <2>1. srv[j].term \in Nat /\ srv'[j].term \in Nat
    BY DEF Typed, NodeOK, Node
  <2> QED
    BY <2>1 DEF Alone, SameLeaders
<1>2. srv[j].log \in Seq(Entry)
  BY DEF Typed, NodeOK, Node
<1> QED
  BY <1>1, <1>2, SubSeqFull

LEMMA AppendKeeps ==
  ASSUME NEW log \in Seq(Entry), NEW e \in Entry
  PROVE  SubSeq(Append(log, e), 1, Len(log)) = log
<1> DEFINE new == Append(log, e)
           n == Len(log)
           kept == SubSeq(new, 1, n)
<1>1. /\ new \in Seq(Entry) /\ n \in Nat /\ Len(new) = n + 1
      /\ \A k \in 1..n : new[k] = log[k]
  BY AppendProperties, LenProperties
<1> HIDE DEF new, n
<1>2. \A k \in 1..n : new[k] \in Entry
  BY <1>1, ElementOfSeq
<1>3. kept \in Seq(Entry) /\ Len(kept) = n /\ \A k \in 1..n : kept[k] = new[k]
  BY <1>1, <1>2, SubSeqProperties
<1> HIDE DEF kept
<1>4. Len(kept) = Len(log) /\ \A k \in 1..Len(kept) : kept[k] = log[k]
  BY <1>1, <1>3 DEF n
<1>5. kept = log
  BY <1>3, <1>4, SeqEqual
<1> QED
  BY <1>5 DEF kept, new, n

LEMMA LeadersOnlyAppend ==
  ASSUME Typed, VoteInv, HistoryInv, [Next]_vars
  PROVE  OnlyAppend
<1>1. Typed' /\ VoteInv'
  BY TypedInductive, VotesInductive
<1>2. PICK h \in Histories : Recorded(h)
  BY DEF HistoryInv
<1>3. ASSUME UNCHANGED srv PROVE OnlyAppend
  <2>1. \A i \in Servers : srv[i].log \in Seq(Entry)
    BY DEF Typed, NodeOK, Node
  <2> QED
    BY <1>3, <2>1, SubSeqFull DEF OnlyAppend
<1>4. ASSUME NEW i \in Servers, StartElection(i) PROVE OnlyAppend
  <2>1. Alone(i) /\ srv[i].state # "leader"
    BY <1>4 DEF StartElection, Typed, Alone
  <2> QED
    BY <1>1, <2>1, SameLeadersAppend
<1>5. ASSUME NEW i \in Servers, ClientCommand(i) PROVE OnlyAppend
  <2> DEFINE e == [term |-> srv[i].term, by |-> i]
  <2>1. srv[i] \in Node(i) /\ i \in DOMAIN srv /\ e \in Entry
    BY DEF Typed, NodeOK, Node, Entry
  <2>2. srv' = [srv EXCEPT ![i] = [srv[i] EXCEPT !.log = Append(srv[i].log, e)]]
    BY <1>5 DEF ClientCommand
  <2> HIDE DEF e
  <2>3. Alone(i) /\ srv'[i].log = Append(srv[i].log, e)
    BY <2>1, <2>2 DEF Typed, Alone, Node
  <2>4. \A j \in Servers : srv[j].log \in Seq(Entry)
    BY DEF Typed, NodeOK, Node
  <2>5. SubSeq(Append(srv[i].log, e), 1, Len(srv[i].log)) = srv[i].log
    BY <2>1, <2>4, AppendKeeps
  <2> QED
    BY <2>3, <2>4, <2>5, SubSeqFull DEF OnlyAppend, Alone
<1>6. ASSUME NEW m \in msgs, Receive(m) PROVE OnlyAppend
  <2>1. /\ m.to \in Servers /\ Alone(m.to)
        /\ srv[m.to].state = "leader" => SameLeaders(m.to)
    BY <1>1, <1>2, <1>6, HandleRequestVoteRecord, HandleVoteReplyRecord, HandleAppendRecord,
       HandleAppendReplyRecord DEF Receive
  <2> QED
    BY <1>1, <2>1, SameLeadersAppend
<1> QED
  BY <1>3, <1>4, <1>5, <1>6 DEF Next, vars, Heartbeat, SendEntries

LEMMA AlwaysHistory == Spec => [](Typed /\ VoteInv /\ HistoryInv)
<1>1. Init => Typed /\ VoteInv /\ HistoryInv
  BY InitTyped, InitVotes, InitHistory
<1>2. Typed /\ VoteInv /\ HistoryInv /\ [Next]_vars => (Typed /\ VoteInv /\ HistoryInv)'
  BY TypedInductive, VotesInductive, HistoryInductive
<1> QED
  BY <1>1, <1>2, PTL DEF Spec

\* Logs with an entry of one term at one index are the same up to it, for any
\* servers, any logs, and any mix of requests, conflicts and truncations
\* (matches, truncate_from and append_entries of log.rs).
THEOREM LogsMatch == Spec => []LogMatching
<1>1. ASSUME Typed, HistoryInv PROVE LogMatching
  <2>1. PICK h \in Histories : Recorded(h)
    BY <1>1 DEF HistoryInv
  <2>2. \A i \in Servers : srv[i].log \in Seq(Entry) /\ Derived(h, srv[i].log)
    BY <1>1, <2>1, LogTypes DEF Recorded, LogsDerived
  <2> QED
    BY <2>2, DerivedMatch DEF LogMatching
<1> QED
  BY <1>1, AlwaysHistory, PTL

\* While a node leads, its log only grows: a request to append that it still
\* receives is of another term, or never changes it (handle_append_entries).
THEOREM LeadersNeverRewrite == Spec => LeaderAppendOnly
<1>1. Typed /\ VoteInv /\ HistoryInv /\ [Next]_vars => OnlyAppend
  BY LeadersOnlyAppend
<1>2. Typed /\ VoteInv /\ HistoryInv /\ [Next]_vars =>
        [\A i \in Servers :
           srv[i].state = "leader" /\ srv'[i].state = "leader" =>
             SubSeq(srv'[i].log, 1, Len(srv[i].log)) = srv[i].log]_vars
  BY <1>1 DEF OnlyAppend
<1> QED
  BY <1>2, AlwaysHistory, PTL DEF Spec, LeaderAppendOnly

=============================================================================
