---------------------------- MODULE ChangeStream ----------------------------
(***************************************************************************)
(* ReplicationLog and one ReplicationStream of crates/ruvector-replication *)
(* with its consumers.                                                     *)
(*                                                                         *)
(* stream_from spawns a task that reads the log batch by batch, key by key *)
(* and without a lock over the batch, sends each batch into a bounded      *)
(* channel and now and then writes the stream's checkpoint; resume does    *)
(* the same from the checkpoint.  A session is one such task with its      *)
(* channel.  Entries are appended and truncated meanwhile, and consumers   *)
(* drop their receivers, which a task only learns at its next send.        *)
(***************************************************************************)
EXTENDS Naturals, Sequences, FiniteSets

CONSTANTS
    MaxSessions,    \* bound: calls of stream_from and resume
    MaxSequence,    \* bound: entries ever appended, and the numbers callers name
    BatchSize, BufferSize, Interval,
    MaxCalls        \* bound: calls of truncate_before, set_checkpoint and
                    \* clear_checkpoint, and of stream_from with a number

ASSUME StreamAssumption ==
    /\ MaxSessions \in Nat /\ MaxSequence \in Nat /\ MaxCalls \in Nat
    /\ BatchSize \in Nat \ {0} /\ BufferSize \in Nat \ {0} /\ Interval \in Nat

VARIABLES
    sequence,       \* the newest sequence number
    entries,        \* the numbers of the entries in the log
    doomed,         \* the entries a running truncate_before has yet to remove
    checkpoint,     \* of the stream; 0 is none
    calls,          \* bound: calls made so far
    task,           \* the task of each session
    buffer,         \* the batches in the channel of each session, as sets
    received,       \* what the consumer of each session has received
    attached,       \* whether the receiver of the session exists
    truncated,      \* history: entries removed from the log
    overtaken,      \* history: entries each session has passed, see ReadKey
    skipped         \* history: entries above the checkpoint a caller chose to
                    \* leave out, by stream_from or set_checkpoint

streamVars == <<sequence, entries, doomed, checkpoint, calls, task, buffer, received,
                attached, truncated, overtaken, skipped>>

\* Sessions are numbered in the order of the calls.
Sessions == 1..MaxSessions

log == <<sequence, entries, doomed, truncated>>
channel == <<buffer, received, attached>>

Unborn == [at |-> "unborn", start |-> 0, current |-> 0, next |-> 0, got |-> {},
           missed |-> {}, since |-> 0]

StreamInit ==
    /\ sequence = 0 /\ entries = {} /\ doomed = {} /\ truncated = {}
    /\ checkpoint = 0 /\ calls = 0
    /\ task = [s \in Sessions |-> Unborn]
    /\ buffer = [s \in Sessions |-> <<>>]
    /\ received = [s \in Sessions |-> {}]
    /\ attached = [s \in Sessions |-> FALSE]
    /\ overtaken = [s \in Sessions |-> {}]
    /\ skipped = {}

-----------------------------------------------------------------------------
(* The log                                                                 *)

\* append holds the lock of the sequence until the entry is in the map.
AppendEntry ==
    /\ sequence < MaxSequence
    /\ sequence' = sequence + 1
    /\ entries' = entries \cup {sequence'}
    /\ UNCHANGED <<doomed, truncated, checkpoint, calls, task, channel, overtaken, skipped>>

\* truncate_before of a number the log has reached.  The map is swept part by
\* part, so that its entries go one by one and in any order.
Truncate(before) ==
    /\ calls < MaxCalls /\ doomed = {}
    /\ calls' = calls + 1
    /\ doomed' = {k \in entries : k < before}
    /\ doomed' # {}
    /\ UNCHANGED <<sequence, entries, truncated, checkpoint, task, channel, overtaken, skipped>>

Sweep(k) ==
    /\ k \in doomed
    /\ doomed' = doomed \ {k}
    /\ entries' = entries \ {k}
    /\ truncated' = truncated \cup {k}
    /\ UNCHANGED <<sequence, checkpoint, calls, task, channel, overtaken, skipped>>

-----------------------------------------------------------------------------
(* A session                                                               *)

Reading(t) == [t EXCEPT !.at = "read", !.next = t.current + 1, !.got = {}, !.missed = {}]

Open(s, start) ==
    /\ task[s] = Unborn /\ \A r \in 1..(s - 1) : task[r] # Unborn
    /\ task' = [task EXCEPT ![s] = Reading([Unborn EXCEPT !.start = start, !.current = start])]
    /\ attached' = [attached EXCEPT ![s] = TRUE]
    /\ UNCHANGED <<log, checkpoint, buffer, received, overtaken>>

\* The entries between the checkpoint and a number that a caller puts in its
\* place.
Above(n) == (checkpoint + 1)..n

\* stream_from(n), of any n: the caller leaves out what comes before.
StreamFrom(s, n) ==
    /\ Open(s, n)
    /\ n # 0 => calls < MaxCalls
    /\ calls' = IF n = 0 THEN calls ELSE calls + 1
    /\ skipped' = skipped \cup Above(n)

\* resume.
Resume(s) ==
    /\ Open(s, checkpoint)
    /\ UNCHANGED <<calls, skipped>>

LastOf(batch) == CHOOSE k \in batch : \A j \in batch : j <= k

\* Mutants: the next batch begins behind the range and not behind the last
\* entry; current_sequence stays; an empty batch ends the task.
AfterBatchRange(t) ==
    IF t.got = {} THEN Reading(t)
    ELSE [t EXCEPT !.at = "send", !.current = IF @ + BatchSize > MaxSequence
                                              THEN MaxSequence ELSE @ + BatchSize]

AfterBatchStays(t) ==
    IF t.got = {} THEN Reading(t) ELSE [t EXCEPT !.at = "send"]

AfterBatchStops(t) ==
    IF t.got = {} THEN [t EXCEPT !.at = "ended"]
    ELSE [t EXCEPT !.at = "send", !.current = LastOf(t.got)]

\* An empty batch is read again, after a sleep.  Otherwise the task goes on
\* behind the last entry found: a key that was read before it was appended,
\* with a later one read after, is passed for ever.
AfterBatch(t) ==
    IF t.got = {} THEN Reading(t)
    ELSE [t EXCEPT !.at = "send", !.current = LastOf(t.got), !.next = 0, !.missed = {}]

\* get_range: one key of the batch.  What is not there is passed over, whether
\* it was truncated or is not appended yet.
ReadKey(s) ==
    LET k == task[s].next
        t == [task[s] EXCEPT !.next = k + 1,
                             !.got = IF k \in entries THEN @ \cup {k} ELSE @,
                             !.missed = IF k > sequence THEN @ \cup {k} ELSE @]
        last == k = task[s].current + BatchSize
    IN  /\ task[s].at = "read"
        /\ task' = [task EXCEPT ![s] = IF last THEN AfterBatch(t) ELSE t]
        /\ overtaken' = [overtaken EXCEPT ![s] =
             IF last THEN @ \cup {j \in t.missed : \E g \in t.got : j < g} ELSE @]
        /\ UNCHANGED <<log, checkpoint, calls, channel, skipped>>

\* Whether events_since_checkpoint, with those just sent, asks for a checkpoint.
Due(s) == task[s].since + Cardinality(task[s].got) >= Interval

\* tx.send: waits for room in the channel.
Send(s) ==
    /\ task[s].at = "send" /\ attached[s] /\ Len(buffer[s]) < BufferSize
    /\ buffer' = [buffer EXCEPT ![s] = Append(@, task[s].got)]
    /\ task' = [task EXCEPT ![s] =
         IF Due(s) THEN [@ EXCEPT !.at = "checkpoint"]
         ELSE Reading([task[s] EXCEPT !.since = @ + Cardinality(task[s].got)])]
    /\ UNCHANGED <<log, checkpoint, calls, received, attached, overtaken, skipped>>

\* tx.send fails when the receiver is gone, also while it waits.
SendFails(s) ==
    /\ task[s].at = "send" /\ ~attached[s]
    /\ task' = [task EXCEPT ![s].at = "ended"]
    /\ UNCHANGED <<log, checkpoint, calls, channel, overtaken, skipped>>

\* Mutant: the checkpoint is the end of the range.
WriteCheckpointRange(s) ==
    /\ task[s].at = "checkpoint"
    /\ checkpoint' = task[s].current + 1
    /\ task' = [task EXCEPT ![s] = Reading([@ EXCEPT !.since = 0])]
    /\ UNCHANGED <<log, calls, channel, overtaken, skipped>>

\* The checkpoint is the stream's: a task whose receiver was dropped may still
\* write it over that of a later session.
WriteCheckpoint(s) ==
    /\ task[s].at = "checkpoint"
    /\ checkpoint' = task[s].current
    /\ task' = [task EXCEPT ![s] = Reading([@ EXCEPT !.since = 0])]
    /\ UNCHANGED <<log, calls, channel, overtaken, skipped>>

Task(s) ==
    \/ ReadKey(s)
    \/ Send(s)
    \/ SendFails(s)
    \/ WriteCheckpoint(s)

-----------------------------------------------------------------------------
(* The consumer                                                            *)

Receive(s) ==
    /\ attached[s] /\ buffer[s] # <<>>
    /\ received' = [received EXCEPT ![s] = @ \cup Head(buffer[s])]
    /\ buffer' = [buffer EXCEPT ![s] = Tail(@)]
    /\ UNCHANGED <<log, checkpoint, calls, task, attached, overtaken, skipped>>

\* The consumer ends; what is in the channel is lost.
Detach(s) ==
    /\ attached[s]
    /\ attached' = [attached EXCEPT ![s] = FALSE]
    /\ UNCHANGED <<log, checkpoint, calls, task, buffer, received, overtaken, skipped>>

\* set_checkpoint(n), of any n.
SetCheckpoint(n) ==
    /\ calls < MaxCalls
    /\ calls' = calls + 1
    /\ checkpoint' = n
    /\ skipped' = skipped \cup Above(n)
    /\ UNCHANGED <<log, task, channel, overtaken>>

ClearCheckpoint ==
    /\ calls < MaxCalls
    /\ calls' = calls + 1
    /\ checkpoint' = 0
    /\ UNCHANGED <<log, task, channel, overtaken, skipped>>

StreamNext ==
    \/ AppendEntry
    \/ \E n \in 1..(sequence + 1) : Truncate(n)
    \/ \E k \in 1..MaxSequence : Sweep(k)
    \/ \E s \in Sessions :
         \/ \E n \in 0..MaxSequence : StreamFrom(s, n)
         \/ Resume(s)
         \/ Task(s)
         \/ Receive(s)
         \/ Detach(s)
    \/ \E n \in 1..MaxSequence : SetCheckpoint(n)
    \/ ClearCheckpoint

StreamSpec == StreamInit /\ [][StreamNext]_streamVars

\* The runtime polls the tasks, and a consumer that keeps its receiver reads it.
StreamFairSpec ==
    StreamSpec /\ \A s \in Sessions : WF_streamVars(Task(s)) /\ WF_streamVars(Receive(s))

-----------------------------------------------------------------------------
(* Properties                                                              *)

Numbers == 1..MaxSequence

\* Every variable has its type.
StreamTypeOK ==
    /\ sequence \in 0..MaxSequence
    /\ entries \subseteq 1..sequence /\ doomed \subseteq entries
    /\ truncated \subseteq 1..sequence
    /\ checkpoint \in 0..MaxSequence /\ calls \in 0..MaxCalls
    /\ task \in [Sessions ->
         [at : {"unborn", "read", "send", "checkpoint", "ended"},
          start : 0..MaxSequence, current : 0..MaxSequence,
          next : Nat, got : SUBSET Numbers, missed : SUBSET Nat, since : Nat]]
    /\ buffer \in [Sessions -> Seq(SUBSET Numbers)]
    /\ received \in [Sessions -> SUBSET Numbers]
    /\ attached \in [Sessions -> BOOLEAN]
    /\ overtaken \in [Sessions -> SUBSET Numbers]
    /\ skipped \subseteq Numbers

Buffered(s) == UNION {buffer[s][n] : n \in DOMAIN buffer[s]}

Sent(s) == received[s] \cup Buffered(s)

\* A session's batches are in the order of the log, above its start and above
\* all that was received before, whatever is appended and truncated meanwhile:
\* no entry comes twice or late.
InLogOrder ==
    \A s \in Sessions :
        /\ \A k \in Sent(s) : k > task[s].start
        /\ \A j \in received[s], k \in Buffered(s) : j < k
        /\ \A m, n \in DOMAIN buffer[s] : m < n =>
             \A j \in buffer[s][m], k \in buffer[s][n] : j < k

\* An entry a session has passed without sending it was truncated, or was
\* overtaken: appended after its key was read and before a later key of the
\* same batch was.
GapsExplained ==
    \A s \in Sessions :
        \A k \in (task[s].start + 1)..task[s].current :
            \/ k \in Sent(s) \cup truncated \cup overtaken[s]
            \/ task[s].at \in {"send", "ended"} /\ k \in task[s].got

\* Everything up to the checkpoint was sent by some session, not necessarily
\* the last, unless a caller chose to leave it out by stream_from or
\* set_checkpoint: resume leaves out nothing else but what is truncated, was
\* overtaken, or lay in the channel of a consumer that ended.
CheckpointWasSent ==
    \A k \in 1..checkpoint :
        \/ k \in truncated \cup skipped
        \/ \E s \in Sessions : k \in Sent(s) \cup overtaken[s]

\* Truncation has left a gap of a batch or more in front of a session: it finds
\* every batch empty and stays where it is.
Stalled(s) ==
    LET c == task[s].current
    IN  (c + 1)..(c + BatchSize) \subseteq truncated

\* A consumer that keeps reading has, again and again, everything that is in the
\* log behind its start, except what was overtaken, unless the session has
\* stalled at a gap.
CatchesUp ==
    \A s \in Sessions :
        []<>(attached[s] /\ ~Stalled(s) =>
                {k \in entries : k > task[s].start} \subseteq received[s] \cup overtaken[s])

=============================================================================
