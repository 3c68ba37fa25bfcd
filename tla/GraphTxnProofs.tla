--------------------------- MODULE GraphTxnProofs ---------------------------
(***************************************************************************)
(* Proofs about GraphTxn, for any transactions, managers, clones and ids:  *)
(* type correctness, no dirty version, no committed write lost, and what   *)
(* may move a snapshot.                                                    *)
(*                                                                         *)
(* What is visible of a version may change, for a delete marks it, but its *)
(* writer, value and time do not (LogGrows).  A write that a commit has to *)
(* make is therefore either still in its plan or in the list for good      *)
(* (WritesPlannedOrMade), and a finished commit has nothing in its plan.   *)
(* For a reader, a list that changes without a reason named has the same   *)
(* visible versions, so the newest of them (LastPosition) is the same.     *)
(***************************************************************************)
EXTENDS GraphTxn, WellFoundedInduction, TLAPS

States == {"unborn", "active", "commit", "committed", "aborted"}

TxnRecord == [at   : States,
              id   : Nat,
              time : Times \cup {0},
              put  : [Keys -> Values \cup {None}],
              del  : SUBSET Readable,
              todo : SUBSET Step]

IsVersionOf(ver, t, k) ==
    /\ ver.value = txn[t].put[k]
    /\ ver.by = txn[t].id
    /\ ver.created = txn[t].time

Begun(t) == txn[t].at \in {"commit", "committed"}

WritesPlannedOrMade ==
    \A t \in Txns, k \in Keys : Begun(t) /\ txn[t].put[k] # None =>
        \/ [stage |-> PutStage(k), key |-> k] \in txn[t].todo
        \/ \E n \in DOMAIN versions[k] : IsVersionOf(versions[k][n], t, k)

FinishedHasNoPlan == \A t \in Txns : At(t, "committed") => txn[t].todo = {}

CommitHasTime == \A t \in Txns : At(t, "commit") => txn[t].time \in Times

PlansAreWrites ==
    \A t \in Txns : At(t, "commit") =>
        \A s \in txn[t].todo : s.stage <= 3 => txn[t].put[s.key] # None

IndInv ==
    /\ TypeOK /\ NoDirtyVersion
    /\ WritesPlannedOrMade /\ FinishedHasNoPlan
    /\ CommitHasTime /\ PlansAreWrites

-----------------------------------------------------------------------------
(* Lemmas                                                                  *)

LEMMA TxnTyped ==
  ASSUME TypeOK, NEW t \in Txns
  PROVE  txn \in [Txns -> TxnRecord] /\ txn[t] \in TxnRecord
BY DEF TypeOK, TxnRecord, States

LEMMA TimesTyped == 1 \in Times /\ Times \subseteq Nat /\ 0 \notin Times
BY GraphTxnAssumption DEF Times

LEMMA UnbornTyped == Unborn \in TxnRecord
BY DEF Unborn, TxnRecord, States

LEMMA PlanTyped ==
  ASSUME TypeOK, NEW t \in Txns
  PROVE  Plan(t) \subseteq Step
<1>1. txn[t].del \subseteq Readable
  BY TxnTyped DEF TxnRecord
<1>2. \A k \in Keys : PutStage(k) \in 1..3 /\ DeleteStage(k) \in 4..5
  BY DEF PutStage, DeleteStage
<1>3. Readable \subseteq Keys
  BY DEF Readable, Keys
<1> QED
  BY <1>1, <1>2, <1>3 DEF Plan, Step

LEMMA NewVersionTyped ==
  ASSUME TypeOK, NEW t \in Txns, NEW k \in Keys, txn[t].put[k] # None,
         txn[t].time \in Times
  PROVE  NewVersion(t, k) \in Version
BY TxnTyped DEF NewVersion, Version, TxnRecord

\* The list of a key only grows, and what it has keeps writer, value and time.
LogGrows ==
    \A k \in Keys : \A n \in DOMAIN versions[k] :
        /\ n \in DOMAIN versions'[k]
        /\ versions'[k][n].value = versions[k][n].value
        /\ versions'[k][n].by = versions[k][n].by
        /\ versions'[k][n].created = versions[k][n].created

\* Steps of a transaction that end no later than its commit begins, and change
\* nothing else of a transaction.
OpenStep(t) ==
    \/ \E m \in Managers : Begin(t, m)
    \/ \E k \in Keys, v \in Values : Write(t, k, v)
    \/ \E k \in Keys : Delete(t, k)
    \/ CommitStart(t)
    \/ Rollback(t)
    \/ Abandon(t)

LEMMA OneTxnChanged ==
  ASSUME TypeOK, NEW t \in Txns, NEW r \in TxnRecord, txn' = [txn EXCEPT ![t] = r]
  PROVE  /\ txn' \in [Txns -> TxnRecord]
         /\ txn'[t] = r
         /\ \A u \in Txns \ {t} : txn'[u] = txn[u]
BY TxnTyped

LEMMA OpenStepTxn ==
  ASSUME TypeOK, NEW t \in Txns, OpenStep(t)
  PROVE  /\ txn' \in [Txns -> TxnRecord]
         /\ \A u \in Txns \ {t} : txn'[u] = txn[u]
         /\ ~Begun(t)
         /\ txn'[t].at # "committed" /\ txn'[t].time <= clock
         /\ txn'[t].at = "commit" =>
              /\ txn'[t].time \in Times
              /\ \A k \in Keys : txn'[t].put[k] # None =>
                   [stage |-> PutStage(k), key |-> k] \in txn'[t].todo
              /\ \A s \in txn'[t].todo : s.stage <= 3 => txn'[t].put[s.key] # None
         /\ UNCHANGED <<clock, versions, committed>>
         /\ next' \in [Managers -> Nat] /\ active' \subseteq Nat
<1>t. /\ clock \in Times /\ next \in [Managers -> Nat] /\ active \subseteq Nat
      /\ txn[t].time <= clock /\ clock \in Nat /\ 0 <= clock
  BY TimesTyped DEF TypeOK
<1>r. txn[t] \in TxnRecord /\ txn \in [Txns -> TxnRecord]
  BY TxnTyped
<1>1. CASE \E m \in Managers : Begin(t, m)
  <2>1. PICK m \in Managers : Begin(t, m)
    BY <1>1
  <2> DEFINE r == [txn[t] EXCEPT !.at = "active", !.id = next[m], !.time = clock]
  <2>2. r \in TxnRecord
    BY <1>t, <1>r DEF TxnRecord, States
  <2>3. txn' = [txn EXCEPT ![t] = r]
    BY <1>r, <2>1 DEF Begin, TxnRecord
  <2>4. r.at = "active" /\ r.time = clock
    BY <1>r DEF TxnRecord
  <2>5. /\ next' \in [Managers -> Nat] /\ active' \subseteq Nat
        /\ UNCHANGED <<clock, versions, committed>> /\ txn[t].at = "unborn"
    BY <1>t, <2>1 DEF Begin, At
  <2> HIDE DEF r
  <2>6. /\ txn' \in [Txns -> TxnRecord] /\ txn'[t] = r
        /\ \A u \in Txns \ {t} : txn'[u] = txn[u]
    BY <2>2, <2>3, OneTxnChanged
  <2> QED
    BY <1>t, <2>4, <2>5, <2>6 DEF Begun
<1>2. CASE \E k \in Keys, v \in Values : Write(t, k, v)
  <2>1. PICK k \in Keys, v \in Values : Write(t, k, v)
    BY <1>2
  <2> DEFINE puts == [txn[t].put EXCEPT ![k] = v]
  <2> DEFINE r == [txn[t] EXCEPT !.put = puts]
  <2>2. puts \in [Keys -> Values \cup {None}]
    BY <1>r DEF TxnRecord
  <2>3. txn' = [txn EXCEPT ![t] = r]
    BY <1>r, <2>1 DEF Write, TxnRecord
  <2> HIDE DEF puts
  <2>4. r \in TxnRecord /\ r.at = txn[t].at /\ r.time = txn[t].time
    BY <1>r, <2>2 DEF TxnRecord
  <2> HIDE DEF r
  <2> QED
    BY <1>t, <2>1, <2>3, <2>4, OneTxnChanged DEF Write, At, Begun
<1>3. CASE \E k \in Keys : Delete(t, k)
  <2>1. PICK k \in Keys : Delete(t, k)
    BY <1>3
  <2> DEFINE r == [txn[t] EXCEPT !.del = @ \cup {k}]
  <2>2. r \in TxnRecord /\ r.at = txn[t].at /\ r.time = txn[t].time
    BY <1>r, <2>1 DEF Delete, TxnRecord
  <2>3. txn' = [txn EXCEPT ![t] = r]
    BY <1>r, <2>1 DEF Delete, TxnRecord
  <2> HIDE DEF r
  <2> QED
    BY <1>t, <2>1, <2>2, <2>3, OneTxnChanged DEF Delete, At, Begun
<1>4. CASE CommitStart(t)
  <2> DEFINE r == [txn[t] EXCEPT !.at = "commit", !.time = clock, !.todo = Plan(t)]
  <2>1. txn' = [txn EXCEPT ![t] = r]
    BY <1>4, <1>r DEF CommitStart, TxnRecord
  <2>2. /\ r \in TxnRecord /\ r.at = "commit" /\ r.time = clock
        /\ r.put = txn[t].put /\ r.todo = Plan(t)
    BY <1>t, <1>r, PlanTyped DEF TxnRecord, States
  <2>3. /\ \A k \in Keys : r.put[k] # None =>
             [stage |-> PutStage(k), key |-> k] \in r.todo
        /\ \A s \in r.todo : s.stage <= 3 => r.put[s.key] # None
    BY <2>2 DEF Plan, DeleteStage
  <2>4. UNCHANGED <<clock, next, active, versions, committed>> /\ txn[t].at = "active"
    BY <1>4 DEF CommitStart, At
  <2> HIDE DEF r
  <2>5. /\ txn' \in [Txns -> TxnRecord] /\ txn'[t] = r
        /\ \A u \in Txns \ {t} : txn'[u] = txn[u]
    BY <2>1, <2>2, OneTxnChanged
  <2> QED
    BY <1>t, <2>2, <2>3, <2>4, <2>5 DEF Begun
<1>5. CASE Rollback(t) \/ Abandon(t)
  <2>1. Aborted(t) \in TxnRecord /\ Aborted(t).at = "aborted" /\ Aborted(t).time = 0
    BY <1>r, UnbornTyped DEF Aborted, Unborn, States, TxnRecord
  <2> QED
    BY <1>5, <1>t, <2>1, OneTxnChanged DEF Rollback, Abandon, At, Begun
<1> QED
  BY <1>1, <1>2, <1>3, <1>4, <1>5 DEF OpenStep

LEMMA OpenStepKeeps ==
  ASSUME IndInv, NEW t \in Txns, OpenStep(t)
  PROVE  IndInv'
<1> USE OpenStepTxn DEF IndInv
<1>1. TypeOK'
  <2>1. /\ clock \in Times /\ committed \subseteq Nat /\ versions \in [Keys -> Seq(Version)]
        /\ \A u \in Txns : txn[u].time <= clock
        /\ \A k \in Keys : \A n \in DOMAIN versions[k] : versions[k][n].created <= clock
    BY DEF TypeOK
  <2>2. /\ UNCHANGED <<clock, versions, committed>> /\ txn' \in [Txns -> TxnRecord]
        /\ next' \in [Managers -> Nat] /\ active' \subseteq Nat
    OBVIOUS
  <2>3. \A u \in Txns : txn'[u].time <= clock
    BY <2>1
  <2> QED
    BY <2>1, <2>2, <2>3, Zenon DEF TypeOK, TxnRecord, States
<1>2. NoDirtyVersion'
  <2> SUFFICES ASSUME NEW k \in Keys, NEW n \in DOMAIN versions[k]
               PROVE  \E u \in Txns : /\ txn'[u].at \in {"commit", "committed"}
                                      /\ txn'[u].id = versions[k][n].by
                                      /\ txn'[u].put[k] = versions[k][n].value
    BY DEF NoDirtyVersion
  <2>1. PICK u \in Txns : /\ txn[u].at \in {"commit", "committed"}
                          /\ txn[u].id = versions[k][n].by
                          /\ txn[u].put[k] = versions[k][n].value
    BY DEF NoDirtyVersion
  <2> QED
    BY <2>1 DEF Begun
<1>3. WritesPlannedOrMade'
  <2> SUFFICES ASSUME NEW u \in Txns, NEW k \in Keys, Begun(u)', txn'[u].put[k] # None
               PROVE  \/ [stage |-> PutStage(k), key |-> k] \in txn'[u].todo
                      \/ \E n \in DOMAIN versions'[k] : IsVersionOf(versions[k][n], u, k)'
    BY DEF WritesPlannedOrMade
  <2> QED
    BY DEF WritesPlannedOrMade, Begun, IsVersionOf
<1>4. FinishedHasNoPlan' /\ CommitHasTime' /\ PlansAreWrites'
  BY DEF FinishedHasNoPlan, CommitHasTime, PlansAreWrites, At
<1> QED
  BY <1>1, <1>2, <1>3, <1>4

-----------------------------------------------------------------------------
(* Commit                                                                  *)

\* What CommitPut and CommitDelete have in common.
LEMMA TurnTaken ==
  ASSUME IndInv, NEW t \in Txns, NEW s \in txn[t].todo, Turn(t, s),
         txn' = [txn EXCEPT ![t].todo = @ \ {s}]
  PROVE  /\ s \in Step /\ txn[t].at = "commit" /\ txn[t].time \in Times
         /\ txn' \in [Txns -> TxnRecord]
         /\ txn'[t] = [txn[t] EXCEPT !.todo = @ \ {s}]
         /\ \A u \in Txns \ {t} : txn'[u] = txn[u]
<1>1. txn[t] \in TxnRecord /\ txn \in [Txns -> TxnRecord] /\ TypeOK
  BY TxnTyped DEF IndInv
<1> DEFINE r == [txn[t] EXCEPT !.todo = @ \ {s}]
<1>2. r \in TxnRecord /\ s \in Step
  BY <1>1 DEF TxnRecord
<1>3. txn' = [txn EXCEPT ![t] = r]
  BY <1>1 DEF TxnRecord
<1>4. /\ txn' \in [Txns -> TxnRecord] /\ txn'[t] = r
      /\ \A u \in Txns \ {t} : txn'[u] = txn[u]
  <2> HIDE DEF r
  <2> QED
    BY <1>1, <1>2, <1>3, OneTxnChanged
<1> QED
  BY <1>2, <1>4 DEF Turn, At, IndInv, CommitHasTime

\* What every step of a commit keeps, given what it does to the lists.
LEMMA CommitStepKeeps ==
  ASSUME IndInv, NEW t \in Txns, NEW s \in txn[t].todo, Turn(t, s),
         txn' = [txn EXCEPT ![t].todo = @ \ {s}],
         UNCHANGED <<clock, next, active, committed>>,
         versions' \in [Keys -> Seq(Version)],
         LogGrows,
         \A k \in Keys : \A n \in DOMAIN versions'[k] :
            \/ n \in DOMAIN versions[k]
            \/ s.stage <= 3 /\ k = s.key /\ IsVersionOf(versions'[k][n], t, k),
         s.stage <= 3 =>
            \E n \in DOMAIN versions'[s.key] : IsVersionOf(versions'[s.key][n], t, s.key)
  PROVE  IndInv'
<1>1. /\ s \in Step /\ txn[t].at = "commit" /\ txn[t].time \in Times
      /\ txn' \in [Txns -> TxnRecord]
      /\ txn'[t] = [txn[t] EXCEPT !.todo = @ \ {s}]
      /\ \A u \in Txns \ {t} : txn'[u] = txn[u]
  BY TurnTaken
<1>2. \A u \in Txns : /\ txn'[u].at = txn[u].at /\ txn'[u].id = txn[u].id
                      /\ txn'[u].time = txn[u].time /\ txn'[u].put = txn[u].put
                      /\ u # t => txn'[u].todo = txn[u].todo
  BY <1>1, TxnTyped DEF TxnRecord, IndInv
<1>3. txn'[t].todo = txn[t].todo \ {s}
  BY <1>1, TxnTyped DEF TxnRecord, IndInv
<1>4. TypeOK'
  <2>1. \A u \in Txns : txn'[u].time <= clock'
    BY <1>2 DEF IndInv, TypeOK
  <2>2. \A k \in Keys : \A n \in DOMAIN versions'[k] : versions'[k][n].created <= clock'
    <3>1. /\ txn[t].time <= clock
          /\ \A k \in Keys : \A n \in DOMAIN versions[k] : versions[k][n].created <= clock
      BY DEF IndInv, TypeOK
    <3> QED
      BY <3>1 DEF LogGrows, IsVersionOf
  <2>3. /\ clock' \in Times /\ next' \in [Managers -> Nat] /\ active' \subseteq Nat
        /\ committed' \subseteq Nat
    BY DEF IndInv, TypeOK
  <2> QED
    BY <1>1, <2>1, <2>2, <2>3, Zenon DEF TypeOK, TxnRecord, States
<1>5. NoDirtyVersion'
  <2> SUFFICES ASSUME NEW k \in Keys, NEW n \in DOMAIN versions'[k]
               PROVE  \E u \in Txns : /\ txn'[u].at \in {"commit", "committed"}
                                      /\ txn'[u].id = versions'[k][n].by
                                      /\ txn'[u].put[k] = versions'[k][n].value
    BY DEF NoDirtyVersion
  <2>1. CASE n \in DOMAIN versions[k]
    BY <1>2, <2>1 DEF IndInv, NoDirtyVersion, LogGrows
  <2>2. CASE n \notin DOMAIN versions[k]
    BY <1>1, <1>2, <2>2 DEF IsVersionOf
  <2> QED
    BY <2>1, <2>2
<1>6. WritesPlannedOrMade'
  <2> SUFFICES ASSUME NEW u \in Txns, NEW k \in Keys, Begun(u)', txn'[u].put[k] # None
               PROVE  \/ [stage |-> PutStage(k), key |-> k] \in txn'[u].todo
                      \/ \E n \in DOMAIN versions'[k] : IsVersionOf(versions[k][n], u, k)'
    BY DEF WritesPlannedOrMade
  <2> DEFINE e == [stage |-> PutStage(k), key |-> k]
  <2>1. \A n \in DOMAIN versions'[k] :
          IsVersionOf(versions[k][n], u, k)' <=> IsVersionOf(versions'[k][n], u, k)
    BY <1>2 DEF IsVersionOf
  <2>2. Begun(u) /\ txn[u].put[k] # None
    BY <1>2 DEF Begun
  <2>3. CASE \E n \in DOMAIN versions[k] : IsVersionOf(versions[k][n], u, k)
    BY <2>1, <2>3 DEF LogGrows, IsVersionOf
  <2>4. CASE e \in txn[u].todo /\ e \in txn'[u].todo
    BY <2>4
  <2>5. CASE e \in txn[u].todo /\ e \notin txn'[u].todo
    <3>1. u = t /\ e = s
      BY <1>2, <1>3, <2>5
    <3>2. s.stage <= 3 /\ s.key = k
      BY <3>1 DEF PutStage
    <3> QED
      BY <2>1, <3>1, <3>2
  <2> QED
    BY <2>2, <2>3, <2>4, <2>5 DEF IndInv, WritesPlannedOrMade
<1>7. FinishedHasNoPlan' /\ CommitHasTime' /\ PlansAreWrites'
  BY <1>1, <1>2, <1>3 DEF IndInv, FinishedHasNoPlan, CommitHasTime, PlansAreWrites, At
<1> QED
  BY <1>4, <1>5, <1>6, <1>7 DEF IndInv

LEMMA CommitPutKeeps ==
  ASSUME IndInv, NEW t \in Txns, NEW s \in txn[t].todo, CommitPut(t, s)
  PROVE  IndInv'
<1> DEFINE ver == NewVersion(t, s.key)
<1>1. /\ Turn(t, s) /\ s.stage <= 3
      /\ txn' = [txn EXCEPT ![t].todo = @ \ {s}]
      /\ UNCHANGED <<clock, next, active, committed>>
      /\ versions' = [versions EXCEPT ![s.key] = Append(@, ver)]
  BY DEF CommitPut
<1>2. s \in Step /\ s.key \in Keys /\ txn[t].time \in Times /\ txn[t].put[s.key] # None
  BY <1>1, TurnTaken DEF Step, IndInv, PlansAreWrites, At
<1>3. ver \in Version /\ IsVersionOf(ver, t, s.key)
  BY <1>2, NewVersionTyped DEF IndInv, NewVersion, IsVersionOf
<1>4. versions \in [Keys -> Seq(Version)]
  BY DEF IndInv, TypeOK
<1> HIDE DEF ver
<1>5. /\ versions' \in [Keys -> Seq(Version)]
      /\ \A k \in Keys : k # s.key => versions'[k] = versions[k]
      /\ versions'[s.key] = Append(versions[s.key], ver)
  BY <1>1, <1>2, <1>3, <1>4
<1>6. LET vs == versions[s.key] IN
      /\ DOMAIN Append(vs, ver) = DOMAIN vs \cup {Len(vs) + 1}
      /\ \A n \in DOMAIN vs : Append(vs, ver)[n] = vs[n]
      /\ Append(vs, ver)[Len(vs) + 1] = ver
  BY <1>2, <1>3, <1>4
<1>7. LogGrows
  BY <1>5, <1>6 DEF LogGrows
<1>8. \A k \in Keys : \A n \in DOMAIN versions'[k] :
         \/ n \in DOMAIN versions[k]
         \/ s.stage <= 3 /\ k = s.key /\ IsVersionOf(versions'[k][n], t, k)
  BY <1>1, <1>3, <1>5, <1>6
<1>9. s.stage <= 3 =>
        \E n \in DOMAIN versions'[s.key] : IsVersionOf(versions'[s.key][n], t, s.key)
  BY <1>3, <1>5, <1>6
<1> QED
  BY <1>1, <1>5, <1>7, <1>8, <1>9, CommitStepKeeps, Zenon

LEMMA CommitDeleteKeeps ==
  ASSUME IndInv, NEW t \in Txns, NEW s \in txn[t].todo, CommitDelete(t, s)
  PROVE  IndInv'
<1> DEFINE after == MarkDeleted(versions[s.key], txn[t].time)
<1>1. /\ Turn(t, s) /\ s.stage > 3
      /\ txn' = [txn EXCEPT ![t].todo = @ \ {s}]
      /\ UNCHANGED <<clock, next, active, committed>>
      /\ versions' = [versions EXCEPT ![s.key] = after]
  BY DEF CommitDelete
<1>2. s \in Step /\ s.key \in Keys /\ s.stage \in 1..5 /\ txn[t].time \in Times
  BY <1>1, TurnTaken DEF Step
<1>3. versions \in [Keys -> Seq(Version)]
  BY DEF IndInv, TypeOK
<1>4. /\ after \in Seq(Version) /\ DOMAIN after = DOMAIN versions[s.key]
      /\ \A n \in DOMAIN versions[s.key] :
           /\ after[n].value = versions[s.key][n].value
           /\ after[n].by = versions[s.key][n].by
           /\ after[n].created = versions[s.key][n].created
  <2>1. CASE versions[s.key] = <<>>
    BY <1>2, <1>3, <2>1 DEF MarkDeleted
  <2>2. CASE versions[s.key] # <<>>
    <3> DEFINE vs == versions[s.key]
               l == Len(vs)
    <3>1. vs \in Seq(Version) /\ l \in DOMAIN vs /\ vs[l] \in Version
      BY <1>2, <1>3, <2>2
    <3>2. [vs[l] EXCEPT !.deleted = txn[t].time] \in Version
      BY <1>2, <3>1 DEF Version
    <3>3. after = [vs EXCEPT ![l] = [vs[l] EXCEPT !.deleted = txn[t].time]]
      BY <2>2, <3>1 DEF MarkDeleted
    <3> HIDE DEF vs, l, after
    <3>4. after \in Seq(Version) /\ DOMAIN after = DOMAIN vs
      BY <3>1, <3>2, <3>3
    <3>5. \A n \in DOMAIN vs : n # l => after[n] = vs[n]
      BY <3>1, <3>3
    <3>6. after[l] = [vs[l] EXCEPT !.deleted = txn[t].time]
      BY <3>1, <3>3
    <3>7. /\ after[l].value = vs[l].value /\ after[l].by = vs[l].by
          /\ after[l].created = vs[l].created
      BY <3>1, <3>6 DEF Version
    <3> QED
      BY <3>4, <3>5, <3>7 DEF vs
  <2> QED
    BY <2>1, <2>2
<1> HIDE DEF after
<1>5. /\ versions' \in [Keys -> Seq(Version)]
      /\ \A k \in Keys : k # s.key => versions'[k] = versions[k]
      /\ versions'[s.key] = after
  BY <1>1, <1>2, <1>3, <1>4
<1>6. LogGrows
  BY <1>4, <1>5 DEF LogGrows
<1>7. \A k \in Keys : DOMAIN versions'[k] = DOMAIN versions[k]
  BY <1>4, <1>5
<1>8. ~(s.stage <= 3)
  BY <1>1, <1>2
<1> QED
  BY <1>1, <1>5, <1>6, <1>7, <1>8, CommitStepKeeps, Zenon

LEMMA CommitEndKeeps ==
  ASSUME IndInv, NEW t \in Txns, CommitEnd(t)
  PROVE  IndInv'
<1> DEFINE r == [txn[t] EXCEPT !.at = "committed"]
<1>1. txn[t] \in TxnRecord /\ txn \in [Txns -> TxnRecord] /\ TypeOK
  BY TxnTyped DEF IndInv
<1>2. /\ txn[t].at = "commit" /\ txn[t].todo = {} /\ txn' = [txn EXCEPT ![t] = r]
      /\ UNCHANGED <<clock, next, versions>>
      /\ active' \subseteq Nat /\ committed' \subseteq Nat
  BY <1>1 DEF CommitEnd, At, TxnRecord, TypeOK
<1>3. /\ r \in TxnRecord /\ r.at = "committed" /\ r.id = txn[t].id /\ r.time = txn[t].time
      /\ r.put = txn[t].put /\ r.todo = {}
  BY <1>1, <1>2 DEF TxnRecord, States
<1> HIDE DEF r
<1>4. /\ txn' \in [Txns -> TxnRecord] /\ txn'[t] = r
      /\ \A u \in Txns \ {t} : txn'[u] = txn[u]
  BY <1>1, <1>2, <1>3, OneTxnChanged
<1>5. \A u \in Txns : /\ Begun(u)' <=> Begun(u)
                      /\ txn'[u].id = txn[u].id /\ txn'[u].time = txn[u].time
                      /\ txn'[u].put = txn[u].put /\ txn'[u].todo = txn[u].todo
  BY <1>2, <1>3, <1>4 DEF Begun
<1>6. TypeOK'
  <2>1. /\ \A u \in Txns : txn'[u].time <= clock'
        /\ \A k \in Keys : \A n \in DOMAIN versions'[k] : versions'[k][n].created <= clock'
        /\ clock' \in Times /\ next' \in [Managers -> Nat] /\ versions' \in [Keys -> Seq(Version)]
    BY <1>1, <1>2, <1>5 DEF TypeOK
  <2> QED
    BY <1>2, <1>4, <2>1, Zenon DEF TypeOK, TxnRecord, States
<1>7. NoDirtyVersion'
  <2> SUFFICES ASSUME NEW k \in Keys, NEW n \in DOMAIN versions[k]
               PROVE  \E u \in Txns : /\ txn'[u].at \in {"commit", "committed"}
                                      /\ txn'[u].id = versions[k][n].by
                                      /\ txn'[u].put[k] = versions[k][n].value
    BY <1>2 DEF NoDirtyVersion
  <2> QED
    BY <1>5 DEF IndInv, NoDirtyVersion, Begun
<1>8. WritesPlannedOrMade'
  BY <1>2, <1>5 DEF IndInv, WritesPlannedOrMade, IsVersionOf
<1>9. FinishedHasNoPlan' /\ CommitHasTime' /\ PlansAreWrites'
  BY <1>3, <1>4 DEF IndInv, FinishedHasNoPlan, CommitHasTime, PlansAreWrites, At
<1> QED
  BY <1>6, <1>7, <1>8, <1>9 DEF IndInv

-----------------------------------------------------------------------------
(* The specification                                                       *)

LEMMA InitEstablishes == Init => IndInv
<1> SUFFICES ASSUME Init PROVE IndInv
  OBVIOUS
<1>1. /\ clock = 1 /\ active = {} /\ committed = {}
      /\ versions = [k \in Keys |-> <<>>] /\ txn = [t \in Txns |-> Unborn]
      /\ next \in [Managers -> Nat]
  BY DEF Init
<1>2. /\ Unborn \in TxnRecord /\ Unborn.at = "unborn" /\ Unborn.time = 0
  BY UnbornTyped DEF Unborn
<1>3. txn \in [Txns -> TxnRecord] /\ \A t \in Txns : txn[t].at = "unborn" /\ txn[t].time = 0
  BY <1>1, <1>2
<1>4. versions \in [Keys -> Seq(Version)] /\ \A k \in Keys : DOMAIN versions[k] = {}
  BY <1>1
<1>5. TypeOK
  <2>1. clock = 1 /\ \A t \in Txns : txn[t].time = 0
    BY <1>1, <1>3
  <2>2. ASSUME NEW t \in Txns PROVE txn[t].time <= clock
    <3>1. txn[t].time = 0 /\ clock = 1
      BY <2>1
    <3> QED
      BY <3>1
  <2> QED
    BY <1>1, <1>3, <1>4, <2>2, TimesTyped DEF TypeOK, TxnRecord, States
<1>6. NoDirtyVersion
  BY <1>4 DEF NoDirtyVersion
<1>7. WritesPlannedOrMade /\ FinishedHasNoPlan /\ CommitHasTime /\ PlansAreWrites
  BY <1>3 DEF WritesPlannedOrMade, FinishedHasNoPlan, CommitHasTime, PlansAreWrites, Begun, At
<1> QED
  BY <1>5, <1>6, <1>7 DEF IndInv

\* The clock, a clone and a stutter touch no transaction and no list.
LEMMA OthersKeep ==
  ASSUME IndInv, Tick \/ (\E m, n \in Managers : CloneManager(m, n)) \/ UNCHANGED vars
  PROVE  IndInv'
<1>1. /\ UNCHANGED <<txn, versions, active, committed>>
      /\ clock' \in Times /\ clock <= clock' /\ next' \in [Managers -> Nat]
  <2>1. clock \in Times /\ clock \in Nat /\ next \in [Managers -> Nat]
    BY TimesTyped DEF IndInv, TypeOK
  <2>2. CASE Tick
    BY <2>1, <2>2, TimesTyped DEF Tick
  <2>3. CASE \E m, n \in Managers : CloneManager(m, n)
    BY <2>1, <2>3 DEF CloneManager
  <2>4. CASE UNCHANGED vars
    BY <2>1, <2>4 DEF vars
  <2> QED
    BY <2>2, <2>3, <2>4
<1>2. TypeOK'
  <2>1. /\ \A t \in Txns : txn[t].time <= clock'
        /\ \A k \in Keys : \A n \in DOMAIN versions[k] : versions[k][n].created <= clock'
    <3>1. clock \in Nat /\ clock' \in Nat
      BY <1>1, TimesTyped DEF IndInv, TypeOK
    <3>2. \A t \in Txns : txn[t].time \in Nat /\ txn[t].time <= clock
      <4>1. \A t \in Txns : txn[t].time \in Times \cup {0} /\ txn[t].time <= clock
        BY DEF IndInv, TypeOK
      <4>2. Times \cup {0} \subseteq Nat
        BY TimesTyped
      <4> QED
        BY <4>1, <4>2, Zenon
    <3>3. \A k \in Keys : \A n \in DOMAIN versions[k] :
             versions[k][n].created \in Nat /\ versions[k][n].created <= clock
      <4>1. \A k \in Keys : \A n \in DOMAIN versions[k] : versions[k][n] \in Version
        BY DEF IndInv, TypeOK
      <4> QED
        BY <4>1, TimesTyped DEF IndInv, TypeOK, Version
    <3> QED
      BY <1>1, <3>1, <3>2, <3>3
  <2> QED
    BY <1>1, <2>1 DEF IndInv, TypeOK
<1>3. NoDirtyVersion' /\ WritesPlannedOrMade'
  BY <1>1 DEF IndInv, NoDirtyVersion, WritesPlannedOrMade, Begun, IsVersionOf
<1>4. FinishedHasNoPlan' /\ CommitHasTime' /\ PlansAreWrites'
  BY <1>1 DEF IndInv, FinishedHasNoPlan, CommitHasTime, PlansAreWrites, At
<1> QED
  BY <1>2, <1>3, <1>4 DEF IndInv

LEMMA Inductive == IndInv /\ [Next]_vars => IndInv'
<1> SUFFICES ASSUME IndInv, [Next]_vars PROVE IndInv'
  OBVIOUS
<1>1. CASE Tick \/ (\E m, n \in Managers : CloneManager(m, n)) \/ UNCHANGED vars
  BY <1>1, OthersKeep
<1>2. ASSUME NEW t \in Txns, OpenStep(t) PROVE IndInv'
  BY <1>2, OpenStepKeeps
<1>3. ASSUME NEW t \in Txns, NEW s \in txn[t].todo, CommitPut(t, s) \/ CommitDelete(t, s)
      PROVE  IndInv'
  BY <1>3, CommitPutKeeps, CommitDeleteKeeps
<1>4. ASSUME NEW t \in Txns, CommitEnd(t) PROVE IndInv'
  BY <1>4, CommitEndKeeps
<1> QED
  BY <1>1, <1>2, <1>3, <1>4 DEF Next, OpenStep

LEMMA AlwaysIndInv == Spec => []IndInv
BY InitEstablishes, Inductive, PTL DEF Spec

\* The variables have their types in every reachable state, and no time that is
\* stored anywhere is later than the clock: begin, commit and every list.
THEOREM GraphTypeOK == Spec => []TypeOK
<1>1. IndInv => TypeOK
  BY DEF IndInv
<1> QED
  BY <1>1, AlwaysIndInv, PTL

\* No dirty version: what is in a list was put there by a commit, for any
\* number of transactions, clones of the manager and ids (commit, rollback).
THEOREM NothingDirty == Spec => []NoDirtyVersion
<1>1. IndInv => NoDirtyVersion
  BY DEF IndInv
<1> QED
  BY <1>1, AlwaysIndInv, PTL

\* No lost write: every write of a finished commit stays in its list, however
\* many commits and deletes go through the same lists at the same time.
THEOREM CommittedStays == Spec => []CommittedWritesKept
<1>1. IndInv => CommittedWritesKept
  BY DEF IndInv, CommittedWritesKept, WritesPlannedOrMade, FinishedHasNoPlan, Begun,
         IsVersionOf, At
<1> QED
  BY <1>1, AlwaysIndInv, PTL

-----------------------------------------------------------------------------
(* What a reader sees                                                      *)

\* A set of positions has a last one.
LEMMA LastPosition ==
  ASSUME NEW l \in Nat, NEW S \in SUBSET (1..l), S # {}
  PROVE  \E n \in S : \A o \in S : o <= n
<1>1. PICK R : R = OpToRel(<, Nat)
  OBVIOUS
<1>2. IsWellFoundedOn(R, Nat)
  BY <1>1, NatLessThanWellFounded
<1>3. \A a, b \in Nat : <<a, b>> \in R <=> a < b
  BY <1>1 DEF OpToRel
<1>4. \A n \in S : n \in Nat /\ l - n \in Nat
  OBVIOUS
<1> DEFINE Gaps == {l - n : n \in S}
<1>5. Gaps \subseteq Nat /\ Gaps # {}
  BY <1>4
<1>6. \A n \in S : l - n \in Gaps
  OBVIOUS
<1>7. \A g \in Gaps : \E n \in S : g = l - n
  OBVIOUS
<1> HIDE DEF Gaps
<1>8. PICK g \in Gaps : \A h \in Gaps : ~(<<h, g>> \in R)
  BY <1>2, <1>5, WFMin
<1>9. PICK n \in S : g = l - n
  BY <1>7
<1>10. ASSUME NEW o \in S PROVE o <= n
  <2>1. l - o \in Gaps /\ l - o \in Nat /\ l - n \in Nat
    BY <1>4, <1>6
  <2>2. ~(l - o < l - n)
    BY <1>3, <1>8, <1>9, <2>1
  <2>3. l \in Nat /\ o \in Nat /\ n \in Nat
    BY <1>4
  <2> QED
    BY <2>2, <2>3
<1> QED
  BY <1>10

\* A read answers the same when the same versions are visible, with the same
\* values.
LEMMA SameAnswer ==
  ASSUME TypeOK, NEW t \in Txns, NEW k \in Keys,
         VisibleAt(t, k)' = VisibleAt(t, k),
         \A n \in DOMAIN versions[k] : versions'[k][n].value = versions[k][n].value
  PROVE  Stored(t, k)' = Stored(t, k)
<1> DEFINE V == VisibleAt(t, k)
           last == CHOOSE n \in V : \A o \in V : o <= n
<1>1. CASE V = {}
  BY <1>1 DEF Stored
<1>2. CASE V # {}
  <2>1. versions[k] \in Seq(Version)
    BY DEF TypeOK
  <2>2. V \subseteq 1..Len(versions[k]) /\ Len(versions[k]) \in Nat
    BY <2>1 DEF VisibleAt
  <2>3. V \subseteq DOMAIN versions[k]
    BY DEF VisibleAt
  <2> HIDE DEF V
  <2>4. last \in V
    <3>1. \E n \in V : \A o \in V : o <= n
      BY <1>2, <2>2, LastPosition
    <3> QED
      BY <3>1
  <2>5. versions'[k][last].value = versions[k][last].value
    BY <2>3, <2>4
  <2>6. Stored(t, k) = versions[k][last].value
    BY <1>2 DEF Stored, V
  <2>7. Stored(t, k)' = versions'[k][last].value
    BY <1>2 DEF Stored, V
  <2> QED
    BY <2>5, <2>6, <2>7
<1> QED
  BY <1>1, <1>2

\* What a transaction sees of versions that differ only where it does not look.
LEMMA SameVisible ==
  ASSUME NEW t \in Txns, NEW k \in Keys,
         txn'[t].time = txn[t].time, txn'[t].id = txn[t].id,
         \A n \in DOMAIN versions[k] :
            n \in DOMAIN versions'[k] /\ (Visible(versions'[k][n], t) <=> Visible(versions[k][n], t)),
         \A n \in DOMAIN versions'[k] :
            n \in DOMAIN versions[k] \/ ~Visible(versions'[k][n], t)
  PROVE  VisibleAt(t, k)' = VisibleAt(t, k)
<1>1. \A n \in DOMAIN versions'[k] :
        Visible(versions[k][n], t)' <=> Visible(versions'[k][n], t)
  BY DEF Visible
<1>2. \A n : n \in VisibleAt(t, k)' <=> n \in DOMAIN versions'[k] /\ Visible(versions[k][n], t)'
  BY DEF VisibleAt
<1>3. \A n : n \in VisibleAt(t, k) <=> n \in DOMAIN versions[k] /\ Visible(versions[k][n], t)
  BY DEF VisibleAt
<1> QED
  BY <1>1, <1>2, <1>3

\* A commit that began later than the reader adds what the reader cannot see.
LEMMA PutUnseen ==
  ASSUME IndInv, NEW t \in Txns, NEW k \in Keys, NEW u \in Txns, NEW s \in txn[u].todo,
         CommitPut(u, s), At(t, "active"), Straddling(t) = {}
  PROVE  Stored(t, k)' = Stored(t, k)
<1>1. /\ Turn(u, s) /\ s.stage <= 3 /\ At(u, "commit")
      /\ txn' = [txn EXCEPT ![u].todo = @ \ {s}]
      /\ versions' = [versions EXCEPT ![s.key] = Append(@, NewVersion(u, s.key))]
  BY DEF CommitPut, Turn
<1>2. /\ s \in Step /\ s.key \in Keys /\ txn[u].time \in Times /\ txn[u].put[s.key] # None
      /\ \A w \in Txns \ {u} : txn'[w] = txn[w]
  BY <1>1, TurnTaken DEF Step, IndInv, PlansAreWrites, At
<1>3. u # t /\ txn'[t] = txn[t]
  BY <1>1, <1>2 DEF At
<1>4. ~(txn[u].time <= txn[t].time)
  BY <1>1 DEF Straddling
<1> DEFINE ver == NewVersion(u, s.key)
<1>5. ver \in Version /\ ver.created = txn[u].time
  BY <1>2, NewVersionTyped DEF IndInv, NewVersion
<1>6. ~Visible(ver, t)
  BY <1>4, <1>5 DEF Visible
<1>7. versions \in [Keys -> Seq(Version)] /\ TypeOK
  BY DEF IndInv, TypeOK
<1>8. versions' = [versions EXCEPT ![s.key] = Append(versions[s.key], ver)]
  BY <1>1
<1> HIDE DEF ver
<1>9. /\ \A n \in DOMAIN versions[k] : n \in DOMAIN versions'[k] /\ versions'[k][n] = versions[k][n]
      /\ \A n \in DOMAIN versions'[k] : n \in DOMAIN versions[k] \/ versions'[k][n] = ver
  <2>1. CASE k # s.key
    BY <1>7, <1>8, <2>1
  <2>2. CASE k = s.key
    <3>1. versions'[k] = Append(versions[k], ver)
      BY <1>7, <1>8, <2>2
    <3> QED
      BY <1>5, <1>7, <3>1
  <2> QED
    BY <2>1, <2>2
<1>10. VisibleAt(t, k)' = VisibleAt(t, k)
  BY <1>3, <1>6, <1>9, SameVisible
<1> QED
  BY <1>7, <1>9, <1>10, SameAnswer

\* A commit that began later than the reader marks a version which the reader
\* goes on seeing, unless the version was marked before.
LEMMA DeleteUnseen ==
  ASSUME IndInv, NEW t \in Txns, NEW k \in Keys, NEW u \in Txns, NEW s \in txn[u].todo,
         CommitDelete(u, s), At(t, "active"), Straddling(t) = {}, ~DeletedTwice(k)
  PROVE  Stored(t, k)' = Stored(t, k)
<1>1. /\ Turn(u, s) /\ s.stage > 3 /\ At(u, "commit")
      /\ txn' = [txn EXCEPT ![u].todo = @ \ {s}]
      /\ versions' = [versions EXCEPT ![s.key] = MarkDeleted(versions[s.key], txn[u].time)]
  BY DEF CommitDelete, Turn
<1>2. /\ s \in Step /\ s.key \in Keys /\ txn[u].time \in Times
      /\ \A w \in Txns \ {u} : txn'[w] = txn[w]
  BY <1>1, TurnTaken DEF Step
<1>3. u # t /\ txn'[t] = txn[t]
  BY <1>1, <1>2 DEF At
<1>4. ~(txn[u].time <= txn[t].time)
  BY <1>1 DEF Straddling
<1>5. versions \in [Keys -> Seq(Version)] /\ TypeOK
  BY DEF IndInv, TypeOK
<1>6. txn[u].time \in Nat /\ txn[t].time \in Nat /\ txn[u].time # 0
  <2>1. txn[t].time \in Times \cup {0}
    BY <1>5, TxnTyped DEF TxnRecord
  <2>2. Times \cup {0} \subseteq Nat /\ 0 \notin Times
    BY TimesTyped
  <2> QED
    BY <1>2, <2>1, <2>2, Zenon
<1>7. CASE k # s.key \/ versions[k] = <<>>
  <2>1. versions'[k] = versions[k]
    BY <1>1, <1>2, <1>5, <1>7 DEF MarkDeleted
  <2>2. VisibleAt(t, k)' = VisibleAt(t, k)
    BY <1>3, <2>1, SameVisible
  <2> QED
    BY <1>5, <2>1, <2>2, SameAnswer
<1>8. CASE k = s.key /\ versions[k] # <<>>
  <2> DEFINE vs == versions[k]
             l == Len(vs)
  <2>1. vs \in Seq(Version) /\ l \in DOMAIN vs /\ vs[l] \in Version
    BY <1>5, <1>8
  <2>2. vs[l].deleted = 0
    BY <1>1, <1>8 DEF DeletedTwice
  <2>3. versions'[k] = [vs EXCEPT ![l] = [vs[l] EXCEPT !.deleted = txn[u].time]]
    BY <1>1, <1>5, <1>8, <2>1 DEF MarkDeleted
  <2>4. DOMAIN versions'[k] = DOMAIN vs /\ \A n \in DOMAIN vs : n # l => versions'[k][n] = vs[n]
    BY <2>1, <2>3
  <2>5. versions'[k][l] = [vs[l] EXCEPT !.deleted = txn[u].time]
    BY <2>1, <2>3
  <2>6. /\ versions'[k][l].value = vs[l].value /\ versions'[k][l].created = vs[l].created
        /\ versions'[k][l].by = vs[l].by /\ versions'[k][l].deleted = txn[u].time
    BY <2>1, <2>5 DEF Version
  <2>7. Visible(versions'[k][l], t) <=> Visible(vs[l], t)
    <3>1. txn[u].time > txn[t].time
      BY <1>4, <1>6
    <3> QED
      BY <2>2, <2>6, <3>1 DEF Visible
  <2>8. VisibleAt(t, k)' = VisibleAt(t, k)
    <3>1. \A n \in DOMAIN versions[k] :
            n \in DOMAIN versions'[k] /\ (Visible(versions'[k][n], t) <=> Visible(versions[k][n], t))
      BY <2>4, <2>7
    <3> QED
      BY <1>3, <2>4, <3>1, SameVisible
  <2>9. \A n \in DOMAIN versions[k] : versions'[k][n].value = versions[k][n].value
    BY <2>4, <2>6
  <2> QED
    BY <1>5, <2>8, <2>9, SameAnswer
<1> QED
  BY <1>7, <1>8

\* A step that touches no list, of the reader or of others.
LEMMA ListsKept ==
  ASSUME IndInv, NEW t \in Txns, NEW k \in Keys, UNCHANGED versions,
         txn'[t].time = txn[t].time, txn'[t].id = txn[t].id
  PROVE  Stored(t, k)' = Stored(t, k)
<1>1. VisibleAt(t, k)' = VisibleAt(t, k)
  BY SameVisible
<1> QED
  BY <1>1, SameAnswer DEF IndInv

\* An open transaction keeps its id and its start time while it is open.
LEMMA ReaderKeepsTime ==
  ASSUME IndInv, NEW t \in Txns, NEW u \in Txns, OpenStep(u) \/ CommitEnd(u),
         At(t, "active"), At(t, "active")'
  PROVE  UNCHANGED versions /\ txn'[t].time = txn[t].time /\ txn'[t].id = txn[t].id
<1>1. txn \in [Txns -> TxnRecord] /\ txn[t] \in TxnRecord /\ txn[u] \in TxnRecord
  BY TxnTyped DEF IndInv
<1>2. UNCHANGED versions
  BY DEF OpenStep, CommitEnd, Begin, Write, Delete, CommitStart, Rollback, Abandon
<1>3. CASE u # t
  BY <1>1, <1>3 DEF OpenStep, CommitEnd, Begin, Write, Delete, CommitStart, Rollback, Abandon
<1>4. CASE u = t
  <2>1. CASE \E k \in Keys : Delete(t, k)
    BY <1>1, <1>2, <1>4, <2>1 DEF Delete, TxnRecord
  <2>2. CASE \E k \in Keys, v \in Values : Write(t, k, v)
    <3>1. PICK k \in Keys, v \in Values : Write(t, k, v)
      BY <2>2
    <3> DEFINE puts == [txn[t].put EXCEPT ![k] = v]
    <3>2. txn' = [txn EXCEPT ![t] = [txn[t] EXCEPT !.put = puts]]
      BY <1>1, <3>1 DEF Write, TxnRecord
    <3> HIDE DEF puts
    <3> QED
      BY <1>1, <1>2, <1>4, <3>2 DEF TxnRecord
  <2>3. CASE \E m \in Managers : Begin(t, m)
    BY <2>3 DEF Begin, At
  <2>4. CASE CommitStart(t)
    <3>1. txn'[t].at = "commit"
      BY <1>1, <2>4 DEF CommitStart, TxnRecord
    <3> QED
      BY <3>1 DEF At
  <2>5. CASE Rollback(t) \/ Abandon(t)
    <3>1. txn'[t].at = "aborted"
      BY <1>1, <2>5 DEF Rollback, Abandon, Aborted, Unborn
    <3> QED
      BY <3>1 DEF At
  <2>6. CASE CommitEnd(t)
    BY <2>6 DEF CommitEnd, At
  <2> QED
    BY <1>4, <2>1, <2>2, <2>3, <2>4, <2>5, <2>6 DEF OpenStep
<1> QED
  BY <1>2, <1>3, <1>4

LEMMA StepIsStable ==
  ASSUME IndInv, [Next]_vars, NEW t \in Txns, NEW k \in Readable,
         At(t, "active"), At(t, "active")', Straddling(t) = {}, ~DeletedTwice(k)
  PROVE  Stored(t, k)' = Stored(t, k)
<1>0. k \in Keys
  BY DEF Readable, Keys
<1>1. CASE Tick \/ (\E m, n \in Managers : CloneManager(m, n)) \/ UNCHANGED vars
  <2>1. UNCHANGED <<txn, versions>>
    BY <1>1 DEF Tick, CloneManager, vars
  <2> QED
    BY <1>0, <2>1, ListsKept
<1>2. ASSUME NEW u \in Txns, OpenStep(u) \/ CommitEnd(u) PROVE Stored(t, k)' = Stored(t, k)
  BY <1>0, <1>2, ReaderKeepsTime, ListsKept
<1>3. ASSUME NEW u \in Txns, NEW s \in txn[u].todo, CommitPut(u, s)
      PROVE  Stored(t, k)' = Stored(t, k)
  BY <1>0, <1>3, PutUnseen
<1>4. ASSUME NEW u \in Txns, NEW s \in txn[u].todo, CommitDelete(u, s)
      PROVE  Stored(t, k)' = Stored(t, k)
  BY <1>0, <1>4, DeleteUnseen
<1> QED
  BY <1>1, <1>2, <1>3, <1>4 DEF Next, OpenStep

\* A snapshot moves for two reasons only, whatever other transactions do: a
\* commit that began no later than the reader is still writing, or the id is
\* deleted a second time (read_node, read_edge, commit).
THEOREM SnapshotsHold == Spec => SnapshotStable
<1>1. IndInv /\ [Next]_vars =>
        [\A t \in Txns, k \in Readable :
           /\ At(t, "active") /\ At(t, "active")'
           /\ Stored(t, k) # Stored(t, k)'
           => Straddling(t) # {} \/ DeletedTwice(k)]_vars
  BY StepIsStable
<1> QED
  BY <1>1, AlwaysIndInv, PTL DEF Spec, SnapshotStable

=============================================================================
