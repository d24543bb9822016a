------------------------- MODULE HistoryServiceProofs -------------------------
(***************************************************************************)
(* partial.json and chat.jsonl, for any number of messages, parts, forks,  *)
(* stops and crashes.  Always: the state is well formed, and partial.json  *)
(* belongs to the stream that is writing it; that needs that the turn's    *)
(* commitPartial runs only while the turn waits for it, otherwise its      *)
(* return could bring the turn back to "placeholder" in the middle of a    *)
(* stream.  Until a commit is disturbed: the numbers of the rows increase, *)
(* an aborted stream's output is committed, no message is written over     *)
(* another, and none comes back.  The inductive invariant (CInv) follows   *)
(* the message of the stream and that of the partial to a row of their own *)
(* behind which there is no compaction boundary, so that commitPartial,    *)
(* whoever calls it, finds the row again and only ever updates it.         *)
(***************************************************************************)
EXTENDS HistoryService, FiniteSetTheorems, SequenceTheorems, WellFoundedInduction, TLAPS

\* What the steps need of the types: a turn, a function of the callers, a record.
Shape ==
    /\ turn \in Turn
    /\ commits = [c \in Callers |-> commits[c]]
    /\ stream = [id |-> stream.id, seq |-> stream.seq, parts |-> stream.parts]

IInv == Shape /\ TurnWaitsForCommit /\ PartialIsCurrent

\* The initial states satisfy the invariant.
LEMMA InitIInv == Init => IInv
  BY DEF Init, IInv, Shape, TurnWaitsForCommit, PartialIsCurrent, Turn, Callers, NoCommit, Idle

\* A commitPartial that returns keeps the invariant, if the turn was waiting for it and
\* a successful return finds no partial.
LEMMA ReturnKeeps ==
    ASSUME IInv, NEW c \in Callers, NEW ok \in BOOLEAN, Return(c, ok),
           c = "turn" => turn \in {"commit", "abort"},
           UNCHANGED stream, partial' = partial \/ partial' = Idle,
           ok => partial' = Idle
    PROVE  IInv'
  <1> USE HistoryAssumption DEF IInv, Shape, TurnWaitsForCommit, PartialIsCurrent, Turn, Callers
  <1>1. commits' = [d \in Callers |-> commits'[d]]
    BY DEF Return, Commit
  <1>2. c # "turn" => turn' = turn /\ commits'["turn"] = commits["turn"]
    BY DEF Return, Commit
  <1>3. c = "turn" => /\ commits'["turn"].pc = "idle"
                      /\ turn' \in {"placeholder", "abandon", "idle"}
                      /\ turn' = "placeholder" => ok
    BY DEF Return, Commit, NoCommit
  <1>4. CASE c = "turn"
    BY <1>1, <1>3, <1>4
  <1>5. CASE c # "turn"
    BY <1>1, <1>2, <1>5
  <1> QED BY <1>4, <1>5

\* A step of commitPartial, whoever calls it, keeps the invariant.
LEMMA CommitKeeps ==
    ASSUME IInv, NEW c \in Callers, CommitStep(c)
    PROVE  IInv'
  <1> USE HistoryAssumption DEF IInv, Shape, TurnWaitsForCommit, PartialIsCurrent, Turn, Callers
  <1>1. CASE CommitRead(c)
    BY <1>1 DEF CommitRead, MayCommit, Return, Commit, NoCommit
  <1>2. CASE CommitLook(c)
    BY <1>2 DEF CommitLook, Commit
  <1>3. CASE CommitWrite(c)
    <2>1. CASE Return(c, FALSE)
      BY <1>3, <2>1, ReturnKeeps DEF CommitWrite
    <2>2. CASE UNCHANGED turn /\ \E pc : Commit(c, [commits[c] EXCEPT !.pc = pc])
      BY <1>3, <2>2 DEF CommitWrite, Commit
    <2> QED BY <1>3, <2>1, <2>2 DEF CommitWrite
  <1>4. CASE CommitDrop(c)
    BY <1>4, ReturnKeeps DEF CommitDrop
  <1> QED BY <1>1, <1>2, <1>3, <1>4 DEF CommitStep

\* Every step keeps the invariant.
LEMMA StepIInv == IInv /\ [Next]_vars => IInv'
  <1> SUFFICES ASSUME IInv, [Next]_vars PROVE IInv'
    OBVIOUS
  <1> USE HistoryAssumption DEF IInv, Shape, TurnWaitsForCommit, PartialIsCurrent, Turn
  <1>1. ASSUME NEW c \in Callers, CommitStep(c) PROVE IInv'
    BY <1>1, CommitKeeps
  <1>2. ASSUME NEW m \in Messages, AppendMessage(m) PROVE IInv'
    BY <1>2 DEF AppendMessage
  <1>3. ASSUME NEW m \in Messages, Placeholder(m) PROVE IInv'
    BY <1>3 DEF Placeholder
  <1>4. CASE BeginTurn \/ StartStream
    BY <1>4 DEF BeginTurn, StartStream
  <1>5. CASE StartupFails \/ StartAborted \/ DiscardMessage
    BY <1>5 DEF StartupFails, StartAborted, DiscardMessage, Idle
  <1>6. CASE Produce
    BY <1>6 DEF Produce
  <1>7. CASE WritePartial \/ DeleteBeforeStop \/ FinalFlush
    BY <1>7 DEF WritePartial, DeleteBeforeStop, FinalFlush
  <1>8. CASE EndDelete \/ EndUpdate
    BY <1>8 DEF EndDelete, EndUpdate, Idle
  <1>9. CASE CompactDelete \/ CompactUpdate
    BY <1>9 DEF CompactDelete, CompactUpdate, Idle
  <1>10. CASE Abort \/ AbandonPartial
    BY <1>10 DEF Abort, AbandonPartial, Idle
  <1>11. CASE StreamFails \/ FailureStands \/ DiscardPartial
    BY <1>11 DEF StreamFails, FailureStands, DiscardPartial, Idle
  <1>12. ASSUME NEW i \in DOMAIN rows, TruncateAfterMessage(i) \/ TruncateHistory(i) PROVE IInv'
    BY <1>12 DEF TruncateAfterMessage, TruncateHistory, Keep
  <1>13. CASE Crash
    BY <1>13 DEF Crash, Idle, NoCommit, Callers
  <1>14. ASSUME NEW c \in Stops, AbortBeside(c) \/ AbortDeletes(c) PROVE IInv'
    <2>1. c # "turn" /\ "turn" \in Callers /\ UNCHANGED <<turn, stream>>
      BY <1>14 DEF AbortBeside, AbortDeletes, Callers
    <2>2. \E n : commits' = [commits EXCEPT ![c] = n]
      BY <1>14 DEF AbortBeside, AbortDeletes, Commit
    <2>3. partial' = partial \/ partial' = Idle
      BY <1>14 DEF AbortBeside, AbortDeletes
    <2> QED BY <2>1, <2>2, <2>3
  <1>15. CASE UNCHANGED vars
    BY <1>15 DEF vars
  <1> QED BY <1>1, <1>2, <1>3, <1>4, <1>5, <1>6, <1>7, <1>8, <1>9, <1>10, <1>11, <1>12, <1>13,
             <1>14, <1>15 DEF Next, Step

\* From the placeholder of a message to the end of its stream, partial.json is absent
\* or holds that message, whatever crashes, truncations, forks and stops happen.
THEOREM PartialBelongsToStream == Spec => []PartialIsCurrent
  <1>1. IInv => PartialIsCurrent
    BY DEF IInv
  <1> QED BY InitIInv, StepIInv, <1>1, PTL DEF Spec

-----------------------------------------------------------------------------
(* The numbers of the rows *)

RowType == [id : Messages, seq : Nat, parts : 0 .. MaxParts, boundary : BOOLEAN]

\* A set of natural numbers has a least element, and one below a bound has a largest.
LEMMA LeastExists ==
    ASSUME NEW S \in SUBSET Nat, S # {}
    PROVE  \E m \in S : \A k \in S : m <= k
<1>1. PICK m \in S : \A k \in S : <<k, m>> \notin OpToRel(<, Nat)
  BY WFMin, NatLessThanWellFounded, Zenon
<1>2. \A k \in S : ~(k < m) BY <1>1 DEF OpToRel
<1>3. \A k \in S : m <= k BY <1>2
<1> QED BY <1>3

\* What Min and Max return.
LEMMA MinIsLeast ==
    ASSUME NEW S \in SUBSET Nat, S # {}
    PROVE  Min(S) \in S /\ \A k \in S : Min(S) <= k
  BY LeastExists DEF Min

LEMMA MaxIsLargest ==
    ASSUME NEW S \in SUBSET Nat, S # {}, NEW b \in Nat, \A k \in S : k <= b
    PROVE  Max(S) \in S /\ \A k \in S : k <= Max(S)
<1> DEFINE T == {n \in Nat : \A k \in S : k <= n}
<1>1. T \in SUBSET Nat /\ T # {} OBVIOUS
<1> HIDE DEF T
<1>2. PICK m \in T : \A n \in T : m <= n BY <1>1, LeastExists
<1>3. m \in Nat /\ \A k \in S : k <= m BY <1>2 DEF T
<1>4. m \in S
  <2> SUFFICES ASSUME m \notin S PROVE FALSE
    OBVIOUS
  <2>1. \A k \in S : k <= m - 1 BY <1>3
  <2>2. m - 1 \in Nat
    <3>1. PICK k \in S : TRUE OBVIOUS
    <3>2. k \in Nat /\ k <= m - 1 BY <2>1, <3>1
    <3> QED BY <1>3, <3>2
  <2>3. m - 1 \in T BY <2>1, <2>2 DEF T
  <2> QED BY <1>2, <1>3, <2>3
<1>5. \E x \in S : \A y \in S : x >= y BY <1>3, <1>4
<1>6. Max(S) \in S /\ \A y \in S : Max(S) >= y BY <1>5 DEF Max
<1> QED BY <1>6

\* The numbers of finitely many rows have a bound.
LEMMA NumbersBounded ==
    ASSUME NEW s \in Seq(RowType)
    PROVE  \E b \in Nat : \A i \in DOMAIN s : s[i].seq < b
<1> DEFINE P(n) == \E b \in Nat : \A i \in 1 .. n : s[i].seq < b
           U == {n \in 0 .. Len(s) : ~P(n)}
<1>0. Len(s) \in Nat /\ DOMAIN s = 1 .. Len(s) /\ s \in [1 .. Len(s) -> RowType] BY LenProperties
<1>1. Len(s) \in Nat /\ DOMAIN s = 1 .. Len(s) /\ \A i \in 1 .. Len(s) : s[i].seq \in Nat
  BY <1>0 DEF RowType
<1>2. P(0) OBVIOUS
<1>3. ASSUME NEW n \in 1 .. Len(s), P(n - 1) PROVE P(n)
  <2>1. PICK b \in Nat : \A i \in 1 .. n - 1 : s[i].seq < b BY <1>3
  <2>2. PICK c \in Nat : c >= b /\ c > s[n].seq
    <3>1. s[n].seq \in Nat BY <1>1
    <3>2. b + s[n].seq + 1 \in Nat /\ b + s[n].seq + 1 >= b /\ b + s[n].seq + 1 > s[n].seq BY <2>1, <3>1
    <3> QED BY <3>2
  <2>3. \A i \in 1 .. n : s[i].seq < c BY <1>1, <2>1, <2>2
  <2> QED BY <2>3
<1>4. CASE U = {}
  <2>1. Len(s) \in 0 .. Len(s) BY <1>1
  <2> HIDE DEF P
  <2>2. P(Len(s)) BY <1>4, <2>1
  <2> QED BY <1>1, <2>2 DEF P
<1>5. CASE U # {}
  <2>1. U \in SUBSET Nat BY <1>1
  <2> HIDE DEF U, P
  <2>2. PICK m \in U : \A k \in U : m <= k BY <1>5, <2>1, LeastExists
  <2>3. m \in 0 .. Len(s) /\ ~P(m) BY <2>2 DEF U
  <2>4. m # 0 BY <1>2, <2>3
  <2>5. m \in 1 .. Len(s) BY <1>1, <2>3, <2>4
  <2>6. P(m - 1)
    <3>1. m - 1 \in 0 .. Len(s) /\ ~(m <= m - 1) BY <1>1, <2>5
    <3> QED BY <2>2, <3>1 DEF U
  <2> QED BY <1>3, <2>3, <2>5, <2>6
<1> QED BY <1>4, <1>5

\* AfterLargest() is above the numbers of all rows.
LEMMA AboveAll ==
    ASSUME NEW s \in Seq(RowType)
    PROVE  AfterLargest(s) \in Nat /\ \A i \in DOMAIN s : s[i].seq < AfterLargest(s)
<1> DEFINE N == {0} \cup {s[i].seq + 1 : i \in DOMAIN s}
<1>0. DOMAIN s = 1 .. Len(s) /\ s \in [1 .. Len(s) -> RowType] BY LenProperties
<1>1. \A i \in DOMAIN s : s[i].seq \in Nat BY <1>0 DEF RowType
<1>2. PICK b \in Nat : \A i \in DOMAIN s : s[i].seq < b BY NumbersBounded
<1>3. N \in SUBSET Nat /\ N # {} BY <1>1
<1>4. \A k \in N : k <= b BY <1>1, <1>2
<1> HIDE DEF N
<1>5. Max(N) \in N /\ \A k \in N : k <= Max(N) BY <1>2, <1>3, <1>4, MaxIsLargest
<1>6. AfterLargest(s) = Max(N) BY DEF AfterLargest, N
<1>7. \A i \in DOMAIN s : s[i].seq + 1 \in N BY DEF N
<1>8. Max(N) \in Nat BY <1>3, <1>5
<1>9. \A i \in DOMAIN s : s[i].seq < Max(N) BY <1>1, <1>5, <1>7, <1>8
<1> QED BY <1>6, <1>8, <1>9

\* LatestBoundary is a row after which there is no boundary.
LEMMA BoundaryFound ==
    ASSUME rows \in Seq(RowType)
    PROVE  /\ LatestBoundary \in Nat /\ LatestBoundary >= 1
           /\ \A i \in DOMAIN rows : (\A j \in DOMAIN rows : j > i => ~rows[j].boundary) => LatestBoundary <= i
<1> DEFINE B == {1} \cup {i \in DOMAIN rows : rows[i].boundary}
<1>1. Len(rows) \in Nat /\ DOMAIN rows = 1 .. Len(rows) BY LenProperties
<1>2. B \in SUBSET Nat /\ B # {} /\ \A k \in B : k <= Len(rows) + 1 BY <1>1
<1>3. \A k \in B : k = 1 \/ (k \in DOMAIN rows /\ rows[k].boundary) OBVIOUS
<1>4. 1 \in B OBVIOUS
<1> HIDE DEF B
<1>5. Max(B) \in B /\ \A k \in B : k <= Max(B)
  <2>1. Len(rows) + 1 \in Nat BY <1>1
  <2> QED BY <1>2, <2>1, MaxIsLargest
<1>6. LatestBoundary = Max(B) BY DEF LatestBoundary, B
<1>7. Max(B) \in Nat /\ Max(B) >= 1 BY <1>2, <1>4, <1>5
<1>8. ASSUME NEW i \in DOMAIN rows, \A j \in DOMAIN rows : j > i => ~rows[j].boundary PROVE Max(B) <= i
  <2>1. CASE Max(B) = 1 BY <1>1, <2>1
  <2>2. CASE Max(B) \in DOMAIN rows /\ rows[Max(B)].boundary BY <1>1, <1>7, <1>8, <2>2
  <2> QED BY <1>3, <1>5, <2>1, <2>2
<1> QED BY <1>6, <1>7, <1>8

-----------------------------------------------------------------------------
(* What the operations do with the rows *)

\* A sequence of rows, as a function.
LEMMA RowsFacts ==
    ASSUME NEW s \in Seq(RowType)
    PROVE  /\ Len(s) \in Nat /\ DOMAIN s = 1 .. Len(s)
           /\ \A i \in DOMAIN s : /\ s[i] \in RowType /\ s[i].id \in Messages /\ s[i].seq \in Nat
                                  /\ s[i].parts \in 0 .. MaxParts /\ s[i].boundary \in BOOLEAN
<1>1. Len(s) \in Nat /\ DOMAIN s = 1 .. Len(s) /\ s \in [1 .. Len(s) -> RowType] BY LenProperties
<1> QED BY <1>1 DEF RowType

\* appendToHistory adds a row with the next number.
LEMMA AppendFacts ==
    ASSUME rows \in Seq(RowType), counter \in Nat \cup {Unset}, NEW m \in Messages, NEW p \in 0 .. MaxParts,
           AppendNew(m, p)
    PROVE  /\ NextSequence \in Nat /\ counter' = NextSequence + 1
           /\ rows' \in Seq(RowType) /\ Len(rows') = Len(rows) + 1
           /\ rows'[Len(rows) + 1] = Row(m, NextSequence, p)
           /\ \A i \in DOMAIN rows : rows'[i] = rows[i]
<1>1. Len(rows) \in Nat /\ DOMAIN rows = 1 .. Len(rows) /\ \A i \in DOMAIN rows : rows[i].seq \in Nat BY RowsFacts
<1>2. NextSequence \in Nat
  <2>1. CASE rows = <<>> \/ counter # Unset BY <2>1 DEF NextSequence
  <2>2. CASE rows # <<>> /\ counter = Unset
    <3>1. Len(rows) \in DOMAIN rows BY <1>1, <2>2, EmptySeq
    <3> QED BY <1>1, <2>2, <3>1 DEF NextSequence, Last
  <2> QED BY <2>1, <2>2
<1>3. rows' = Append(rows, Row(m, NextSequence, p)) /\ counter' = NextSequence + 1 BY DEF AppendNew
<1>4. Row(m, NextSequence, p) \in RowType BY <1>2 DEF Row, RowType
<1> QED BY <1>1, <1>2, <1>3, <1>4, AppendProperties

\* The next number is larger than those before, if the counter is.
LEMMA NextIsLarger ==
    ASSUME rows \in Seq(RowType), counter \in Nat \cup {Unset}, SequencesIncrease,
           counter # Unset => \A i \in DOMAIN rows : rows[i].seq < counter
    PROVE  \A i \in DOMAIN rows : rows[i].seq < NextSequence
<1>1. Len(rows) \in Nat /\ DOMAIN rows = 1 .. Len(rows) /\ \A i \in DOMAIN rows : rows[i].seq \in Nat BY RowsFacts
<1>2. CASE counter # Unset BY <1>2 DEF NextSequence
<1>3. CASE counter = Unset
  <2> SUFFICES ASSUME NEW i \in DOMAIN rows PROVE rows[i].seq < NextSequence
    OBVIOUS
  <2>1. rows # <<>> /\ Len(rows) \in DOMAIN rows BY <1>1, EmptySeq
  <2>2. i = Len(rows) \/ rows[i].seq < rows[Len(rows)].seq BY <1>1, <2>1 DEF SequencesIncrease
  <2>3. rows[i].seq < rows[Len(rows)].seq + 1 BY <1>1, <2>1, <2>2
  <2> QED BY <1>3, <2>1, <2>3 DEF NextSequence, Last
<1> QED BY <1>2, <1>3

\* updateHistory writes one row, which has the message's number.
LEMMA UpdateFacts ==
    ASSUME rows \in Seq(RowType), NEW y \in Draft, y.id \in Messages, NEW b \in BOOLEAN, Numbered(y.seq) # {},
           UpdateRow(y, b)
    PROVE  /\ rows' \in Seq(RowType) /\ Len(rows') = Len(rows)
           /\ \E i \in DOMAIN rows :
                  /\ rows[i].seq = y.seq
                  /\ rows'[i] = [id |-> y.id, seq |-> y.seq, parts |-> y.parts, boundary |-> rows[i].boundary \/ b]
                  /\ \A j \in DOMAIN rows : j # i => rows'[j] = rows[j]
<1>1. Len(rows) \in Nat /\ DOMAIN rows = 1 .. Len(rows) /\ \A i \in DOMAIN rows : rows[i].boundary \in BOOLEAN BY RowsFacts
<1>2. Numbered(y.seq) \in SUBSET Nat BY <1>1 DEF Numbered
<1>3. PICK i : i = Min(Numbered(y.seq)) OBVIOUS
<1>4. i \in DOMAIN rows /\ rows[i].seq = y.seq BY <1>2, <1>3, MinIsLeast DEF Numbered
<1> DEFINE r == [id |-> y.id, seq |-> y.seq, parts |-> y.parts, boundary |-> rows[i].boundary \/ b]
<1>5. rows' = [rows EXCEPT ![i] = r] BY <1>3 DEF UpdateRow
<1>6. r \in RowType BY <1>1, <1>4 DEF Draft, RowType
<1> HIDE DEF r
<1>7. /\ rows' \in Seq(RowType) /\ Len(rows') = Len(rows)
      /\ \A j \in 1 .. Len(rows) : rows'[j] = IF j = i THEN r ELSE rows[j]
  BY <1>1, <1>4, <1>5, <1>6, ExceptSeq
<1> QED BY <1>1, <1>4, <1>7 DEF r

\* deleteMessage leaves some of the rows, in their order.
LEMMA DeleteFacts ==
    ASSUME rows \in Seq(RowType), counter \in Nat \cup {Unset}, NEW m, DeleteMessage(m)
    PROVE  \/ UNCHANGED <<rows, counter>> /\ \A i \in DOMAIN rows : rows[i].id # m
           \/ /\ rows' \in Seq(RowType) /\ Len(rows') < Len(rows)
              /\ counter' \in Nat /\ \A i \in DOMAIN rows' : rows'[i].seq < counter'
              /\ \E e \in [DOMAIN rows' -> DOMAIN rows] :
                     /\ \A i, j \in DOMAIN rows' : i < j => e[i] < e[j]
                     /\ \A i \in DOMAIN rows' : rows'[i] = rows[e[i]]
<1> DEFINE kept == {i \in DOMAIN rows : rows[i].id # m}
           n == Cardinality(kept)
<1>1. Len(rows) \in Nat /\ DOMAIN rows = 1 .. Len(rows) /\ \A i \in DOMAIN rows : rows[i] \in RowType BY RowsFacts
<1>2. CASE kept = DOMAIN rows
  BY <1>2 DEF DeleteMessage
<1>3. CASE kept # DOMAIN rows
  <2>1. n \in Nat /\ n < Len(rows)
    <3>1. IsFiniteSet(1 .. Len(rows)) /\ Cardinality(1 .. Len(rows)) = Len(rows)
      <4>1. IsFiniteSet(1 .. Len(rows)) /\ Cardinality(1 .. Len(rows)) = IF 1 > Len(rows) THEN 0 ELSE Len(rows) - 1 + 1
        BY <1>1, FS_Interval
      <4> QED BY <1>1, <4>1
    <3>2. kept \in SUBSET (1 .. Len(rows)) /\ kept # 1 .. Len(rows) BY <1>1, <1>3
    <3> HIDE DEF kept
    <3>3. IsFiniteSet(kept) /\ n <= Len(rows) /\ n # Len(rows) BY <3>1, <3>2, FS_Subset
    <3>4. n \in Nat BY <3>3, FS_CardinalityType
    <3> QED BY <1>1, <3>3, <3>4
  <2>2. PICK e \in [1 .. n -> kept] : /\ \A i, j \in DOMAIN e : i < j => e[i] < e[j]
                                      /\ rows' = [i \in DOMAIN e |-> rows[e[i]]]
    BY <1>3 DEF DeleteMessage
  <2>3. counter' = IF counter # Unset /\ counter >= AfterLargest(rows') THEN counter ELSE AfterLargest(rows')
    BY <1>3 DEF DeleteMessage
  <2>4. kept \subseteq DOMAIN rows OBVIOUS
  <2> HIDE DEF kept, n
  <2>5. rows' = [i \in 1 .. n |-> rows[e[i]]] /\ DOMAIN e = 1 .. n BY <2>2
  <2>6. rows' \in [1 .. n -> RowType] BY <1>1, <2>2, <2>4, <2>5
  <2>7. rows' \in Seq(RowType) /\ Len(rows') = n /\ DOMAIN rows' = 1 .. n
    <3>1. rows' \in Seq(RowType) BY <2>1, <2>6, SeqDef
    <3>2. DOMAIN rows' = 1 .. n BY <2>5
    <3>3. Len(rows') = n BY <2>1, <3>1, <3>2, LenProperties
    <3> QED BY <3>1, <3>2, <3>3
  <2>8. AfterLargest(rows') \in Nat /\ \A i \in DOMAIN rows' : rows'[i].seq < AfterLargest(rows')
    <3>1. PICK s \in Seq(RowType) : s = rows' BY <2>7
    <3>2. AfterLargest(s) \in Nat /\ \A i \in DOMAIN s : s[i].seq < AfterLargest(s) BY AboveAll
    <3> QED BY <3>1, <3>2
  <2>9. counter' \in Nat /\ \A i \in DOMAIN rows' : rows'[i].seq < counter'
    <3>1. \A i \in DOMAIN rows' : rows'[i].seq \in Nat BY <2>6, <2>7 DEF RowType
    <3> QED BY <2>3, <2>8, <3>1
  <2>10. e \in [DOMAIN rows' -> DOMAIN rows] /\ \A i \in DOMAIN rows' : rows'[i] = rows[e[i]]
    BY <2>2, <2>4, <2>5, <2>7
  <2> QED BY <2>1, <2>2, <2>5, <2>7, <2>9, <2>10
<1> QED BY <1>2, <1>3

\* A truncation leaves a part of the rows.
LEMMA KeepFacts ==
    ASSUME rows \in Seq(RowType), NEW i \in DOMAIN rows, TruncateAfterMessage(i) \/ TruncateHistory(i)
    PROVE  /\ rows' \in Seq(RowType) /\ Len(rows') < Len(rows)
           /\ counter' \in Nat /\ \A j \in DOMAIN rows' : rows'[j].seq < counter'
           /\ \E k \in Nat : \A j \in DOMAIN rows' : j + k \in DOMAIN rows /\ rows'[j] = rows[j + k]
<1>1. Len(rows) \in Nat /\ DOMAIN rows = 1 .. Len(rows) /\ \A j \in DOMAIN rows : rows[j] \in RowType BY RowsFacts
<1>2. rows' \in Seq(RowType) /\ Len(rows') < Len(rows)
      /\ \E k \in Nat : \A j \in DOMAIN rows' : j + k \in DOMAIN rows /\ rows'[j] = rows[j + k]
  <2>1. CASE TruncateAfterMessage(i)
    <3>1. rows' = SubSeq(rows, 1, i - 1) BY <2>1 DEF TruncateAfterMessage, Keep
    <3>2. /\ SubSeq(rows, 1, i - 1) \in Seq(RowType)
          /\ Len(SubSeq(rows, 1, i - 1)) = IF 1 <= i - 1 THEN i - 1 - 1 + 1 ELSE 0
          /\ \A j \in 1 .. i - 1 - 1 + 1 : SubSeq(rows, 1, i - 1)[j] = rows[1 + j - 1]
      BY <1>1, SubSeqProperties
    <3>3. rows' \in Seq(RowType) /\ Len(rows') = i - 1 /\ DOMAIN rows' = 1 .. i - 1
      <4>1. rows' \in Seq(RowType) /\ Len(rows') = i - 1 BY <1>1, <3>1, <3>2
      <4> QED BY <4>1, LenProperties
    <3>4. \A j \in DOMAIN rows' : j + 0 \in DOMAIN rows /\ rows'[j] = rows[j + 0] BY <1>1, <3>1, <3>2, <3>3
    <3> QED BY <1>1, <3>3, <3>4
  <2>2. CASE TruncateHistory(i)
    <3>1. rows' = SubSeq(rows, i + 1, Len(rows)) BY <2>2 DEF TruncateHistory, Keep
    <3>2. /\ SubSeq(rows, i + 1, Len(rows)) \in Seq(RowType)
          /\ Len(SubSeq(rows, i + 1, Len(rows))) = IF i + 1 <= Len(rows) THEN Len(rows) - (i + 1) + 1 ELSE 0
          /\ \A j \in 1 .. Len(rows) - (i + 1) + 1 : SubSeq(rows, i + 1, Len(rows))[j] = rows[i + 1 + j - 1]
      BY <1>1, SubSeqProperties
    <3>3. rows' \in Seq(RowType) /\ Len(rows') = Len(rows) - i /\ DOMAIN rows' = 1 .. Len(rows) - i
      <4>1. rows' \in Seq(RowType) /\ Len(rows') = Len(rows) - i BY <1>1, <3>1, <3>2
      <4> QED BY <4>1, LenProperties
    <3>4. \A j \in DOMAIN rows' : j + i \in DOMAIN rows /\ rows'[j] = rows[j + i] BY <1>1, <3>1, <3>2, <3>3
    <3> QED BY <1>1, <3>3, <3>4
  <2> QED BY <2>1, <2>2
<1>3. counter' = AfterLargest(rows') BY DEF TruncateAfterMessage, TruncateHistory, Keep
<1>4. PICK s \in Seq(RowType) : s = rows' BY <1>2
<1>5. AfterLargest(s) \in Nat /\ \A j \in DOMAIN s : s[j].seq < AfterLargest(s) BY AboveAll
<1> QED BY <1>2, <1>3, <1>4, <1>5

-----------------------------------------------------------------------------
(* Types *)

\* Where a message has to be a message: in partial.json, in the stream of a turn that
\* has a placeholder, in what a commit has read.
HasRow == {"starting", "live", "flushed", "update", "compact", "summary", "abort", "abandon", "failed", "discard"}

Named ==
    /\ partial # Idle => partial.id \in Messages
    /\ turn \in HasRow => stream.id \in Messages
    /\ \A c \in Callers : commits[c].pc \in {"look", "write"} => commits[c].read.id \in Messages

Typed == TypeOK /\ Named

CommitType == [pc : {"idle", "read", "look", "write", "drop", "delete", "done"},
               read : Draft, known : BOOLEAN, parts : 0 .. MaxParts]

\* The initial states are typed.
LEMMA InitTyped == Init => Typed
<1> SUFFICES ASSUME Init PROVE Typed
  OBVIOUS
<1> USE HistoryAssumption DEF Init
<1>1. Idle \in Draft BY DEF Idle, Draft
<1>2. NoCommit \in CommitType BY <1>1 DEF NoCommit, CommitType
<1>3. commits \in [Callers -> CommitType] BY <1>2
<1>4. TypeOK
  <2>1. rows \in Seq([id : Messages, seq : Nat, parts : 0..MaxParts, boundary : BOOLEAN]) BY EmptySeq
  <2>2. counter \in Nat \cup {Unset} /\ turn \in Turn /\ unused \subseteq Messages /\ crashes \in 0 .. MaxCrashes
    BY DEF Turn
  <2> QED BY <1>1, <1>3, <2>1, <2>2 DEF TypeOK, CommitType
<1>5. Named BY DEF Named, HasRow, NoCommit
<1> QED BY <1>4, <1>5 DEF Typed

\* commitPartial's own record, and the turn it returns to.
LEMMA CommitTyped ==
    ASSUME Typed, NEW c \in Callers, CommitStep(c)
    PROVE  /\ commits' \in [Callers -> CommitType] /\ turn' \in Turn
           /\ \A d \in Callers : commits'[d].pc \in {"look", "write"} => commits'[d].read.id \in Messages
           /\ turn' \in HasRow => turn \in HasRow
<1> USE HistoryAssumption
<1>1. /\ commits \in [Callers -> CommitType] /\ turn \in Turn /\ partial \in Draft
      /\ \A d \in Callers : commits[d].pc \in {"look", "write"} => commits[d].read.id \in Messages
      /\ partial # Idle => partial.id \in Messages
      /\ rows \in Seq(RowType)
  BY DEF Typed, TypeOK, CommitType, Named, RowType
<1>2. Idle \in Draft BY DEF Idle, Draft
<1>3. NoCommit \in CommitType BY <1>2 DEF NoCommit, CommitType
<1>4. ASSUME NEW n \in CommitType, Commit(c, n), n.pc \in {"look", "write"} => n.read.id \in Messages
      PROVE  /\ commits' \in [Callers -> CommitType]
             /\ \A d \in Callers : commits'[d].pc \in {"look", "write"} => commits'[d].read.id \in Messages
  <2>1. commits' = [commits EXCEPT ![c] = n] BY <1>4 DEF Commit
  <2>2. commits' \in [Callers -> CommitType] BY <1>1, <1>4, <2>1
  <2>3. \A d \in Callers : commits'[d] = IF d = c THEN n ELSE commits[d] BY <1>1, <2>1
  <2> QED BY <1>1, <1>4, <2>2, <2>3
<1>5. ASSUME NEW ok \in BOOLEAN, Return(c, ok)
      PROVE  /\ commits' \in [Callers -> CommitType] /\ turn' \in Turn
             /\ \A d \in Callers : commits'[d].pc \in {"look", "write"} => commits'[d].read.id \in Messages
             /\ turn' \in HasRow => turn \in HasRow
  <2>1. PICK n : n = [NoCommit EXCEPT !.pc = IF c = "turn" THEN "idle"
                                             ELSE IF c \in Stops THEN "delete" ELSE "done"]
    OBVIOUS
  <2>2. n \in CommitType /\ n.pc \in {"idle", "delete", "done"} BY <1>3, <2>1 DEF CommitType
  <2>3. Commit(c, n) BY <1>5, <2>1 DEF Return
  <2>4. turn' = turn \/ (turn = "abort" /\ turn' = "abandon") \/ (turn = "commit" /\ turn' \in {"placeholder", "idle"})
    BY <1>5 DEF Return
  <2>5. turn' \in Turn /\ (turn' \in HasRow => turn \in HasRow) BY <1>1, <2>4 DEF Turn, HasRow
  <2>6. n.pc \in {"look", "write"} => n.read.id \in Messages BY <2>2
  <2> QED BY <1>4, <2>2, <2>3, <2>5, <2>6
<1>6. ASSUME NEW q \in {"look", "drop"}, q = "drop" \/ partial # Idle, UNCHANGED turn,
             Commit(c, IF q = "drop" THEN [commits[c] EXCEPT !.pc = q] ELSE [NoCommit EXCEPT !.pc = q, !.read = partial])
      PROVE  /\ commits' \in [Callers -> CommitType]
             /\ \A d \in Callers : commits'[d].pc \in {"look", "write"} => commits'[d].read.id \in Messages
  <2>1. PICK n : n = IF q = "drop" THEN [commits[c] EXCEPT !.pc = q] ELSE [NoCommit EXCEPT !.pc = q, !.read = partial]
    OBVIOUS
  <2>2. commits[c] \in CommitType BY <1>1
  <2>3. n \in CommitType /\ n.pc = q /\ (q = "look" => n.read = partial) BY <1>1, <1>3, <2>1, <2>2 DEF CommitType
  <2>4. n.pc \in {"look", "write"} => n.read.id \in Messages BY <1>1, <1>6, <2>3
  <2>5. Commit(c, n) BY <1>6, <2>1
  <2> QED BY <1>4, <2>3, <2>4, <2>5
<1>7. CASE CommitRead(c)
  <2>1. Return(c, TRUE) \/ (partial # Idle /\ UNCHANGED turn /\ Commit(c, [NoCommit EXCEPT !.pc = "look", !.read = partial]))
    BY <1>7 DEF CommitRead
  <2> QED BY <1>1, <1>5, <1>6, <2>1
<1>8. CASE CommitLook(c)
  <2>1. PICK found : found = {i \in Numbered(commits[c].read.seq) : i >= LatestBoundary} OBVIOUS
  <2>2. PICK n : n = [commits[c] EXCEPT !.pc = "write", !.known = found # {},
                                        !.parts = IF found = {} THEN 0 ELSE rows[Min(found)].parts]
    OBVIOUS
  <2>3. Commit(c, n) /\ UNCHANGED turn /\ commits[c].pc = "look" BY <1>8, <2>1, <2>2 DEF CommitLook
  <2>4. (IF found = {} THEN 0 ELSE rows[Min(found)].parts) \in 0 .. MaxParts
    <3>1. CASE found = {} BY <3>1
    <3>2. CASE found # {}
      <4>1. DOMAIN rows = 1 .. Len(rows) /\ Len(rows) \in Nat /\ \A i \in DOMAIN rows : rows[i].parts \in 0 .. MaxParts BY <1>1, RowsFacts
      <4>2. found \subseteq DOMAIN rows BY <2>1 DEF Numbered
      <4>3. found \in SUBSET Nat BY <4>1, <4>2
      <4>4. Min(found) \in found BY <3>2, <4>3, MinIsLeast
      <4> QED BY <3>2, <4>1, <4>2, <4>4
    <3> QED BY <3>1, <3>2
  <2>5. commits[c] \in CommitType BY <1>1
  <2>6. n \in CommitType /\ n.read = commits[c].read BY <2>2, <2>4, <2>5 DEF CommitType
  <2>7. n.pc \in {"look", "write"} => n.read.id \in Messages BY <1>1, <2>3, <2>6
  <2> QED BY <1>1, <1>4, <2>3, <2>6, <2>7
<1>9. CASE CommitWrite(c)
  <2>1. Return(c, FALSE) \/ (UNCHANGED turn /\ Commit(c, [commits[c] EXCEPT !.pc = "drop"])) BY <1>9 DEF CommitWrite
  <2> QED BY <1>1, <1>5, <1>6, <2>1
<1>10. CASE CommitDrop(c)
  <2>1. Return(c, TRUE) BY <1>10 DEF CommitDrop
  <2> QED BY <1>5, <2>1
<1> QED BY <1>7, <1>8, <1>9, <1>10 DEF CommitStep

\* What commitPartial writes into chat.jsonl are rows.
LEMMA CommitWritesRows ==
    ASSUME Typed, NEW c \in Callers, CommitStep(c)
    PROVE  /\ rows' \in Seq(RowType) /\ counter' \in Nat \cup {Unset} /\ (partial' = partial \/ partial' = Idle)
           /\ UNCHANGED <<stream, unused, crashes>>
<1> USE HistoryAssumption
<1>1. rows \in Seq(RowType) /\ counter \in Nat \cup {Unset} BY DEF Typed, TypeOK, RowType
<1>2. CASE UNCHANGED <<rows, counter>>
  BY <1>1, <1>2 DEF CommitStep, CommitRead, CommitLook, CommitWrite, CommitDrop
<1>3. CASE CommitWrite(c) /\ ~UNCHANGED <<rows, counter>>
  <2>1. UNCHANGED <<partial, stream, unused, crashes>> /\ commits[c].pc = "write" BY <1>3 DEF CommitWrite
  <2>2. PICK y : y = commits[c].read OBVIOUS
  <2>3. y \in Draft /\ y.id \in Messages BY <2>1, <2>2 DEF Typed, TypeOK, Named
  <2>4. \/ Numbered(y.seq) # {} /\ UpdateRow(y, FALSE) /\ UNCHANGED counter
        \/ /\ rows' = Append(rows, Row(y.id, y.seq, y.parts))
           /\ counter' = IF counter # Unset /\ counter > y.seq THEN counter ELSE y.seq + 1
    BY <1>3, <2>2 DEF CommitWrite
  <2>5. y.seq \in Nat /\ y.parts \in 0 .. MaxParts BY <2>3 DEF Draft
  <2>6. CASE Numbered(y.seq) # {} /\ UpdateRow(y, FALSE) /\ UNCHANGED counter
    <3>1. rows' \in Seq(RowType) BY <1>1, <2>3, <2>6, UpdateFacts
    <3> QED BY <1>1, <2>1, <2>6, <3>1
  <2>7. CASE rows' = Append(rows, Row(y.id, y.seq, y.parts)) /\ counter' = IF counter # Unset /\ counter > y.seq THEN counter ELSE y.seq + 1
    <3>1. Row(y.id, y.seq, y.parts) \in RowType BY <2>3, <2>5 DEF Row, RowType
    <3>2. rows' \in Seq(RowType) BY <1>1, <2>7, <3>1, AppendProperties
    <3> QED BY <1>1, <2>1, <2>5, <2>7, <3>2
  <2> QED BY <2>4, <2>6, <2>7
<1> QED BY <1>2, <1>3 DEF CommitStep, CommitRead, CommitLook, CommitDrop

\* Every step leaves typed state.
LEMMA StepTyped == Typed /\ [Next]_vars => Typed'
<1> SUFFICES ASSUME Typed, [Next]_vars PROVE Typed'
  OBVIOUS
<1> USE HistoryAssumption
<1>1. /\ rows \in Seq(RowType) /\ partial \in Draft /\ counter \in Nat \cup {Unset} /\ turn \in Turn /\ stream \in Draft
      /\ commits \in [Callers -> CommitType] /\ unused \subseteq Messages /\ crashes \in 0 .. MaxCrashes
  BY DEF Typed, TypeOK, RowType, CommitType
<1>2. /\ partial # Idle => partial.id \in Messages
      /\ turn \in HasRow => stream.id \in Messages
      /\ \A c \in Callers : commits[c].pc \in {"look", "write"} => commits[c].read.id \in Messages
  BY DEF Typed, Named
<1>3. Idle \in Draft BY DEF Idle, Draft
<1>4. NoCommit \in CommitType BY <1>3 DEF NoCommit, CommitType
\* What each step has to show, part by part.
<1> DEFINE RowsKept == rows' \in Seq(RowType) /\ counter' \in Nat \cup {Unset}
           TurnKept == turn' \in Turn /\ stream' \in Draft /\ (turn' \in HasRow => stream'.id \in Messages)
           DiskKept == partial' \in Draft /\ (partial' # Idle => partial'.id \in Messages)
           CommitsKept == /\ commits' \in [Callers -> CommitType]
                          /\ \A c \in Callers : commits'[c].pc \in {"look", "write"} => commits'[c].read.id \in Messages
           RestKept == unused' \subseteq Messages /\ crashes' \in 0 .. MaxCrashes
<1>5. ASSUME RowsKept, TurnKept, DiskKept, CommitsKept, RestKept PROVE Typed'
  <2>0. disturbed' \in BOOLEAN BY DEF Next, vars, Typed, TypeOK
  <2>1. TypeOK' BY <1>5, <2>0 DEF TypeOK, RowType, CommitType
  <2>2. Named' BY <1>5 DEF Named
  <2> QED BY <2>1, <2>2 DEF Typed
<1>6. /\ UNCHANGED <<rows, counter>> => RowsKept
      /\ UNCHANGED <<turn, stream>> => TurnKept
      /\ UNCHANGED partial => DiskKept
      /\ partial' = Idle => DiskKept
      /\ (partial' = stream /\ turn \in HasRow) => DiskKept
      /\ UNCHANGED commits => CommitsKept
      /\ UNCHANGED <<unused, crashes>> => RestKept
      /\ (unused' \in SUBSET unused /\ UNCHANGED crashes) => RestKept
      /\ (turn' \in Turn \ HasRow /\ stream' = Idle) => TurnKept
      /\ (turn' \in Turn \ HasRow /\ UNCHANGED stream) => TurnKept
      /\ (turn \in HasRow /\ turn' \in HasRow /\ UNCHANGED stream) => TurnKept
  BY <1>1, <1>2, <1>3 DEF Turn, HasRow
<1>7. ASSUME NEW m \in Messages, NEW p \in 0 .. MaxParts, AppendNew(m, p) PROVE RowsKept /\ unused' \in SUBSET unused /\ NextSequence \in Nat
  <2>1. rows' \in Seq(RowType) /\ counter' = NextSequence + 1 /\ NextSequence \in Nat BY <1>1, <1>7, AppendFacts
  <2>2. unused' = unused \ {m} BY <1>7 DEF AppendNew
  <2> QED BY <2>1, <2>2
<1>8. ASSUME NEW b \in BOOLEAN, turn \in HasRow, UNCHANGED counter,
             (Numbered(stream.seq) # {} /\ UpdateRow(stream, b)) \/ UNCHANGED rows
      PROVE  RowsKept
  <2>1. CASE UNCHANGED rows BY <1>1, <1>8, <2>1
  <2>2. CASE Numbered(stream.seq) # {} /\ UpdateRow(stream, b)
    <3>1. PICK y : y = stream OBVIOUS
    <3>2. y \in Draft /\ y.id \in Messages /\ Numbered(y.seq) # {} /\ UpdateRow(y, b) BY <1>1, <1>2, <1>8, <2>2, <3>1
    <3>3. rows' \in Seq(RowType) BY <1>1, <3>2, UpdateFacts
    <3> QED BY <1>1, <1>8, <3>3
  <2> QED BY <1>8, <2>1, <2>2
<1>9. ASSUME DeleteMessage(stream.id) PROVE RowsKept
  <2>1. PICK m : m = stream.id OBVIOUS
  <2>2. DeleteMessage(m) BY <1>9, <2>1
  <2>3. UNCHANGED <<rows, counter>> \/ (rows' \in Seq(RowType) /\ counter' \in Nat) BY <1>1, <2>2, DeleteFacts
  <2> QED BY <1>1, <2>3
<1> HIDE DEF RowsKept, DiskKept, CommitsKept, RestKept
<1>10. ASSUME NEW c \in Callers, CommitStep(c) PROVE Typed'
  <2>1. RowsKept /\ RestKept /\ UNCHANGED stream BY <1>6, <1>10, CommitWritesRows DEF RowsKept
  <2>2. CommitsKept /\ TurnKept BY <1>1, <1>2, <1>10, <2>1, CommitTyped DEF CommitsKept
  <2>3. DiskKept BY <1>6, <1>10, CommitWritesRows
  <2> QED BY <1>5, <2>1, <2>2, <2>3
<1>11. ASSUME NEW m \in Messages, AppendMessage(m) PROVE Typed'
  <2>1. AppendNew(m, 1) /\ UNCHANGED <<partial, turn, stream, commits, crashes>> BY <1>11 DEF AppendMessage
  <2>2. 1 \in 0 .. MaxParts OBVIOUS
  <2> QED BY <1>5, <1>6, <1>7, <2>1, <2>2
<1>12. ASSUME NEW m \in Messages, Placeholder(m) PROVE Typed'
  <2>1. /\ AppendNew(m, 0) /\ UNCHANGED <<partial, commits, crashes>>
        /\ stream' = [id |-> m, seq |-> NextSequence, parts |-> 0] /\ turn' = "starting"
    BY <1>12 DEF Placeholder
  <2>2. 0 \in 0 .. MaxParts OBVIOUS
  <2>3. RowsKept /\ unused' \in SUBSET unused /\ NextSequence \in Nat BY <1>7, <2>1, <2>2
  <2>4. TurnKept BY <2>1, <2>2, <2>3 DEF Draft, Turn
  <2> QED BY <1>5, <1>6, <2>1, <2>3, <2>4
<1>13. CASE BeginTurn \/ StartStream \/ StartupFails
  <2>1. UNCHANGED <<rows, counter, partial, commits, unused, crashes>> BY <1>13 DEF BeginTurn, StartStream, StartupFails
  <2>2. TurnKept BY <1>6, <1>13 DEF BeginTurn, StartStream, StartupFails, HasRow, Turn
  <2> QED BY <1>5, <1>6, <2>1, <2>2
<1>14. CASE StartAborted \/ DiscardMessage
  <2>1. DeleteMessage(stream.id) /\ UNCHANGED <<partial, commits, unused, crashes>> BY <1>14 DEF StartAborted, DiscardMessage
  <2>2. TurnKept BY <1>6, <1>14 DEF StartAborted, DiscardMessage, HasRow, Turn
  <2> QED BY <1>5, <1>6, <1>9, <2>1, <2>2
<1>15. CASE Produce
  <2>1. UNCHANGED <<rows, counter, partial, turn, commits, unused, crashes>> BY <1>15 DEF Produce
  <2>2. stream' = [stream EXCEPT !.parts = stream.parts + 1] /\ stream.parts < MaxParts /\ turn = "live" BY <1>15 DEF Produce
  <2>3. TurnKept BY <1>1, <1>2, <2>1, <2>2 DEF Draft, HasRow
  <2> QED BY <1>5, <1>6, <2>1, <2>3
<1>16. CASE WritePartial \/ DeleteBeforeStop \/ FinalFlush \/ StreamFails
  <2>1. UNCHANGED <<rows, counter, stream, commits, unused, crashes>> /\ turn \in HasRow /\ turn' \in HasRow
    BY <1>16 DEF WritePartial, DeleteBeforeStop, FinalFlush, StreamFails, HasRow
  <2>2. partial' = stream \/ partial' = Idle BY <1>16 DEF WritePartial, DeleteBeforeStop, FinalFlush, StreamFails
  <2> QED BY <1>5, <1>6, <2>1, <2>2
<1>17. CASE EndDelete \/ CompactDelete \/ Abort \/ DiscardPartial
  <2>1. UNCHANGED <<rows, counter, stream, commits, unused, crashes>> /\ turn \in HasRow /\ turn' \in HasRow
    BY <1>17 DEF EndDelete, CompactDelete, Abort, DiscardPartial, HasRow
  <2>2. UNCHANGED partial \/ partial' = Idle BY <1>17 DEF EndDelete, CompactDelete, Abort, DiscardPartial
  <2> QED BY <1>5, <1>6, <2>1, <2>2
<1>18. CASE EndUpdate \/ CompactUpdate
  <2>1. UNCHANGED <<counter, partial, commits, unused, crashes>> /\ turn \in HasRow
    BY <1>18 DEF EndUpdate, CompactUpdate, HasRow
  <2>2. \E b \in BOOLEAN : (Numbered(stream.seq) # {} /\ UpdateRow(stream, b)) \/ UNCHANGED rows
    BY <1>18 DEF EndUpdate, CompactUpdate
  <2>3. TurnKept BY <1>6, <1>18 DEF EndUpdate, CompactUpdate, HasRow, Turn
  <2> QED BY <1>5, <1>6, <1>8, <2>1, <2>2, <2>3
<1>19. CASE AbandonPartial \/ FailureStands
  <2>1. UNCHANGED <<rows, counter, commits, unused, crashes>> /\ (UNCHANGED partial \/ partial' = Idle)
    BY <1>19 DEF AbandonPartial, FailureStands
  <2>2. TurnKept BY <1>6, <1>19 DEF AbandonPartial, FailureStands, HasRow, Turn
  <2> QED BY <1>5, <1>6, <2>1, <2>2
<1>20. ASSUME NEW i \in DOMAIN rows, TruncateAfterMessage(i) \/ TruncateHistory(i) PROVE Typed'
  <2>1. UNCHANGED <<partial, turn, stream, commits, unused, crashes>> BY <1>20 DEF TruncateAfterMessage, TruncateHistory, Keep
  <2>2. RowsKept BY <1>1, <1>20, KeepFacts DEF RowsKept
  <2> QED BY <1>5, <1>6, <2>1, <2>2
<1>21. CASE Crash
  <2>1. UNCHANGED <<rows, partial, unused>> /\ counter' = Unset /\ turn' = "idle" /\ stream' = Idle
        /\ crashes' = crashes + 1 /\ crashes < MaxCrashes
    BY <1>21 DEF Crash
  <2>2. RowsKept /\ RestKept BY <1>1, <2>1 DEF RowsKept, RestKept
  <2>3. CommitsKept
    <3>1. commits' = [c \in Callers |->
             [NoCommit EXCEPT !.pc = IF c = "turn" \/ commits[c].pc = "idle" THEN "idle" ELSE "done"]]
      BY <1>21 DEF Crash
    <3>2. \A c \in Callers : commits'[c] \in CommitType /\ commits'[c].pc \in {"idle", "done"} BY <1>4, <3>1 DEF CommitType
    <3>3. commits' \in [Callers -> CommitType] BY <3>1, <3>2
    <3> QED BY <3>2, <3>3 DEF CommitsKept
  <2>4. TurnKept BY <1>6, <2>1 DEF HasRow, Turn
  <2> QED BY <1>5, <1>6, <2>1, <2>2, <2>3, <2>4
<1>22. CASE UNCHANGED vars
  BY <1>5, <1>6, <1>22 DEF vars
<1>23. ASSUME NEW c \in Stops, AbortBeside(c) \/ AbortDeletes(c) PROVE Typed'
  <2>1. /\ UNCHANGED <<rows, counter, turn, stream, unused, crashes>>
        /\ partial' = partial \/ partial' = Idle
    BY <1>23 DEF AbortBeside, AbortDeletes
  <2>2. PICK q \in {"read", "delete", "done"} : Commit(c, [NoCommit EXCEPT !.pc = q])
    BY <1>23 DEF AbortBeside, AbortDeletes
  <2>3. PICK n : n = [NoCommit EXCEPT !.pc = q] OBVIOUS
  <2>4. n \in CommitType /\ n.pc = q BY <1>4, <2>3 DEF CommitType
  <2>5. commits' = [commits EXCEPT ![c] = n] BY <2>2, <2>3 DEF Commit
  <2>6. \A d \in Callers : commits'[d] = IF d = c THEN n ELSE commits[d] BY <1>1, <2>5
  <2>7. commits' \in [Callers -> CommitType] BY <1>1, <2>4, <2>5
  <2>8. CommitsKept BY <1>2, <2>4, <2>6, <2>7 DEF CommitsKept
  <2> QED BY <1>5, <1>6, <2>1, <2>8
<1> QED BY <1>10, <1>11, <1>12, <1>13, <1>14, <1>15, <1>16, <1>17, <1>18, <1>19, <1>20, <1>21, <1>22, <1>23
    DEF Next, Step

\* Whatever crashes, truncations and concurrent commits there are: rows, partial and
\* stream are well formed, the counter is a number or unset, and the turn's commit runs
\* only where the turn waits for it.
THEOREM HistoryTyped == Spec => []HistoryInv
  <1>1. Typed /\ IInv => HistoryInv
    BY DEF Typed, IInv, HistoryInv
  <1> QED BY InitTyped, StepTyped, InitIInv, StepIInv, <1>1, PTL DEF Spec

-----------------------------------------------------------------------------
(* Until a commit is disturbed *)

\* Message m has the row with number seq, after the latest compaction boundary or as it.
Present(s, m, seq) ==
    \E i \in DOMAIN s : /\ s[i].id = m /\ s[i].seq = seq
                        /\ \A j \in DOMAIN s : j > i => ~s[j].boundary

\* What chat.jsonl holds under the number seq has n parts.
Holds(s, seq, n) == \A i \in DOMAIN s : s[i].seq = seq => s[i].parts = n

CounterAhead == counter # Unset => \A i \in DOMAIN rows : rows[i].seq < counter

StreamInRows == turn \in HasRow => Present(rows, stream.id, stream.seq)

PartialInRows == partial # Idle => Present(rows, partial.id, partial.seq)

PartialOfTurn ==
    /\ turn \in {"placeholder", "starting", "update", "compact", "summary", "discard"} => partial = Idle
    /\ turn = "live" =>
           partial = Idle \/ (partial.id = stream.id /\ partial.seq = stream.seq /\ partial.parts <= stream.parts)
    /\ turn \in {"flushed", "abort"} => partial = stream

\* Nor more than n.
AtMost(s, seq, n) == \A i \in DOMAIN s : s[i].seq = seq => s[i].parts <= n

\* The streamed message's row is never ahead of the stream.
RowBehind == turn \in {"starting", "live", "flushed", "abort"} => AtMost(rows, stream.seq, stream.parts)

\* What a commitPartial has read is still there, and it is known to be in chat.jsonl.
Knows(c) ==
    /\ commits[c].pc \in {"look", "write", "drop"} => partial # Idle /\ commits[c].read = partial
    /\ commits[c].pc = "write" => commits[c].known

\* In an abort, the turn's commit finds all the parts in the row or writes them.
AbortKnows ==
    LET x == commits["turn"]
    IN  turn = "abort" =>
            /\ x.pc = "write" => /\ x.parts <= stream.parts
                                 /\ x.parts = stream.parts => Holds(rows, stream.seq, stream.parts)
            /\ x.pc = "drop" => Holds(rows, stream.seq, stream.parts)

InRows ==
    /\ StreamInRows /\ PartialInRows /\ PartialOfTurn /\ RowBehind /\ AbortKnows
    /\ \A c \in Callers : Knows(c)

\* Every message has one row, and no unused one has a row.
OneRowEach ==
    /\ \A i, j \in DOMAIN rows : rows[i].id = rows[j].id => i = j
    /\ \A i \in DOMAIN rows : rows[i].id \notin unused

CInv == Typed /\ IInv /\ SequencesIncrease /\ CounterAhead /\ OneRowEach /\ InRows

\* Appending a message keeps every message where it was.
LEMMA AppendKeepsRows ==
    ASSUME CInv, NEW m \in Messages, NEW p \in 0 .. MaxParts, AppendNew(m, p),
           NEW d, NEW seq, Present(rows, d, seq)
    PROVE  /\ Present(rows', d, seq)
           /\ \A n \in Nat : Holds(rows, seq, n) => Holds(rows', seq, n)
           /\ \A n \in Nat : AtMost(rows, seq, n) => AtMost(rows', seq, n)
<1> USE HistoryAssumption
<1>1. rows \in Seq(RowType) /\ counter \in Nat \cup {Unset} /\ SequencesIncrease
      /\ (counter # Unset => \A i \in DOMAIN rows : rows[i].seq < counter)
  BY DEF CInv, Typed, TypeOK, RowType, CounterAhead
<1>2. Len(rows) \in Nat /\ DOMAIN rows = 1 .. Len(rows) /\ \A i \in DOMAIN rows : rows[i].seq \in Nat BY <1>1, RowsFacts
<1>3. /\ NextSequence \in Nat
      /\ rows' \in Seq(RowType) /\ Len(rows') = Len(rows) + 1
      /\ rows'[Len(rows) + 1] = Row(m, NextSequence, p)
      /\ \A i \in DOMAIN rows : rows'[i] = rows[i]
  BY <1>1, AppendFacts
<1>4. DOMAIN rows' = 1 .. Len(rows) + 1 BY <1>3, LenProperties
<1>5. \A i \in DOMAIN rows : rows[i].seq < NextSequence BY <1>1, NextIsLarger
<1>6. rows'[Len(rows) + 1].seq = NextSequence /\ ~rows'[Len(rows) + 1].boundary BY <1>3 DEF Row
<1>7. PICK i \in DOMAIN rows : rows[i].id = d /\ rows[i].seq = seq /\ \A j \in DOMAIN rows : j > i => ~rows[j].boundary
  BY DEF Present
<1>8. Present(rows', d, seq)
  <2>1. i \in DOMAIN rows' /\ rows'[i] = rows[i] BY <1>2, <1>3, <1>4, <1>7
  <2>2. \A j \in DOMAIN rows' : j > i => ~rows'[j].boundary BY <1>2, <1>3, <1>4, <1>6, <1>7
  <2> QED BY <1>7, <2>1, <2>2 DEF Present
<1>9. NextSequence # seq BY <1>2, <1>3, <1>5, <1>7
<1>10. ASSUME NEW n \in Nat, Holds(rows, seq, n) PROVE Holds(rows', seq, n)
  BY <1>2, <1>3, <1>4, <1>6, <1>9, <1>10 DEF Holds
<1>11. ASSUME NEW n \in Nat, AtMost(rows, seq, n) PROVE AtMost(rows', seq, n)
  BY <1>2, <1>3, <1>4, <1>6, <1>9, <1>11 DEF AtMost
<1> QED BY <1>8, <1>10, <1>11

\* Updating the row of a message that is present leaves it present, with its parts, and
\* no other row changes.  Without a new boundary every message stays present.
LEMMA UpdateKeepsRows ==
    ASSUME CInv, NEW y \in Draft, y.id \in Messages, NEW b \in BOOLEAN, Numbered(y.seq) # {},
           Present(rows, y.id, y.seq), UpdateRow(y, b)
    PROVE  /\ rows' \in Seq(RowType) /\ Len(rows') = Len(rows) /\ DOMAIN rows' = DOMAIN rows
           /\ \A i \in DOMAIN rows : rows'[i].id = rows[i].id /\ rows'[i].seq = rows[i].seq
           /\ ~b => \A d, seq : Present(rows, d, seq) => Present(rows', d, seq)
           /\ Holds(rows', y.seq, y.parts)
<1>1. rows \in Seq(RowType) /\ SequencesIncrease BY DEF CInv, Typed, TypeOK, RowType
<1>2. Len(rows) \in Nat /\ DOMAIN rows = 1 .. Len(rows)
      /\ \A i \in DOMAIN rows : rows[i].seq \in Nat /\ rows[i].boundary \in BOOLEAN
  BY <1>1, RowsFacts
<1>3. rows' \in Seq(RowType) /\ Len(rows') = Len(rows) BY <1>1, UpdateFacts
<1>4. PICK i \in DOMAIN rows :
         /\ rows[i].seq = y.seq
         /\ rows'[i] = [id |-> y.id, seq |-> y.seq, parts |-> y.parts, boundary |-> rows[i].boundary \/ b]
         /\ \A j \in DOMAIN rows : j # i => rows'[j] = rows[j]
  BY <1>1, UpdateFacts
<1>5. DOMAIN rows' = DOMAIN rows BY <1>2, <1>3, LenProperties
<1>6. PICK k \in DOMAIN rows : rows[k].id = y.id /\ rows[k].seq = y.seq /\ \A j \in DOMAIN rows : j > k => ~rows[j].boundary
  BY DEF Present
<1>7. \A j \in DOMAIN rows : rows[j].seq = y.seq => j = i
  <2> SUFFICES ASSUME NEW j \in DOMAIN rows, rows[j].seq = y.seq PROVE j = i
    OBVIOUS
  <2>1. j < i => rows[j].seq < rows[i].seq BY <1>1 DEF SequencesIncrease
  <2>2. i < j => rows[i].seq < rows[j].seq BY <1>1 DEF SequencesIncrease
  <2> QED BY <1>2, <1>4, <2>1, <2>2
<1>8. k = i BY <1>6, <1>7
<1>9. rows'[i].id = y.id /\ rows'[i].seq = y.seq /\ rows'[i].parts = y.parts BY <1>4
<1>10. \A j \in DOMAIN rows : rows'[j].id = rows[j].id /\ rows'[j].seq = rows[j].seq BY <1>4, <1>6, <1>8, <1>9
<1>11. ASSUME ~b, NEW d, NEW seq, Present(rows, d, seq) PROVE Present(rows', d, seq)
  <2>1. rows'[i].boundary = rows[i].boundary BY <1>2, <1>4, <1>11
  <2>2. \A j \in DOMAIN rows : rows'[j].boundary = rows[j].boundary BY <1>4, <2>1
  <2> QED BY <1>5, <1>10, <1>11, <2>2 DEF Present
<1>12. Holds(rows', y.seq, y.parts) BY <1>5, <1>7, <1>9, <1>10 DEF Holds
<1> QED BY <1>3, <1>5, <1>10, <1>11, <1>12

\* An undisturbed commit finds the row of the partial, so it never appends.
LEMMA CommitUpdates ==
    ASSUME CInv, NEW c \in Callers, CommitWrite(c)
    PROVE  /\ Commit(c, [commits[c] EXCEPT !.pc = "drop"])
           /\ UNCHANGED <<counter, turn, partial, stream, unused, crashes>>
           /\ partial # Idle /\ commits[c].read = partial /\ Present(rows, partial.id, partial.seq)
           /\ partial \in Draft /\ partial.id \in Messages
           /\ \/ ShouldCommit(commits[c]) /\ Numbered(partial.seq) # {} /\ UpdateRow(partial, FALSE)
              \/ ~ShouldCommit(commits[c]) /\ UNCHANGED rows
<1>2. commits[c].pc = "write" BY DEF CommitWrite
<1>3. partial # Idle /\ commits[c].read = partial /\ commits[c].known BY <1>2 DEF CInv, InRows, Knows
<1>4. Present(rows, partial.id, partial.seq) /\ partial \in Draft /\ partial.id \in Messages
  BY <1>3 DEF CInv, InRows, PartialInRows, Typed, TypeOK, Named
<1>5. Numbered(partial.seq) # {} BY <1>4 DEF Present, Numbered
<1>6. \/ ShouldCommit(commits[c]) /\ UpdateRow(partial, FALSE) /\ Commit(c, [commits[c] EXCEPT !.pc = "drop"]) /\ UNCHANGED <<counter, turn>>
      \/ ~ShouldCommit(commits[c]) /\ Commit(c, [commits[c] EXCEPT !.pc = "drop"]) /\ UNCHANGED <<rows, counter, turn>>
  BY <1>3, <1>5 DEF CommitWrite
<1>7. UNCHANGED <<partial, stream, unused, crashes>> BY DEF CommitWrite
<1> QED BY <1>3, <1>4, <1>5, <1>6, <1>7

\* A step appends a message that was not used yet, leaves every message in its row, or
\* takes rows away.
Extended == \E m \in unused, p \in 0 .. MaxParts : AppendNew(m, p)

SameMessages ==
    /\ Len(rows') = Len(rows) /\ DOMAIN rows' = DOMAIN rows
    /\ \A i \in DOMAIN rows : rows'[i].id = rows[i].id /\ rows'[i].seq = rows[i].seq
    /\ counter' = counter \/ counter' = Unset
    /\ unused' = unused

Thinned ==
    /\ unused' = unused
    /\ Len(rows') < Len(rows)
    /\ \E e \in [DOMAIN rows' -> DOMAIN rows] :
           /\ \A i, j \in DOMAIN rows' : i < j => e[i] < e[j]
           /\ \A i \in DOMAIN rows' : rows'[i] = rows[e[i]]
    /\ \A i \in DOMAIN rows' : rows'[i].seq < counter'

\* Undisturbed, every step is one of these.
LEMMA RowsStep ==
    ASSUME CInv, [Next]_vars
    PROVE  Extended \/ SameMessages \/ Thinned
<1> USE HistoryAssumption
<1>1. /\ rows \in Seq(RowType) /\ counter \in Nat \cup {Unset} /\ stream \in Draft /\ unused \subseteq Messages
      /\ turn \in HasRow => stream.id \in Messages
  BY DEF CInv, Typed, TypeOK, RowType, Named
<1>2. UNCHANGED <<rows, counter, unused>> => SameMessages BY DEF SameMessages
<1>3. UNCHANGED <<rows, unused>> /\ counter' = Unset => SameMessages BY DEF SameMessages
<1>4. ASSUME NEW b \in BOOLEAN, turn \in HasRow, UNCHANGED <<counter, unused>>,
             (Numbered(stream.seq) # {} /\ UpdateRow(stream, b)) \/ UNCHANGED rows
      PROVE  SameMessages
  <2>1. CASE UNCHANGED rows BY <1>2, <1>4, <2>1
  <2>2. CASE Numbered(stream.seq) # {} /\ UpdateRow(stream, b)
    <3>1. PICK y : y = stream OBVIOUS
    <3>2. y \in Draft /\ y.id \in Messages /\ Numbered(y.seq) # {} /\ UpdateRow(y, b) BY <1>1, <1>4, <2>2, <3>1
    <3>3. Present(rows, y.id, y.seq) BY <1>4, <3>1 DEF CInv, InRows, StreamInRows
    <3>4. Len(rows') = Len(rows) /\ DOMAIN rows' = DOMAIN rows
          /\ \A i \in DOMAIN rows : rows'[i].id = rows[i].id /\ rows'[i].seq = rows[i].seq
      BY <3>2, <3>3, UpdateKeepsRows
    <3> QED BY <1>4, <3>4 DEF SameMessages
  <2> QED BY <1>4, <2>1, <2>2
<1>5. ASSUME DeleteMessage(stream.id), UNCHANGED unused PROVE SameMessages \/ Thinned
  <2>1. PICK m : m = stream.id OBVIOUS
  <2>2. DeleteMessage(m) BY <1>5, <2>1
  <2>3. \/ UNCHANGED <<rows, counter>>
        \/ /\ Len(rows') < Len(rows) /\ \A i \in DOMAIN rows' : rows'[i].seq < counter'
           /\ \E e \in [DOMAIN rows' -> DOMAIN rows] :
                  /\ \A i, j \in DOMAIN rows' : i < j => e[i] < e[j]
                  /\ \A i \in DOMAIN rows' : rows'[i] = rows[e[i]]
    BY <1>1, <2>2, DeleteFacts
  <2> QED BY <1>2, <1>5, <2>3 DEF Thinned
<1>6. ASSUME NEW c \in Callers, CommitStep(c) PROVE SameMessages
  <2>1. CASE CommitRead(c) \/ CommitLook(c) \/ CommitDrop(c)
    BY <1>2, <2>1 DEF CommitRead, CommitLook, CommitDrop
  <2>2. CASE CommitWrite(c)
    <3>1. UNCHANGED <<counter, unused>> BY <2>2, CommitUpdates
    <3>2. PICK y : y = partial OBVIOUS
    <3>3. y \in Draft /\ y.id \in Messages /\ Present(rows, y.id, y.seq)
          /\ ((Numbered(y.seq) # {} /\ UpdateRow(y, FALSE)) \/ UNCHANGED rows)
      BY <2>2, <3>2, CommitUpdates
    <3>4. CASE UNCHANGED rows BY <1>2, <3>1, <3>4
    <3>5. CASE Numbered(y.seq) # {} /\ UpdateRow(y, FALSE)
      <4>1. Len(rows') = Len(rows) /\ DOMAIN rows' = DOMAIN rows
            /\ \A i \in DOMAIN rows : rows'[i].id = rows[i].id /\ rows'[i].seq = rows[i].seq
        BY <3>3, <3>5, UpdateKeepsRows
      <4> QED BY <3>1, <4>1 DEF SameMessages
    <3> QED BY <3>3, <3>4, <3>5
  <2> QED BY <1>6, <2>1, <2>2 DEF CommitStep
<1>7. ASSUME NEW m \in Messages, AppendMessage(m) \/ Placeholder(m) PROVE Extended
  <2>1. m \in unused /\ (AppendNew(m, 0) \/ AppendNew(m, 1)) BY <1>7 DEF AppendMessage, Placeholder
  <2> QED BY <2>1 DEF Extended
<1>8. CASE \/ BeginTurn \/ StartupFails \/ StartStream \/ Produce \/ WritePartial \/ DeleteBeforeStop \/ FinalFlush
           \/ EndDelete \/ CompactDelete \/ Abort \/ AbandonPartial \/ StreamFails \/ FailureStands \/ DiscardPartial
           \/ UNCHANGED vars
  BY <1>2, <1>8 DEF BeginTurn, StartupFails, StartStream, Produce, WritePartial, DeleteBeforeStop, FinalFlush,
           EndDelete, CompactDelete, Abort, AbandonPartial, StreamFails, FailureStands, DiscardPartial, vars
<1>9. CASE EndUpdate \/ CompactUpdate
  <2>1. UNCHANGED <<counter, unused>> /\ turn \in HasRow BY <1>9 DEF EndUpdate, CompactUpdate, HasRow
  <2>2. \E b \in BOOLEAN : (Numbered(stream.seq) # {} /\ UpdateRow(stream, b)) \/ UNCHANGED rows
    BY <1>9 DEF EndUpdate, CompactUpdate
  <2> QED BY <1>4, <2>1, <2>2
<1>10. CASE StartAborted \/ DiscardMessage
  <2>1. DeleteMessage(stream.id) /\ UNCHANGED unused BY <1>10 DEF StartAborted, DiscardMessage
  <2> QED BY <1>5, <2>1
<1>11. ASSUME NEW i \in DOMAIN rows, TruncateAfterMessage(i) \/ TruncateHistory(i) PROVE Thinned
  <2>1. rows' \in Seq(RowType) /\ Len(rows') < Len(rows) /\ \A j \in DOMAIN rows' : rows'[j].seq < counter'
    BY <1>1, <1>11, KeepFacts
  <2>2. PICK k \in Nat : \A j \in DOMAIN rows' : j + k \in DOMAIN rows /\ rows'[j] = rows[j + k] BY <1>1, <1>11, KeepFacts
  <2>3. DOMAIN rows' = 1 .. Len(rows') /\ Len(rows') \in Nat BY <2>1, LenProperties
  <2> DEFINE e == [j \in DOMAIN rows' |-> j + k]
  <2>4. e \in [DOMAIN rows' -> DOMAIN rows] BY <2>2
  <2>5. \A j \in DOMAIN rows' : e[j] = j + k OBVIOUS
  <2> HIDE DEF e
  <2>6. \A i1, j \in DOMAIN rows' : i1 < j => e[i1] < e[j] BY <2>3, <2>5
  <2>7. \A j \in DOMAIN rows' : rows'[j] = rows[e[j]] BY <2>2, <2>5
  <2>8. UNCHANGED unused BY <1>11 DEF TruncateAfterMessage, TruncateHistory, Keep
  <2> QED BY <2>1, <2>4, <2>6, <2>7, <2>8 DEF Thinned
<1>12. CASE Crash
  BY <1>3, <1>12 DEF Crash
<1>13. ASSUME NEW c \in Stops, AbortBeside(c) \/ AbortDeletes(c) PROVE SameMessages
  BY <1>2, <1>13 DEF AbortBeside, AbortDeletes
<1> QED BY <1>6, <1>7, <1>8, <1>9, <1>10, <1>11, <1>12, <1>13 DEF Next, Step

\* Whichever it is, the numbers increase, the counter stays ahead of them, and every
\* message has one row.
LEMMA NumbersKept ==
    ASSUME CInv, Typed', Extended \/ SameMessages \/ Thinned
    PROVE  SequencesIncrease' /\ CounterAhead' /\ OneRowEach'
<1> USE HistoryAssumption
<1>1. /\ rows \in Seq(RowType) /\ counter \in Nat \cup {Unset} /\ unused \subseteq Messages
      /\ SequencesIncrease /\ (counter # Unset => \A i \in DOMAIN rows : rows[i].seq < counter)
      /\ OneRowEach
  BY DEF CInv, Typed, TypeOK, RowType, CounterAhead
<1>2. Len(rows) \in Nat /\ DOMAIN rows = 1 .. Len(rows) /\ \A i \in DOMAIN rows : rows[i].seq \in Nat BY <1>1, RowsFacts
<1>3. CASE Extended
  <2>1. PICK m \in unused, p \in 0 .. MaxParts : AppendNew(m, p) BY <1>1, <1>3 DEF Extended
  <2>2. /\ NextSequence \in Nat /\ counter' = NextSequence + 1
        /\ rows' \in Seq(RowType) /\ Len(rows') = Len(rows) + 1
        /\ rows'[Len(rows) + 1] = Row(m, NextSequence, p)
        /\ \A i \in DOMAIN rows : rows'[i] = rows[i]
    BY <1>1, <2>1, AppendFacts
  <2>3. DOMAIN rows' = 1 .. Len(rows) + 1 BY <2>2, LenProperties
  <2>9. rows'[Len(rows) + 1].id = m /\ unused' = unused \ {m} BY <2>1, <2>2 DEF Row, AppendNew
  <2>4. \A i \in DOMAIN rows : rows[i].seq < NextSequence BY <1>1, NextIsLarger
  <2>5. rows'[Len(rows) + 1].seq = NextSequence BY <2>2 DEF Row
  <2>6. \A i \in DOMAIN rows' : i \in DOMAIN rows \/ i = Len(rows) + 1 BY <1>2, <2>3
  <2>7. SequencesIncrease' BY <1>1, <1>2, <2>2, <2>3, <2>4, <2>5, <2>6 DEF SequencesIncrease
  <2>8. \A i \in DOMAIN rows' : rows'[i].seq < counter' BY <1>2, <2>2, <2>4, <2>5, <2>6
  <2>10. OneRowEach' BY <1>1, <1>2, <2>2, <2>3, <2>6, <2>9 DEF OneRowEach
  <2> QED BY <2>7, <2>8, <2>10 DEF CounterAhead
<1>4. CASE SameMessages
  BY <1>1, <1>4 DEF SameMessages, SequencesIncrease, CounterAhead, OneRowEach
<1>5. CASE Thinned
  <2>1. PICK e \in [DOMAIN rows' -> DOMAIN rows] :
           /\ \A i, j \in DOMAIN rows' : i < j => e[i] < e[j]
           /\ \A i \in DOMAIN rows' : rows'[i] = rows[e[i]]
    BY <1>5 DEF Thinned
  <2>2. SequencesIncrease' BY <1>1, <2>1 DEF SequencesIncrease
  <2>3. OneRowEach'
    <3>1. ASSUME NEW i \in DOMAIN rows', NEW j \in DOMAIN rows', rows'[i].id = rows'[j].id PROVE i = j
      <4>1. e[i] = e[j] BY <1>1, <2>1, <3>1 DEF OneRowEach
      <4>2. ~(i < j) /\ ~(j < i) BY <1>2, <2>1, <4>1
      <4>3. DOMAIN rows' = 1 .. Len(rows') /\ Len(rows') \in Nat
        <5>1. rows' \in Seq(RowType) BY DEF Typed, TypeOK, RowType
        <5> QED BY <5>1, LenProperties
      <4> QED BY <4>2, <4>3
    <3> QED BY <1>1, <1>5, <2>1, <3>1 DEF OneRowEach, Thinned
  <2> QED BY <1>5, <2>2, <2>3 DEF Thinned, CounterAhead
<1> QED BY <1>3, <1>4, <1>5
\* Whoever relies on partial.json and does nothing itself still finds what it has read.
LEMMA OthersKnow ==
    ASSUME NEW d \in Callers, Knows(d), ~Disturbs, Waits(d)
    PROVE  Knows(d)'
<1>1. CASE commits[d].pc \in {"look", "write", "drop"}
  <2>1. Owes(d) BY <1>1 DEF Owes
  <2>2. UNCHANGED partial BY <2>1 DEF Disturbs
  <2> QED BY <2>2 DEF Knows, Waits
<1>2. CASE commits[d].pc \notin {"look", "write", "drop"}
  BY <1>2 DEF Knows, Waits
<1> QED BY <1>1, <1>2

\* A step of commitPartial that disturbs nobody keeps the messages of stream and partial
\* in their rows.
LEMMA CommitInRows ==
    ASSUME CInv, NEW c \in Callers, CommitStep(c), ~Disturbs
    PROVE  InRows'
<1> USE HistoryAssumption
<1>1. /\ rows \in Seq(RowType) /\ partial \in Draft /\ stream \in Draft /\ commits \in [Callers -> CommitType]
      /\ turn \in HasRow => stream.id \in Messages
      /\ "turn" \in Callers
  BY DEF CInv, Typed, TypeOK, RowType, Named, CommitType, Callers
<1>2. StreamInRows /\ PartialInRows /\ PartialOfTurn /\ RowBehind /\ AbortKnows /\ \A d \in Callers : Knows(d)
  BY DEF CInv, InRows
<1>3. PICK x \in CommitType : x = commits[c] BY <1>1
<1>4. /\ x.pc \in {"look", "write", "drop"} => partial # Idle /\ x.read = partial
      /\ x.pc = "write" => x.known
  BY <1>2, <1>3 DEF Knows
<1>5. turn \in {"flushed", "abort"} => partial = stream /\ stream # Idle
  <2>1. Idle.id = NoMessage BY DEF Idle
  <2> QED BY <1>1, <1>2, <2>1 DEF PartialOfTurn, HasRow
<1>6. c = "turn" => turn \in {"commit", "abort"}
  <2>1. CASE CommitRead(c) BY <2>1 DEF CommitRead, MayCommit
  <2>2. CASE commits[c].pc # "idle" BY <2>2 DEF CInv, IInv, TurnWaitsForCommit
  <2> QED BY <2>1, <2>2 DEF CommitStep, CommitLook, CommitWrite, CommitDrop
<1>7. UNCHANGED stream BY DEF CommitStep, CommitRead, CommitLook, CommitWrite, CommitDrop
<1>8. NoCommit \in CommitType
  <2>1. Idle \in Draft BY DEF Idle, Draft
  <2> QED BY <2>1 DEF NoCommit, CommitType
\* What the other callers know.
<1>9. ASSUME UNCHANGED turn \/ c = "turn", NEW n \in CommitType, commits' = [commits EXCEPT ![c] = n],
             /\ n.pc \in {"look", "write", "drop"} => partial' # Idle /\ n.read = partial'
             /\ n.pc = "write" => n.known
      PROVE  /\ commits'[c] = n
             /\ \A d \in Callers : d # c => commits'[d] = commits[d]
             /\ \A d \in Callers : Knows(d)'
  <2>1. commits'[c] = n /\ \A d \in Callers : d # c => commits'[d] = commits[d] BY <1>1, <1>9
  <2>2. Knows(c)' BY <1>9, <2>1 DEF Knows
  <2>3. ASSUME NEW d \in Callers, d # c PROVE Knows(d)'
    <3>1. Waits(d) BY <1>9, <2>1, <2>3 DEF Waits
    <3> QED BY <1>2, <3>1, OthersKnow
  <2> QED BY <2>1, <2>2, <2>3
\* commitPartial returns: partial.json is gone by now.
<1>10. ASSUME Return(c, TRUE), partial' = Idle, UNCHANGED rows PROVE InRows'
  <2>1. PICK n : n = [NoCommit EXCEPT !.pc = IF c = "turn" THEN "idle" ELSE IF c \in Stops THEN "delete" ELSE "done"]
    OBVIOUS
  <2>2. n \in CommitType /\ n.pc \in {"idle", "delete", "done"}
    <3>1. NoCommit \in CommitType BY <1>8
    <3> QED BY <2>1, <3>1 DEF CommitType
  <2>3. commits' = [commits EXCEPT ![c] = n] BY <1>10, <2>1 DEF Return, Commit
  <2>4. \/ c # "turn" /\ UNCHANGED turn
        \/ c = "turn" /\ turn = "abort" /\ turn' = "abandon"
        \/ c = "turn" /\ turn = "commit" /\ turn' = "placeholder"
    BY <1>10 DEF Return
  <2>5. commits'[c] = n /\ (\A d \in Callers : d # c => commits'[d] = commits[d]) /\ \A d \in Callers : Knows(d)'
    BY <1>9, <2>2, <2>3, <2>4
  <2>6. c # "turn" => turn \notin {"flushed", "abort"}
    <3> SUFFICES ASSUME c # "turn", turn \in {"flushed", "abort"} PROVE FALSE
      OBVIOUS
    <3>1. Owes("turn") /\ Waits("turn") BY <1>1, <2>4, <2>5 DEF Owes, Waits
    <3>2. partial' # partial BY <1>5, <1>10
    <3> QED BY <1>1, <3>1, <3>2 DEF Disturbs
  <2>7. StreamInRows' BY <1>2, <1>7, <1>10, <2>4 DEF StreamInRows, HasRow
  <2>8. PartialInRows' BY <1>10 DEF PartialInRows
  <2>9. PartialOfTurn' BY <1>2, <1>10, <2>4, <2>6 DEF PartialOfTurn
  <2>10. RowBehind' BY <1>2, <1>7, <1>10, <2>4 DEF RowBehind
  <2>11. AbortKnows' BY <2>4, <2>6 DEF AbortKnows
  <2> QED BY <2>5, <2>7, <2>8, <2>9, <2>10, <2>11 DEF InRows
<1>11. CASE CommitRead(c)
  <2>1. UNCHANGED <<rows, partial, stream>> BY <1>11 DEF CommitRead
  <2>2. CASE partial = Idle
    <3>1. Return(c, TRUE) /\ partial' = Idle BY <1>11, <2>1, <2>2 DEF CommitRead
    <3> QED BY <1>10, <2>1, <3>1
  <2>3. CASE partial # Idle
    <3>1. PICK n : n = [NoCommit EXCEPT !.pc = "look", !.read = partial] OBVIOUS
    <3>2. commits' = [commits EXCEPT ![c] = n] /\ turn' = turn BY <1>11, <2>3, <3>1 DEF CommitRead, Commit
    <3>3. n \in CommitType /\ n.pc = "look" /\ n.read = partial BY <1>1, <1>8, <3>1 DEF CommitType
    <3>4. commits'[c] = n /\ (\A d \in Callers : d # c => commits'[d] = commits[d]) /\ \A d \in Callers : Knows(d)'
      BY <1>9, <2>1, <2>3, <3>2, <3>3
    <3>5. StreamInRows' /\ PartialInRows' /\ PartialOfTurn' /\ RowBehind'
      BY <1>2, <2>1, <3>2 DEF StreamInRows, PartialInRows, PartialOfTurn, RowBehind
    <3>6. AbortKnows' BY <1>1, <1>2, <2>1, <3>2, <3>3, <3>4 DEF AbortKnows
    <3> QED BY <3>4, <3>5, <3>6 DEF InRows
  <2> QED BY <2>2, <2>3
<1>12. CASE CommitLook(c)
  <2>1. UNCHANGED <<rows, partial, turn, stream>> /\ x.pc = "look" BY <1>3, <1>12 DEF CommitLook
  <2>2. PICK found : found = {i \in Numbered(x.read.seq) : i >= LatestBoundary} OBVIOUS
  <2>3. PICK m : m = IF found = {} THEN 0 ELSE rows[Min(found)].parts OBVIOUS
  <2>4. PICK k \in BOOLEAN : k = (found # {}) OBVIOUS
  <2>5. PICK n : n = [[[x EXCEPT !.pc = "write"] EXCEPT !.known = k] EXCEPT !.parts = m] OBVIOUS
  <2>6. commits' = [commits EXCEPT ![c] = n] BY <1>3, <1>12, <2>2, <2>3, <2>4, <2>5 DEF CommitLook, Commit
  <2>7. partial # Idle /\ x.read = partial BY <1>4, <2>1
  <2>8. PICK i \in DOMAIN rows : rows[i].seq = partial.seq /\ \A j \in DOMAIN rows : j > i => ~rows[j].boundary
    BY <1>2, <2>7 DEF PartialInRows, Present
  <2>9. LatestBoundary \in Nat /\ LatestBoundary <= i BY <1>1, <2>8, BoundaryFound
  <2>10. Len(rows) \in Nat /\ DOMAIN rows = 1 .. Len(rows)
         /\ \A j \in DOMAIN rows : rows[j].seq \in Nat /\ rows[j].parts \in 0 .. MaxParts
    BY <1>1, RowsFacts
  <2>11. i \in found BY <2>2, <2>7, <2>8, <2>9, <2>10 DEF Numbered
  <2>12. PICK l \in DOMAIN rows : l = Min(found) /\ rows[l].seq = partial.seq
    <3>1. \A j \in found : j \in DOMAIN rows /\ rows[j].seq = partial.seq BY <2>2, <2>7 DEF Numbered
    <3>2. found \in SUBSET Nat BY <2>10, <3>1
    <3>3. Min(found) \in found BY <2>11, <3>2, MinIsLeast
    <3> QED BY <3>1, <3>3
  <2>13. m = rows[l].parts /\ m \in 0 .. MaxParts BY <2>3, <2>10, <2>11, <2>12
  <2>14. n \in CommitType /\ n.pc = "write" /\ n.known = k /\ n.parts = m /\ n.read = x.read
    BY <1>3, <2>5, <2>13 DEF CommitType
  <2>15. n.known BY <2>4, <2>11, <2>14
  <2>16. commits'[c] = n /\ (\A d \in Callers : d # c => commits'[d] = commits[d]) /\ \A d \in Callers : Knows(d)'
    BY <1>9, <2>1, <2>6, <2>7, <2>14, <2>15
  <2>17. turn = "abort" => m <= stream.parts /\ (m = stream.parts => Holds(rows, stream.seq, stream.parts))
    <3> SUFFICES ASSUME turn = "abort"
                 PROVE  m <= stream.parts /\ (m = stream.parts => Holds(rows, stream.seq, stream.parts))
      OBVIOUS
    <3>1. partial.seq = stream.seq /\ AtMost(rows, stream.seq, stream.parts) BY <1>2, <1>5 DEF RowBehind
    <3>2. m <= stream.parts BY <2>12, <2>13, <3>1 DEF AtMost
    <3>3. \A j \in DOMAIN rows : rows[j].seq = stream.seq => j = l
      BY <2>10, <2>12, <3>1 DEF CInv, SequencesIncrease
    <3>4. m = stream.parts => Holds(rows, stream.seq, stream.parts) BY <2>13, <3>3 DEF Holds
    <3> QED BY <3>2, <3>4
  <2>18. StreamInRows' /\ PartialInRows' /\ PartialOfTurn' /\ RowBehind'
    BY <1>2, <2>1 DEF StreamInRows, PartialInRows, PartialOfTurn, RowBehind
  <2>19. AbortKnows'
    <3>1. CASE c = "turn" BY <2>1, <2>14, <2>16, <2>17, <3>1 DEF AbortKnows
    <3>2. CASE c # "turn" BY <1>1, <1>2, <2>1, <2>16, <3>2 DEF AbortKnows
    <3> QED BY <3>1, <3>2
  <2> QED BY <2>16, <2>18, <2>19 DEF InRows
<1>13. CASE CommitWrite(c)
  <2>1. PICK n : n = [x EXCEPT !.pc = "drop"] OBVIOUS
  <2>2. /\ commits' = [commits EXCEPT ![c] = n]
        /\ UNCHANGED <<turn, partial>>
        /\ partial # Idle /\ x.read = partial
    BY <1>3, <1>13, <2>1, CommitUpdates DEF Commit
  <2>3. x.pc = "write" /\ x.known BY <1>3, <1>4, <1>13 DEF CommitWrite
  <2>4. n \in CommitType /\ n.pc = "drop" /\ n.read = x.read BY <1>3, <2>1 DEF CommitType
  <2>5. commits'[c] = n /\ (\A d \in Callers : d # c => commits'[d] = commits[d]) /\ \A d \in Callers : Knows(d)'
    BY <1>9, <2>2, <2>4
  <2>6. PICK z : z = partial OBVIOUS
  <2>7. z \in Draft /\ z.id \in Messages /\ Present(rows, z.id, z.seq) BY <1>13, <2>6, CommitUpdates
  <2>8. (ShouldCommit(x) /\ Numbered(z.seq) # {} /\ UpdateRow(z, FALSE)) \/ (~ShouldCommit(x) /\ UNCHANGED rows)
    BY <1>3, <1>13, <2>6, CommitUpdates
  <2>9. \A d, seq : Present(rows, d, seq) => Present(rows', d, seq) BY <2>7, <2>8, UpdateKeepsRows
  <2>10. UNCHANGED rows \/ Holds(rows', z.seq, z.parts) BY <2>7, <2>8, UpdateKeepsRows
  <2>11. StreamInRows' BY <1>2, <1>7, <2>2, <2>9 DEF StreamInRows
  <2>12. PartialInRows' BY <1>2, <2>2, <2>9 DEF PartialInRows
  <2>13. PartialOfTurn' BY <1>2, <1>7, <2>2 DEF PartialOfTurn
  <2>14. RowBehind'
    <3> SUFFICES ASSUME turn \in {"starting", "live", "flushed", "abort"}
                 PROVE  AtMost(rows', stream.seq, stream.parts)
      BY <1>7, <2>2 DEF RowBehind
    <3>1. z.seq = stream.seq /\ z.parts <= stream.parts
      <4>1. stream.parts \in Nat BY <1>1 DEF Draft
      <4> QED BY <1>2, <2>2, <2>6, <4>1 DEF PartialOfTurn
    <3>2. CASE UNCHANGED rows BY <1>2, <3>2 DEF RowBehind
    <3>3. CASE Holds(rows', z.seq, z.parts) BY <3>1, <3>3 DEF Holds, AtMost
    <3> QED BY <2>10, <3>2, <3>3
  <2>15. AbortKnows'
    <3> SUFFICES ASSUME turn = "abort" PROVE AbortKnows'
      BY <2>2 DEF AbortKnows
    <3>1. z = stream BY <1>5, <2>6
    <3>2. UNCHANGED rows \/ Holds(rows', stream.seq, stream.parts) BY <2>10, <3>1
    <3>3. CASE c = "turn"
      <4>1. Holds(rows', stream.seq, stream.parts)
        <5>1. CASE Numbered(z.seq) # {} /\ UpdateRow(z, FALSE)
          BY <2>7, <3>1, <5>1, UpdateKeepsRows
        <5>2. CASE ~ShouldCommit(x) /\ UNCHANGED rows
          <6>1. /\ x.parts <= stream.parts
                /\ x.parts = stream.parts => Holds(rows, stream.seq, stream.parts)
                /\ AtMost(rows, stream.seq, stream.parts)
            BY <1>2, <1>3, <2>3, <3>3 DEF AbortKnows, RowBehind
          <6>2. x.read.parts = stream.parts BY <2>2, <2>6, <3>1
          <6>3. ~(stream.parts > x.parts) \/ ~(stream.parts > 0) BY <2>3, <5>2, <6>2 DEF ShouldCommit
          <6>4. x.parts \in Nat /\ stream.parts \in Nat BY <1>1 DEF CommitType, Draft
          <6>5. CASE stream.parts = 0
            <7>1. \A i \in DOMAIN rows : rows[i].parts \in Nat BY <1>1, RowsFacts
            <7> QED BY <5>2, <6>1, <6>5, <7>1 DEF AtMost, Holds
          <6>6. CASE stream.parts # 0
            <7>1. x.parts = stream.parts BY <6>1, <6>3, <6>4, <6>6
            <7> QED BY <5>2, <6>1, <7>1
          <6> QED BY <6>5, <6>6
        <5> QED BY <2>8, <5>1, <5>2
      <4> QED BY <1>7, <2>4, <2>5, <3>3, <4>1 DEF AbortKnows
    <3>4. CASE c # "turn"
      <4>1. commits'["turn"] = commits["turn"] BY <1>1, <2>5, <3>4
      <4> QED BY <1>2, <1>7, <2>2, <3>2, <4>1 DEF AbortKnows
    <3> QED BY <3>3, <3>4
  <2> QED BY <2>5, <2>11, <2>12, <2>13, <2>14, <2>15 DEF InRows
<1>14. CASE CommitDrop(c)
  <2>1. Return(c, TRUE) /\ partial' = Idle /\ UNCHANGED rows BY <1>14 DEF CommitDrop
  <2> QED BY <1>10, <2>1
<1> QED BY <1>11, <1>12, <1>13, <1>14 DEF CommitStep

\* So does every step of the turn and its stream, of a stop's handler, of truncation, and
\* a crash.
LEMMA StepInRows ==
    ASSUME CInv, Step, ~Disturbs
    PROVE  InRows'
<1> USE HistoryAssumption
<1>1. /\ rows \in Seq(RowType) /\ counter \in Nat \cup {Unset} /\ partial \in Draft /\ stream \in Draft /\ turn \in Turn
      /\ commits \in [Callers -> CommitType] /\ "turn" \in Callers
      /\ turn \in HasRow => stream.id \in Messages
  BY DEF CInv, Typed, TypeOK, RowType, Named, CommitType, Callers
<1>2. StreamInRows /\ PartialInRows /\ PartialOfTurn /\ RowBehind /\ AbortKnows /\ \A c \in Callers : Knows(c)
  BY DEF CInv, InRows
<1>3. turn \notin {"commit", "abort"} => commits["turn"].pc = "idle" BY DEF CInv, IInv, TurnWaitsForCommit
\* Steps while no commit of the turn runs: what each caller knows.
<1>4. ASSUME turn \notin {"commit", "abort"}, UNCHANGED commits
      PROVE  AbortKnows' /\ \A c \in Callers : Knows(c)'
  <2>1. commits["turn"].pc = "idle" BY <1>3, <1>4
  <2>2. AbortKnows' BY <1>4, <2>1 DEF AbortKnows
  <2>3. Knows("turn")' BY <1>4, <2>1 DEF Knows
  <2>4. ASSUME NEW c \in Callers, c # "turn" PROVE Knows(c)'
    <3>1. Waits(c) BY <1>4, <2>4 DEF Waits
    <3> QED BY <1>2, <3>1, OthersKnow
  <2> QED BY <2>2, <2>3, <2>4
\* The row of a stream that goes on, and of one that is not there.
<1>5. ASSUME UNCHANGED <<rows, stream>>, turn' \in {"starting", "live", "flushed", "abort"} => turn \in {"starting", "live", "flushed", "abort"}
      PROVE  RowBehind'
  BY <1>2, <1>5 DEF RowBehind
<1>6. ASSUME turn' \notin {"starting", "live", "flushed", "abort"} PROVE RowBehind'
  BY <1>6 DEF RowBehind
<1>7. ASSUME UNCHANGED <<rows, stream>>, turn' \in HasRow => turn \in HasRow PROVE StreamInRows'
  BY <1>2, <1>7 DEF StreamInRows
<1>8. ASSUME UNCHANGED rows,
             \/ UNCHANGED partial
             \/ partial' = Idle
             \/ partial' = stream /\ turn \in HasRow
      PROVE  PartialInRows'
  BY <1>2, <1>8 DEF PartialInRows, StreamInRows
<1>9. ASSUME NEW c \in Callers, CommitStep(c) PROVE InRows'
  BY <1>9, CommitInRows
<1>10. ASSUME NEW m \in Messages, AppendMessage(m) PROVE InRows'
  <2>1. AppendNew(m, 1) /\ UNCHANGED <<partial, turn, stream, commits>> BY <1>10 DEF AppendMessage
  <2>2. ASSUME NEW d, NEW seq, Present(rows, d, seq)
        PROVE  /\ Present(rows', d, seq)
               /\ \A n \in Nat : Holds(rows, seq, n) => Holds(rows', seq, n)
               /\ \A n \in Nat : AtMost(rows, seq, n) => AtMost(rows', seq, n)
    <3>1. 1 \in 0 .. MaxParts OBVIOUS
    <3> QED BY <2>1, <2>2, <3>1, AppendKeepsRows
  <2>3. PICK z, u : z = stream /\ u = partial OBVIOUS
  <2>4. StreamInRows'
    <3>1. turn \in HasRow => Present(rows, z.id, z.seq) BY <1>2, <2>3 DEF StreamInRows
    <3>2. turn \in HasRow => Present(rows', z.id, z.seq) BY <2>2, <3>1
    <3> QED BY <2>1, <2>3, <3>2 DEF StreamInRows
  <2>5. PartialInRows'
    <3>1. u # Idle => Present(rows, u.id, u.seq) BY <1>2, <2>3 DEF PartialInRows
    <3>2. u # Idle => Present(rows', u.id, u.seq) BY <2>2, <3>1
    <3> QED BY <2>1, <2>3, <3>2 DEF PartialInRows
  <2>6. PartialOfTurn' BY <1>2, <2>1 DEF PartialOfTurn
  <2>7. turn \in HasRow => /\ \A n \in Nat : Holds(rows, z.seq, n) => Holds(rows', z.seq, n)
                           /\ \A n \in Nat : AtMost(rows, z.seq, n) => AtMost(rows', z.seq, n)
    BY <1>2, <2>2, <2>3 DEF StreamInRows
  <2>8. z.parts \in Nat BY <1>1, <2>3 DEF Draft
  <2>9. RowBehind'
    <3>1. turn \in {"starting", "live", "flushed", "abort"} => AtMost(rows, z.seq, z.parts) /\ turn \in HasRow
      BY <1>2, <2>3 DEF RowBehind, HasRow
    <3>2. turn \in {"starting", "live", "flushed", "abort"} => AtMost(rows', z.seq, z.parts) BY <2>7, <2>8, <3>1
    <3> QED BY <2>1, <2>3, <3>2 DEF RowBehind
  <2>10. AbortKnows'
    <3>1. turn = "abort" /\ Holds(rows, z.seq, z.parts) => Holds(rows', z.seq, z.parts) BY <2>7, <2>8 DEF HasRow
    <3> QED BY <1>2, <2>1, <2>3, <3>1 DEF AbortKnows
  <2>11. \A c \in Callers : Knows(c)' BY <1>2, <2>1 DEF Knows
  <2> QED BY <2>4, <2>5, <2>6, <2>9, <2>10, <2>11 DEF InRows
<1>11. ASSUME NEW m \in Messages, Placeholder(m) PROVE InRows'
  <2>1. /\ AppendNew(m, 0) /\ UNCHANGED <<partial, commits>> /\ turn = "placeholder" /\ turn' = "starting"
        /\ stream' = [id |-> m, seq |-> NextSequence, parts |-> 0]
    BY <1>11 DEF Placeholder
  <2>2. SequencesIncrease /\ (counter # Unset => \A i \in DOMAIN rows : rows[i].seq < counter) BY DEF CInv, CounterAhead
  <2>3. Len(rows) \in Nat /\ DOMAIN rows = 1 .. Len(rows) /\ \A i \in DOMAIN rows : rows[i].seq \in Nat BY <1>1, RowsFacts
  <2>4. 0 \in 0 .. MaxParts OBVIOUS
  <2>5. PICK n : n = NextSequence OBVIOUS
  <2>6. /\ n \in Nat /\ rows' \in Seq(RowType) /\ Len(rows') = Len(rows) + 1
        /\ rows'[Len(rows) + 1] = Row(m, n, 0) /\ \A i \in DOMAIN rows : rows'[i] = rows[i]
    BY <1>1, <2>1, <2>4, <2>5, AppendFacts
  <2>7. DOMAIN rows' = 1 .. Len(rows) + 1 BY <2>6, LenProperties
  <2>8. \A i \in DOMAIN rows : rows[i].seq < n BY <1>1, <2>2, <2>5, NextIsLarger
  <2>9. rows'[Len(rows) + 1].id = m /\ rows'[Len(rows) + 1].seq = n /\ rows'[Len(rows) + 1].parts = 0 BY <2>6 DEF Row
  <2>10. Present(rows', m, n)
    <3>1. Len(rows) + 1 \in DOMAIN rows' /\ \A j \in DOMAIN rows' : ~(j > Len(rows) + 1) BY <2>3, <2>7
    <3> QED BY <2>9, <3>1 DEF Present
  <2>11. AtMost(rows', n, 0)
    <3> SUFFICES ASSUME NEW i \in DOMAIN rows', rows'[i].seq = n PROVE rows'[i].parts <= 0
      BY DEF AtMost
    <3>1. i \in DOMAIN rows \/ i = Len(rows) + 1 BY <2>3, <2>7
    <3>2. i \notin DOMAIN rows BY <2>3, <2>6, <2>8
    <3> QED BY <2>9, <3>1, <3>2
  <2>12. stream'.id = m /\ stream'.seq = n /\ stream'.parts = 0 BY <2>1, <2>5
  <2>13. StreamInRows' BY <2>10, <2>12 DEF StreamInRows
  <2>14. partial' = Idle BY <1>2, <2>1 DEF PartialOfTurn
  <2>15. PartialInRows' /\ PartialOfTurn' BY <2>1, <2>14 DEF PartialInRows, PartialOfTurn
  <2>16. RowBehind' BY <2>11, <2>12 DEF RowBehind
  <2> QED BY <1>4, <2>1, <2>13, <2>15, <2>16 DEF InRows
<1>12. CASE BeginTurn \/ StartStream \/ StartupFails
  <2>1. UNCHANGED <<rows, partial, commits>> /\ turn \in {"idle", "starting", "placeholder"}
    BY <1>12 DEF BeginTurn, StartStream, StartupFails
  <2>2. (turn' \in {"commit", "idle"}) \/ (turn = "starting" /\ turn' = "live" /\ UNCHANGED stream)
    BY <1>12 DEF BeginTurn, StartStream, StartupFails
  <2>3. StreamInRows' BY <1>7, <2>1, <2>2 DEF StreamInRows, HasRow
  <2>4. PartialOfTurn'
    <3>1. partial = Idle \/ turn = "idle" BY <1>2, <2>1 DEF PartialOfTurn
    <3>2. turn = "idle" => turn' = "commit" BY <1>12 DEF BeginTurn, StartStream, StartupFails
    <3> QED BY <2>1, <2>2, <3>1, <3>2 DEF PartialOfTurn
  <2>5. RowBehind' BY <1>5, <1>6, <2>1, <2>2
  <2> QED BY <1>4, <1>8, <2>1, <2>3, <2>4, <2>5 DEF InRows
<1>13. CASE StartAborted \/ DiscardMessage
  <2>1. UNCHANGED <<partial, commits>> /\ turn \in {"starting", "discard"} /\ turn' \in {"idle", "commit"}
    BY <1>13 DEF StartAborted, DiscardMessage
  <2>2. partial' = Idle BY <1>2, <2>1 DEF PartialOfTurn
  <2>3. StreamInRows' /\ PartialInRows' /\ PartialOfTurn'
    BY <2>1, <2>2 DEF StreamInRows, PartialInRows, PartialOfTurn, HasRow
  <2> QED BY <1>4, <1>6, <2>1, <2>3 DEF InRows
<1>14. CASE Produce
  <2>1. UNCHANGED <<rows, partial, turn, commits>> /\ turn = "live" /\ stream' = [stream EXCEPT !.parts = stream.parts + 1]
    BY <1>14 DEF Produce
  <2>2. /\ stream'.id = stream.id /\ stream'.seq = stream.seq /\ stream'.parts = stream.parts + 1
        /\ stream.parts \in Nat
    BY <1>1, <2>1 DEF Draft
  <2>3. StreamInRows' BY <1>2, <2>1, <2>2 DEF StreamInRows
  <2>4. PartialOfTurn'
    <3>1. partial.parts \in Nat BY <1>1 DEF Draft
    <3> QED BY <1>2, <2>1, <2>2, <3>1 DEF PartialOfTurn
  <2>5. RowBehind'
    <3>1. \A i \in DOMAIN rows : rows[i].parts \in Nat BY <1>1, RowsFacts
    <3> QED BY <1>2, <2>1, <2>2, <3>1 DEF RowBehind, AtMost
  <2> QED BY <1>4, <1>8, <2>1, <2>3, <2>4, <2>5 DEF InRows
<1>15. CASE WritePartial \/ DeleteBeforeStop \/ FinalFlush \/ StreamFails
  <2>1. /\ UNCHANGED <<rows, stream, commits>> /\ turn \in {"live", "flushed"} /\ turn' \in {"live", "flushed", "failed"}
        /\ partial' = stream \/ (partial' = Idle /\ turn' = "live")
    BY <1>15 DEF WritePartial, DeleteBeforeStop, FinalFlush, StreamFails
  <2>2. turn \in HasRow BY <2>1 DEF HasRow
  <2>3. PartialOfTurn'
    <3>1. stream.parts <= stream.parts BY <1>1 DEF Draft
    <3> QED BY <2>1, <3>1 DEF PartialOfTurn
  <2>4. RowBehind' BY <1>5, <2>1
  <2> QED BY <1>4, <1>7, <1>8, <2>1, <2>2, <2>3, <2>4 DEF InRows
<1>16. CASE EndDelete \/ CompactDelete \/ DiscardPartial
  <2>1. /\ UNCHANGED <<rows, stream, commits>> /\ turn \in {"flushed", "compact", "failed"}
        /\ turn' \in {"update", "summary", "discard"} /\ partial' = Idle
    BY <1>16 DEF EndDelete, CompactDelete, DiscardPartial
  <2>2. turn \in HasRow BY <2>1 DEF HasRow
  <2>3. PartialOfTurn' BY <2>1 DEF PartialOfTurn
  <2> QED BY <1>4, <1>7, <1>8, <1>6, <2>1, <2>2, <2>3 DEF InRows
<1>17. CASE EndUpdate
  <2>1. UNCHANGED <<partial, commits>> /\ turn = "update" BY <1>17 DEF EndUpdate
  <2>2. partial' = Idle BY <1>2, <2>1 DEF PartialOfTurn
  <2>3. turn' \in {"idle", "compact"} BY <1>17 DEF EndUpdate
  <2>4. StreamInRows'
    <3>1. CASE turn' = "idle" BY <3>1 DEF StreamInRows, HasRow
    <3>2. CASE turn' = "compact"
      <4>1. UNCHANGED stream /\ IF Numbered(stream.seq) # {} THEN UpdateRow(stream, FALSE) ELSE UNCHANGED rows
        BY <1>17, <3>2 DEF EndUpdate
      <4>2. PICK z : z = stream OBVIOUS
      <4>3. z \in Draft /\ z.id \in Messages /\ Present(rows, z.id, z.seq) BY <1>1, <1>2, <2>1, <4>2 DEF StreamInRows, HasRow
      <4>4. (Numbered(z.seq) # {} /\ UpdateRow(z, FALSE)) \/ UNCHANGED rows BY <4>1, <4>2
      <4>5. Present(rows', z.id, z.seq) BY <4>3, <4>4, UpdateKeepsRows
      <4> QED BY <4>1, <4>2, <4>5 DEF StreamInRows
    <3> QED BY <2>3, <3>1, <3>2
  <2>5. PartialInRows' /\ PartialOfTurn' BY <2>2, <2>3 DEF PartialInRows, PartialOfTurn
  <2> QED BY <1>4, <1>6, <2>1, <2>3, <2>4, <2>5 DEF InRows
<1>18. CASE CompactUpdate
  <2>1. UNCHANGED <<partial, commits>> /\ turn = "summary" /\ turn' = "idle" BY <1>18 DEF CompactUpdate
  <2>2. partial' = Idle BY <1>2, <2>1 DEF PartialOfTurn
  <2>3. StreamInRows' /\ PartialInRows' /\ PartialOfTurn' BY <2>1, <2>2 DEF StreamInRows, PartialInRows, PartialOfTurn, HasRow
  <2> QED BY <1>4, <1>6, <2>1, <2>3 DEF InRows
<1>19. CASE Abort
  <2>1. UNCHANGED <<rows, partial, stream, commits>> /\ turn = "flushed" /\ turn' \in {"abort", "abandon"} BY <1>19 DEF Abort
  <2>2. turn \in HasRow BY <2>1 DEF HasRow
  <2>3. PartialOfTurn' BY <1>2, <2>1 DEF PartialOfTurn
  <2>4. RowBehind' BY <1>5, <2>1
  <2> QED BY <1>4, <1>7, <1>8, <2>1, <2>2, <2>3, <2>4 DEF InRows
<1>20. CASE AbandonPartial \/ FailureStands
  <2>1. /\ UNCHANGED <<rows, commits>> /\ turn \in {"abandon", "failed"} /\ turn' = "idle"
        /\ (partial' = Idle \/ UNCHANGED partial)
    BY <1>20 DEF AbandonPartial, FailureStands
  <2>2. StreamInRows' /\ PartialOfTurn' BY <2>1 DEF StreamInRows, PartialOfTurn, HasRow
  <2> QED BY <1>4, <1>8, <1>6, <2>1, <2>2 DEF InRows
<1>21. ASSUME NEW i \in DOMAIN rows, TruncateAfterMessage(i) \/ TruncateHistory(i) PROVE InRows'
  <2>1. UNCHANGED <<partial, turn, stream, commits>> /\ turn = "idle"
    BY <1>21 DEF TruncateAfterMessage, TruncateHistory, Keep
  <2>2. StreamInRows' /\ PartialOfTurn' BY <2>1 DEF StreamInRows, PartialOfTurn, HasRow
  <2>3. PartialInRows'
    <3> SUFFICES ASSUME partial # Idle PROVE Present(rows', partial.id, partial.seq)
      BY <2>1 DEF PartialInRows
    <3>1. PICK l \in DOMAIN rows : /\ rows[l].id = partial.id /\ rows[l].seq = partial.seq
                                   /\ \A j \in DOMAIN rows : j > l => ~rows[j].boundary
      BY <1>2 DEF PartialInRows, Present
    <3>2. partial.id \in History' BY <2>1, <3>1 DEF Disturbs, History
    <3>3. PICK j \in DOMAIN rows' : rows'[j].id = partial.id BY <3>2 DEF History
    <3>4. rows' \in Seq(RowType) /\ \E k \in Nat : \A o \in DOMAIN rows' : o + k \in DOMAIN rows /\ rows'[o] = rows[o + k]
      BY <1>1, <1>21, KeepFacts
    <3>5. PICK k \in Nat : \A o \in DOMAIN rows' : o + k \in DOMAIN rows /\ rows'[o] = rows[o + k] BY <3>4
    <3>6. DOMAIN rows' = 1 .. Len(rows') /\ Len(rows') \in Nat BY <3>4, LenProperties
    <3>7. j + k = l BY <3>1, <3>3, <3>5 DEF CInv, OneRowEach
    <3>8. rows'[j].seq = partial.seq BY <3>1, <3>5, <3>7
    <3>9. ASSUME NEW o \in DOMAIN rows', o > j PROVE ~rows'[o].boundary
      <4>1. o + k > l BY <3>6, <3>7, <3>9
      <4> QED BY <3>1, <3>5, <4>1
    <3> QED BY <3>3, <3>8, <3>9 DEF Present
  <2> QED BY <1>4, <1>6, <2>1, <2>2, <2>3 DEF InRows
<1>22. CASE Crash
  <2>1. UNCHANGED <<rows, partial>> /\ turn' = "idle" BY <1>22 DEF Crash
  <2>2. StreamInRows' /\ PartialOfTurn' BY <2>1 DEF StreamInRows, PartialOfTurn, HasRow
  <2>3. \A c \in Callers : commits'[c].pc \in {"idle", "done"} BY <1>22 DEF Crash, NoCommit
  <2>4. AbortKnows' /\ \A c \in Callers : Knows(c)' BY <2>1, <2>3 DEF AbortKnows, Knows
  <2> QED BY <1>8, <1>6, <2>1, <2>2, <2>4 DEF InRows
<1>23. ASSUME NEW c \in Stops, AbortBeside(c) \/ AbortDeletes(c) PROVE InRows'
  <2>1. /\ UNCHANGED <<rows, turn, stream>> /\ c \in Callers /\ c # "turn"
        /\ partial' = partial \/ partial' = Idle
    BY <1>23 DEF AbortBeside, AbortDeletes, Callers
  <2>2. PICK q \in {"read", "delete", "done"} : Commit(c, [NoCommit EXCEPT !.pc = q])
    BY <1>23 DEF AbortBeside, AbortDeletes
  <2>3. /\ commits'[c].pc = q
        /\ \A d \in Callers : d # c => commits'[d] = commits[d]
    BY <1>1, <2>1, <2>2 DEF Commit, NoCommit
  <2>4. \A d \in Callers : Knows(d)'
    <3>1. Knows(c)' BY <2>2, <2>3 DEF Knows
    <3>2. ASSUME NEW d \in Callers, d # c PROVE Knows(d)'
      <4>1. Waits(d) BY <2>1, <2>3, <3>2 DEF Waits
      <4> QED BY <1>2, <4>1, OthersKnow
    <3> QED BY <3>1, <3>2
  <2>5. AbortKnows'
    <3>1. commits'["turn"] = commits["turn"] BY <1>1, <2>1, <2>3
    <3> QED BY <1>2, <2>1, <3>1 DEF AbortKnows
  <2>6. turn \in {"flushed", "abort"} => UNCHANGED partial
    <3>1. turn \in {"flushed", "abort"} => Owes("turn") /\ Waits("turn") BY <1>1, <2>1, <2>3 DEF Owes, Waits
    <3> QED BY <1>1, <3>1 DEF Disturbs
  <2>7. PartialOfTurn' BY <1>2, <2>1, <2>6 DEF PartialOfTurn
  <2> QED BY <1>5, <1>7, <1>8, <2>1, <2>4, <2>5, <2>7 DEF InRows
<1> QED BY <1>9, <1>10, <1>11, <1>12, <1>13, <1>14, <1>15, <1>16, <1>17, <1>18, <1>19, <1>20, <1>21, <1>22, <1>23
    DEF Step

\* Until a commit is disturbed.
DInv == Typed /\ IInv /\ (~disturbed => CInv)

\* The initial states satisfy the invariant, and every step keeps it.
LEMMA InitDInv == Init => DInv
  <1> SUFFICES ASSUME Init PROVE DInv
    OBVIOUS
  <1>1. Typed /\ IInv BY InitTyped, InitIInv
  <1>2. SequencesIncrease /\ CounterAhead /\ OneRowEach
    BY DEF Init, SequencesIncrease, CounterAhead, OneRowEach
  <1>3. (\A c \in Callers : commits[c].pc = "idle") /\ turn = "idle" /\ partial = Idle BY DEF Init, NoCommit
  <1>4. InRows
    BY <1>3 DEF InRows, StreamInRows, PartialInRows, PartialOfTurn, RowBehind, AbortKnows, Knows, HasRow
  <1> QED BY <1>1, <1>2, <1>4 DEF DInv, CInv

LEMMA StepDInv == DInv /\ [Next]_vars => DInv'
  <1> SUFFICES ASSUME DInv, [Next]_vars PROVE DInv'
    OBVIOUS
  <1>1. Typed' BY StepTyped DEF DInv
  <1>2. IInv' BY StepIInv DEF DInv
  <1>3. ASSUME ~disturbed' PROVE CInv'
    <2>1. CInv /\ (Next => Step /\ ~Disturbs) BY <1>3 DEF DInv, Next, vars
    <2>2. SequencesIncrease' /\ CounterAhead' /\ OneRowEach' BY <1>1, <2>1, RowsStep, NumbersKept
    <2>3. InRows'
      <3>1. CASE Next BY <2>1, <3>1, StepInRows
      <3>2. CASE UNCHANGED vars
        BY <2>1, <3>2 DEF CInv, vars, InRows, StreamInRows, PartialInRows, PartialOfTurn, RowBehind, AbortKnows, Knows
      <3> QED BY <3>1, <3>2
    <2> QED BY <1>1, <1>2, <2>2, <2>3 DEF CInv
  <1> QED BY <1>1, <1>2, <1>3 DEF DInv

\* Until a commit is disturbed the rows are in the order of their numbers, and no two
\* share one: what getNextHistorySequence computes the next number from.
THEOREM NumbersIncrease == Spec => []IncreaseUndisturbed
  <1>1. DInv => IncreaseUndisturbed BY DEF DInv, CInv, IncreaseUndisturbed
  <1> QED BY InitDInv, StepDInv, <1>1, PTL DEF Spec

\* When a step reports an abort, the row of the interrupted message holds all its parts.
LEMMA AbortStep ==
    ASSUME CInv, [Next]_vars, turn = "abort", turn' = "abandon"
    PROVE  \E i \in DOMAIN rows : rows[i].id = stream.id /\ rows[i].parts = stream.parts
<1> USE HistoryAssumption
<1>1. PICK c \in Callers : CommitStep(c)
  BY DEF Next, Step, AbortBeside, AbortDeletes, AppendMessage, Placeholder, BeginTurn, StartupFails, StartStream, StartAborted, Produce, WritePartial,
         DeleteBeforeStop, FinalFlush, EndDelete, EndUpdate, CompactDelete, CompactUpdate, Abort, AbandonPartial,
         StreamFails, FailureStands, DiscardPartial, DiscardMessage, TruncateAfterMessage, TruncateHistory, Keep,
         Crash, vars
<1>2. c = "turn" BY <1>1 DEF CommitStep, CommitRead, CommitLook, CommitWrite, CommitDrop, Return
<1>3. Present(rows, stream.id, stream.seq) /\ stream.id \in Messages /\ partial = stream
  BY DEF CInv, InRows, StreamInRows, PartialOfTurn, HasRow, Typed, Named
<1>4. partial # Idle BY <1>3 DEF Idle
<1>5. CommitDrop(c)
  <2>1. ~CommitRead(c) BY <1>4 DEF CommitRead, Commit
  <2>2. ~CommitLook(c) BY DEF CommitLook
  <2>3. ~CommitWrite(c)
    <3> SUFFICES ASSUME CommitWrite(c) PROVE FALSE
      OBVIOUS
    <3>1. UNCHANGED turn BY CommitUpdates
    <3> QED BY <3>1
  <2> QED BY <1>1, <2>1, <2>2, <2>3 DEF CommitStep
<1>6. commits["turn"].pc = "drop" BY <1>2, <1>5 DEF CommitDrop
<1>7. Holds(rows, stream.seq, stream.parts) BY <1>6 DEF CInv, InRows, AbortKnows
<1> QED BY <1>3, <1>7 DEF Present, Holds

\* Until a commit is disturbed nothing an interrupted stream produced is lost: it is in
\* chat.jsonl by the time the abort is reported.
THEOREM AbortCommits == Spec => AbortedOutputCommitted
  <1>1. DInv /\ [Next]_vars => (~disturbed /\ turn = "abort" /\ turn' = "abandon" =>
            \E i \in DOMAIN rows : rows[i].id = stream.id /\ rows[i].parts = stream.parts)
    BY AbortStep DEF DInv
  <1> QED BY InitDInv, StepDInv, <1>1, PTL DEF Spec, AbortedOutputCommitted

\* A step that leaves the number of rows leaves every message in its row.
LEMMA SameLength ==
    ASSUME CInv, [Next]_vars, Len(rows) = Len(rows')
    PROVE  \A i \in DOMAIN rows : rows[i].id = rows'[i].id
<1>1. rows \in Seq(RowType) /\ counter \in Nat \cup {Unset} /\ unused \subseteq Messages
  BY DEF CInv, Typed, TypeOK, RowType
<1>2. Len(rows) \in Nat BY <1>1, RowsFacts
<1>3. Extended \/ SameMessages \/ Thinned BY RowsStep
<1>4. ~Extended
  <2> SUFFICES ASSUME NEW m \in unused, NEW p \in 0 .. MaxParts, AppendNew(m, p) PROVE FALSE
    BY DEF Extended
  <2>1. m \in Messages BY <1>1
  <2>2. Len(rows') = Len(rows) + 1 BY <1>1, <2>1, AppendFacts
  <2> QED BY <1>2, <2>2
<1>5. ~Thinned BY <1>2 DEF Thinned
<1> QED BY <1>3, <1>4, <1>5 DEF SameMessages

\* Until a commit is disturbed an update never writes a message over another one: the
\* number under which a partial or a finished stream is written is that of its own row.
THEOREM UpdatesOwnRow == Spec => RowKeepsItsMessage
  <1>1. DInv /\ [Next]_vars =>
            (~disturbed /\ Len(rows) = Len(rows') => \A i \in DOMAIN rows : rows[i].id = rows'[i].id)
    BY SameLength DEF DInv
  <1> QED BY InitDInv, StepDInv, <1>1, PTL DEF Spec, RowKeepsItsMessage

\* The messages in chat.jsonl after a step were there before, but for one not used yet.
LEMMA NothingReturns ==
    ASSUME CInv, [Next]_vars
    PROVE  \A m \in Messages \ (unused \cup History) : m \notin History'
<1>1. rows \in Seq(RowType) /\ counter \in Nat \cup {Unset} /\ unused \subseteq Messages
  BY DEF CInv, Typed, TypeOK, RowType
<1>2. Len(rows) \in Nat /\ DOMAIN rows = 1 .. Len(rows) BY <1>1, RowsFacts
<1>3. Extended \/ SameMessages \/ Thinned BY RowsStep
<1>4. \A i \in DOMAIN rows' : rows'[i].id \in unused \/ \E j \in DOMAIN rows : rows'[i].id = rows[j].id
  <2>1. CASE Extended
    <3>1. PICK n \in unused, p \in 0 .. MaxParts : AppendNew(n, p) BY <2>1 DEF Extended
    <3>2. n \in Messages BY <1>1
    <3>3. /\ rows' \in Seq(RowType) /\ Len(rows') = Len(rows) + 1
          /\ rows'[Len(rows) + 1] = Row(n, NextSequence, p)
          /\ \A i \in DOMAIN rows : rows'[i] = rows[i]
      BY <1>1, <3>1, <3>2, AppendFacts
    <3>4. DOMAIN rows' = 1 .. Len(rows) + 1 BY <3>3, LenProperties
    <3>5. rows'[Len(rows) + 1].id = n BY <3>3 DEF Row
    <3>6. \A i \in DOMAIN rows' : i \in DOMAIN rows \/ i = Len(rows) + 1 BY <1>2, <3>4
    <3> QED BY <3>3, <3>5, <3>6
  <2>2. CASE SameMessages BY <2>2 DEF SameMessages
  <2>3. CASE Thinned BY <2>3 DEF Thinned
  <2> QED BY <1>3, <2>1, <2>2, <2>3
<1> QED BY <1>4 DEF History

\* A message that has left chat.jsonl does not come back until a commit is disturbed or a
\* partial loses its row.
THEOREM RemovedForGood == Spec => RemovedUndisturbed
  <1>1. DInv /\ [Next]_vars =>
            (~disturbed => \A m \in Messages \ (unused \cup History) : m \notin History')
    BY NothingReturns DEF DInv
  <1> QED BY InitDInv, StepDInv, <1>1, PTL DEF Spec, RemovedUndisturbed
=============================================================================
