---------------------------- MODULE ResourceProofs ----------------------------
(***************************************************************************)
(* Proofs about the services that hold something for others: the output    *)
(* of a background process, of which every byte is returned once, and the  *)
(* MCP servers of a workspace, of which none is lost or closed in use.     *)
(***************************************************************************)
EXTENDS BackgroundProcess, McpServers, SequenceTheorems, FiniteSetTheorems, WellFoundedInduction, TLAPS

-----------------------------------------------------------------------------
(* BackgroundProcess *)

\* The stages in which a call holds the lock.
Holding == {"read", "relook", "judge", "last", "drain", "again", "return"}
CallType == [at : {"none", "look", "lock"} \cup Holding, saw : {"running", "exited", "killed"},
             picky : BOOLEAN, before : Seq(Nat), raw : Seq(Nat), fresh : BOOLEAN]

\* The values the state of the process can have.
ProcTypeOK ==
    /\ logSize \in 0 .. MaxBytes /\ exitedAt \in Nat
    /\ procStatus \in {"running", "exited", "killed"} /\ termination \in {"idle", "kill", "killed"}
    /\ bytesRead \in Nat /\ fragment \in Seq(Nat)
    /\ outputLock \subseteq Readers /\ reader \in [Readers -> CallType]
    /\ taken \in Seq(Nat) /\ dropped \in BOOLEAN /\ endTold \in BOOLEAN

\* One call at a time holds the lock, and it has the fragment as its previousBuffer.
OneHolder ==
    /\ \A r \in Readers : r \in outputLock <=> reader[r].at \in Holding
    /\ \A r, s \in outputLock : r = s
    /\ \A r \in outputLock : reader[r].before = fragment
    /\ \A r \in Readers \ outputLock : reader[r].raw = <<>>

\* Who knows that the process is not running knows it from the exit code, and returns after the
\* last read.
EndKnown ==
    /\ exitedAt = Running \/ exitedAt <= logSize
    /\ procStatus # "running" \/ termination = "killed" \/ endTold => exitedAt # Running
    /\ \A r \in Readers : reader[r].saw # "running" =>
           exitedAt # Running /\ (reader[r].at = "return" => exitedAt <= bytesRead)

\* The inductive invariant of the process.
ProcIInv == ProcTypeOK /\ OneHolder /\ EndKnown /\ OutputOnce

\* A set of natural numbers that is not empty and bounded has a greatest element.
LEMMA GreatestExists ==
    ASSUME NEW n \in Nat, NEW S \in SUBSET (0 .. n), S # {}
    PROVE  \E i \in S : \A j \in S : j <= i
<1> DEFINE T == {n - i : i \in S}
<1>0. \A i \in S : n - i \in Nat OBVIOUS
<1>1. T \in SUBSET Nat /\ T # {} BY <1>0
<1>2. PICK m \in T : \A k \in T : <<k, m>> \notin OpToRel(<, Nat)
  BY <1>1, WFMin, NatLessThanWellFounded, Zenon
<1>3. \A k \in T : ~(k < m) BY <1>1, <1>2 DEF OpToRel
<1>4. PICK i \in S : m = n - i OBVIOUS
<1>5. ASSUME NEW j \in S PROVE j <= i
  <2>1. ~(n - j < n - i) BY <1>3, <1>4
  <2> QED BY <2>1
<1> QED BY <1>5

\* The bytes of the log from one position to another, and to a later one.
LEMMA BytesJoin ==
    ASSUME NEW b \in Nat, NEW l \in Nat, b <= l
    PROVE  /\ Bytes(0, b) \in Seq(Nat) /\ Bytes(b, l) \in Seq(Nat) /\ Len(Bytes(0, b)) = b
           /\ Bytes(0, b) \o Bytes(b, l) = Bytes(0, l)
<1>1. Bytes(0, b) \in Seq(Nat) /\ Len(Bytes(0, b)) = b /\ \A i \in 1 .. b : Bytes(0, b)[i] = i
  BY DEF Bytes
<1>2. Bytes(0, l) \in Seq(Nat) /\ Len(Bytes(0, l)) = l /\ \A i \in 1 .. l : Bytes(0, l)[i] = i
  BY DEF Bytes
<1>3. l - b \in Nat OBVIOUS
<1>4. Bytes(b, l) \in Seq(Nat) /\ Len(Bytes(b, l)) = l - b /\ \A i \in 1 .. l - b : Bytes(b, l)[i] = b + i
  BY <1>3 DEF Bytes
<1> HIDE DEF Bytes
<1>5. /\ Bytes(0, b) \o Bytes(b, l) \in Seq(Nat) /\ Len(Bytes(0, b) \o Bytes(b, l)) = l
      /\ \A i \in 1 .. l : (Bytes(0, b) \o Bytes(b, l))[i] = i
  BY <1>1, <1>4, ConcatProperties
<1>6. \A i \in 1 .. l : (Bytes(0, b) \o Bytes(b, l))[i] = Bytes(0, l)[i] BY <1>2, <1>5
<1>7. Bytes(0, b) \o Bytes(b, l) = Bytes(0, l) BY <1>2, <1>5, <1>6, SeqEqual
<1> QED BY <1>1, <1>4, <1>7

\* Two parts of a sequence are the whole.
LEMMA PartsJoin ==
    ASSUME NEW s \in Seq(Nat), NEW c \in 0 .. Len(s)
    PROVE  /\ SubSeq(s, 1, c) \in Seq(Nat) /\ SubSeq(s, c + 1, Len(s)) \in Seq(Nat)
           /\ SubSeq(s, 1, c) \o SubSeq(s, c + 1, Len(s)) = s
<1>1. Len(s) \in Nat /\ s \in [1 .. Len(s) -> Nat] BY LenProperties
<1>2. SubSeq(s, 1, c) \in Seq(Nat) /\ SubSeq(s, c + 1, Len(s)) \in Seq(Nat)
  BY <1>1, SubSeqProperties
<1>3. 1 \in 1 .. Len(s) + 1 /\ c \in 1 - 1 .. Len(s) /\ Len(s) \in c .. Len(s) BY <1>1
<1>4. SubSeq(s, 1, c) \o SubSeq(s, c + 1, Len(s)) = SubSeq(s, 1, Len(s))
  BY <1>3, ConcatAdjacentSubSeq
<1> QED BY <1>2, <1>4, SubSeqFull

\* What is held back is the fragment, or the buffer of the call that holds the lock.
LEMMA HeldByOne ==
    ASSUME ProcTypeOK, OneHolder
    PROVE  /\ outputLock = {} => Held = fragment
           /\ \A r \in outputLock : Held = Buffer(r) /\ outputLock = {r}
           /\ Held \in Seq(Nat)
<1>1. outputLock = {} => Held = fragment BY DEF Held
<1>2. ASSUME NEW r \in outputLock PROVE Held = Buffer(r) /\ outputLock = {r}
  <2>1. outputLock = {r} BY <1>2 DEF OneHolder
  <2>2. (CHOOSE x \in Readers : x \in outputLock) = r BY <2>1 DEF ProcTypeOK
  <2> QED BY <2>1, <2>2 DEF Held
<1>3. \A r \in Readers : Buffer(r) \in Seq(Nat)
  BY ConcatProperties DEF Buffer, ProcTypeOK, CallType
<1> QED BY <1>1, <1>2, <1>3 DEF ProcTypeOK

\* ... after a step as well.
LEMMA HeldByOnePrime ==
    ASSUME ProcTypeOK', OneHolder'
    PROVE  /\ outputLock' = {} => Held' = fragment'
           /\ \A r \in outputLock' : Held' = Buffer(r)' /\ outputLock' = {r}
<1>1. outputLock' = {} => Held' = fragment' BY DEF Held
<1>2. ASSUME NEW r \in outputLock' PROVE Held' = Buffer(r)' /\ outputLock' = {r}
  <2>1. outputLock' = {r} BY <1>2 DEF OneHolder
  <2>2. (CHOOSE x \in Readers : x \in outputLock') = r BY <2>1 DEF ProcTypeOK
  <2> QED BY <2>1, <2>2 DEF Held, Buffer
<1> QED BY <1>1, <1>2

\* No character of a sequence stands for a byte that could not be decoded.
Exact(s) == \A i \in DOMAIN s : s[i] # Replacement

\* A step that moves no byte keeps the accounts.
LEMMA QuietOutput ==
    ASSUME OutputOnce, UNCHANGED <<taken, bytesRead, dropped, endTold>>, Held' = Held,
           exitedAt' = exitedAt \/ ~endTold
    PROVE  OutputOnce'
  BY DEF OutputOnce

\* The longest part of a buffer that ends a line.
LEMMA CutExists ==
    ASSUME NEW all \in Seq(Nat)
    PROVE  LET ends == {0} \cup {i \in DOMAIN all : all[i] \in newlines}
           IN  (CHOOSE i \in ends : \A j \in ends : j <= i) \in 0 .. Len(all)
<1> DEFINE ends == {0} \cup {i \in DOMAIN all : all[i] \in newlines}
<1>1. Len(all) \in Nat /\ ends \subseteq 0 .. Len(all) /\ ends # {} BY LenProperties
<1> HIDE DEF ends
<1>2. \E i \in ends : \A j \in ends : j <= i BY <1>1, GreatestExists
<1>3. (CHOOSE i \in ends : \A j \in ends : j <= i) \in ends BY <1>2
<1> QED BY <1>1, <1>3 DEF ends

\* Initially nothing is written, read or held.
LEMMA ProcInitIInv == ProcInit => ProcIInv
<1> SUFFICES ASSUME ProcInit PROVE ProcIInv
  OBVIOUS
<1>0. /\ logSize = 0 /\ exitedAt = Running /\ Running \in Nat /\ bytesRead = 0 /\ 0 \in 0 .. MaxBytes
      /\ 0 \in 0 .. 0 /\ \A r \in Readers : reader[r] = NoCall
  BY MaxBytesAssumption DEF ProcInit, Running
<1>1. ProcTypeOK
  <2>1. NoCall \in CallType BY EmptySeq DEF NoCall, CallType
  <2>2. reader \in [Readers -> CallType] BY <2>1 DEF ProcInit
  <2>3. <<>> \in Seq(Nat) BY EmptySeq
  <2>4. exitedAt \in Nat /\ logSize \in 0 .. MaxBytes /\ bytesRead \in Nat BY <1>0
  <2> QED BY <2>2, <2>3, <2>4 DEF ProcInit, ProcTypeOK
<1>2. OneHolder BY <1>0 DEF ProcInit, OneHolder, NoCall, Holding
<1>3. EndKnown BY <1>0 DEF ProcInit, EndKnown, NoCall
<1>4. OutputOnce
  <2>1. Held = <<>> BY <1>1, <1>2, HeldByOne DEF ProcInit
  <2>2. Bytes(0, 0) = <<>> BY DEF Bytes
  <2> QED BY <1>0, <2>1, <2>2 DEF ProcInit, OutputOnce
<1> QED BY <1>1, <1>2, <1>3, <1>4 DEF ProcIInv

\* A call goes on to another stage.
LEMMA CallMoves ==
    ASSUME ProcTypeOK, NEW r \in Readers, NEW s \in {"none", "look", "lock"} \cup Holding,
           NEW saw \in {"running", "exited", "killed"}, NEW before \in Seq(Nat)
    PROVE  /\ [reader EXCEPT ![r].at = s] \in [Readers -> CallType]
           /\ [reader EXCEPT ![r].at = s, ![r].saw = saw] \in [Readers -> CallType]
           /\ [reader EXCEPT ![r].at = s, ![r].saw = saw, ![r].before = before] \in [Readers -> CallType]
<1>1. \A c \in CallType : [c EXCEPT !.at = s] \in CallType BY DEF CallType
<1>2. \A c \in CallType : [c EXCEPT !.saw = saw] \in CallType BY DEF CallType
<1>3. \A c \in CallType : [c EXCEPT !.before = before] \in CallType BY DEF CallType
<1>4. reader \in [Readers -> CallType] BY DEF ProcTypeOK
<1>5. [reader EXCEPT ![r].at = s] = [reader EXCEPT ![r] = [reader[r] EXCEPT !.at = s]]
  BY <1>4
<1>6. [reader EXCEPT ![r].at = s, ![r].saw = saw]
        = [reader EXCEPT ![r] = [[reader[r] EXCEPT !.at = s] EXCEPT !.saw = saw]]
  BY <1>4
<1>7. [reader EXCEPT ![r].at = s, ![r].saw = saw, ![r].before = before]
        = [reader EXCEPT ![r] = [[[reader[r] EXCEPT !.at = s] EXCEPT !.saw = saw] EXCEPT !.before = before]]
  BY <1>4
<1> QED BY <1>1, <1>2, <1>3, <1>4, <1>5, <1>6, <1>7

\* What the process and terminate() do keeps the invariant.
LEMMA ProcessStep ==
    ASSUME ProcIInv, ProcWrites \/ ProcExits \/ TerminateBegins \/ HandleTerminates \/ TerminateEnds
    PROVE  ProcIInv'
<1>0. /\ ProcTypeOK /\ OneHolder /\ EndKnown /\ OutputOnce
      /\ MaxBytes \in Nat /\ Running \in Nat
  BY MaxBytesAssumption DEF ProcIInv, Running
<1>1. UNCHANGED <<bytesRead, fragment, outputLock, reader, taken, dropped, endTold>>
  BY DEF ProcWrites, ProcExits, TerminateBegins, HandleTerminates, TerminateEnds
<1>2. OneHolder' BY <1>0, <1>1 DEF OneHolder
<1>3. /\ logSize' \in 0 .. MaxBytes /\ logSize <= logSize' /\ exitedAt' \in Nat
      /\ exitedAt' = exitedAt \/ (exitedAt = Running /\ exitedAt' = logSize /\ logSize' = logSize)
  BY <1>0 DEF ProcTypeOK, ProcWrites, ProcExits, TerminateBegins, HandleTerminates, TerminateEnds, Exits, logVars
<1>4. ProcTypeOK'
    BY <1>0, <1>1, <1>3
       DEF ProcTypeOK, ProcWrites, ProcExits, TerminateBegins, HandleTerminates, TerminateEnds
<1>5. EndKnown'
  <2>1. logSize # Running BY <1>0 DEF ProcTypeOK, Running
  <2>2. exitedAt # Running => exitedAt' = exitedAt /\ exitedAt' # Running BY <1>3
  <2>3. exitedAt' = Running \/ exitedAt' <= logSize'
    BY <1>0, <1>3 DEF EndKnown, ProcTypeOK
  <2>4. \A r \in Readers : reader'[r].saw # "running" =>
            exitedAt' # Running /\ (reader'[r].at = "return" => exitedAt' <= bytesRead')
    BY <1>0, <1>1, <2>2 DEF EndKnown
  <2>5. procStatus' # "running" \/ termination' = "killed" \/ endTold' => exitedAt' # Running
    BY <1>0, <1>1, <1>3, <2>1, <2>2
       DEF EndKnown, ProcWrites, ProcExits, TerminateBegins, HandleTerminates, TerminateEnds, Exits
  <2> QED BY <2>3, <2>4, <2>5 DEF EndKnown
<1>6. OutputOnce'
  <2>1. Held' = Held BY <1>1 DEF Held, Buffer
  <2>2. exitedAt' = exitedAt \/ ~endTold BY <1>0, <1>3 DEF EndKnown
  <2> QED BY <1>0, <1>1, <2>1, <2>2, QuietOutput
<1> QED BY <1>2, <1>4, <1>5, <1>6 DEF ProcIInv

\* A call begins, and waits for the lock.
LEMMA CallBegins ==
    ASSUME ProcIInv, NEW r \in Readers, GetOutput(r) \/ Looked(r)
    PROVE  ProcIInv'
<1>0. ProcTypeOK /\ OneHolder /\ EndKnown /\ OutputOnce BY DEF ProcIInv
<1>1. /\ UNCHANGED <<logSize, exitedAt, termination, bytesRead, fragment, outputLock, taken, dropped, endTold>>
      /\ r \notin outputLock
  BY <1>0 DEF GetOutput, Looked, Rest, logVars, OneHolder, Holding
<1>2. /\ reader' \in [Readers -> CallType] /\ \A q \in Readers \ {r} : reader'[q] = reader[q]
      /\ reader'[r].at \in {"look", "lock"} /\ reader'[r].raw = <<>>
      /\ reader'[r].saw \in {"running", reader[r].saw}
  <2>1. CASE GetOutput(r)
    <3>1. PICK picky \in BOOLEAN, s \in {"look", "lock"} :
             reader' = [reader EXCEPT ![r] = [NoCall EXCEPT !.at = s, !.picky = picky]]
      BY <2>1 DEF GetOutput
    <3>2. [NoCall EXCEPT !.at = s, !.picky = picky] \in CallType
      <4>1. <<>> \in Seq(Nat) BY EmptySeq
      <4>2. NoCall \in CallType BY <4>1 DEF NoCall, CallType
      <4>3. \A c \in CallType : [c EXCEPT !.at = s] \in CallType BY DEF CallType
      <4>4. \A c \in CallType : [c EXCEPT !.picky = picky] \in CallType BY DEF CallType
      <4> QED BY <4>2, <4>3, <4>4
    <3> QED BY <1>0, <3>1, <3>2 DEF ProcTypeOK, NoCall
  <2>2. CASE Looked(r)
    <3>1. reader' = [reader EXCEPT ![r].at = "lock"] BY <2>2 DEF Looked, Moves
    <3>2. reader' \in [Readers -> CallType] BY <1>0, <3>1, CallMoves, EmptySeq
    <3>3. reader[r].raw = <<>> BY <1>0, <1>1 DEF OneHolder
    <3> QED BY <1>0, <3>1, <3>2, <3>3 DEF ProcTypeOK, CallType
  <2> QED BY <2>1, <2>2
<1>3. procStatus' = procStatus \/ (procStatus' = "exited" /\ exitedAt # Running)
      \/ procStatus' = "running"
  BY DEF GetOutput, Looked, Refresh
<1>4. ProcTypeOK' BY <1>0, <1>1, <1>2, <1>3 DEF ProcTypeOK
<1>5. OneHolder' BY <1>0, <1>1, <1>2 DEF OneHolder, Holding, ProcTypeOK
<1>6. EndKnown' BY <1>0, <1>1, <1>2, <1>3 DEF EndKnown
<1>7. OutputOnce'
  <2>1. Held' = Held
    <3>1. CASE outputLock = {} BY <1>1, <3>1 DEF Held
    <3>2. CASE outputLock # {}
      <4>1. PICK q \in outputLock : q \in Readers /\ q # r BY <1>0, <1>1, <3>2 DEF ProcTypeOK
      <4>2. Held = Buffer(q) /\ Held' = Buffer(q)' BY <1>0, <1>1, <1>4, <1>5, <4>1, HeldByOne, HeldByOnePrime
      <4> QED BY <1>2, <4>1, <4>2 DEF Buffer
    <3> QED BY <3>1, <3>2
  <2> QED BY <1>0, <1>1, <2>1, QuietOutput
<1> QED BY <1>4, <1>5, <1>6, <1>7 DEF ProcIInv

\* A step of a call that has the lock, in which it moves no byte.
LEMMA HolderStays ==
    ASSUME ProcIInv, NEW r \in Readers, r \in outputLock, NEW s \in Holding,
           NEW saw \in {"running", "exited", "killed"},
           reader' = [reader EXCEPT ![r].at = s, ![r].saw = saw],
           saw # "running" => exitedAt # Running /\ (s = "return" => exitedAt <= bytesRead),
           procStatus' \in {procStatus, "running"} \/ (procStatus' = "exited" /\ exitedAt # Running),
           UNCHANGED <<logVars, termination, bytesRead, fragment, outputLock, taken, dropped, endTold>>
    PROVE  ProcIInv'
<1>0. ProcTypeOK /\ OneHolder /\ EndKnown /\ OutputOnce BY DEF ProcIInv
<1>1. reader' \in [Readers -> CallType] BY <1>0, CallMoves, EmptySeq
<1>2. /\ \A q \in Readers \ {r} : reader'[q] = reader[q]
      /\ reader'[r].at = s /\ reader'[r].saw = saw /\ reader'[r].before = reader[r].before
      /\ reader'[r].raw = reader[r].raw
  BY <1>0 DEF ProcTypeOK, CallType
<1>3. UNCHANGED <<logSize, exitedAt>> BY DEF logVars
<1>4. ProcTypeOK' BY <1>0, <1>1, <1>3 DEF ProcTypeOK
<1>5. OneHolder' BY <1>0, <1>2 DEF OneHolder, ProcTypeOK
<1>6. EndKnown' BY <1>0, <1>2, <1>3 DEF EndKnown
<1>7. Held = Buffer(r) /\ Held' = Buffer(r)' BY <1>0, <1>4, <1>5, HeldByOne, HeldByOnePrime
<1>8. Held' = Held BY <1>2, <1>7 DEF Buffer
<1>9. OutputOnce' BY <1>0, <1>3, <1>8, QuietOutput
<1> QED BY <1>4, <1>5, <1>6, <1>9 DEF ProcIInv

\* The lock is taken.
LEMMA LockStep ==
    ASSUME ProcIInv, NEW r \in Readers, LockAcquired(r)
    PROVE  ProcIInv'
<1>0. ProcTypeOK /\ OneHolder /\ EndKnown /\ OutputOnce BY DEF ProcIInv
<1>1. /\ reader[r].at = "lock" /\ outputLock = {} /\ outputLock' = {r}
      /\ reader' = [reader EXCEPT ![r].at = "read", ![r].saw = procStatus, ![r].before = fragment]
      /\ UNCHANGED <<logSize, exitedAt, termination, procStatus, bytesRead, fragment, taken, dropped, endTold>>
  BY DEF LockAcquired, Rest, logVars
<1>2. procStatus \in {"running", "exited", "killed"} /\ fragment \in Seq(Nat) /\ "read" \in Holding
  BY <1>0 DEF ProcTypeOK, Holding
<1>3. reader' \in [Readers -> CallType] BY <1>0, <1>1, <1>2, CallMoves
<1>4. /\ \A q \in Readers \ {r} : reader'[q] = reader[q]
      /\ reader'[r].at = "read" /\ reader'[r].saw = procStatus /\ reader'[r].before = fragment
      /\ reader'[r].raw = <<>>
  BY <1>0, <1>1 DEF ProcTypeOK, CallType, OneHolder
<1>5. ProcTypeOK' BY <1>0, <1>1, <1>3 DEF ProcTypeOK
<1>6. OneHolder' BY <1>0, <1>1, <1>2, <1>4 DEF OneHolder
<1>7. EndKnown' BY <1>0, <1>1, <1>4 DEF EndKnown
<1>8. Held = fragment /\ Held' = Buffer(r)' BY <1>0, <1>1, <1>5, <1>6, HeldByOne, HeldByOnePrime
<1>9. Held' = Held
  <2>1. Buffer(r)' = fragment \o <<>> BY <1>4 DEF Buffer
  <2> QED BY <1>2, <1>8, <2>1, ConcatEmptySeq
<1>10. OutputOnce' BY <1>0, <1>1, <1>9, QuietOutput
<1> QED BY <1>5, <1>6, <1>7, <1>10 DEF ProcIInv

\* Bytes are joined in any grouping.
LEMMA BytesAssociate == \A s, t, u \in Seq(Nat) : (s \o t) \o u = s \o (t \o u)
  BY ConcatAssociative

\* What is decoded has one character for each byte, or one that tells of a byte that has none; how far
\* the offset moves does not depend on more than the number of those.
LEMMA ReadsDecoded ==
    ASSUME NEW b \in Nat, NEW l \in Nat
    PROVE  /\ Decoded(b, l) \in Seq(Nat) /\ Cardinality(Broken(b, l)) \in Nat
           /\ Exact(Decoded(b, l)) => Broken(b, l) = {} /\ Decoded(b, l) = Bytes(b, l)
           /\ ~(b < l) => Broken(b, l) = {} /\ Decoded(b, l) = <<>>
<1>1. Broken(b, l) \subseteq b + 1 .. l BY DEF Broken
<1>2. IsFiniteSet(Broken(b, l))
  <2>1. b + 1 \in Int /\ l \in Int OBVIOUS
  <2>2. IsFiniteSet(b + 1 .. l) BY <2>1, FS_Interval
  <2> QED BY <1>1, <2>2, FS_Subset
<1>3. Cardinality(Broken(b, l)) \in Nat BY <1>2, FS_CardinalityType
<1> DEFINE B == Broken(b, l)
<1>4. Decoded(b, l) = [i \in 1 .. l - b |-> IF b + i \in B THEN 0 ELSE b + i]
  BY DEF Decoded, Replacement
<1>5. B \subseteq b + 1 .. l BY <1>1
<1> HIDE DEF B
<1>6. ~(b < l) => Decoded(b, l) = <<>> /\ B = {} BY <1>4, <1>5
<1>7. b < l => Decoded(b, l) \in Seq(Nat)
  <2> SUFFICES ASSUME b < l PROVE Decoded(b, l) \in Seq(Nat)
    OBVIOUS
  <2>1. l - b \in Nat OBVIOUS
  <2>2. \A i \in 1 .. l - b : (IF b + i \in B THEN 0 ELSE b + i) \in Nat OBVIOUS
  <2>3. Decoded(b, l) \in [1 .. l - b -> Nat] BY <1>4, <2>2
  <2> QED BY <2>1, <2>3, SeqDef
<1>8. Exact(Decoded(b, l)) => B = {}
  <2> SUFFICES ASSUME NEW p \in B PROVE ~Exact(Decoded(b, l))
    OBVIOUS
  <2>1. p - b \in 1 .. l - b /\ b + (p - b) = p BY <1>5
  <2>2. Decoded(b, l)[p - b] = 0 /\ p - b \in DOMAIN Decoded(b, l) BY <1>4, <2>1
  <2> QED BY <2>2 DEF Exact, Replacement
<1>9. B = {} => Decoded(b, l) = Bytes(b, l) BY <1>4 DEF Bytes
<1>10. <<>> \in Seq(Nat) BY EmptySeq
<1> QED BY <1>3, <1>6, <1>7, <1>8, <1>9, <1>10 DEF B

\* Parts of an exact sequence are exact.
LEMMA ExactParts ==
    ASSUME NEW s \in Seq(Nat), NEW t \in Seq(Nat), Exact(s \o t)
    PROVE  Exact(s) /\ Exact(t)
<1>1. /\ Len(s) \in Nat /\ Len(t) \in Nat /\ DOMAIN s = 1 .. Len(s) /\ DOMAIN t = 1 .. Len(t)
      /\ s \o t \in Seq(Nat) /\ Len(s \o t) = Len(s) + Len(t) /\ DOMAIN (s \o t) = 1 .. Len(s) + Len(t)
      /\ \A i \in 1 .. Len(s) + Len(t) : (s \o t)[i] = IF i <= Len(s) THEN s[i] ELSE t[i - Len(s)]
  BY ConcatProperties, LenProperties
<1>2. ASSUME NEW i \in 1 .. Len(s) PROVE s[i] # Replacement
  <2>1. i \in 1 .. Len(s) + Len(t) /\ i <= Len(s) BY <1>1
  <2> QED BY <1>1, <2>1 DEF Exact
<1>3. ASSUME NEW i \in 1 .. Len(t) PROVE t[i] # Replacement
  <2>1. i + Len(s) \in 1 .. Len(s) + Len(t) /\ ~(i + Len(s) <= Len(s)) /\ i + Len(s) - Len(s) = i BY <1>1
  <2>2. (s \o t)[i + Len(s)] = t[i] BY <1>1, <2>1
  <2> QED BY <1>1, <2>1, <2>2 DEF Exact
<1> QED BY <1>1, <1>2, <1>3 DEF Exact

\* A call reads what is new: it moves from the log into the call's buffer.
LEMMA ReadStep ==
    ASSUME ProcIInv, NEW r \in Readers, r \in outputLock, NEW s \in Holding, s # "return",
           NEW fresh \in BOOLEAN,
           Reads(r, [reader[r] EXCEPT !.at = s, !.fresh = fresh]),
           UNCHANGED <<logVars, termination, procStatus, fragment, outputLock, taken, dropped, endTold>>
    PROVE  ProcIInv'
<1>0. ProcTypeOK /\ OneHolder /\ EndKnown /\ OutputOnce BY DEF ProcIInv
<1> DEFINE fetched == Decoded(bytesRead, logSize)
<1> DEFINE new == reader[r].raw \o fetched
<1>1. bytesRead \in Nat /\ logSize \in Nat /\ UNCHANGED <<logSize, exitedAt>>
  BY <1>0, MaxBytesAssumption DEF ProcTypeOK, logVars
<1>2. /\ fetched \in Seq(Nat)
      /\ ~(bytesRead < logSize) => fetched = <<>>
      /\ Exact(fetched) => fetched = Bytes(bytesRead, logSize)
  BY <1>1, ReadsDecoded
<1>15. /\ bytesRead' \in Nat
       /\ exitedAt # Running => exitedAt <= bytesRead'
       /\ bytesRead < logSize /\ Exact(fetched) => bytesRead' = logSize
       /\ ~(bytesRead < logSize) => bytesRead' = bytesRead
  <2> DEFINE n == Cardinality(Broken(bytesRead, logSize))
  <2>1. bytesRead' = IF bytesRead < logSize THEN logSize + 2 * n ELSE bytesRead BY DEF Reads
  <2>2. n \in Nat /\ (Exact(fetched) => n = 0) BY <1>1, ReadsDecoded, FS_EmptySet
  <2>3. exitedAt \in Nat /\ (exitedAt # Running => exitedAt <= logSize) BY <1>0 DEF EndKnown, ProcTypeOK
  <2> HIDE DEF n, fetched
  <2> QED BY <1>1, <2>1, <2>2, <2>3
<1>3. reader[r] \in CallType /\ reader[r].raw \in Seq(Nat) /\ reader[r].before \in Seq(Nat)
  BY <1>0 DEF ProcTypeOK, CallType
<1>4. new \in Seq(Nat) BY <1>2, <1>3, ConcatProperties
<1>5. reader' = [reader EXCEPT ![r] = [[[reader[r] EXCEPT !.at = s] EXCEPT !.fresh = fresh] EXCEPT !.raw = new]]
  BY <1>0 DEF Reads, ProcTypeOK
<1> HIDE DEF new, fetched
<1>6. reader' \in [Readers -> CallType]
  <2>1. \A c \in CallType : [c EXCEPT !.at = s] \in CallType BY DEF CallType
  <2>2. \A c \in CallType : [c EXCEPT !.fresh = fresh] \in CallType BY DEF CallType
  <2>3. \A c \in CallType : [c EXCEPT !.raw = new] \in CallType BY <1>4 DEF CallType
  <2> QED BY <1>0, <1>3, <1>5, <2>1, <2>2, <2>3 DEF ProcTypeOK
<1>7. /\ \A q \in Readers \ {r} : reader'[q] = reader[q]
      /\ reader'[r].at = s /\ reader'[r].saw = reader[r].saw /\ reader'[r].before = reader[r].before
      /\ reader'[r].raw = new
  BY <1>0, <1>3, <1>5 DEF ProcTypeOK, CallType
<1>8. ProcTypeOK' BY <1>0, <1>1, <1>15, <1>6 DEF ProcTypeOK
<1>9. OneHolder' BY <1>0, <1>7 DEF OneHolder, ProcTypeOK
<1>10. EndKnown'
  <2>1. \A q \in Readers \ {r} : q \notin outputLock BY <1>0 DEF OneHolder
  <2>2. \A q \in Readers \ {r} : reader[q].at # "return" BY <1>0, <2>1 DEF OneHolder, Holding
  <2> QED BY <1>0, <1>1, <1>7, <1>15, <2>2 DEF EndKnown
<1>11. Held = Buffer(r) /\ Held' = Buffer(r)' BY <1>0, <1>8, <1>9, HeldByOne, HeldByOnePrime
<1>12. Held' = Held \o fetched
  <2>1. Held' = reader[r].before \o (reader[r].raw \o fetched)
    BY <1>7, <1>11 DEF Buffer, new
  <2> QED BY <1>2, <1>3, <1>11, <2>1, BytesAssociate DEF Buffer
<1>13. taken \o Held' = (taken \o Held) \o fetched /\ taken \o Held \in Seq(Nat)
  <2>1. taken \in Seq(Nat) /\ Held \in Seq(Nat) BY <1>0, HeldByOne DEF ProcTypeOK
  <2>2. taken \o Held \in Seq(Nat) BY <2>1, ConcatProperties
  <2> QED BY <1>2, <1>12, <2>1, <2>2, BytesAssociate
<1>14. OutputOnce'
  <2> DEFINE told == taken \o Held
  <2>1. told' = told \o fetched /\ told \in Seq(Nat) BY <1>13
  <2> HIDE DEF told
  <2>2. ASSUME ~dropped, Exact(told')
        PROVE  told' = Bytes(0, bytesRead') /\ (endTold => exitedAt <= Len(taken))
    <3>1. Exact(told) /\ Exact(fetched) BY <1>2, <2>1, <2>2, ExactParts
    <3>2. told = Bytes(0, bytesRead) /\ (endTold => exitedAt <= Len(taken))
      BY <1>0, <2>2, <3>1 DEF OutputOnce, Exact, told
    <3>3. CASE bytesRead < logSize
      <4>1. bytesRead' = logSize /\ fetched = Bytes(bytesRead, logSize) BY <1>2, <1>15, <3>1, <3>3
      <4>2. bytesRead <= logSize BY <1>1, <3>3
      <4>3. Bytes(0, bytesRead) \o Bytes(bytesRead, logSize) = Bytes(0, logSize)
        BY <1>1, <4>2, BytesJoin
      <4> QED BY <2>1, <3>2, <4>1, <4>3
    <3>4. CASE ~(bytesRead < logSize)
      <4>1. bytesRead' = bytesRead /\ fetched = <<>> BY <1>2, <1>15, <3>4
      <4> QED BY <2>1, <3>2, <4>1, ConcatEmptySeq
    <3> QED BY <3>3, <3>4
  <2>3. told' = taken' \o Held' BY DEF told
  <2> QED BY <1>1, <2>2, <2>3 DEF OutputOnce, Exact
<1> QED BY <1>8, <1>9, <1>10, <1>14 DEF ProcIInv

\* A call that has the lock reads, looks at the process or judges.
LEMMA HolderStep ==
    ASSUME ProcIInv, NEW r \in Readers, PollReads(r) \/ Relooked(r) \/ Judge(r) \/ Drain(r)
    PROVE  ProcIInv'
<1>0. ProcTypeOK /\ OneHolder /\ EndKnown /\ OutputOnce BY DEF ProcIInv
<1>1. /\ r \in outputLock /\ reader[r].saw \in {"running", "exited", "killed"}
      /\ reader[r] \in CallType
      /\ UNCHANGED <<logVars, termination, fragment, outputLock, taken, dropped, endTold>>
  BY <1>0 DEF PollReads, Relooked, Judge, Drain, Rest, OneHolder, Holding, ProcTypeOK, CallType
<1>2. CASE PollReads(r)
  <2>1. PICK s \in {"relook", "judge"} : Reads(r, [reader[r] EXCEPT !.at = s]) BY <1>2 DEF PollReads
  <2>2. [reader[r] EXCEPT !.at = s] = [reader[r] EXCEPT !.at = s, !.fresh = reader[r].fresh]
    BY <1>1 DEF CallType
  <2>3. reader[r].fresh \in BOOLEAN /\ procStatus' = procStatus BY <1>1, <1>2 DEF CallType, PollReads
  <2>4. s \in Holding /\ s # "return" BY DEF Holding
  <2>5. Reads(r, [reader[r] EXCEPT !.at = s, !.fresh = reader[r].fresh]) BY <2>1, <2>2
  <2> QED BY <1>1, <2>3, <2>4, <2>5, ReadStep
<1>3. CASE Relooked(r)
  <2>1. reader' = [reader EXCEPT ![r].at = "judge", ![r].saw = reader[r].saw]
    BY <1>0, <1>3 DEF Relooked, Moves, ProcTypeOK, CallType
  <2>2. procStatus' \in {procStatus, "running"} \/ (procStatus' = "exited" /\ exitedAt # Running)
    BY <1>3 DEF Relooked, Refresh
  <2>3. bytesRead' = bytesRead /\ "judge" \in Holding BY <1>3 DEF Relooked, Holding
  <2> QED BY <1>0, <1>1, <2>1, <2>2, <2>3, HolderStays DEF EndKnown
<1>4. CASE Judge(r)
  <2>1. PICK s \in {"return", "drain", "last", "read"} :
           /\ reader' = [reader EXCEPT ![r].at = s, ![r].saw = procStatus]
           /\ s = "return" => procStatus = "running"
    BY <1>4 DEF Judge
  <2>2. s \in Holding /\ procStatus \in {"running", "exited", "killed"}
    BY <1>0 DEF Holding, ProcTypeOK
  <2>3. procStatus' = procStatus /\ bytesRead' = bytesRead BY <1>4 DEF Judge
  <2> QED BY <1>0, <1>1, <2>1, <2>2, <2>3, HolderStays DEF EndKnown
<1>5. CASE Drain(r)
  <2>1. procStatus' = procStatus BY <1>5 DEF Drain
  <2>2. CASE bytesRead < logSize
    <3> DEFINE fresh == reader[r].at # "last"
    <3>1. Reads(r, [reader[r] EXCEPT !.fresh = fresh]) BY <1>5, <2>2 DEF Drain
    <3>2. fresh \in BOOLEAN OBVIOUS
    <3> HIDE DEF fresh
    <3>3. [reader[r] EXCEPT !.fresh = fresh] = [reader[r] EXCEPT !.at = reader[r].at, !.fresh = fresh]
      BY <1>1 DEF CallType
    <3>4. reader[r].at \in Holding /\ reader[r].at # "return" BY <1>5 DEF Drain, Holding
    <3>5. Reads(r, [reader[r] EXCEPT !.at = reader[r].at, !.fresh = fresh]) BY <3>1, <3>3
    <3> QED BY <1>1, <2>1, <3>2, <3>4, <3>5, ReadStep
  <2>3. CASE ~(bytesRead < logSize)
    <3>1. PICK s \in {"drain", "again", "return"} : reader' = [reader EXCEPT ![r].at = s]
      BY <1>5, <2>3 DEF Drain, Moves
    <3>2. reader' = [reader EXCEPT ![r].at = s, ![r].saw = reader[r].saw]
      BY <1>0, <3>1 DEF ProcTypeOK, CallType
    <3>3. logSize <= bytesRead /\ bytesRead \in Nat /\ logSize \in Nat /\ exitedAt \in Nat
      BY <1>0, <2>3, MaxBytesAssumption DEF ProcTypeOK
    <3>4. exitedAt # Running => exitedAt <= bytesRead BY <1>0, <3>3 DEF EndKnown
    <3>5. s \in Holding /\ bytesRead' = bytesRead BY <1>5, <2>3 DEF Drain, Holding
    <3> QED BY <1>0, <1>1, <2>1, <3>2, <3>4, <3>5, HolderStays DEF EndKnown
  <2> QED BY <2>2, <2>3
<1> QED BY <1>2, <1>3, <1>4, <1>5

\* An interrupted call leaves whole lines as returned, and otherwise nothing is promised.
LEMMA InterruptedStep ==
    ASSUME ProcIInv, NEW r \in Readers, Interrupted(r)
    PROVE  ProcIInv'
<1> DEFINE raw == reader[r].raw
           whole == reader[r].before = <<>> /\ raw # <<>> /\ raw[Len(raw)] \in newlines
<1>0. ProcTypeOK /\ OneHolder /\ EndKnown /\ OutputOnce BY DEF ProcIInv
<1>1. r \in outputLock BY <1>0 DEF Interrupted, OneHolder, Holding
<1>2. /\ outputLock = {r} /\ outputLock' = {} /\ reader[r].before = fragment /\ Held = Buffer(r)
      /\ reader' = [reader EXCEPT ![r] = NoCall]
      /\ UNCHANGED <<logSize, exitedAt, termination, procStatus, bytesRead, fragment, endTold>>
  BY <1>0, <1>1, HeldByOne DEF Interrupted, OneHolder, Rest, logVars
<1>3. taken' = (IF whole THEN taken \o raw ELSE taken) /\ dropped' = (dropped \/ (raw # <<>> /\ ~whole))
  BY DEF Interrupted
<1>4. /\ NoCall \in CallType /\ raw \in Seq(Nat) /\ taken \in Seq(Nat) /\ fragment \in Seq(Nat)
      /\ <<>> \in Seq(Nat)
  <2>1. <<>> \in Seq(Nat) BY EmptySeq
  <2>2. NoCall \in CallType BY <2>1 DEF NoCall, CallType
  <2> QED BY <1>0, <2>1, <2>2 DEF ProcTypeOK, CallType
<1> HIDE DEF raw, whole
<1>5. \A q \in Readers \ {r} : reader'[q] = reader[q] BY <1>0, <1>2 DEF ProcTypeOK
<1>6. reader'[r] = NoCall BY <1>0, <1>2 DEF ProcTypeOK
<1>7. ProcTypeOK'
  <2>1. taken' \in Seq(Nat) BY <1>3, <1>4, ConcatProperties
  <2>2. reader' \in [Readers -> CallType] BY <1>0, <1>2, <1>4 DEF ProcTypeOK
  <2>3. dropped' \in BOOLEAN BY <1>3
  <2> QED BY <1>0, <1>2, <2>1, <2>2, <2>3 DEF ProcTypeOK
<1>8. OneHolder' BY <1>0, <1>2, <1>5, <1>6 DEF OneHolder, NoCall, Holding
<1>9. EndKnown' BY <1>0, <1>2, <1>5, <1>6 DEF EndKnown, NoCall
<1>10. ~dropped' => taken' \o Held' = taken \o Held /\ Len(taken) <= Len(taken')
  <2> SUFFICES ASSUME ~dropped' PROVE taken' \o Held' = taken \o Held /\ Len(taken) <= Len(taken')
    OBVIOUS
  <2>0. Held' = fragment /\ Held = fragment \o raw /\ Len(taken) \in Nat /\ Len(raw) \in Nat
    BY <1>2, <1>4, <1>7, <1>8, HeldByOnePrime, LenProperties DEF Buffer, raw
  <2>1. CASE whole
    <3>1. fragment = <<>> /\ taken' = taken \o raw BY <1>2, <1>3, <2>1 DEF whole
    <3>2. taken \o raw \in Seq(Nat) /\ Len(taken \o raw) = Len(taken) + Len(raw)
      BY <1>4, ConcatProperties
    <3>3. taken' \o Held' = taken \o raw BY <2>0, <3>1, <3>2, ConcatEmptySeq
    <3>4. Held = raw BY <1>4, <2>0, <3>1, ConcatEmptySeq
    <3> QED BY <2>0, <3>1, <3>2, <3>3, <3>4
  <2>2. CASE ~whole
    <3>1. raw = <<>> /\ taken' = taken BY <1>3, <2>2
    <3> QED BY <1>4, <2>0, <3>1, ConcatEmptySeq
  <2> QED BY <2>1, <2>2
<1>11. OutputOnce'
  <2>1. ~dropped' => ~dropped BY <1>3
  <2>2. Len(taken) \in Nat /\ Len(taken') \in Nat /\ exitedAt \in Nat
    BY <1>0, <1>4, <1>7, LenProperties DEF ProcTypeOK
  <2> SUFFICES ASSUME ~dropped', Exact(taken' \o Held')
               PROVE  /\ taken' \o Held' = Bytes(0, bytesRead')
                      /\ endTold' => exitedAt' <= Len(taken')
    BY DEF OutputOnce, Exact
  <2>4. taken' \o Held' = taken \o Held /\ Len(taken) <= Len(taken') BY <1>10
  <2>3. taken \o Held = Bytes(0, bytesRead) /\ (endTold => exitedAt <= Len(taken))
    BY <1>0, <2>1, <2>4 DEF OutputOnce, Exact
  <2> QED BY <1>2, <2>2, <2>3, <2>4
<1> QED BY <1>7, <1>8, <1>9, <1>11 DEF ProcIInv

\* A call returns complete lines, or everything when the process is not running.
LEMMA ReturnStep ==
    ASSUME ProcIInv, NEW r \in Readers, Returns(r)
    PROVE  ProcIInv'
<1> DEFINE all == Buffer(r)
           ends == {0} \cup {i \in DOMAIN all : all[i] \in newlines}
           cut == IF reader[r].saw # "running" THEN Len(all)
                  ELSE CHOOSE i \in ends : \A j \in ends : j <= i
<1>0. ProcTypeOK /\ OneHolder /\ EndKnown /\ OutputOnce BY DEF ProcIInv
<1>1. r \in outputLock /\ reader[r].at = "return" BY <1>0 DEF Returns, OneHolder, Holding
<1>2. /\ outputLock = {r} /\ outputLock' = {} /\ Held = all
      /\ reader' = [reader EXCEPT ![r] = NoCall]
      /\ UNCHANGED <<logSize, exitedAt, termination, procStatus, bytesRead, dropped>>
      /\ endTold' = (endTold \/ reader[r].saw # "running")
  BY <1>0, <1>1, HeldByOne DEF Returns, OneHolder, Rest, logVars
<1>3. taken' = taken \o SubSeq(all, 1, cut) /\ fragment' = SubSeq(all, cut + 1, Len(all))
  BY DEF Returns
<1>4. NoCall \in CallType /\ taken \in Seq(Nat) /\ all \in Seq(Nat) /\ Len(all) \in Nat
  <2>1. <<>> \in Seq(Nat) BY EmptySeq
  <2>2. NoCall \in CallType BY <2>1 DEF NoCall, CallType
  <2>3. all \in Seq(Nat) BY <1>0, <1>2, HeldByOne
  <2> QED BY <1>0, <2>2, <2>3, LenProperties DEF ProcTypeOK
<1>5. cut \in 0 .. Len(all)
  <2>1. (CHOOSE i \in ends : \A j \in ends : j <= i) \in 0 .. Len(all)
    <3> HIDE DEF all
    <3> QED BY <1>4, CutExists
  <2>2. Len(all) \in 0 .. Len(all) BY <1>4
  <2> QED BY <2>1, <2>2
<1>6. reader[r].saw # "running" => cut = Len(all) OBVIOUS
<1> HIDE DEF all, cut
<1>7. /\ SubSeq(all, 1, cut) \in Seq(Nat) /\ SubSeq(all, cut + 1, Len(all)) \in Seq(Nat)
      /\ SubSeq(all, 1, cut) \o SubSeq(all, cut + 1, Len(all)) = all
  BY <1>4, <1>5, PartsJoin
<1>8. \A q \in Readers \ {r} : reader'[q] = reader[q] BY <1>0, <1>2 DEF ProcTypeOK
<1>9. reader'[r] = NoCall BY <1>0, <1>2 DEF ProcTypeOK
<1>10. ProcTypeOK'
  <2>1. taken' \in Seq(Nat) /\ fragment' \in Seq(Nat) BY <1>3, <1>4, <1>7, ConcatProperties
  <2>2. reader' \in [Readers -> CallType] BY <1>0, <1>2, <1>4 DEF ProcTypeOK
  <2>3. endTold' \in BOOLEAN BY <1>2
  <2> QED BY <1>0, <1>2, <2>1, <2>2, <2>3 DEF ProcTypeOK
<1>11. OneHolder' BY <1>0, <1>2, <1>8, <1>9 DEF OneHolder, NoCall, Holding
<1>12. EndKnown'
  <2>1. endTold' => exitedAt # Running BY <1>0, <1>2 DEF EndKnown
  <2>2. \A q \in Readers : reader'[q].saw # "running" =>
            exitedAt # Running /\ (reader'[q].at = "return" => exitedAt <= bytesRead)
    BY <1>0, <1>8, <1>9 DEF EndKnown, NoCall
  <2> QED BY <1>0, <1>2, <2>1, <2>2 DEF EndKnown
<1>13. taken' \o Held' = taken \o Held
  <2>1. Held' = fragment' BY <1>2, <1>10, <1>11, HeldByOnePrime
  <2>2. taken' \o Held' = taken \o (SubSeq(all, 1, cut) \o SubSeq(all, cut + 1, Len(all)))
    BY <1>3, <1>4, <1>7, <2>1, BytesAssociate
  <2> QED BY <1>2, <1>7, <2>2
<1>14. OutputOnce'
  <2> PICK part : part = SubSeq(all, 1, cut) OBVIOUS
  <2>0. part \in Seq(Nat) /\ taken' = taken \o part BY <1>3, <1>7
  <2>1. Len(taken) \in Nat /\ Len(part) \in Nat /\ Len(taken') = Len(taken) + Len(part)
      /\ Len(taken') \in Nat
    BY <1>4, <1>10, <2>0, LenProperties, ConcatProperties DEF ProcTypeOK
  <2>2. exitedAt \in Nat /\ bytesRead \in Nat BY <1>0, MaxBytesAssumption DEF ProcTypeOK
  <2>3. ASSUME ~dropped, Exact(taken \o Held), reader[r].saw # "running" PROVE exitedAt <= Len(taken')
    <3>1. exitedAt <= bytesRead BY <1>0, <1>1, <2>3 DEF EndKnown
    <3>2. SubSeq(all, 1, cut) = all BY <1>4, <1>6, <2>3, SubSeqFull
    <3>3. taken' = Bytes(0, bytesRead) BY <1>0, <1>2, <1>3, <2>3, <3>2 DEF OutputOnce, Exact
    <3>4. Len(Bytes(0, bytesRead)) = bytesRead BY <2>2, BytesJoin
    <3> QED BY <3>1, <3>3, <3>4
  <2>4. ASSUME ~dropped, Exact(taken \o Held), endTold PROVE exitedAt <= Len(taken')
    <3>1. exitedAt <= Len(taken) BY <1>0, <2>4 DEF OutputOnce, Exact
    <3>2. \A x, y, z \in Nat : z = x + y /\ exitedAt <= x => exitedAt <= z BY <2>2
    <3> QED BY <2>1, <3>1, <3>2
  <2>5. ~dropped /\ Exact(taken \o Held) => taken' \o Held' = Bytes(0, bytesRead)
    BY <1>0, <1>13 DEF OutputOnce, Exact
  <2> QED BY <1>2, <1>13, <2>3, <2>4, <2>5 DEF OutputOnce, Exact
<1> QED BY <1>10, <1>11, <1>12, <1>14 DEF ProcIInv

\* Every byte of the output is returned once and in order, none is lost between two calls, and who is
\* told of the end has been told all that was written up to it, for any number of concurrent readers,
\* as long as no call was interrupted over a part of a line and no replacement character was told.
THEOREM EveryByteOnce == ProcSpec => []OutputOnce
<1>1. ProcIInv /\ [ProcNext]_procVars => ProcIInv'
  <2> SUFFICES ASSUME ProcIInv, [ProcNext]_procVars PROVE ProcIInv'
    OBVIOUS
  <2>1. CASE UNCHANGED procVars
    BY <2>1 DEF procVars, ProcIInv, ProcTypeOK, OneHolder, EndKnown, OutputOnce, Held, Buffer
  <2> QED
    BY <2>1, ProcessStep, CallBegins, LockStep, HolderStep, InterruptedStep, ReturnStep DEF ProcNext
<1>2. ProcIInv => OutputOnce BY DEF ProcIInv
<1> QED BY <1>1, <1>2, ProcInitIInv, PTL DEF ProcSpec

-----------------------------------------------------------------------------
(* McpServers *)

EntryNumbers == 0 .. MaxEntries
AnyName == McpNames \cup {"none"}
EntryType == [sig : Nat, has : SUBSET Instances, timedOut : SUBSET AnyName, retrying : SUBSET AnyName]
ServerType == [name : AnyName, state : {"none", "open", "dead", "closed"}]
McpStages == {"none", "look", "retrying", "discarding", "got", "streaming"} \cup Replaces
McpCallType ==
    [at : McpStages, sig : Nat, entry : EntryNumbers, done : SUBSET Instances, names : SUBSET AnyName,
     todo : SUBSET AnyName, got : SUBSET Instances, timedOut : SUBSET AnyName, tools : SUBSET Instances]
StopType == [entry : 1 .. MaxEntries, done : SUBSET Instances] \cup {NotStopping}
WithEntry == {"retrying", "discarding", "clearing", "restarting", "stopping"}

\* The values the state of the manager can have.
McpTypeOK ==
    /\ mcpConfig \in Nat \ {0} /\ mcpEntry \in EntryNumbers
    /\ entries \in [1 .. MaxEntries -> EntryType]
    /\ server \in [Instances -> ServerType]
    /\ mcpCall \in [McpCalls -> McpCallType]
    /\ \A c \in McpCalls : mcpCall[c].at \in WithEntry => mcpCall[c].entry # 0
    /\ stopping \in StopType
    /\ mcpRemoved \in BOOLEAN /\ clashed \in BOOLEAN

At(c) == mcpCall[c].at
Has(e) == entries[e].has

\* An entry that is in use is not the one that the next full start takes, and one that has left the
\* Map does not return.
EntriesUsed ==
    /\ \A e \in 1 .. MaxEntries : entries[e].sig = 0 => Has(e) = {}
    /\ mcpEntry # 0 => entries[mcpEntry].sig # 0
    /\ stopping.entry # 0 => entries[stopping.entry].sig # 0 /\ stopping.entry # mcpEntry
    /\ \A c \in McpCalls :
           /\ At(c) \in WithEntry => entries[mcpCall[c].entry].sig # 0
           /\ At(c) \notin {"none", "got", "streaming"} => mcpCall[c].sig # 0

\* An instance that was started is in one place at most.
OnePlace ==
    /\ \A e, f \in 1 .. MaxEntries : e # f => Has(e) \cap Has(f) = {}
    /\ \A e \in 1 .. MaxEntries, c \in McpCalls : Has(e) \cap mcpCall[c].got = {}
    /\ \A c, d \in McpCalls : c # d => mcpCall[c].got \cap mcpCall[d].got = {}
    /\ \A e \in 1 .. MaxEntries : \A i \in Has(e) : StateOf(i) # "none"
    /\ \A c \in McpCalls : \A i \in mcpCall[c].got : StateOf(i) # "none"
    /\ \A c \in McpCalls : mcpCall[c].got # {} => At(c) \in {"retrying", "discarding", "restarting", "starting"}

\* What calls replace instances, and on which entry.
WhoReplaces ==
    /\ \A c, d \in McpCalls : c # d /\ At(c) \in Replaces => At(d) \notin Replaces \cup {"got"}
    /\ \A c \in McpCalls :
           /\ At(c) \in {"clearing", "restarting"} => mcpEntry # 0 /\ mcpCall[c].entry = mcpEntry
           /\ At(c) \in {"stopping", "starting"} => mcpEntry = 0
           /\ At(c) = "got" => mcpEntry # 0 \/ mcpRemoved
           /\ At(c) = "streaming" => mcpEntry # 0

\* A stop has closed what it has done.
DoneIsClosed ==
    /\ \A i \in stopping.done : StateOf(i) = "closed"
    /\ \A c \in McpCalls : At(c) = "stopping" => \A i \in mcpCall[c].done : StateOf(i) = "closed"

\* There is one instance of a server in an entry, and none of one that is tried again; a call has
\* one instance at most of the servers that it has tried, which are among those it was to start.
OneInEntry(e) ==
    /\ \A i, j \in Has(e) : server[i].name = server[j].name => i = j
    /\ \A i \in Has(e) : server[i].name \notin entries[e].timedOut
OneInCall(c) ==
    LET call == mcpCall[c]
    IN  /\ \A i, j \in call.got : server[i].name = server[j].name => i = j
        /\ \A i \in call.got : /\ server[i].name \notin call.todo \cup call.timedOut
                               /\ At(c) # "starting" => server[i].name \in call.names
        /\ At(c) \in {"look", "clearing"} => call.timedOut = {}
        /\ At(c) \in {"clearing", "retrying", "restarting"} => call.todo \subseteq call.names
        /\ At(c) \in {"retrying", "restarting"} => call.timedOut \subseteq call.names
        /\ At(c) \in {"retrying", "restarting", "starting"} => call.timedOut \cap call.todo = {}
OneOfAName == (\A e \in 1 .. MaxEntries : OneInEntry(e)) /\ (\A c \in McpCalls : OneInCall(c))

\* Retries of one entry try different servers, which the entry does not have.
Retries(c) == At(c) \in {"retrying", "discarding"}
RetryKnown(c) ==
    /\ Retries(c) => mcpCall[c].names \subseteq entries[mcpCall[c].entry].retrying
    /\ At(c) = "retrying" /\ mcpCall[c].entry = mcpEntry =>
           \A i \in Has(mcpEntry) : server[i].name \notin mcpCall[c].names
RetriesDiffer(c, d) ==
    /\ Retries(c) /\ Retries(d) /\ mcpCall[d].entry = mcpCall[c].entry => mcpCall[c].names \cap mcpCall[d].names = {}
    /\ At(c) = "retrying" /\ mcpCall[c].entry = mcpEntry /\ At(d) \in {"clearing", "restarting"} =>
           mcpCall[c].names \cap mcpCall[d].names = {}
RetriesApart == \A c \in McpCalls : RetryKnown(c) /\ \A d \in McpCalls : d # c => RetriesDiffer(c, d)

\* The servers that died leave the entry, and what takes their place there was not there before.
DeadLeft(c) ==
    LET call == mcpCall[c]
    IN  At(c) \in {"clearing", "restarting"} =>
            /\ call.names \cap entries[mcpEntry].timedOut = {}
            /\ \A i \in Has(mcpEntry) : server[i].name \in call.names =>
                   At(c) = "clearing" /\ server[i].name \in call.todo /\ StateOf(i) # "open"
DeadLeave == \A c \in McpCalls : DeadLeft(c)

\* The open instances that a stream has got are those of the entry, unless the workspace was removed
\* before the stream began.
ToolsAreKept ==
    \A c \in McpCalls : At(c) \in {"got", "streaming"} =>
        \A i \in mcpCall[c].tools :
            /\ StateOf(i) # "none"
            /\ StateOf(i) = "open" => (At(c) = "got" /\ mcpRemoved) \/ (mcpEntry # 0 /\ i \in Has(mcpEntry))

\* The inductive invariant, for as long as no calls have clashed.
McpOrder ==
    /\ EntriesUsed /\ OnePlace /\ WhoReplaces /\ DoneIsClosed /\ OneOfAName /\ RetriesApart /\ DeadLeave
    /\ ToolsAreKept
McpGood == McpTypeOK /\ Owned /\ McpOrder
McpIInv == McpTypeOK /\ (~clashed => McpGood)

\* A field of a call, of an entry or of an instance takes another value.
LEMMA McpFields ==
    /\ \A r \in McpCallType :
           /\ \A x \in McpStages : [r EXCEPT !.at = x] \in McpCallType
           /\ \A x \in Nat : [r EXCEPT !.sig = x] \in McpCallType
           /\ \A x \in EntryNumbers : [r EXCEPT !.entry = x] \in McpCallType
           /\ \A x \in SUBSET Instances : /\ [r EXCEPT !.done = x] \in McpCallType
                                          /\ [r EXCEPT !.got = x] \in McpCallType
                                          /\ [r EXCEPT !.tools = x] \in McpCallType
           /\ \A x \in SUBSET AnyName : /\ [r EXCEPT !.names = x] \in McpCallType
                                         /\ [r EXCEPT !.todo = x] \in McpCallType
                                         /\ [r EXCEPT !.timedOut = x] \in McpCallType
    /\ \A r \in EntryType :
           /\ \A x \in SUBSET Instances : [r EXCEPT !.has = x] \in EntryType
           /\ \A x \in SUBSET AnyName : [r EXCEPT !.timedOut = x] \in EntryType /\ [r EXCEPT !.retrying = x] \in EntryType
    /\ \A r \in ServerType : \A x \in {"none", "open", "dead", "closed"} : [r EXCEPT !.state = x] \in ServerType
    /\ NoMcpCall \in McpCallType /\ NoEntry \in EntryType
<1>1. 0 \in EntryNumbers BY McpBoundsAssumption DEF EntryNumbers
<1>2. NoMcpCall \in McpCallType BY <1>1 DEF McpCallType, NoMcpCall, McpStages, Replaces
<1>3. NoEntry \in EntryType
  BY <1>1 DEF EntryType, NoEntry
<1>4. \A r \in McpCallType :
           /\ \A x \in McpStages : [r EXCEPT !.at = x] \in McpCallType
           /\ \A x \in Nat : [r EXCEPT !.sig = x] \in McpCallType
           /\ \A x \in EntryNumbers : [r EXCEPT !.entry = x] \in McpCallType
  BY DEF McpCallType
<1>5. \A r \in McpCallType : \A x \in SUBSET Instances :
          /\ [r EXCEPT !.done = x] \in McpCallType /\ [r EXCEPT !.got = x] \in McpCallType
          /\ [r EXCEPT !.tools = x] \in McpCallType
  BY DEF McpCallType
<1>6. \A r \in McpCallType : \A x \in SUBSET AnyName :
          /\ [r EXCEPT !.names = x] \in McpCallType /\ [r EXCEPT !.todo = x] \in McpCallType
          /\ [r EXCEPT !.timedOut = x] \in McpCallType
  BY DEF McpCallType
<1>7. \A r \in EntryType :
           /\ \A x \in SUBSET Instances : [r EXCEPT !.has = x] \in EntryType
           /\ \A x \in SUBSET AnyName : [r EXCEPT !.timedOut = x] \in EntryType /\ [r EXCEPT !.retrying = x] \in EntryType
  BY DEF EntryType
<1>8. \A r \in ServerType : \A x \in {"none", "open", "dead", "closed"} : [r EXCEPT !.state = x] \in ServerType
  BY DEF ServerType
<1> QED BY <1>2, <1>3, <1>4, <1>5, <1>6, <1>7, <1>8

\* Closing instances keeps their type and their names, and closes no others.
LEMMA ClosedFacts ==
    ASSUME McpTypeOK, NEW I
    PROVE  /\ Closed(I) \in [Instances -> ServerType]
           /\ \A i \in Instances : /\ Closed(I)[i].name = server[i].name
                                   /\ i \in I => Closed(I)[i].state = "closed"
                                   /\ i \notin I => Closed(I)[i] = server[i]
<1>1. \A i \in Instances : [server[i] EXCEPT !.state = "closed"] \in ServerType
  BY McpFields DEF McpTypeOK
<1> QED BY <1>1 DEF Closed, McpTypeOK, ServerType

\* The first of some instances is one of them, and there is none only if there are none.
LEMMA FirstFacts ==
    ASSUME NEW S, NEW I \in FirstOf(S)
    PROVE  I \subseteq S /\ (I = {} <=> S = {})
  BY DEF FirstOf

\* A set of natural numbers has a least element.
LEMMA LeastExists ==
    ASSUME NEW S \in SUBSET Nat, S # {}
    PROVE  (CHOOSE i \in S : \A j \in S : i <= j) \in S
<1>1. PICK m \in S : \A k \in S : <<k, m>> \notin OpToRel(<, Nat)
  BY WFMin, NatLessThanWellFounded, Zenon
<1>2. \A k \in S : ~(k < m) BY <1>1 DEF OpToRel
<1>3. \A k \in S : m <= k BY <1>2
<1> QED BY <1>3

\* The instances of an entry, their names, and what an entry holds once instances are set.
LEMMA McpSets ==
    ASSUME McpTypeOK
    PROVE  /\ \A e \in 1 .. MaxEntries : Has(e) \in SUBSET Instances /\ Dead(e) \in SUBSET Instances
           /\ \A I \in SUBSET Instances : NamesOf(I) \in SUBSET AnyName
           /\ \A I, J \in SUBSET Instances : With(I, J) \in SUBSET Instances
  BY DEF McpTypeOK, EntryType, ServerType, Has, Dead, NamesOf, With

\* What Set() does: one call moves.
LEMMA CallSet ==
    ASSUME McpTypeOK, NEW c \in McpCalls, NEW r \in McpCallType, r.at \in WithEntry => r.entry # 0, Set(c, r)
    PROVE  /\ mcpCall' \in [McpCalls -> McpCallType] /\ clashed' \in BOOLEAN
           /\ \A d \in McpCalls : mcpCall'[d].at \in WithEntry => mcpCall'[d].entry # 0
           /\ mcpCall'[c] = r /\ \A d \in McpCalls : d # c => mcpCall'[d] = mcpCall[d]
  BY DEF McpTypeOK, Set, Clash

\* A call that has its tools, and one that starts all servers.
LEMMA NewCallTyped ==
    ASSUME McpTypeOK, NEW c \in McpCalls
    PROVE  /\ \A I \in SUBSET Instances : [NoMcpCall EXCEPT !.at = "got", !.tools = I] \in McpCallType
           /\ [NoMcpCall EXCEPT !.at = "starting", !.sig = mcpCall[c].sig, !.todo = McpNames] \in McpCallType
           /\ [NoMcpCall EXCEPT !.at = "look", !.sig = mcpConfig] \in McpCallType
<1>1. "got" \in McpStages /\ "starting" \in McpStages /\ "look" \in McpStages BY DEF McpStages, Replaces
<1>2. mcpCall[c].sig \in Nat /\ mcpConfig \in Nat BY DEF McpTypeOK, McpCallType
<1>3. \A I \in SUBSET Instances : [[NoMcpCall EXCEPT !.at = "got"] EXCEPT !.tools = I] \in McpCallType
  BY <1>1, McpFields
<1>4. [[[NoMcpCall EXCEPT !.at = "starting"] EXCEPT !.sig = mcpCall[c].sig] EXCEPT !.todo = McpNames] \in McpCallType
  <2>1. McpNames \in SUBSET AnyName BY DEF AnyName
  <2> QED BY <1>1, <1>2, <2>1, McpFields
<1>5. [[NoMcpCall EXCEPT !.at = "look"] EXCEPT !.sig = mcpConfig] \in McpCallType
  BY <1>1, <1>2, McpFields
<1> QED BY <1>3, <1>4, <1>5

\* A stop keeps the types.
LEMMA StopsTyped ==
    ASSUME McpTypeOK, ConfigChanges \/ (\E i \in Instances : ServerDies(i)) \/ IdleCleanup \/ Removal \/ StopsNext
    PROVE  McpTypeOK'
<1>1. CASE ConfigChanges BY <1>1 DEF ConfigChanges, McpTypeOK
<1>2. CASE \E i \in Instances : ServerDies(i)
  <2>1. PICK i \in Instances : ServerDies(i) BY <1>2
  <2>2. server' = [server EXCEPT ![i] = [server[i] EXCEPT !.state = "dead"]] BY <2>1 DEF ServerDies, McpTypeOK
  <2>3. server' \in [Instances -> ServerType] BY <2>2, McpFields DEF McpTypeOK
  <2> QED BY <2>1, <2>3 DEF ServerDies, McpTypeOK
<1>3. ASSUME BeginStop, mcpEntry # 0
      PROVE  stopping' \in StopType /\ server' \in [Instances -> ServerType] /\ mcpEntry' \in EntryNumbers
  <2>1. PICK I \in FirstOf(entries[mcpEntry].has) :
           stopping' = [entry |-> mcpEntry, done |-> I] /\ server' = Closed(I)
    BY <1>3 DEF BeginStop
  <2>2. mcpEntry \in 1 .. MaxEntries BY <1>3 DEF McpTypeOK, EntryNumbers
  <2>3. I \in SUBSET Instances BY <2>1, <2>2, FirstFacts, McpSets DEF Has
  <2>4. 0 \in EntryNumbers BY McpBoundsAssumption DEF EntryNumbers
  <2> QED BY <1>3, <2>1, <2>2, <2>3, <2>4, ClosedFacts DEF StopType, BeginStop
<1>4. CASE IdleCleanup BY <1>3, <1>4 DEF IdleCleanup, McpTypeOK
<1>5. CASE Removal BY <1>3, <1>5 DEF Removal, McpTypeOK
<1>6. CASE StopsNext
  <2> DEFINE left == entries[stopping.entry].has \ stopping.done
  <2>1. stopping.entry \in 1 .. MaxEntries /\ stopping \in [entry : 1 .. MaxEntries, done : SUBSET Instances]
    BY <1>6 DEF StopsNext, McpTypeOK, StopType
  <2>2. CASE left = {} BY <1>6, <2>2 DEF StopsNext, McpTypeOK, StopType
  <2>3. CASE left # {}
    <3>1. PICK I \in FirstOf(left) : stopping' = [stopping EXCEPT !.done = @ \cup I] /\ server' = Closed(I)
      BY <1>6, <2>3 DEF StopsNext
    <3>2. I \in SUBSET Instances BY <2>1, <3>1, FirstFacts, McpSets DEF Has
    <3>3. stopping' \in StopType BY <2>1, <3>1, <3>2 DEF StopType
    <3> QED BY <1>6, <3>1, <3>3, ClosedFacts DEF McpTypeOK, StopsNext
  <2> QED BY <2>2, <2>3
<1> QED BY <1>1, <1>2, <1>4, <1>5, <1>6

\* The calls that look at the entry and go on without starting a server.
LEMMA LooksTyped ==
    ASSUME McpTypeOK, NEW c \in McpCalls, AskForTools(c) \/ UseCached(c) \/ DeferRestart(c) \/ RestartAll(c)
    PROVE  McpTypeOK'
<1> DEFINE call == mcpCall[c]
<1>0. call \in McpCallType /\ (mcpEntry # 0 => mcpEntry \in 1 .. MaxEntries) BY DEF McpTypeOK, EntryNumbers
<1>1. CASE AskForTools(c)
  <2>1. [NoMcpCall EXCEPT !.at = "look", !.sig = mcpConfig] \in McpCallType BY NewCallTyped
  <2> QED BY <1>1, <2>1, CallSet DEF AskForTools, McpTypeOK, NoMcpCall, WithEntry
<1>2. ASSUME NEW I \in SUBSET Instances, Got(c, I), UNCHANGED <<mcpConfig, mcpEntry, entries, server, stopping, mcpRemoved>>
      PROVE  McpTypeOK'
  <2>1. [NoMcpCall EXCEPT !.at = "got", !.tools = I] \in McpCallType BY NewCallTyped
  <2> QED BY <1>2, <2>1, CallSet DEF Got, McpTypeOK, NoMcpCall, WithEntry
<1>3. CASE UseCached(c)
  <2> DEFINE e == entries[mcpEntry]
             retry == e.timedOut \ (NamesOf(e.has) \cup e.retrying)
             r == [call EXCEPT !.at = "retrying", !.entry = mcpEntry, !.names = retry, !.todo = retry]
  <2>0. mcpEntry # 0 /\ mcpEntry \in 1 .. MaxEntries BY <1>0, <1>3 DEF UseCached, Current
  <2>1. e.has \in SUBSET Instances /\ e.timedOut \in SUBSET AnyName /\ e.retrying \in SUBSET AnyName /\ e \in EntryType
    BY <2>0 DEF McpTypeOK, EntryType
  <2>2. CASE retry = {} BY <1>2, <1>3, <2>1, <2>2 DEF UseCached
  <2>3. CASE retry # {}
    <3>1. entries' = [entries EXCEPT ![mcpEntry] = [e EXCEPT !.retrying = e.retrying \cup retry]] /\ Set(c, r)
      BY <1>3, <2>0, <2>3 DEF UseCached, McpTypeOK
    <3>2. retry \in SUBSET AnyName BY <2>1
    <3>3. entries' \in [1 .. MaxEntries -> EntryType] BY <2>1, <3>1, <3>2, McpFields DEF McpTypeOK
    <3>4. r = [[[[call EXCEPT !.at = "retrying"] EXCEPT !.entry = mcpEntry] EXCEPT !.names = retry] EXCEPT !.todo = retry]
      BY <1>0 DEF McpCallType
    <3>5. "retrying" \in McpStages /\ mcpEntry \in EntryNumbers BY <2>0 DEF McpStages, EntryNumbers
    <3>6. r \in McpCallType BY <1>0, <3>2, <3>4, <3>5, McpFields
    <3>7. r.at \in WithEntry => r.entry # 0 BY <1>0, <2>0 DEF McpCallType
    <3> HIDE DEF r, e, retry
    <3> QED BY <1>3, <3>1, <3>3, <3>6, <3>7, CallSet DEF UseCached, McpTypeOK
  <2> QED BY <2>2, <2>3
<1>4. CASE DeferRestart(c)
  <2>0. mcpEntry # 0 /\ mcpEntry \in 1 .. MaxEntries BY <1>0, <1>4 DEF DeferRestart
  <2>1. entries[mcpEntry].has \in SUBSET Instances /\ entries[mcpEntry] \in EntryType BY <2>0 DEF McpTypeOK, EntryType
  <2>2. CASE Dead(mcpEntry) = {} BY <1>2, <1>4, <2>1, <2>2 DEF DeferRestart
  <2>3. CASE Dead(mcpEntry) # {}
    <3> DEFINE N == NamesOf(Dead(mcpEntry))
               r(x) == [call EXCEPT !.at = "clearing", !.entry = mcpEntry, !.names = N, !.todo = x]
    <3>1. PICK i \in Dead(mcpEntry) :
             /\ entries' = [entries EXCEPT ![mcpEntry] = [entries[mcpEntry] EXCEPT !.has = entries[mcpEntry].has \ {i}]]
             /\ server' = Closed({i}) /\ Set(c, r(N \ {server[i].name}))
      BY <1>4, <2>0, <2>3 DEF DeferRestart, McpTypeOK
    <3> DEFINE x == N \ {server[i].name}
    <3>2. N \in SUBSET AnyName BY <2>0, McpSets
    <3>3. x \in SUBSET AnyName BY <3>2
    <3>4. entries' \in [1 .. MaxEntries -> EntryType]
      <4>1. entries[mcpEntry].has \ {i} \in SUBSET Instances BY <2>1
      <4> QED BY <2>1, <3>1, <4>1, McpFields DEF McpTypeOK
    <3> HIDE DEF N, x
    <3>5. r(x) = [[[[call EXCEPT !.at = "clearing"] EXCEPT !.entry = mcpEntry] EXCEPT !.names = N] EXCEPT !.todo = x]
      BY <1>0 DEF McpCallType
    <3>6. "clearing" \in McpStages /\ mcpEntry \in EntryNumbers BY <2>0 DEF McpStages, Replaces, EntryNumbers
    <3>7. r(x) \in McpCallType BY <1>0, <3>2, <3>3, <3>5, <3>6, McpFields
    <3>8. r(x).at \in WithEntry => r(x).entry # 0 BY <1>0, <2>0 DEF McpCallType
    <3>9. Set(c, r(x)) BY <3>1 DEF x
    <3> HIDE DEF r
    <3> QED BY <1>4, <3>1, <3>4, <3>7, <3>8, <3>9, CallSet, ClosedFacts DEF DeferRestart, McpTypeOK
  <2> QED BY <2>2, <2>3
<1>5. CASE RestartAll(c)
  <2>0. mcpEntry' = 0 /\ 0 \in EntryNumbers
    <3>1. mcpEntry' = 0 BY <1>5 DEF RestartAll
    <3>2. 0 \in EntryNumbers BY McpBoundsAssumption DEF EntryNumbers
    <3> QED BY <3>1, <3>2
  <2>1. CASE mcpEntry = 0
    <3>1. [NoMcpCall EXCEPT !.at = "starting", !.sig = mcpCall[c].sig, !.todo = McpNames] \in McpCallType BY NewCallTyped
    <3> QED BY <1>5, <2>0, <2>1, <3>1, CallSet DEF RestartAll, Starts, McpTypeOK, NoMcpCall, WithEntry
  <2>2. CASE mcpEntry # 0
    <3> DEFINE r(I) == [call EXCEPT !.at = "stopping", !.entry = mcpEntry, !.done = I]
    <3>1. PICK I \in FirstOf(entries[mcpEntry].has) : Set(c, r(I)) /\ server' = Closed(I)
      BY <1>5, <2>2 DEF RestartAll
    <3>2. I \in SUBSET Instances BY <1>0, <2>2, <3>1, FirstFacts, McpSets DEF Has
    <3>3. r(I) = [[[call EXCEPT !.at = "stopping"] EXCEPT !.entry = mcpEntry] EXCEPT !.done = I]
      BY <1>0 DEF McpCallType
    <3>4. "stopping" \in McpStages /\ mcpEntry \in EntryNumbers BY DEF McpStages, Replaces, McpTypeOK
    <3>5. r(I) \in McpCallType BY <1>0, <3>2, <3>3, <3>4, McpFields
    <3>6. r(I).at \in WithEntry => r(I).entry # 0 BY <1>0, <2>2 DEF McpCallType
    <3> HIDE DEF r
    <3> QED BY <1>5, <2>0, <3>1, <3>5, <3>6, CallSet, ClosedFacts DEF RestartAll, McpTypeOK
  <2> QED BY <2>1, <2>2
<1> QED BY <1>1, <1>3, <1>4, <1>5

\* The calls that start, restart or stop servers.
LEMMA StartsTyped ==
    ASSUME McpTypeOK, NEW c \in McpCalls, ClearNext(c) \/ RestartStops(c) \/ \E n \in McpNames : StartOne(c, n)
    PROVE  McpTypeOK'
<1> DEFINE call == mcpCall[c]
<1>0. /\ call \in McpCallType /\ (call.at \in WithEntry => call.entry \in 1 .. MaxEntries)
      /\ call.todo \in SUBSET AnyName /\ call.got \in SUBSET Instances /\ call.names \in SUBSET AnyName
      /\ call.done \in SUBSET Instances /\ call.timedOut \in SUBSET AnyName
  BY DEF McpTypeOK, EntryNumbers, McpCallType
<1>1. CASE ClearNext(c)
  <2>0. call.at = "clearing" /\ call.entry \in 1 .. MaxEntries BY <1>0, <1>1 DEF ClearNext, WithEntry
  <2>1. CASE call.todo = {}
    <3> DEFINE r == [call EXCEPT !.at = "restarting", !.todo = call.names]
    <3>1. r = [[call EXCEPT !.at = "restarting"] EXCEPT !.todo = call.names] BY <1>0 DEF McpCallType
    <3>2. "restarting" \in McpStages BY DEF McpStages, Replaces
    <3>3. r \in McpCallType BY <1>0, <3>1, <3>2, McpFields
    <3>4. r.at \in WithEntry => r.entry # 0 BY <1>0, <2>0 DEF McpCallType
    <3> QED BY <1>1, <2>1, <3>3, <3>4, CallSet DEF ClearNext, McpTypeOK
  <2>2. CASE call.todo # {}
    <3> DEFINE at(n) == {i \in entries[call.entry].has : server[i].name = n}
               r(n) == [call EXCEPT !.todo = call.todo \ {n}]
    <3>1. PICK n \in call.todo :
             /\ entries' = [entries EXCEPT ![call.entry] =
                               [entries[call.entry] EXCEPT !.has = entries[call.entry].has \ at(n)]]
             /\ server' = Closed(at(n)) /\ Set(c, r(n))
      BY <1>1, <2>0, <2>2 DEF ClearNext, McpTypeOK
    <3>2. entries[call.entry] \in EntryType /\ entries[call.entry].has \ at(n) \in SUBSET Instances
      BY <2>0 DEF McpTypeOK, EntryType
    <3> HIDE DEF at
    <3>3. entries' \in [1 .. MaxEntries -> EntryType] BY <3>1, <3>2, McpFields DEF McpTypeOK
    <3>4. call.todo \ {n} \in SUBSET AnyName BY <1>0
    <3>5. r(n) \in McpCallType BY <1>0, <3>4, McpFields
    <3>6. r(n).at \in WithEntry => r(n).entry # 0 BY <1>0, <2>0 DEF McpCallType
    <3> HIDE DEF r
    <3> QED BY <1>1, <3>1, <3>3, <3>5, <3>6, CallSet, ClosedFacts DEF ClearNext, McpTypeOK
  <2> QED BY <2>1, <2>2
<1>2. CASE RestartStops(c)
  <2>0. call.at = "stopping" /\ call.entry \in 1 .. MaxEntries BY <1>0, <1>2 DEF RestartStops, WithEntry
  <2> DEFINE left == entries[call.entry].has \ call.done
             r(I) == [call EXCEPT !.done = call.done \cup I]
  <2>1. CASE left = {}
    <3>1. [NoMcpCall EXCEPT !.at = "starting", !.sig = mcpCall[c].sig, !.todo = McpNames] \in McpCallType BY NewCallTyped
    <3> QED BY <1>2, <2>1, <3>1, CallSet DEF RestartStops, Starts, McpTypeOK, NoMcpCall, WithEntry
  <2>2. CASE left # {}
    <3>1. PICK I \in FirstOf(left) : Set(c, r(I)) /\ server' = Closed(I)
      BY <1>2, <2>2 DEF RestartStops
    <3>2. I \in SUBSET Instances BY <2>0, <3>1, FirstFacts, McpSets DEF Has
    <3>3. call.done \cup I \in SUBSET Instances BY <1>0, <3>2
    <3>4. r(I) \in McpCallType BY <1>0, <3>3, McpFields
    <3>5. r(I).at \in WithEntry => r(I).entry # 0 BY <1>0, <2>0 DEF McpCallType
    <3> HIDE DEF r
    <3> QED BY <1>2, <3>1, <3>4, <3>5, CallSet, ClosedFacts DEF RestartStops, McpTypeOK
  <2> QED BY <2>1, <2>2
<1>3. ASSUME NEW n \in McpNames, StartOne(c, n) PROVE McpTypeOK'
  <2> DEFINE rest == [call EXCEPT !.todo = call.todo \ {n}]
             s(i) == [rest EXCEPT !.got = call.got \cup {i}]
             t == [rest EXCEPT !.timedOut = call.timedOut \cup {n}]
  <2>1. rest \in McpCallType /\ rest.at = call.at /\ rest.entry = call.entry /\ rest.got = call.got
      /\ rest.timedOut = call.timedOut
    <3>1. call.todo \ {n} \in SUBSET AnyName BY <1>0
    <3>2. rest \in McpCallType BY <1>0, <3>1, McpFields
    <3> QED BY <1>0, <3>2 DEF McpCallType
  <2>2. t \in McpCallType /\ t.at = call.at /\ t.entry = call.entry
    <3>1. call.timedOut \cup {n} \in SUBSET AnyName BY <1>0 DEF AnyName
    <3>2. t \in McpCallType BY <2>1, <3>1, McpFields
    <3> QED BY <2>1, <3>2 DEF McpCallType
  <2>3. \A i \in Instances : s(i) \in McpCallType /\ s(i).at = call.at /\ s(i).entry = call.entry
    <3>1. \A i \in Instances : call.got \cup {i} \in SUBSET Instances BY <1>0
    <3>2. \A i \in Instances : s(i) \in McpCallType BY <2>1, <3>1, McpFields
    <3> QED BY <2>1, <3>2 DEF McpCallType
  <2>4. call.at \in WithEntry => call.entry # 0 BY DEF McpTypeOK
  <2>5. CASE /\ Unused # {}
             /\ LET i == CHOOSE j \in Unused : \A k \in Unused : j <= k
                IN  /\ server' = [server EXCEPT ![i] = [name |-> n, state |-> "open"]]
                    /\ Set(c, s(i))
    <3>1. PICK i : i = CHOOSE j \in Unused : \A k \in Unused : j <= k OBVIOUS
    <3>2. Unused \in SUBSET Nat /\ Unused # {} /\ Unused \subseteq Instances
      BY <2>5, McpBoundsAssumption DEF Unused, Instances
    <3>3. i \in Instances BY <3>1, <3>2, LeastExists
    <3>4. server' = [server EXCEPT ![i] = [name |-> n, state |-> "open"]] /\ Set(c, s(i)) BY <2>5, <3>1
    <3>5. [name |-> n, state |-> "open"] \in ServerType BY DEF ServerType, AnyName
    <3> HIDE DEF s
    <3> QED BY <1>3, <2>3, <2>4, <3>3, <3>4, <3>5, CallSet DEF StartOne, McpTypeOK
  <2>6. CASE UNCHANGED server /\ (Set(c, rest) \/ Set(c, t))
    <3> HIDE DEF rest, t
    <3> QED BY <1>3, <2>1, <2>2, <2>4, <2>6, CallSet DEF StartOne, McpTypeOK
  <2>7. [rest EXCEPT !.got = @ \cup {CHOOSE j \in Unused : \A k \in Unused : j <= k}]
            = s(CHOOSE j \in Unused : \A k \in Unused : j <= k)
        /\ [rest EXCEPT !.timedOut = @ \cup {n}] = t
    BY <2>1 DEF McpCallType
  <2> QED BY <1>3, <2>5, <2>6, <2>7 DEF StartOne
<1> QED BY <1>1, <1>2, <1>3

\* The calls that end a start, and the streams.
LEMMA EndsTyped ==
    ASSUME McpTypeOK, NEW c \in McpCalls,
           RetryEnds(c) \/ DiscardNext(c) \/ RestartedJoin(c) \/ AllStarted(c) \/ StreamBegins(c) \/ StreamOver(c)
    PROVE  McpTypeOK'
<1> DEFINE call == mcpCall[c]
<1>0. /\ call \in McpCallType /\ (call.at \in WithEntry => call.entry \in 1 .. MaxEntries)
      /\ call.got \in SUBSET Instances /\ call.names \in SUBSET AnyName /\ call.timedOut \in SUBSET AnyName
  BY DEF McpTypeOK, EntryNumbers, McpCallType
<1>1. ASSUME NEW I \in SUBSET Instances, Got(c, I)
      PROVE  /\ mcpCall' \in [McpCalls -> McpCallType] /\ clashed' \in BOOLEAN
             /\ \A d \in McpCalls : mcpCall'[d].at \in WithEntry => mcpCall'[d].entry # 0
  <2>1. [NoMcpCall EXCEPT !.at = "got", !.tools = I] \in McpCallType BY NewCallTyped
  <2> QED BY <1>1, <2>1, CallSet DEF Got, NoMcpCall, WithEntry
<1>2. ASSUME NEW s \in {"retrying", "discarding", "restarting"}, NEW I, s = call.at \/ call.at = "retrying",
             Set(c, [call EXCEPT !.at = s, !.got = call.got \ I])
      PROVE  /\ mcpCall' \in [McpCalls -> McpCallType] /\ clashed' \in BOOLEAN
             /\ \A d \in McpCalls : mcpCall'[d].at \in WithEntry => mcpCall'[d].entry # 0
  <2> DEFINE r == [call EXCEPT !.at = s, !.got = call.got \ I]
  <2>1. r = [[call EXCEPT !.at = s] EXCEPT !.got = call.got \ I] BY <1>0 DEF McpCallType
  <2>2. s \in McpStages /\ call.got \ I \in SUBSET Instances BY <1>0 DEF McpStages, Replaces
  <2>3. r \in McpCallType BY <1>0, <2>1, <2>2, McpFields
  <2>4. r.at \in WithEntry => r.entry # 0 BY <1>0, <1>2 DEF McpCallType, WithEntry, McpTypeOK
  <2> HIDE DEF r
  <2> QED BY <1>2, <2>3, <2>4, CallSet DEF r
<1>3. ASSUME call.at \in WithEntry, NEW D \in SUBSET AnyName, NEW T \in SUBSET AnyName,
             entries' = [entries EXCEPT ![call.entry] =
                            [entries[call.entry] EXCEPT !.has = With(entries[call.entry].has, call.got),
                                                        !.retrying = D, !.timedOut = T]]
      PROVE  entries' \in [1 .. MaxEntries -> EntryType]
  <2>1. entries[call.entry] \in EntryType BY <1>0, <1>3 DEF McpTypeOK
  <2>2. entries[call.entry].has \in SUBSET Instances BY <2>1 DEF EntryType
  <2>3. With(entries[call.entry].has, call.got) \in SUBSET Instances BY <1>0, <2>2, McpSets
  <2> DEFINE r == [entries[call.entry] EXCEPT !.has = With(entries[call.entry].has, call.got),
                                              !.retrying = D, !.timedOut = T]
  <2>4. r = [[[entries[call.entry] EXCEPT !.has = With(entries[call.entry].has, call.got)]
                EXCEPT !.retrying = D] EXCEPT !.timedOut = T]
    BY <2>1 DEF EntryType
  <2>5. r \in EntryType BY <2>1, <2>3, <2>4, McpFields
  <2> HIDE DEF r
  <2> QED BY <1>3, <2>5 DEF McpTypeOK, r
<1>4. call.at \in WithEntry =>
          /\ With(entries[call.entry].has, call.got) \in SUBSET Instances
          /\ entries[call.entry] \in EntryType
          /\ entries[call.entry].retrying \in SUBSET AnyName /\ entries[call.entry].timedOut \in SUBSET AnyName
  <2>1. call.at \in WithEntry => entries[call.entry] \in EntryType BY <1>0 DEF McpTypeOK
  <2> QED BY <1>0, <2>1, McpSets DEF EntryType
<1>5. CASE RetryEnds(c)
  <2> DEFINE has == With(entries[call.entry].has, call.got)
             D == entries[call.entry].retrying \ call.names
             T == (entries[call.entry].timedOut \ (call.names \cup NamesOf(has))) \cup call.timedOut
  <2>0. call.at = "retrying" /\ call.at \in WithEntry BY <1>5 DEF RetryEnds, WithEntry
  <2>1. CASE mcpEntry = call.entry
    <3>1. entries' = [entries EXCEPT ![call.entry] =
                         [entries[call.entry] EXCEPT !.has = has, !.retrying = D, !.timedOut = T]]
          /\ Got(c, has)
      <4>1. entries' = [entries EXCEPT ![call.entry] =
                           [entries[call.entry] EXCEPT !.has = has, !.retrying = @ \ call.names,
                                     !.timedOut = (@ \ (call.names \cup NamesOf(has))) \cup call.timedOut]]
            /\ Got(c, has)
        BY <1>5, <2>1 DEF RetryEnds
      <4>2. [entries[call.entry] EXCEPT !.has = has, !.retrying = @ \ call.names,
                                        !.timedOut = (@ \ (call.names \cup NamesOf(has))) \cup call.timedOut]
            = [entries[call.entry] EXCEPT !.has = has, !.retrying = D, !.timedOut = T]
        BY <1>4, <2>0 DEF EntryType
      <4> QED BY <1>0, <2>0, <4>1, <4>2 DEF McpTypeOK
    <3>2. D \in SUBSET AnyName /\ T \in SUBSET AnyName /\ has \in SUBSET Instances BY <1>0, <1>4, <2>0
    <3>3. entries' \in [1 .. MaxEntries -> EntryType] BY <1>3, <2>0, <3>1, <3>2
    <3> HIDE DEF has, D, T
    <3> QED BY <1>1, <1>5, <2>1, <3>1, <3>2, <3>3 DEF RetryEnds, McpTypeOK
  <2>2. CASE mcpEntry # call.entry
    <3>1. PICK I \in FirstOf(call.got) : server' = Closed(I) /\ Set(c, [call EXCEPT !.at = "discarding", !.got = call.got \ I])
      BY <1>5, <2>2 DEF RetryEnds
    <3> QED BY <1>2, <1>5, <2>0, <2>2, <3>1, ClosedFacts DEF RetryEnds, McpTypeOK
  <2> QED BY <2>1, <2>2
<1>6. CASE DiscardNext(c)
  <2>0. call.at = "discarding" /\ call.at \in WithEntry BY <1>6 DEF DiscardNext, WithEntry
  <2>1. CASE call.got # {}
    <3>1. PICK I \in FirstOf(call.got) : server' = Closed(I) /\ Set(c, [call EXCEPT !.got = call.got \ I])
      BY <1>6, <2>1 DEF DiscardNext
    <3>2. [call EXCEPT !.got = call.got \ I] = [call EXCEPT !.at = "discarding", !.got = call.got \ I]
      BY <1>0, <2>0 DEF McpCallType
    <3> QED BY <1>2, <1>6, <2>0, <2>1, <3>1, <3>2, ClosedFacts DEF DiscardNext, McpTypeOK
  <2>2. CASE call.got = {}
    <3>1. /\ entries' = [entries EXCEPT ![call.entry] = [entries[call.entry] EXCEPT !.retrying =
                            entries[call.entry].retrying \ call.names]]
          /\ Set(c, [NoMcpCall EXCEPT !.at = "look", !.sig = mcpConfig])
      BY <1>0, <1>6, <2>0, <2>2 DEF DiscardNext, McpTypeOK
    <3>2. entries[call.entry].retrying \ call.names \in SUBSET AnyName BY <1>4, <2>0
    <3>3. entries' \in [1 .. MaxEntries -> EntryType] BY <1>4, <2>0, <3>1, <3>2, McpFields DEF McpTypeOK
    <3>4. [NoMcpCall EXCEPT !.at = "look", !.sig = mcpConfig] \in McpCallType BY NewCallTyped
    <3> QED BY <1>6, <2>2, <3>1, <3>3, <3>4, CallSet DEF DiscardNext, McpTypeOK, NoMcpCall, WithEntry
  <2> QED BY <2>1, <2>2
<1>7. CASE RestartedJoin(c)
  <2> DEFINE has == With(entries[call.entry].has, call.got)
             D == entries[call.entry].retrying
             T == (entries[call.entry].timedOut \ NamesOf(has)) \cup call.timedOut
  <2>0. call.at \in WithEntry BY <1>7 DEF RestartedJoin, WithEntry
  <2>1. entries' = [entries EXCEPT ![call.entry] = [entries[call.entry] EXCEPT !.has = has, !.timedOut = T]]
        /\ Got(c, has)
    <3>1. entries' = [entries EXCEPT ![call.entry] =
                         [entries[call.entry] EXCEPT !.has = has, !.timedOut = (@ \ NamesOf(has)) \cup call.timedOut]]
          /\ Got(c, has)
      BY <1>7 DEF RestartedJoin
    <3>2. [entries[call.entry] EXCEPT !.has = has, !.timedOut = (@ \ NamesOf(has)) \cup call.timedOut]
          = [entries[call.entry] EXCEPT !.has = has, !.timedOut = T]
      BY <1>4, <2>0 DEF EntryType
    <3> QED BY <1>0, <2>0, <3>1, <3>2 DEF McpTypeOK
  <2>2. D \in SUBSET AnyName /\ T \in SUBSET AnyName /\ has \in SUBSET Instances BY <1>0, <1>4, <2>0
  <2>3. [entries[call.entry] EXCEPT !.has = has, !.timedOut = T]
            = [entries[call.entry] EXCEPT !.has = has, !.retrying = D, !.timedOut = T]
    BY <1>4, <2>0 DEF EntryType
  <2>4. entries' \in [1 .. MaxEntries -> EntryType] BY <1>3, <2>0, <2>1, <2>2, <2>3
  <2> HIDE DEF has, D, T
  <2> QED BY <1>1, <1>7, <2>1, <2>2, <2>4 DEF RestartedJoin, McpTypeOK
<1>8. CASE AllStarted(c)
  <2> DEFINE free == {e \in 1 .. MaxEntries : entries[e].sig = 0}
  <2>1. PICK e : e = CHOOSE x \in free : \A y \in free : x <= y OBVIOUS
  <2>2. e \in 1 .. MaxEntries
    <3>1. free \in SUBSET Nat /\ free # {} BY <1>8, McpBoundsAssumption DEF AllStarted
    <3> HIDE DEF free
    <3>2. e \in free BY <2>1, <3>1, LeastExists
    <3> QED BY <3>2 DEF free
  <2>3. /\ entries' = [entries EXCEPT ![e] = [sig |-> call.sig, has |-> call.got, timedOut |-> call.timedOut,
                                              retrying |-> {}]]
        /\ mcpEntry' = e /\ Got(c, call.got)
    BY <1>8, <2>1 DEF AllStarted
  <2>4. [sig |-> call.sig, has |-> call.got, timedOut |-> call.timedOut, retrying |-> {}] \in EntryType
    BY <1>0 DEF EntryType, McpCallType
  <2>5. e \in EntryNumbers BY <2>2, McpBoundsAssumption DEF EntryNumbers
  <2>6. entries' \in [1 .. MaxEntries -> EntryType] BY <2>2, <2>3, <2>4 DEF McpTypeOK
  <2>7. UNCHANGED <<mcpConfig, server, stopping, mcpRemoved>> BY <1>8 DEF AllStarted
  <2>8. call.got \in SUBSET Instances BY <1>0
  <2> HIDE DEF call
  <2> QED BY <1>1, <2>3, <2>5, <2>6, <2>7, <2>8 DEF McpTypeOK
<1>9. CASE StreamBegins(c)
  <2>1. "streaming" \in McpStages BY DEF McpStages
  <2>2. [call EXCEPT !.at = "streaming"] \in McpCallType BY <1>0, <2>1, McpFields
  <2>3. [call EXCEPT !.at = "streaming"].at \notin WithEntry BY <1>0 DEF McpCallType, WithEntry
  <2> QED BY <1>9, <2>2, <2>3, CallSet DEF StreamBegins, McpTypeOK
<1>10. CASE StreamOver(c)
  <2>1. NoMcpCall.at \notin WithEntry BY DEF NoMcpCall, WithEntry
  <2> QED BY <1>10, <2>1, McpFields, CallSet DEF StreamOver, McpTypeOK
<1> QED BY <1>5, <1>6, <1>7, <1>8, <1>9, <1>10

\* Every step keeps the types.
LEMMA McpTyped == McpTypeOK /\ McpNext => McpTypeOK'
  BY StopsTyped, LooksTyped, StartsTyped, EndsTyped DEF McpNext

\* An instance that was started keeps its name, and opens at no later time.
StartedStay ==
    \A i \in Instances : StateOf(i) # "none" =>
        /\ server'[i].name = server[i].name /\ server'[i].state # "none"
        /\ server'[i].state = "open" => StateOf(i) = "open"
        /\ StateOf(i) = "closed" => server'[i].state = "closed"

\* Closing instances does.
LEMMA ClosingStays ==
    ASSUME McpTypeOK, server' = server \/ \E I : server' = Closed(I)
    PROVE  StartedStay
  BY ClosedFacts DEF StartedStay, StateOf, McpTypeOK, ServerType

\* Every step does.
LEMMA StepStays == McpTypeOK /\ McpNext => StartedStay
<1> SUFFICES ASSUME McpTypeOK, McpNext PROVE StartedStay
  OBVIOUS
<1>1. ASSUME NEW i \in Instances, ServerDies(i) PROVE StartedStay
  BY <1>1 DEF ServerDies, StartedStay, StateOf, McpTypeOK, ServerType
<1>2. ASSUME NEW c \in McpCalls, NEW n \in McpNames, StartOne(c, n) PROVE StartedStay
  <2>1. CASE UNCHANGED server BY <2>1, ClosingStays
  <2>2. CASE Unused # {} /\ server' = [server EXCEPT ![CHOOSE j \in Unused : \A k \in Unused : j <= k] =
                                          [name |-> n, state |-> "open"]]
    <3>1. PICK i : i = CHOOSE j \in Unused : \A k \in Unused : j <= k OBVIOUS
    <3>2. Unused \in SUBSET Nat BY McpBoundsAssumption DEF Unused, Instances
    <3>3. i \in Unused BY <2>2, <3>1, <3>2, LeastExists
    <3>4. server' = [server EXCEPT ![i] = [name |-> n, state |-> "open"]] /\ StateOf(i) = "none"
      BY <2>2, <3>1, <3>3 DEF Unused
    <3> QED BY <3>4 DEF StartedStay, StateOf, McpTypeOK
  <2> QED BY <1>2, <2>1, <2>2 DEF StartOne
<1>3. BeginStop => StartedStay BY ClosingStays DEF BeginStop
<1>4. CASE ConfigChanges \/ IdleCleanup \/ Removal \/ StopsNext
  BY <1>3, <1>4, ClosingStays DEF ConfigChanges, IdleCleanup, Removal, StopsNext
<1>5. ASSUME NEW c \in McpCalls,
             \/ AskForTools(c) \/ UseCached(c) \/ DeferRestart(c) \/ ClearNext(c) \/ RestartAll(c)
             \/ RestartStops(c) \/ RetryEnds(c) \/ DiscardNext(c) \/ RestartedJoin(c) \/ AllStarted(c)
             \/ StreamBegins(c) \/ StreamOver(c)
      PROVE  StartedStay
  <2>1. UNCHANGED server \/ \E I : server' = Closed(I)
    BY <1>5 DEF AskForTools, UseCached, DeferRestart, ClearNext, RestartAll, RestartStops, RetryEnds, DiscardNext,
                RestartedJoin, AllStarted, StreamBegins, StreamOver
  <2> QED BY <2>1, ClosingStays
<1> QED BY <1>1, <1>2, <1>4, <1>5 DEF McpNext

\* Stages in which a call neither has started a server nor knows names.
Light == {"none", "look", "got", "streaming", "stopping", "starting"}

\* A step in which a call goes on without adding to an entry: if the call itself keeps what relates it
\* to the entries and to the others, all do.
LEMMA ShrinkStep ==
    ASSUME McpTypeOK, McpTypeOK', OnePlace, OneOfAName, RetriesApart, DeadLeave, WhoReplaces, StartedStay,
           NEW C \in SUBSET McpCalls, \A d \in McpCalls \ C : mcpCall'[d] = mcpCall[d],
           \A e \in 1 .. MaxEntries : entries'[e].has \subseteq Has(e) /\ entries'[e].timedOut = entries[e].timedOut,
           \A d \in McpCalls \ C : Retries(d) => mcpCall[d].names \subseteq entries'[mcpCall[d].entry].retrying,
           \/ mcpEntry' = mcpEntry
           \/ mcpEntry' = 0 /\ \A d \in McpCalls : At(d)' \notin {"clearing", "restarting"},
           \A c \in C : /\ \A i \in mcpCall'[c].got : i \in mcpCall[c].got \/ (StateOf(i) = "none" /\ StateOf(i)' # "none")
                        /\ mcpCall'[c].got # {} => At(c)' \in {"retrying", "discarding", "restarting", "starting"}
                        /\ OneInCall(c)' /\ RetryKnown(c)' /\ DeadLeft(c)'
                        /\ \A d \in McpCalls : d # c => RetriesDiffer(c, d)' /\ RetriesDiffer(d, c)',
           \A c, d \in C : c # d => mcpCall'[c].got \cap mcpCall'[d].got = {}
    PROVE  OnePlace' /\ OneOfAName' /\ RetriesApart' /\ DeadLeave'
<1>0. /\ \A e \in 1 .. MaxEntries : Has(e) \in SUBSET Instances /\ Has(e)' \subseteq Has(e)
      /\ \A c \in McpCalls : mcpCall[c].got \in SUBSET Instances
      /\ \A c \in McpCalls : At(c) \in WithEntry => mcpCall[c].entry \in 1 .. MaxEntries
      /\ \A d \in McpCalls \ C : mcpCall'[d] = mcpCall[d] /\ At(d)' = At(d)
  BY McpSets DEF McpTypeOK, McpCallType, EntryNumbers, Has, At
<1>1. /\ \A e \in 1 .. MaxEntries : \A i \in Has(e) : StateOf(i) # "none" /\ server'[i].name = server[i].name
                                                      /\ server'[i].state # "none"
      /\ \A c \in McpCalls : \A i \in mcpCall[c].got : StateOf(i) # "none" /\ server'[i].name = server[i].name
                                                      /\ server'[i].state # "none"
  BY <1>0 DEF OnePlace, StartedStay
<1>2. OnePlace'
  <2>1. \A c \in McpCalls : \A i \in mcpCall'[c].got :
           i \in mcpCall[c].got \/ (c \in C /\ StateOf(i) = "none" /\ server'[i].state # "none")
    BY <1>0 DEF StateOf
  <2>2. \A e, f \in 1 .. MaxEntries : e # f => Has(e)' \cap Has(f)' = {} BY <1>0 DEF OnePlace
  <2>3. \A e \in 1 .. MaxEntries, c \in McpCalls : Has(e)' \cap mcpCall'[c].got = {}
    BY <1>0, <1>1, <2>1 DEF OnePlace
  <2>4. \A c, d \in McpCalls : c # d => mcpCall'[c].got \cap mcpCall'[d].got = {}
    BY <1>0, <1>1, <2>1 DEF OnePlace
  <2>5. \A e \in 1 .. MaxEntries : \A i \in Has(e)' : server'[i].state # "none" BY <1>0, <1>1
  <2>6. \A c \in McpCalls : \A i \in mcpCall'[c].got : server'[i].state # "none" BY <1>1, <2>1
  <2>7. \A c \in McpCalls : mcpCall'[c].got # {} => At(c)' \in {"retrying", "discarding", "restarting", "starting"}
    BY <1>0 DEF OnePlace
  <2> QED BY <2>2, <2>3, <2>4, <2>5, <2>6, <2>7 DEF OnePlace, StateOf
<1>3. OneOfAName'
  <2>1. \A e \in 1 .. MaxEntries : OneInEntry(e)' BY <1>0, <1>1 DEF OneOfAName, OneInEntry
  <2>2. \A d \in McpCalls \ C : OneInCall(d)' BY <1>0, <1>1 DEF OneOfAName, OneInCall
  <2> QED BY <2>1, <2>2 DEF OneOfAName
<1>4. RetriesApart'
  <2>1. ASSUME NEW d \in McpCalls \ C PROVE RetryKnown(d)'
    <3>1. Retries(d)' => mcpCall'[d].names \subseteq entries'[mcpCall'[d].entry].retrying
      BY <1>0 DEF Retries
    <3>2. ASSUME At(d) = "retrying", mcpCall[d].entry = mcpEntry'
          PROVE  \A i \in Has(mcpEntry)' : server'[i].name \notin mcpCall[d].names
      <4>1. mcpCall[d].entry # 0 /\ mcpEntry' = mcpEntry /\ mcpEntry \in 1 .. MaxEntries
        BY <1>0, <3>2 DEF McpTypeOK, WithEntry, At
      <4>2. Has(mcpEntry)' \subseteq Has(mcpEntry) BY <4>1 DEF Has
      <4>3. \A i \in Has(mcpEntry) : server[i].name \notin mcpCall[d].names
        BY <3>2, <4>1 DEF RetriesApart, RetryKnown
      <4> QED BY <1>1, <4>1, <4>2, <4>3
    <3> QED BY <1>0, <3>1, <3>2 DEF RetryKnown, At
  <2>2. ASSUME NEW d \in McpCalls \ C, NEW f \in McpCalls \ C, d # f PROVE RetriesDiffer(d, f)'
    <3>1. RetriesDiffer(d, f) BY <2>2 DEF RetriesApart
    <3>2. Retries(d)' = Retries(d) /\ Retries(f)' = Retries(f) BY <1>0 DEF Retries
    <3>3. At(d) = "retrying" /\ mcpCall[d].entry = mcpEntry' => mcpEntry' = mcpEntry
      BY DEF McpTypeOK, WithEntry, At
    <3> QED BY <1>0, <3>1, <3>2, <3>3 DEF RetriesDiffer
  <2> QED BY <2>1, <2>2 DEF RetriesApart
<1>5. DeadLeave'
  <2>1. ASSUME NEW d \in McpCalls \ C PROVE DeadLeft(d)'
    <3> SUFFICES ASSUME At(d) \in {"clearing", "restarting"}
                 PROVE  /\ mcpCall[d].names \cap entries'[mcpEntry'].timedOut = {}
                        /\ \A i \in Has(mcpEntry)' : server'[i].name \in mcpCall[d].names =>
                               At(d) = "clearing" /\ server'[i].name \in mcpCall[d].todo /\ server'[i].state # "open"
      BY <1>0 DEF DeadLeft, StateOf
    <3>1. mcpEntry' = mcpEntry /\ mcpEntry \in 1 .. MaxEntries
      BY <1>0 DEF WhoReplaces, McpTypeOK, EntryNumbers
    <3>2. Has(mcpEntry)' \subseteq Has(mcpEntry) /\ entries'[mcpEntry'].timedOut = entries[mcpEntry].timedOut
      BY <3>1 DEF Has
    <3>3. \A i \in Has(mcpEntry) : StateOf(i) # "open" => server'[i].state # "open"
      BY <1>0, <1>1, <3>1 DEF StartedStay
    <3> QED BY <1>1, <3>1, <3>2, <3>3 DEF DeadLeave, DeadLeft
  <2> QED BY <2>1 DEF DeadLeave
<1> QED BY <1>2, <1>3, <1>4, <1>5

\* A step in which calls go to such stages, no entry changes but for the names that are tried again,
\* and at most the entry leaves the Map.
LEMMA LightStep ==
    ASSUME McpTypeOK, McpTypeOK', OnePlace, OneOfAName, RetriesApart, DeadLeave, WhoReplaces, StartedStay,
           \A c \in McpCalls : \/ mcpCall'[c] = mcpCall[c]
                               \/ /\ At(c)' \in Light /\ mcpCall'[c].got = {}
                                  /\ At(c)' \in {"look", "starting"} => mcpCall'[c].timedOut = {},
           \A e \in 1 .. MaxEntries : entries'[e].has = Has(e) /\ entries'[e].timedOut = entries[e].timedOut,
           \A c \in McpCalls : mcpCall'[c] = mcpCall[c] /\ Retries(c) =>
               mcpCall[c].names \subseteq entries'[mcpCall[c].entry].retrying,
           \/ mcpEntry' = mcpEntry
           \/ mcpEntry' = 0 /\ \A c \in McpCalls : At(c)' \notin {"clearing", "restarting"}
    PROVE  OnePlace' /\ OneOfAName' /\ RetriesApart' /\ DeadLeave'
<1> DEFINE C == {c \in McpCalls : mcpCall'[c] # mcpCall[c]}
<1>1. \A c \in C : /\ At(c)' \in Light /\ mcpCall'[c].got = {}
                   /\ At(c)' \in {"look", "starting"} => mcpCall'[c].timedOut = {}
  OBVIOUS
<1>2. \A c \in C : OneInCall(c)' BY <1>1 DEF OneInCall, Light
<1>3. \A c \in C : RetryKnown(c)' /\ DeadLeft(c)' BY <1>1 DEF RetryKnown, Retries, DeadLeft, Light
<1>4. \A c \in C : \A d \in McpCalls : d # c => RetriesDiffer(c, d)' /\ RetriesDiffer(d, c)'
  BY <1>1 DEF RetriesDiffer, Retries, Light
<1>5. C \in SUBSET McpCalls /\ \A d \in McpCalls \ C : mcpCall'[d] = mcpCall[d] OBVIOUS
<1> HIDE DEF C
<1>6. \A c, d \in C : c # d => mcpCall'[c].got \cap mcpCall'[d].got = {} BY <1>1
<1>7. \A e \in 1 .. MaxEntries : entries'[e].has \subseteq Has(e) /\ entries'[e].timedOut = entries[e].timedOut
  OBVIOUS
<1>8. \A d \in McpCalls \ C : Retries(d) => mcpCall[d].names \subseteq entries'[mcpCall[d].entry].retrying
  BY <1>5
<1>9. \A c \in C : /\ \A i \in mcpCall'[c].got : i \in mcpCall[c].got \/ (StateOf(i) = "none" /\ StateOf(i)' # "none")
                   /\ mcpCall'[c].got # {} => At(c)' \in {"retrying", "discarding", "restarting", "starting"}
                   /\ OneInCall(c)' /\ RetryKnown(c)' /\ DeadLeft(c)'
                   /\ \A d \in McpCalls : d # c => RetriesDiffer(c, d)' /\ RetriesDiffer(d, c)'
  BY <1>1, <1>2, <1>3, <1>4
<1> QED BY <1>5, <1>6, <1>7, <1>8, <1>9, ShrinkStep

\* A server dies, the configuration changes, a stop goes on, or there is nothing to stop.
LEMMA StopGoesOn ==
    ASSUME McpGood, McpTypeOK', StartedStay,
           ConfigChanges \/ StopsNext \/ (Removal /\ mcpEntry = 0) \/ \E i \in Instances : ServerDies(i)
    PROVE  Owned' /\ McpOrder'
<1>0. /\ McpTypeOK /\ Owned /\ EntriesUsed /\ OnePlace /\ WhoReplaces /\ DoneIsClosed /\ OneOfAName
      /\ RetriesApart /\ DeadLeave /\ ToolsAreKept
  BY DEF McpGood, McpOrder
<1>1. /\ UNCHANGED <<mcpEntry, entries, mcpCall>> /\ (mcpRemoved => mcpRemoved')
      /\ mcpEntry' = mcpEntry /\ \A c \in McpCalls : mcpCall'[c] = mcpCall[c]
  BY DEF ConfigChanges, StopsNext, ServerDies, Removal
<1>2. OnePlace' /\ OneOfAName' /\ RetriesApart' /\ DeadLeave'
  <2>1. \A e \in 1 .. MaxEntries : entries'[e].has = Has(e) /\ entries'[e].timedOut = entries[e].timedOut
    BY <1>1 DEF Has
  <2>2. \A c \in McpCalls : mcpCall'[c] = mcpCall[c] /\ Retries(c) =>
               mcpCall[c].names \subseteq entries'[mcpCall[c].entry].retrying
    BY <1>0, <1>1 DEF RetriesApart, RetryKnown
  <2>3. \A c \in McpCalls : \/ mcpCall'[c] = mcpCall[c]
                            \/ /\ At(c)' \in Light /\ mcpCall'[c].got = {}
                               /\ At(c)' \in {"look", "starting"} => mcpCall'[c].timedOut = {}
    BY <1>1
  <2>4. mcpEntry' = mcpEntry
    BY <1>1
  <2> QED BY <1>0, <2>1, <2>2, <2>3, <2>4, LightStep
<1>3. WhoReplaces' BY <1>0, <1>1 DEF WhoReplaces, At
<1>4. \A i \in Instances : server'[i].state = "open" => StateOf(i) = "open"
  BY <1>0, ClosedFacts DEF ConfigChanges, StopsNext, ServerDies, Removal, StateOf, McpTypeOK, ServerType
<1>5. ToolsAreKept'
  <2>1. \A c \in McpCalls : mcpCall[c].tools \in SUBSET Instances BY <1>0 DEF McpTypeOK, McpCallType
  <2> QED BY <1>0, <1>1, <1>4, <2>1 DEF ToolsAreKept, At, Has, StateOf, StartedStay
<1>6. /\ stopping' \in {stopping, NotStopping} \/ stopping'.entry = stopping.entry
      /\ \A i \in stopping'.done : i \in Instances /\ (i \in stopping.done \/ server'[i].state = "closed")
      /\ stopping # NotStopping /\ stopping' = NotStopping => Has(stopping.entry) \subseteq stopping.done
  <2>1. CASE UNCHANGED stopping BY <1>0, <2>1 DEF McpTypeOK, StopType, NotStopping
  <2>2. CASE StopsNext
    <3>0. stopping \in [entry : 1 .. MaxEntries, done : SUBSET Instances]
      BY <1>0, <2>2 DEF StopsNext, McpTypeOK, StopType
    <3>1. CASE Has(stopping.entry) \ stopping.done = {}
      BY <1>0, <2>2, <3>0, <3>1 DEF StopsNext, Has, NotStopping
    <3>2. CASE Has(stopping.entry) \ stopping.done # {}
      <4>1. PICK I \in FirstOf(Has(stopping.entry) \ stopping.done) :
               stopping' = [stopping EXCEPT !.done = stopping.done \cup I] /\ server' = Closed(I)
        BY <2>2, <3>2 DEF StopsNext, Has
      <4>2. I \subseteq Instances BY <1>0, <3>0, <4>1, FirstFacts, McpSets
      <4>3. stopping'.entry = stopping.entry /\ stopping'.done = stopping.done \cup I BY <3>0, <4>1
      <4>4. stopping' # NotStopping BY <3>0, <4>3 DEF NotStopping
      <4>5. \A i \in I : server'[i].state = "closed" BY <1>0, <4>1, <4>2, ClosedFacts
      <4> QED BY <3>0, <4>2, <4>3, <4>4, <4>5
    <3> QED BY <3>1, <3>2
  <2> QED BY <2>1, <2>2 DEF ConfigChanges, ServerDies, Removal
<1>7. DoneIsClosed'
  <2>1. \A c \in McpCalls : mcpCall[c].done \in SUBSET Instances BY <1>0 DEF McpTypeOK, McpCallType
  <2>2. \A i \in stopping'.done : server'[i].state = "closed"
    BY <1>0, <1>6 DEF DoneIsClosed, StartedStay
  <2>3. \A c \in McpCalls : At(c)' = "stopping" => \A i \in mcpCall'[c].done : server'[i].state = "closed"
    BY <1>0, <1>1, <2>1 DEF DoneIsClosed, StartedStay, At
  <2> QED BY <2>2, <2>3 DEF DoneIsClosed, StateOf
<1>8. EntriesUsed'
  <2>1. stopping'.entry \in {0, stopping.entry} BY <1>6 DEF NotStopping
  <2> QED BY <1>0, <1>1, <2>1 DEF EntriesUsed, Has, At
<1>9. Owned'
  <2> SUFFICES ASSUME NEW i \in Instances, server'[i].state = "open"
               PROVE  \/ mcpEntry' # 0 /\ i \in entries'[mcpEntry'].has
                      \/ stopping' # NotStopping /\ i \in entries'[stopping'.entry].has
                      \/ \E c \in McpCalls : \/ i \in mcpCall'[c].got
                                             \/ mcpCall'[c].at = "stopping" /\ i \in entries'[mcpCall'[c].entry].has
    BY DEF Owned, StateOf
  <2>1. StateOf(i) = "open" BY <1>4
  <2>2. CASE stopping # NotStopping /\ i \in Has(stopping.entry)
    <3>1. i \notin stopping.done BY <1>0, <2>1 DEF DoneIsClosed
    <3>2. stopping' # NotStopping BY <1>6, <2>2, <3>1
    <3> QED BY <1>1, <1>6, <2>2, <3>2 DEF Has
  <2> QED BY <1>0, <1>1, <2>1, <2>2 DEF Owned, Has
<1> QED BY <1>2, <1>3, <1>5, <1>7, <1>8, <1>9 DEF McpOrder

\* An entry leaves the Map while no call is starting servers for it, and no stream runs.
LEMMA StopBegins ==
    ASSUME McpGood, McpTypeOK', StartedStay, mcpEntry # 0, BeginStop, UNCHANGED <<entries, mcpCall>>,
           (\A c \in McpCalls : At(c) = "none") \/ mcpRemoved'
    PROVE  Owned' /\ ((\A c \in McpCalls : At(c) \notin {"clearing", "restarting", "streaming"}) => McpOrder')
<1>0. /\ McpTypeOK /\ Owned /\ EntriesUsed /\ OnePlace /\ WhoReplaces /\ DoneIsClosed /\ OneOfAName
      /\ RetriesApart /\ DeadLeave /\ ToolsAreKept
  BY DEF McpGood, McpOrder
<1>1. PICK I \in FirstOf(Has(mcpEntry)) : /\ stopping' = [entry |-> mcpEntry, done |-> I] /\ server' = Closed(I)
                                          /\ mcpEntry' = 0 /\ stopping = NotStopping
  BY DEF BeginStop, Has
<1>2. mcpEntry \in 1 .. MaxEntries /\ I \subseteq Instances
  <2>1. mcpEntry \in 1 .. MaxEntries BY <1>0 DEF McpTypeOK, EntryNumbers
  <2> QED BY <1>0, <1>1, <2>1, FirstFacts, McpSets
<1>3. stopping'.entry = mcpEntry /\ stopping'.done = I /\ stopping' # NotStopping BY <1>1 DEF NotStopping
<1>4. \A i \in Instances : server'[i].state = "open" => StateOf(i) = "open" /\ i \notin I
  BY <1>0, <1>1, <1>2, ClosedFacts DEF StateOf
<1>5. Owned'
  <2> SUFFICES ASSUME NEW i \in Instances, server'[i].state = "open"
               PROVE  \/ i \in Has(mcpEntry)
                      \/ \E c \in McpCalls : \/ i \in mcpCall'[c].got
                                             \/ mcpCall'[c].at = "stopping" /\ i \in entries'[mcpCall'[c].entry].has
    BY <1>3 DEF Owned, StateOf, Has
  <2> QED BY <1>0, <1>1, <1>4 DEF Owned, Has
<1>6. ASSUME \A c \in McpCalls : At(c) \notin {"clearing", "restarting", "streaming"} PROVE McpOrder'
  <2>1. OnePlace' /\ OneOfAName' /\ RetriesApart' /\ DeadLeave'
    <3>1. \A e \in 1 .. MaxEntries : entries'[e].has = Has(e) /\ entries'[e].timedOut = entries[e].timedOut
      BY DEF Has
    <3>2. \A c \in McpCalls : mcpCall'[c] = mcpCall[c] /\ Retries(c) =>
                 mcpCall[c].names \subseteq entries'[mcpCall[c].entry].retrying
      BY <1>0 DEF RetriesApart, RetryKnown
    <3>3. \A c \in McpCalls : At(c)' \notin {"clearing", "restarting"} BY <1>6 DEF At
    <3> QED BY <1>0, <1>1, <3>1, <3>2, <3>3, LightStep
  <2>2. WhoReplaces' BY <1>0, <1>1, <1>6 DEF WhoReplaces, At
  <2>3. DoneIsClosed'
    <3>1. \A i \in I : server'[i].state = "closed" BY <1>0, <1>1, <1>2, ClosedFacts
    <3>2. \A c \in McpCalls : mcpCall[c].done \in SUBSET Instances BY <1>0 DEF McpTypeOK, McpCallType
    <3> QED BY <1>0, <1>3, <3>1, <3>2 DEF DoneIsClosed, StateOf, At, StartedStay
  <2>4. EntriesUsed' BY <1>0, <1>1, <1>3 DEF EntriesUsed, Has, At
  <2>5. ToolsAreKept'
    <3>1. \A c \in McpCalls : mcpCall[c].tools \in SUBSET Instances BY <1>0 DEF McpTypeOK, McpCallType
    <3>2. \A c \in McpCalls : At(c)' = At(c) /\ mcpCall'[c].tools = mcpCall[c].tools BY DEF At
    <3>3. \A c \in McpCalls : At(c) \in {"got", "streaming"} => \A i \in mcpCall[c].tools : server'[i].state # "none"
      BY <1>0, <3>1 DEF ToolsAreKept, StartedStay
    <3> QED BY <1>6, <3>2, <3>3 DEF ToolsAreKept, StateOf
  <2> QED BY <2>1, <2>2, <2>3, <2>4, <2>5 DEF McpOrder
<1> QED BY <1>5, <1>6

\* What changes outside the calls.
LEMMA StopsStep ==
    ASSUME McpGood, ~clashed, McpTypeOK', StartedStay,
           ConfigChanges \/ (\E i \in Instances : ServerDies(i)) \/ IdleCleanup \/ Removal \/ StopsNext
    PROVE  Owned' /\ (~clashed' => McpOrder')
<1>1. CASE ConfigChanges \/ StopsNext \/ (Removal /\ mcpEntry = 0) \/ \E i \in Instances : ServerDies(i)
  BY <1>1, StopGoesOn
<1>2. CASE IdleCleanup
  <2>1. \A c \in McpCalls : At(c) = "none" BY <1>2 DEF IdleCleanup, At
  <2> QED BY <1>2, <2>1, StopBegins DEF IdleCleanup
<1>3. CASE Removal /\ mcpEntry # 0
  <2>2. BeginStop /\ mcpRemoved' /\ UNCHANGED <<entries, mcpCall>> BY <1>3 DEF Removal
  <2>3. ~clashed' => \A c \in McpCalls : At(c) \notin {"clearing", "restarting", "streaming"} BY <1>3 DEF Removal, At
  <2> QED BY <1>3, <2>2, <2>3, StopBegins
<1> QED BY <1>1, <1>2, <1>3

\* One call moves, and this is no clash.
Apart == \A c, d \in McpCalls : c # d /\ At(c)' \in Replaces => At(d)' \notin Replaces \cup {"got"}

\* A step of a call keeps what relates the calls to the entry, if it does so for the call itself, if
\* it takes only closed instances from the entry, and if the entry leaves the Map with no stream.
LEMMA CallStep ==
    ASSUME McpGood, McpTypeOK', StartedStay, Apart, NEW c \in McpCalls,
           \A d \in McpCalls : d # c => mcpCall'[d] = mcpCall[d],
           UNCHANGED <<mcpRemoved, stopping>>,
           \A e \in 1 .. MaxEntries : /\ entries[e].sig # 0 => entries'[e].sig # 0
                                      /\ entries'[e].sig = 0 => entries'[e].has = {},
           \/ mcpEntry' = mcpEntry
           \/ mcpEntry' = 0 /\ At(c)' = "stopping" /\ ~Leased
           \/ mcpEntry = 0 /\ At(c) = "starting" /\ entries[mcpEntry'].sig = 0 /\ entries'[mcpEntry'].sig # 0,
           At(c)' \in WithEntry => entries'[mcpCall'[c].entry].sig # 0,
           At(c)' \notin {"none", "got", "streaming"} => mcpCall'[c].sig # 0,
           At(c)' \in {"clearing", "restarting"} => mcpEntry' # 0 /\ mcpCall'[c].entry = mcpEntry',
           At(c)' \in {"stopping", "starting"} => mcpEntry' = 0,
           At(c)' = "got" => mcpEntry' # 0 \/ mcpRemoved,
           At(c)' = "streaming" => mcpEntry' # 0,
           At(c)' = "stopping" => \A i \in mcpCall'[c].done : server'[i].state = "closed",
           At(c)' \in {"got", "streaming"} =>
               \A i \in mcpCall'[c].tools :
                   /\ server'[i].state # "none"
                   /\ server'[i].state = "open" =>
                          (At(c)' = "got" /\ mcpRemoved) \/ (mcpEntry' # 0 /\ i \in entries'[mcpEntry'].has),
           mcpEntry # 0 => \A i \in Has(mcpEntry) : i \in entries'[mcpEntry].has \/ server'[i].state # "open"
    PROVE  EntriesUsed' /\ WhoReplaces' /\ DoneIsClosed' /\ ToolsAreKept'
<1>0. /\ McpTypeOK /\ EntriesUsed /\ WhoReplaces /\ DoneIsClosed /\ ToolsAreKept
  BY DEF McpGood, McpOrder
<1>1. \A d \in McpCalls : d # c => At(d)' = At(d) BY DEF At
<1>2. /\ \A d \in McpCalls : At(d) \in WithEntry => mcpCall[d].entry \in 1 .. MaxEntries
      /\ mcpEntry # 0 => mcpEntry \in 1 .. MaxEntries
      /\ stopping.entry # 0 => stopping.entry \in 1 .. MaxEntries
      /\ \A d \in McpCalls : mcpCall[d].done \in SUBSET Instances /\ mcpCall[d].tools \in SUBSET Instances
      /\ stopping.done \in SUBSET Instances
  BY <1>0 DEF McpTypeOK, McpCallType, EntryNumbers, StopType, NotStopping, At
<1>3. mcpEntry' # 0 => mcpEntry' \in 1 .. MaxEntries BY DEF McpTypeOK, EntryNumbers
<1>4. EntriesUsed'
  <2>1. mcpEntry' # 0 => entries'[mcpEntry'].sig # 0 BY <1>0, <1>2 DEF EntriesUsed
  <2>2. stopping.entry # 0 => entries'[stopping.entry].sig # 0 /\ stopping.entry # mcpEntry'
    BY <1>0, <1>2 DEF EntriesUsed
  <2>3. ASSUME NEW d \in McpCalls, d # c
        PROVE  /\ At(d) \in WithEntry => entries'[mcpCall[d].entry].sig # 0
               /\ At(d) \notin {"none", "got", "streaming"} => mcpCall[d].sig # 0
    BY <1>0, <1>2, <2>3 DEF EntriesUsed
  <2> QED BY <1>1, <2>1, <2>2, <2>3 DEF EntriesUsed, Has
<1>5. WhoReplaces'
  <2>1. ASSUME NEW d \in McpCalls, d # c
        PROVE  /\ At(d) \in {"clearing", "restarting"} => mcpEntry' # 0 /\ mcpCall[d].entry = mcpEntry'
               /\ At(d) \in {"stopping", "starting"} => mcpEntry' = 0
               /\ At(d) = "got" => mcpEntry' # 0 \/ mcpRemoved'
               /\ At(d) = "streaming" => mcpEntry' # 0
    <3>1. CASE mcpEntry' = mcpEntry BY <1>0, <3>1 DEF WhoReplaces
    <3>2. CASE mcpEntry' = 0 /\ At(c)' = "stopping" /\ ~Leased
      <4>1. At(d) \notin Replaces \cup {"got"} BY <1>1, <2>1, <3>2 DEF Apart, Replaces
      <4>2. At(d) # "streaming" BY <3>2 DEF Leased, At
      <4> QED BY <4>1, <4>2 DEF Replaces
    <3>3. CASE mcpEntry = 0 /\ At(c) = "starting" /\ entries[mcpEntry'].sig = 0 /\ entries'[mcpEntry'].sig # 0
      <4>1. At(d) \notin Replaces \cup {"got"} BY <1>0, <2>1, <3>3 DEF WhoReplaces, Replaces
      <4>2. At(d) # "streaming" BY <1>0, <3>3 DEF WhoReplaces
      <4> QED BY <4>1, <4>2 DEF Replaces
    <3> QED BY <3>1, <3>2, <3>3
  <2>2. \A d \in McpCalls :
           /\ At(d)' \in {"clearing", "restarting"} => mcpEntry' # 0 /\ mcpCall'[d].entry = mcpEntry'
           /\ At(d)' \in {"stopping", "starting"} => mcpEntry' = 0
           /\ At(d)' = "got" => mcpEntry' # 0 \/ mcpRemoved'
           /\ At(d)' = "streaming" => mcpEntry' # 0
    BY <1>1, <2>1
  <2> QED BY <2>2 DEF WhoReplaces, Apart
<1>6. DoneIsClosed'
  <2>1. \A i \in stopping'.done : server'[i].state = "closed" BY <1>0, <1>2 DEF DoneIsClosed, StartedStay
  <2>2. \A d \in McpCalls : d # c /\ At(d) = "stopping" => \A i \in mcpCall[d].done : server'[i].state = "closed"
    BY <1>0, <1>2 DEF DoneIsClosed, StartedStay
  <2> QED BY <1>1, <2>1, <2>2 DEF DoneIsClosed, StateOf
<1>7. ToolsAreKept'
  <2>1. ASSUME NEW d \in McpCalls, d # c, At(d) \in {"got", "streaming"}, NEW i \in mcpCall[d].tools
        PROVE  /\ server'[i].state # "none"
               /\ server'[i].state = "open" =>
                      (At(d) = "got" /\ mcpRemoved) \/ (mcpEntry' # 0 /\ i \in entries'[mcpEntry'].has)
    <3>1. StateOf(i) # "none" BY <1>0, <2>1 DEF ToolsAreKept
    <3>2. server'[i].state # "none" /\ (server'[i].state = "open" => StateOf(i) = "open")
      BY <1>2, <3>1 DEF StartedStay
    <3>3. mcpEntry' = mcpEntry \/ ~(At(d) \in {"got", "streaming"} /\ mcpEntry # 0)
      <4>1. CASE mcpEntry' = 0 /\ At(c)' = "stopping" /\ ~Leased
        <5>1. At(d) # "got" BY <1>1, <2>1, <4>1 DEF Apart, Replaces
        <5>2. At(d) # "streaming" BY <4>1 DEF Leased, At
        <5> QED BY <5>1, <5>2
      <4> QED BY <4>1
    <3>4. StateOf(i) = "open" => (At(d) = "got" /\ mcpRemoved) \/ (mcpEntry # 0 /\ i \in Has(mcpEntry))
      BY <1>0, <2>1 DEF ToolsAreKept
    <3> QED BY <2>1, <3>2, <3>3, <3>4
  <2>2. \A d \in McpCalls : At(d)' \in {"got", "streaming"} => \A i \in mcpCall'[d].tools :
           /\ server'[i].state # "none"
           /\ server'[i].state = "open" =>
                  (At(d)' = "got" /\ mcpRemoved') \/ (mcpEntry' # 0 /\ i \in entries'[mcpEntry'].has)
    BY <1>1, <2>1
  <2> QED BY <2>2 DEF ToolsAreKept, StateOf, Has
<1> QED BY <1>4, <1>5, <1>6, <1>7

\* Set() sees whether calls clash.
LEMMA ClashSeen ==
    ASSUME NEW c \in McpCalls, NEW r, Set(c, r)
    PROVE  ~clashed' => Apart
  BY DEF Set, Clash, Apart, At

\* A step of a call loses no server if what it takes from the call or from an entry is closed.
LEMMA NothingLost ==
    ASSUME McpGood, NEW c \in McpCalls, \A d \in McpCalls : d # c => mcpCall'[d] = mcpCall[d], UNCHANGED stopping,
           \A i \in Instances : server'[i].state = "open" => StateOf(i) = "open" \/ i \in mcpCall'[c].got,
           \A e \in 1 .. MaxEntries : \A i \in Has(e) : server'[i].state = "open" => i \in entries'[e].has,
           \A i \in mcpCall[c].got : server'[i].state = "open" =>
               i \in mcpCall'[c].got \/ (mcpEntry' # 0 /\ i \in entries'[mcpEntry'].has),
           At(c) = "stopping" => \/ At(c)' = "stopping" /\ mcpCall'[c].entry = mcpCall[c].entry
                                 \/ \A i \in Has(mcpCall[c].entry) : server'[i].state # "open",
           \/ mcpEntry' = mcpEntry
           \/ mcpEntry = 0
           \/ At(c)' = "stopping" /\ mcpCall'[c].entry = mcpEntry
    PROVE  Owned'
<1>0. McpTypeOK /\ Owned BY DEF McpGood
<1>1. /\ \A d \in McpCalls : At(d) = "stopping" => mcpCall[d].entry \in 1 .. MaxEntries
      /\ mcpEntry # 0 => mcpEntry \in 1 .. MaxEntries
      /\ stopping # NotStopping => stopping.entry \in 1 .. MaxEntries
  BY <1>0 DEF McpTypeOK, McpCallType, EntryNumbers, StopType, At, WithEntry
<1> SUFFICES ASSUME NEW i \in Instances, server'[i].state = "open"
             PROVE  \/ mcpEntry' # 0 /\ i \in entries'[mcpEntry'].has
                    \/ stopping # NotStopping /\ i \in entries'[stopping.entry].has
                    \/ \E d \in McpCalls : \/ i \in mcpCall'[d].got
                                           \/ mcpCall'[d].at = "stopping" /\ i \in entries'[mcpCall'[d].entry].has
  BY DEF Owned, StateOf
<1>2. CASE i \in mcpCall'[c].got BY <1>2
<1>3. CASE StateOf(i) = "open" /\ mcpEntry # 0 /\ i \in Has(mcpEntry)
  <2>1. i \in entries'[mcpEntry].has BY <1>1, <1>3
  <2> QED BY <1>3, <2>1 DEF At
<1>4. CASE StateOf(i) = "open" /\ stopping # NotStopping /\ i \in Has(stopping.entry)
  BY <1>1, <1>4
<1>5. CASE \E d \in McpCalls : i \in mcpCall[d].got BY <1>5
<1>6. ASSUME NEW d \in McpCalls, At(d) = "stopping", i \in Has(mcpCall[d].entry)
      PROVE  mcpCall'[d].at = "stopping" /\ i \in entries'[mcpCall'[d].entry].has
  <2>1. i \in entries'[mcpCall[d].entry].has BY <1>1, <1>6
  <2> QED BY <1>6, <2>1 DEF At
<1> QED BY <1>0, <1>2, <1>3, <1>4, <1>5, <1>6 DEF Owned, Has, At

\* A call goes to a stage in which it has started nothing, and the entries stay.
LEMMA LightCall ==
    ASSUME McpGood, McpTypeOK', StartedStay, ~clashed' => Apart, NEW c \in McpCalls,
           \A d \in McpCalls : d # c => mcpCall'[d] = mcpCall[d],
           UNCHANGED <<mcpRemoved, stopping>>,
           server' = server \/ \E I : server' = Closed(I),
           \A e \in 1 .. MaxEntries : /\ entries'[e].has = Has(e) /\ entries'[e].timedOut = entries[e].timedOut
                                      /\ entries'[e].sig = entries[e].sig,
           \A d \in McpCalls : d # c /\ Retries(d) =>
               mcpCall[d].names \subseteq entries'[mcpCall[d].entry].retrying,
           At(c)' \in Light, mcpCall[c].got = {}, mcpCall'[c].got = {},
           At(c)' \in {"look", "starting"} => mcpCall'[c].timedOut = {},
           \/ mcpEntry' = mcpEntry
           \/ mcpEntry' = 0 /\ At(c)' = "stopping" /\ mcpCall'[c].entry = mcpEntry /\ ~Leased,
           At(c)' = "stopping" => /\ entries[mcpCall'[c].entry].sig # 0
                                  /\ \A i \in mcpCall'[c].done : server'[i].state = "closed",
           At(c)' \in {"look", "stopping", "starting"} => mcpCall'[c].sig # 0,
           At(c)' \in {"stopping", "starting"} => mcpEntry' = 0,
           At(c)' \in {"got", "streaming"} => mcpEntry # 0 \/ (At(c)' = "got" /\ mcpRemoved),
           At(c)' \in {"got", "streaming"} => \A i \in mcpCall'[c].tools :
               /\ server'[i].state # "none"
               /\ server'[i].state = "open" => (At(c)' = "got" /\ mcpRemoved) \/ (mcpEntry # 0 /\ i \in Has(mcpEntry)),
           At(c) = "stopping" => \/ At(c)' = "stopping" /\ mcpCall'[c].entry = mcpCall[c].entry
                                 \/ \A i \in Has(mcpCall[c].entry) : server'[i].state # "open"
    PROVE  Owned' /\ (~clashed' => McpOrder')
<1>0. /\ McpTypeOK /\ OnePlace /\ WhoReplaces /\ OneOfAName /\ RetriesApart /\ DeadLeave /\ EntriesUsed
  BY DEF McpGood, McpOrder
<1>1. mcpEntry # 0 => mcpEntry \in 1 .. MaxEntries BY <1>0 DEF McpTypeOK, EntryNumbers
<1>2. \A i \in Instances : server'[i].state = "open" => StateOf(i) = "open"
  BY <1>0, ClosedFacts DEF StateOf
<1>3. Owned'
  <2>1. \A i \in Instances : server'[i].state = "open" => StateOf(i) = "open" \/ i \in mcpCall'[c].got BY <1>2
  <2>2. \A e \in 1 .. MaxEntries : \A i \in Has(e) : server'[i].state = "open" => i \in entries'[e].has OBVIOUS
  <2> QED BY <2>1, <2>2, NothingLost
<1>4. ASSUME ~clashed' PROVE EntriesUsed' /\ WhoReplaces' /\ DoneIsClosed' /\ ToolsAreKept'
  <2>1. \A e \in 1 .. MaxEntries : /\ entries[e].sig # 0 => entries'[e].sig # 0
                                   /\ entries'[e].sig = 0 => entries'[e].has = {}
    BY <1>0 DEF EntriesUsed
  <2>2. At(c)' \in WithEntry => At(c)' = "stopping" /\ entries'[mcpCall'[c].entry].sig # 0
    <3>1. At(c)' \in WithEntry => mcpCall'[c].entry \in 1 .. MaxEntries
      BY DEF McpTypeOK, McpCallType, EntryNumbers, At
    <3> QED BY <3>1 DEF WithEntry, Light
  <2>3. At(c)' \notin {"none", "got", "streaming"} => mcpCall'[c].sig # 0 BY DEF Light
  <2>4. At(c)' \notin {"clearing", "restarting"} BY DEF Light
  <2>5. mcpEntry # 0 => \A i \in Has(mcpEntry) : i \in entries'[mcpEntry].has \/ server'[i].state # "open" BY <1>1
  <2>6. At(c)' \in {"got", "streaming"} => mcpEntry' = mcpEntry OBVIOUS
  <2>7. At(c)' \in {"got", "streaming"} => \A i \in mcpCall'[c].tools :
           /\ server'[i].state # "none"
           /\ server'[i].state = "open" =>
                  (At(c)' = "got" /\ mcpRemoved) \/ (mcpEntry' # 0 /\ i \in entries'[mcpEntry'].has)
    BY <1>1, <2>6
  <2>8. (At(c)' = "got" => mcpEntry' # 0 \/ mcpRemoved) /\ (At(c)' = "streaming" => mcpEntry' # 0) BY <2>6
  <2>9. Apart BY <1>4
  <2>10. \/ mcpEntry' = mcpEntry
         \/ mcpEntry' = 0 /\ At(c)' = "stopping" /\ ~Leased
    OBVIOUS
  <2> QED BY <2>1, <2>2, <2>3, <2>4, <2>5, <2>7, <2>8, <2>9, <2>10, CallStep
<1>5. ASSUME ~clashed' PROVE OnePlace' /\ OneOfAName' /\ RetriesApart' /\ DeadLeave'
  <2>1. \A d \in McpCalls : \/ mcpCall'[d] = mcpCall[d]
                            \/ /\ At(d)' \in Light /\ mcpCall'[d].got = {}
                               /\ At(d)' \in {"look", "starting"} => mcpCall'[d].timedOut = {}
    BY DEF At
  <2>2. \A d \in McpCalls : mcpCall'[d] = mcpCall[d] /\ Retries(d) =>
               mcpCall[d].names \subseteq entries'[mcpCall[d].entry].retrying
    BY DEF At, Light, Retries
  <2>3. \/ mcpEntry' = mcpEntry
        \/ mcpEntry' = 0 /\ \A d \in McpCalls : At(d)' \notin {"clearing", "restarting"}
    BY <1>4, <1>5 DEF Apart, Replaces
  <2> QED BY <1>0, <2>1, <2>2, <2>3, LightStep
<1> QED BY <1>3, <1>4, <1>5 DEF McpOrder

\* Every retry keeps its names, and nothing changes in the entries.
LEMMA EntriesStay ==
    ASSUME McpGood, UNCHANGED entries
    PROVE  /\ \A e \in 1 .. MaxEntries : /\ entries'[e].has = Has(e) /\ entries'[e].timedOut = entries[e].timedOut
                                         /\ entries'[e].sig = entries[e].sig
           /\ \A d \in McpCalls : Retries(d) =>
                  mcpCall[d].names \subseteq entries'[mcpCall[d].entry].retrying
  BY DEF McpGood, McpOrder, RetriesApart, RetryKnown, Has

\* A call that has got the tools of the entry as they are.
LEMMA GotStep ==
    ASSUME McpGood, McpTypeOK', StartedStay, NEW c \in McpCalls, mcpEntry # 0, mcpCall[c].got = {}, At(c) # "stopping",
           Got(c, entries[mcpEntry].has), UNCHANGED <<mcpEntry, entries, server, stopping, mcpRemoved>>
    PROVE  Owned' /\ (~clashed' => McpOrder')
<1>0. McpTypeOK /\ OnePlace BY DEF McpGood, McpOrder
<1>1. mcpEntry \in 1 .. MaxEntries BY <1>0 DEF McpTypeOK, EntryNumbers
<1>2. Has(mcpEntry) \in SUBSET Instances BY <1>0, <1>1, McpSets
<1> DEFINE r == [NoMcpCall EXCEPT !.at = "got", !.tools = Has(mcpEntry)]
<1>3. r \in McpCallType /\ r.at = "got" /\ r.got = {} /\ r.tools = Has(mcpEntry)
  BY <1>0, <1>2, NewCallTyped DEF NoMcpCall
<1>4. Set(c, r) BY DEF Got, Has
<1> HIDE DEF r
<1>5. mcpCall'[c] = r /\ \A d \in McpCalls : d # c => mcpCall'[d] = mcpCall[d]
  BY <1>0, <1>3, <1>4, CallSet DEF WithEntry
<1>6. ~clashed' => Apart BY <1>4, ClashSeen
<1>7. At(c)' = "got" BY <1>3, <1>5 DEF At
<1>8. \A i \in mcpCall'[c].tools : server'[i].state # "none" /\ (server'[i].state = "open" => i \in Has(mcpEntry))
  BY <1>0, <1>1, <1>3, <1>5 DEF OnePlace, StateOf
<1>9. mcpCall'[c].got = {} BY <1>3, <1>5
<1>10. mcpEntry' = mcpEntry /\ server' = server OBVIOUS
<1>11. At(c)' \in Light BY <1>7 DEF Light
<1> QED BY <1>5, <1>6, <1>7, <1>8, <1>9, <1>10, <1>11, LightCall, EntriesStay

\* A call begins, and looks at the entry.
LEMMA AskStep ==
    ASSUME McpGood, McpTypeOK', StartedStay, NEW c \in McpCalls, AskForTools(c)
    PROVE  Owned' /\ (~clashed' => McpOrder')
<1>0. McpTypeOK /\ OnePlace BY DEF McpGood, McpOrder
<1> DEFINE r == [NoMcpCall EXCEPT !.at = "look", !.sig = mcpConfig]
<1>1. r \in McpCallType /\ r.at = "look" /\ r.got = {} /\ r.timedOut = {} /\ r.sig = mcpConfig
  BY <1>0, NewCallTyped DEF NoMcpCall
<1>2. Set(c, r) /\ UNCHANGED <<mcpEntry, entries, server, stopping, mcpRemoved>> BY DEF AskForTools
<1> HIDE DEF r
<1>3. mcpCall'[c] = r /\ \A d \in McpCalls : d # c => mcpCall'[d] = mcpCall[d]
  BY <1>0, <1>1, <1>2, CallSet DEF WithEntry
<1>4. ~clashed' => Apart BY <1>2, ClashSeen
<1>5. At(c)' = "look" /\ At(c) = "none" BY <1>1, <1>3 DEF At, AskForTools
<1>6. mcpCall[c].got = {} /\ mcpCall'[c].got = {} /\ mcpCall'[c].timedOut = {}
  BY <1>0, <1>1, <1>3, <1>5 DEF OnePlace
<1>7. mcpEntry' = mcpEntry /\ server' = server BY <1>2
<1>8. At(c)' \in Light BY <1>5 DEF Light
<1>9. mcpCall'[c].sig # 0 BY <1>0, <1>1, <1>3 DEF McpTypeOK
<1> QED BY <1>2, <1>3, <1>4, <1>5, <1>6, <1>7, <1>8, <1>9, LightCall, EntriesStay

\* The stream begins, or is over.
LEMMA StreamStep ==
    ASSUME McpGood, McpTypeOK', StartedStay, NEW c \in McpCalls, StreamBegins(c) \/ StreamOver(c)
    PROVE  Owned' /\ (~clashed' => McpOrder')
<1>0. McpTypeOK /\ OnePlace /\ ToolsAreKept /\ WhoReplaces BY DEF McpGood, McpOrder
<1>1. PICK r : Set(c, r) /\ (\/ r = [mcpCall[c] EXCEPT !.at = "streaming"] /\ At(c) = "got" /\ ~mcpRemoved
                             \/ r = NoMcpCall)
  BY DEF StreamBegins, StreamOver, At
<1>2. At(c) \in {"got", "streaming"} /\ UNCHANGED <<mcpEntry, entries, server, stopping, mcpRemoved>>
  BY DEF StreamBegins, StreamOver, At
<1>3. mcpCall[c].got = {} /\ mcpCall[c] \in McpCallType BY <1>0, <1>2 DEF OnePlace, McpTypeOK
<1>4. r = [mcpCall[c] EXCEPT !.at = "streaming"] =>
          r \in McpCallType /\ r.at = "streaming" /\ r.got = {} /\ r.tools = mcpCall[c].tools
  BY <1>3 DEF McpCallType, McpStages
<1>5. r = NoMcpCall => r \in McpCallType /\ r.at = "none" /\ r.got = {} BY McpFields DEF NoMcpCall
<1>6. mcpCall'[c] = r /\ \A d \in McpCalls : d # c => mcpCall'[d] = mcpCall[d]
  BY <1>0, <1>1, <1>4, <1>5, CallSet DEF WithEntry
<1>7. At(c)' = "none" \/ (At(c)' = "streaming" /\ At(c) = "got" /\ ~mcpRemoved /\ mcpCall'[c].tools = mcpCall[c].tools)
  BY <1>1, <1>4, <1>5, <1>6 DEF At
<1>8. ~clashed' => Apart BY <1>1, ClashSeen
<1>9. mcpEntry' = mcpEntry /\ server' = server BY <1>2
<1>10. At(c)' \in Light /\ mcpCall'[c].got = {} BY <1>1, <1>4, <1>5, <1>6, <1>7 DEF Light
<1>11. At(c)' = "streaming" =>
          /\ mcpEntry # 0
          /\ \A i \in mcpCall'[c].tools : server'[i].state # "none" /\ (server'[i].state = "open" => i \in Has(mcpEntry))
  BY <1>0, <1>7, <1>9 DEF ToolsAreKept, WhoReplaces, StateOf
<1> QED BY <1>2, <1>3, <1>6, <1>7, <1>8, <1>9, <1>10, <1>11, LightCall, EntriesStay

\* A call begins to start all servers, with nothing left of those before.
LEMMA StartsStep ==
    ASSUME McpGood, McpTypeOK', StartedStay, NEW c \in McpCalls, Starts(c), At(c) \in {"look", "stopping"}, mcpEntry = 0,
           At(c) = "stopping" => \A i \in Has(mcpCall[c].entry) : StateOf(i) # "open",
           UNCHANGED <<mcpEntry, entries, server, stopping, mcpRemoved>>
    PROVE  Owned' /\ (~clashed' => McpOrder')
<1>0. McpTypeOK /\ OnePlace /\ EntriesUsed BY DEF McpGood, McpOrder
<1> DEFINE r == [NoMcpCall EXCEPT !.at = "starting", !.sig = mcpCall[c].sig, !.todo = McpNames]
<1>1. r \in McpCallType /\ r.at = "starting" /\ r.got = {} /\ r.timedOut = {} /\ r.sig = mcpCall[c].sig
  BY <1>0, NewCallTyped DEF NoMcpCall
<1>2. Set(c, r) BY DEF Starts
<1> HIDE DEF r
<1>3. mcpCall'[c] = r /\ \A d \in McpCalls : d # c => mcpCall'[d] = mcpCall[d]
  BY <1>0, <1>1, <1>2, CallSet DEF WithEntry
<1>4. ~clashed' => Apart BY <1>2, ClashSeen
<1>5. At(c)' = "starting" BY <1>1, <1>3 DEF At
<1>6. mcpCall[c].got = {} /\ mcpCall'[c].got = {} /\ mcpCall'[c].timedOut = {}
  BY <1>0, <1>1, <1>3, <1>5 DEF OnePlace
<1>7. mcpEntry' = mcpEntry /\ server' = server OBVIOUS
<1>8. At(c)' \in Light BY <1>5 DEF Light
<1>9. mcpCall'[c].sig # 0 BY <1>0, <1>1, <1>3 DEF EntriesUsed
<1>10. At(c) = "stopping" => \A i \in Has(mcpCall[c].entry) : server'[i].state # "open" BY DEF StateOf
<1> QED BY <1>3, <1>4, <1>5, <1>6, <1>7, <1>8, <1>9, <1>10, LightCall, EntriesStay

\* A call stops the servers, all of which leave the Map, or goes on to stop them.
LEMMA RestartStep ==
    ASSUME McpGood, McpTypeOK', StartedStay, NEW c \in McpCalls, RestartAll(c) \/ RestartStops(c)
    PROVE  Owned' /\ (~clashed' => McpOrder')
<1>0. McpTypeOK /\ OnePlace /\ EntriesUsed /\ DoneIsClosed /\ WhoReplaces BY DEF McpGood, McpOrder
<1>1. mcpCall[c] \in McpCallType BY <1>0 DEF McpTypeOK
<1>2. CASE RestartAll(c) /\ mcpEntry = 0
  BY <1>2, StartsStep DEF RestartAll, At
<1>3. CASE RestartAll(c) /\ mcpEntry # 0
  <2> DEFINE r(I) == [mcpCall[c] EXCEPT !.at = "stopping", !.entry = mcpEntry, !.done = I]
  <2>1. PICK I \in FirstOf(Has(mcpEntry)) : Set(c, r(I)) /\ server' = Closed(I)
    BY <1>3 DEF RestartAll, Has
  <2>2. mcpEntry \in 1 .. MaxEntries /\ I \subseteq Instances
    <3>1. mcpEntry \in 1 .. MaxEntries BY <1>0, <1>3 DEF McpTypeOK, EntryNumbers
    <3> QED BY <1>0, <2>1, <3>1, FirstFacts, McpSets
  <2>3. r(I) \in McpCallType /\ r(I).at = "stopping" /\ r(I).entry = mcpEntry /\ r(I).done = I
      /\ r(I).got = mcpCall[c].got /\ r(I).sig = mcpCall[c].sig
    BY <1>0, <1>1, <2>2 DEF McpCallType, McpTypeOK, McpStages, Replaces
  <2> HIDE DEF r
  <2>4. mcpCall'[c] = r(I) /\ \A d \in McpCalls : d # c => mcpCall'[d] = mcpCall[d]
    BY <1>0, <1>3, <2>1, <2>3, CallSet
  <2>5. ~clashed' => Apart BY <2>1, ClashSeen
  <2>6. At(c) = "look" /\ At(c)' = "stopping" /\ mcpEntry' = 0 /\ ~Leased /\ UNCHANGED <<entries, stopping, mcpRemoved>>
    BY <1>3, <2>3, <2>4 DEF At, RestartAll
  <2>7. mcpCall[c].got = {} /\ mcpCall'[c].got = {} BY <1>0, <2>3, <2>4, <2>6 DEF OnePlace
  <2>8. mcpCall'[c].sig # 0 BY <1>0, <2>3, <2>4, <2>6 DEF EntriesUsed
  <2>9. entries[mcpCall'[c].entry].sig # 0 /\ mcpCall'[c].entry = mcpEntry BY <1>0, <1>3, <2>3, <2>4 DEF EntriesUsed
  <2>10. \A i \in mcpCall'[c].done : server'[i].state = "closed" BY <1>0, <2>1, <2>2, <2>3, <2>4, ClosedFacts
  <2>11. At(c)' \in Light BY <2>6 DEF Light
  <2> QED BY <2>1, <2>4, <2>5, <2>6, <2>7, <2>8, <2>9, <2>10, <2>11, LightCall, EntriesStay
<1>4. CASE RestartStops(c)
  <2> DEFINE left == Has(mcpCall[c].entry) \ mcpCall[c].done
             r(I) == [mcpCall[c] EXCEPT !.done = mcpCall[c].done \cup I]
  <2>1. At(c) = "stopping" /\ mcpEntry = 0 /\ mcpCall[c].entry \in 1 .. MaxEntries
      /\ UNCHANGED <<mcpEntry, entries, stopping, mcpRemoved>>
    BY <1>0, <1>4 DEF RestartStops, At, WhoReplaces, McpTypeOK, McpCallType, WithEntry, EntryNumbers
  <2>2. CASE left = {}
    <3>1. \A i \in Has(mcpCall[c].entry) : StateOf(i) # "open" BY <1>0, <2>1, <2>2 DEF DoneIsClosed
    <3>2. Starts(c) /\ UNCHANGED server BY <1>4, <2>2 DEF RestartStops, Has
    <3> QED BY <2>1, <3>1, <3>2, StartsStep
  <2>3. CASE left # {}
    <3>1. PICK I \in FirstOf(left) : Set(c, r(I)) /\ server' = Closed(I)
      BY <1>4, <2>3 DEF RestartStops, Has
    <3>2. I \subseteq Instances BY <1>0, <2>1, <3>1, FirstFacts, McpSets
    <3>3. r(I) \in McpCallType /\ r(I).at = "stopping" /\ r(I).entry = mcpCall[c].entry
        /\ r(I).done = mcpCall[c].done \cup I /\ r(I).got = mcpCall[c].got /\ r(I).sig = mcpCall[c].sig
      BY <1>1, <2>1, <3>2 DEF McpCallType, At
    <3> HIDE DEF r
    <3>4. mcpCall'[c] = r(I) /\ \A d \in McpCalls : d # c => mcpCall'[d] = mcpCall[d]
      BY <1>0, <2>1, <3>1, <3>3, CallSet
    <3>5. ~clashed' => Apart BY <3>1, ClashSeen
    <3>6. At(c)' = "stopping" /\ mcpCall'[c].entry = mcpCall[c].entry BY <3>3, <3>4 DEF At
    <3>7. mcpCall[c].got = {} /\ mcpCall'[c].got = {} BY <1>0, <2>1, <3>3, <3>4 DEF OnePlace
    <3>8. mcpCall'[c].sig # 0 /\ entries[mcpCall'[c].entry].sig # 0
      BY <1>0, <2>1, <3>3, <3>4, <3>6 DEF EntriesUsed, WithEntry
    <3>9. \A i \in mcpCall'[c].done : server'[i].state = "closed"
      <4>1. \A i \in I : server'[i].state = "closed" BY <1>0, <3>1, <3>2, ClosedFacts
      <4>2. \A i \in mcpCall[c].done : i \in Instances /\ StateOf(i) = "closed"
        BY <1>0, <1>1, <2>1 DEF DoneIsClosed, McpCallType
      <4>3. \A i \in mcpCall[c].done : server'[i].state = "closed" BY <4>2 DEF StartedStay
      <4> QED BY <3>3, <3>4, <4>1, <4>3
    <3>10. At(c)' \in Light BY <3>6 DEF Light
    <3>11. mcpEntry' = mcpEntry BY <2>1
    <3> QED BY <2>1, <3>1, <3>4, <3>5, <3>6, <3>7, <3>8, <3>9, <3>10, <3>11, LightCall, EntriesStay
  <2> QED BY <2>2, <2>3
<1> QED BY <1>2, <1>3, <1>4

\* A retry whose servers were discarded gives its names back, and looks again.
LEMMA DiscardedStep ==
    ASSUME McpGood, McpTypeOK', StartedStay, NEW c \in McpCalls, DiscardNext(c), mcpCall[c].got = {}
    PROVE  Owned' /\ (~clashed' => McpOrder')
<1>0. McpTypeOK /\ OnePlace /\ RetriesApart BY DEF McpGood, McpOrder
<1> DEFINE r == [NoMcpCall EXCEPT !.at = "look", !.sig = mcpConfig]
           k == mcpCall[c].entry
<1>1. r \in McpCallType /\ r.at = "look" /\ r.got = {} /\ r.timedOut = {} /\ r.sig = mcpConfig
  BY <1>0, NewCallTyped DEF NoMcpCall
<1>2. /\ At(c) = "discarding" /\ Set(c, r) /\ UNCHANGED <<mcpEntry, server, stopping, mcpRemoved>>
      /\ entries' = [entries EXCEPT ![k].retrying = @ \ mcpCall[c].names]
  BY DEF DiscardNext, At
<1> HIDE DEF r
<1>3. mcpCall'[c] = r /\ \A d \in McpCalls : d # c => mcpCall'[d] = mcpCall[d]
  BY <1>0, <1>1, <1>2, CallSet DEF WithEntry
<1>4. ~clashed' => Apart BY <1>2, ClashSeen
<1>5. At(c)' = "look" BY <1>1, <1>3 DEF At
<1>6. mcpCall'[c].got = {} /\ mcpCall'[c].timedOut = {} BY <1>1, <1>3
<1>7. mcpEntry' = mcpEntry /\ server' = server BY <1>2
<1>8. At(c)' \in Light BY <1>5 DEF Light
<1>9. mcpCall'[c].sig # 0 BY <1>0, <1>1, <1>3 DEF McpTypeOK
<1>10. k \in 1 .. MaxEntries BY <1>0, <1>2 DEF McpTypeOK, McpCallType, WithEntry, At, EntryNumbers
<1>11. /\ \A e \in 1 .. MaxEntries : /\ entries'[e].has = Has(e) /\ entries'[e].timedOut = entries[e].timedOut
                                     /\ entries'[e].sig = entries[e].sig /\ (e # k => entries'[e] = entries[e])
       /\ entries'[k].retrying = entries[k].retrying \ mcpCall[c].names
  BY <1>0, <1>2, <1>10 DEF McpTypeOK, EntryType, Has
<1>12. ASSUME NEW d \in McpCalls, d # c, Retries(d)
       PROVE  mcpCall[d].names \subseteq entries'[mcpCall[d].entry].retrying
  <2>1. mcpCall[d].entry \in 1 .. MaxEntries BY <1>0, <1>12 DEF McpTypeOK, McpCallType, WithEntry, At, EntryNumbers, Retries
  <2>2. mcpCall[d].names \subseteq entries[mcpCall[d].entry].retrying BY <1>0, <1>12 DEF RetriesApart, RetryKnown
  <2>3. mcpCall[d].entry = k => mcpCall[d].names \cap mcpCall[c].names = {} BY <1>0, <1>2, <1>12 DEF RetriesApart, RetriesDiffer, Retries
  <2> QED BY <1>11, <2>1, <2>2, <2>3
<1> QED BY <1>2, <1>3, <1>4, <1>5, <1>6, <1>7, <1>8, <1>9, <1>11, <1>12, LightCall

\* A call goes on that replaces servers or tries them again, and takes closed ones from the entry.
LEMMA ShrinkCall ==
    ASSUME McpGood, McpTypeOK', StartedStay, ~clashed' => Apart, NEW c \in McpCalls,
           \A d \in McpCalls : d # c => mcpCall'[d] = mcpCall[d],
           UNCHANGED <<mcpEntry, mcpRemoved, stopping>>,
           \A e \in 1 .. MaxEntries :
               /\ entries'[e].has \subseteq Has(e) /\ entries'[e].timedOut = entries[e].timedOut
               /\ entries'[e].sig = entries[e].sig /\ entries[e].retrying \subseteq entries'[e].retrying
               /\ \A i \in Has(e) : i \in entries'[e].has \/ server'[i].state # "open",
           At(c) # "stopping", At(c)' \in {"retrying", "discarding", "clearing", "restarting", "starting"},
           At(c)' \in WithEntry => entries[mcpCall'[c].entry].sig # 0,
           mcpCall'[c].sig # 0,
           At(c)' \in {"clearing", "restarting"} => mcpEntry # 0 /\ mcpCall'[c].entry = mcpEntry,
           At(c)' = "starting" => mcpEntry = 0,
           \A i \in Instances : server'[i].state = "open" => StateOf(i) = "open" \/ i \in mcpCall'[c].got,
           \A i \in mcpCall[c].got : server'[i].state = "open" => i \in mcpCall'[c].got,
           \A i \in mcpCall'[c].got : i \in mcpCall[c].got \/ (StateOf(i) = "none" /\ StateOf(i)' # "none"),
           mcpCall'[c].got # {} => At(c)' # "clearing",
           ~clashed' => /\ OneInCall(c)' /\ RetryKnown(c)' /\ DeadLeft(c)'
                        /\ \A d \in McpCalls : d # c => RetriesDiffer(c, d)' /\ RetriesDiffer(d, c)'
    PROVE  Owned' /\ (~clashed' => McpOrder')
<1>0. /\ McpTypeOK /\ OnePlace /\ WhoReplaces /\ OneOfAName /\ RetriesApart /\ DeadLeave /\ EntriesUsed
  BY DEF McpGood, McpOrder
<1>1. mcpEntry' = mcpEntry /\ (mcpEntry # 0 => mcpEntry \in 1 .. MaxEntries) BY <1>0 DEF McpTypeOK, EntryNumbers
<1>2. Owned'
  <2>1. \A e \in 1 .. MaxEntries : \A i \in Has(e) : server'[i].state = "open" => i \in entries'[e].has OBVIOUS
  <2> QED BY <1>1, <2>1, NothingLost
<1>3. ASSUME ~clashed' PROVE EntriesUsed' /\ WhoReplaces' /\ DoneIsClosed' /\ ToolsAreKept'
  <2>1. \A e \in 1 .. MaxEntries : /\ entries[e].sig # 0 => entries'[e].sig # 0
                                   /\ entries'[e].sig = 0 => entries'[e].has = {}
    BY <1>0 DEF EntriesUsed
  <2>2. At(c)' \in WithEntry => entries'[mcpCall'[c].entry].sig # 0
    <3>1. At(c)' \in WithEntry => mcpCall'[c].entry \in 1 .. MaxEntries
      BY DEF McpTypeOK, McpCallType, EntryNumbers, At
    <3> QED BY <3>1
  <2>3. mcpEntry # 0 => \A i \in Has(mcpEntry) : i \in entries'[mcpEntry].has \/ server'[i].state # "open" BY <1>1
  <2>4. Apart BY <1>3
  <2>5. At(c)' \notin {"got", "streaming", "stopping"} OBVIOUS
  <2> QED BY <1>1, <2>1, <2>2, <2>3, <2>4, <2>5, CallStep
<1>4. ASSUME ~clashed' PROVE OnePlace' /\ OneOfAName' /\ RetriesApart' /\ DeadLeave'
  <2> DEFINE C == {c}
  <2>1. C \in SUBSET McpCalls /\ \A d \in McpCalls \ C : mcpCall'[d] = mcpCall[d] OBVIOUS
  <2>2. \A e \in 1 .. MaxEntries : entries'[e].has \subseteq Has(e) /\ entries'[e].timedOut = entries[e].timedOut
    OBVIOUS
  <2>3. \A d \in McpCalls \ C : Retries(d) => mcpCall[d].names \subseteq entries'[mcpCall[d].entry].retrying
    <3> SUFFICES ASSUME NEW d \in McpCalls, Retries(d)
                 PROVE  mcpCall[d].names \subseteq entries'[mcpCall[d].entry].retrying
      OBVIOUS
    <3>1. mcpCall[d].entry \in 1 .. MaxEntries
      BY <1>0 DEF McpTypeOK, McpCallType, WithEntry, At, EntryNumbers, Retries
    <3>2. mcpCall[d].names \subseteq entries[mcpCall[d].entry].retrying BY <1>0 DEF RetriesApart, RetryKnown
    <3> QED BY <3>1, <3>2
  <2>4. \A x \in C : /\ \A i \in mcpCall'[x].got : i \in mcpCall[x].got \/ (StateOf(i) = "none" /\ StateOf(i)' # "none")
                     /\ mcpCall'[x].got # {} => At(x)' \in {"retrying", "discarding", "restarting", "starting"}
                     /\ OneInCall(x)' /\ RetryKnown(x)' /\ DeadLeft(x)'
                     /\ \A d \in McpCalls : d # x => RetriesDiffer(x, d)' /\ RetriesDiffer(d, x)'
    BY <1>4
  <2>5. \A x, y \in C : x # y => mcpCall'[x].got \cap mcpCall'[y].got = {} OBVIOUS
  <2> HIDE DEF C
  <2> QED BY <1>0, <1>1, <2>1, <2>2, <2>3, <2>4, <2>5, ShrinkStep
<1> QED BY <1>2, <1>3, <1>4 DEF McpOrder

\* The names of a call's servers differ from those of others', when its own stay or are fewer.
LEMMA DifferStay ==
    ASSUME McpGood, McpTypeOK', NEW c \in McpCalls, \A d \in McpCalls : d # c => mcpCall'[d] = mcpCall[d],
           UNCHANGED mcpEntry, mcpCall'[c].names = mcpCall[c].names, mcpCall'[c].entry = mcpCall[c].entry,
           At(c)' \in {"retrying", "discarding", "restarting", "starting"},
           At(c)' \in {"retrying", "restarting"} => At(c)' = At(c), At(c)' = "discarding" => Retries(c)
    PROVE  \A d \in McpCalls : d # c => RetriesDiffer(c, d)' /\ RetriesDiffer(d, c)'
<1>1. RetriesApart BY DEF McpGood, McpOrder
<1> TAKE d \in McpCalls
<1> HAVE d # c
<1>2. RetriesDiffer(c, d) /\ RetriesDiffer(d, c) BY <1>1 DEF RetriesApart
<1>3. mcpCall'[d] = mcpCall[d] /\ mcpEntry' = mcpEntry OBVIOUS
<1> QED BY <1>2, <1>3 DEF RetriesDiffer, Retries, At

\* A call tries the servers that timed out again.
LEMMA RetryStep ==
    ASSUME McpGood, McpTypeOK', StartedStay, NEW c \in McpCalls, UseCached(c)
    PROVE  Owned' /\ (~clashed' => McpOrder')
<1> DEFINE e == entries[mcpEntry]
           retry == e.timedOut \ (NamesOf(e.has) \cup e.retrying)
           r == [mcpCall[c] EXCEPT !.at = "retrying", !.entry = mcpEntry, !.names = retry, !.todo = retry]
<1>0. /\ McpTypeOK /\ OnePlace /\ EntriesUsed /\ RetriesApart /\ OneOfAName
  BY DEF McpGood, McpOrder
<1>1. At(c) = "look" /\ mcpEntry # 0 /\ mcpEntry \in 1 .. MaxEntries
    /\ UNCHANGED <<mcpEntry, server, stopping, mcpRemoved>>
  BY <1>0 DEF UseCached, Current, At, McpTypeOK, EntryNumbers
<1>2. mcpCall[c].got = {} /\ mcpCall[c].timedOut = {} /\ mcpCall[c].sig # 0 /\ mcpCall[c] \in McpCallType
  BY <1>0, <1>1 DEF OnePlace, OneOfAName, OneInCall, EntriesUsed, McpTypeOK
<1>3. CASE retry = {}
  BY <1>1, <1>2, <1>3, GotStep DEF UseCached
<1>4. CASE retry # {}
  <2>1. entries' = [entries EXCEPT ![mcpEntry].retrying = e.retrying \cup retry] /\ Set(c, r)
    BY <1>4 DEF UseCached
  <2>2. retry \in SUBSET AnyName /\ e \in EntryType BY <1>0, <1>1 DEF McpTypeOK, EntryType
  <2>3. /\ r \in McpCallType /\ r.at = "retrying" /\ r.entry = mcpEntry /\ r.names = retry /\ r.todo = retry
        /\ r.got = {} /\ r.timedOut = {} /\ r.sig # 0
    <3> HIDE DEF retry
    <3>1. "retrying" \in McpStages /\ mcpEntry \in EntryNumbers BY <1>0 DEF McpStages, McpTypeOK
    <3> QED BY <1>2, <2>2, <3>1 DEF McpCallType
  <2>4. /\ \A x \in 1 .. MaxEntries : /\ entries'[x].has = Has(x) /\ entries'[x].timedOut = entries[x].timedOut
                                      /\ entries'[x].sig = entries[x].sig
                                      /\ entries[x].retrying \subseteq entries'[x].retrying
        /\ entries'[mcpEntry].retrying = e.retrying \cup retry
    <3> HIDE DEF retry
    <3> QED BY <1>0, <1>1, <2>1, <2>2 DEF McpTypeOK, EntryType, Has
  <2>5. \A i \in Has(mcpEntry) : server[i].name \notin retry BY DEF NamesOf, Has
  <2>6. retry \cap e.retrying = {} OBVIOUS
  <2> HIDE DEF r, retry
  <2>7. mcpCall'[c] = r /\ \A d \in McpCalls : d # c => mcpCall'[d] = mcpCall[d]
    BY <1>0, <1>1, <2>1, <2>3, CallSet
  <2>8. ~clashed' => Apart BY <2>1, ClashSeen
  <2>9. At(c)' = "retrying" BY <2>3, <2>7 DEF At
  <2>10. OneInCall(c)' BY <2>3, <2>7, <2>9 DEF OneInCall
  <2>11. RetryKnown(c)'
    <3>1. Has(mcpEntry)' = Has(mcpEntry) BY <1>1, <2>4 DEF Has
    <3>2. mcpCall'[c].names \subseteq entries'[mcpCall'[c].entry].retrying BY <2>3, <2>4, <2>7
    <3> QED BY <1>1, <2>3, <2>5, <2>7, <2>9, <3>1, <3>2 DEF RetryKnown
  <2>12. DeadLeft(c)' BY <2>9 DEF DeadLeft
  <2>13. ASSUME NEW d \in McpCalls, d # c PROVE RetriesDiffer(c, d)' /\ RetriesDiffer(d, c)'
    <3>1. mcpCall'[d] = mcpCall[d] /\ mcpEntry' = mcpEntry BY <1>1, <2>7, <2>13
    <3>2. Retries(d) /\ mcpCall[d].entry = mcpEntry => mcpCall[d].names \cap retry = {}
      BY <1>0, <2>6 DEF RetriesApart, RetryKnown
    <3>3. ASSUME At(d) \in {"clearing", "restarting"} PROVE mcpCall[d].names \cap retry = {}
      <4>1. mcpCall[d].names \cap e.timedOut = {} BY <3>3 DEF McpGood, McpOrder, DeadLeave, DeadLeft
      <4> QED BY <4>1 DEF retry
    <3> QED BY <2>3, <2>7, <2>9, <3>1, <3>2, <3>3 DEF RetriesDiffer, Retries, At
  <2>14. /\ entries[mcpCall'[c].entry].sig # 0 /\ mcpCall'[c].sig # 0
         /\ mcpCall'[c].got = {}
    BY <1>0, <1>1, <2>3, <2>7 DEF EntriesUsed
  <2>15. \A i \in Instances : server'[i].state = "open" => StateOf(i) = "open" BY <1>1 DEF StateOf
  <2> QED BY <1>1, <1>2, <2>4, <2>7, <2>8, <2>9, <2>10, <2>11, <2>12, <2>13, <2>14, <2>15, ShrinkCall
<1> QED BY <1>3, <1>4

\* With a stream running, a call closes the servers that died; the first of them.
LEMMA DeferStep ==
    ASSUME McpGood, McpTypeOK', StartedStay, NEW c \in McpCalls, DeferRestart(c)
    PROVE  Owned' /\ (~clashed' => McpOrder')
<1> DEFINE N == NamesOf(Dead(mcpEntry))
           r(i) == [mcpCall[c] EXCEPT !.at = "clearing", !.entry = mcpEntry, !.names = N, !.todo = N \ {server[i].name}]
<1>0. McpTypeOK /\ OnePlace /\ EntriesUsed /\ RetriesApart /\ OneOfAName BY DEF McpGood, McpOrder
<1>1. At(c) = "look" /\ mcpEntry # 0 /\ mcpEntry \in 1 .. MaxEntries /\ UNCHANGED <<mcpEntry, stopping, mcpRemoved>>
  <2>1. At(c) = "look" /\ mcpEntry # 0 /\ UNCHANGED <<mcpEntry, stopping, mcpRemoved>> BY DEF DeferRestart, At
  <2> QED BY <1>0, <2>1 DEF McpTypeOK, EntryNumbers
<1>2. mcpCall[c].got = {} /\ mcpCall[c].timedOut = {} /\ mcpCall[c].sig # 0 /\ mcpCall[c] \in McpCallType
  BY <1>0, <1>1 DEF OnePlace, OneOfAName, OneInCall, EntriesUsed, McpTypeOK
<1>3. CASE Dead(mcpEntry) = {}
  BY <1>1, <1>2, <1>3, GotStep DEF DeferRestart
<1>4. CASE Dead(mcpEntry) # {}
  <2>1. PICK i \in Dead(mcpEntry) :
           entries' = [entries EXCEPT ![mcpEntry].has = @ \ {i}] /\ server' = Closed({i}) /\ Set(c, r(i))
    BY <1>4 DEF DeferRestart
  <2>2. /\ N \in SUBSET AnyName /\ i \in Instances /\ i \in Has(mcpEntry) /\ Has(mcpEntry) \in SUBSET Instances
        /\ StateOf(i) # "open"
    BY <1>0, <1>1, <2>1, McpSets DEF Dead, Has
  <2> HIDE DEF N
  <2>3. /\ r(i) \in McpCallType /\ r(i).at = "clearing" /\ r(i).entry = mcpEntry /\ r(i).names = N
        /\ r(i).todo = N \ {server[i].name} /\ r(i).got = {} /\ r(i).timedOut = {} /\ r(i).sig # 0
    <3>1. "clearing" \in McpStages /\ mcpEntry \in EntryNumbers BY <1>0 DEF McpStages, Replaces, McpTypeOK
    <3>2. N \ {server[i].name} \in SUBSET AnyName BY <2>2
    <3> QED BY <1>2, <2>2, <3>1, <3>2 DEF McpCallType
  <2> HIDE DEF r
  <2>4. /\ \A x \in 1 .. MaxEntries : /\ entries'[x].timedOut = entries[x].timedOut /\ entries'[x].sig = entries[x].sig
                                      /\ entries'[x].retrying = entries[x].retrying
                                      /\ x # mcpEntry => entries'[x].has = Has(x)
        /\ entries'[mcpEntry].has = Has(mcpEntry) \ {i}
    BY <1>0, <1>1, <2>1 DEF McpTypeOK, EntryType, Has
  <2>5. /\ server'[i].state = "closed"
        /\ \A j \in Instances : server'[j].name = server[j].name /\ (server'[j].state = "open" => StateOf(j) = "open")
    BY <1>0, <2>1, <2>2, ClosedFacts DEF StateOf
  <2>6. mcpCall'[c] = r(i) /\ \A d \in McpCalls : d # c => mcpCall'[d] = mcpCall[d]
    BY <1>0, <1>1, <2>1, <2>3, CallSet
  <2>7. ~clashed' => Apart BY <2>1, ClashSeen
  <2>8. At(c)' = "clearing" BY <2>3, <2>6 DEF At
  <2>9. OneInCall(c)' BY <2>3, <2>6, <2>8 DEF OneInCall
  <2>10. RetryKnown(c)' BY <2>8 DEF RetryKnown, Retries
  <2>11. DeadLeft(c)'
    <3>1. N \cap entries[mcpEntry].timedOut = {}
      BY <1>0, <1>1 DEF N, NamesOf, Dead, Has, OneOfAName, OneInEntry
    <3>2. ASSUME NEW j \in Has(mcpEntry) \ {i}, server[j].name \in N
          PROVE  server[j].name \in N \ {server[i].name} /\ StateOf(j) # "open"
      <4>1. PICK k \in Dead(mcpEntry) : server[k].name = server[j].name BY <3>2 DEF N, NamesOf
      <4>2. k \in Has(mcpEntry) /\ StateOf(k) # "open" BY <4>1 DEF Dead, Has
      <4>3. k = j BY <1>0, <1>1, <3>2, <4>1, <4>2 DEF OneOfAName, OneInEntry
      <4>4. server[j].name # server[i].name BY <1>0, <1>1, <2>2, <3>2 DEF OneOfAName, OneInEntry
      <4> QED BY <3>2, <4>2, <4>3, <4>4
    <3>3. Has(mcpEntry)' = Has(mcpEntry) \ {i} /\ entries'[mcpEntry'].timedOut = entries[mcpEntry].timedOut
      BY <1>1, <2>4 DEF Has
    <3>4. \A j \in Has(mcpEntry) \ {i} : server'[j].name = server[j].name /\ (server'[j].state = "open" => StateOf(j) = "open")
      BY <2>2, <2>5
    <3> QED BY <2>3, <2>6, <2>8, <3>1, <3>2, <3>3, <3>4 DEF DeadLeft, StateOf
  <2>12. ASSUME ~clashed', NEW d \in McpCalls, d # c PROVE RetriesDiffer(c, d)' /\ RetriesDiffer(d, c)'
    <3>1. mcpCall'[d] = mcpCall[d] /\ mcpEntry' = mcpEntry BY <1>1, <2>6, <2>12
    <3>2. ASSUME At(d) = "retrying", mcpCall[d].entry = mcpEntry PROVE mcpCall[d].names \cap N = {}
      BY <1>0, <3>2 DEF RetriesApart, RetryKnown, N, NamesOf, Dead, Has
    <3> QED BY <2>3, <2>6, <2>8, <3>1, <3>2 DEF RetriesDiffer, Retries, At
  <2>13. \A x \in 1 .. MaxEntries : /\ entries'[x].has \subseteq Has(x)
                                    /\ \A j \in Has(x) : j \in entries'[x].has \/ server'[j].state # "open"
    BY <1>1, <2>4, <2>5
  <2>14. entries[mcpCall'[c].entry].sig # 0 /\ mcpCall'[c].sig # 0 /\ mcpCall'[c].got = {} /\ mcpCall'[c].entry = mcpEntry
    BY <1>0, <1>1, <2>3, <2>6 DEF EntriesUsed
  <2> QED BY <1>1, <1>2, <2>4, <2>5, <2>6, <2>7, <2>8, <2>9, <2>10, <2>11, <2>12, <2>13, <2>14, ShrinkCall
<1> QED BY <1>3, <1>4

\* The next of them, and the servers are started anew when none is left.
LEMMA ClearStep ==
    ASSUME McpGood, McpTypeOK', StartedStay, NEW c \in McpCalls, ClearNext(c)
    PROVE  Owned' /\ (~clashed' => McpOrder')
<1> DEFINE call == mcpCall[c]
           at(n) == {i \in Has(call.entry) : server[i].name = n}
<1>0. McpTypeOK /\ OnePlace /\ EntriesUsed /\ RetriesApart /\ OneOfAName /\ DeadLeave /\ WhoReplaces
  BY DEF McpGood, McpOrder
<1>1. At(c) = "clearing" /\ mcpEntry # 0 /\ mcpEntry \in 1 .. MaxEntries /\ call.entry = mcpEntry
    /\ UNCHANGED <<mcpEntry, stopping, mcpRemoved>>
  BY <1>0 DEF ClearNext, At, McpTypeOK, EntryNumbers, WhoReplaces
<1>2. /\ call.got = {} /\ call.timedOut = {} /\ call.sig # 0 /\ call \in McpCallType /\ call.todo \subseteq call.names
      /\ entries[mcpEntry].sig # 0
  BY <1>0, <1>1 DEF OnePlace, OneOfAName, OneInCall, EntriesUsed, McpTypeOK
<1>3. call.names \cap entries[mcpEntry].timedOut = {}
    /\ \A i \in Has(mcpEntry) : server[i].name \in call.names => server[i].name \in call.todo /\ StateOf(i) # "open"
  BY <1>0, <1>1 DEF DeadLeave, DeadLeft
<1>4. CASE call.todo = {}
  <2> DEFINE r == [call EXCEPT !.at = "restarting", !.todo = call.names]
  <2>1. Set(c, r) /\ UNCHANGED <<entries, server>> BY <1>4 DEF ClearNext
  <2>2. /\ r \in McpCallType /\ r.at = "restarting" /\ r.entry = mcpEntry /\ r.names = call.names /\ r.todo = call.names
        /\ r.got = {} /\ r.timedOut = {} /\ r.sig # 0
    <3>1. "restarting" \in McpStages BY DEF McpStages, Replaces
    <3> QED BY <1>1, <1>2, <3>1 DEF McpCallType
  <2> HIDE DEF r
  <2>3. mcpCall'[c] = r /\ \A d \in McpCalls : d # c => mcpCall'[d] = mcpCall[d]
    BY <1>0, <1>1, <2>1, <2>2, CallSet
  <2>4. ~clashed' => Apart BY <2>1, ClashSeen
  <2>5. At(c)' = "restarting" BY <2>2, <2>3 DEF At
  <2>6. OneInCall(c)' BY <2>2, <2>3, <2>5 DEF OneInCall
  <2>7. RetryKnown(c)' BY <2>5 DEF RetryKnown, Retries
  <2>8. DeadLeft(c)' BY <1>1, <1>3, <1>4, <2>1, <2>2, <2>3, <2>5 DEF DeadLeft, Has
  <2>9. ASSUME NEW d \in McpCalls, d # c PROVE RetriesDiffer(c, d)' /\ RetriesDiffer(d, c)'
    <3>1. mcpCall'[d] = mcpCall[d] /\ mcpEntry' = mcpEntry BY <1>1, <2>3, <2>9
    <3>2. RetriesDiffer(d, c) BY <1>0, <2>9 DEF RetriesApart
    <3> QED BY <1>1, <2>2, <2>3, <2>5, <3>1, <3>2 DEF RetriesDiffer, Retries, At
  <2>10. \A x \in 1 .. MaxEntries :
            /\ entries'[x].has \subseteq Has(x) /\ entries'[x].timedOut = entries[x].timedOut
            /\ entries'[x].sig = entries[x].sig /\ entries[x].retrying \subseteq entries'[x].retrying
            /\ \A i \in Has(x) : i \in entries'[x].has
    BY <2>1 DEF Has
  <2>11. mcpCall'[c].sig # 0 /\ mcpCall'[c].got = {} /\ mcpCall'[c].entry = mcpEntry BY <2>2, <2>3
  <2>12. \A i \in Instances : server'[i].state = "open" => StateOf(i) = "open" BY <2>1 DEF StateOf
  <2> QED BY <1>1, <1>2, <2>3, <2>4, <2>5, <2>6, <2>7, <2>8, <2>9, <2>10, <2>11, <2>12, ShrinkCall
<1>5. CASE call.todo # {}
  <2> DEFINE r(n) == [call EXCEPT !.todo = call.todo \ {n}]
  <2>1. PICK n \in call.todo :
           entries' = [entries EXCEPT ![call.entry].has = @ \ at(n)] /\ server' = Closed(at(n)) /\ Set(c, r(n))
    BY <1>5 DEF ClearNext, Has
  <2>2. Has(mcpEntry) \in SUBSET Instances /\ \A i \in at(n) : i \in Has(mcpEntry) /\ StateOf(i) # "open"
    BY <1>0, <1>1, <1>2, <1>3, McpSets
  <2>3. /\ r(n) \in McpCallType /\ r(n).at = "clearing" /\ r(n).entry = mcpEntry /\ r(n).names = call.names
        /\ r(n).todo = call.todo \ {n} /\ r(n).got = {} /\ r(n).timedOut = {} /\ r(n).sig # 0
    BY <1>1, <1>2 DEF McpCallType, At
  <2> HIDE DEF r
  <2>4. /\ \A x \in 1 .. MaxEntries : /\ entries'[x].timedOut = entries[x].timedOut /\ entries'[x].sig = entries[x].sig
                                      /\ entries'[x].retrying = entries[x].retrying
                                      /\ x # mcpEntry => entries'[x].has = Has(x)
        /\ entries'[mcpEntry].has = Has(mcpEntry) \ at(n)
    <3> HIDE DEF at
    <3> QED BY <1>0, <1>1, <2>1 DEF McpTypeOK, EntryType, Has
  <2>5. /\ \A i \in at(n) : server'[i].state = "closed"
        /\ \A j \in Instances : server'[j].name = server[j].name /\ (server'[j].state = "open" => StateOf(j) = "open")
    <3>1. \A i \in at(n) : i \in Instances BY <2>2
    <3> HIDE DEF at
    <3> QED BY <1>0, <2>1, <3>1, ClosedFacts DEF StateOf
  <2>6. mcpCall'[c] = r(n) /\ \A d \in McpCalls : d # c => mcpCall'[d] = mcpCall[d]
    BY <1>0, <1>1, <2>1, <2>3, CallSet
  <2>7. ~clashed' => Apart BY <2>1, ClashSeen
  <2>8. At(c)' = "clearing" BY <2>3, <2>6 DEF At
  <2>9. OneInCall(c)' BY <1>2, <2>3, <2>6, <2>8 DEF OneInCall
  <2>10. RetryKnown(c)' BY <2>8 DEF RetryKnown, Retries
  <2>11. DeadLeft(c)'
    <3>1. Has(mcpEntry)' = Has(mcpEntry) \ at(n) /\ entries'[mcpEntry'].timedOut = entries[mcpEntry].timedOut
      BY <1>1, <2>4 DEF Has
    <3>2. \A j \in Has(mcpEntry) : server'[j].name = server[j].name /\ (server'[j].state = "open" => StateOf(j) = "open")
      BY <2>2, <2>5
    <3>3. \A j \in Has(mcpEntry) \ at(n) : server[j].name # n BY <1>1
    <3> HIDE DEF at
    <3> QED BY <1>3, <2>3, <2>6, <2>8, <3>1, <3>2, <3>3 DEF DeadLeft, StateOf
  <2>12. ASSUME NEW d \in McpCalls, d # c PROVE RetriesDiffer(c, d)' /\ RetriesDiffer(d, c)'
    <3>1. mcpCall'[d] = mcpCall[d] /\ mcpEntry' = mcpEntry BY <1>1, <2>6, <2>12
    <3>2. RetriesDiffer(d, c) BY <1>0, <2>12 DEF RetriesApart
    <3> QED BY <1>1, <2>3, <2>6, <2>8, <3>1, <3>2 DEF RetriesDiffer, Retries, At
  <2>13. \A x \in 1 .. MaxEntries : /\ entries'[x].has \subseteq Has(x)
                                    /\ \A j \in Has(x) : j \in entries'[x].has \/ server'[j].state # "open"
    <3>1. \A j \in at(n) : server'[j].state # "open" BY <2>5
    <3> HIDE DEF at
    <3> QED BY <1>1, <2>4, <3>1
  <2>14. mcpCall'[c].sig # 0 /\ mcpCall'[c].got = {} /\ mcpCall'[c].entry = mcpEntry BY <2>3, <2>6
  <2> QED BY <1>1, <1>2, <2>4, <2>5, <2>6, <2>7, <2>8, <2>9, <2>10, <2>11, <2>12, <2>13, <2>14, ShrinkCall
<1> QED BY <1>4, <1>5

\* A retry whose entry was replaced closes what it has started, one after the other.
LEMMA DiscardStep ==
    ASSUME McpGood, McpTypeOK', StartedStay, NEW c \in McpCalls,
           \/ RetryEnds(c) /\ mcpEntry # mcpCall[c].entry
           \/ DiscardNext(c) /\ mcpCall[c].got # {}
    PROVE  Owned' /\ (~clashed' => McpOrder')
<1> DEFINE call == mcpCall[c]
           r(I) == [call EXCEPT !.at = "discarding", !.got = call.got \ I]
<1>0. McpTypeOK /\ OnePlace /\ EntriesUsed /\ RetriesApart /\ OneOfAName BY DEF McpGood, McpOrder
<1>1. Retries(c) /\ UNCHANGED <<mcpEntry, entries, stopping, mcpRemoved>>
  BY DEF RetryEnds, DiscardNext, At, Retries
<1>2. call \in McpCallType /\ call.entry # 0 /\ entries[call.entry].sig # 0 /\ call.sig # 0
  BY <1>0, <1>1 DEF McpTypeOK, EntriesUsed, Retries, At, WithEntry
<1>3. PICK I \in FirstOf(call.got) : server' = Closed(I) /\ Set(c, r(I))
  <2>1. CASE RetryEnds(c) /\ mcpEntry # call.entry BY <2>1 DEF RetryEnds
  <2>2. CASE DiscardNext(c) /\ call.got # {}
    <3>1. PICK I \in FirstOf(call.got) : server' = Closed(I) /\ Set(c, [call EXCEPT !.got = call.got \ I])
      BY <2>2 DEF DiscardNext
    <3>2. [call EXCEPT !.got = call.got \ I] = r(I) BY <1>2, <2>2 DEF DiscardNext, McpCallType
    <3> QED BY <3>1, <3>2
  <2> QED BY <2>1, <2>2
<1>4. I \subseteq call.got /\ call.got \in SUBSET Instances BY <1>2, <1>3, FirstFacts DEF McpCallType
<1>5. /\ r(I) \in McpCallType /\ r(I).at = "discarding" /\ r(I).entry = call.entry /\ r(I).names = call.names
      /\ r(I).todo = call.todo /\ r(I).got = call.got \ I /\ r(I).timedOut = call.timedOut /\ r(I).sig = call.sig
  <2>1. "discarding" \in McpStages BY DEF McpStages
  <2> QED BY <1>2, <1>4, <2>1 DEF McpCallType
<1> HIDE DEF r
<1>6. mcpCall'[c] = r(I) /\ \A d \in McpCalls : d # c => mcpCall'[d] = mcpCall[d]
  BY <1>0, <1>2, <1>3, <1>5, CallSet
<1>7. ~clashed' => Apart BY <1>3, ClashSeen
<1>8. At(c)' = "discarding" BY <1>5, <1>6 DEF At
<1>9. \A i \in Instances : /\ server'[i].name = server[i].name /\ (server'[i].state = "open" => StateOf(i) = "open")
                           /\ i \in I => server'[i].state = "closed"
  BY <1>0, <1>3, ClosedFacts DEF StateOf
<1>10. OneInCall(c)'
  <2>1. \A i \in call.got : /\ server[i].name \notin call.todo \cup call.timedOut /\ server[i].name \in call.names
                            /\ \A j \in call.got : server[i].name = server[j].name => i = j
    BY <1>0, <1>1 DEF OneOfAName, OneInCall, Retries
  <2>2. \A i \in call.got : server'[i].name = server[i].name BY <1>4, <1>9
  <2> QED BY <1>5, <1>6, <1>8, <2>1, <2>2 DEF OneInCall
<1>11. RetryKnown(c)' BY <1>0, <1>1, <1>5, <1>6, <1>8 DEF RetriesApart, RetryKnown, Retries
<1>12. DeadLeft(c)' BY <1>8 DEF DeadLeft
<1>13. \A d \in McpCalls : d # c => RetriesDiffer(c, d)' /\ RetriesDiffer(d, c)'
  <2>1. mcpCall'[c].names = mcpCall[c].names /\ mcpCall'[c].entry = mcpCall[c].entry BY <1>5, <1>6
  <2> QED BY <1>1, <1>6, <1>8, <2>1, DifferStay
<1>14. /\ \A x \in 1 .. MaxEntries :
             /\ entries'[x].has \subseteq Has(x) /\ entries'[x].timedOut = entries[x].timedOut
             /\ entries'[x].sig = entries[x].sig /\ entries[x].retrying \subseteq entries'[x].retrying
             /\ \A i \in Has(x) : i \in entries'[x].has
  BY <1>1 DEF Has
<1>15. entries[mcpCall'[c].entry].sig # 0 /\ mcpCall'[c].sig # 0 BY <1>2, <1>5, <1>6
<1>16. /\ \A i \in mcpCall[c].got : server'[i].state = "open" => i \in mcpCall'[c].got
       /\ \A i \in mcpCall'[c].got : i \in mcpCall[c].got
  BY <1>4, <1>5, <1>6, <1>9
<1>17. At(c) # "stopping" BY <1>1 DEF Retries
<1> QED BY <1>1, <1>6, <1>7, <1>8, <1>9, <1>10, <1>11, <1>12, <1>13, <1>14, <1>15, <1>16, <1>17, ShrinkCall

\* A server starts, fails or times out.
LEMMA StartStep ==
    ASSUME McpGood, McpTypeOK', StartedStay, NEW c \in McpCalls, NEW n \in McpNames, StartOne(c, n)
    PROVE  Owned' /\ (~clashed' => McpOrder')
<1> DEFINE call == mcpCall[c]
<1>0. McpTypeOK /\ OnePlace /\ EntriesUsed /\ RetriesApart /\ OneOfAName /\ DeadLeave /\ WhoReplaces
  BY DEF McpGood, McpOrder
<1>1. At(c) \in {"retrying", "restarting", "starting"} /\ n \in call.todo
    /\ UNCHANGED <<mcpEntry, entries, stopping, mcpRemoved>>
  BY DEF StartOne, At
<1>2. call \in McpCallType /\ call.got \in SUBSET Instances /\ call.sig # 0
    /\ (At(c) \in WithEntry => call.entry # 0 /\ entries[call.entry].sig # 0)
  BY <1>0, <1>1 DEF McpTypeOK, EntriesUsed, At, McpCallType
<1>3. PICK G \in SUBSET Instances, T \in SUBSET AnyName :
         /\ Set(c, [call EXCEPT !.todo = call.todo \ {n}, !.got = call.got \cup G, !.timedOut = call.timedOut \cup T])
         /\ \/ G = {} /\ server' = server /\ T \subseteq {n}
            \/ T = {} /\ \E i \in Instances : /\ G = {i} /\ StateOf(i) = "none"
                                              /\ server' = [server EXCEPT ![i] = [name |-> n, state |-> "open"]]
  <2> DEFINE rest == [call EXCEPT !.todo = call.todo \ {n}]
             f(G, T) == [call EXCEPT !.todo = call.todo \ {n}, !.got = call.got \cup G, !.timedOut = call.timedOut \cup T]
  <2>1. CASE UNCHANGED server /\ Set(c, rest)
    <3>1. rest = f({}, {}) BY <1>2 DEF McpCallType
    <3>2. Set(c, f({}, {})) /\ server' = server BY <2>1, <3>1
    <3>3. {} \in SUBSET Instances /\ {} \in SUBSET AnyName /\ {} \subseteq {n} OBVIOUS
    <3> HIDE DEF rest
    <3> QED BY <3>2, <3>3
  <2>2. CASE UNCHANGED server /\ Set(c, [rest EXCEPT !.timedOut = @ \cup {n}])
    <3>1. [rest EXCEPT !.timedOut = @ \cup {n}] = f({}, {n}) BY <1>2 DEF McpCallType
    <3>2. {n} \in SUBSET AnyName BY DEF AnyName
    <3> QED BY <2>2, <3>1, <3>2
  <2>3. CASE /\ Unused # {}
             /\ LET i == CHOOSE j \in Unused : \A k \in Unused : j <= k
                IN  /\ server' = [server EXCEPT ![i] = [name |-> n, state |-> "open"]]
                    /\ Set(c, [rest EXCEPT !.got = @ \cup {i}])
    <3>1. PICK i : i = CHOOSE j \in Unused : \A k \in Unused : j <= k OBVIOUS
    <3>2. Unused \in SUBSET Nat /\ Unused # {} BY <2>3, McpBoundsAssumption DEF Unused, Instances
    <3>3. i \in Instances /\ StateOf(i) = "none"
      <4>1. i \in Unused BY <3>1, <3>2, LeastExists
      <4> QED BY <4>1 DEF Unused
    <3>4. server' = [server EXCEPT ![i] = [name |-> n, state |-> "open"]] /\ Set(c, [rest EXCEPT !.got = @ \cup {i}])
      BY <2>3, <3>1
    <3>5. [rest EXCEPT !.got = @ \cup {i}] = f({i}, {}) BY <1>2 DEF McpCallType
    <3> QED BY <3>3, <3>4, <3>5
  <2> QED BY <2>1, <2>2, <2>3 DEF StartOne
<1> DEFINE r == [call EXCEPT !.todo = call.todo \ {n}, !.got = call.got \cup G, !.timedOut = call.timedOut \cup T]
<1>4. /\ r \in McpCallType /\ r.at = At(c) /\ r.entry = call.entry /\ r.names = call.names
      /\ r.todo = call.todo \ {n} /\ r.got = call.got \cup G /\ r.timedOut = call.timedOut \cup T /\ r.sig = call.sig
  BY <1>2 DEF McpCallType, At
<1> HIDE DEF r
<1>5. Set(c, r) BY <1>3 DEF r
<1>6. mcpCall'[c] = r /\ \A d \in McpCalls : d # c => mcpCall'[d] = mcpCall[d]
  BY <1>0, <1>2, <1>4, <1>5, CallSet
<1>7. ~clashed' => Apart BY <1>5, ClashSeen
<1>8. At(c)' = At(c) BY <1>4, <1>6 DEF At
<1>9. /\ \A i \in G : StateOf(i) = "none" /\ server'[i].name = n /\ server'[i].state = "open"
      /\ \A i \in Instances \ G : server'[i] = server[i]
      /\ \A i, j \in G : i = j
      /\ T \subseteq {n} /\ (G # {} => T = {})
  BY <1>0, <1>3 DEF McpTypeOK
<1>10. \A i \in call.got : i \notin G /\ server'[i] = server[i] BY <1>0, <1>2, <1>9 DEF OnePlace
<1>11. OneInCall(c)'
  <2>1. /\ \A i \in call.got : /\ server[i].name \notin call.todo \cup call.timedOut
                               /\ At(c) # "starting" => server[i].name \in call.names
                               /\ \A j \in call.got : server[i].name = server[j].name => i = j
        /\ At(c) \in {"retrying", "restarting"} => call.todo \subseteq call.names /\ call.timedOut \subseteq call.names
        /\ call.timedOut \cap call.todo = {}
    BY <1>0, <1>1 DEF OneOfAName, OneInCall
  <2>2. ASSUME NEW i \in r.got
        PROVE  /\ server'[i].name \notin r.todo \cup r.timedOut
               /\ At(c) # "starting" => server'[i].name \in r.names
               /\ \A j \in r.got : server'[i].name = server'[j].name => i = j
    <3>1. i \in call.got \/ i \in G BY <1>4
    <3>2. \A j \in r.got : j \in call.got \/ j \in G BY <1>4
    <3>3. \A j \in call.got : server'[j].name # n BY <1>1, <1>10, <2>1
    <3>4. \A j \in r.got : server'[i].name = server'[j].name => i = j BY <1>9, <1>10, <2>1, <3>1, <3>2, <3>3
    <3>5. CASE i \in call.got BY <1>4, <1>9, <1>10, <2>1, <3>3, <3>4, <3>5
    <3>6. CASE i \in G
      <4>1. T = {} /\ server'[i].name = n /\ n \notin call.timedOut BY <1>1, <1>9, <2>1, <3>6
      <4> QED BY <1>1, <1>4, <2>1, <3>4, <4>1
    <3> QED BY <3>1, <3>5, <3>6
  <2>3. /\ At(c) \in {"retrying", "restarting"} => r.todo \subseteq r.names /\ r.timedOut \subseteq r.names
        /\ r.timedOut \cap r.todo = {}
    BY <1>1, <1>4, <1>9, <2>1
  <2> QED BY <1>1, <1>6, <1>8, <2>2, <2>3 DEF OneInCall
<1>12. RetryKnown(c)'
  <2>1. RetryKnown(c) BY <1>0 DEF RetriesApart
  <2>2. ASSUME At(c) = "retrying", call.entry = mcpEntry PROVE \A i \in Has(mcpEntry) : server'[i].name \notin call.names
    <3>1. mcpEntry \in 1 .. MaxEntries BY <1>0, <2>2 DEF McpTypeOK, WithEntry, At, EntryNumbers
    <3>2. \A i \in Has(mcpEntry) : i \in Instances /\ i \notin G BY <1>0, <1>9, <3>1, McpSets DEF OnePlace
    <3> QED BY <1>9, <2>1, <2>2, <3>2 DEF RetryKnown
  <2>3. Has(mcpEntry)' = Has(mcpEntry) BY <1>1 DEF Has
  <2> QED BY <1>1, <1>4, <1>6, <1>8, <2>1, <2>2, <2>3 DEF RetryKnown, Retries
<1>13. DeadLeft(c)'
  <2> SUFFICES ASSUME At(c) = "restarting" PROVE DeadLeft(c)'
    BY <1>1, <1>8 DEF DeadLeft
  <2>1. mcpEntry \in 1 .. MaxEntries BY <1>0 DEF WhoReplaces, McpTypeOK, EntryNumbers
  <2>2. \A i \in Has(mcpEntry) : i \in Instances /\ i \notin G BY <1>0, <1>9, <2>1, McpSets DEF OnePlace
  <2>3. \A i \in Has(mcpEntry) : server'[i].name \notin call.names BY <1>0, <1>9, <2>2 DEF DeadLeave, DeadLeft
  <2>4. call.names \cap entries[mcpEntry].timedOut = {} BY <1>0 DEF DeadLeave, DeadLeft
  <2>5. Has(mcpEntry)' = Has(mcpEntry) BY <1>1 DEF Has
  <2> QED BY <1>1, <1>4, <1>6, <1>8, <2>3, <2>4, <2>5 DEF DeadLeft
<1>14. \A d \in McpCalls : d # c => RetriesDiffer(c, d)' /\ RetriesDiffer(d, c)'
  <2>1. mcpCall'[c].names = mcpCall[c].names /\ mcpCall'[c].entry = mcpCall[c].entry BY <1>4, <1>6
  <2> QED BY <1>1, <1>6, <1>8, <2>1, DifferStay
<1>15. \A x \in 1 .. MaxEntries :
           /\ entries'[x].has \subseteq Has(x) /\ entries'[x].timedOut = entries[x].timedOut
           /\ entries'[x].sig = entries[x].sig /\ entries[x].retrying \subseteq entries'[x].retrying
           /\ \A i \in Has(x) : i \in entries'[x].has
  BY <1>1 DEF Has
<1>16. /\ At(c)' \in WithEntry => entries[mcpCall'[c].entry].sig # 0
       /\ mcpCall'[c].sig # 0
       /\ At(c)' = "restarting" => mcpEntry # 0 /\ mcpCall'[c].entry = mcpEntry
       /\ At(c)' = "starting" => mcpEntry = 0
  BY <1>0, <1>2, <1>4, <1>6, <1>8 DEF WhoReplaces
<1>17. /\ \A i \in Instances : server'[i].state = "open" => StateOf(i) = "open" \/ i \in mcpCall'[c].got
       /\ \A i \in mcpCall[c].got : i \in mcpCall'[c].got
       /\ \A i \in mcpCall'[c].got : i \in mcpCall[c].got \/ (StateOf(i) = "none" /\ StateOf(i)' # "none")
  BY <1>4, <1>6, <1>9 DEF StateOf
<1>18. At(c) # "stopping" /\ At(c)' # "clearing" /\ At(c)' \in {"retrying", "restarting", "starting"} BY <1>1, <1>8
<1> QED BY <1>1, <1>6, <1>7, <1>11, <1>12, <1>13, <1>14, <1>15, <1>16, <1>17, <1>18, ShrinkCall

\* What a call has started joins an entry, in which nothing has the name of one of these.
LEMMA JoinCall ==
    ASSUME McpGood, McpTypeOK', StartedStay, ~clashed' => Apart, NEW c \in McpCalls, NEW k \in 1 .. MaxEntries,
           \A d \in McpCalls : d # c => mcpCall'[d] = mcpCall[d],
           UNCHANGED <<server, mcpRemoved, stopping>>,
           mcpEntry' = k,
           \/ mcpEntry = k /\ At(c) \in {"retrying", "restarting"} /\ mcpCall[c].entry = k
           \/ mcpEntry = 0 /\ At(c) = "starting" /\ entries[k].sig = 0,
           At(c)' = "got", mcpCall'[c].got = {}, mcpCall'[c].tools = entries'[k].has,
           \A e \in 1 .. MaxEntries : e # k => entries'[e] = entries[e],
           entries'[k].has = Has(k) \cup mcpCall[c].got, entries'[k].sig # 0,
           entries'[k].timedOut \subseteq entries[k].timedOut \cup mcpCall[c].timedOut,
           \A i \in Has(k), j \in mcpCall[c].got : server[i].name # server[j].name,
           \A i \in entries'[k].has : server[i].name \notin entries'[k].timedOut,
           \A d \in McpCalls : d # c /\ Retries(d) /\ mcpCall[d].entry = k =>
               mcpCall[d].names \subseteq entries'[k].retrying
    PROVE  Owned' /\ (~clashed' => McpOrder')
<1>0. /\ McpTypeOK /\ OnePlace /\ WhoReplaces /\ OneOfAName /\ RetriesApart /\ DeadLeave /\ EntriesUsed
  BY DEF McpGood, McpOrder
<1>1. k # 0 /\ mcpCall[c].got \in SUBSET Instances /\ \A e \in 1 .. MaxEntries : Has(e) \in SUBSET Instances
  BY <1>0, McpSets DEF McpTypeOK, McpCallType
<1>2. /\ Has(k)' = Has(k) \cup mcpCall[c].got
      /\ \A e \in 1 .. MaxEntries : e # k => Has(e)' = Has(e)
  BY DEF Has
<1>3. \A d \in McpCalls : d # c => At(d)' = At(d) BY DEF At
<1>4. server' = server OBVIOUS
<1>5. Owned'
  <2>1. \A e \in 1 .. MaxEntries : \A i \in Has(e) : i \in entries'[e].has BY DEF Has
  <2>2. \A i \in Instances : server'[i].state = "open" => StateOf(i) = "open" BY <1>4 DEF StateOf
  <2>3. At(c) # "stopping" OBVIOUS
  <2>4. \A i \in mcpCall[c].got : mcpEntry' # 0 /\ i \in entries'[mcpEntry'].has BY <1>1
  <2>5. mcpEntry' = mcpEntry \/ mcpEntry = 0 OBVIOUS
  <2> QED BY <2>1, <2>2, <2>3, <2>4, <2>5, NothingLost
<1>6. ASSUME ~clashed' PROVE EntriesUsed' /\ WhoReplaces' /\ DoneIsClosed' /\ ToolsAreKept'
  <2>1. \A e \in 1 .. MaxEntries : /\ entries[e].sig # 0 => entries'[e].sig # 0
                                   /\ entries'[e].sig = 0 => entries'[e].has = {}
    BY <1>0 DEF EntriesUsed, Has
  <2>2. \/ mcpEntry' = mcpEntry
        \/ mcpEntry = 0 /\ At(c) = "starting" /\ entries[mcpEntry'].sig = 0 /\ entries'[mcpEntry'].sig # 0
    OBVIOUS
  <2>3. \A i \in mcpCall'[c].tools : server'[i].state # "none" /\ mcpEntry' # 0 /\ i \in entries'[mcpEntry'].has
    BY <1>0, <1>1 DEF OnePlace, StateOf
  <2>4. mcpEntry # 0 => \A i \in Has(mcpEntry) : i \in entries'[mcpEntry].has OBVIOUS
  <2>5. At(c)' \notin WithEntry /\ mcpEntry' # 0 BY <1>1 DEF WithEntry
  <2>6. Apart BY <1>6
  <2> QED BY <2>1, <2>2, <2>3, <2>4, <2>5, <2>6, CallStep
<1>7. OnePlace'
  <2>1. \A d \in McpCalls : d # c => mcpCall'[d].got = mcpCall[d].got OBVIOUS
  <2>2. \A e, f \in 1 .. MaxEntries : e # f => Has(e)' \cap Has(f)' = {} BY <1>0, <1>2 DEF OnePlace
  <2>3. \A e \in 1 .. MaxEntries, d \in McpCalls : Has(e)' \cap mcpCall'[d].got = {}
    BY <1>0, <1>2, <2>1 DEF OnePlace
  <2>4. \A d, f \in McpCalls : d # f => mcpCall'[d].got \cap mcpCall'[f].got = {} BY <1>0, <2>1 DEF OnePlace
  <2>5. \A e \in 1 .. MaxEntries : \A i \in Has(e)' : server'[i].state # "none"
    BY <1>0, <1>2 DEF OnePlace, StateOf
  <2>6. \A d \in McpCalls : /\ \A i \in mcpCall'[d].got : server'[i].state # "none"
                            /\ mcpCall'[d].got # {} => At(d)' \in {"retrying", "discarding", "restarting", "starting"}
    BY <1>0, <1>3, <2>1 DEF OnePlace, StateOf
  <2> QED BY <2>2, <2>3, <2>4, <2>5, <2>6 DEF OnePlace, StateOf
<1>8. OneOfAName'
  <2>1. OneInEntry(k)'
    <3>1. \A i, j \in Has(k) : server[i].name = server[j].name => i = j BY <1>0 DEF OneOfAName, OneInEntry
    <3>2. \A i, j \in mcpCall[c].got : server[i].name = server[j].name => i = j BY <1>0 DEF OneOfAName, OneInCall
    <3>3. \A i, j \in Has(k)' : server[i].name = server[j].name => i = j BY <1>2, <3>1, <3>2
    <3>4. \A i \in Has(k)' : server[i].name \notin entries'[k].timedOut BY DEF Has
    <3> QED BY <1>4, <3>3, <3>4 DEF OneInEntry
  <2>2. \A e \in 1 .. MaxEntries : e # k => OneInEntry(e)' BY <1>0, <1>2, <1>4 DEF OneOfAName, OneInEntry
  <2>3. \A d \in McpCalls : d # c => OneInCall(d)' BY <1>0, <1>3, <1>4 DEF OneOfAName, OneInCall
  <2>4. OneInCall(c)' BY DEF OneInCall
  <2> QED BY <2>1, <2>2, <2>3, <2>4 DEF OneOfAName
<1>9. ASSUME NEW d \in McpCalls, d # c, Retries(d), mcpCall[d].entry = k
      PROVE  /\ mcpEntry = k
             /\ At(d) = "retrying" => \A i \in mcpCall[c].got : server[i].name \notin mcpCall[d].names
  <2>1. entries[k].sig # 0 BY <1>0, <1>9 DEF EntriesUsed, Retries, WithEntry
  <2>2. mcpEntry = k /\ At(c) \in {"retrying", "restarting"} /\ mcpCall[c].entry = k BY <2>1
  <2>3. \A i \in mcpCall[c].got : server[i].name \in mcpCall[c].names BY <1>0, <2>2 DEF OneOfAName, OneInCall
  <2>4. At(d) = "retrying" => mcpCall[d].names \cap mcpCall[c].names = {}
    BY <1>0, <1>9, <2>2 DEF RetriesApart, RetriesDiffer, Retries
  <2> QED BY <2>2, <2>3, <2>4
<1>10. RetriesApart'
  <2>1. RetryKnown(c)' /\ \A d \in McpCalls : RetriesDiffer(c, d)' /\ RetriesDiffer(d, c)'
    BY DEF RetryKnown, RetriesDiffer, Retries
  <2>2. ASSUME NEW d \in McpCalls, d # c PROVE RetryKnown(d)'
    <3>0. RetryKnown(d) /\ mcpCall'[d] = mcpCall[d] BY <1>0, <2>2 DEF RetriesApart
    <3>1. ASSUME Retries(d) PROVE mcpCall[d].names \subseteq entries'[mcpCall[d].entry].retrying
      <4>1. mcpCall[d].entry \in 1 .. MaxEntries
        BY <1>0, <3>1 DEF McpTypeOK, McpCallType, WithEntry, At, EntryNumbers, Retries
      <4> QED BY <2>2, <3>0, <3>1, <4>1 DEF RetryKnown
    <3>2. ASSUME At(d) = "retrying", mcpCall[d].entry = k PROVE \A i \in Has(k)' : server[i].name \notin mcpCall[d].names
      BY <1>2, <1>9, <2>2, <3>0, <3>2 DEF RetryKnown, Retries
    <3> QED BY <1>3, <1>4, <2>2, <3>0, <3>1, <3>2 DEF RetryKnown, Retries
  <2>3. ASSUME NEW d \in McpCalls, NEW f \in McpCalls, d # c, f # c, d # f PROVE RetriesDiffer(d, f)'
    <3>1. RetriesDiffer(d, f) BY <1>0, <2>3 DEF RetriesApart
    <3>2. At(d) = "retrying" /\ mcpCall[d].entry = k => mcpEntry = k BY <1>9, <2>3 DEF Retries
    <3>3. mcpCall'[d] = mcpCall[d] /\ mcpCall'[f] = mcpCall[f] /\ At(d)' = At(d) /\ At(f)' = At(f) BY <1>3, <2>3
    <3> QED BY <3>1, <3>2, <3>3 DEF RetriesDiffer, Retries
  <2> QED BY <2>1, <2>2, <2>3 DEF RetriesApart
<1>11. DeadLeave'
  <2>1. DeadLeft(c)' BY DEF DeadLeft
  <2>2. ASSUME NEW d \in McpCalls, d # c, At(d) \in {"clearing", "restarting"} PROVE DeadLeft(d)'
    <3>1. At(c) = "retrying" /\ mcpEntry = k /\ mcpCall[c].entry = k BY <1>0, <2>2 DEF WhoReplaces, Replaces
    <3>2. mcpCall[c].names \cap mcpCall[d].names = {} BY <1>0, <2>2, <3>1 DEF RetriesApart, RetriesDiffer
    <3>3. \A i \in mcpCall[c].got : server[i].name \in mcpCall[c].names BY <1>0, <3>1 DEF OneOfAName, OneInCall
    <3>4. mcpCall[c].timedOut \subseteq mcpCall[c].names BY <1>0, <3>1 DEF OneOfAName, OneInCall
    <3>5. DeadLeft(d) BY <1>0 DEF DeadLeave
    <3>6. mcpCall[d].names \cap entries'[k].timedOut = {} BY <2>2, <3>1, <3>2, <3>4, <3>5 DEF DeadLeft
    <3>7. \A i \in Has(k)' : server[i].name \in mcpCall[d].names => i \in Has(k) BY <1>2, <3>2, <3>3
    <3>8. mcpCall'[d] = mcpCall[d] /\ At(d)' = At(d) BY <1>3, <2>2
    <3> QED BY <1>4, <2>2, <3>1, <3>5, <3>6, <3>7, <3>8 DEF DeadLeft, StateOf
  <2>3. \A d \in McpCalls : d # c /\ At(d) \notin {"clearing", "restarting"} => DeadLeft(d)' BY <1>3 DEF DeadLeft
  <2> QED BY <2>1, <2>2, <2>3 DEF DeadLeave
<1> QED BY <1>5, <1>6, <1>7, <1>8, <1>10, <1>11 DEF McpOrder

\* Setting instances by name adds them, when the entry has none of their names.
LEMMA WithAdds ==
    ASSUME NEW H, NEW G, \A i \in H, j \in G : server[i].name # server[j].name
    PROVE  With(H, G) = H \cup G
  BY DEF With, NamesOf

\* What Got() does.
LEMMA GotFacts ==
    ASSUME McpTypeOK, NEW c \in McpCalls, NEW I \in SUBSET Instances, Got(c, I)
    PROVE  /\ At(c)' = "got" /\ mcpCall'[c].got = {} /\ mcpCall'[c].tools = I
           /\ \A d \in McpCalls : d # c => mcpCall'[d] = mcpCall[d]
           /\ ~clashed' => Apart
<1> DEFINE r == [NoMcpCall EXCEPT !.at = "got", !.tools = I]
<1>1. r \in McpCallType /\ r.at = "got" /\ r.got = {} /\ r.tools = I BY NewCallTyped DEF NoMcpCall
<1>2. Set(c, r) BY DEF Got
<1> HIDE DEF r
<1>3. mcpCall'[c] = r /\ \A d \in McpCalls : d # c => mcpCall'[d] = mcpCall[d]
  BY <1>1, <1>2, CallSet DEF WithEntry
<1>4. ~clashed' => Apart BY <1>2, ClashSeen
<1> QED BY <1>1, <1>3, <1>4 DEF At

\* The retried servers join the entry.
LEMMA RetriedJoin ==
    ASSUME McpGood, McpTypeOK', StartedStay, NEW c \in McpCalls, RetryEnds(c), mcpEntry = mcpCall[c].entry
    PROVE  Owned' /\ (~clashed' => McpOrder')
<1> DEFINE call == mcpCall[c]
           k == mcpCall[c].entry
           e == entries[k]
           has == With(e.has, call.got)
           T == (e.timedOut \ (call.names \cup NamesOf(has))) \cup call.timedOut
<1>0. McpTypeOK /\ OnePlace /\ EntriesUsed /\ RetriesApart /\ OneOfAName BY DEF McpGood, McpOrder
<1>1. /\ At(c) = "retrying" /\ k \in 1 .. MaxEntries /\ k # 0 /\ Got(c, has) /\ call.todo = {}
      /\ mcpEntry' = k /\ UNCHANGED <<server, stopping, mcpRemoved>>
  <2>1. /\ At(c) = "retrying" /\ Got(c, has) /\ mcpEntry' = k /\ call.todo = {}
        /\ UNCHANGED <<server, stopping, mcpRemoved>>
    BY DEF RetryEnds, At
  <2>2. k \in 1 .. MaxEntries /\ k # 0 BY <1>0, <2>1 DEF McpTypeOK, McpCallType, WithEntry, At, EntryNumbers
  <2> QED BY <2>1, <2>2
<1>2. e \in EntryType /\ e.has = Has(k) /\ call.got \in SUBSET Instances /\ Has(k) \in SUBSET Instances
  BY <1>0, <1>1, McpSets DEF McpTypeOK, McpCallType, Has
<1>3. \A i \in call.got : server[i].name \in call.names /\ server[i].name \notin call.timedOut
  BY <1>0, <1>1 DEF OneOfAName, OneInCall
<1>4. \A i \in Has(k) : server[i].name \notin call.names BY <1>0, <1>1 DEF RetriesApart, RetryKnown
<1>5. \A i \in Has(k), j \in call.got : server[i].name # server[j].name BY <1>3, <1>4
<1>6. has = Has(k) \cup call.got BY <1>2, <1>5, WithAdds
<1>7. call.timedOut \subseteq call.names BY <1>0, <1>1 DEF OneOfAName, OneInCall
<1>8. entries' = [entries EXCEPT ![k] = [e EXCEPT !.has = has, !.retrying = @ \ call.names,
                                          !.timedOut = (@ \ (call.names \cup NamesOf(has))) \cup call.timedOut]]
  BY DEF RetryEnds
<1>9. [e EXCEPT !.has = has, !.retrying = @ \ call.names,
                !.timedOut = (@ \ (call.names \cup NamesOf(has))) \cup call.timedOut]
      = [e EXCEPT !.has = has, !.retrying = e.retrying \ call.names, !.timedOut = T]
  BY <1>2 DEF EntryType
<1>10. \A i \in has : server[i].name \in NamesOf(has) BY DEF NamesOf
<1>11. \A i \in has : server[i].name \notin T
  BY <1>3, <1>4, <1>6, <1>7, <1>10
<1>12. T \subseteq e.timedOut \cup call.timedOut OBVIOUS
<1> HIDE DEF has, T
<1>13. /\ entries'[k].has = has /\ entries'[k].retrying = e.retrying \ call.names /\ entries'[k].timedOut = T
       /\ entries'[k].sig = e.sig /\ \A x \in 1 .. MaxEntries : x # k => entries'[x] = entries[x]
  BY <1>0, <1>1, <1>2, <1>8, <1>9 DEF McpTypeOK, EntryType
<1>14. entries'[k].sig # 0 BY <1>0, <1>1, <1>13 DEF EntriesUsed, WithEntry
<1>15. \A d \in McpCalls : d # c /\ Retries(d) /\ mcpCall[d].entry = k => mcpCall[d].names \subseteq entries'[k].retrying
  <2> SUFFICES ASSUME NEW d \in McpCalls, d # c, Retries(d), mcpCall[d].entry = k
               PROVE  mcpCall[d].names \subseteq entries'[k].retrying
    OBVIOUS
  <2>1. mcpCall[d].names \subseteq e.retrying BY <1>0 DEF RetriesApart, RetryKnown
  <2>2. mcpCall[d].names \cap call.names = {} BY <1>0, <1>1 DEF RetriesApart, RetriesDiffer, Retries
  <2> QED BY <1>13, <2>1, <2>2
<1>16. has \in SUBSET Instances BY <1>2, <1>6
<1>17. /\ At(c)' = "got" /\ mcpCall'[c].got = {} /\ mcpCall'[c].tools = has /\ (~clashed' => Apart)
       /\ \A d \in McpCalls : d # c => mcpCall'[d] = mcpCall[d]
  BY <1>0, <1>1, <1>16, GotFacts
<1>18. /\ k \in 1 .. MaxEntries /\ mcpEntry' = k /\ mcpEntry = k /\ mcpCall[c].entry = k
       /\ At(c) \in {"retrying", "restarting"} /\ UNCHANGED <<server, mcpRemoved, stopping>>
       /\ mcpCall'[c].tools = entries'[k].has /\ entries'[k].sig # 0
       /\ entries'[k].has = Has(k) \cup mcpCall[c].got
       /\ entries'[k].timedOut \subseteq entries[k].timedOut \cup mcpCall[c].timedOut
  BY <1>1, <1>6, <1>12, <1>13, <1>14, <1>17
<1>19. /\ \A i \in Has(k), j \in mcpCall[c].got : server[i].name # server[j].name
       /\ \A i \in entries'[k].has : server[i].name \notin entries'[k].timedOut
       /\ \A x \in 1 .. MaxEntries : x # k => entries'[x] = entries[x]
  BY <1>5, <1>11, <1>13
<1> HIDE DEF call, e
<1>20. PICK K \in 1 .. MaxEntries : K = k BY <1>1
<1>21. \A d \in McpCalls : d # c /\ Retries(d) /\ mcpCall[d].entry = K => mcpCall[d].names \subseteq entries'[K].retrying
  BY <1>15, <1>20
<1>22. /\ mcpEntry' = K /\ At(c)' = "got" /\ mcpCall'[c].got = {} /\ mcpCall'[c].tools = entries'[K].has
       /\ entries'[K].has = Has(K) \cup mcpCall[c].got /\ entries'[K].sig # 0
       /\ entries'[K].timedOut \subseteq entries[K].timedOut \cup mcpCall[c].timedOut
       /\ UNCHANGED <<server, mcpRemoved, stopping>>
  BY <1>17, <1>18, <1>20
<1>23. \/ mcpEntry = K /\ At(c) \in {"retrying", "restarting"} /\ mcpCall[c].entry = K
       \/ mcpEntry = 0 /\ At(c) = "starting" /\ entries[K].sig = 0
  BY <1>18, <1>20
<1>24. \A i \in Has(K), j \in mcpCall[c].got : server[i].name # server[j].name BY <1>19, <1>20
<1>25. \A i \in entries'[K].has : server[i].name \notin entries'[K].timedOut BY <1>19, <1>20
<1>26. \A x \in 1 .. MaxEntries : x # K => entries'[x] = entries[x] BY <1>19, <1>20
<1>27. \A d \in McpCalls : d # c => mcpCall'[d] = mcpCall[d] BY <1>17
<1>28. ~clashed' => Apart BY <1>17
<1> QED BY <1>21, <1>22, <1>23, <1>24, <1>25, <1>26, <1>27, <1>28, JoinCall

\* The successors of the servers that died join the entry.
LEMMA SuccessorsJoin ==
    ASSUME McpGood, McpTypeOK', StartedStay, NEW c \in McpCalls, RestartedJoin(c)
    PROVE  Owned' /\ (~clashed' => McpOrder')
<1> DEFINE call == mcpCall[c]
           k == mcpCall[c].entry
           e == entries[k]
           has == With(e.has, call.got)
           T == (e.timedOut \ NamesOf(has)) \cup call.timedOut
<1>0. McpTypeOK /\ OnePlace /\ EntriesUsed /\ RetriesApart /\ OneOfAName /\ DeadLeave /\ WhoReplaces
  BY DEF McpGood, McpOrder
<1>1. /\ At(c) = "restarting" /\ k \in 1 .. MaxEntries /\ mcpEntry = k /\ Got(c, has) /\ call.todo = {}
      /\ mcpEntry' = k /\ UNCHANGED <<server, stopping, mcpRemoved>>
  <2>1. /\ At(c) = "restarting" /\ Got(c, has) /\ UNCHANGED <<mcpEntry, server, stopping, mcpRemoved>> /\ call.todo = {}
    BY DEF RestartedJoin, At
  <2>2. k \in 1 .. MaxEntries /\ mcpEntry = k
    BY <1>0, <2>1 DEF McpTypeOK, McpCallType, WithEntry, At, EntryNumbers, WhoReplaces
  <2> QED BY <2>1, <2>2
<1>2. e \in EntryType /\ e.has = Has(k) /\ call.got \in SUBSET Instances /\ Has(k) \in SUBSET Instances
  BY <1>0, <1>1, McpSets DEF McpTypeOK, McpCallType, Has
<1>3. \A i \in call.got : server[i].name \in call.names /\ server[i].name \notin call.timedOut
  BY <1>0, <1>1 DEF OneOfAName, OneInCall
<1>4. \A i \in Has(k) : server[i].name \notin call.names BY <1>0, <1>1 DEF DeadLeave, DeadLeft
<1>5. \A i \in Has(k), j \in call.got : server[i].name # server[j].name BY <1>3, <1>4
<1>6. has = Has(k) \cup call.got BY <1>2, <1>5, WithAdds
<1>7. call.timedOut \subseteq call.names BY <1>0, <1>1 DEF OneOfAName, OneInCall
<1>8. entries' = [entries EXCEPT ![k] = [e EXCEPT !.has = has, !.timedOut = (@ \ NamesOf(has)) \cup call.timedOut]]
  BY DEF RestartedJoin
<1>9. [e EXCEPT !.has = has, !.timedOut = (@ \ NamesOf(has)) \cup call.timedOut]
      = [e EXCEPT !.has = has, !.timedOut = T]
  BY <1>2 DEF EntryType
<1>10. \A i \in has : server[i].name \in NamesOf(has) BY DEF NamesOf
<1>11. \A i \in has : server[i].name \notin T
  BY <1>3, <1>4, <1>6, <1>7, <1>10
<1>12. T \subseteq e.timedOut \cup call.timedOut OBVIOUS
<1> HIDE DEF has, T
<1>13. /\ entries'[k].has = has /\ entries'[k].retrying = e.retrying /\ entries'[k].timedOut = T
       /\ entries'[k].sig = e.sig /\ \A x \in 1 .. MaxEntries : x # k => entries'[x] = entries[x]
  BY <1>0, <1>1, <1>2, <1>8, <1>9 DEF McpTypeOK, EntryType
<1>14. entries'[k].sig # 0 BY <1>0, <1>1, <1>13 DEF EntriesUsed, WithEntry
<1>15. \A d \in McpCalls : d # c /\ Retries(d) /\ mcpCall[d].entry = k => mcpCall[d].names \subseteq entries'[k].retrying
  BY <1>0, <1>13 DEF RetriesApart, RetryKnown
<1>16. has \in SUBSET Instances BY <1>2, <1>6
<1>17. /\ At(c)' = "got" /\ mcpCall'[c].got = {} /\ mcpCall'[c].tools = has /\ (~clashed' => Apart)
       /\ \A d \in McpCalls : d # c => mcpCall'[d] = mcpCall[d]
  BY <1>0, <1>1, <1>16, GotFacts
<1>18. /\ k \in 1 .. MaxEntries /\ mcpEntry' = k /\ mcpEntry = k /\ mcpCall[c].entry = k
       /\ At(c) \in {"retrying", "restarting"} /\ UNCHANGED <<server, mcpRemoved, stopping>>
       /\ mcpCall'[c].tools = entries'[k].has /\ entries'[k].sig # 0
       /\ entries'[k].has = Has(k) \cup mcpCall[c].got
       /\ entries'[k].timedOut \subseteq entries[k].timedOut \cup mcpCall[c].timedOut
  BY <1>1, <1>6, <1>12, <1>13, <1>14, <1>17
<1>19. /\ \A i \in Has(k), j \in mcpCall[c].got : server[i].name # server[j].name
       /\ \A i \in entries'[k].has : server[i].name \notin entries'[k].timedOut
       /\ \A x \in 1 .. MaxEntries : x # k => entries'[x] = entries[x]
  BY <1>5, <1>11, <1>13
<1> HIDE DEF call, e
<1>20. PICK K \in 1 .. MaxEntries : K = k BY <1>1
<1>21. \A d \in McpCalls : d # c /\ Retries(d) /\ mcpCall[d].entry = K => mcpCall[d].names \subseteq entries'[K].retrying
  BY <1>15, <1>20
<1>22. /\ mcpEntry' = K /\ At(c)' = "got" /\ mcpCall'[c].got = {} /\ mcpCall'[c].tools = entries'[K].has
       /\ entries'[K].has = Has(K) \cup mcpCall[c].got /\ entries'[K].sig # 0
       /\ entries'[K].timedOut \subseteq entries[K].timedOut \cup mcpCall[c].timedOut
       /\ UNCHANGED <<server, mcpRemoved, stopping>>
  BY <1>17, <1>18, <1>20
<1>23. \/ mcpEntry = K /\ At(c) \in {"retrying", "restarting"} /\ mcpCall[c].entry = K
       \/ mcpEntry = 0 /\ At(c) = "starting" /\ entries[K].sig = 0
  BY <1>18, <1>20
<1>24. \A i \in Has(K), j \in mcpCall[c].got : server[i].name # server[j].name BY <1>19, <1>20
<1>25. \A i \in entries'[K].has : server[i].name \notin entries'[K].timedOut BY <1>19, <1>20
<1>26. \A x \in 1 .. MaxEntries : x # K => entries'[x] = entries[x] BY <1>19, <1>20
<1>27. \A d \in McpCalls : d # c => mcpCall'[d] = mcpCall[d] BY <1>17
<1>28. ~clashed' => Apart BY <1>17
<1> QED BY <1>21, <1>22, <1>23, <1>24, <1>25, <1>26, <1>27, <1>28, JoinCall

\* All servers are started, and are a new entry's.
LEMMA AllStartedStep ==
    ASSUME McpGood, McpTypeOK', StartedStay, NEW c \in McpCalls, AllStarted(c)
    PROVE  Owned' /\ (~clashed' => McpOrder')
<1> DEFINE call == mcpCall[c]
           free == {e \in 1 .. MaxEntries : entries[e].sig = 0}
<1>0. McpTypeOK /\ OnePlace /\ EntriesUsed /\ RetriesApart /\ OneOfAName /\ WhoReplaces BY DEF McpGood, McpOrder
<1>1. PICK k : k = CHOOSE x \in free : \A y \in free : x <= y OBVIOUS
<1>2. /\ At(c) = "starting" /\ Got(c, call.got) /\ UNCHANGED <<server, stopping, mcpRemoved>>
      /\ entries' = [entries EXCEPT ![k] = [sig |-> call.sig, has |-> call.got, timedOut |-> call.timedOut,
                                            retrying |-> {}]]
      /\ mcpEntry' = k /\ free # {}
  BY <1>1 DEF AllStarted, At
<1>3. k \in 1 .. MaxEntries /\ entries[k].sig = 0
  <2>1. free \in SUBSET Nat /\ free # {} BY <1>2, McpBoundsAssumption
  <2> HIDE DEF free
  <2>2. k \in free BY <1>1, <2>1, LeastExists
  <2> QED BY <2>2 DEF free
<1>4. Has(k) = {} /\ call.sig # 0 /\ mcpEntry = 0 /\ call.got \in SUBSET Instances
  BY <1>0, <1>2, <1>3 DEF EntriesUsed, WhoReplaces, McpTypeOK, McpCallType
<1>5. /\ entries'[k].has = call.got /\ entries'[k].timedOut = call.timedOut /\ entries'[k].sig = call.sig
      /\ \A x \in 1 .. MaxEntries : x # k => entries'[x] = entries[x]
  BY <1>0, <1>2, <1>3 DEF McpTypeOK
<1>6. \A i \in call.got : server[i].name \notin call.timedOut BY <1>0 DEF OneOfAName, OneInCall
<1>7. \A d \in McpCalls : Retries(d) => mcpCall[d].entry # k BY <1>0, <1>3 DEF EntriesUsed, Retries, WithEntry
<1>8. /\ At(c)' = "got" /\ mcpCall'[c].got = {} /\ mcpCall'[c].tools = call.got /\ (~clashed' => Apart)
      /\ \A d \in McpCalls : d # c => mcpCall'[d] = mcpCall[d]
  BY <1>0, <1>2, <1>4, GotFacts
<1> QED BY <1>2, <1>3, <1>4, <1>5, <1>6, <1>7, <1>8, JoinCall

\* A step of any kind, from a state in which no calls have clashed.
LEMMA McpStep ==
    ASSUME McpGood, ~clashed, McpNext
    PROVE  McpTypeOK' /\ Owned' /\ (~clashed' => McpOrder')
<1>1. McpTypeOK' /\ StartedStay BY McpTyped, StepStays DEF McpGood
<1>2. CASE ConfigChanges \/ (\E i \in Instances : ServerDies(i)) \/ IdleCleanup \/ Removal \/ StopsNext
  BY <1>1, <1>2, StopsStep
<1>3. ASSUME NEW c \in McpCalls,
             \/ AskForTools(c) \/ UseCached(c) \/ DeferRestart(c) \/ ClearNext(c) \/ RestartAll(c)
             \/ RestartStops(c) \/ RestartedJoin(c) \/ AllStarted(c) \/ StreamBegins(c) \/ StreamOver(c)
      PROVE  Owned' /\ (~clashed' => McpOrder')
  BY <1>1, <1>3, AskStep, RetryStep, DeferStep, ClearStep, RestartStep, SuccessorsJoin, AllStartedStep, StreamStep
<1>4. ASSUME NEW c \in McpCalls, RetryEnds(c) PROVE Owned' /\ (~clashed' => McpOrder')
  BY <1>1, <1>4, RetriedJoin, DiscardStep
<1>5. ASSUME NEW c \in McpCalls, DiscardNext(c) PROVE Owned' /\ (~clashed' => McpOrder')
  BY <1>1, <1>5, DiscardedStep, DiscardStep
<1>6. ASSUME NEW c \in McpCalls, NEW n \in McpNames, StartOne(c, n) PROVE Owned' /\ (~clashed' => McpOrder')
  BY <1>1, <1>6, StartStep
<1> QED BY <1>1, <1>2, <1>3, <1>4, <1>5, <1>6 DEF McpNext

\* Initially there is no entry, no server and no call.
LEMMA McpInitGood == McpInit => McpGood
<1> SUFFICES ASSUME McpInit PROVE McpGood
  OBVIOUS
<1>1. /\ mcpConfig = 1 /\ mcpEntry = 0 /\ entries = [e \in 1 .. MaxEntries |-> NoEntry]
      /\ server = [i \in Instances |-> [name |-> "none", state |-> "none"]]
      /\ mcpCall = [c \in McpCalls |-> NoMcpCall] /\ stopping = NotStopping /\ mcpRemoved = FALSE /\ clashed = FALSE
  BY DEF McpInit
<1>2. McpTypeOK
  <2>1. 0 \in EntryNumbers BY McpBoundsAssumption DEF EntryNumbers
  <2>2. [name |-> "none", state |-> "none"] \in ServerType BY DEF ServerType, AnyName
  <2>3. \A c \in McpCalls : mcpCall[c].at \notin WithEntry BY <1>1 DEF NoMcpCall, WithEntry
  <2>4. entries \in [1 .. MaxEntries -> EntryType] /\ server \in [Instances -> ServerType]
      /\ mcpCall \in [McpCalls -> McpCallType]
    BY <1>1, <2>2, McpFields
  <2>5. mcpConfig \in Nat \ {0} /\ stopping \in StopType BY <1>1 DEF StopType
  <2>6. mcpRemoved \in BOOLEAN /\ clashed \in BOOLEAN BY <1>1
  <2> QED BY <1>1, <2>1, <2>3, <2>4, <2>5, <2>6 DEF McpTypeOK
<1>3. /\ \A c \in McpCalls : mcpCall[c] = NoMcpCall /\ At(c) = "none" /\ mcpCall[c].got = {}
      /\ \A e \in 1 .. MaxEntries : Has(e) = {}
      /\ \A i \in Instances : StateOf(i) = "none"
      /\ stopping.entry = 0 /\ stopping.done = {}
  BY <1>1 DEF NoMcpCall, NoEntry, NotStopping, At, Has, StateOf
<1>4. Owned BY <1>3 DEF Owned
<1>5. EntriesUsed /\ OnePlace /\ WhoReplaces BY <1>1, <1>3 DEF EntriesUsed, OnePlace, WhoReplaces, Replaces, WithEntry
<1>6. DoneIsClosed /\ OneOfAName BY <1>3 DEF DoneIsClosed, OneOfAName, OneInEntry, OneInCall
<1>7. RetriesApart /\ DeadLeave /\ ToolsAreKept
  BY <1>3 DEF RetriesApart, RetryKnown, RetriesDiffer, Retries, DeadLeave, DeadLeft, ToolsAreKept
<1> QED BY <1>2, <1>4, <1>5, <1>6, <1>7 DEF McpGood, McpOrder

\* A clash is not forgotten.
LEMMA ClashStays == McpNext /\ clashed => clashed'
<1> SUFFICES ASSUME McpNext, clashed PROVE clashed'
  OBVIOUS
<1>1. CASE ConfigChanges \/ IdleCleanup \/ Removal \/ StopsNext \/ \E i \in Instances : ServerDies(i)
  BY <1>1 DEF ConfigChanges, IdleCleanup, Removal, StopsNext, ServerDies
<1>2. ASSUME NEW c \in McpCalls, AskForTools(c) \/ UseCached(c) \/ DeferRestart(c) \/ ClearNext(c) \/ RestartAll(c)
      PROVE  clashed'
  BY <1>2 DEF AskForTools, UseCached, DeferRestart, ClearNext, RestartAll, Starts, Got, Set, Clash
<1>3. ASSUME NEW c \in McpCalls, RestartStops(c) \/ RetryEnds(c) \/ DiscardNext(c) \/ RestartedJoin(c)
      PROVE  clashed'
  BY <1>3 DEF RestartStops, RetryEnds, DiscardNext, RestartedJoin, Starts, Got, Set, Clash
<1>4. ASSUME NEW c \in McpCalls, AllStarted(c) \/ StreamBegins(c) \/ StreamOver(c) \/ \E n \in McpNames : StartOne(c, n)
      PROVE  clashed'
  BY <1>4 DEF AllStarted, StreamBegins, StreamOver, StartOne, Got, Set, Clash
<1> QED BY <1>1, <1>2, <1>3, <1>4 DEF McpNext

\* With a stream running, no step closes an open instance of the entry.
LEMMA LeaseStep ==
    ASSUME McpGood, McpNext, mcpRemoved' = mcpRemoved, Leased, mcpEntry # 0, NEW i \in Has(mcpEntry), StateOf(i) = "open"
    PROVE  server'[i].state # "closed"
<1>1. /\ McpTypeOK /\ EntriesUsed /\ OnePlace /\ WhoReplaces /\ DeadLeave
      /\ mcpEntry \in 1 .. MaxEntries /\ Has(mcpEntry) \in SUBSET Instances /\ server[i].state = "open"
  <2>1. mcpEntry \in 1 .. MaxEntries BY McpBoundsAssumption DEF McpGood, McpTypeOK, EntryNumbers
  <2> QED BY <2>1, McpSets DEF McpGood, McpOrder, StateOf
<1>2. ASSUME NEW I, i \notin I, server' = Closed(I) PROVE server'[i].state # "closed"
  BY <1>1, <1>2, ClosedFacts
<1>3. CASE ConfigChanges \/ (\E j \in Instances : ServerDies(j)) \/ IdleCleanup \/ Removal \/ StopsNext
  <2>1. CASE ConfigChanges BY <1>1, <2>1 DEF ConfigChanges
  <2>2. ASSUME NEW j \in Instances, ServerDies(j) PROVE server'[i].state # "closed"
    BY <1>1, <2>2 DEF ServerDies, McpTypeOK, ServerType
  <2>3. CASE IdleCleanup \/ Removal BY <2>3 DEF IdleCleanup, Removal, Leased
  <2>4. CASE StopsNext
    <3>1. stopping.entry \in 1 .. MaxEntries /\ stopping.entry # mcpEntry
      <4>1. stopping # NotStopping BY <2>4 DEF StopsNext
      <4>2. stopping \in [entry : 1 .. MaxEntries, done : SUBSET Instances] BY <1>1, <4>1 DEF McpTypeOK, StopType
      <4>3. stopping.entry # 0 BY <4>2
      <4> QED BY <1>1, <4>2, <4>3 DEF EntriesUsed
    <3>2. i \notin entries[stopping.entry].has BY <1>1, <3>1 DEF OnePlace, Has
    <3>3. CASE server' = server BY <1>1, <3>3
    <3>4. ASSUME NEW I \in FirstOf(entries[stopping.entry].has \ stopping.done), server' = Closed(I)
          PROVE  server'[i].state # "closed"
      <4>1. i \notin I BY <3>2, FirstFacts
      <4> QED BY <1>2, <3>4, <4>1
    <3> QED BY <2>4, <3>3, <3>4 DEF StopsNext
  <2> QED BY <1>3, <2>1, <2>2, <2>3, <2>4
<1>4. ASSUME NEW c \in McpCalls,
             AskForTools(c) \/ UseCached(c) \/ RestartedJoin(c) \/ AllStarted(c) \/ StreamBegins(c) \/ StreamOver(c)
      PROVE  server'[i].state # "closed"
  BY <1>1, <1>4 DEF AskForTools, UseCached, RestartedJoin, AllStarted, StreamBegins, StreamOver
<1>5. ASSUME NEW c \in McpCalls, DeferRestart(c) PROVE server'[i].state # "closed"
  <2>1. CASE server' = server BY <1>1, <2>1
  <2>2. ASSUME NEW j \in Dead(mcpEntry), server' = Closed({j}) PROVE server'[i].state # "closed"
    <3>1. i \notin {j} BY <2>2 DEF Dead
    <3> QED BY <1>2, <2>2, <3>1
  <2> QED BY <1>5, <2>1, <2>2 DEF DeferRestart
<1>6. ASSUME NEW c \in McpCalls, ClearNext(c) PROVE server'[i].state # "closed"
  <2> DEFINE at(n) == {j \in entries[mcpCall[c].entry].has : server[j].name = n}
  <2>1. CASE server' = server BY <1>1, <2>1
  <2>2. ASSUME NEW n \in mcpCall[c].todo, server' = Closed(at(n)) PROVE server'[i].state # "closed"
    <3>1. At(c) = "clearing" BY <1>6 DEF ClearNext, At
    <3>2. mcpCall[c].entry = mcpEntry /\ mcpCall[c].todo \subseteq mcpCall[c].names
      BY <1>1, <3>1 DEF WhoReplaces, McpGood, McpOrder, OneOfAName, OneInCall
    <3>3. \A j \in Has(mcpEntry) : server[j].name = n => StateOf(j) # "open"
      BY <1>1, <2>2, <3>1, <3>2 DEF DeadLeave, DeadLeft
    <3>4. i \notin at(n) BY <3>2, <3>3
    <3> HIDE DEF at
    <3> QED BY <1>2, <2>2, <3>4
  <2> QED BY <1>6, <2>1, <2>2 DEF ClearNext
<1>7. ASSUME NEW c \in McpCalls, RestartAll(c) \/ RestartStops(c) PROVE FALSE
  <2>1. ~RestartAll(c) BY DEF RestartAll
  <2>2. ~RestartStops(c) BY <1>1 DEF RestartStops, WhoReplaces, At
  <2> QED BY <1>7, <2>1, <2>2
<1>8. ASSUME NEW c \in McpCalls, RetryEnds(c) \/ DiscardNext(c) PROVE server'[i].state # "closed"
  <2>1. CASE server' = server BY <1>1, <2>1
  <2>2. ASSUME NEW I \in FirstOf(mcpCall[c].got), server' = Closed(I) PROVE server'[i].state # "closed"
    <3>1. i \notin mcpCall[c].got BY <1>1 DEF OnePlace
    <3>2. i \notin I BY <3>1, FirstFacts
    <3> QED BY <1>2, <2>2, <3>2
  <2>3. RetryEnds(c) => server' = server \/ \E I \in FirstOf(mcpCall[c].got) : server' = Closed(I) BY DEF RetryEnds
  <2>4. DiscardNext(c) => server' = server \/ \E I \in FirstOf(mcpCall[c].got) : server' = Closed(I) BY DEF DiscardNext
  <2> QED BY <1>8, <2>1, <2>2, <2>3, <2>4
<1>9. ASSUME NEW c \in McpCalls, NEW n \in McpNames, StartOne(c, n) PROVE server'[i].state # "closed"
  <2>1. CASE server' = server BY <1>1, <2>1
  <2>2. ASSUME NEW j, server' = [server EXCEPT ![j] = [name |-> n, state |-> "open"]] PROVE server'[i].state # "closed"
    BY <1>1, <2>2 DEF McpTypeOK
  <2> QED BY <1>9, <2>1, <2>2 DEF StartOne
<1> QED BY <1>3, <1>4, <1>5, <1>6, <1>7, <1>8, <1>9 DEF McpNext

\* The inductive invariant, which a clash of calls ends.
LEMMA McpInductive == McpIInv /\ [McpNext]_mcpVars => McpIInv'
<1>1. CASE UNCHANGED mcpVars
  BY <1>1 DEF mcpVars, McpIInv, McpGood, McpTypeOK, Owned, McpOrder, EntriesUsed, OnePlace, WhoReplaces,
              DoneIsClosed, OneOfAName, OneInEntry, OneInCall, RetriesApart, RetryKnown, RetriesDiffer, Retries,
              DeadLeave, DeadLeft, ToolsAreKept, At, Has, StateOf
<1>2. ASSUME McpIInv, McpNext PROVE McpIInv'
  <2>1. McpTypeOK' BY <1>2, McpTyped DEF McpIInv
  <2>2. ~clashed' => ~clashed BY <1>2, ClashStays
  <2>3. ~clashed' => McpGood' BY <1>2, <2>1, <2>2, McpStep DEF McpIInv, McpGood
  <2> QED BY <2>1, <2>3 DEF McpIInv
<1> QED BY <1>1, <1>2

\* ... holds of every reachable state.
LEMMA McpAlways == McpSpec => []McpIInv
<1>1. McpInit => McpIInv BY McpInitGood DEF McpGood, McpIInv
<1> QED BY <1>1, McpInductive, PTL DEF McpSpec

\* Every open server can still be closed by someone, until two calls replace servers at a time, or one
\* does while another stream is about to begin with its tools or the workspace is removed, or the
\* removal has waited for a stream in vain (getToolsForWorkspace and its helpers, for any numbers of
\* servers, streams and configurations).
THEOREM NothingLostBeforeAClash == McpSpec => []NoServerLost
<1>1. McpIInv => NoServerLost BY DEF McpIInv, McpGood, NoServerLost
<1> QED BY <1>1, McpAlways, PTL

\* Until then a running stream's healthy clients are not closed under it: not by an idle check, and not
\* by the calls of the next streams, whatever servers die or time out and however often the
\* configuration changes.
THEOREM LeaseHoldsBeforeAClash == McpSpec => LeaseProtects
<1> DEFINE Kept == ~clashed /\ mcpRemoved' = mcpRemoved =>
                       \A i \in Instances : StateOf(i) = "open" /\ server'[i].state = "closed" =>
                           \A c \in McpCalls : mcpCall[c].at = "streaming" => i \notin mcpCall[c].tools
<1>1. McpIInv /\ [McpNext]_mcpVars => [Kept]_mcpVars
  <2> SUFFICES ASSUME McpIInv, McpNext, ~clashed, mcpRemoved' = mcpRemoved PROVE Kept
    OBVIOUS
  <2>1. McpGood BY DEF McpIInv
  <2>2. SUFFICES ASSUME NEW i \in Instances, StateOf(i) = "open", server'[i].state = "closed",
                        NEW c \in McpCalls, At(c) = "streaming", i \in mcpCall[c].tools
                 PROVE  FALSE
    BY DEF At
  <2>3. mcpEntry # 0 /\ i \in Has(mcpEntry) /\ Leased
    BY <2>1, <2>2 DEF McpGood, McpOrder, ToolsAreKept, Leased, At
  <2> QED BY <2>1, <2>2, <2>3, LeaseStep
<1>2. McpSpec => [][Kept]_mcpVars BY <1>1, McpAlways, PTL DEF McpSpec
<1> QED BY <1>2 DEF LeaseProtects
=============================================================================
