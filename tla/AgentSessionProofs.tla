-------------------------- MODULE AgentSessionProofs --------------------------
(***************************************************************************)
(* A session is never stuck in a phase, loses track of no message, strands *)
(* no queue and, when it is idle, runs no turn, for any number of messages *)
(* and turns, any limit on hand-overs and every scenario.  PhaseExplained  *)
(* is inductive with the types: a phase is set only by a step that leaves  *)
(* the turn, stop or handler that will change it, and that only goes away  *)
(* in a step that sets the phase again.                                    *)
(***************************************************************************)
EXTENDS AgentSession, TLAPS

Slots == [Turns -> Turn]

\* A turn that begins takes a slot that is free, and leaves the others alone.
LEMMA BeginTakesFree ==
    ASSUME NEW p \in Slots, Room(p), NEW label \in PC, NEW k \in Kind, NEW c \in SUBSET Messages
    PROVE  /\ Slot(p) \in Turns /\ p[Slot(p)].pc = "free"
           /\ Begin(p, label, k, c) \in Slots
           /\ Begin(p, label, k, c)[Slot(p)] = NewTurn(label, k, c)
           /\ \A t \in Turns: t # Slot(p) => Begin(p, label, k, c)[t] = p[t]
  <1>1. Slot(p) \in Turns /\ p[Slot(p)].pc = "free"
    BY DEF Room, Slot
  <1>2. NewTurn(label, k, c) \in Turn
    BY DEF NewTurn, Turn
  <1> QED BY <1>1, <1>2 DEF Begin, Slots

\* A turn that goes on to another label is a turn, and the others stay as they are.
LEMMA GotoKeeps ==
    ASSUME turn \in Slots, NEW t \in Turns, NEW label \in PC
    PROVE  Goto(t, label) \in Slots
  BY DEF Goto, Slots, Turn

\* The turns after a send has settled: only a handler that awaited it changes, and it
\* remains one.
LEMMA SettledKeeps ==
    ASSUME turn \in Slots, NEW t \in Turns, NEW r \in Turn, NEW ok \in BOOLEAN
    PROVE  /\ Settled(t, r, ok) \in Slots
           /\ Settled(t, r, ok)[t] = r
           /\ \A u \in Turns: u # t =>
                \/ Settled(t, r, ok)[u] = turn[u]
                \/ (turn[u].pc = "await" /\ Settled(t, r, ok)[u].pc \in {"flush", "finally"})
  <1>1. ASSUME NEW u \in Turns, NEW label \in PC PROVE [turn[u] EXCEPT !.pc = label] \in Turn
    BY DEF Slots, Turn
  <1>2. ASSUME NEW u \in Turns, NEW label \in {"flush", "finally"}
        PROVE  [turn[u] EXCEPT !.pc = label].pc = label
    BY DEF Slots, Turn
  <1>3. "flush" \in PC /\ "finally" \in PC
    BY DEF PC, After
  <1> DEFINE Then == IF (turn[t].kind = "followup") = ok THEN "flush" ELSE "finally"
  <1> DEFINE S(u) == IF u = t THEN r
               ELSE IF At(u, "await") /\ turn[t].kind \in {"followup", "switch"}
                    THEN [turn[u] EXCEPT !.pc = Then] ELSE turn[u]
  <1>9. Then \in {"flush", "finally"}
    OBVIOUS
  <1> HIDE DEF Then
  <1>4. \A u \in Turns: S(u) \in Turn
    BY <1>1, <1>3, <1>9 DEF Slots
  <1>5. ASSUME NEW u \in Turns, u # t
        PROVE  S(u) = turn[u] \/ (turn[u].pc = "await" /\ S(u).pc \in {"flush", "finally"})
    <2>1. CASE At(u, "await") /\ turn[t].kind \in {"followup", "switch"}
      <3>1. S(u) = [turn[u] EXCEPT !.pc = Then]
        BY <1>5, <2>1
      <3>2. S(u).pc = Then
        BY <3>1, <1>2, <1>9
      <3> QED BY <3>2, <1>9, <2>1 DEF At
    <2>2. CASE ~(At(u, "await") /\ turn[t].kind \in {"followup", "switch"})
      BY <1>5, <2>2
    <2> QED BY <2>1, <2>2
  <1>6. Settled(t, r, ok) = [u \in Turns |-> S(u)]
    BY DEF Settled, Then
  <1>7. S(t) = r
    OBVIOUS
  <1> HIDE DEF S
  <1> QED BY <1>4, <1>5, <1>6, <1>7 DEF Slots

\* Waking the waiters keeps the types.
LEMMA BecomeIdleTypes ==
    ASSUME NEW p \in Slots, queue \subseteq Messages, defer \in BOOLEAN, BecomeIdle(p)
    PROVE  phase' = "idle" /\ turn' \in Slots /\ queue' \subseteq Messages /\ defer' \in BOOLEAN
  <1>1. ASSUME NEW u \in Turns
        PROVE  /\ [p[u] EXCEPT !.pc = "truncate"] \in Turn
               /\ [p[u] EXCEPT !.pc = "accept"] \in Turn
               /\ p[u] \in Turn
    BY DEF Slots, Turn, PC, Asking
  <1>2. turn' \in Slots
    BY <1>1 DEF BecomeIdle, Slots
  <1> QED BY <1>2 DEF BecomeIdle

\* Ending a phase keeps the types.
LEMMA IdleFromTypes ==
    ASSUME NEW p \in Slots, NEW q, queue \subseteq Messages, defer \in BOOLEAN, phase \in Phase,
           IdleFrom(q, p)
    PROVE  /\ phase' \in Phase /\ turn' \in Slots /\ queue' \subseteq Messages /\ defer' \in BOOLEAN
           /\ phase' = "idle" \/ (phase # q /\ phase' = phase /\ turn' = p)
  BY BecomeIdleTypes DEF IdleFrom, Phase

\* A stop keeps the types, and turns a live stream into one whose abort is on its way.
LEMMA StopStreamTypes ==
    ASSUME NEW p \in Slots, stray \in {"no", "coming", "settling"}, StopStream(p)
    PROVE  /\ turn' \in Slots /\ stray' \in {"no", "coming", "settling"}
           /\ stray' # stray => stray = "no"
           /\ starting' = starting
           /\ \A t \in Turns:
                IF p[t].pc = "live" THEN turn'[t].pc = "aborting"
                ELSE turn'[t].pc = p[t].pc /\ turn'[t].kind = p[t].kind
  <1>1. ASSUME NEW t \in Turns
        PROVE  /\ [p[t] EXCEPT !.pc = "aborting"] \in Turn
               /\ [p[t] EXCEPT !.pc = "aborting"].pc = "aborting"
               /\ [p[t] EXCEPT !.dropped = TRUE] \in Turn
               /\ [p[t] EXCEPT !.dropped = TRUE].pc = p[t].pc
               /\ [p[t] EXCEPT !.dropped = TRUE].kind = p[t].kind
               /\ p[t] \in Turn
    BY DEF Slots, Turn, PC, After
  <1>2. turn' \in Slots
    BY <1>1 DEF StopStream, Slots
  <1> QED BY <1>1, <1>2 DEF StopStream

IInv == TypeOK /\ PhaseExplained

\* Whether a turn is one of those that will change phase q.
Explains(q, r) ==
    \/ q = "preparing" /\ (r.pc \in Beginning
                             \/ (r.pc \in {"accept", "accepted"} /\ r.kind = "queued"))
    \/ q = "streaming" /\ r.pc \in {"live", "aborting"}
    \/ q = "completing" /\ r.pc \in After \ {"aborting"}

ExplainedBy(q, s, p) ==
    \/ q = "idle"
    \/ q = "streaming" /\ s = "coming"
    \/ q = "completing" /\ s = "settling"
    \/ \E t \in Turns: Explains(q, p[t])

\* What explains a phase, in terms of the labels alone.
LEMMA ExplainedRestated ==
    ASSUME phase \in Phase
    PROVE  PhaseExplained => ExplainedBy(phase, stray, turn)
  <1>1. CASE phase = "idle"
    BY <1>1 DEF ExplainedBy
  <1>2. CASE phase = "preparing" /\ PhaseExplained
    <2>1. PICK t \in In(Beginning \cup {"accept", "accepted"}):
             At(t, "accept") \/ At(t, "accepted") => turn[t].kind = "queued"
      BY <1>2 DEF PhaseExplained
    <2>2. t \in Turns /\ turn[t].pc \in Beginning \cup {"accept", "accepted"}
      BY DEF In
    <2>3. turn[t].pc \in {"accept", "accepted"} => turn[t].kind = "queued"
      BY <2>1 DEF At
    <2>4. Explains("preparing", turn[t])
      BY <2>2, <2>3 DEF Explains
    <2> QED BY <1>2, <2>2, <2>4 DEF ExplainedBy
  <1>3. CASE phase = "streaming"
    BY <1>3 DEF PhaseExplained, ExplainedBy, Explains, In
  <1>4. CASE phase = "completing"
    BY <1>4 DEF PhaseExplained, ExplainedBy, Explains, In
  <1> QED BY <1>1, <1>2, <1>3, <1>4 DEF Phase

\* The same of the next state.
LEMMA ExplainedRestatedNext ==
    ASSUME phase' \in Phase, ExplainedBy(phase', stray', turn')
    PROVE  PhaseExplained'
  <1> USE DEF PhaseExplained, ExplainedBy, Explains, In, At, Phase
  <1>1. CASE phase' = "idle"
    BY <1>1
  <1>2. CASE phase' = "preparing"
    BY <1>2 DEF Beginning
  <1>3. CASE phase' = "streaming"
    BY <1>3
  <1>4. CASE phase' = "completing"
    BY <1>4
  <1> QED BY <1>1, <1>2, <1>3, <1>4

\* A phase that stays is explained as before, if no turn that explains it stops to.
LEMMA StaysExplained ==
    ASSUME IInv, phase' = phase,
           stray' = stray \/ stray = "no",
           \A t \in Turns: Explains(phase, turn[t]) => Explains(phase, turn'[t])
    PROVE  PhaseExplained'
  <1>1. ExplainedBy(phase, stray, turn)
    BY ExplainedRestated DEF IInv, TypeOK
  <1>2. ExplainedBy(phase', stray', turn')
    BY <1>1 DEF ExplainedBy
  <1> QED BY <1>2, ExplainedRestatedNext DEF IInv, TypeOK

\* A phase that a step sets is explained by a turn of that step.
LEMMA SetExplained ==
    ASSUME phase' \in Phase, \/ phase' = "idle"
                             \/ \E t \in Turns: Explains(phase', turn'[t])
    PROVE  PhaseExplained'
  BY ExplainedRestatedNext DEF ExplainedBy

\* The types in two parts: what wakes waiters and moves turns, and the rest.
Core == phase \in Phase /\ queue \subseteq Messages /\ defer \in BOOLEAN /\ turn \in Slots
Rest ==
    /\ starting \in Turns \cup {NoTurn}
    /\ stray \in {"no", "coming", "settling"} /\ stop \in BOOLEAN
    /\ active \in BOOLEAN /\ switches \in 0..MaxSwitches
    /\ tail \in Tail /\ owed \in BOOLEAN
    /\ promised \subseteq Messages /\ written \subseteq Messages /\ unsent \subseteq Messages
    /\ armed \in BOOLEAN /\ failed \in BOOLEAN
    /\ opened \in {"no", "check", "done"}
    /\ events \subseteq Event
    /\ left \in Nat

\* The types, split into what most steps leave alone and the rest.
LEMMA TypeParts == (TypeOK <=> Core /\ Rest) /\ (TypeOK' <=> Core' /\ Rest')
  BY DEF TypeOK, Core, Rest, Slots

\* Replacing a turn, or its label, gives turns.
LEMMA TurnFacts ==
    ASSUME turn \in Slots
    PROVE  /\ Free \in Turn
           /\ \A t \in Turns: turn[t] \in Turn /\ turn[t].sends \subseteq Messages
           /\ \A t \in Turns: \A r \in Turn: [turn EXCEPT ![t] = r] \in Slots
           /\ \A t \in Turns: \A label \in PC:
                /\ Goto(t, label) \in Slots
                /\ Goto(t, label)[t].pc = label /\ Goto(t, label)[t].kind = turn[t].kind
                /\ \A u \in Turns: u # t => Goto(t, label)[u] = turn[u]
  <1>1. Free \in Turn
    BY DEF Free, NewTurn, Turn, PC
  <1>2. \A t \in Turns: turn[t] \in Turn /\ turn[t].sends \subseteq Messages
    BY DEF Slots, Turn
  <1>3. \A t \in Turns: \A r \in Turn: [turn EXCEPT ![t] = r] \in Slots
    BY DEF Slots
  <1>4. ASSUME NEW t \in Turns, NEW label \in PC
        PROVE  /\ Goto(t, label)[t].pc = label /\ Goto(t, label)[t].kind = turn[t].kind
               /\ \A u \in Turns: u # t => Goto(t, label)[u] = turn[u]
    BY DEF Goto, Slots, Turn
  <1> QED BY <1>1, <1>2, <1>3, <1>4, GotoKeeps

\* The labels of the turns.
LEMMA Labels ==
    /\ {"free", "live"} \cup Asking \cup Beginning \cup After \subseteq PC
    /\ {"deleting", "stopping", "waiting", "truncate", "accept", "accepted", "commit", "pending",
        "aborting", "settling", "ending", "handled", "await", "flush", "finally", "erring",
        "failing", "live", "free"} \subseteq PC
    /\ {"user", "edit", "queued", "resume", "followup", "switch", "midstream", "recovered"}
         \subseteq Kind
    /\ {"idle", "preparing", "streaming", "completing"} \subseteq Phase
  BY DEF PC, Asking, Beginning, After, Kind, Synthetic, Phase

\* A message that starts a turn.
LEMMA SendQueuedTypes ==
    ASSUME NEW p \in Slots, queue \subseteq Messages, defer \in BOOLEAN, SendQueued(p)
    PROVE  /\ phase' = "preparing" /\ turn' \in Slots /\ queue' \subseteq Messages
           /\ defer' \in BOOLEAN /\ switches' = 0
           /\ \E t \in Turns: turn'[t].pc = "accept" /\ turn'[t].kind = "queued"
  <1>1. Room(p) /\ turn' = Begin(p, "accept", "queued", queue)
    BY DEF SendQueued
  <1>2. "accept" \in PC /\ "queued" \in Kind
    BY Labels
  <1>3. turn' \in Slots /\ Slot(p) \in Turns /\ turn'[Slot(p)] = NewTurn("accept", "queued", queue)
    BY <1>1, <1>2, BeginTakesFree
  <1>4. turn'[Slot(p)].pc = "accept" /\ turn'[Slot(p)].kind = "queued"
    BY <1>3 DEF NewTurn
  <1> QED BY <1>3, <1>4 DEF SendQueued

\* The end of a send that starts no stream leaves the phase explained: it only explains
\* PREPARING, which it then ends.
LEMMA EndOfSend ==
    ASSUME IInv, NEW t \in Turns, turn[t].pc \in {"accept", "commit", "pending"},
           NEW ok \in BOOLEAN, IdleFrom("preparing", Settled(t, Free, ok)), stray' = stray
    PROVE  Core' /\ PhaseExplained'
  <1>1. Core
    BY TypeParts DEF IInv
  <1>2. Free \in Turn
    BY <1>1, TurnFacts DEF Core
  <1>3. /\ Settled(t, Free, ok) \in Slots
        /\ \A u \in Turns: u # t =>
             \/ Settled(t, Free, ok)[u] = turn[u]
             \/ (turn[u].pc = "await" /\ Settled(t, Free, ok)[u].pc \in {"flush", "finally"})
    BY <1>1, <1>2, SettledKeeps DEF Core
  <1>4. Core' /\ (phase' = "idle" \/ (phase # "preparing" /\ phase' = phase /\ turn' = Settled(t, Free, ok)))
    BY <1>1, <1>3, IdleFromTypes DEF Core
  <1>5. CASE phase' = "idle"
    BY <1>4, <1>5, SetExplained DEF Core
  <1>6. CASE phase # "preparing" /\ phase' = phase /\ turn' = Settled(t, Free, ok)
    <2>1. ASSUME NEW u \in Turns, Explains(phase, turn[u]) PROVE Explains(phase, turn'[u])
      <3>1. u # t
        BY <1>6, <2>1 DEF Explains, After
      <3>2. CASE turn'[u] = turn[u]
        BY <2>1, <3>2
      <3>3. CASE turn[u].pc = "await" /\ turn'[u].pc \in {"flush", "finally"}
        BY <1>6, <2>1, <3>3 DEF Explains, After
      <3> QED BY <1>3, <1>6, <3>1, <3>2, <3>3
    <2>2. \A u \in Turns: Explains(phase, turn[u]) => Explains(phase, turn'[u])
      BY <2>1
    <2> QED BY <1>4, <1>6, <2>2, StaysExplained
  <1> QED BY <1>4, <1>5, <1>6

\* The end of a stream-end handler only explains COMPLETING, which it then ends.
LEMMA EndOfHandler ==
    ASSUME IInv, NEW t \in Turns, turn[t].pc \in {"flush", "finally"},
           IdleFrom("completing", [turn EXCEPT ![t] = Free]), stray' = stray
    PROVE  Core' /\ PhaseExplained'
  <1>1. Core
    BY TypeParts DEF IInv
  <1>2. /\ [turn EXCEPT ![t] = Free] \in Slots
        /\ \A u \in Turns: u # t => [turn EXCEPT ![t] = Free][u] = turn[u]
    BY <1>1, TurnFacts DEF Core, Slots
  <1>3. Core' /\ (phase' = "idle" \/ (phase # "completing" /\ phase' = phase /\ turn' = [turn EXCEPT ![t] = Free]))
    BY <1>1, <1>2, IdleFromTypes DEF Core
  <1>4. CASE phase' = "idle"
    BY <1>3, <1>4, SetExplained DEF Core
  <1>5. CASE phase # "completing" /\ phase' = phase /\ turn' = [turn EXCEPT ![t] = Free]
    <2>1. ASSUME NEW u \in Turns, Explains(phase, turn[u]) PROVE Explains(phase, turn'[u])
      <3>1. u # t
        BY <1>5, <2>1 DEF Explains, Beginning
      <3> QED BY <1>2, <1>5, <2>1, <3>1
    <2>2. \A u \in Turns: Explains(phase, turn[u]) => Explains(phase, turn'[u])
      BY <2>1
    <2> QED BY <1>3, <1>5, <2>2, StaysExplained
  <1> QED BY <1>3, <1>4, <1>5

\* A turn that is neither in an explaining stage nor leaves one may begin or move.
LEMMA StopExplained ==
    ASSUME IInv, NEW p \in Slots, StopStream(p), phase' = phase,
           \A t \in Turns: Explains(phase, turn[t]) => Explains(phase, p[t])
    PROVE  turn' \in Slots /\ PhaseExplained'
  <1>1. Core /\ Rest
    BY TypeParts DEF IInv
  <1>2. /\ turn' \in Slots
        /\ stray' # stray => stray = "no"
        /\ \A t \in Turns: IF p[t].pc = "live" THEN turn'[t].pc = "aborting"
                           ELSE turn'[t].pc = p[t].pc /\ turn'[t].kind = p[t].kind
    BY <1>1, StopStreamTypes DEF Rest
  <1>3. ASSUME NEW t \in Turns, Explains(phase, turn[t]) PROVE Explains(phase, turn'[t])
    <2>1. Explains(phase, p[t])
      BY <1>3
    <2>2. CASE p[t].pc = "live"
      BY <1>2, <2>1, <2>2 DEF Explains, Beginning, After
    <2>3. CASE p[t].pc # "live"
      BY <1>2, <2>1, <2>3 DEF Explains
    <2> QED BY <2>2, <2>3
  <1> QED BY <1>2, <1>3, StaysExplained

\* A stream-end handler that awaits a synthetic send is still a handler.
LEMMA SyntheticKeeps ==
    ASSUME IInv, NEW t \in Turns, turn[t].pc \in {"ending", "handled"}, NEW k \in Kind,
           NEW c \in SUBSET Messages, SendSynthetic(t, k, c), phase' = phase, stray' = stray
    PROVE  turn' \in Slots /\ PhaseExplained'
  <1> DEFINE p == Begin(turn, "accept", k, c)
  <1>1. turn \in Slots /\ Room(turn)
    BY TypeParts DEF IInv, Core, SendSynthetic
  <1>2. /\ Slot(turn) \in Turns /\ turn[Slot(turn)].pc = "free"
        /\ p \in Slots
        /\ \A u \in Turns: u # Slot(turn) => p[u] = turn[u]
    BY <1>1, BeginTakesFree, Labels
  <1>3. turn' = [p EXCEPT ![t].pc = "await"]
    BY DEF SendSynthetic
  <1> HIDE DEF p
  <1>4. /\ turn' \in Slots /\ turn'[t].pc = "await"
        /\ \A u \in Turns: u # t => turn'[u] = p[u]
    BY <1>2, <1>3 DEF Slots, Turn, PC, After
  <1>5. \A u \in Turns: Explains(phase, turn[u]) => Explains(phase, turn'[u])
    BY <1>2, <1>4 DEF Explains, Beginning, After
  <1> QED BY <1>4, <1>5, StaysExplained

\* Every step keeps the invariant.
LEMMA StepIInv == IInv /\ [Next]_vars => IInv'
  <1> SUFFICES ASSUME IInv, [Next]_vars PROVE IInv'
    OBVIOUS
  <1>a. Core /\ Rest
    BY TypeParts DEF IInv
  <1>b. /\ Free \in Turn
        /\ \A t \in Turns: turn[t] \in Turn /\ turn[t].sends \subseteq Messages
        /\ \A t \in Turns: \A r \in Turn: [turn EXCEPT ![t] = r] \in Slots
        /\ \A t \in Turns: \A label \in PC:
             /\ Goto(t, label) \in Slots
             /\ Goto(t, label)[t].pc = label /\ Goto(t, label)[t].kind = turn[t].kind
             /\ \A u \in Turns: u # t => Goto(t, label)[u] = turn[u]
    BY <1>a, TurnFacts DEF Core
  <1>g. Room(turn) => \A label \in PC: \A q \in Kind: \A c \in SUBSET Messages:
          /\ Slot(turn) \in Turns /\ turn[Slot(turn)].pc = "free"
          /\ Begin(turn, label, q, c) \in Slots
          /\ Begin(turn, label, q, c)[Slot(turn)].pc = label
          /\ \A u \in Turns: u # Slot(turn) => Begin(turn, label, q, c)[u] = turn[u]
    <2>1. \A label, q, c: NewTurn(label, q, c).pc = label
      BY DEF NewTurn
    <2> QED BY <1>a, <2>1, BeginTakesFree DEF Core
  <1>h. ASSUME Room(turn), NEW label \in PC, NEW q \in Kind, NEW c \in SUBSET Messages
        PROVE  \A u \in Turns: Explains(phase, turn[u]) => Explains(phase, Begin(turn, label, q, c)[u])
    BY <1>g, <1>h DEF Explains, Beginning, After
  <1>c. \A t \in Turns: \A r \in Turn: \A ok \in BOOLEAN:
          /\ Settled(t, r, ok) \in Slots
          /\ Settled(t, r, ok)[t] = r
    BY <1>a, SettledKeeps DEF Core
  <1>f. \A t, u \in Turns: u # t =>
          \/ Settled(t, Free, FALSE)[u] = turn[u]
          \/ (turn[u].pc = "await" /\ Settled(t, Free, FALSE)[u].pc \in {"flush", "finally"})
    BY <1>a, <1>b, SettledKeeps DEF Core
  <1>d. Count => left' \in Nat /\ events' = events
    BY <1>a DEF Count, Rest
  <1>e. 0 \in 0..MaxSwitches
    BY SessionAssumption
  <1>1. ASSUME NEW t \in Turns, EditStops(t) PROVE IInv'
    <2>1. Goto(t, "stopping") \in Slots
      BY <1>b, Labels
    <2>2. \A u \in Turns: Explains(phase, turn[u]) => Explains(phase, Goto(t, "stopping")[u])
      BY <1>1, <1>b, Labels DEF EditStops, At, Explains, Beginning, After
    <2>3. turn' \in Slots /\ PhaseExplained'
      BY <1>1, <2>1, <2>2, StopExplained DEF EditStops
    <2>4. Core'
      BY <1>1, <1>a, <2>3 DEF EditStops, Core
    <2>5. Rest'
      BY <1>1, <1>a, <2>1, StopStreamTypes DEF EditStops, Rest, historyVars, bounds
    <2> QED BY <2>3, <2>4, <2>5, TypeParts DEF IInv
  <1>2. ASSUME NEW t \in Turns, Stopped(t) PROVE IInv'
    <2>1. Goto(t, "waiting") \in Slots
      BY <1>b, Labels
    <2>2. Rest'
      BY <1>2, <1>a DEF Stopped, Rest, historyVars, bounds
    <2>3. CASE BecomeIdle(Goto(t, "waiting"))
      <3>1. Core' /\ phase' = "idle"
        BY <1>a, <2>1, <2>3, BecomeIdleTypes DEF Core, Phase
      <3> QED BY <2>2, <3>1, SetExplained, TypeParts DEF IInv, Core
    <2>4. CASE turn' = Goto(t, "waiting") /\ defer' = (defer \/ turn[t].kind = "edit") /\ UNCHANGED <<phase, queue>>
      <3>1. Core'
        BY <1>a, <2>1, <2>4 DEF Core
      <3>2. \A u \in Turns: Explains(phase, turn[u]) => Explains(phase, turn'[u])
        BY <1>2, <1>b, <2>4, Labels DEF Stopped, At, Explains, Beginning, After
      <3>3. PhaseExplained'
        BY <1>2, <2>4, <3>2, StaysExplained DEF Stopped
      <3> QED BY <2>2, <3>1, <3>3, TypeParts DEF IInv
    <2> QED BY <1>2, <2>3, <2>4 DEF Stopped
  <1>3. ASSUME NEW t \in Turns, Truncate(t) PROVE IInv'
    <2>1. Core'
      BY <1>3, Labels, <1>a, <1>b DEF Truncate, Core
    <2>2. Rest'
      BY <1>3, Labels, <1>a DEF Truncate, Rest, historyVars, bounds, Tail
    <2>3. PhaseExplained'
      BY <1>3, <2>1, Labels, <1>a, <1>b, StaysExplained DEF Truncate, At, Explains, Beginning, After
    <2> QED BY <2>1, <2>2, <2>3, TypeParts DEF IInv
  <1>4. ASSUME NEW t \in Turns, Accept(t) PROVE IInv'
    <2>1. Core'
      BY <1>4, Labels, <1>a, <1>b DEF Accept, Core
    <2>2. Rest'
      BY <1>4, Labels, <1>a DEF Accept, Rest, historyVars, bounds, Tail
    <2>3. PhaseExplained'
      BY <1>4, <2>1, Labels, <1>a, <1>b, SetExplained DEF Accept, Core, Explains, Beginning, After
    <2> QED BY <2>1, <2>2, <2>3, TypeParts DEF IInv
  <1>5. ASSUME NEW t \in Turns, Commit(t) PROVE IInv'
    <2>1. Core'
      BY <1>5, Labels, <1>a, <1>b DEF Commit, Core
    <2>2. Rest'
      BY <1>5, Labels, <1>a DEF Commit, Rest, historyVars, bounds, Tail
    <2>3. PhaseExplained'
      BY <1>5, <2>1, Labels, <1>a, <1>b, StaysExplained DEF Commit, At, Explains, Beginning, After
    <2> QED BY <2>1, <2>2, <2>3, TypeParts DEF IInv
  <1>6. ASSUME NEW t \in Turns, CommitNothing(t) PROVE IInv'
    <2>1. turn[t].pc \in {"accept", "commit", "pending"}
      BY <1>6 DEF CommitNothing, At
    <2>2. IdleFrom("preparing", Settled(t, Free, FALSE)) /\ stray' = stray
      BY <1>6 DEF CommitNothing, GiveUp
    <2>3. Core' /\ PhaseExplained'
      BY <2>1, <2>2, EndOfSend
    <2>4. Rest'
      BY <1>6, <1>a DEF CommitNothing, GiveUp, Rest, historyVars, bounds, MayRetry
    <2> QED BY <2>3, <2>4, TypeParts DEF IInv
  <1>7. ASSUME NEW t \in Turns, CommitFails(t) PROVE IInv'
    <2>1. turn[t].pc \in {"accept", "commit", "pending"}
      BY <1>7 DEF CommitFails, At
    <2>2. IdleFrom("preparing", Settled(t, Free, FALSE)) /\ stray' = stray
      BY <1>7 DEF CommitFails, GiveUp
    <2>3. Core' /\ PhaseExplained'
      BY <2>1, <2>2, EndOfSend
    <2>4. Rest'
      BY <1>7, <1>a DEF CommitFails, GiveUp, Rest, historyVars, bounds, MayRetry
    <2> QED BY <2>3, <2>4, TypeParts DEF IInv
  <1>8. ASSUME NEW t \in Turns, StartDropped(t) PROVE IInv'
    <2>1. turn[t].pc \in {"accept", "commit", "pending"}
      BY <1>8 DEF StartDropped, At
    <2>2. IdleFrom("preparing", Settled(t, Free, TRUE)) /\ stray' = stray
      BY <1>8 DEF StartDropped, GiveUp
    <2>3. Core' /\ PhaseExplained'
      BY <2>1, <2>2, EndOfSend
    <2>4. Rest'
      BY <1>8, <1>a DEF StartDropped, GiveUp, Rest, historyVars, bounds, MayRetry
    <2> QED BY <2>3, <2>4, TypeParts DEF IInv
  <1>9. ASSUME NEW t \in Turns, Reject(t) PROVE IInv'
    <2>1. turn[t].pc \in {"accept", "commit", "pending"} /\ stray' = stray
      BY <1>9 DEF Reject, At
    <2>2. Rest'
      BY <1>9, <1>a DEF Reject, Rest, historyVars, bounds, MayRetry
    <2>3. CASE IdleFrom("preparing", Settled(t, Free, FALSE))
      BY <2>1, <2>2, <2>3, EndOfSend, TypeParts DEF IInv
    <2>4. CASE /\ turn[t].kind # "queued" /\ turn' = Settled(t, Free, FALSE)
               /\ UNCHANGED <<phase, queue, defer>>
      <3>1. Core'
        BY <1>a, <1>b, <1>c, <2>4 DEF Core
      <3>2. ASSUME NEW u \in Turns, Explains(phase, turn[u]) PROVE Explains(phase, turn'[u])
        <4>1. u # t
          BY <2>4, <3>2, <1>9 DEF Reject, At, Explains, Beginning, After
        <4>2. \/ turn'[u] = turn[u]
              \/ (turn[u].pc = "await" /\ turn'[u].pc \in {"flush", "finally"})
          BY <1>f, <2>4, <4>1
        <4>3. CASE turn[u].pc = "await" /\ turn'[u].pc \in {"flush", "finally"}
          BY <3>2, <4>3 DEF Explains, Beginning, After
        <4> QED BY <3>2, <4>2, <4>3
      <3>3. PhaseExplained'
        BY <2>1, <2>4, <3>2, StaysExplained
      <3> QED BY <2>2, <3>1, <3>3, TypeParts DEF IInv
    <2> QED BY <1>9, <2>3, <2>4 DEF Reject
  <1>10. ASSUME NEW t \in Turns, StartCancels(t) PROVE IInv'
    <2>1. Core'
      BY <1>10, Labels, <1>a, <1>b DEF StartCancels, Core, In
    <2>2. Rest'
      BY <1>10, Labels, <1>a DEF StartCancels, Rest, historyVars, bounds, Tail
    <2>3. PhaseExplained'
      BY <1>10, <2>1, Labels, <1>a, <1>b, StaysExplained DEF StartCancels, In, At, Explains, Beginning, After
    <2> QED BY <2>1, <2>2, <2>3, TypeParts DEF IInv
  <1>11. ASSUME NEW t \in Turns, Start(t) PROVE IInv'
    <2> DEFINE r == [turn[t] EXCEPT !.pc = "live", !.kind = "none"]
    <2>1. r \in Turn /\ r.pc = "live" /\ (~turn[t].again) \in BOOLEAN
      BY <1>b DEF Turn, PC
    <2>2. turn' = Settled(t, r, ~turn[t].again)
      BY <1>11 DEF Start
    <2> HIDE DEF r
    <2>3. turn' \in Slots /\ turn'[t] = r
      BY <1>c, <2>1, <2>2
    <2>4. Core' /\ phase' = "streaming"
      BY <1>11, <1>a, <2>3 DEF Start, Core, Phase
    <2>5. Rest'
      BY <1>11, <1>a DEF Start, Rest, historyVars, bounds
    <2>6. PhaseExplained'
      BY <2>1, <2>3, <2>4, SetExplained DEF Core, Explains
    <2> QED BY <2>4, <2>5, <2>6, TypeParts DEF IInv
  <1>12. ASSUME NEW t \in Turns, StartFails(t) PROVE IInv'
    <2>1. Core'
      BY <1>12, Labels, <1>a, <1>b DEF StartFails, Core
    <2>2. Rest'
      BY <1>12, Labels, <1>a DEF StartFails, Rest, historyVars, bounds, Tail
    <2>3. PhaseExplained'
      BY <1>12, <2>1, Labels, <1>a, <1>b, SetExplained DEF StartFails, Core, Explains, Beginning, After
    <2> QED BY <2>1, <2>2, <2>3, TypeParts DEF IInv
  <1>13. ASSUME NEW t \in Turns, AbortArrives(t) PROVE IInv'
    <2>1. Rest'
      BY <1>13, <1>a DEF AbortArrives, BeginAbort, Rest, historyVars, bounds
    <2>2. CASE BeginAbort /\ turn' = Goto(t, "settling")
      <3>1. Core' /\ phase' = "completing"
        BY <1>13, <1>a, <1>b, <2>2, Labels DEF AbortArrives, BeginAbort, Core
      <3>2. turn'[t].pc = "settling"
        BY <1>b, <2>2, Labels
      <3>3. PhaseExplained'
        BY <3>1, <3>2, SetExplained DEF Core, Explains, After
      <3> QED BY <2>1, <3>1, <3>3, TypeParts DEF IInv
    <2>3. CASE /\ phase # "streaming" /\ turn' = [turn EXCEPT ![t] = Free]
               /\ UNCHANGED <<phase, active, queue>>
      <3>1. Core'
        BY <1>13, <1>a, <1>b, <2>3 DEF AbortArrives, Core
      <3>2. \A u \in Turns: u # t => turn'[u] = turn[u]
        BY <1>a, <2>3 DEF Core, Slots
      <3>3. \A u \in Turns: Explains(phase, turn[u]) => Explains(phase, turn'[u])
        BY <1>13, <2>3, <3>2 DEF AbortArrives, At, Explains, Beginning, After
      <3>4. PhaseExplained'
        BY <1>13, <2>3, <3>3, StaysExplained DEF AbortArrives
      <3> QED BY <2>1, <3>1, <3>4, TypeParts DEF IInv
    <2> QED BY <1>13, <2>2, <2>3 DEF AbortArrives
  <1>14. ASSUME NEW t \in Turns, AbortSettles(t) PROVE IInv'
    <2>1. Core'
      BY <1>14, Labels, <1>a, <1>b, BecomeIdleTypes DEF AbortSettles, Core
    <2>2. Rest'
      BY <1>14, Labels, <1>a DEF AbortSettles, Rest, historyVars, bounds, Tail
    <2>3. PhaseExplained'
      BY <1>14, <2>1, Labels, <1>a, <1>b, BecomeIdleTypes, SetExplained DEF AbortSettles, Core
    <2> QED BY <2>1, <2>2, <2>3, TypeParts DEF IInv
  <1>15. ASSUME NEW t \in Turns, StreamEnds(t) PROVE IInv'
    <2>1. Core'
      BY <1>15, Labels, <1>a, <1>b DEF StreamEnds, Core
    <2>2. Rest'
      BY <1>15, Labels, <1>a DEF StreamEnds, Rest, historyVars, bounds, Tail
    <2>3. PhaseExplained'
      BY <1>15, <2>1, Labels, <1>a, <1>b, SetExplained DEF StreamEnds, Core, Explains, Beginning, After
    <2> QED BY <2>1, <2>2, <2>3, TypeParts DEF IInv
  <1>16. ASSUME NEW t \in Turns, StreamFails(t) PROVE IInv'
    <2>1. Core'
      BY <1>16, Labels, <1>a, <1>b DEF StreamFails, Core
    <2>2. Rest'
      BY <1>16, Labels, <1>a DEF StreamFails, Rest, historyVars, bounds, Tail
    <2>3. PhaseExplained'
      BY <1>16, <2>1, Labels, <1>a, <1>b, SetExplained DEF StreamFails, Core, Explains, Beginning, After
    <2> QED BY <2>1, <2>2, <2>3, TypeParts DEF IInv
  <1>17. ASSUME NEW t \in Turns, Retry(t) PROVE IInv'
    <2>1. /\ [turn[t] EXCEPT !.pc = "commit", !.again = TRUE] \in Turn
          /\ [turn[t] EXCEPT !.pc = "commit", !.again = TRUE].pc = "commit"
      BY <1>b DEF Turn, PC, Beginning
    <2>2. turn' = [turn EXCEPT ![t] = [turn[t] EXCEPT !.pc = "commit", !.again = TRUE]]
      BY <1>17, <1>a DEF Retry, Core, Slots, Turn
    <2>3. turn' \in Slots /\ turn'[t].pc = "commit"
      BY <1>a, <1>b, <2>1, <2>2 DEF Core, Slots
    <2>4. Core' /\ phase' = "preparing"
      BY <1>17, <1>a, <2>3, Labels DEF Retry, Core
    <2>5. Rest'
      BY <1>17, <1>a DEF Retry, Rest, historyVars, bounds
    <2>6. PhaseExplained'
      BY <2>3, <2>4, SetExplained DEF Core, Explains, Beginning
    <2> QED BY <2>4, <2>5, <2>6, TypeParts DEF IInv
  <1>18. ASSUME NEW t \in Turns, ErrorStands(t) PROVE IInv'
    <2>1. Core'
      BY <1>18, Labels, <1>a, <1>b DEF ErrorStands, Core
    <2>2. Rest'
      BY <1>18, Labels, <1>a DEF ErrorStands, Rest, historyVars, bounds, Tail
    <2>3. PhaseExplained'
      BY <1>18, <2>1, Labels, <1>a, <1>b, StaysExplained DEF ErrorStands, At, Explains, Beginning, After
    <2> QED BY <2>1, <2>2, <2>3, TypeParts DEF IInv
  <1>19. ASSUME NEW t \in Turns, FailureSettles(t) PROVE IInv'
    <2>1. Settled(t, Free, FALSE) \in Slots
      BY <1>b, <1>c
    <2>2. Core' /\ phase' = "idle"
      BY <1>19, <1>a, <2>1, BecomeIdleTypes, Labels DEF FailureSettles, Core
    <2>3. Rest'
      BY <1>19, <1>a DEF FailureSettles, Rest, historyVars, bounds, MayRetry
    <2> QED BY <2>2, <2>3, SetExplained, TypeParts DEF IInv, Core
  <1>20. ASSUME NEW t \in Turns, Finally(t) PROVE IInv'
    <2>1. Rest'
      BY <1>20, <1>a DEF Finally, Rest, historyVars, bounds
    <2>2. turn[t].pc \in {"flush", "finally"} /\ stray' = stray
      BY <1>20 DEF Finally, At
    <2> QED BY <1>20, <2>1, <2>2, EndOfHandler, TypeParts DEF IInv, Finally
  <1>21. ASSUME NEW t \in Turns, Flush(t) PROVE IInv'
    <2>1. turn[t].pc \in {"flush", "finally"} /\ stray' = stray
      BY <1>21 DEF Flush, At
    <2>2. CASE SendQueued([turn EXCEPT ![t] = Free])
      <3>1. /\ phase' = "preparing" /\ Core' /\ switches' = 0
            /\ \E u \in Turns: turn'[u].pc = "accept" /\ turn'[u].kind = "queued"
        BY <1>a, <1>b, <2>2, SendQueuedTypes, Labels DEF Core
      <3>2. PhaseExplained'
        BY <3>1, SetExplained DEF Core, Explains
      <3>3. Rest'
        BY <1>21, <1>a, <1>e, <3>1 DEF Flush, Rest, historyVars, bounds
      <3> QED BY <3>1, <3>2, <3>3, TypeParts DEF IInv
    <2>3. CASE IdleFrom("completing", [turn EXCEPT ![t] = Free]) /\ UNCHANGED switches
      <3>1. Rest'
        BY <1>21, <1>a, <2>3 DEF Flush, Rest, historyVars, bounds
      <3> QED BY <2>1, <2>3, <3>1, EndOfHandler, TypeParts DEF IInv
    <2> QED BY <1>21, <2>2, <2>3 DEF Flush
  <1>22. CASE StraySettles
    <2>1. Core'
      BY <1>22, Labels, <1>a, <1>b, BecomeIdleTypes DEF StraySettles, Core
    <2>2. Rest'
      BY <1>22, Labels, <1>a DEF StraySettles, Rest, historyVars, bounds, Tail
    <2>3. PhaseExplained'
      BY <1>22, <2>1, Labels, <1>a, <1>b, BecomeIdleTypes, SetExplained DEF StraySettles, Core
    <2> QED BY <2>1, <2>2, <2>3, TypeParts DEF IInv
  <1>23. CASE Interrupt
    <2>1. turn' \in Slots /\ PhaseExplained'
      BY <1>23, <1>a, StopExplained DEF Interrupt, Core
    <2>2. Core'
      BY <1>23, <1>a, <2>1 DEF Interrupt, Core
    <2>3. Rest'
      BY <1>23, <1>a, <1>d, StopStreamTypes DEF Interrupt, Rest, Core, historyVars, bounds
    <2> QED BY <2>1, <2>2, <2>3, TypeParts DEF IInv
  <1>24. CASE Interrupted
    <2>1. CASE SendQueued(turn)
      <3>1. /\ phase' = "preparing" /\ Core' /\ switches' = 0
            /\ \E u \in Turns: turn'[u].pc = "accept" /\ turn'[u].kind = "queued"
        BY <1>a, <2>1, SendQueuedTypes, Labels DEF Core
      <3>2. PhaseExplained'
        BY <3>1, SetExplained DEF Core, Explains
      <3>3. Rest'
        BY <1>24, <1>a, <1>e, <3>1 DEF Interrupted, Rest, historyVars, bounds
      <3> QED BY <3>1, <3>2, <3>3, TypeParts DEF IInv
    <2>2. CASE queue' = {} /\ UNCHANGED <<phase, defer, turn, switches>>
      <3>1. Core'
        BY <1>a, <2>2 DEF Core
      <3>2. Rest'
        BY <1>24, <1>a, <2>2 DEF Interrupted, Rest, historyVars, bounds
      <3>3. PhaseExplained'
        BY <1>24, <2>2, StaysExplained DEF Interrupted
      <3> QED BY <3>1, <3>2, <3>3, TypeParts DEF IInv
    <2> QED BY <1>24, <2>1, <2>2 DEF Interrupted
  <1>25. CASE StartupCheck
    <2>1. Core'
      BY <1>25, Labels, <1>a, <1>b DEF StartupCheck, Core
    <2>2. Rest'
      BY <1>25, Labels, <1>a DEF StartupCheck, Rest, historyVars, bounds, Tail, MayRetry
    <2>3. PhaseExplained'
      BY <1>25, <2>1, Labels, <1>a, <1>b, StaysExplained DEF StartupCheck, At, Explains, Beginning, After
    <2> QED BY <2>1, <2>2, <2>3, TypeParts DEF IInv
  <1>26. CASE Crash
    <2>1. Core' /\ phase' = "idle"
      BY <1>26, <1>b, Labels DEF Crash, Core, Slots
    <2>2. Rest'
      BY <1>26, <1>a, <1>d, <1>e DEF Crash, Rest, historyVars
    <2> QED BY <2>1, <2>2, SetExplained, TypeParts DEF IInv, Core
  <1>27. ASSUME NEW m \in Messages, Send(m) PROVE IInv'
    <2>1. turn' = Begin(turn, "accept", "user", {m}) /\ Room(turn) /\ {m} \in SUBSET Messages
      BY <1>27, <1>a DEF Send, Rest, Core
    <2>2. "accept" \in PC /\ "user" \in Kind
      BY Labels
    <2>3. turn' \in Slots /\ \A u \in Turns: Explains(phase, turn[u]) => Explains(phase, turn'[u])
      BY <1>g, <1>h, <2>1, <2>2
    <2>4. Core'
      BY <1>27, <1>a, <2>3 DEF Send, Core
    <2>5. Rest'
      BY <1>27, <1>a, <1>d, <1>e DEF Send, Rest, historyVars, bounds
    <2>6. PhaseExplained'
      BY <1>27, <2>3, StaysExplained DEF Send
    <2> QED BY <2>4, <2>5, <2>6, TypeParts DEF IInv
  <1>28. ASSUME NEW m \in Messages, Enqueue(m) PROVE IInv'
    <2>1. Core' /\ Rest'
      BY <1>28, <1>a DEF Enqueue, Core, Rest, historyVars, bounds
    <2>2. PhaseExplained'
      BY <1>28, StaysExplained DEF Enqueue
    <2> QED BY <2>1, <2>2, TypeParts DEF IInv
  <1>29. ASSUME NEW m \in Messages, Edit(m) PROVE IInv'
    <2>1. PICK label \in {"truncate", "waiting", "deleting"}: turn' = Begin(turn, label, "edit", {m})
      BY <1>29 DEF Edit
    <2>2. label \in PC /\ "edit" \in Kind /\ {m} \in SUBSET Messages /\ Room(turn)
      BY <1>29, Labels DEF Edit
    <2>3. turn' \in Slots /\ \A u \in Turns: Explains(phase, turn[u]) => Explains(phase, turn'[u])
      BY <1>g, <1>h, <2>1, <2>2
    <2>4. Core'
      BY <1>29, <1>a, <2>3 DEF Edit, Core
    <2>5. Rest'
      BY <1>29, <1>a, <1>d, <1>e DEF Edit, Rest, historyVars, bounds
    <2>6. PhaseExplained'
      BY <1>29, <2>3, StaysExplained DEF Edit
    <2> QED BY <2>4, <2>5, <2>6, TypeParts DEF IInv
  <1>30. CASE Resume
    <2>1. turn' = Begin(turn, "commit", "resume", {}) /\ Room(turn)
      BY <1>30 DEF Resume
    <2>2. turn' \in Slots /\ turn'[Slot(turn)].pc = "commit" /\ Slot(turn) \in Turns
      BY <1>g, <2>1, Labels
    <2>3. Core' /\ phase' = "preparing"
      BY <1>30, <1>a, <2>2, Labels DEF Resume, Core
    <2>4. Rest'
      BY <1>30, <1>a, <1>d DEF Resume, Rest, historyVars, bounds
    <2>5. PhaseExplained'
      BY <2>2, <2>3, SetExplained DEF Core, Explains, Beginning
    <2> QED BY <2>3, <2>4, <2>5, TypeParts DEF IInv
  <1>31. ASSUME NEW t \in Turns, Append(t) PROVE IInv'
    <2>1. /\ [turn[t] EXCEPT !.pc = "commit", !.sends = {}] \in Turn
          /\ [turn[t] EXCEPT !.pc = "commit", !.sends = {}].pc = "commit"
          /\ [turn[t] EXCEPT !.pc = "accepted", !.sends = {}] \in Turn
          /\ [turn[t] EXCEPT !.pc = "accepted", !.sends = {}].pc = "accepted"
          /\ [turn[t] EXCEPT !.pc = "accepted", !.sends = {}].kind = turn[t].kind
      BY <1>b DEF Turn, PC, Beginning, Asking
    <2>2. Rest'
      <3>1. PICK form \in Forms(turn[t].kind):
              /\ tail' = IF form = "message" THEN "chat" ELSE "compact"
              /\ owed' = (form = "deferred")
              /\ promised' = IF form = "deferred" THEN turn[t].sends ELSE {}
              /\ written' = IF form = "deferred" THEN written ELSE written \cup turn[t].sends
        BY <1>31 DEF Append
      <3>3. owed' \in BOOLEAN /\ tail' \in Tail /\ promised' \subseteq Messages /\ written' \subseteq Messages
        BY <1>a, <1>b, <3>1 DEF Rest, Tail
      <3> QED BY <1>31, <1>a, <3>3 DEF Append, Rest, bounds
    <2>3. CASE phase' = "preparing" /\ turn' = [turn EXCEPT ![t].pc = "commit", ![t].sends = {}]
      <3>1. turn' = [turn EXCEPT ![t] = [turn[t] EXCEPT !.pc = "commit", !.sends = {}]]
        BY <2>3, <1>a DEF Core, Slots, Turn
      <3>2. turn' \in Slots /\ turn'[t].pc = "commit"
        BY <1>a, <1>b, <2>1, <3>1 DEF Core, Slots
      <3>3. Core'
        BY <1>31, <1>a, <2>3, <3>2, Labels DEF Append, Core
      <3>4. PhaseExplained'
        BY <2>3, <3>2, <3>3, SetExplained DEF Core, Explains, Beginning
      <3> QED BY <2>2, <3>3, <3>4, TypeParts DEF IInv
    <2>4. CASE turn' = [turn EXCEPT ![t].pc = "accepted", ![t].sends = {}] /\ UNCHANGED phase
      <3>1. turn' = [turn EXCEPT ![t] = [turn[t] EXCEPT !.pc = "accepted", !.sends = {}]]
        BY <2>4, <1>a DEF Core, Slots, Turn
      <3>2. /\ turn' \in Slots /\ turn'[t].pc = "accepted" /\ turn'[t].kind = turn[t].kind
            /\ \A u \in Turns: u # t => turn'[u] = turn[u]
        BY <1>a, <1>b, <2>1, <3>1 DEF Core, Slots
      <3>3. Core'
        BY <1>31, <1>a, <2>4, <3>2 DEF Append, Core
      <3>4. \A u \in Turns: Explains(phase, turn[u]) => Explains(phase, turn'[u])
        BY <1>31, <3>2 DEF Append, At, Explains, Beginning, After
      <3>5. PhaseExplained'
        BY <1>31, <2>4, <3>4, StaysExplained DEF Append
      <3> QED BY <2>2, <3>3, <3>5, TypeParts DEF IInv
    <2> QED BY <1>31, <2>3, <2>4 DEF Append
  <1>32. CASE StrayArrives
    <2>1. Core'
      BY <1>32, <1>a, Labels DEF StrayArrives, BeginAbort, Core
    <2>2. Rest'
      BY <1>32, <1>a DEF StrayArrives, BeginAbort, Rest, historyVars, bounds
    <2>3. ExplainedBy(phase, stray, turn)
      BY ExplainedRestated DEF IInv, TypeOK
    <2>4. ExplainedBy(phase', stray', turn')
      BY <1>32, <2>3 DEF StrayArrives, BeginAbort, ExplainedBy
    <2>5. PhaseExplained'
      BY <2>1, <2>4, ExplainedRestatedNext DEF Core
    <2> QED BY <2>1, <2>2, <2>5, TypeParts DEF IInv
  <1>33. ASSUME NEW t \in Turns, MidStream(t) PROVE IInv'
    <2>1. LET p == Begin(turn, "stopping", "midstream", {})
          IN  /\ p \in Slots
              /\ \A u \in Turns: Explains(phase, turn[u]) => Explains(phase, p[u])
      BY <1>33, <1>g, <1>h, Labels DEF MidStream
    <2>2. StopStream(Begin(turn, "stopping", "midstream", {})) /\ phase' = phase
      BY <1>33 DEF MidStream
    <2>3. turn' \in Slots /\ PhaseExplained'
      BY <2>1, <2>2, StopExplained
    <2>4. Core'
      BY <1>33, <1>a, <2>3 DEF MidStream, Core
    <2>5. Rest'
      BY <1>33, <1>a, <2>1, <2>2, StopStreamTypes DEF MidStream, Rest, historyVars, bounds
    <2> QED BY <2>3, <2>4, <2>5, TypeParts DEF IInv
  <1>34. ASSUME NEW t \in Turns, Complete(t) PROVE IInv'
    <2>a. switches' \in 0..MaxSwitches
      BY <1>34, <1>a, SessionAssumption DEF Complete, Rest
    <2>1. Rest'
      BY <1>34, <1>a, <2>a DEF Complete, Rest, historyVars, bounds, Tail
    <2>2. phase' = phase /\ stray' = stray /\ defer' = defer /\ queue' = queue /\ turn[t].pc = "ending"
      BY <1>34 DEF Complete, At
    <2>3. CASE turn' = Goto(t, "handled") \/ turn' = Goto(t, "flush")
      <3>1. turn' \in Slots /\ turn'[t].pc \in {"handled", "flush"} /\ \A u \in Turns: u # t => turn'[u] = turn[u]
        BY <1>b, <2>3, Labels
      <3>2. \A u \in Turns: Explains(phase, turn[u]) => Explains(phase, turn'[u])
        BY <2>2, <3>1 DEF Explains, Beginning, After
      <3> QED BY <1>a, <2>1, <2>2, <3>1, <3>2, StaysExplained, TypeParts DEF IInv, Core
    <2>4. CASE SendSynthetic(t, "switch", {})
      BY <1>a, <2>1, <2>2, <2>4, SyntheticKeeps, Labels, TypeParts DEF IInv, Core
    <2> QED BY <1>34, <2>3, <2>4 DEF Complete
  <1>35. ASSUME NEW t \in Turns, Dispatch(t) PROVE IInv'
    <2>1. Rest'
      BY <1>35, <1>a DEF Dispatch, Rest, historyVars, bounds
    <2>2. phase' = phase /\ stray' = stray /\ defer' = defer /\ queue' = queue /\ turn[t].pc = "handled"
      BY <1>35 DEF Dispatch, At
    <2>3. CASE turn' = Goto(t, "flush")
      <3>1. turn' \in Slots /\ turn'[t].pc = "flush" /\ \A u \in Turns: u # t => turn'[u] = turn[u]
        BY <1>b, <2>3, Labels
      <3>2. \A u \in Turns: Explains(phase, turn[u]) => Explains(phase, turn'[u])
        BY <2>2, <3>1 DEF Explains, Beginning, After
      <3> QED BY <1>a, <2>1, <2>2, <3>1, <3>2, StaysExplained, TypeParts DEF IInv, Core
    <2>4. CASE SendSynthetic(t, "followup", promised)
      BY <1>a, <2>1, <2>2, <2>4, SyntheticKeeps, Labels, TypeParts DEF IInv, Core, Rest
    <2> QED BY <1>35, <2>3, <2>4 DEF Dispatch
  <1>36. CASE Open
    <2>1. Rest'
      BY <1>36, <1>a DEF Open, Rest, historyVars, bounds
    <2>2. phase' = phase /\ stray' = stray /\ defer' = defer /\ queue' = queue
      BY <1>36 DEF Open
    <2>3. CASE UNCHANGED turn
      BY <1>a, <2>1, <2>2, <2>3, StaysExplained, TypeParts DEF IInv, Core
    <2>4. CASE Room(turn) /\ turn' = Begin(turn, "accept", "recovered", promised)
      <3>1. "accept" \in PC /\ "recovered" \in Kind /\ promised \in SUBSET Messages
        BY <1>a, Labels DEF Rest
      <3>2. turn' \in Slots /\ \A u \in Turns: Explains(phase, turn[u]) => Explains(phase, turn'[u])
        BY <1>g, <1>h, <2>4, <3>1
      <3> QED BY <1>a, <2>1, <2>2, <3>2, StaysExplained, TypeParts DEF IInv, Core
    <2> QED BY <1>36, <2>3, <2>4 DEF Open
  <1>37. CASE UNCHANGED vars
    <2>1. Core' /\ Rest'
      BY <1>37, <1>a DEF vars, Core, Rest, historyVars, bounds
    <2>2. PhaseExplained'
      BY <1>37, StaysExplained DEF vars
    <2> QED BY <2>1, <2>2, TypeParts DEF IInv
  <1> QED BY <1>1, <1>2, <1>3, <1>4, <1>5, <1>6, <1>7, <1>8, <1>9, <1>10, <1>11, <1>12,
             <1>13, <1>14, <1>15, <1>16, <1>17, <1>18, <1>19, <1>20, <1>21, <1>22, <1>23,
             <1>24, <1>25, <1>26, <1>27, <1>28, <1>29, <1>30, <1>31, <1>32, <1>33, <1>34,
             <1>35, <1>36, <1>37
             DEF Next, Step, Continue

\* The invariant holds initially.
LEMMA InitIInv == Init => IInv
  <1> SUFFICES ASSUME Init PROVE IInv
    OBVIOUS
  <1>1. Free \in Turn
    BY DEF Free, NewTurn, Turn, PC
  <1>2. Core
    BY <1>1, Labels DEF Init, Core, Slots
  <1>3. Rest
    <2>1. PICK s \in Scenarios: events = s.events /\ left = s.disturbances
      BY DEF Init
    <2>2. events \subseteq Event /\ left \in Nat
      BY <2>1, SessionAssumption
    <2>3. switches \in 0..MaxSwitches
      BY SessionAssumption DEF Init
    <2> QED BY <2>2, <2>3 DEF Init, Rest, Tail
  <1>4. PhaseExplained
    BY DEF Init, PhaseExplained
  <1> QED BY <1>2, <1>3, <1>4, TypeParts DEF IInv

\* The types hold in every reachable state, for any constants.
THEOREM TypesHold == Spec => []TypeOK
  <1>1. IInv => TypeOK
    BY DEF IInv
  <1> QED BY InitIInv, StepIInv, <1>1, PTL DEF Spec

\* In every reachable state a phase other than IDLE has a turn, a stop or a handler
\* that will change it, whatever is edited, interrupted, resumed, compacted, handed
\* over, or fails or crashes on the way.
THEOREM PhaseNeverStuck == Spec => []PhaseExplained
  <1>1. IInv => PhaseExplained
    BY DEF IInv
  <1> QED BY InitIInv, StepIInv, <1>1, PTL DEF Spec

----------------------------------------------------------------------------
(***************************************************************************)
(* Where the messages are.  MessageOnce is not inductive: that a message   *)
(* in a send is not yet written rests on the stages in which a turn has    *)
(* one, and that a follow-up is nobody's own send on where it came from.   *)
(***************************************************************************)
\* Before its message is written.
Sending == Asking \ {"accepted"}

\* The turns of p send no more than those in progress.
Loses(p) ==
    \A u \in Turns:
        \/ p[u].sends = {}
        \/ p[u].sends = turn[u].sends /\ p[u].kind = turn[u].kind /\ p[u].pc \in Sending

\* A turn that sends something has not written it, and is not a context-limit retry.
SendersAsk ==
    \A t \in Turns: turn[t].sends # {} => turn[t].pc \in Sending /\ turn[t].kind # "midstream"

\* Where message m is: with the user, in the queue or in an own send and nowhere else, or
\* where a follow-up is found.
Accounted(m) ==
    /\ m \in unsent => m \notin queue /\ m \notin written /\ m \notin promised
    /\ m \in queue => m \notin written /\ m \notin promised
    /\ m \in promised => May("compact")
    /\ \A t \in Turns: m \in turn[t].sends =>
         /\ m \notin unsent /\ m \notin queue
         /\ SendsFollowUp(t) => May("compact")
         /\ ~SendsFollowUp(t) =>
              m \notin written /\ m \notin promised /\ \A u \in Turns: m \in turn[u].sends => u = t

MInv == SendersAsk /\ \A m \in Messages: Accounted(m)

\* The turns in progress send what they send.
LEMMA LosesNothing == SendersAsk => Loses(turn)
  BY DEF SendersAsk, Loses

\* A turn that is over, or goes on, sends no more than before.
LEMMA LosesOne ==
    ASSUME SendersAsk, turn \in Slots, NEW t \in Turns
    PROVE  /\ Loses([turn EXCEPT ![t] = Free])
           /\ \A label \in Sending: Loses(Goto(t, label))
           /\ turn[t].pc \notin Sending => \A label \in PC: Loses(Goto(t, label))
  <1>1. Loses([turn EXCEPT ![t] = Free])
    BY DEF SendersAsk, Loses, Slots, Free, NewTurn
  <1>2. ASSUME NEW label \in PC
        PROVE  /\ Goto(t, label)[t].pc = label /\ Goto(t, label)[t].kind = turn[t].kind
               /\ Goto(t, label)[t].sends = turn[t].sends
               /\ \A u \in Turns: u # t => Goto(t, label)[u] = turn[u]
    BY DEF Goto, Slots, Turn
  <1>3. \A label \in PC: label \in Sending \/ turn[t].sends = {} => Loses(Goto(t, label))
    BY <1>2 DEF SendersAsk, Loses
  <1>4. Sending \subseteq PC
    BY DEF PC, Sending, Asking
  <1> QED BY <1>1, <1>3, <1>4 DEF SendersAsk

\* So does one whose send has settled.
LEMMA SettledLoses ==
    ASSUME SendersAsk, turn \in Slots, NEW t \in Turns, NEW r \in Turn, r.sends = {},
           NEW ok \in BOOLEAN
    PROVE  Loses(Settled(t, r, ok))
  <1>1. ASSUME NEW u \in Turns, u # t, Settled(t, r, ok)[u] # turn[u] PROVE Settled(t, r, ok)[u].sends = {}
    <2>1. turn[u].pc = "await" /\ turn[u].sends = {}
      BY <1>1, SettledKeeps DEF SendersAsk, Sending, Asking
    <2>2. Settled(t, r, ok)[u] \in {turn[u], [turn[u] EXCEPT !.pc = "flush"], [turn[u] EXCEPT !.pc = "finally"]}
      BY <1>1 DEF Settled
    <2>3. \A label: [turn[u] EXCEPT !.pc = label].sends = turn[u].sends
      BY DEF Slots, Turn
    <2> QED BY <2>1, <2>2, <2>3
  <1>2. Settled(t, r, ok)[t] = r
    BY SettledKeeps
  <1> QED BY <1>1, <1>2 DEF Loses, SendersAsk

\* Waking the waiters takes nothing from a turn and gives it nothing.
LEMMA BecomeIdleLoses ==
    ASSUME NEW p \in Slots, Loses(p), BecomeIdle(p)
    PROVE  Loses(turn') /\ queue' \subseteq queue
  <1>1. ASSUME NEW u \in Turns, NEW label \in {"truncate", "accept"}
        PROVE  /\ [p[u] EXCEPT !.pc = label].sends = p[u].sends
               /\ [p[u] EXCEPT !.pc = label].kind = p[u].kind
               /\ [p[u] EXCEPT !.pc = label].pc \in Sending
    BY DEF Slots, Turn, Sending, Asking
  <1>2. \A u \in Turns: turn'[u] \in {p[u], [p[u] EXCEPT !.pc = "truncate"], [p[u] EXCEPT !.pc = "accept"]}
    BY DEF BecomeIdle
  <1>3. \A u \in Turns: \/ turn'[u] = p[u]
                        \/ turn'[u].sends = p[u].sends /\ turn'[u].kind = p[u].kind /\ turn'[u].pc \in Sending
    BY <1>1, <1>2
  <1>4. queue' \subseteq queue
    BY DEF BecomeIdle
  <1> QED BY <1>3, <1>4 DEF Loses

\* Nor does the end of a phase.
LEMMA IdleFromLoses ==
    ASSUME NEW p \in Slots, NEW q, Loses(p), IdleFrom(q, p)
    PROVE  Loses(turn') /\ queue' \subseteq queue
  BY BecomeIdleLoses DEF IdleFrom

\* Nor does a stop.
LEMMA StopStreamLoses ==
    ASSUME NEW p \in Slots, Loses(p), StopStream(p)
    PROVE  Loses(turn')
  <1>1. ASSUME NEW u \in Turns
        PROVE  /\ [p[u] EXCEPT !.pc = "aborting"].sends = p[u].sends
               /\ [p[u] EXCEPT !.dropped = TRUE].sends = p[u].sends
               /\ [p[u] EXCEPT !.dropped = TRUE].kind = p[u].kind
               /\ [p[u] EXCEPT !.dropped = TRUE].pc = p[u].pc
    BY DEF Slots, Turn
  <1>2. ASSUME NEW u \in Turns, p[u].pc = "live" PROVE turn'[u].sends = {}
    <2>1. turn'[u] = [p[u] EXCEPT !.pc = "aborting"]
      BY <1>2 DEF StopStream
    <2>2. p[u].sends = {}
      BY <1>2 DEF Loses, Sending, Asking
    <2> QED BY <1>1, <2>1, <2>2
  <1>3. ASSUME NEW u \in Turns, p[u].pc # "live"
        PROVE  turn'[u].sends = p[u].sends /\ turn'[u].kind = p[u].kind /\ turn'[u].pc = p[u].pc
    <2>1. turn'[u] \in {p[u], [p[u] EXCEPT !.dropped = TRUE]}
      BY <1>3 DEF StopStream
    <2> QED BY <1>1, <2>1
  <1> QED BY <1>2, <1>3 DEF Loses

\* A step in which nothing is sent, queued or written.
Quiet ==
    /\ Loses(turn') /\ unsent' \subseteq unsent /\ queue' \subseteq queue
    /\ written' = written /\ promised' \subseteq promised /\ events' = events

\* Such a step loses no track of a message.
LEMMA QuietKeeps == ASSUME MInv, Quiet PROVE MInv'
  <1>1. SendersAsk'
    BY DEF MInv, SendersAsk, Quiet, Loses
  <1>2. ASSUME NEW m \in Messages PROVE Accounted(m)'
    <2>1. \A t \in Turns: m \in turn'[t].sends => m \in turn[t].sends /\ turn'[t].kind = turn[t].kind
      BY DEF Quiet, Loses
    <2>2. /\ (m \in unsent' => m \in unsent) /\ (m \in queue' => m \in queue)
          /\ (m \in written' <=> m \in written) /\ (m \in promised' => m \in promised)
          /\ May("compact")' = May("compact")
      BY DEF Quiet, May
    <2> QED BY <2>1, <2>2 DEF MInv, Accounted, SendsFollowUp
  <1> QED BY <1>1, <1>2 DEF MInv

\* Nor does one in which a turn s begins to send the messages in c, which leave the user,
\* the queue or, as a follow-up, are in the summary.
LEMMA TakesKeeps ==
    ASSUME MInv, NEW s \in Turns, NEW c \in SUBSET Messages,
           turn'[s].sends = c, turn'[s].pc \in Sending, turn'[s].kind # "midstream",
           \A u \in Turns \ {s}: turn'[u].sends = {}
             \/ (turn'[u].sends = turn[u].sends /\ turn'[u].kind = turn[u].kind /\ turn'[u].pc \in Sending),
           unsent' \subseteq unsent, queue' \subseteq queue, written' = written, promised' = promised,
           events' = events,
           \/ /\ SendsFollowUp(s)' /\ c \subseteq promised
           \/ /\ ~SendsFollowUp(s)'
              /\ \A m \in c: m \notin unsent' /\ m \notin queue' /\ (m \in unsent \/ m \in queue)
    PROVE  MInv'
  <1>1. SendersAsk'
    BY DEF MInv, SendersAsk
  <1>2. ASSUME NEW m \in Messages PROVE Accounted(m)'
    <2>1. \A t \in Turns \ {s}: m \in turn'[t].sends => m \in turn[t].sends /\ turn'[t].kind = turn[t].kind
      OBVIOUS
    <2>2. /\ (m \in unsent' => m \in unsent) /\ (m \in queue' => m \in queue)
          /\ (m \in written' <=> m \in written) /\ (m \in promised' <=> m \in promised)
          /\ May("compact")' = May("compact")
      BY DEF May
    <2>3. Accounted(m)
      BY DEF MInv
    <2>4. CASE m \notin c
      BY <2>1, <2>2, <2>3, <2>4 DEF Accounted, SendsFollowUp
    <2>5. CASE m \in c /\ SendsFollowUp(s)'
      <3>1. m \in promised /\ m \notin unsent /\ m \notin queue /\ May("compact")
        BY <2>3, <2>5 DEF Accounted
      <3>2. \A t \in Turns: m \in turn[t].sends => SendsFollowUp(t)
        BY <2>3, <3>1 DEF Accounted
      <3>3. \A t \in Turns: m \in turn'[t].sends => SendsFollowUp(t)'
        BY <2>1, <2>5, <3>2 DEF SendsFollowUp
      <3> QED BY <2>2, <3>1, <3>3 DEF Accounted
    <2>6. CASE m \in c /\ ~SendsFollowUp(s)'
      <3>1. /\ m \notin unsent' /\ m \notin queue' /\ m \notin written /\ m \notin promised
            /\ \A t \in Turns: m \notin turn[t].sends
        BY <2>3, <2>6 DEF Accounted
      <3>2. \A t \in Turns: m \in turn'[t].sends => t = s
        BY <2>1, <3>1
      <3> QED BY <2>2, <2>6, <3>1, <3>2 DEF Accounted
    <2> QED BY <2>4, <2>5, <2>6
  <1> QED BY <1>1, <1>2 DEF MInv

\* A turn that begins, on top of turns that send no more than before.
LEMMA BeginTakes ==
    ASSUME MInv, NEW p \in Slots, Loses(p), Room(p), NEW label \in Sending,
           NEW k \in Kind, k # "midstream", NEW c \in SUBSET Messages,
           turn' = Begin(p, label, k, c),
           unsent' \subseteq unsent, queue' \subseteq queue, written' = written, promised' = promised,
           events' = events,
           \/ k \in {"followup", "recovered"} /\ c \subseteq promised
           \/ /\ k \notin {"followup", "recovered"}
              /\ \A m \in c: m \notin unsent' /\ m \notin queue' /\ (m \in unsent \/ m \in queue)
    PROVE  MInv'
  <1>1. label \in PC
    BY DEF PC, Sending, Asking
  <1>2. /\ Slot(p) \in Turns /\ turn'[Slot(p)] = NewTurn(label, k, c)
        /\ \A t \in Turns: t # Slot(p) => turn'[t] = p[t]
    BY <1>1, BeginTakesFree
  <1>3. PICK s \in Turns: s = Slot(p)
    BY <1>2
  <1>4. turn'[s].sends = c /\ turn'[s].pc \in Sending /\ turn'[s].kind = k
    BY <1>2, <1>3 DEF NewTurn
  <1>5. \A u \in Turns \ {s}: turn'[u].sends = {}
          \/ (turn'[u].sends = turn[u].sends /\ turn'[u].kind = turn[u].kind /\ turn'[u].pc \in Sending)
    BY <1>2, <1>3 DEF Loses
  <1>6. SendsFollowUp(s)' <=> k \in {"followup", "recovered"}
    BY <1>4 DEF SendsFollowUp
  <1>7. turn'[s].kind # "midstream"
    BY <1>4
  <1>8. turn'[s].sends = c
    BY <1>4
  <1>9. turn'[s].pc \in Sending
    BY <1>4
  <1>10. \/ /\ SendsFollowUp(s)' /\ c \subseteq promised
         \/ /\ ~SendsFollowUp(s)'
            /\ \A m \in c: m \notin unsent' /\ m \notin queue' /\ (m \in unsent \/ m \in queue)
    BY <1>6
  <1> QED BY <1>5, <1>7, <1>8, <1>9, <1>10, TakesKeeps

\* The queue is sent.
LEMMA SendQueuedKeepsTrack ==
    ASSUME MInv, Core, NEW p \in Slots, Loses(p), SendQueued(p),
           unsent' = unsent, written' = written, promised' = promised, events' = events
    PROVE  MInv'
  <1>1. Room(p) /\ turn' = Begin(p, "accept", "queued", queue) /\ queue' = {}
    BY DEF SendQueued
  <1>2. "accept" \in Sending /\ "queued" \in Kind /\ queue \in SUBSET Messages
    BY Labels DEF Sending, Asking, Core
  <1>3. \A m \in queue: m \notin unsent' /\ m \notin queue' /\ (m \in unsent \/ m \in queue)
    BY <1>1, <1>2 DEF MInv, Accounted
  <1>4. queue' \subseteq queue /\ unsent' \subseteq unsent
    BY <1>1
  <1> QED BY <1>1, <1>2, <1>3, <1>4, BeginTakes

\* A stream-end handler sends.
LEMMA SyntheticKeepsTrack ==
    ASSUME MInv, Core, NEW t \in Turns, turn[t].pc \in {"ending", "handled"},
           NEW k \in {"followup", "switch"}, NEW c \in SUBSET Messages, SendSynthetic(t, k, c),
           c = {} \/ (k = "followup" /\ c \subseteq promised /\ promised' = promised),
           unsent' = unsent, queue' = queue, written' = written, promised' \subseteq promised,
           events' = events
    PROVE  MInv'
  <1> DEFINE p == Begin(turn, "accept", k, c)
  <1>1. turn \in Slots /\ Room(turn) /\ k \in Kind /\ turn' = [p EXCEPT ![t].pc = "await"]
    BY Labels DEF Core, SendSynthetic
  <1>2. /\ Slot(turn) \in Turns /\ turn[Slot(turn)].pc = "free" /\ p \in Slots
        /\ p[Slot(turn)] = NewTurn("accept", k, c)
        /\ \A u \in Turns: u # Slot(turn) => p[u] = turn[u]
    BY <1>1, BeginTakesFree, Labels
  <1> HIDE DEF p
  <1>3. PICK s \in Turns: s = Slot(turn)
    BY <1>2
  <1>4. s # t /\ turn[t].sends = {}
    BY <1>2, <1>3 DEF MInv, SendersAsk, Sending, Asking
  <1>5. turn'[t].sends = {} /\ \A u \in Turns: u # t => turn'[u] = p[u]
    BY <1>1, <1>2, <1>3, <1>4 DEF Slots, Turn
  <1>6. turn'[s].sends = c /\ turn'[s].pc = "accept" /\ turn'[s].kind = k
    BY <1>2, <1>3, <1>4, <1>5 DEF NewTurn
  <1>7. \A u \in Turns \ {s}: turn'[u].sends = {}
          \/ (turn'[u].sends = turn[u].sends /\ turn'[u].kind = turn[u].kind /\ turn'[u].pc \in Sending)
    BY <1>2, <1>3, <1>5 DEF MInv, SendersAsk
  <1>8. CASE c = {}
    <2>1. Loses(turn')
      BY <1>6, <1>7, <1>8 DEF Loses
    <2> QED BY <2>1, QuietKeeps DEF Quiet
  <1>9. CASE k = "followup" /\ c \subseteq promised /\ promised' = promised
    <2>1. SendsFollowUp(s)' /\ turn'[s].kind # "midstream" /\ turn'[s].pc \in Sending
      BY <1>6, <1>9 DEF SendsFollowUp, Sending, Asking
    <2>2. turn'[s].sends = c
      BY <1>6
    <2> QED BY <1>7, <1>9, <2>1, <2>2, TakesKeeps
  <1> QED BY <1>8, <1>9

\* Every step keeps track of every message.
LEMMA StepMInv == IInv /\ MInv /\ [Next]_vars => MInv'
  <1> SUFFICES ASSUME IInv, MInv, [Next]_vars PROVE MInv'
    OBVIOUS
  <1>a. Core /\ Rest /\ turn \in Slots /\ SendersAsk
    BY TypeParts DEF IInv, Core, MInv
  <1>b. Free \in Turn /\ Free.sends = {}
    BY <1>a, TurnFacts DEF Free, NewTurn
  <1>c. Loses(turn)
    BY <1>a, LosesNothing
  <1>d. \A t \in Turns:
          /\ Loses([turn EXCEPT ![t] = Free])
          /\ \A label \in Sending: Loses(Goto(t, label))
          /\ turn[t].pc \notin Sending => \A label \in PC: Loses(Goto(t, label))
    BY <1>a, LosesOne
  <1>e. \A t \in Turns: [turn EXCEPT ![t] = Free] \in Slots /\ \A label \in PC: Goto(t, label) \in Slots
    BY <1>a, <1>b, TurnFacts
  <1>f. \A t \in Turns: \A ok \in BOOLEAN: Loses(Settled(t, Free, ok)) /\ Settled(t, Free, ok) \in Slots
    BY <1>a, <1>b, SettledLoses, SettledKeeps
  <1>g. {"deleting", "stopping", "waiting", "truncate", "accept"} = Sending /\ Sending \subseteq PC
    BY DEF PC, Asking, Sending
  <1>h. Quiet => MInv'
    BY QuietKeeps
  <1>1. ASSUME NEW t \in Turns, EditStops(t) PROVE MInv'
    <2>1. Goto(t, "stopping") \in Slots /\ Loses(Goto(t, "stopping"))
      BY <1>d, <1>e, <1>g
    <2> QED BY <1>1, <1>h, <2>1, StopStreamLoses DEF EditStops, Quiet, historyVars, bounds
  <1>2. ASSUME NEW t \in Turns, Stopped(t) PROVE MInv'
    <2>1. Goto(t, "waiting") \in Slots /\ Loses(Goto(t, "waiting"))
      BY <1>d, <1>e, <1>g
    <2>2. Loses(turn') /\ queue' \subseteq queue
      BY <1>2, <2>1, BecomeIdleLoses DEF Stopped
    <2> QED BY <1>2, <1>h, <2>2 DEF Stopped, Quiet, historyVars, bounds
  <1>3. ASSUME NEW t \in Turns, Truncate(t) PROVE MInv'
    BY <1>3, <1>d, <1>g, <1>h DEF Truncate, Quiet, bounds
  <1>4. ASSUME NEW t \in Turns, Accept(t) PROVE MInv'
    <2>1. Loses(Goto(t, "commit"))
      BY <1>4, <1>d, <1>g, Labels DEF Accept, At
    <2> QED BY <1>4, <1>h, <2>1 DEF Accept, Quiet, historyVars, bounds
  <1>5. ASSUME NEW t \in Turns, Commit(t) PROVE MInv'
    <2>1. Loses(Goto(t, "pending"))
      BY <1>5, <1>d, <1>g, Labels DEF Commit, At
    <2> QED BY <1>5, <1>h, <2>1 DEF Commit, Quiet, bounds
  <1>6. ASSUME NEW t \in Turns, NEW ok \in BOOLEAN, GiveUp(t, ok) PROVE MInv'
    <2>1. Loses(turn') /\ queue' \subseteq queue
      BY <1>6, <1>f, IdleFromLoses DEF GiveUp
    <2> QED BY <1>6, <1>h, <2>1 DEF GiveUp, Quiet, historyVars, bounds
  <1>7. ASSUME NEW t \in Turns, Reject(t) PROVE MInv'
    <2>1. Loses(turn') /\ queue' \subseteq queue
      BY <1>7, <1>f, IdleFromLoses DEF Reject
    <2> QED BY <1>7, <1>h, <2>1 DEF Reject, Quiet, historyVars, bounds
  <1>8. ASSUME NEW t \in Turns, StartCancels(t) PROVE MInv'
    <2>1. PICK u \in Turns: turn[u].pc = "live" /\ turn' = Goto(u, "aborting")
      BY <1>8 DEF StartCancels, In
    <2>2. Loses(turn')
      BY <1>d, <1>g, <2>1, Labels
    <2> QED BY <1>8, <1>h, <2>2 DEF StartCancels, Quiet, historyVars, bounds
  <1>9. ASSUME NEW t \in Turns, Start(t) PROVE MInv'
    <2> DEFINE r == [turn[t] EXCEPT !.pc = "live", !.kind = "none"]
    <2>1. turn[t].sends = {}
      BY <1>9, <1>a, <1>g DEF SendersAsk, Start, At
    <2>2. r \in Turn /\ r.sends = {} /\ (~turn[t].again) \in BOOLEAN
      BY <1>a, <2>1 DEF Slots, Turn, PC
    <2>3. turn' = Settled(t, r, ~turn[t].again)
      BY <1>9 DEF Start
    <2> HIDE DEF r
    <2>4. Loses(turn')
      BY <1>a, <2>2, <2>3, SettledLoses
    <2> QED BY <1>9, <1>h, <2>4 DEF Start, Quiet, historyVars, bounds
  <1>10. ASSUME NEW t \in Turns, StartFails(t) PROVE MInv'
    <2>1. Loses(turn')
      BY <1>10, <1>d, <1>g, Labels DEF StartFails, At
    <2> QED BY <1>10, <1>h, <2>1 DEF StartFails, Quiet, historyVars, bounds
  <1>11. ASSUME NEW t \in Turns, AbortArrives(t) PROVE MInv'
    <2>1. Loses(turn')
      BY <1>11, <1>d, <1>g, Labels DEF AbortArrives, At
    <2>2. queue' \subseteq queue
      BY <1>11 DEF AbortArrives, BeginAbort
    <2> QED BY <1>11, <1>h, <2>1, <2>2 DEF AbortArrives, Quiet, historyVars, bounds
  <1>12. ASSUME NEW t \in Turns, AbortSettles(t) PROVE MInv'
    <2>1. Loses(turn') /\ queue' \subseteq queue
      BY <1>12, <1>d, <1>e, BecomeIdleLoses DEF AbortSettles
    <2> QED BY <1>12, <1>h, <2>1 DEF AbortSettles, Quiet, historyVars, bounds
  <1>13. ASSUME NEW t \in Turns, StreamEnds(t) \/ StreamFails(t) PROVE MInv'
    <2>1. Loses(turn')
      BY <1>13, <1>d, <1>g, Labels DEF StreamEnds, StreamFails, At
    <2> QED BY <1>13, <1>h, <2>1 DEF StreamEnds, StreamFails, Quiet, historyVars, bounds
  <1>14. ASSUME NEW t \in Turns, Retry(t) PROVE MInv'
    <2>1. turn[t].sends = {}
      BY <1>14, <1>a, <1>g DEF SendersAsk, Retry, At
    <2>2. [turn[t] EXCEPT !.pc = "commit", !.again = TRUE].sends = turn[t].sends
      BY <1>a DEF Slots, Turn
    <2>3. turn' = [turn EXCEPT ![t] = [turn[t] EXCEPT !.pc = "commit", !.again = TRUE]]
      BY <1>14, <1>a DEF Retry, Slots, Turn
    <2>4. turn'[t].sends = {} /\ \A u \in Turns: u # t => turn'[u] = turn[u]
      BY <1>a, <2>1, <2>2, <2>3 DEF Slots
    <2>5. Loses(turn')
      BY <1>c, <2>4 DEF Loses
    <2> QED BY <1>14, <1>h, <2>5 DEF Retry, Quiet, historyVars, bounds
  <1>15. ASSUME NEW t \in Turns, ErrorStands(t) PROVE MInv'
    <2>1. Loses(turn')
      BY <1>15, <1>d, <1>g, Labels DEF ErrorStands, At
    <2>2. queue' \subseteq queue
      BY <1>15 DEF ErrorStands
    <2> QED BY <1>15, <1>h, <2>1, <2>2 DEF ErrorStands, Quiet, historyVars, bounds
  <1>16. ASSUME NEW t \in Turns, FailureSettles(t) PROVE MInv'
    <2>1. Loses(turn') /\ queue' \subseteq queue
      BY <1>16, <1>f, BecomeIdleLoses DEF FailureSettles
    <2> QED BY <1>16, <1>h, <2>1 DEF FailureSettles, Quiet, historyVars, bounds
  <1>17. ASSUME NEW t \in Turns, Finally(t) PROVE MInv'
    <2>1. Loses(turn') /\ queue' \subseteq queue
      BY <1>17, <1>d, <1>e, IdleFromLoses DEF Finally
    <2> QED BY <1>17, <1>h, <2>1 DEF Finally, Quiet, historyVars, bounds
  <1>18. ASSUME NEW t \in Turns, Flush(t) PROVE MInv'
    <2>1. unsent' = unsent /\ written' = written /\ promised' = promised /\ events' = events
      BY <1>18 DEF Flush, historyVars, bounds
    <2>2. CASE SendQueued([turn EXCEPT ![t] = Free])
      BY <1>a, <1>d, <1>e, <2>1, <2>2, SendQueuedKeepsTrack
    <2>3. CASE IdleFrom("completing", [turn EXCEPT ![t] = Free])
      <3>1. Loses(turn') /\ queue' \subseteq queue
        BY <1>d, <1>e, <2>3, IdleFromLoses
      <3> QED BY <1>h, <2>1, <3>1 DEF Quiet
    <2> QED BY <1>18, <2>2, <2>3 DEF Flush
  <1>19. CASE StraySettles
    <2>1. Loses(turn') /\ queue' \subseteq queue
      BY <1>19, <1>a, <1>c, BecomeIdleLoses DEF StraySettles
    <2> QED BY <1>19, <1>h, <2>1 DEF StraySettles, Quiet, historyVars, bounds
  <1>20. CASE StrayArrives
    <2>1. Loses(turn') /\ queue' \subseteq queue
      BY <1>20, <1>c DEF StrayArrives, BeginAbort
    <2> QED BY <1>20, <1>h, <2>1 DEF StrayArrives, Quiet, historyVars, bounds
  <1>21. CASE Interrupt
    <2>1. Loses(turn')
      BY <1>21, <1>a, <1>c, StopStreamLoses DEF Interrupt
    <2> QED BY <1>21, <1>h, <2>1 DEF Interrupt, Count, Quiet, historyVars
  <1>22. CASE Interrupted
    <2>1. unsent' = unsent /\ written' = written /\ promised' = promised /\ events' = events
      BY <1>22 DEF Interrupted, historyVars, bounds
    <2>2. CASE SendQueued(turn)
      BY <1>a, <1>c, <2>1, <2>2, SendQueuedKeepsTrack
    <2>3. CASE queue' = {} /\ UNCHANGED <<phase, defer, turn, switches>>
      <3>1. Loses(turn') /\ queue' \subseteq queue
        BY <1>c, <2>3
      <3> QED BY <1>h, <2>1, <3>1 DEF Quiet
    <2> QED BY <1>22, <2>2, <2>3 DEF Interrupted
  <1>23. CASE StartupCheck
    <2>1. Loses(turn')
      BY <1>23, <1>c DEF StartupCheck
    <2> QED BY <1>23, <1>h, <2>1 DEF StartupCheck, Quiet, historyVars, bounds
  <1>24. CASE Crash
    <2>1. Loses(turn')
      BY <1>24, <1>b DEF Crash, Loses
    <2> QED BY <1>24, <1>h, <2>1 DEF Crash, Count, Quiet, historyVars
  <1>25. ASSUME NEW m \in Messages, Send(m) PROVE MInv'
    <2>1. turn' = Begin(turn, "accept", "user", {m}) /\ Room(turn) /\ {m} \in SUBSET Messages
      BY <1>25 DEF Send
    <2>2. "accept" \in Sending /\ "user" \in Kind
      BY <1>g, Labels
    <2>3. unsent' = unsent \ {m} /\ queue' = queue /\ written' = written /\ promised' = promised
          /\ events' = events /\ m \in unsent
      BY <1>25 DEF Send, historyVars, bounds
    <2>4. unsent' \subseteq unsent /\ queue' \subseteq queue
      BY <2>3
    <2>5. \A n \in {m}: n \notin unsent' /\ n \notin queue' /\ (n \in unsent \/ n \in queue)
      BY <2>3 DEF MInv, Accounted
    <2> QED BY <1>a, <1>c, <2>1, <2>2, <2>3, <2>4, <2>5, BeginTakes
  <1>26. ASSUME NEW m \in Messages, Edit(m) PROVE MInv'
    <2>1. PICK label \in {"truncate", "waiting", "deleting"}: turn' = Begin(turn, label, "edit", {m})
      BY <1>26 DEF Edit
    <2>2. label \in Sending /\ "edit" \in Kind /\ {m} \in SUBSET Messages /\ Room(turn)
      BY <1>26, <1>g, Labels DEF Edit
    <2>3. unsent' = unsent \ {m} /\ queue' \subseteq queue /\ written' = written /\ promised' = promised
          /\ events' = events /\ m \in unsent
      BY <1>26 DEF Edit, Count, historyVars
    <2>4. unsent' \subseteq unsent
      BY <2>3
    <2>5. \A n \in {m}: n \notin unsent' /\ n \notin queue' /\ (n \in unsent \/ n \in queue)
      BY <2>3 DEF MInv, Accounted
    <2> QED BY <1>a, <1>c, <2>1, <2>2, <2>3, <2>4, <2>5, BeginTakes
  <1>27. ASSUME NEW m \in Messages, Enqueue(m) PROVE MInv'
    <2>1. /\ m \in unsent /\ unsent' = unsent \ {m} /\ queue' = queue \cup {m} /\ turn' = turn
          /\ written' = written /\ promised' = promised /\ events' = events
      BY <1>27 DEF Enqueue, historyVars, bounds
    <2>2. SendersAsk'
      BY <1>a, <2>1 DEF SendersAsk
    <2>3. ASSUME NEW n \in Messages PROVE Accounted(n)'
      <3>1. Accounted(n) /\ Accounted(m)
        BY DEF MInv
      <3> QED BY <2>1, <3>1 DEF Accounted, SendsFollowUp, May
    <2> QED BY <2>2, <2>3 DEF MInv
  <1>28. CASE Resume
    <2>1. turn' = Begin(turn, "commit", "resume", {}) /\ Room(turn)
      BY <1>28 DEF Resume
    <2>2. /\ Slot(turn) \in Turns /\ turn'[Slot(turn)] = NewTurn("commit", "resume", {})
          /\ \A u \in Turns: u # Slot(turn) => turn'[u] = turn[u]
      BY <1>a, <2>1, BeginTakesFree, Labels
    <2>3. Loses(turn')
      BY <1>c, <2>2 DEF Loses, NewTurn
    <2>4. events' = events
      BY <1>28 DEF Resume, Count, bounds
    <2> QED BY <1>28, <1>h, <2>3, <2>4 DEF Resume, Quiet, historyVars
  <1>29. ASSUME NEW t \in Turns, MidStream(t) PROVE MInv'
    <2>1. Room(turn) /\ StopStream(Begin(turn, "stopping", "midstream", {}))
      BY <1>29 DEF MidStream
    <2>2. /\ Begin(turn, "stopping", "midstream", {}) \in Slots
          /\ Slot(turn) \in Turns
          /\ Begin(turn, "stopping", "midstream", {})[Slot(turn)] = NewTurn("stopping", "midstream", {})
          /\ \A u \in Turns: u # Slot(turn) => Begin(turn, "stopping", "midstream", {})[u] = turn[u]
      BY <1>a, <2>1, BeginTakesFree, Labels
    <2>3. Loses(Begin(turn, "stopping", "midstream", {}))
      BY <1>c, <2>2 DEF Loses, NewTurn
    <2>4. Loses(turn')
      BY <2>1, <2>2, <2>3, StopStreamLoses
    <2> QED BY <1>29, <1>h, <2>4 DEF MidStream, Quiet, historyVars, bounds
  <1>30. ASSUME NEW t \in Turns, Complete(t) PROVE MInv'
    <2>1. unsent' = unsent /\ queue' = queue /\ written' = written /\ promised' \subseteq promised
          /\ events' = events /\ turn[t].pc = "ending"
      BY <1>30 DEF Complete, At, bounds
    <2>2. CASE turn' = Goto(t, "handled") \/ turn' = Goto(t, "flush")
      <3>1. Loses(turn')
        BY <1>d, <1>g, <2>1, <2>2, Labels
      <3> QED BY <1>h, <2>1, <3>1 DEF Quiet
    <2>3. CASE SendSynthetic(t, "switch", {})
      <3>1. {} \in SUBSET Messages /\ "switch" \in {"followup", "switch"}
        OBVIOUS
      <3> QED BY <1>a, <2>1, <2>3, <3>1, SyntheticKeepsTrack
    <2> QED BY <1>30, <2>2, <2>3 DEF Complete
  <1>31. ASSUME NEW t \in Turns, Dispatch(t) PROVE MInv'
    <2>1. unsent' = unsent /\ queue' = queue /\ written' = written /\ promised' = promised
          /\ events' = events /\ turn[t].pc = "handled"
      BY <1>31 DEF Dispatch, At, historyVars, bounds
    <2>2. CASE turn' = Goto(t, "flush")
      <3>1. Loses(turn')
        BY <1>d, <1>g, <2>1, <2>2, Labels
      <3> QED BY <1>h, <2>1, <3>1 DEF Quiet
    <2>3. CASE SendSynthetic(t, "followup", promised)
      <3>1. promised \in SUBSET Messages /\ "followup" \in {"followup", "switch"}
        BY <1>a DEF Rest
      <3>2. promised \subseteq promised /\ promised' \subseteq promised
        BY <2>1
      <3> QED BY <1>a, <2>1, <2>3, <3>1, <3>2, SyntheticKeepsTrack
    <2> QED BY <1>31, <2>2, <2>3 DEF Dispatch
  <1>32. CASE Open
    <2>1. unsent' = unsent /\ queue' = queue /\ written' = written /\ promised' = promised
          /\ events' = events
      BY <1>32 DEF Open, historyVars, bounds
    <2>2. CASE UNCHANGED turn
      BY <1>c, <1>h, <2>1, <2>2 DEF Quiet
    <2>3. CASE Room(turn) /\ turn' = Begin(turn, "accept", "recovered", promised)
      <3>1. "accept" \in Sending /\ "recovered" \in Kind /\ promised \in SUBSET Messages
        BY <1>a, <1>g, Labels DEF Rest
      <3>2. promised \subseteq promised /\ unsent' \subseteq unsent /\ queue' \subseteq queue
        BY <2>1
      <3> QED BY <1>a, <1>c, <2>1, <2>3, <3>1, <3>2, BeginTakes
    <2> QED BY <1>32, <2>2, <2>3 DEF Open
  <1>33. ASSUME NEW t \in Turns, Append(t) PROVE MInv'
    <2>1. PICK form \in Forms(turn[t].kind):
            /\ promised' = IF form = "deferred" THEN turn[t].sends ELSE {}
            /\ written' = IF form = "deferred" THEN written ELSE written \cup turn[t].sends
      BY <1>33 DEF Append
    <2>2. unsent' = unsent /\ queue' = queue /\ events' = events
      BY <1>33 DEF Append, bounds
    <2>3. turn'[t].sends = {} /\ \A u \in Turns: u # t => turn'[u] = turn[u]
      BY <1>33, <1>a DEF Append, Slots, Turn
    <2>4. SendersAsk'
      BY <1>a, <2>3 DEF SendersAsk
    <2>5. form = "deferred" /\ turn[t].kind # "midstream" => May("compact")
      BY <2>1 DEF Forms
    <2>6. ASSUME NEW m \in Messages PROVE Accounted(m)'
      <3>1. Accounted(m) /\ May("compact")' = May("compact")
        BY <2>2 DEF MInv, May
      <3>2. \A u \in Turns: m \in turn'[u].sends => m \in turn[u].sends /\ turn'[u] = turn[u] /\ u # t
        BY <2>3
      <3>3. CASE m \notin turn[t].sends
        <4>1. (m \in promised' => m \in promised /\ FALSE) /\ (m \in written' <=> m \in written)
          BY <2>1, <3>3
        <4> QED BY <2>2, <3>1, <3>2, <4>1 DEF Accounted, SendsFollowUp
      <3>4. CASE m \in turn[t].sends
        <4>1. m \notin unsent' /\ m \notin queue'
          BY <2>2, <3>1, <3>4 DEF Accounted
        <4>2. m \in promised' => May("compact")
          BY <1>a, <2>1, <2>5, <3>4 DEF SendersAsk
        <4>3. \A u \in Turns: m \in turn'[u].sends => SendsFollowUp(u)
          BY <3>1, <3>2, <3>4 DEF Accounted
        <4>4. \A u \in Turns: m \in turn'[u].sends => SendsFollowUp(u)' /\ May("compact")
          BY <3>1, <3>2, <4>3 DEF Accounted, SendsFollowUp
        <4> QED BY <3>1, <4>1, <4>2, <4>4 DEF Accounted
      <3> QED BY <3>3, <3>4
    <2> QED BY <2>4, <2>6 DEF MInv
  <1>34. CASE UNCHANGED vars
    <2>1. Loses(turn')
      BY <1>34, <1>c DEF vars
    <2> QED BY <1>34, <1>h, <2>1 DEF vars, Quiet, historyVars, bounds
  <1>35. ASSUME NEW t \in Turns, CommitNothing(t) \/ CommitFails(t) \/ StartDropped(t) PROVE MInv'
    BY <1>35, <1>6 DEF CommitNothing, CommitFails, StartDropped
  <1> QED BY <1>1, <1>2, <1>3, <1>4, <1>5, <1>7, <1>8, <1>9, <1>10, <1>11, <1>12,
             <1>13, <1>14, <1>15, <1>16, <1>17, <1>18, <1>19, <1>20, <1>21, <1>22, <1>23,
             <1>24, <1>25, <1>26, <1>27, <1>28, <1>29, <1>30, <1>31, <1>32, <1>33, <1>34, <1>35
             DEF Next, Step, Continue

\* The invariant gives the property: a message with the user, in the queue or in an own
\* send is nowhere else.
LEMMA MInvOnce == MInv => MessageOnce
  <1> SUFFICES ASSUME MInv, NEW m \in Messages
               PROVE  \/ \A p, q \in Places(m): p = q
                      \/ May("compact") /\ Places(m) \subseteq FollowUpPlaces(m)
    BY DEF MessageOnce
  <1>1. Accounted(m)
    BY DEF MInv
  <1>2. CASE m \in unsent
    BY <1>1, <1>2 DEF Accounted, Places
  <1>3. CASE m \in queue
    BY <1>1, <1>3 DEF Accounted, Places
  <1>4. CASE m \notin unsent /\ m \notin queue
    <2>1. CASE \E t \in Turns: m \in turn[t].sends /\ ~SendsFollowUp(t)
      BY <1>1, <1>4, <2>1 DEF Accounted, Places
    <2>2. CASE \A t \in Turns: m \in turn[t].sends => SendsFollowUp(t)
      <3>1. Places(m) \subseteq FollowUpPlaces(m)
        BY <1>4, <2>2 DEF Places, FollowUpPlaces
      <3>2. CASE ~May("compact")
        BY <1>1, <1>4, <2>2, <3>2 DEF Accounted, Places
      <3> QED BY <3>1, <3>2
    <2> QED BY <2>1, <2>2
  <1> QED BY <1>2, <1>3, <1>4

\* No message is sent, or written, twice, except for the follow-up of a summary.
THEOREM MessagesOnce == Spec => []MessageOnce
  <1>1. Init => MInv
    BY DEF Init, MInv, SendersAsk, Accounted, Free, NewTurn
  <1> QED BY InitIInv, StepIInv, <1>1, StepMInv, MInvOnce, PTL DEF Spec

----------------------------------------------------------------------------
(***************************************************************************)
(* The queue.  QueueNotStranded is not inductive: a handler that leaves    *)
(* the queue alone must follow a failure, and a flush that is put off must *)
(* find the edit that it was put off for.                                  *)
(***************************************************************************)
\* A flush is only put off for an edit that waits.
DeferMeansEdit == defer => \E t \in Turns: At(t, "waiting") /\ turn[t].kind = "edit"

\* A stream-end handler that leaves the queue alone has nothing to end, or ends a turn
\* whose hand-over failed.
FinallyFailed == \A t \in Turns: At(t, "finally") => failed \/ phase # "completing"

QInv == DeferMeansEdit /\ FinallyFailed /\ QueueNotStranded

\* In p, the turns that ask still do, those that wait still wait, and no handler has
\* become one that leaves the queue alone.
Stays(p) ==
    \A u \in Turns:
        /\ turn[u].pc \in Asking => p[u].pc \in Asking
        /\ turn[u].pc = "waiting" => p[u].pc = "waiting" /\ p[u].kind = turn[u].kind
        /\ p[u].pc = "finally" => turn[u].pc = "finally"

\* In p, an edit that waits still waits.
EditWaits(p) ==
    \A u \in Turns: turn[u].pc = "waiting" => p[u].pc = "waiting" /\ p[u].kind = turn[u].kind

\* A turn that goes on from a label to another.
LEMMA GotoStays ==
    ASSUME turn \in Slots, NEW t \in Turns, NEW label \in PC
    PROVE  /\ turn[t].pc # "waiting" => EditWaits(Goto(t, label))
           /\ (turn[t].pc # "waiting" /\ label # "finally" /\ (turn[t].pc \in Asking => label \in Asking))
                => Stays(Goto(t, label))
           /\ turn[t].pc # "waiting" => EditWaits([turn EXCEPT ![t] = Free])
           /\ turn[t].pc \notin Asking => Stays([turn EXCEPT ![t] = Free])
  <1>1. /\ Goto(t, label)[t].pc = label
        /\ \A u \in Turns: u # t => Goto(t, label)[u] = turn[u]
    BY DEF Goto, Slots, Turn
  <1>2. /\ [turn EXCEPT ![t] = Free][t].pc = "free"
        /\ \A u \in Turns: u # t => [turn EXCEPT ![t] = Free][u] = turn[u]
    BY DEF Slots, Free, NewTurn
  <1>3. "waiting" \in Asking
    BY DEF Asking
  <1> QED BY <1>1, <1>2, <1>3 DEF Stays, EditWaits

\* A send that settles: an edit that waits still does.
LEMMA SettledWaits ==
    ASSUME turn \in Slots, NEW t \in Turns, turn[t].pc # "waiting", NEW r \in Turn, NEW ok \in BOOLEAN
    PROVE  EditWaits(Settled(t, r, ok))
  BY SettledKeeps DEF EditWaits

\* A turn that begins.
LEMMA BeginStays ==
    ASSUME NEW p \in Slots, Stays(p), Room(p), NEW label \in PC \ {"finally"}, NEW k \in Kind,
           NEW c \in SUBSET Messages
    PROVE  Stays(Begin(p, label, k, c))
  <1>1. /\ Slot(p) \in Turns /\ p[Slot(p)].pc = "free"
        /\ Begin(p, label, k, c)[Slot(p)] = NewTurn(label, k, c)
        /\ \A t \in Turns: t # Slot(p) => Begin(p, label, k, c)[t] = p[t]
    BY BeginTakesFree
  <1>2. PICK s \in Turns: s = Slot(p)
    BY <1>1
  <1>3. turn[s].pc \notin Asking /\ turn[s].pc # "waiting"
    BY <1>1, <1>2 DEF Stays, Asking
  <1>4. Begin(p, label, k, c)[s].pc # "finally"
    BY <1>1, <1>2 DEF NewTurn
  <1> QED BY <1>1, <1>2, <1>3, <1>4 DEF Stays

\* A stop.
LEMMA StopStays ==
    ASSUME NEW p \in Slots, Stays(p), StopStream(p), stray \in {"no", "coming", "settling"}
    PROVE  Stays(turn')
  <1>1. \A t \in Turns:
          IF p[t].pc = "live" THEN turn'[t].pc = "aborting"
          ELSE turn'[t].pc = p[t].pc /\ turn'[t].kind = p[t].kind
    BY StopStreamTypes
  <1> QED BY <1>1 DEF Stays, Asking

\* The end of a phase leaves no flush put off unless an edit waits, and no queue if it
\* was put off.
LEMMA IdleDefers ==
    ASSUME DeferMeansEdit, NEW p \in Slots, EditWaits(p), NEW q, BecomeIdle(p) \/ IdleFrom(q, p)
    PROVE  DeferMeansEdit' /\ (defer /\ phase' # phase => queue' = {})
  <1>1. CASE BecomeIdle(p)
    <2>1. CASE defer
      <3>1. PICK t \in Turns: turn[t].pc = "waiting" /\ turn[t].kind = "edit"
        BY <2>1 DEF DeferMeansEdit, At
      <3>2. p[t].pc = "waiting" /\ p[t].kind = "edit"
        BY <3>1 DEF EditWaits
      <3> QED BY <1>1, <3>2 DEF BecomeIdle, DeferMeansEdit
    <2>2. CASE ~defer
      BY <1>1, <2>2 DEF BecomeIdle, DeferMeansEdit
    <2> QED BY <2>1, <2>2 DEF DeferMeansEdit
  <1>2. CASE turn' = p /\ UNCHANGED <<phase, queue, defer>>
    BY <1>2 DEF DeferMeansEdit, EditWaits, At
  <1> QED BY <1>1, <1>2 DEF IdleFrom

\* A step that leaves the phase, in which no turn stops to ask.
LEMMA SamePhase ==
    ASSUME QInv, Stays(turn'), phase' = phase, queue' \subseteq queue, defer' = defer,
           failed' = failed, stop => stop'
    PROVE  QInv'
  <1>1. DeferMeansEdit'
    BY DEF QInv, DeferMeansEdit, At, Stays
  <1>2. FinallyFailed'
    BY DEF QInv, FinallyFailed, At, Stays
  <1>3. QueueNotStranded'
    BY DEF QInv, QueueNotStranded, In, Stays
  <1> QED BY <1>1, <1>2, <1>3 DEF QInv

\* A step that leaves or makes the session busy.
LEMMA BusyPhase ==
    ASSUME QInv, EditWaits(turn'), phase' # "idle", defer' = defer,
           \/ phase' # "completing"
           \/ /\ \A u \in Turns: turn'[u].pc = "finally" => turn[u].pc = "finally"
              /\ phase' = phase \/ In({"finally"}) = {}
              /\ failed' = failed
    PROVE  QInv'
  <1>1. DeferMeansEdit'
    BY DEF QInv, DeferMeansEdit, At, EditWaits
  <1>2. FinallyFailed'
    BY DEF QInv, FinallyFailed, At, In
  <1>3. QueueNotStranded'
    BY DEF QueueNotStranded
  <1> QED BY <1>1, <1>2, <1>3 DEF QInv

\* A step that a failure or a stop ends.
LEMMA Failing == ASSUME DeferMeansEdit', failed' PROVE QInv'
  BY DEF QInv, FinallyFailed, QueueNotStranded

\* The queue is sent.
LEMMA SendQueuedBusy ==
    ASSUME QInv, Core, NEW p \in Slots, EditWaits(p), SendQueued(p)
    PROVE  QInv'
  <1>1. Room(p) /\ turn' = Begin(p, "accept", "queued", queue) /\ phase' = "preparing" /\ defer' = defer
    BY DEF SendQueued
  <1>2. "accept" \in PC /\ "queued" \in Kind /\ queue \in SUBSET Messages
    BY Labels DEF Core
  <1>3. /\ Slot(p) \in Turns /\ p[Slot(p)].pc = "free"
        /\ \A t \in Turns: t # Slot(p) => turn'[t] = p[t]
    BY <1>1, <1>2, BeginTakesFree
  <1>4. EditWaits(turn')
    BY <1>3 DEF EditWaits
  <1> QED BY <1>1, <1>4, BusyPhase

\* A stream-end handler sends.
LEMMA SyntheticStays ==
    ASSUME Core, NEW t \in Turns, turn[t].pc \in {"ending", "handled"},
           NEW k \in Kind, NEW c \in SUBSET Messages, SendSynthetic(t, k, c)
    PROVE  Stays(turn')
  <1> DEFINE p == Begin(turn, "accept", k, c)
  <1>1. turn \in Slots /\ Room(turn) /\ turn' = [p EXCEPT ![t].pc = "await"] /\ "accept" \in PC
    BY Labels DEF Core, SendSynthetic
  <1>2. "accept" \in PC \ {"finally"} /\ Stays(turn)
    BY <1>1 DEF Stays
  <1>3. Stays(p) /\ p \in Slots
    BY <1>1, <1>2, BeginStays, BeginTakesFree
  <1> HIDE DEF p
  <1>4. turn'[t].pc = "await" /\ \A u \in Turns: u # t => turn'[u] = p[u]
    BY <1>1, <1>3 DEF Slots, Turn
  <1> QED BY <1>3, <1>4 DEF Stays, Asking

\* Every step keeps the queue from being stranded.
LEMMA StepQInv == IInv /\ QInv /\ [Next]_vars => QInv'
  <1> SUFFICES ASSUME IInv, QInv, [Next]_vars PROVE QInv'
    OBVIOUS
  <1>a. Core /\ Rest /\ turn \in Slots /\ stray \in {"no", "coming", "settling"} /\ DeferMeansEdit
    BY TypeParts DEF IInv, Core, Rest, QInv
  <1>b. Free \in Turn
    BY <1>a, TurnFacts
  <1>c. Stays(turn) /\ EditWaits(turn)
    BY DEF Stays, EditWaits
  <1>d. \A t \in Turns: \A label \in PC:
          /\ turn[t].pc # "waiting" => EditWaits(Goto(t, label))
          /\ (turn[t].pc # "waiting" /\ label # "finally" /\ (turn[t].pc \in Asking => label \in Asking))
                => Stays(Goto(t, label))
          /\ turn[t].pc # "waiting" => EditWaits([turn EXCEPT ![t] = Free])
          /\ turn[t].pc \notin Asking => Stays([turn EXCEPT ![t] = Free])
    BY <1>a, GotoStays
  <1>e. \A t \in Turns: [turn EXCEPT ![t] = Free] \in Slots /\ \A label \in PC: Goto(t, label) \in Slots
    BY <1>a, <1>b, TurnFacts
  <1>f. \A t \in Turns: \A ok \in BOOLEAN:
          Settled(t, Free, ok) \in Slots /\ (turn[t].pc # "waiting" => EditWaits(Settled(t, Free, ok)))
    BY <1>a, <1>b, SettledWaits, SettledKeeps
  <1>g. Asking = {"deleting", "stopping", "waiting", "truncate", "accept", "accepted"}
    BY DEF Asking
  <1>h. ASSUME NEW p, Stays(p) PROVE EditWaits(p)
    BY <1>h DEF Stays, EditWaits
  <1>i. ASSUME NEW t \in Turns, turn[t].pc # "waiting", NEW label \in PC \ {"finally"}, turn' = Goto(t, label)
        PROVE  EditWaits(turn') /\ \A u \in Turns: turn'[u].pc = "finally" => turn[u].pc = "finally"
    <2>1. turn'[t].pc = label /\ \A u \in Turns: u # t => turn'[u] = turn[u]
      BY <1>a, <1>i, TurnFacts
    <2> QED BY <1>d, <1>i, <2>1
  <1>j. Room(turn) => \A label \in PC \ {"finally"}: \A k \in Kind: \A c \in SUBSET Messages:
          Stays(Begin(turn, label, k, c)) /\ Begin(turn, label, k, c) \in Slots
    BY <1>a, <1>c, BeginStays, BeginTakesFree
  <1>1. ASSUME NEW t \in Turns, EditStops(t) PROVE QInv'
    <2>1. Goto(t, "stopping") \in Slots /\ Stays(Goto(t, "stopping"))
      BY <1>1, <1>d, <1>e, <1>g, Labels DEF EditStops, At
    <2>2. Stays(turn')
      BY <1>1, <1>a, <2>1, StopStays DEF EditStops
    <2> QED BY <1>1, <2>2, SamePhase DEF EditStops
  <1>2. ASSUME NEW t \in Turns, Stopped(t) PROVE QInv'
    <2>1. Goto(t, "waiting") \in Slots /\ EditWaits(Goto(t, "waiting")) /\ Stays(Goto(t, "waiting"))
      BY <1>2, <1>d, <1>e, <1>g, Labels DEF Stopped, At
    <2>2. Goto(t, "waiting")[t].pc = "waiting" /\ Goto(t, "waiting")[t].kind = turn[t].kind
      BY <1>a, TurnFacts, Labels
    <2>3. CASE BecomeIdle(Goto(t, "waiting"))
      <3>1. DeferMeansEdit'
        BY <1>a, <2>1, <2>3, IdleDefers
      <3>2. phase' = "idle" /\ turn'[t].pc \in {"truncate", "accept"}
        <4>1. Goto(t, "waiting")[t] \in Turn
          BY <2>1 DEF Slots
        <4>2. \A label: [Goto(t, "waiting")[t] EXCEPT !.pc = label].pc = label
          BY <4>1 DEF Turn
        <4>3. turn'[t] \in {[Goto(t, "waiting")[t] EXCEPT !.pc = "truncate"],
                            [Goto(t, "waiting")[t] EXCEPT !.pc = "accept"]}
          BY <2>2, <2>3 DEF BecomeIdle
        <4> QED BY <2>3, <4>2, <4>3 DEF BecomeIdle
      <3>3. FinallyFailed' /\ QueueNotStranded'
        BY <3>2, <1>g DEF FinallyFailed, QueueNotStranded, In
      <3> QED BY <3>1, <3>3 DEF QInv
    <2>4. CASE phase # "idle" /\ turn' = Goto(t, "waiting") /\ defer' = (defer \/ turn[t].kind = "edit") /\ UNCHANGED <<phase, queue>>
      <3>1. DeferMeansEdit'
        <4>1. CASE defer
          BY <1>a, <2>1, <2>4, <4>1 DEF DeferMeansEdit, EditWaits, At
        <4>2. CASE turn[t].kind = "edit"
          BY <2>2, <2>4, <4>2 DEF DeferMeansEdit, At
        <4> QED BY <2>4, <4>1, <4>2 DEF DeferMeansEdit
      <3>2. FinallyFailed'
        BY <1>2, <2>1, <2>4 DEF Stopped, QInv, FinallyFailed, At, Stays
      <3>3. QueueNotStranded'
        BY <2>4 DEF QueueNotStranded
      <3> QED BY <3>1, <3>2, <3>3 DEF QInv
    <2> QED BY <1>2, <2>3, <2>4 DEF Stopped
  <1>3. ASSUME NEW t \in Turns, Truncate(t) PROVE QInv'
    <2>1. Stays(turn')
      BY <1>3, <1>d, <1>g, Labels DEF Truncate, At
    <2> QED BY <1>3, <2>1, SamePhase DEF Truncate
  <1>4. ASSUME NEW t \in Turns, Accept(t) PROVE QInv'
    <2>1. EditWaits(turn')
      BY <1>4, <1>d, Labels DEF Accept, At
    <2> QED BY <1>4, <2>1, BusyPhase DEF Accept
  <1>5. ASSUME NEW t \in Turns, Commit(t) PROVE QInv'
    <2>1. Stays(turn')
      BY <1>5, <1>d, <1>g, Labels DEF Commit, At
    <2> QED BY <1>5, <2>1, SamePhase DEF Commit
  <1>6. ASSUME NEW t \in Turns, turn[t].pc # "waiting", NEW ok \in BOOLEAN, GiveUp(t, ok), failed' PROVE QInv'
    <2>1. DeferMeansEdit'
      BY <1>6, <1>a, <1>f, IdleDefers DEF GiveUp
    <2> QED BY <1>6, <2>1, Failing
  <1>7. ASSUME NEW t \in Turns, Reject(t) PROVE QInv'
    <2>1. turn[t].pc # "waiting" /\ failed'
      BY <1>7 DEF Reject, At
    <2>2. CASE IdleFrom("preparing", Settled(t, Free, FALSE))
      BY <1>a, <1>f, <2>1, <2>2, IdleDefers, Failing
    <2>3. CASE turn' = Settled(t, Free, FALSE) /\ UNCHANGED <<phase, queue, defer>>
      <3>1. EditWaits(turn') /\ defer' = defer
        BY <1>f, <2>1, <2>3
      <3>2. DeferMeansEdit'
        BY <1>a, <3>1 DEF DeferMeansEdit, EditWaits, At
      <3> QED BY <2>1, <3>2, Failing
    <2> QED BY <1>7, <2>2, <2>3 DEF Reject
  <1>8. ASSUME NEW t \in Turns, CommitNothing(t) \/ CommitFails(t) \/ StartDropped(t) PROVE QInv'
    <2>1. turn[t].pc # "waiting" /\ failed'
      BY <1>8 DEF CommitNothing, CommitFails, StartDropped, At
    <2>2. PICK ok \in BOOLEAN: GiveUp(t, ok)
      BY <1>8 DEF CommitNothing, CommitFails, StartDropped
    <2> QED BY <1>6, <2>1, <2>2
  <1>9. ASSUME NEW t \in Turns, StartCancels(t) PROVE QInv'
    <2>1. PICK u \in Turns: turn[u].pc = "live" /\ turn' = Goto(u, "aborting")
      BY <1>9 DEF StartCancels, In
    <2>2. Stays(turn')
      BY <1>d, <1>g, <2>1, Labels
    <2> QED BY <1>9, <2>2, SamePhase DEF StartCancels
  <1>10. ASSUME NEW t \in Turns, Start(t) PROVE QInv'
    <2> DEFINE r == [turn[t] EXCEPT !.pc = "live", !.kind = "none"]
    <2>1. r \in Turn /\ (~turn[t].again) \in BOOLEAN
      BY <1>a DEF Slots, Turn, PC
    <2>2. turn' = Settled(t, r, ~turn[t].again) /\ turn[t].pc # "waiting"
      BY <1>10 DEF Start, At
    <2> HIDE DEF r
    <2>3. EditWaits(turn')
      BY <1>a, <2>1, <2>2, SettledWaits
    <2> QED BY <1>10, <2>3, BusyPhase DEF Start
  <1>11. ASSUME NEW t \in Turns, StartFails(t) \/ StreamEnds(t) \/ StreamFails(t), In({"flush", "finally"}) = {}
         PROVE  QInv'
    <2>1. /\ EditWaits(turn')
          /\ \A u \in Turns: turn'[u].pc = "finally" => turn[u].pc = "finally"
      BY <1>11, <1>i, Labels DEF StartFails, StreamEnds, StreamFails, At
    <2>2. phase' = "completing" /\ defer' = defer /\ failed' = failed
      BY <1>11 DEF StartFails, StreamEnds, StreamFails
    <2>3. In({"finally"}) = {}
      BY <1>11 DEF In
    <2> QED BY <2>1, <2>2, <2>3, BusyPhase
  <1>12. ASSUME NEW t \in Turns, AbortArrives(t), In({"flush", "finally"}) = {} PROVE QInv'
    <2>1. In({"finally"}) = {}
      BY <1>12 DEF In
    <2>2. CASE BeginAbort /\ turn' = Goto(t, "settling")
      <3>1. /\ EditWaits(turn')
            /\ \A u \in Turns: turn'[u].pc = "finally" => turn[u].pc = "finally"
        BY <1>12, <2>2, <1>i, Labels DEF AbortArrives, At
      <3> QED BY <1>12, <2>1, <2>2, <3>1, BusyPhase DEF AbortArrives, BeginAbort
    <2>3. CASE turn' = [turn EXCEPT ![t] = Free] /\ UNCHANGED <<phase, queue, active>>
      <3>1. Stays(turn')
        BY <1>12, <1>d, <1>g, <2>3, Labels DEF AbortArrives, At
      <3> QED BY <1>12, <2>3, <3>1, SamePhase DEF AbortArrives
    <2> QED BY <1>12, <2>2, <2>3 DEF AbortArrives
  <1>13. ASSUME NEW t \in Turns, AbortSettles(t) PROVE QInv'
    <2>1. EditWaits([turn EXCEPT ![t] = Free]) /\ [turn EXCEPT ![t] = Free] \in Slots
      BY <1>13, <1>d, <1>e, Labels DEF AbortSettles, At
    <2> QED BY <1>13, <1>a, <2>1, IdleDefers, Failing DEF AbortSettles
  <1>14. CASE StraySettles
    BY <1>14, <1>a, <1>c, IdleDefers, Failing DEF StraySettles
  <1>15. ASSUME NEW t \in Turns, FailureSettles(t) PROVE QInv'
    <2>1. EditWaits(Settled(t, Free, FALSE)) /\ Settled(t, Free, FALSE) \in Slots
      BY <1>15, <1>f DEF FailureSettles, At
    <2> QED BY <1>15, <1>a, <2>1, IdleDefers, Failing DEF FailureSettles
  <1>16. ASSUME NEW t \in Turns, Retry(t) PROVE QInv'
    <2>1. \A u \in Turns: u # t => turn'[u] = turn[u]
      BY <1>16, <1>a DEF Retry, Slots
    <2>2. EditWaits(turn')
      BY <1>16, <2>1 DEF Retry, At, EditWaits
    <2> QED BY <1>16, <2>2, BusyPhase DEF Retry
  <1>17. ASSUME NEW t \in Turns, ErrorStands(t) PROVE QInv'
    <2>1. Stays(turn')
      BY <1>17, <1>d, <1>g, Labels DEF ErrorStands, At
    <2> QED BY <1>17, <2>1, SamePhase DEF ErrorStands
  <1>18. ASSUME NEW t \in Turns, Finally(t) PROVE QInv'
    <2>1. EditWaits([turn EXCEPT ![t] = Free]) /\ [turn EXCEPT ![t] = Free] \in Slots
          /\ Stays([turn EXCEPT ![t] = Free])
      BY <1>18, <1>d, <1>e, <1>g, Labels DEF Finally, At
    <2>2. CASE phase = "completing"
      <3>1. failed
        BY <1>18, <2>2 DEF Finally, QInv, FinallyFailed
      <3>2. DeferMeansEdit'
        BY <1>18, <1>a, <2>1, IdleDefers DEF Finally
      <3> QED BY <1>18, <3>1, <3>2, Failing DEF Finally
    <2>3. CASE phase # "completing"
      BY <1>18, <2>1, <2>3, SamePhase DEF Finally, IdleFrom
    <2> QED BY <2>2, <2>3
  <1>19. ASSUME NEW t \in Turns, Flush(t) PROVE QInv'
    <2>1. EditWaits([turn EXCEPT ![t] = Free]) /\ [turn EXCEPT ![t] = Free] \in Slots
          /\ Stays([turn EXCEPT ![t] = Free])
      BY <1>19, <1>d, <1>e, <1>g, Labels DEF Flush, At
    <2>2. CASE SendQueued([turn EXCEPT ![t] = Free])
      BY <1>a, <2>1, <2>2, SendQueuedBusy
    <2>3. CASE (defer \/ queue = {}) /\ IdleFrom("completing", [turn EXCEPT ![t] = Free])
      <3>1. CASE phase = "completing"
        <4>1. DeferMeansEdit' /\ (defer /\ phase' # phase => queue' = {})
          BY <1>a, <2>1, <2>3, IdleDefers
        <4>2. phase' = "idle" /\ (queue = {} => queue' = {})
          BY <2>3, <3>1 DEF IdleFrom, BecomeIdle
        <4>3. queue' = {}
          BY <2>3, <3>1, <4>1, <4>2
        <4> QED BY <4>1, <4>2, <4>3 DEF QInv, FinallyFailed, QueueNotStranded
      <3>2. CASE phase # "completing"
        BY <1>19, <2>1, <2>3, <3>2, SamePhase DEF Flush, IdleFrom
      <3> QED BY <3>1, <3>2
    <2> QED BY <1>19, <2>2, <2>3 DEF Flush
  <1>20. ASSUME StrayArrives, In({"flush", "finally"}) = {} PROVE QInv'
    <2>1. In({"finally"}) = {}
      BY <1>20 DEF In
    <2>2. CASE BeginAbort
      BY <1>20, <1>c, <2>1, <2>2, BusyPhase DEF StrayArrives, BeginAbort
    <2>3. CASE UNCHANGED <<phase, active, queue>>
      BY <1>20, <1>c, <2>3, SamePhase DEF StrayArrives
    <2> QED BY <1>20, <2>2, <2>3 DEF StrayArrives
  <1>21. CASE Interrupt
    <2>1. Stays(turn')
      BY <1>21, <1>a, <1>c, StopStays DEF Interrupt
    <2> QED BY <1>21, <2>1, SamePhase DEF Interrupt
  <1>22. CASE Interrupted
    <2>1. CASE SendQueued(turn)
      BY <1>a, <1>c, <2>1, SendQueuedBusy
    <2>2. CASE queue' = {} /\ UNCHANGED <<phase, defer, turn, switches>>
      <3>1. DeferMeansEdit' /\ FinallyFailed'
        BY <1>22, <2>2 DEF Interrupted, QInv, DeferMeansEdit, FinallyFailed, At
      <3> QED BY <2>2, <3>1 DEF QInv, QueueNotStranded
    <2> QED BY <1>22, <2>1, <2>2 DEF Interrupted
  <1>23. CASE StartupCheck
    BY <1>23, <1>c, SamePhase DEF StartupCheck
  <1>24. CASE Crash
    BY <1>24 DEF Crash, QInv, DeferMeansEdit, FinallyFailed, QueueNotStranded
  <1>25. ASSUME NEW m \in Messages, Send(m) PROVE QInv'
    <2>1. "accept" \in PC \ {"finally"} /\ "user" \in Kind /\ {m} \in SUBSET Messages
      BY Labels
    <2>2. Stays(turn')
      BY <1>25, <1>j, <2>1 DEF Send
    <2> QED BY <1>25, <2>2, SamePhase DEF Send
  <1>26. ASSUME NEW m \in Messages, Enqueue(m) PROVE QInv'
    BY <1>26, <1>c, BusyPhase DEF Enqueue
  <1>27. ASSUME NEW m \in Messages, Edit(m) PROVE QInv'
    <2>1. PICK label \in {"truncate", "waiting", "deleting"}: turn' = Begin(turn, label, "edit", {m})
      BY <1>27 DEF Edit
    <2>2. label \in PC \ {"finally"} /\ "edit" \in Kind /\ {m} \in SUBSET Messages /\ Room(turn)
      BY <1>27, Labels DEF Edit
    <2>3. Stays(turn')
      BY <1>j, <2>1, <2>2
    <2>4. CASE phase = "completing"
      <3>1. turn' = Begin(turn, "waiting", "edit", {m})
        BY <1>27, <2>4 DEF Edit
      <3>2. Slot(turn) \in Turns /\ turn'[Slot(turn)] = NewTurn("waiting", "edit", {m})
        BY <1>a, <2>2, <3>1, Labels, BeginTakesFree
      <3>3. DeferMeansEdit'
        BY <3>2 DEF DeferMeansEdit, At, NewTurn
      <3>4. FinallyFailed'
        BY <1>27, <2>3 DEF Edit, QInv, FinallyFailed, At, Stays
      <3>5. QueueNotStranded'
        BY <1>27, <2>4 DEF Edit, QueueNotStranded
      <3> QED BY <3>3, <3>4, <3>5 DEF QInv
    <2>5. CASE phase # "completing"
      <3>1. defer' = defer /\ queue' \subseteq queue /\ phase' = phase /\ failed' = failed /\ stop' = stop
        BY <1>27, <2>5 DEF Edit
      <3> QED BY <2>3, <3>1, SamePhase
    <2> QED BY <2>4, <2>5
  <1>28. CASE Resume
    <2>1. "commit" \in PC \ {"finally"} /\ "resume" \in Kind /\ {} \in SUBSET Messages
      BY Labels
    <2>2. EditWaits(turn')
      BY <1>28, <1>h, <1>j, <2>1 DEF Resume
    <2> QED BY <1>28, <2>2, BusyPhase DEF Resume
  <1>29. ASSUME NEW t \in Turns, MidStream(t) PROVE QInv'
    <2>1. "stopping" \in PC \ {"finally"} /\ "midstream" \in Kind /\ {} \in SUBSET Messages
      BY Labels
    <2>2. /\ Stays(Begin(turn, "stopping", "midstream", {})) /\ Begin(turn, "stopping", "midstream", {}) \in Slots
          /\ StopStream(Begin(turn, "stopping", "midstream", {}))
      BY <1>29, <1>j, <2>1 DEF MidStream
    <2>3. Stays(turn')
      BY <1>a, <2>2, StopStays
    <2> QED BY <1>29, <2>3, SamePhase DEF MidStream
  <1>30. ASSUME NEW t \in Turns, Complete(t) PROVE QInv'
    <2>1. CASE turn' = Goto(t, "handled") \/ turn' = Goto(t, "flush")
      <3>1. Stays(turn')
        BY <1>30, <1>d, <1>g, <2>1, Labels DEF Complete, At
      <3> QED BY <1>30, <3>1, SamePhase DEF Complete
    <2>2. CASE SendSynthetic(t, "switch", {})
      <3>1. turn[t].pc \in {"ending", "handled"} /\ "switch" \in Kind /\ {} \in SUBSET Messages
        BY <1>30, Labels DEF Complete, At
      <3>2. Stays(turn')
        BY <1>a, <2>2, <3>1, SyntheticStays
      <3> QED BY <1>30, <3>2, SamePhase DEF Complete
    <2> QED BY <1>30, <2>1, <2>2 DEF Complete
  <1>31. ASSUME NEW t \in Turns, Dispatch(t) PROVE QInv'
    <2>1. CASE turn' = Goto(t, "flush")
      <3>1. Stays(turn')
        BY <1>31, <1>d, <1>g, <2>1, Labels DEF Dispatch, At
      <3> QED BY <1>31, <3>1, SamePhase DEF Dispatch
    <2>2. CASE SendSynthetic(t, "followup", promised)
      <3>1. turn[t].pc \in {"ending", "handled"} /\ "followup" \in Kind /\ promised \in SUBSET Messages
        BY <1>31, <1>a, Labels DEF Dispatch, At, Rest
      <3>2. Stays(turn')
        BY <1>a, <2>2, <3>1, SyntheticStays
      <3> QED BY <1>31, <3>2, SamePhase DEF Dispatch
    <2> QED BY <1>31, <2>1, <2>2 DEF Dispatch
  <1>32. CASE Open
    <2>1. "accept" \in PC \ {"finally"} /\ "recovered" \in Kind /\ promised \in SUBSET Messages
      BY <1>a, Labels DEF Rest
    <2>2. Stays(turn')
      BY <1>32, <1>c, <1>j, <2>1 DEF Open
    <2> QED BY <1>32, <2>2, SamePhase DEF Open
  <1>33. ASSUME NEW t \in Turns, Append(t) PROVE QInv'
    <2>1. \A u \in Turns: u # t => turn'[u] = turn[u]
      BY <1>33, <1>a DEF Append, Slots
    <2>2. EditWaits(turn')
      BY <1>33, <2>1 DEF Append, At, EditWaits
    <2>3. CASE phase' = "preparing"
      BY <1>33, <2>2, <2>3, BusyPhase DEF Append
    <2>4. CASE turn' = [turn EXCEPT ![t].pc = "accepted", ![t].sends = {}] /\ UNCHANGED phase
      <3>1. turn'[t].pc = "accepted"
        BY <1>a, <2>4 DEF Slots, Turn
      <3>2. Stays(turn')
        BY <1>33, <1>g, <2>1, <3>1 DEF Append, At, Stays
      <3> QED BY <1>33, <2>4, <3>2, SamePhase DEF Append
    <2> QED BY <1>33, <2>3, <2>4 DEF Append
  <1>34. CASE UNCHANGED vars
    BY <1>34, <1>c, SamePhase DEF vars
  <1> QED BY <1>1, <1>2, <1>3, <1>4, <1>5, <1>7, <1>8, <1>9, <1>10, <1>11, <1>12,
             <1>13, <1>14, <1>15, <1>16, <1>17, <1>18, <1>19, <1>20, <1>21, <1>22, <1>23,
             <1>24, <1>25, <1>26, <1>27, <1>28, <1>29, <1>30, <1>31, <1>32, <1>33, <1>34
             DEF Next, Step, Continue

\* A turn that ends well leaves no message in the queue of an idle session.
THEOREM QueueDelivered == Spec => []QueueNotStranded
  <1>1. Init => QInv
    BY DEF Init, QInv, DeferMeansEdit, FinallyFailed, QueueNotStranded, At, Free, NewTurn
  <1>2. QInv => QueueNotStranded
    BY DEF QInv
  <1> QED BY InitIInv, StepIInv, <1>1, <1>2, StepQInv, PTL DEF Spec

----------------------------------------------------------------------------
(***************************************************************************)
(* IdleMeansIdle and EditTruncatesAlone: where nothing makes a turn begin  *)
(* beside another (Orderly), the turns come one after the other, and the   *)
(* phase says of each how far it is.  An edit that has not replaced its    *)
(* turn and a handler that hands over are the exceptions, and wait.        *)
(***************************************************************************)
\* A turn that is being asked for, one that is over for the stream but not for its handler,
\* and the turns of which there is one at a time; an edit that has not replaced its turn
\* is apart from them, and so is the handler of a turn that hands over.
Asks  == {"truncate", "accept", "accepted"}
Held  == {"settling", "ending", "handled", "flush", "erring", "failing"}
Main  == Asks \cup Beginning \cup {"live", "aborting"} \cup Held
Apart == {"deleting", "stopping", "waiting"}

\* The phase that goes with a label and a kind.
PhaseOf(label, k) ==
    IF label \in Beginning THEN "preparing"
    ELSE IF label \in {"live", "aborting"} THEN "streaming"
    ELSE IF label \in Held THEN "completing"
    ELSE IF k = "queued" THEN "preparing"
    ELSE IF k = "switch" THEN "completing" ELSE "idle"

\* At most one turn is in progress, in the phase that goes with it.
Mains ==
    /\ \A t, u \in Turns: turn[t].pc \in Main /\ turn[u].pc \in Main => t = u
    /\ \A t \in Turns: turn[t].pc \in Main => phase = PhaseOf(turn[t].pc, turn[t].kind)
    /\ phase = "idle" \/ \E t \in Turns: turn[t].pc \in Main

\* At most one edit stops or waits for it, and then nobody else asks.
EditsApart ==
    /\ \A t, u \in Turns: turn[t].pc \in Apart /\ turn[u].pc \in Apart => t = u
    /\ \A t \in Turns: turn[t].pc \in Apart => turn[t].kind = "edit"
    /\ \A t \in Turns: turn[t].pc \in Asks =>
         turn[t].kind \in {"user", "edit", "queued"} \/ (turn[t].kind = "switch" /\ ~May("error"))
    /\ \A t \in Turns: turn[t].pc = "truncate" => turn[t].kind = "edit"
    /\ \A t \in Turns: turn[t].pc = "accepted" => turn[t].kind # "switch"
    /\ \A t, u \in Turns:
         turn[t].pc \in Apart /\ turn[u].pc \in Asks => turn[u].kind \in {"queued", "switch"}

\* A handler that hands over awaits the one send of its own, which starts.
HandsOver ==
    /\ \A t, u \in Turns: turn[t].pc = "await" /\ turn[u].pc = "await" => t = u
    /\ \A t \in Turns: turn[t].pc = "await" =>
         /\ \E u \in Turns: turn[u].pc \in {"accept"} \cup Beginning /\ turn[u].kind = "switch"
         /\ ~May("error") /\ tail # "none"
    /\ \A t \in Turns: turn[t].pc = "finally" => phase # "completing"

\* What does not happen in these scenarios.
Outside ==
    /\ ~May("error") => \A t \in Turns: ~turn[t].again /\ turn[t].pc \notin {"erring", "failing"}
    /\ stray # "settling" /\ (stray = "coming" => \A t \in Turns: turn[t].pc # "live")
    /\ ~armed /\ ~active /\ tail \notin {"compact", "summary"}

Order == Mains /\ EditsApart /\ HandsOver /\ Outside

\* A step in which nothing happens that does not in these scenarios.
Calm ==
    /\ ~armed' /\ ~active' /\ tail' \notin {"compact", "summary"} /\ (tail' = "none" => tail = "none")
    /\ events' = events

\* A step in which the turns keep what matters of them, their labels and kinds.
KeepsRoles ==
    /\ phase' = phase
    /\ stray' # "settling" /\ (stray' = "coming" => \A t \in Turns: turn'[t].pc # "live")
    /\ \A t \in Turns:
         \/ /\ turn'[t].kind = turn[t].kind /\ turn'[t].again = turn[t].again
            /\ \/ turn'[t].pc = turn[t].pc
               \/ turn[t].pc \in Apart /\ turn'[t].pc \in Apart
               \/ turn[t].pc = "live" /\ turn'[t].pc = "aborting"
         \/ turn[t].pc = "finally" /\ turn'[t].pc = "free" /\ ~turn'[t].again

\* It keeps the order.
LEMMA SameRoles == ASSUME Order, Calm, KeepsRoles PROVE Order'
  <1> USE DEF Order, Calm, KeepsRoles, Main, Apart, Asks, Held, Beginning
  <1>1. Mains'
    <2>1. \A t \in Turns: turn'[t].pc \in Main <=> turn[t].pc \in Main
      OBVIOUS
    <2>2. \A t \in Turns: turn[t].pc \in Main => PhaseOf(turn'[t].pc, turn'[t].kind) = PhaseOf(turn[t].pc, turn[t].kind)
      BY DEF PhaseOf
    <2> QED BY <2>1, <2>2 DEF Mains
  <1>2. EditsApart'
    BY DEF EditsApart, May
  <1>3. HandsOver'
    BY DEF HandsOver, May
  <1>4. Outside'
    BY DEF Outside, May
  <1> QED BY <1>1, <1>2, <1>3, <1>4

\* A step in which the turn t in progress goes on to another stage, without handlers that
\* leave the queue alone.
Goes(t, label) ==
    /\ turn[t].pc \in Main /\ label \in Main \ {"truncate", "live"} /\ turn'[t].pc = label
    /\ turn'[t].kind = turn[t].kind
    /\ \A u \in Turns \ {t}: turn'[u] = turn[u]
    /\ phase' = PhaseOf(label, turn[t].kind)
    /\ label \in Asks => turn[t].pc \in Asks
    /\ label = "accepted" => turn[t].kind # "switch"
    /\ turn[t].pc \in {"accept"} \cup Beginning =>
         label \in {"accept"} \cup Beginning \/ turn[t].kind # "switch" \/ May("error")
    /\ \A u \in Turns: turn[u].pc # "finally"
    /\ May("error") \/ (~turn'[t].again /\ label \notin {"erring", "failing"})
    /\ stray' = stray

\* It keeps the order.
LEMMA MainGoes ==
    ASSUME Order, Calm, NEW t \in Turns, NEW label, Goes(t, label)
    PROVE  Order'
  <1> USE DEF Order, Calm, Goes
  <1>1. Mains'
    BY DEF Mains
  <1>2. EditsApart'
    BY DEF EditsApart, Main, Apart, Asks, Held, Beginning, May
  <1>3. HandsOver'
    <2>1. \A u \in Turns: turn'[u].pc = "await" <=> turn[u].pc = "await"
      BY DEF Main, Asks, Held, Beginning
    <2>2. \A u \in Turns: turn'[u].pc # "finally"
      BY DEF Main, Asks, Held, Beginning
    <2>3. ASSUME NEW u \in Turns, turn'[u].pc = "await"
          PROVE  \E v \in Turns: turn'[v].pc \in {"accept"} \cup Beginning /\ turn'[v].kind = "switch"
      <3>1. ~May("error") /\ \E v \in Turns: turn[v].pc \in {"accept"} \cup Beginning /\ turn[v].kind = "switch"
        BY <2>1, <2>3 DEF HandsOver
      <3> QED BY <3>1
    <2> QED BY <2>1, <2>2, <2>3 DEF HandsOver, May
  <1>4. Outside'
    BY DEF Outside, May
  <1> QED BY <1>1, <1>2, <1>3, <1>4

\* The turns of p are those in progress but for one that is over; a handler that awaits it
\* has gone on.
Over(t, p) ==
    /\ p[t].pc = "free" /\ ~p[t].again
    /\ \A u \in Turns \ {t}:
         /\ p[u].kind = turn[u].kind /\ p[u].again = turn[u].again
         /\ p[u].pc = turn[u].pc \/ (turn[u].pc = "await" /\ p[u].pc = "finally")
         /\ p[u].pc # "await"

\* The turn in progress is over, and the session idle: an edit that waits for that is next.
LEMMA MainEnds ==
    ASSUME Order, Calm, NEW t \in Turns, turn[t].pc \in Main, NEW p \in Slots, Over(t, p),
           BecomeIdle(p),
           stray' = stray
    PROVE  Order'
  <1> USE DEF Order, Calm
  <1>1. phase' = "idle"
    BY DEF BecomeIdle
  <1>2. \A u \in Turns:
          /\ turn'[u].kind = p[u].kind /\ turn'[u].again = p[u].again
          /\ turn'[u].pc = IF p[u].pc # "waiting" THEN p[u].pc
                           ELSE IF p[u].kind = "edit" THEN "truncate" ELSE "accept"
    <2>1. \A u \in Turns: \A label:
            /\ [p[u] EXCEPT !.pc = label].kind = p[u].kind
            /\ [p[u] EXCEPT !.pc = label].again = p[u].again
            /\ [p[u] EXCEPT !.pc = label].pc = label
      BY DEF Slots, Turn
    <2> QED BY <2>1 DEF BecomeIdle
  <1>3. \A u \in Turns: p[u].pc \notin Main
    BY DEF Over, Mains, Main, Asks, Held, Beginning
  <1>4. \A u \in Turns: p[u].pc \in Apart => turn[u].pc \in Apart /\ p[u].kind = "edit"
    BY DEF Over, EditsApart, Apart
  <1>5. \A u \in Turns: turn'[u].pc \in Main <=> p[u].pc = "waiting"
    BY <1>2, <1>3 DEF Main, Asks
  <1>6. \A u \in Turns: p[u].pc = "waiting" => turn'[u].pc = "truncate" /\ turn'[u].kind = "edit"
    BY <1>2, <1>4 DEF Apart
  <1>7. \A u, v \in Turns: p[u].pc \in Apart /\ p[v].pc \in Apart => u = v
    BY <1>4 DEF EditsApart
  <1>8. Mains'
    BY <1>1, <1>5, <1>6, <1>7 DEF Mains, PhaseOf, Apart, Beginning, Held
  <1>9. EditsApart'
    <2>1. \A u \in Turns: turn'[u].pc \in Apart => p[u].pc \in Apart /\ p[u].pc # "waiting" /\ turn'[u].kind = "edit"
      BY <1>2, <1>4 DEF Apart
    <2>2. \A u \in Turns: turn'[u].pc \in Asks => p[u].pc = "waiting"
      BY <1>5 DEF Main
    <2>3. \A u \in Turns: p[u].pc = "waiting" => p[u].pc \in Apart
      BY DEF Apart
    <2> QED BY <1>6, <1>7, <2>1, <2>2, <2>3 DEF EditsApart, Asks
  <1>10. HandsOver'
    BY <1>1, <1>2, <1>6 DEF HandsOver, Over
  <1>11. Outside'
    BY <1>2, <1>6 DEF Outside, Over, May
  <1> QED BY <1>8, <1>9, <1>10, <1>11

\* A step in which a turn s begins while no other is in progress, perhaps for a handler
\* that awaits it.
Begins(s) ==
    /\ turn'[s].pc \in {"truncate", "accept", "commit"} /\ ~turn'[s].again
    /\ turn'[s].pc = "truncate" => turn'[s].kind = "edit"
    /\ turn'[s].pc = "accept" => turn'[s].kind \in {"user", "queued", "switch"}
    /\ turn'[s].pc # "commit" /\ turn'[s].kind \notin {"queued", "switch"} =>
         \A u \in Turns \ {s}: turn[u].pc \notin Apart
    /\ turn'[s].kind = "switch" => ~May("error")
    /\ phase' = PhaseOf(turn'[s].pc, turn'[s].kind)
    /\ \A u \in Turns \ {s}:
         /\ turn'[u].pc \notin Main \cup {"finally"}
         /\ turn'[u].pc \in Apart => turn'[u] = turn[u]
         /\ turn'[u].again => turn[u].again
         /\ turn'[u].pc = "await" =>
              /\ turn[u].pc \in Main /\ tail' # "none"
              /\ turn'[s].pc = "accept" /\ turn'[s].kind = "switch"
    /\ stray' = stray

\* It keeps the order.
LEMMA MainBegins ==
    ASSUME Order, Calm, NEW s \in Turns, Begins(s)
    PROVE  Order'
  <1> USE DEF Order, Calm, Begins
  <1>1. turn'[s].pc \in Main /\ \A u \in Turns: turn'[u].pc \in Main => u = s
    BY DEF Main, Asks, Beginning
  <1>2. Mains'
    BY <1>1 DEF Mains
  <1>3. EditsApart'
    BY <1>1 DEF EditsApart, Apart, Asks, Main, May
  <1>4. HandsOver'
    BY <1>1 DEF HandsOver, Mains, May
  <1>5. Outside'
    BY <1>1 DEF Outside, Main, Held, May
  <1> QED BY <1>2, <1>3, <1>4, <1>5

\* An edit stops the turn in progress, or waits for it, when nobody asks.
LEMMA ApartBegins ==
    ASSUME Order, Calm, NEW s \in Turns, turn'[s].pc \in Apart, turn'[s].kind = "edit", ~turn'[s].again,
           turn[s].pc = "free", \A u \in Turns: turn[u].pc \notin Asking,
           \A u \in Turns \ {s}: turn'[u] = turn[u],
           phase' = phase, stray' = stray
    PROVE  Order'
  <1> USE DEF Order, Calm
  <1>1. \A u \in Turns: turn'[u].pc \in Main <=> turn[u].pc \in Main
    BY DEF Main, Asks, Beginning, Held, Apart
  <1>2. Mains'
    BY <1>1 DEF Mains, Main, Apart, Asks, Beginning, Held
  <1>3. EditsApart'
    BY DEF EditsApart, Apart, Asks, Asking, May
  <1>4. HandsOver'
    <2>1. \A u \in Turns: turn'[u].pc = "await" \/ turn'[u].pc = "finally" => u # s /\ turn'[u] = turn[u]
      BY DEF Apart
    <2>2. \A u \in Turns: turn[u].pc \in {"accept"} \cup Beginning => turn'[u] = turn[u]
      BY DEF Beginning
    <2> QED BY <2>1, <2>2 DEF HandsOver, May
  <1>5. Outside'
    BY DEF Outside, Apart, May
  <1> QED BY <1>2, <1>3, <1>4, <1>5

\* A turn in progress that a handler awaits is the send of its own.
LEMMA AwaitedMain ==
    ASSUME Order, NEW t \in Turns, turn[t].pc \in Main, NEW u \in Turns, turn[u].pc = "await"
    PROVE  turn[t].pc \in {"accept"} \cup Beginning /\ turn[t].kind = "switch" /\ ~May("error") /\ tail # "none"
  BY DEF Order, HandsOver, Mains, Main, Asks

\* The end of a send in progress: its handler, if one awaits it, leaves the queue alone.
LEMMA SettledIsOver ==
    ASSUME turn \in Slots, Order, NEW t \in Turns, turn[t].pc \in Main,
           NEW ok \in BOOLEAN, (\E u \in Turns: turn[u].pc = "await") => ok
    PROVE  Over(t, Settled(t, Free, ok))
  <1>1. Free \in Turn /\ Free.pc = "free" /\ ~Free.again
    BY DEF Free, NewTurn, Turn, PC
  <1>2. Settled(t, Free, ok)[t] = Free
    BY <1>1, SettledKeeps
  <1>3. ASSUME NEW u \in Turns \ {t}, turn[u].pc # "await" PROVE Settled(t, Free, ok)[u] = turn[u]
    BY <1>1, <1>3, SettledKeeps
  <1>4. ASSUME NEW u \in Turns \ {t}, turn[u].pc = "await"
        PROVE  /\ Settled(t, Free, ok)[u].pc = "finally"
               /\ Settled(t, Free, ok)[u].kind = turn[u].kind
               /\ Settled(t, Free, ok)[u].again = turn[u].again
    <2>1. turn[t].kind = "switch" /\ ok
      BY <1>4, AwaitedMain
    <2>2. Settled(t, Free, ok)[u] = [turn[u] EXCEPT !.pc = "finally"]
      BY <1>4, <2>1 DEF Settled, At
    <2> QED BY <2>2 DEF Slots, Turn
  <1> QED BY <1>1, <1>2, <1>3, <1>4 DEF Over

\* So it is with the end of a turn that no handler awaits.
LEMMA FreedIsOver ==
    ASSUME turn \in Slots, NEW t \in Turns, \A u \in Turns: turn[u].pc # "await"
    PROVE  Over(t, [turn EXCEPT ![t] = Free])
  BY DEF Over, Slots, Free, NewTurn

\* A turn that is rejected leaves the session idle, if it was.
LEMMA MainLeaves ==
    ASSUME Order, Calm, NEW t \in Turns, turn[t].pc \in Asks, turn[t].kind \in {"user", "edit"},
           Over(t, turn'), phase' = phase, stray' = stray
    PROVE  Order'
  <1> USE DEF Order, Calm
  <1>1. \A u \in Turns: turn[u].pc \notin Apart
    BY DEF EditsApart
  <1>2. phase = "idle"
    BY DEF Mains, Main, PhaseOf, Asks, Beginning, Held
  <1>3. \A u \in Turns: turn'[u].pc \notin Main \cup Apart \cup {"await"}
    BY <1>1 DEF Over, Mains, Main, Asks, Held, Beginning, Apart
  <1>4. Mains' /\ EditsApart'
    BY <1>2, <1>3 DEF Mains, EditsApart, Main, Asks
  <1>5. HandsOver'
    BY <1>2, <1>3 DEF HandsOver
  <1>6. Outside'
    BY <1>3 DEF Outside, Over, May, Main, Held
  <1> QED BY <1>4, <1>5, <1>6

\* The turn in progress gets its stream; a handler that awaits it is done.
LEMMA MainStarts ==
    ASSUME Order, Calm, turn \in Slots, NEW t \in Turns, turn[t].pc = "pending", NEW r \in Turn,
           r.pc = "live", r.kind = "none", r.again = turn[t].again,
           NEW ok \in BOOLEAN, (\E u \in Turns: turn[u].pc = "await") => ok,
           turn' = Settled(t, r, ok), phase' = "streaming", stray = "no", stray' = stray
    PROVE  Order'
  <1> USE DEF Order, Calm
  <1>1. turn[t].pc \in Main
    BY DEF Main, Beginning
  <1>2. turn'[t] = r
    BY SettledKeeps
  <1>3. ASSUME NEW u \in Turns \ {t}, turn[u].pc # "await" PROVE turn'[u] = turn[u]
    BY <1>3, SettledKeeps
  <1>4. ASSUME NEW u \in Turns \ {t}, turn[u].pc = "await"
        PROVE  turn'[u].pc = "finally" /\ turn'[u].again = turn[u].again
    <2>1. turn[t].kind = "switch" /\ ok
      BY <1>1, <1>4, AwaitedMain
    <2>2. turn'[u] = [turn[u] EXCEPT !.pc = "finally"]
      BY <1>4, <2>1 DEF Settled, At
    <2> QED BY <2>2 DEF Slots, Turn
  <1>5. \A u \in Turns \ {t}: turn'[u].pc \notin Main \cup {"await"}
    BY <1>1, <1>3, <1>4 DEF Mains, Main, Asks, Beginning, Held
  <1>6. Mains'
    BY <1>2, <1>5 DEF Mains, PhaseOf, Main, Beginning
  <1>7. EditsApart'
    <2>1. \A u \in Turns: turn'[u].pc \notin Asks
      BY <1>2, <1>5 DEF Main, Asks
    <2>2. \A u \in Turns: turn'[u].pc \in Apart => turn'[u] = turn[u]
      BY <1>2, <1>3, <1>4 DEF Apart
    <2> QED BY <2>1, <2>2 DEF EditsApart, Asks
  <1>8. HandsOver'
    BY <1>2, <1>5 DEF HandsOver
  <1>9. Outside'
    BY <1>2, <1>3, <1>4, <1>5 DEF Outside, May, Main, Held
  <1> QED BY <1>6, <1>7, <1>8, <1>9

\* What a stop makes of a turn.
LEMMA StopRoles ==
    ASSUME NEW p \in Slots, StopStream(p)
    PROVE  \A t \in Turns:
             /\ turn'[t].kind = p[t].kind /\ turn'[t].again = p[t].again
             /\ turn'[t].pc = IF p[t].pc = "live" THEN "aborting" ELSE p[t].pc
  <1>1. \A t \in Turns:
          /\ [p[t] EXCEPT !.pc = "aborting"].pc = "aborting"
          /\ [p[t] EXCEPT !.pc = "aborting"].kind = p[t].kind
          /\ [p[t] EXCEPT !.pc = "aborting"].again = p[t].again
          /\ [p[t] EXCEPT !.dropped = TRUE].pc = p[t].pc
          /\ [p[t] EXCEPT !.dropped = TRUE].kind = p[t].kind
          /\ [p[t] EXCEPT !.dropped = TRUE].again = p[t].again
    BY DEF Slots, Turn
  <1>2. \A t \in Turns: turn'[t] = IF p[t].pc = "live" THEN [p[t] EXCEPT !.pc = "aborting"]
                                   ELSE IF t = starting THEN [p[t] EXCEPT !.dropped = TRUE] ELSE p[t]
    BY DEF StopStream
  <1> QED BY <1>1, <1>2

\* What going on makes of one.
LEMMA GotoRoles ==
    ASSUME turn \in Slots, NEW t \in Turns, NEW label \in PC
    PROVE  /\ Goto(t, label)[t].pc = label /\ Goto(t, label)[t].kind = turn[t].kind
           /\ Goto(t, label)[t].again = turn[t].again
           /\ \A u \in Turns \ {t}: Goto(t, label)[u] = turn[u]
  BY DEF Goto, Slots, Turn

\* Every step of an orderly behaviour keeps its order.
LEMMA StepOrder == IInv /\ Orderly /\ Order /\ [Next]_vars => Order'
  <1> SUFFICES ASSUME IInv, Orderly, Order, [Next]_vars PROVE Order'
    OBVIOUS
  <1>a. Core /\ Rest /\ turn \in Slots
    BY TypeParts DEF IInv, Core
  <1>b. Free \in Turn /\ Free.pc = "free" /\ ~Free.again
    BY <1>a, TurnFacts DEF Free, NewTurn
  <1>c. /\ ~May("compact") /\ ~May("midstream") /\ ~May("retry") /\ ~May("now")
        /\ ~May("impatient") /\ ~May("overtake") /\ (May("switch") => ~May("error"))
    BY DEF Orderly, May
  <1>d. Mains /\ EditsApart /\ HandsOver /\ Outside
    BY DEF Order
  <1>e. ~armed /\ ~active /\ tail \notin {"compact", "summary"} /\ stray # "settling" /\ MayRetry = {FALSE}
    BY <1>c, <1>d DEF Outside, MayRetry
  <1>f. \A t \in Turns: \A label \in PC:
          /\ Goto(t, label)[t].pc = label /\ Goto(t, label)[t].kind = turn[t].kind
          /\ Goto(t, label)[t].again = turn[t].again
          /\ \A u \in Turns \ {t}: Goto(t, label)[u] = turn[u]
          /\ Goto(t, label) \in Slots
    BY <1>a, GotoRoles, GotoKeeps
  <1>g. Asks \subseteq Main /\ Beginning \subseteq Main /\ Held \subseteq Main /\ {"live", "aborting"} \subseteq Main
    BY DEF Main
  <1>h. \A t \in Turns: turn[t].pc \in Main => phase = PhaseOf(turn[t].pc, turn[t].kind)
    BY <1>d DEF Mains
  <1>i. \A t, u \in Turns: turn[t].pc \in Main /\ turn[u].pc = "await" =>
          turn[t].pc \in {"accept"} \cup Beginning /\ turn[t].kind = "switch" /\ ~May("error") /\ tail # "none"
    BY AwaitedMain
  <1>j. \A t \in Turns: turn[t].again => May("error")
    BY <1>d DEF Outside
  <1>k. \A t \in Turns: [turn EXCEPT ![t] = Free] \in Slots
    BY <1>a, <1>b DEF Slots
  <1>l. \A t \in Turns: \A ok \in BOOLEAN: Settled(t, Free, ok) \in Slots
    BY <1>a, <1>b, SettledKeeps
  <1>m. Patient => \A u \in Turns: turn[u].pc \notin Asking
    BY <1>c DEF Patient, In
  <1>n. phase = "idle" /\ Patient => \A u \in Turns: turn[u].pc \notin Main /\ turn[u].pc \notin Apart /\ turn[u].pc # "await"
    <2>1. ASSUME phase = "idle", Patient, NEW u \in Turns PROVE turn[u].pc \notin Main
      BY <1>h, <1>m, <2>1 DEF PhaseOf, Main, Asks, Asking, Beginning, Held
    <2>2. ASSUME phase = "idle", Patient, NEW u \in Turns PROVE turn[u].pc # "await"
      BY <1>d, <2>1, <2>2 DEF HandsOver, Main, Asks
    <2> QED BY <1>m, <2>1, <2>2 DEF Apart, Asking
  <1>o. Room(turn) => \A label \in PC: \A k \in Kind: \A c \in SUBSET Messages:
          /\ Slot(turn) \in Turns /\ turn[Slot(turn)].pc = "free"
          /\ Begin(turn, label, k, c) \in Slots
          /\ Begin(turn, label, k, c)[Slot(turn)] = NewTurn(label, k, c)
          /\ \A u \in Turns: u # Slot(turn) => Begin(turn, label, k, c)[u] = turn[u]
    BY <1>a, BeginTakesFree
  <1>p. \A label, k, c: NewTurn(label, k, c).pc = label /\ NewTurn(label, k, c).kind = k /\ ~NewTurn(label, k, c).again
    BY DEF NewTurn
  <1>q. ASSUME NEW t \in Turns, NEW label \in PC, turn' = Goto(t, label)
        PROVE  /\ turn'[t].pc = label /\ turn'[t].kind = turn[t].kind /\ turn'[t].again = turn[t].again
               /\ \A u \in Turns \ {t}: turn'[u] = turn[u]
    BY <1>f, <1>q
  <1>r. \A t \in Turns: turn[t].kind = "switch" /\ turn[t].pc \in Asks => ~May("error")
    BY <1>d DEF EditsApart
  <1>s. (\E u \in Turns: turn[u].pc = "live") => stray # "coming"
    BY <1>d DEF Outside
  <1>1. ASSUME NEW t \in Turns, EditStops(t) PROVE Order'
    <2>1. StopStream(Goto(t, "stopping")) /\ Goto(t, "stopping") \in Slots /\ turn[t].pc = "deleting"
      BY <1>1, <1>f, Labels DEF EditStops, At
    <2>2. \A u \in Turns:
            /\ turn'[u].kind = turn[u].kind /\ turn'[u].again = turn[u].again
            /\ turn'[u].pc = IF turn[u].pc = "live" THEN "aborting" ELSE IF u = t THEN "stopping" ELSE turn[u].pc
      BY <1>f, <2>1, StopRoles, Labels
    <2>3. KeepsRoles
      BY <1>1, <1>e, <2>1, <2>2 DEF EditStops, StopStream, KeepsRoles, Apart
    <2>4. Calm
      BY <1>1, <1>e DEF EditStops, Calm, historyVars, bounds
    <2> QED BY <2>3, <2>4, SameRoles
  <1>2. ASSUME NEW t \in Turns, Stopped(t) PROVE Order'
    <2>1. turn[t].pc = "stopping" /\ turn[t].kind = "edit" /\ stray' = stray
      BY <1>2, <1>d DEF Stopped, At, EditsApart, Apart
    <2>2. Goto(t, "waiting") \in Slots /\ Goto(t, "waiting")[t].pc = "waiting" /\ Goto(t, "waiting")[t].kind = "edit"
          /\ Goto(t, "waiting")[t].again = turn[t].again /\ \A u \in Turns \ {t}: Goto(t, "waiting")[u] = turn[u]
      BY <1>f, <2>1, Labels
    <2>3. Calm
      BY <1>2, <1>e DEF Stopped, Calm, historyVars, bounds
    <2>4. CASE phase = "idle" /\ BecomeIdle(Goto(t, "waiting"))
      <3>1. \A u \in Turns \ {t}: turn[u].pc \notin Apart
        BY <1>d, <2>1 DEF EditsApart, Apart
      <3>2. \A u \in Turns: turn[u].pc \notin Main
        <4>1. \A u \in Turns: turn[u].pc \in Asks => turn[u].kind \in {"queued", "switch"}
          BY <1>d, <2>1 DEF EditsApart, Apart
        <4>2. \A u \in Turns: turn[u].pc = "truncate" => turn[u].kind = "edit"
          BY <1>d DEF EditsApart
        <4> QED BY <1>h, <2>4, <4>1, <4>2 DEF PhaseOf, Main, Asks, Beginning, Held
      <3>3. \A u \in Turns \ {t}: turn'[u] = turn[u]
        BY <2>2, <2>4, <3>1 DEF BecomeIdle, Apart
      <3>4. phase' = "idle" /\ turn'[t].pc = "truncate" /\ turn'[t].kind = "edit" /\ turn'[t].again = turn[t].again
        <4>1. turn'[t] = [Goto(t, "waiting")[t] EXCEPT !.pc = "truncate"]
          BY <2>2, <2>4 DEF BecomeIdle
        <4> QED BY <2>2, <2>4, <4>1 DEF BecomeIdle, Slots, Turn
      <3>5. \A u \in Turns: turn[u].pc # "await"
        BY <1>d, <3>2 DEF HandsOver, Main, Asks
      <3>6. Mains'
        BY <2>1, <3>2, <3>3, <3>4 DEF Mains, PhaseOf, Main, Asks, Beginning, Held
      <3>7. EditsApart'
        BY <1>d, <3>1, <3>2, <3>3, <3>4 DEF EditsApart, Apart, Asks, Main
      <3>8. HandsOver'
        BY <3>3, <3>4, <3>5 DEF HandsOver
      <3>9. Outside'
        BY <1>d, <2>1, <2>3, <3>3, <3>4 DEF Outside, Calm, May
      <3> QED BY <3>6, <3>7, <3>8, <3>9 DEF Order
    <2>5. CASE turn' = Goto(t, "waiting") /\ UNCHANGED <<phase, queue>>
      <3>1. KeepsRoles
        BY <1>e, <1>s, <2>1, <2>2, <2>5 DEF KeepsRoles, Apart
      <3> QED BY <2>3, <3>1, SameRoles
    <2> QED BY <1>2, <2>4, <2>5 DEF Stopped
  <1>3. ASSUME NEW t \in Turns, Truncate(t), \A u \in Turns: turn[u].pc # "finally" PROVE Order'
    <2>1. turn[t].pc = "truncate" /\ turn[t].kind = "edit" /\ turn' = Goto(t, "accept")
      BY <1>3, <1>d DEF Truncate, At, EditsApart
    <2>2. Goes(t, "accept")
      BY <1>3, <1>g, <1>h, <1>j, <1>q, <2>1, Labels DEF Truncate, Goes, PhaseOf, Asks, Beginning, Held
    <2>3. Calm
      BY <1>3, <1>e DEF Truncate, Calm, bounds
    <2> QED BY <2>2, <2>3, MainGoes
  <1>4. ASSUME NEW t \in Turns, Accept(t), \A u \in Turns: turn[u].pc # "finally" PROVE Order'
    <2>1. turn[t].pc = "accepted" /\ turn[t].kind # "switch" /\ turn' = Goto(t, "commit")
      BY <1>4, <1>d DEF Accept, At, EditsApart
    <2>2. Goes(t, "commit")
      BY <1>4, <1>g, <1>j, <1>q, <2>1, Labels DEF Accept, Goes, PhaseOf, Asks, Beginning
    <2>3. Calm
      BY <1>4, <1>e DEF Accept, Calm, historyVars, bounds
    <2> QED BY <2>2, <2>3, MainGoes
  <1>5. ASSUME NEW t \in Turns, Commit(t), \A u \in Turns: turn[u].pc # "finally" PROVE Order'
    <2>1. turn[t].pc = "commit" /\ turn' = Goto(t, "pending")
      BY <1>5 DEF Commit, At
    <2>2. Goes(t, "pending")
      BY <1>5, <1>g, <1>h, <1>j, <1>q, <2>1, Labels DEF Commit, Goes, PhaseOf, Asks, Beginning
    <2>3. Calm
      BY <1>5, <1>e DEF Commit, Calm, bounds
    <2> QED BY <2>2, <2>3, MainGoes
  <1>6. ASSUME NEW t \in Turns, turn[t].pc \in Beginning, NEW ok \in BOOLEAN, GiveUp(t, ok), ~armed',
               (\E u \in Turns: turn[u].pc = "await") => ok
        PROVE  Order'
    <2>1. phase = "preparing"
      BY <1>6, <1>g, <1>h DEF PhaseOf
    <2>2. BecomeIdle(Settled(t, Free, ok))
      BY <1>6, <2>1 DEF GiveUp, IdleFrom
    <2>3. Over(t, Settled(t, Free, ok)) /\ Settled(t, Free, ok) \in Slots
      BY <1>6, <1>a, <1>g, <1>l, SettledIsOver
    <2>4. Calm /\ stray' = stray
      BY <1>6, <1>e DEF GiveUp, Calm, historyVars, bounds
    <2> QED BY <1>6, <1>g, <2>2, <2>3, <2>4, MainEnds
  <1>7. ASSUME NEW t \in Turns, CommitNothing(t) \/ CommitFails(t) \/ StartDropped(t) PROVE Order'
    <2>1. turn[t].pc \in Beginning
      BY <1>7 DEF CommitNothing, CommitFails, StartDropped, At, Beginning
    <2>2. ~armed'
      BY <1>7, <1>e DEF CommitNothing, CommitFails, StartDropped
    <2>3. CASE CommitNothing(t) \/ CommitFails(t)
      <3>1. GiveUp(t, FALSE)
        BY <2>3 DEF CommitNothing, CommitFails
      <3>2. ~ \E u \in Turns: turn[u].pc = "await"
        BY <1>g, <1>i, <2>1, <2>3 DEF CommitNothing, CommitFails
      <3> QED BY <1>6, <2>1, <2>2, <3>1, <3>2
    <2>4. CASE StartDropped(t)
      <3>1. GiveUp(t, TRUE)
        BY <2>4 DEF StartDropped
      <3> QED BY <1>6, <2>1, <2>2, <3>1
    <2> QED BY <1>7, <2>3, <2>4
  <1>8. ASSUME NEW t \in Turns, Reject(t) PROVE Order'
    <2>1. turn[t].pc = "accept" /\ turn[t].kind \in {"user", "edit", "queued"} /\ turn[t].pc \in Main
          /\ turn[t].pc \in Asks
      BY <1>8, <1>d, <1>g DEF Reject, At, EditsApart, Asks
    <2>2. ~ \E u \in Turns: turn[u].pc = "await"
      BY <1>i, <2>1
    <2>3. Over(t, Settled(t, Free, FALSE)) /\ Settled(t, Free, FALSE) \in Slots
      BY <1>a, <1>l, <2>1, <2>2, SettledIsOver
    <2>4. Calm /\ stray' = stray
      BY <1>8, <1>e DEF Reject, Calm, historyVars, bounds
    <2>5. CASE turn[t].kind = "queued"
      <3>1. phase = "preparing"
        BY <1>h, <2>1, <2>5 DEF PhaseOf, Beginning, Held
      <3>2. BecomeIdle(Settled(t, Free, FALSE))
        BY <1>8, <2>5, <3>1 DEF Reject, IdleFrom
      <3> QED BY <2>1, <2>3, <2>4, <3>2, MainEnds
    <2>6. CASE turn[t].kind # "queued"
      <3>1. turn' = Settled(t, Free, FALSE) /\ phase' = phase
        BY <1>8, <2>6 DEF Reject
      <3>2. Over(t, turn') /\ turn[t].kind \in {"user", "edit"}
        BY <2>1, <2>3, <2>6, <3>1
      <3> QED BY <2>1, <2>4, <3>1, <3>2, MainLeaves
    <2> QED BY <2>5, <2>6
  <1>9. ASSUME NEW t \in Turns, StartCancels(t) PROVE Order'
    <2>1. PICK u \in Turns: turn[u].pc = "live" /\ turn[t].pc = "pending"
      BY <1>9 DEF StartCancels, In, At
    <2>2. t = u
      BY <1>d, <1>g, <2>1 DEF Mains, Beginning
    <2> QED BY <2>1, <2>2
  <1>10. ASSUME NEW t \in Turns, Start(t) PROVE Order'
    <2> DEFINE r == [turn[t] EXCEPT !.pc = "live", !.kind = "none"]
    <2>1. r \in Turn /\ r.pc = "live" /\ r.kind = "none" /\ r.again = turn[t].again /\ (~turn[t].again) \in BOOLEAN
      BY <1>a DEF Slots, Turn, PC
    <2>2. turn' = Settled(t, r, ~turn[t].again) /\ turn[t].pc = "pending" /\ phase' = "streaming"
          /\ stray = "no" /\ stray' = stray
      BY <1>10, <1>c DEF Start, At
    <2> HIDE DEF r
    <2>3. turn[t].pc \in Main
      BY <1>g, <2>2 DEF Beginning
    <2>4. (\E u \in Turns: turn[u].pc = "await") => ~turn[t].again
      BY <1>i, <1>j, <2>3
    <2>5. Calm
      BY <1>10, <1>e DEF Start, Calm, historyVars, bounds
    <2>6. PICK ok \in BOOLEAN: ok = ~turn[t].again
      BY <2>1
    <2>7. turn' = Settled(t, r, ok)
      BY <2>2, <2>6
    <2>8. (\E u \in Turns: turn[u].pc = "await") => ok
      BY <2>4, <2>6
    <2> QED BY <1>a, <2>1, <2>2, <2>5, <2>7, <2>8, MainStarts
  <1>11. ASSUME NEW t \in Turns, StartFails(t), \A u \in Turns: turn[u].pc # "finally" PROVE Order'
    <2>1. turn[t].pc = "pending" /\ turn' = Goto(t, "erring") /\ May("error")
      BY <1>11 DEF StartFails, At
    <2>2. Goes(t, "erring")
      BY <1>11, <1>g, <1>q, <2>1, Labels DEF StartFails, Goes, PhaseOf, Asks, Beginning, Held
    <2>3. Calm
      BY <1>11, <1>e DEF StartFails, Calm, historyVars, bounds
    <2> QED BY <2>2, <2>3, MainGoes
  <1>12. ASSUME NEW t \in Turns, AbortArrives(t), \A u \in Turns: turn[u].pc # "finally" PROVE Order'
    <2>1. turn[t].pc = "aborting" /\ phase = "streaming"
      BY <1>12, <1>g, <1>h DEF AbortArrives, At, PhaseOf, Beginning
    <2>2. turn' = Goto(t, "settling") /\ BeginAbort
      BY <1>12, <2>1 DEF AbortArrives
    <2>3. Goes(t, "settling")
      BY <1>12, <1>g, <1>j, <1>q, <2>1, <2>2, Labels DEF AbortArrives, BeginAbort, Goes, PhaseOf, Asks, Beginning, Held
    <2>4. Calm
      BY <1>12, <1>e, <2>2 DEF AbortArrives, BeginAbort, Calm, historyVars, bounds
    <2> QED BY <2>3, <2>4, MainGoes
  <1>13. CASE StrayArrives
    <2>1. /\ \A u \in Turns: turn[u].pc \notin {"live", "aborting"}
          /\ stray = "coming"
      BY <1>13, <1>c, <1>s DEF StrayArrives, In
    <2>2. phase # "streaming"
      BY <1>d, <1>h, <2>1 DEF Mains, PhaseOf
    <2>3. stray' = "no" /\ turn' = turn /\ phase' = phase /\ active' = active
      BY <1>13, <2>2 DEF StrayArrives, BeginAbort
    <2>4. KeepsRoles
      BY <2>3 DEF KeepsRoles
    <2>5. Calm
      BY <1>13, <1>e, <2>3 DEF StrayArrives, Calm, historyVars, bounds
    <2> QED BY <2>4, <2>5, SameRoles
  <1>14. ASSUME NEW t \in Turns, AbortSettles(t) PROVE Order'
    <2>1. turn[t].pc \in Main /\ ~ \E u \in Turns: turn[u].pc = "await"
      BY <1>14, <1>g, <1>i DEF AbortSettles, At, Held, Beginning
    <2>2. Over(t, [turn EXCEPT ![t] = Free]) /\ [turn EXCEPT ![t] = Free] \in Slots
      BY <1>a, <1>k, <2>1, FreedIsOver
    <2>3. Calm /\ stray' = stray /\ BecomeIdle([turn EXCEPT ![t] = Free])
      BY <1>14, <1>e DEF AbortSettles, Calm, historyVars, bounds
    <2> QED BY <2>1, <2>2, <2>3, MainEnds
  <1>15. CASE StraySettles
    BY <1>15, <1>e DEF StraySettles
  <1>16. ASSUME NEW t \in Turns, StreamEnds(t), \A u \in Turns: turn[u].pc # "finally" PROVE Order'
    <2>1. turn[t].pc = "live" /\ turn' = Goto(t, "ending")
      BY <1>16 DEF StreamEnds, At
    <2>2. Goes(t, "ending")
      BY <1>16, <1>g, <1>j, <1>q, <2>1, Labels DEF StreamEnds, Goes, PhaseOf, Asks, Beginning, Held
    <2>3. Calm
      BY <1>16, <1>e DEF StreamEnds, Calm, historyVars, bounds
    <2> QED BY <2>2, <2>3, MainGoes
  <1>17. ASSUME NEW t \in Turns, NEW s \in Turns, turn[t].pc \in {"ending", "handled"}, s # t,
                turn'[s] = NewTurn("accept", "switch", {}), turn'[t].pc = "await", turn'[t].again = turn[t].again,
                \A u \in Turns \ {s, t}: turn'[u] = turn[u], May("switch"), tail' # "none", Calm,
                \A u \in Turns: turn[u].pc # "finally", phase' = phase, stray' = stray
         PROVE  Order'
    <2>1. turn[t].pc \in Main /\ ~ \E u \in Turns: turn[u].pc = "await"
      BY <1>17, <1>g, <1>i DEF Held, Beginning
    <2>2. phase = "completing"
      BY <1>17, <1>h, <2>1 DEF PhaseOf, Held, Beginning
    <2>3. \A u \in Turns \ {t}: turn[u].pc \notin Main
      BY <1>d, <2>1 DEF Mains
    <2>4. turn'[s].pc = "accept" /\ turn'[s].kind = "switch" /\ ~turn'[s].again
      BY <1>17, <1>p
    <2>5. Begins(s)
      BY <1>17, <1>c, <2>1, <2>2, <2>3, <2>4
         DEF Begins, PhaseOf, Main, Asks, Held, Beginning, Apart
    <2> QED BY <1>17, <2>5, MainBegins
  <1>18. ASSUME NEW t \in Turns, Complete(t), \A u \in Turns: turn[u].pc # "finally" PROVE Order'
    <2>1. /\ turn[t].pc = "ending" /\ tail' = "reply" /\ ~active' /\ armed' = armed /\ events' = events
          /\ phase' = phase /\ stray' = stray
      BY <1>18, <1>e DEF Complete, At, bounds
    <2>2. Calm
      BY <1>e, <2>1 DEF Calm
    <2>3. CASE turn' = Goto(t, "flush")
      <3>1. turn[t].pc \in Main /\ phase = "completing"
        BY <1>g, <1>h, <2>1 DEF PhaseOf, Held, Beginning
      <3>2. Goes(t, "flush")
        BY <1>18, <1>g, <1>j, <1>q, <2>1, <2>3, <3>1, Labels DEF Goes, PhaseOf, Asks, Beginning, Held
      <3> QED BY <2>2, <3>2, MainGoes
    <2>4. CASE May("switch") /\ SendSynthetic(t, "switch", {})
      <3> DEFINE p == Begin(turn, "accept", "switch", {})
      <3>1. Room(turn) /\ turn' = [p EXCEPT ![t].pc = "await"]
        BY <2>4 DEF SendSynthetic
      <3>2. /\ Slot(turn) \in Turns /\ turn[Slot(turn)].pc = "free" /\ p \in Slots
            /\ p[Slot(turn)] = NewTurn("accept", "switch", {})
            /\ \A u \in Turns: u # Slot(turn) => p[u] = turn[u]
        BY <1>o, <3>1, Labels
      <3> HIDE DEF p
      <3>3. PICK s \in Turns: s = Slot(turn)
        BY <3>2
      <3>4. s # t
        BY <2>1, <3>2, <3>3
      <3>5. /\ turn'[t].pc = "await" /\ turn'[t].again = p[t].again
            /\ \A u \in Turns \ {t}: turn'[u] = p[u]
        BY <3>1, <3>2 DEF Slots, Turn
      <3>6. turn'[s] = NewTurn("accept", "switch", {})
        BY <3>2, <3>3, <3>4, <3>5
      <3>7. turn'[t].again = turn[t].again
        BY <3>2, <3>3, <3>4, <3>5
      <3>8. \A u \in Turns \ {s, t}: turn'[u] = turn[u]
        BY <3>2, <3>3, <3>5
      <3>9. tail' # "none" /\ turn[t].pc \in {"ending", "handled"}
        BY <2>1
      <3> QED BY <1>17, <1>18, <2>1, <2>2, <2>4, <3>4, <3>5, <3>6, <3>7, <3>8, <3>9
    <2> QED BY <1>18, <1>e, <2>3, <2>4 DEF Complete
  <1>19. ASSUME NEW t \in Turns, Dispatch(t), \A u \in Turns: turn[u].pc # "finally" PROVE Order'
    <2>1. turn[t].pc = "handled" /\ turn' = Goto(t, "flush")
      BY <1>19, <1>e DEF Dispatch, At
    <2>2. turn[t].pc \in Main /\ phase = "completing"
      BY <1>g, <1>h, <2>1 DEF PhaseOf, Held, Beginning
    <2>3. Goes(t, "flush")
      BY <1>19, <1>g, <1>j, <1>q, <2>1, <2>2, Labels DEF Dispatch, Goes, PhaseOf, Asks, Beginning, Held
    <2>4. Calm
      BY <1>19, <1>e DEF Dispatch, Calm, historyVars, bounds
    <2> QED BY <2>3, <2>4, MainGoes
  <1>20. ASSUME NEW t \in Turns, Flush(t) PROVE Order'
    <2>1. turn[t].pc = "flush" /\ turn[t].pc \in Main /\ stray' = stray
      BY <1>20, <1>g DEF Flush, At, Held
    <2>2. phase = "completing"
      BY <1>h, <2>1 DEF PhaseOf, Held, Beginning
    <2>3. \A u \in Turns: turn[u].pc # "await" /\ turn[u].pc # "finally"
      BY <1>d, <1>i, <2>1, <2>2 DEF HandsOver, Beginning
    <2>4. Calm
      BY <1>20, <1>e DEF Flush, Calm, historyVars, bounds
    <2>5. PICK p \in Slots: p = [turn EXCEPT ![t] = Free]
      BY <1>k
    <2>6. Over(t, p)
      BY <1>a, <2>3, <2>5, FreedIsOver
    <2>7. CASE SendQueued(p)
      <3>1. Room(p) /\ turn' = Begin(p, "accept", "queued", queue) /\ phase' = "preparing"
        BY <2>7 DEF SendQueued
      <3>2. "accept" \in PC /\ "queued" \in Kind /\ queue \in SUBSET Messages
        BY <1>a, Labels DEF Core
      <3>3. /\ Slot(p) \in Turns /\ turn'[Slot(p)] = NewTurn("accept", "queued", queue)
            /\ \A u \in Turns: u # Slot(p) => turn'[u] = p[u]
        BY <3>1, <3>2, BeginTakesFree
      <3>4. PICK s \in Turns: s = Slot(p)
        BY <3>3
      <3>5. turn'[s].pc = "accept" /\ turn'[s].kind = "queued" /\ ~turn'[s].again
        BY <1>p, <3>3, <3>4
      <3>6. p[t] = Free /\ \A u \in Turns \ {t}: p[u] = turn[u]
        BY <1>a, <2>5 DEF Slots
      <3>7. \A u \in Turns: p[u].pc \notin Main \cup {"await", "finally"}
        BY <1>b, <1>d, <2>1, <2>3, <3>6 DEF Mains, Main, Asks, Held, Beginning
      <3>8. \A u \in Turns: (p[u].pc \in Apart => p[u] = turn[u]) /\ (p[u].again => turn[u].again)
        BY <1>b, <3>6 DEF Apart
      <3>9. Begins(s)
        BY <2>1, <3>1, <3>3, <3>4, <3>5, <3>7, <3>8 DEF Begins, PhaseOf, Held, Beginning
      <3> QED BY <2>4, <3>9, MainBegins
    <2>8. CASE IdleFrom("completing", p)
      <3>1. BecomeIdle(p)
        BY <2>2, <2>8 DEF IdleFrom
      <3> QED BY <2>1, <2>4, <2>6, <3>1, MainEnds
    <2> QED BY <1>20, <2>5, <2>7, <2>8 DEF Flush
  <1>21. ASSUME NEW t \in Turns, Finally(t) PROVE Order'
    <2>1. turn[t].pc = "finally" /\ phase # "completing"
      BY <1>21, <1>d DEF Finally, At, HandsOver
    <2>2. turn' = [turn EXCEPT ![t] = Free] /\ phase' = phase /\ stray' = stray
      BY <1>21, <2>1 DEF Finally, IdleFrom
    <2>3. turn'[t] = Free /\ \A u \in Turns \ {t}: turn'[u] = turn[u]
      BY <1>a, <2>2 DEF Slots
    <2>4. KeepsRoles
      BY <1>b, <1>e, <1>s, <2>1, <2>2, <2>3 DEF KeepsRoles
    <2>5. Calm
      BY <1>21, <1>e DEF Finally, Calm, historyVars, bounds
    <2> QED BY <2>4, <2>5, SameRoles
  <1>22. ASSUME NEW t \in Turns, StreamFails(t), \A u \in Turns: turn[u].pc # "finally" PROVE Order'
    <2>1. turn[t].pc = "live" /\ turn' = Goto(t, "erring") /\ May("error")
      BY <1>22, <1>c DEF StreamFails, At
    <2>2. Goes(t, "erring")
      BY <1>22, <1>g, <1>q, <2>1, Labels DEF StreamFails, Goes, PhaseOf, Asks, Beginning, Held
    <2>3. Calm
      BY <1>22, <1>e DEF StreamFails, Calm, historyVars, bounds
    <2> QED BY <2>2, <2>3, MainGoes
  <1>23. ASSUME NEW t \in Turns, Retry(t), \A u \in Turns: turn[u].pc # "finally" PROVE Order'
    <2>1. turn[t].pc = "erring" /\ May("error")
      BY <1>23, <1>d DEF Retry, At, Outside
    <2>2. turn' = [turn EXCEPT ![t] = [turn[t] EXCEPT !.pc = "commit", !.again = TRUE]]
      BY <1>23, <1>a DEF Retry, Slots, Turn
    <2>3. turn'[t].pc = "commit" /\ turn'[t].kind = turn[t].kind /\ \A u \in Turns \ {t}: turn'[u] = turn[u]
      BY <1>a, <2>2 DEF Slots, Turn
    <2>4. Goes(t, "commit")
      BY <1>23, <1>g, <2>1, <2>3, Labels DEF Retry, Goes, PhaseOf, Asks, Beginning, Held
    <2>5. Calm
      BY <1>23, <1>e DEF Retry, Calm, historyVars, bounds
    <2> QED BY <2>4, <2>5, MainGoes
  <1>24. ASSUME NEW t \in Turns, ErrorStands(t), \A u \in Turns: turn[u].pc # "finally" PROVE Order'
    <2>1. turn[t].pc = "erring" /\ turn' = Goto(t, "failing") /\ May("error")
      BY <1>24, <1>d DEF ErrorStands, At, Outside
    <2>2. turn[t].pc \in Main /\ phase = "completing"
      BY <1>g, <1>h, <2>1 DEF PhaseOf, Held, Beginning
    <2>3. Goes(t, "failing")
      BY <1>24, <1>g, <1>q, <2>1, <2>2, Labels DEF ErrorStands, Goes, PhaseOf, Asks, Beginning, Held
    <2>4. Calm
      BY <1>24, <1>e DEF ErrorStands, Calm, historyVars, bounds
    <2> QED BY <2>3, <2>4, MainGoes
  <1>25. ASSUME NEW t \in Turns, FailureSettles(t) PROVE Order'
    <2>1. turn[t].pc \in Main /\ ~ \E u \in Turns: turn[u].pc = "await"
      BY <1>25, <1>g, <1>i DEF FailureSettles, At, Held, Beginning
    <2>2. Over(t, Settled(t, Free, FALSE)) /\ Settled(t, Free, FALSE) \in Slots
      BY <1>a, <1>l, <2>1, SettledIsOver
    <2>3. Calm /\ stray' = stray /\ BecomeIdle(Settled(t, Free, FALSE))
      BY <1>25, <1>e DEF FailureSettles, Calm, historyVars, bounds
    <2> QED BY <2>1, <2>2, <2>3, MainEnds
  <1>26. CASE Interrupt
    <2>1. StopStream(turn)
      BY <1>26 DEF Interrupt
    <2>2. \A u \in Turns:
            /\ turn'[u].kind = turn[u].kind /\ turn'[u].again = turn[u].again
            /\ turn'[u].pc = IF turn[u].pc = "live" THEN "aborting" ELSE turn[u].pc
      BY <1>a, <2>1, StopRoles
    <2>3. KeepsRoles
      BY <1>26, <1>e, <2>1, <2>2 DEF Interrupt, StopStream, KeepsRoles
    <2>4. Calm
      BY <1>26, <1>e DEF Interrupt, Count, Calm, historyVars
    <2> QED BY <2>3, <2>4, SameRoles
  <1>27. ASSUME turn' = turn, phase' = phase, stray' = stray, Calm PROVE Order'
    <2>1. KeepsRoles
      BY <1>27, <1>e, <1>s DEF KeepsRoles
    <2> QED BY <1>27, <2>1, SameRoles
  <1>28. CASE Interrupted \/ StartupCheck \/ Open \/ UNCHANGED vars \/ \E m \in Messages: Enqueue(m)
    <2>1. turn' = turn /\ phase' = phase /\ stray' = stray
      BY <1>28, <1>c, <1>e DEF Interrupted, StartupCheck, Open, Enqueue, vars
    <2>2. ~armed'
      <3>1. CASE StartupCheck
        <4>1. armed' \in {armed} \cup MayRetry
          BY <3>1 DEF StartupCheck
        <4> QED BY <1>e, <4>1
      <3> QED BY <1>28, <1>e, <3>1 DEF Interrupted, Open, Enqueue, vars
    <2>3. active' = active /\ tail' = tail
      BY <1>28 DEF Interrupted, StartupCheck, Open, Enqueue, vars, historyVars
    <2>4. events' = events
      BY <1>28 DEF Interrupted, StartupCheck, Open, Enqueue, vars, bounds
    <2>5. Calm
      BY <1>e, <2>2, <2>3, <2>4 DEF Calm
    <2> QED BY <1>27, <2>1, <2>5
  <1>29. CASE Crash
    <2>1. \A u \in Turns: turn'[u].pc = "free" /\ ~turn'[u].again
      BY <1>29, <1>b DEF Crash
    <2>2. phase' = "idle" /\ stray' = "no" /\ ~armed' /\ ~active' /\ tail' = tail /\ events' = events
      BY <1>29 DEF Crash, Count, historyVars
    <2>3. Mains' /\ EditsApart' /\ HandsOver'
      BY <2>1, <2>2 DEF Mains, EditsApart, HandsOver, Main, Asks, Held, Beginning, Apart
    <2>4. Outside'
      BY <1>e, <2>1, <2>2 DEF Outside
    <2> QED BY <2>3, <2>4 DEF Order
  <1>30. ASSUME NEW label \in {"accept", "truncate", "commit"}, NEW k \in {"user", "edit", "resume"},
                NEW c \in SUBSET Messages, Room(turn), turn' = Begin(turn, label, k, c),
                label = "truncate" => k = "edit", label = "accept" => k = "user",
                phase = "idle", Patient, phase' = PhaseOf(label, k), stray' = stray, Calm,
                \A u \in Turns: turn[u].pc # "finally"
         PROVE  Order'
    <2>1. label \in PC /\ k \in Kind
      BY Labels
    <2>2. /\ Slot(turn) \in Turns /\ turn'[Slot(turn)] = NewTurn(label, k, c)
          /\ \A u \in Turns: u # Slot(turn) => turn'[u] = turn[u]
      BY <1>30, <1>o, <2>1
    <2>3. PICK s \in Turns: s = Slot(turn)
      BY <2>2
    <2>4. turn'[s].pc = label /\ turn'[s].kind = k /\ ~turn'[s].again
      BY <1>p, <2>2, <2>3
    <2>5. \A u \in Turns \ {s}: turn'[u] = turn[u] /\ turn[u].pc \notin Main \cup {"await", "finally"} \cup Apart
      BY <1>30, <1>n, <2>2, <2>3
    <2>6. Begins(s)
      BY <1>30, <2>4, <2>5 DEF Begins
    <2> QED BY <1>30, <2>6, MainBegins
  <1>31. ASSUME NEW m \in Messages, Send(m), \A u \in Turns: turn[u].pc # "finally" PROVE Order'
    <2>1. Room(turn) /\ turn' = Begin(turn, "accept", "user", {m}) /\ phase = "idle" /\ Patient /\ {m} \in SUBSET Messages
      BY <1>31 DEF Send
    <2>2. phase' = PhaseOf("accept", "user") /\ stray' = stray
      BY <1>31 DEF Send, PhaseOf, Beginning, Held
    <2>3. Calm
      BY <1>31, <1>e DEF Send, Calm, historyVars, bounds
    <2>4. "accept" = "truncate" => "user" = "edit"
      OBVIOUS
    <2> QED BY <1>30, <1>31, <2>1, <2>2, <2>3, <2>4
  <1>32. CASE Resume /\ \A u \in Turns: turn[u].pc # "finally"
    <2>1. Room(turn) /\ turn' = Begin(turn, "commit", "resume", {}) /\ phase = "idle" /\ Patient /\ {} \in SUBSET Messages
      BY <1>32, <1>e DEF Resume
    <2>2. phase' = PhaseOf("commit", "resume") /\ stray' = stray
      BY <1>32 DEF Resume, PhaseOf, Beginning
    <2>3. Calm
      BY <1>32, <1>e DEF Resume, Count, Calm, historyVars, bounds
    <2>4. ("commit" = "truncate" => "resume" = "edit") /\ ("commit" = "accept" => "resume" = "user")
      OBVIOUS
    <2> QED BY <1>30, <1>32, <2>1, <2>2, <2>3, <2>4
  <1>33. ASSUME NEW m \in Messages, Edit(m), \A u \in Turns: turn[u].pc # "finally" PROVE Order'
    <2>1. Room(turn) /\ Patient /\ {m} \in SUBSET Messages /\ phase' = phase /\ stray' = stray
      BY <1>33 DEF Edit
    <2>2. Calm
      BY <1>33, <1>e DEF Edit, Count, Calm, historyVars
    <2>3. CASE phase = "idle"
      <3>1. turn' = Begin(turn, "truncate", "edit", {m})
        BY <1>33, <2>3 DEF Edit
      <3>2. phase' = PhaseOf("truncate", "edit")
        BY <2>1, <2>3 DEF PhaseOf, Beginning, Held
      <3>3. "truncate" = "accept" => "edit" = "user"
        OBVIOUS
      <3> QED BY <1>30, <1>33, <2>1, <2>2, <2>3, <3>1, <3>2, <3>3
    <2>4. CASE phase # "idle"
      <3>1. PICK label \in {"waiting", "deleting"}: turn' = Begin(turn, label, "edit", {m})
        BY <1>33, <2>4 DEF Edit
      <3>2. label \in PC /\ "edit" \in Kind /\ label \in Apart
        BY Labels DEF Apart
      <3>3. /\ Slot(turn) \in Turns /\ turn[Slot(turn)].pc = "free" /\ turn'[Slot(turn)] = NewTurn(label, "edit", {m})
            /\ \A u \in Turns: u # Slot(turn) => turn'[u] = turn[u]
        BY <1>o, <2>1, <3>1, <3>2
      <3>4. PICK s \in Turns: s = Slot(turn)
        BY <3>3
      <3>5. turn'[s].pc \in Apart /\ turn'[s].kind = "edit" /\ ~turn'[s].again /\ turn[s].pc = "free"
        BY <1>p, <3>2, <3>3, <3>4
      <3>6. \A u \in Turns \ {s}: turn'[u] = turn[u]
        BY <3>3, <3>4
      <3>7. \A u \in Turns: turn[u].pc \notin Asking
        BY <1>m, <2>1
      <3> QED BY <2>1, <2>2, <3>5, <3>6, <3>7, ApartBegins
    <2> QED BY <2>3, <2>4
  <1>34. ASSUME NEW t \in Turns, Append(t), \A u \in Turns: turn[u].pc # "finally" PROVE Order'
    <2>1. /\ turn[t].pc = "accept" /\ turn[t].pc \in Asks /\ turn[t].pc \in Main
          /\ turn[t].kind \in {"user", "edit", "queued", "switch"}
      BY <1>34, <1>d, <1>g DEF Append, At, EditsApart, Asks
    <2>2. tail' = "chat"
      <3>1. Forms(turn[t].kind) = {"message"}
        BY <1>c, <2>1 DEF Forms
      <3> QED BY <1>34, <3>1 DEF Append
    <2>3. Calm /\ stray' = stray
      BY <1>34, <1>e, <2>2 DEF Append, Calm, bounds
    <2>4. \A label: /\ [turn[t] EXCEPT !.pc = label, !.sends = {}].pc = label
                    /\ [turn[t] EXCEPT !.pc = label, !.sends = {}].kind = turn[t].kind
                    /\ [turn[t] EXCEPT !.pc = label, !.sends = {}].again = turn[t].again
      BY <1>a DEF Slots, Turn
    <2>5. CASE turn[t].kind \in Synthetic /\ phase' = "preparing" /\ turn' = [turn EXCEPT ![t].pc = "commit", ![t].sends = {}]
      <3>1. turn' = [turn EXCEPT ![t] = [turn[t] EXCEPT !.pc = "commit", !.sends = {}]]
        BY <2>5, <1>a DEF Slots, Turn
      <3>2. turn'[t].pc = "commit" /\ turn'[t].kind = turn[t].kind /\ turn'[t].again = turn[t].again
            /\ \A u \in Turns \ {t}: turn'[u] = turn[u]
        BY <1>a, <2>4, <3>1 DEF Slots
      <3>3. Goes(t, "commit")
        BY <1>34, <1>g, <1>j, <2>1, <2>3, <2>5, <3>2 DEF Goes, PhaseOf, Asks, Beginning
      <3> QED BY <2>3, <3>3, MainGoes
    <2>6. CASE turn[t].kind \notin Synthetic /\ phase' = phase /\ turn' = [turn EXCEPT ![t].pc = "accepted", ![t].sends = {}]
      <3>1. turn' = [turn EXCEPT ![t] = [turn[t] EXCEPT !.pc = "accepted", !.sends = {}]]
        BY <2>6, <1>a DEF Slots, Turn
      <3>2. turn'[t].pc = "accepted" /\ turn'[t].kind = turn[t].kind /\ turn'[t].again = turn[t].again
            /\ \A u \in Turns \ {t}: turn'[u] = turn[u]
        BY <1>a, <2>4, <3>1 DEF Slots
      <3>3. turn[t].kind # "switch"
        BY <2>6 DEF Synthetic
      <3>4. phase' = PhaseOf("accepted", turn[t].kind)
        BY <1>h, <2>1, <2>6 DEF PhaseOf, Beginning, Held
      <3>5. Goes(t, "accepted")
        BY <1>34, <1>g, <1>j, <2>1, <2>3, <2>6, <3>2, <3>3, <3>4 DEF Goes, Asks
      <3> QED BY <2>3, <3>5, MainGoes
    <2> QED BY <1>34, <2>5, <2>6 DEF Append
  <1>35. In({"flush", "finally"}) = {} => \A u \in Turns: turn[u].pc # "finally"
    BY DEF In
  <1>36. ASSUME NEW t \in Turns PROVE ~MidStream(t)
    BY <1>c DEF MidStream
  <1> QED BY <1>1, <1>2, <1>3, <1>4, <1>5, <1>7, <1>8, <1>9, <1>10, <1>11, <1>12,
             <1>13, <1>14, <1>15, <1>16, <1>18, <1>19, <1>20, <1>21, <1>22, <1>23,
             <1>24, <1>25, <1>26, <1>28, <1>29, <1>31, <1>32, <1>33, <1>34, <1>35, <1>36
             DEF Next, Step, Continue

\* The scenario never changes.
LEMMA SameScenario == [Next]_vars => events' = events
  <1> SUFFICES ASSUME [Next]_vars PROVE events' = events
    OBVIOUS
  <1>1. ASSUME NEW t \in Turns, Continue(t) PROVE events' = events
    BY <1>1 DEF Continue, Flush, Finally, bounds
  <1>2. ASSUME NEW t \in Turns,
               EditStops(t) \/ Stopped(t) \/ Truncate(t) \/ Append(t) \/ Accept(t) \/ Commit(t)
                 \/ StartCancels(t) \/ Start(t) \/ AbortArrives(t) \/ AbortSettles(t)
        PROVE  events' = events
    BY <1>2 DEF EditStops, Stopped, Truncate, Append, Accept, Commit, StartCancels, Start,
                AbortArrives, AbortSettles, bounds
  <1>3. ASSUME NEW t \in Turns, CommitNothing(t) \/ CommitFails(t) \/ StartDropped(t)
        PROVE  events' = events
    BY <1>3 DEF CommitNothing, CommitFails, StartDropped, GiveUp, bounds
  <1>4. ASSUME NEW t \in Turns,
               StreamEnds(t) \/ Complete(t) \/ Dispatch(t) \/ ErrorStands(t) \/ FailureSettles(t)
                 \/ MidStream(t) \/ Retry(t) \/ Reject(t) \/ StartFails(t) \/ StreamFails(t)
        PROVE  events' = events
    BY <1>4 DEF StreamEnds, Complete, Dispatch, ErrorStands, FailureSettles, MidStream, Retry,
                Reject, StartFails, StreamFails, bounds
  <1>5. ASSUME NEW m \in Messages, Send(m) \/ Enqueue(m) \/ Edit(m) PROVE events' = events
    BY <1>5 DEF Send, Enqueue, Edit, Count, bounds
  <1>6. CASE Interrupt \/ Interrupted \/ Resume \/ StrayArrives \/ StraySettles
    BY <1>6 DEF Interrupt, Interrupted, Resume, StrayArrives, StraySettles, Count, bounds
  <1>7. CASE Open \/ StartupCheck \/ Crash \/ UNCHANGED vars
    BY <1>7 DEF Open, StartupCheck, Crash, vars, Count, bounds
  <1> QED BY <1>1, <1>2, <1>3, <1>4, <1>5, <1>6, <1>7 DEF Next, Step, Continue

\* The invariant of every scenario.
OInv == Orderly => Order

\* In the order of an idle session, no turn is past its asking.
LEMMA OrderIdle == OInv => IdleMeansIdle
  <1> SUFFICES ASSUME Orderly, Order, phase = "idle", NEW t \in Turns
               PROVE  turn[t].pc \notin {"live"} \cup Beginning \cup (After \ {"aborting", "flush", "finally"})
    BY DEF OInv, IdleMeansIdle, In
  <1>1. \A u \in Turns: turn[u].pc \in Main => turn[u].pc \in Asks /\ turn[u].kind # "switch"
    BY DEF Order, Mains, PhaseOf, Main, Held, Beginning
  <1>2. turn[t].pc # "await"
    BY <1>1 DEF Order, HandsOver, Main, Asks, Beginning
  <1> QED BY <1>1, <1>2 DEF Main, Asks, Held, Beginning, After

\* There is order at first.
LEMMA InitOInv == Init => OInv
  BY DEF Init, OInv, Order, Mains, EditsApart, HandsOver, Outside, Main, Asks, Held, Beginning,
         Apart, Free, NewTurn

\* Every step keeps it.
LEMMA StepOInv == IInv /\ OInv /\ [Next]_vars => OInv'
  <1> SUFFICES ASSUME IInv, OInv, [Next]_vars, Orderly' PROVE Order'
    BY DEF OInv
  <1>1. Orderly
    BY SameScenario DEF Orderly
  <1> QED BY <1>1, StepOrder DEF OInv

\* Outside the scenarios in which the code lets one turn begin beside another, an idle
\* session runs no turn.
THEOREM IdleRunsNothing == Spec => []IdleMeansIdle
  BY InitIInv, StepIInv, InitOInv, StepOInv, OrderIdle, PTL DEF Spec

\* Nor does an edit cut the history there while a turn can still write to it.
THEOREM EditIsAlone == Spec => EditTruncatesAlone
  <1>1. IInv /\ OInv /\ [Next]_vars =>
          [Orderly => \A t \in Turns: Truncate(t) => In({"live"} \cup Beginning \cup After) = {}]_vars
    <2> SUFFICES ASSUME IInv, Order, [Next]_vars, NEW t \in Turns, Truncate(t), NEW u \in Turns
                 PROVE  turn[u].pc \notin {"live"} \cup Beginning \cup After
      BY DEF OInv, In
    <2>a. turn \in Slots
      BY TypeParts DEF IInv, Core
    <2>1. turn[t].pc = "truncate" /\ turn' = Goto(t, "accept")
      BY DEF Truncate, At
    <2>2. turn'[t].pc = "accept" /\ \A v \in Turns \ {t}: turn'[v] = turn[v]
      BY <2>a, <2>1, GotoRoles, Labels
    <2>3. turn[t].pc \in Main
      BY <2>1 DEF Main, Asks
    <2>4. \A v \in Turns: turn[v].pc \in Main => turn[v].pc = "truncate"
      BY <2>1, <2>3 DEF Order, Mains
    <2>5. turn[u].pc # "await"
      BY <2>4 DEF Order, HandsOver, Main, Asks, Beginning
    <2>6. turn[u].pc # "finally"
      <3>1. ASSUME NEW v \in Turns, Continue(v) PROVE FALSE
        <4>1. Finally(v)
          BY <2>4, <3>1 DEF Continue, Flush, At, Main, Held
        <4>2. turn[v].pc = "finally" /\ phase # "completing"
          BY <4>1 DEF Finally, At, Order, HandsOver
        <4>3. turn' = [turn EXCEPT ![v] = Free]
          BY <4>1, <4>2 DEF Finally, IdleFrom
        <4>4. turn'[v].pc = "free" /\ v # t
          BY <2>a, <2>1, <4>2, <4>3 DEF Slots, Free, NewTurn
        <4> QED BY <2>2, <4>2, <4>4
      <3>2. ~ UNCHANGED vars
        BY <2>1, <2>2 DEF vars
      <3> QED BY <3>1, <3>2 DEF Next, In
    <2> QED BY <2>4, <2>5, <2>6 DEF Main, Asks, Held, Beginning, After
  <1> QED BY InitIInv, StepIInv, InitOInv, StepOInv, <1>1, PTL DEF Spec, EditTruncatesAlone
====
