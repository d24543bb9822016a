------------------------------ MODULE OAuthFlows ------------------------------
(***************************************************************************)
(* node/utils/oauthFlowManager.ts for one flow id: flows that replace each *)
(* other under the id, the browser's callback, the timer of each flow, the *)
(* waiters with timeouts of their own, and the result kept for late ones.  *)
(***************************************************************************)
EXTENDS Naturals

CONSTANTS
    MaxFlows,       \* bound of the model: flows registered under the id
    FlowWaiters

ASSUME MaxFlowsAssumption == MaxFlows \in Nat

Flows == 1 .. MaxFlows
NoFlow == 0

VARIABLES
    registered,   \* how many flows were registered
    current,      \* flows.get(id): a flow, or NoFlow
    outcome,      \* what the deferred of each flow resolved to, "none" before
    armed,        \* flows whose timeoutHandle is armed
    listening,    \* flows whose loopback server listens
    exchanging,   \* flows whose callback arrived and whose code is being exchanged
    completed,    \* completed.get(id): an outcome, "none" without an entry
    waits,        \* per waiter the flow it awaits, or NoFlow
    answers       \* what each waiter was told last

flowVars == <<registered, current, outcome, armed, listening, exchanging, completed, waits, answers>>

FlowInit ==
    /\ registered = 0 /\ current = NoFlow
    /\ outcome = [f \in Flows |-> "none"]
    /\ armed = {} /\ listening = {} /\ exchanging = {}
    /\ completed = "none"
    /\ waits = [w \in FlowWaiters |-> NoFlow]
    /\ answers = [w \in FlowWaiters |-> "none"]

Resolved(f, r) == [outcome EXCEPT ![f] = IF @ = "none" THEN r ELSE @]

\* A mutant of the next definition: the flow that is replaced is dropped without an outcome.
RegisterOver ==
    /\ registered < MaxFlows
    /\ registered' = registered + 1
    /\ current' = registered'
    /\ armed' = (armed \ {current}) \cup {registered'}
    /\ listening' = (listening \ {current}) \cup {registered'}
    /\ completed' = "none"
    /\ UNCHANGED <<outcome, exchanging, waits, answers>>

\* register(): the flow it replaces is resolved with an error, its timer and server are stopped.
RegisterFlow ==
    /\ registered < MaxFlows
    /\ registered' = registered + 1
    /\ current' = registered'
    /\ armed' = (armed \ {current}) \cup {registered'}
    /\ listening' = (listening \ {current}) \cup {registered'}
    /\ outcome' = IF current = NoFlow THEN outcome ELSE Resolved(current, "error")
    /\ completed' = "none"
    /\ UNCHANGED <<exchanging, waits, answers>>

\* finish(id, r): whichever flow is registered under the id by now.
FinishFlow(r) ==
    IF current = NoFlow THEN UNCHANGED <<current, outcome, armed, listening, completed>>
    ELSE /\ current' = NoFlow
         /\ outcome' = Resolved(current, r)
         /\ armed' = armed \ {current} /\ listening' = listening \ {current}
         /\ completed' = r

CallbackArrives(f) ==
    /\ f \in listening /\ f \notin exchanging
    /\ exchanging' = exchanging \cup {f}
    /\ UNCHANGED <<registered, current, outcome, armed, listening, completed, waits, answers>>

\* The service exchanged the code that came with the callback, and finishes the id.
ExchangeEnds(f, r) ==
    /\ f \in exchanging
    /\ exchanging' = exchanging \ {f}
    /\ FinishFlow(r)
    /\ UNCHANGED <<registered, waits, answers>>

\* The timer of the flow fires, or the flow is cancelled, or the service is disposed.
FlowTimesOut(f) == f \in armed /\ FinishFlow("error") /\ UNCHANGED <<registered, exchanging, waits, answers>>
CancelFlow == current # NoFlow /\ FinishFlow("error") /\ UNCHANGED <<registered, exchanging, waits, answers>>

\* waitFor(): the registered flow is awaited, a completed one answers at once.
WaitForFlow(w) ==
    /\ waits[w] = NoFlow
    /\ waits' = [waits EXCEPT ![w] = current]
    /\ answers' = [answers EXCEPT ![w] = IF current # NoFlow THEN "none"
                                         ELSE IF completed # "none" THEN completed ELSE "error"]
    /\ UNCHANGED <<registered, current, outcome, armed, listening, exchanging, completed>>

\* The race of waitFor() is over; after an error the waiter finishes the id as well.
WaitEnds(w, r) ==
    /\ waits[w] # NoFlow
    /\ outcome[waits[w]] \in {r, "none"} /\ (outcome[waits[w]] = "none" => r = "error")
    /\ waits' = [waits EXCEPT ![w] = NoFlow]
    /\ answers' = [answers EXCEPT ![w] = r]
    /\ IF r = "error" THEN FinishFlow(r) ELSE UNCHANGED <<current, outcome, armed, listening, completed>>
    /\ UNCHANGED <<registered, exchanging>>

\* The TTL of the completed entry.
CompletedExpires ==
    /\ completed # "none"
    /\ completed' = "none"
    /\ UNCHANGED <<registered, current, outcome, armed, listening, exchanging, waits, answers>>

FlowNext ==
    \/ RegisterFlow \/ CancelFlow \/ CompletedExpires
    \/ \E f \in Flows : CallbackArrives(f) \/ FlowTimesOut(f) \/ \E r \in {"ok", "error"} : ExchangeEnds(f, r)
    \/ \E w \in FlowWaiters : WaitForFlow(w) \/ \E r \in {"ok", "error"} : WaitEnds(w, r)

FlowSpec == FlowInit /\ [][FlowNext]_flowVars

-----------------------------------------------------------------------------
\* A flow that is no longer registered has left nothing behind, whatever raced to end it: its
\* deferred is resolved (so that every waiter returns), its timer is cleared and its server closed.
FlowsAreSettled ==
    /\ \A f \in 1 .. registered : f # current => outcome[f] # "none"
    /\ armed = listening /\ armed = (IF current = NoFlow THEN {} ELSE {current})

\* A flow ends by its own callback, timer or waiter.  The waiter of a replaced flow, which is told
\* "replaced", finishes the flow that replaced it.
OwnWaitersOnly ==
    [][\A w \in FlowWaiters : waits[w] # NoFlow /\ waits'[w] = NoFlow /\ current' # current
          => waits[w] = current]_flowVars
====
