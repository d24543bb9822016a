--------------------------------- MODULE Lock ---------------------------------
(***************************************************************************)
(* What a caller of a lock of node/utils/concurrency may rely on, whatever *)
(* the queueing behind it: at most one caller is inside, and a caller gets *)
(* inside only while nobody is.  AsyncMutex and MutexMap implement it.     *)
(***************************************************************************)
CONSTANT Callers

VARIABLES
    holder,   \* the callers inside: none or one
    wanting   \* the callers that asked and still wait

lockVars == <<holder, wanting>>

Init == holder = {} /\ wanting = {}

\* Asking while somebody is inside.
Ask(c) ==
    /\ c \notin holder \cup wanting
    /\ wanting' = wanting \cup {c}
    /\ UNCHANGED holder

\* Getting inside, at once or after waiting.
Enter(c) ==
    /\ holder = {}
    /\ holder' = {c}
    /\ wanting' = wanting \ {c}

Leave(c) ==
    /\ holder = {c}
    /\ holder' = {}
    /\ UNCHANGED wanting

Next == \E c \in Callers : Ask(c) \/ Enter(c) \/ Leave(c)

Spec == Init /\ [][Next]_lockVars
====
