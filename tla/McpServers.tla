------------------------------ MODULE McpServers ------------------------------
(***************************************************************************)
(* node/services/mcpServerManager.ts for one workspace: the streams of the *)
(* workspace ask for tools (getToolsForWorkspace) before they begin, which *)
(* starts, restarts or retries the MCP servers; a running stream holds a   *)
(* lease; idle cleanup and the removal of the workspace stop them.  A step *)
(* starts one server or closes one, which the code awaits in a loop.  An   *)
(* entry of workspaceServers is an object that calls go on using after it  *)
(* has left the Map, so entries are numbered.                              *)
(***************************************************************************)
EXTENDS Naturals, FiniteSets

CONSTANTS
    McpNames,      \* the servers, all enabled
    McpCalls,      \* streams of the workspace, one after the other or preparing side by side
    MaxInstances, MaxEntries, MaxConfigs

ASSUME McpBoundsAssumption == MaxInstances \in Nat /\ MaxEntries \in Nat /\ MaxConfigs \in Nat

VARIABLES
    mcpConfig,     \* what the signature is computed from
    mcpEntry,      \* workspaceServers.get(): an entry, or 0
    entries,       \* configSignature, instances, timedOutServerNames and retryingTimedOutServerNames
    server,        \* each instance: its server and "none", "open", "dead" (it closed by itself) or "closed"
    mcpCall,       \* each stream: where it is, and the local variables of its call
    stopping,      \* stopServers() by the idle check or the removal: entry and what it has closed
    mcpRemoved,    \* the workspace is removed: no new message is taken
    clashed        \* ghost: calls or a removal have met where the code does not expect it, see Clash

mcpVars == <<mcpConfig, mcpEntry, entries, server, mcpCall, stopping, mcpRemoved, clashed>>

Instances == 1 .. MaxInstances
NoEntry == [sig |-> 0, has |-> {}, timedOut |-> {}, retrying |-> {}]
NoMcpCall == [at |-> "none", sig |-> 0, entry |-> 0, done |-> {}, names |-> {}, todo |-> {}, got |-> {},
              timedOut |-> {}, tools |-> {}]
NotStopping == [entry |-> 0, done |-> {}]

McpInit ==
    /\ mcpConfig = 1 /\ mcpEntry = 0
    /\ entries = [e \in 1 .. MaxEntries |-> NoEntry]
    /\ server = [i \in Instances |-> [name |-> "none", state |-> "none"]]
    /\ mcpCall = [c \in McpCalls |-> NoMcpCall]
    /\ stopping = NotStopping /\ mcpRemoved = FALSE /\ clashed = FALSE

NamesOf(I) == {server[i].name : i \in I}
StateOf(i) == server[i].state
Dead(e) == {i \in entries[e].has : StateOf(i) # "open"}
Leased == \E c \in McpCalls : mcpCall[c].at = "streaming"

\* instance.close() marks the client closed before it awaits anything.
Closed(I) == [i \in Instances |-> IF i \in I THEN [server[i] EXCEPT !.state = "closed"] ELSE server[i]]

\* The for loop of stopServers() over the instances of an entry: the first, or the next, if any.
FirstOf(I) == IF I = {} THEN {{}} ELSE {{i} : i \in I}

-----------------------------------------------------------------------------
(* What happens to the servers and the configuration *)

ConfigChanges ==
    /\ mcpConfig < MaxConfigs
    /\ mcpConfig' = mcpConfig + 1
    /\ UNCHANGED <<mcpEntry, entries, server, mcpCall, stopping, mcpRemoved, clashed>>

ServerDies(i) ==
    /\ StateOf(i) = "open"
    /\ server' = [server EXCEPT ![i].state = "dead"]
    /\ UNCHANGED <<mcpConfig, mcpEntry, entries, mcpCall, stopping, mcpRemoved, clashed>>

-----------------------------------------------------------------------------
(* stopServers() *)

\* The entry leaves the Map at once, then its instances are closed one after the other.
BeginStop ==
    /\ stopping = NotStopping
    /\ \E I \in FirstOf(entries[mcpEntry].has) :
           stopping' = [entry |-> mcpEntry, done |-> I] /\ server' = Closed(I)
    /\ mcpEntry' = 0

\* A mutant of the next definition: the lease is not looked at.
StopsLeased ==
    /\ mcpEntry # 0 /\ entries[mcpEntry].has # {}
    /\ \A c \in McpCalls : mcpCall[c].at \in {"none", "streaming"}
    /\ BeginStop
    /\ UNCHANGED <<mcpConfig, entries, mcpCall, mcpRemoved, clashed>>

\* cleanupIdleServers(): nothing has used the servers for ten minutes, which a call that is in
\* progress, or a stream that has its tools and is about to begin, does not take.
IdleCleanup ==
    /\ mcpEntry # 0 /\ entries[mcpEntry].has # {}
    /\ \A c \in McpCalls : mcpCall[c].at = "none"
    /\ BeginStop
    /\ UNCHANGED <<mcpConfig, entries, mcpCall, mcpRemoved, clashed>>

\* WorkspaceService.remove(), after the stream was stopped or the wait for that has timed out; a call
\* may still be starting servers.
Removal ==
    /\ ~mcpRemoved
    /\ mcpRemoved' = TRUE
    /\ IF mcpEntry = 0 THEN UNCHANGED <<mcpEntry, server, stopping>> ELSE BeginStop
    /\ clashed' = (clashed \/ \E c \in McpCalls : mcpCall[c].at \in {"clearing", "restarting", "streaming"})
    /\ UNCHANGED <<mcpConfig, entries, mcpCall>>

StopsNext ==
    /\ stopping # NotStopping
    /\ LET left == entries[stopping.entry].has \ stopping.done
       IN  IF left = {} THEN stopping' = NotStopping /\ UNCHANGED server
           ELSE \E I \in FirstOf(left) :
                    /\ stopping' = [stopping EXCEPT !.done = @ \cup I]
                    /\ server' = Closed(I)
    /\ UNCHANGED <<mcpConfig, mcpEntry, entries, mcpCall, mcpRemoved, clashed>>

-----------------------------------------------------------------------------
(* getToolsForWorkspace() *)

\* Stages in which a call replaces instances.  Two of them at a time, or one while another stream
\* is about to begin with the tools it got, are what the code does not provide for: "clashed".
\* From then on a server may be lost, or closed under a stream.
Replaces == {"clearing", "restarting", "stopping", "starting"}
Clash == clashed' = (clashed \/ \E c, d \in McpCalls : /\ c # d /\ mcpCall'[c].at \in Replaces
                                                       /\ mcpCall'[d].at \in Replaces \cup {"got"})

Set(c, r) == mcpCall' = [mcpCall EXCEPT ![c] = r] /\ Clash
Got(c, I) == Set(c, [NoMcpCall EXCEPT !.at = "got", !.tools = I])
Starts(c) == Set(c, [NoMcpCall EXCEPT !.at = "starting", !.sig = mcpCall[c].sig, !.todo = McpNames])

\* The configuration is read, which takes several awaits.
AskForTools(c) ==
    /\ mcpCall[c].at = "none" /\ ~mcpRemoved
    /\ Set(c, [NoMcpCall EXCEPT !.at = "look", !.sig = mcpConfig])
    /\ UNCHANGED <<mcpConfig, mcpEntry, entries, server, stopping, mcpRemoved>>

Current(c) == mcpEntry # 0 /\ entries[mcpEntry].sig = mcpCall[c].sig /\ Dead(mcpEntry) = {}

\* The cached servers; those that timed out are tried again, by one call at a time.
UseCached(c) ==
    /\ mcpCall[c].at = "look" /\ Current(c)
    /\ LET e == entries[mcpEntry]
           retry == e.timedOut \ (NamesOf(e.has) \cup e.retrying)
       IN  IF retry = {} THEN Got(c, e.has) /\ UNCHANGED entries
           ELSE /\ entries' = [entries EXCEPT ![mcpEntry].retrying = @ \cup retry]
                /\ Set(c, [mcpCall[c] EXCEPT !.at = "retrying", !.entry = mcpEntry, !.names = retry, !.todo = retry])
    /\ UNCHANGED <<mcpConfig, mcpEntry, server, stopping, mcpRemoved>>

\* With a stream running only the servers that died are replaced, and a restart is put off.
DeferRestart(c) ==
    /\ mcpCall[c].at = "look" /\ mcpEntry # 0 /\ ~Current(c) /\ Leased
    /\ IF Dead(mcpEntry) = {} THEN Got(c, entries[mcpEntry].has) /\ UNCHANGED <<entries, server>>
       ELSE \E i \in Dead(mcpEntry) :
                /\ entries' = [entries EXCEPT ![mcpEntry].has = @ \ {i}]
                /\ server' = Closed({i})
                /\ Set(c, [mcpCall[c] EXCEPT !.at = "clearing", !.entry = mcpEntry, !.names = NamesOf(Dead(mcpEntry)),
                                             !.todo = NamesOf(Dead(mcpEntry)) \ {server[i].name}])
    /\ UNCHANGED <<mcpConfig, mcpEntry, stopping, mcpRemoved>>

\* The names were collected before; by now the entry may hold another instance, or none.
ClearNext(c) ==
    LET call == mcpCall[c]
        at(n) == {i \in entries[call.entry].has : server[i].name = n}
    IN  /\ call.at = "clearing"
        /\ IF call.todo = {}
           THEN Set(c, [call EXCEPT !.at = "restarting", !.todo = call.names]) /\ UNCHANGED <<entries, server>>
           ELSE \E n \in call.todo :
                    /\ entries' = [entries EXCEPT ![call.entry].has = @ \ at(n)]
                    /\ server' = Closed(at(n))
                    /\ Set(c, [call EXCEPT !.todo = @ \ {n}])
        /\ UNCHANGED <<mcpConfig, mcpEntry, stopping, mcpRemoved>>

\* stopServers() and then all servers anew.
RestartAll(c) ==
    /\ mcpCall[c].at = "look" /\ ~Current(c) /\ (mcpEntry = 0 \/ ~Leased)
    /\ IF mcpEntry = 0
       THEN Starts(c) /\ UNCHANGED server
       ELSE \E I \in FirstOf(entries[mcpEntry].has) :
                /\ Set(c, [mcpCall[c] EXCEPT !.at = "stopping", !.entry = mcpEntry, !.done = I])
                /\ server' = Closed(I)
    /\ mcpEntry' = 0
    /\ UNCHANGED <<mcpConfig, entries, stopping, mcpRemoved>>

RestartStops(c) ==
    LET call == mcpCall[c]
        left == entries[call.entry].has \ call.done
    IN  /\ call.at = "stopping"
        /\ IF left = {} THEN Starts(c) /\ UNCHANGED server
           ELSE \E I \in FirstOf(left) : Set(c, [call EXCEPT !.done = @ \cup I]) /\ server' = Closed(I)
        /\ UNCHANGED <<mcpConfig, mcpEntry, entries, stopping, mcpRemoved>>

Unused == {i \in Instances : StateOf(i) = "none"}

\* startSingleServer(): a server starts, fails or times out.
StartOne(c, n) ==
    LET call == mcpCall[c]
        rest == [call EXCEPT !.todo = @ \ {n}]
    IN  /\ call.at \in {"retrying", "restarting", "starting"} /\ n \in call.todo
        /\ \/ /\ Unused # {}
              /\ LET i == CHOOSE j \in Unused : \A k \in Unused : j <= k
                 IN  /\ server' = [server EXCEPT ![i] = [name |-> n, state |-> "open"]]
                     /\ Set(c, [rest EXCEPT !.got = @ \cup {i}])
           \/ /\ UNCHANGED server
              /\ \/ Set(c, rest)
                 \/ Set(c, [rest EXCEPT !.timedOut = @ \cup {n}])
        /\ UNCHANGED <<mcpConfig, mcpEntry, entries, stopping, mcpRemoved>>

\* What an entry holds once instances are set by name.
With(has, got) == {i \in has : server[i].name \notin NamesOf(got)} \cup got

\* A mutant of the next definition: the retried servers go to the entry that the call knows.
KeepRetried(c) ==
    LET call == mcpCall[c]
        e == entries[call.entry]
        has == With(e.has, call.got)
    IN  /\ call.at = "retrying" /\ call.todo = {}
        /\ entries' = [entries EXCEPT ![call.entry] =
                          [e EXCEPT !.has = has, !.retrying = @ \ call.names,
                                    !.timedOut = (@ \ (call.names \cup NamesOf(has))) \cup call.timedOut]]
        /\ Got(c, has)
        /\ UNCHANGED <<mcpConfig, mcpEntry, server, stopping, mcpRemoved>>

\* The retried servers join the entry, unless it was replaced in the meantime.
RetryEnds(c) ==
    LET call == mcpCall[c]
        e == entries[call.entry]
        has == With(e.has, call.got)
    IN  /\ call.at = "retrying" /\ call.todo = {}
        /\ IF mcpEntry = call.entry
           THEN /\ entries' = [entries EXCEPT ![call.entry] =
                                  [e EXCEPT !.has = has, !.retrying = @ \ call.names,
                                            !.timedOut = (@ \ (call.names \cup NamesOf(has))) \cup call.timedOut]]
                /\ Got(c, has) /\ UNCHANGED server
           ELSE /\ \E I \in FirstOf(call.got) : /\ server' = Closed(I)
                                                /\ Set(c, [call EXCEPT !.at = "discarding", !.got = @ \ I])
                /\ UNCHANGED entries
        /\ UNCHANGED <<mcpConfig, mcpEntry, stopping, mcpRemoved>>

\* ... then the call begins anew with the configuration of that time.
DiscardNext(c) ==
    LET call == mcpCall[c]
    IN  /\ call.at = "discarding"
        /\ IF call.got # {}
           THEN /\ \E I \in FirstOf(call.got) : server' = Closed(I) /\ Set(c, [call EXCEPT !.got = @ \ I])
                /\ UNCHANGED entries
           ELSE /\ entries' = [entries EXCEPT ![call.entry].retrying = @ \ call.names]
                /\ Set(c, [NoMcpCall EXCEPT !.at = "look", !.sig = mcpConfig])
                /\ UNCHANGED server
        /\ UNCHANGED <<mcpConfig, mcpEntry, stopping, mcpRemoved>>

\* The dead servers' successors join the entry that the call looked at.
RestartedJoin(c) ==
    LET call == mcpCall[c]
        e == entries[call.entry]
        has == With(e.has, call.got)
    IN  /\ call.at = "restarting" /\ call.todo = {}
        /\ entries' = [entries EXCEPT ![call.entry] =
                          [e EXCEPT !.has = has, !.timedOut = (@ \ NamesOf(has)) \cup call.timedOut]]
        /\ Got(c, has)
        /\ UNCHANGED <<mcpConfig, mcpEntry, server, stopping, mcpRemoved>>

\* workspaceServers.set(), whatever entry is there.
AllStarted(c) ==
    LET call == mcpCall[c]
        free == {e \in 1 .. MaxEntries : entries[e].sig = 0}
    IN  /\ call.at = "starting" /\ call.todo = {} /\ free # {}
        /\ LET e == CHOOSE x \in free : \A y \in free : x <= y
           IN  /\ entries' = [entries EXCEPT ![e] = [sig |-> call.sig, has |-> call.got, timedOut |-> call.timedOut,
                                                     retrying |-> {}]]
               /\ mcpEntry' = e
        /\ Got(c, call.got)
        /\ UNCHANGED <<mcpConfig, server, stopping, mcpRemoved>>

-----------------------------------------------------------------------------
(* The stream *)

\* A stream takes its lease when no other stream of the workspace runs; it may also not begin, as
\* after the removal, which aborts the starts that are pending.
StreamBegins(c) ==
    /\ mcpCall[c].at = "got" /\ ~Leased /\ ~mcpRemoved
    /\ Set(c, [mcpCall[c] EXCEPT !.at = "streaming"])
    /\ UNCHANGED <<mcpConfig, mcpEntry, entries, server, stopping, mcpRemoved>>

StreamOver(c) ==
    /\ mcpCall[c].at \in {"got", "streaming"}
    /\ Set(c, NoMcpCall)
    /\ UNCHANGED <<mcpConfig, mcpEntry, entries, server, stopping, mcpRemoved>>

McpNext ==
       \/ ConfigChanges \/ IdleCleanup \/ Removal \/ StopsNext
       \/ \E i \in Instances : ServerDies(i)
       \/ \E c \in McpCalls :
             \/ AskForTools(c) \/ UseCached(c) \/ DeferRestart(c) \/ ClearNext(c) \/ RestartAll(c)
             \/ RestartStops(c) \/ RetryEnds(c) \/ DiscardNext(c) \/ RestartedJoin(c) \/ AllStarted(c)
             \/ StreamBegins(c) \/ StreamOver(c)
             \/ \E n \in McpNames : StartOne(c, n)

McpSpec == McpInit /\ [][McpNext]_mcpVars

-----------------------------------------------------------------------------
\* Every open server can still be closed: it is in the workspace's entry, a call that is starting
\* servers has it, or a stop that has begun has yet to come to it.
Owned ==
    \A i \in Instances : StateOf(i) = "open" =>
        \/ mcpEntry # 0 /\ i \in entries[mcpEntry].has
        \/ stopping # NotStopping /\ i \in entries[stopping.entry].has
        \/ \E c \in McpCalls : \/ i \in mcpCall[c].got
                               \/ mcpCall[c].at = "stopping" /\ i \in entries[mcpCall[c].entry].has

\* Until calls clash no server is lost, whatever dies, times out or is reconfigured.  In particular a
\* retry that ends after its entry was replaced leaves nothing behind ("so we do not leak stale tools
\* or lose track of them for cleanup", line 1028).
NoServerLost == ~clashed => Owned

\* Until then a running stream's healthy clients are not closed under it: not by an idle check, and
\* not by the next stream's call, although the configuration has changed or a server has died
\* (lines 624, 1104).  A removal closes them that has waited for the stream in vain.
LeaseProtects ==
    [][~clashed /\ mcpRemoved' = mcpRemoved =>
           \A i \in Instances : StateOf(i) = "open" /\ server'[i].state = "closed" =>
               \A c \in McpCalls : mcpCall[c].at = "streaming" => i \notin mcpCall[c].tools]_mcpVars
===============================================================================
