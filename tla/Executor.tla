------------------------------ MODULE Executor ------------------------------
(***************************************************************************)
(* HermesExecutor: turns answered by an agent process ("hermes acp") that  *)
(* is driven over stdio (AcpClient) and calls its tools back through an    *)
(* HTTP server the turn starts for it.  Many turns run in one process and  *)
(* share the pool of clients, the registry of tools and one TCP port:      *)
(* ENGINE_MCP_PORT.  Everything between two awaits is one step.            *)
(*                                                                         *)
(* A turn reads its configuration (the override, then the default),        *)
(* decrypts the key, registers the tools of the MCP server bound to its    *)
(* persona, listens on the port, takes a live client of the same           *)
(* configuration from the pool or starts a new one, and waits for the      *)
(* answer.  Whatever goes wrong once it is resolved, the answer is a plain *)
(* completion; a query that fails before that fails the turn.              *)
(*                                                                         *)
(* A client is named after the turn that created it.  One brokered tool    *)
(* stands for those of an MCP server; the tools of the engine itself are   *)
(* in ToolGateway.                                                         *)
(***************************************************************************)
EXTENDS ProviderConfig

CONSTANTS
    Turn,       \* turns routed to the agent
    PersonaOf,  \* turn -> persona
    TenantOf,   \* persona -> tenant
    Entry,      \* entries of the tenants' MCP catalogs: servers
    EntryTenant,\* entry -> tenant
    NameOf,     \* entry -> the name its brokered tool gets: mcp_<entry>_<tool>
    BoundTo,    \* persona -> the entry bound to it
    MaxPool,    \* LLM_MAX_CONFIGS_PER_TENANT
    Platform,   \* the platform's own model: no configuration, not pooled
    None,       \* no client, no turn, no server
    SaveWindow  \* bound: rows are written only while every turn is at one of these

ASSUME ExecutorAssumption ==
    /\ PersonaOf \in [Turn -> Scope]
    /\ TenantOf \in [Scope -> Scope]
    /\ MaxPool \in Nat \ {0}
    /\ None \notin Turn /\ None \notin Entry

(* A binding names an entry of its tenant, whose entries have names of     *)
(* their own; those of two tenants may share one.                          *)
ASSUME CatalogAssumption ==
    /\ EntryTenant \in [Entry -> Scope]
    /\ BoundTo \in [Scope -> Entry]
    /\ \A p \in Scope : EntryTenant[BoundTo[p]] = TenantOf[p]
    /\ \A e, f \in Entry : EntryTenant[e] = EntryTenant[f] /\ NameOf[e] = NameOf[f] => e = f

VARIABLES
    turn,       \* the turns
    client,     \* AcpClient and its process
    pool,       \* WARM_POOL: configuration -> client and lastUsedAt
    clock,      \* orders the values of lastUsedAt
    port,       \* the turn whose server holds ENGINE_MCP_PORT
    registry    \* toolRegistry: tool name -> the entry whose server it calls

execVars == <<turn, client, pool, clock, port, registry>>
vars == <<configVars, execVars>>

Turns ==
    [at : {"idle", "default", "resolved", "broker", "listen", "agent", "thin",
           "agent-answered", "thin-answered", "failed"},
     conf : Conf \cup {Platform}, torn : BOOLEAN, brokered : BOOLEAN, timedOut : BOOLEAN,
     text : SUBSET Turn, served : SUBSET (Entry \cup {None})]

Clients ==
    [stage : {"none", "initialize", "session", "prompt", "exited"}, dead : BOOLEAN,
     knows : BOOLEAN, asked : SUBSET Turn, listener : Turn \cup {None}]

Tool == {NameOf[e] : e \in Entry}
EntryOf(t) == BoundTo[PersonaOf[t]]
ToolOf(t) == NameOf[EntryOf(t)]
NoEntry == [client |-> None, at |-> 0]
Pooled == {c \in Conf : pool[c] # NoEntry}
-----------------------------------------------------------------------------
(* Mistakes the properties are there to catch; nothing below uses them.    *)
PortFreeOnAnyPort == TRUE
KeepWarm(k, c) == k
IdleByAge(conf) == TRUE
RejectNothing(tn, asked) == tn
-----------------------------------------------------------------------------
PortFree == port = None

(* kill(): SIGTERM, and the client counts as dead at once.                 *)
Killed(k, c) == [k EXCEPT ![c].dead = TRUE]

(* The way out of runTurn, for whatever reason.                            *)
AfterRunTurn(k, c) == Killed(k, c)

(* A turn leaves its try block, for good or for the thin completion: the   *)
(* timer is cleared, and its configuration is not used again.              *)
Leave(r, at) == [r EXCEPT !.at = at, !.conf = Platform, !.timedOut = FALSE]

(* 'exit' and 'error' reject every request that waits for the process.     *)
RejectPending(tn, asked) ==
    [t \in Turn |-> IF t \in asked /\ tn[t].at = "agent" THEN Leave(tn[t], "thin") ELSE tn[t]]

-----------------------------------------------------------------------------
(* resolveEffectiveConfig: two queries, the first of which may settle it.  *)
ReadOverride(t) ==
    LET p == PersonaOf[t] IN
    /\ turn[t].at = "idle"
    /\ turn' = [turn EXCEPT ![t] =
         IF EnabledRow(p) THEN [@ EXCEPT !.at = "resolved", !.conf = row[p].conf]
         ELSE [@ EXCEPT !.at = "default"]]
    /\ UNCHANGED <<configVars, client, pool, clock, port, registry>>

ReadDefault(t) ==
    LET d == TenantOf[PersonaOf[t]] IN
    /\ turn[t].at = "default"
    /\ turn' = [turn EXCEPT ![t] =
         [@ EXCEPT !.at = "resolved", !.torn = FALSE,
                   !.conf = IF EnabledRow(d) THEN row[d].conf ELSE Platform]]
    /\ UNCHANGED <<configVars, client, pool, clock, port, registry>>

(* Either query may fail, before any try block: the turn throws.           *)
ResolveFails(t) ==
    /\ turn[t].at \in {"idle", "default"}
    /\ turn' = [turn EXCEPT ![t].at = "failed"]
    /\ UNCHANGED <<configVars, client, pool, clock, port, registry>>

(* A key that cannot be decrypted leaves the platform's model.  The timer  *)
(* of maxExecutionMs starts here.                                          *)
Decrypt(t) ==
    /\ turn[t].at = "resolved"
    /\ \E ok \in BOOLEAN :
         turn' = [turn EXCEPT ![t].at = "broker", ![t].conf = IF ok THEN @ ELSE Platform]
    /\ UNCHANGED <<configVars, client, pool, clock, port, registry>>

(* tools/list of a server answers in time and in form, or it does not.     *)
Lists == BOOLEAN

(* The tools of a binding: none while it is off, else those in the cache,  *)
(* else what the server lists; a server that cannot be asked gives none.   *)
Discovered == {on /\ (cached \/ listed) : on, cached \in BOOLEAN, listed \in Lists}

(* loadBrokeredTools: the handler replaces what is registered under its    *)
(* name, and the name joins the allowlist of the turn.                     *)
LoadTools(t) ==
    /\ turn[t].at = "broker"
    /\ \E found \in Discovered :
         /\ turn' = [turn EXCEPT ![t] = [@ EXCEPT !.at = "listen", !.brokered = found]]
         /\ registry' = IF found THEN [registry EXCEPT ![ToolOf(t)] = EntryOf(t)] ELSE registry
    /\ UNCHANGED <<configVars, client, pool, clock, port>>

(* The entry whose lastUsedAt is smallest.                                 *)
Oldest == CHOOSE c \in Pooled : \A d \in Pooled : pool[c].at <= pool[d].at

Evicts == Cardinality(Pooled) >= MaxPool

(* A client in the pool that is alive is used again, by whoever resolved   *)
(* the same configuration.                                                 *)
Warm(conf) == conf \in Conf /\ pool[conf] # NoEntry /\ ~client[pool[conf].client].dead

(* sendPrompt on a client of the pool: the session must exist, and the     *)
(* updates go to the newcomer from now on.                                 *)
UseWarm(t) ==
    LET conf == turn[t].conf
        c == pool[conf].client
        ready == client[c].stage = "prompt" IN
    /\ pool' = [pool EXCEPT ![conf].at = clock + 1]
    /\ client' = IF ready
                 THEN [client EXCEPT ![c].asked = @ \cup {t}, ![c].listener = t] ELSE client
    /\ turn' = [turn EXCEPT ![t] = IF ready THEN [@ EXCEPT !.at = "agent"] ELSE Leave(@, "thin")]

(* new AcpClient, put into the pool when the turn has a configuration of   *)
(* its own, and runTurn: spawn and 'initialize' in the same step.  A turn  *)
(* whose time ran out before the spawn kills the process and throws.       *)
StartClient(t) ==
    LET conf == turn[t].conf
        late == turn[t].timedOut
        evicts == conf \in Conf /\ Evicts
        kept == IF evicts THEN Killed(client, pool[Oldest].client) ELSE client
        slots == IF evicts THEN [pool EXCEPT ![Oldest] = NoEntry] ELSE pool IN
    /\ pool' = IF conf \in Conf
               THEN [slots EXCEPT ![conf] = [client |-> t, at |-> clock + 1]] ELSE slots
    /\ client' = [kept EXCEPT ![t] =
         [stage |-> "initialize", dead |-> late, knows |-> turn[t].brokered,
          asked |-> IF late THEN {} ELSE {t}, listener |-> None]]
    /\ turn' = [turn EXCEPT ![t] = IF late THEN Leave(@, "thin") ELSE [@ EXCEPT !.at = "agent"]]

(* startMcpServer, and everything up to the next await.  A port in use is  *)
(* an error of listen(): the turn falls back.                              *)
Listen(t) ==
    /\ turn[t].at = "listen"
    /\ IF PortFree
       THEN /\ port' = t
            /\ clock' = clock + 1
            /\ IF Warm(turn[t].conf) THEN UseWarm(t) ELSE StartClient(t)
       ELSE /\ turn' = [turn EXCEPT ![t] = [Leave(@, "thin") EXCEPT !.brokered = FALSE]]
            /\ UNCHANGED <<client, pool, clock, port>>
    /\ UNCHANGED <<configVars, registry>>

-----------------------------------------------------------------------------
Running(c) == client[c].stage \in {"initialize", "session", "prompt"}

(* The process answers 'initialize' or 'session/new' and gets the next     *)
(* request.  What a killed process still answers changes nothing: send()   *)
(* drops the next request without a word, and the exit settles it.         *)
Respond(c) ==
    LET k == client[c] IN
    /\ k.stage \in {"initialize", "session"} /\ ~k.dead
    /\ client' = [client EXCEPT ![c] =
         IF k.stage = "initialize" THEN [k EXCEPT !.stage = "session"]
         ELSE [k EXCEPT !.stage = "prompt", !.listener = c]]
    /\ UNCHANGED <<configVars, turn, pool, clock, port, registry>>

(* It answers the prompt of a turn, or any request with an error.  runTurn *)
(* kills the client on its way out, sendPrompt does not.                   *)
Reply(c, t) ==
    /\ Running(c) /\ t \in client[c].asked
    /\ \/ client[c].stage = "prompt" /\ turn' = [turn EXCEPT ![t] = Leave(@, "agent-answered")]
       \/ turn' = [turn EXCEPT ![t] = Leave(@, "thin")]
    /\ LET answered == [client EXCEPT ![c].asked = @ \ {t}] IN
       client' = IF t = c THEN AfterRunTurn(answered, c) ELSE answered
    /\ UNCHANGED <<configVars, pool, clock, port, registry>>

(* A piece of the answer to prompt t goes to whoever listens now.          *)
Chunk(c, t) ==
    LET u == client[c].listener IN
    /\ client[c].stage = "prompt" /\ t \in client[c].asked
    /\ u # None /\ turn[u].at = "agent"
    /\ turn' = [turn EXCEPT ![u].text = @ \cup {t}]
    /\ UNCHANGED <<configVars, client, pool, clock, port, registry>>

(* The process calls the tool it was told of.  The request reaches the     *)
(* server that holds the port; it has to be on that server's allowlist,    *)
(* and the handler is the one registered under the name.  A process that   *)
(* was killed may call until it exits.                                     *)
CallTool(c) ==
    /\ client[c].stage = "prompt" /\ client[c].knows
    /\ port # None /\ turn[port].brokered /\ ToolOf(port) = ToolOf(c)
    /\ turn' = [turn EXCEPT ![c].served = @ \cup {registry[ToolOf(c)]}]
    /\ UNCHANGED <<configVars, client, pool, clock, port, registry>>

(* The process ends, of itself or after SIGTERM, or could not be started.  *)
Exit(c) ==
    /\ Running(c)
    /\ client' = [client EXCEPT ![c] =
         [@ EXCEPT !.stage = "exited", !.dead = TRUE, !.asked = {}, !.listener = None,
                   !.knows = FALSE]]
    /\ turn' = RejectPending(turn, client[c].asked)
    /\ UNCHANGED <<configVars, pool, clock, port, registry>>

(* maxExecutionMs has passed: abort() kills the client this turn started.  *)
Timeout(t) ==
    /\ turn[t].at \in {"broker", "listen", "agent"} /\ ~turn[t].timedOut
    /\ turn' = [turn EXCEPT ![t].timedOut = TRUE]
    /\ client' = IF Running(t) THEN Killed(client, t) ELSE client
    /\ UNCHANGED <<configVars, pool, clock, port, registry>>

(* server.stop(): asked for as the try block is left, done some time later *)
ClosePort(t) ==
    /\ port = t /\ turn[t].at # "agent"
    /\ port' = None
    /\ turn' = [turn EXCEPT ![t].brokered = FALSE]
    /\ UNCHANGED <<configVars, client, pool, clock, registry>>

(* fallbackComplete: the plain completion answers or throws.               *)
Complete(t) ==
    /\ turn[t].at = "thin"
    /\ \E end \in {"thin-answered", "failed"} : turn' = [turn EXCEPT ![t].at = end]
    /\ UNCHANGED <<configVars, client, pool, clock, port, registry>>

(* Nobody used the entry for IDLE_TTL_MS: a turn in progress is younger    *)
(* (AGENT_MAX_EXECUTION_MS, 20 seconds, against 15 minutes).               *)
Idle(conf) == \A t \in client[pool[conf].client].asked : turn[t].at # "agent"

(* reapPool kills and forgets dead entries and idle ones.                  *)
Reap ==
    LET old == {conf \in Pooled : client[pool[conf].client].dead \/ Idle(conf)} IN
    /\ old # {}
    /\ client' = [c \in Turn |-> [client[c] EXCEPT !.dead =
                     @ \/ \E conf \in old : pool[conf].client = c]]
    /\ pool' = [conf \in Conf |-> IF conf \in old THEN NoEntry ELSE pool[conf]]
    /\ UNCHANGED <<configVars, turn, clock, port, registry>>

(* A configuration is saved or deleted meanwhile.                          *)
ConfigStep ==
    /\ \A t \in Turn : turn[t].at \in SaveWindow
    /\ ConfigNext
    /\ turn' = [t \in Turn |->
         [turn[t] EXCEPT !.torn = @ \/ (turn[t].at = "default" /\ row' # row)]]
    /\ UNCHANGED <<client, pool, clock, port, registry>>

-----------------------------------------------------------------------------
Init ==
    /\ ConfigInit
    /\ turn = [t \in Turn |-> [at |-> "idle", conf |-> Platform, torn |-> FALSE, brokered |-> FALSE,
                               timedOut |-> FALSE, text |-> {}, served |-> {}]]
    /\ client = [c \in Turn |-> [stage |-> "none", dead |-> FALSE, knows |-> FALSE,
                                 asked |-> {}, listener |-> None]]
    /\ pool = [c \in Conf |-> NoEntry]
    /\ clock = 0
    /\ port = None
    /\ registry = [n \in Tool |-> None]

TurnStep(t) ==
    \/ ReadOverride(t) \/ ReadDefault(t) \/ ResolveFails(t) \/ Decrypt(t) \/ LoadTools(t)
    \/ Listen(t) \/ ClosePort(t) \/ Complete(t)

Next ==
    \/ \E t \in Turn : TurnStep(t) \/ Timeout(t)
    \/ \E c \in Turn : Respond(c) \/ CallTool(c) \/ Exit(c)
    \/ \E c, t \in Turn : Reply(c, t) \/ Chunk(c, t)
    \/ Reap
    \/ ConfigStep

(* The event loop runs what is ready, a timer fires, and a process ends    *)
(* after SIGTERM.  Nothing makes the agent answer.                         *)
Fairness ==
    /\ \A t \in Turn : WF_vars(TurnStep(t)) /\ WF_vars(Timeout(t))
    /\ \A c \in Turn : WF_vars(client[c].dead /\ Exit(c))

Spec == Init /\ [][Next]_vars /\ Fairness

-----------------------------------------------------------------------------
TypeOK ==
    /\ ConfigTypeOK
    /\ turn \in [Turn -> Turns]
    /\ client \in [Turn -> Clients]
    /\ pool \in [Conf -> [client : Turn \cup {None}, at : Nat]]
    /\ clock \in Nat
    /\ port \in Turn \cup {None}
    /\ registry \in [Tool -> Entry \cup {None}]

(* What a turn collects as its answer was written in reply to its own      *)
(* prompt, although clients, their listeners and the pool are shared       *)
(* (hermes-executor.ts:184-221, hermes-adapter.ts:154).  Nothing but the   *)
(* one port keeps two turns from one client.                               *)
OwnAnswer == \A t \in Turn : turn[t].text \subseteq {t}

(* A tool the agent of a turn calls is the one of the server bound to the  *)
(* turn's persona, although handlers are registered process-wide by name   *)
(* (hermes-executor.ts:426, tool-gateway.ts:57), unless another tenant has *)
(* an entry of the very same name: those the code does not tell apart.     *)
Namesake(e, f) == NameOf[e] = NameOf[f] /\ EntryTenant[e] # EntryTenant[f]

OwnTools ==
    \A t \in Turn : \A e \in turn[t].served :
        e = EntryOf(t) \/ (e \in Entry /\ Namesake(e, EntryOf(t)))

OwnWork == OwnAnswer /\ OwnTools

(* A live agent belongs to a turn that is waiting for it: no path, whether *)
(* answer, error, abort or eviction, leaves a process behind               *)
(* (hermes-adapter.ts:138).                                                *)
NoOrphans == \A c \in Turn : Running(c) /\ ~client[c].dead => turn[c].at = "agent"

(* The pool keeps to its limit (hermes-executor.ts:212).                   *)
PoolBounded == Cardinality(Pooled) <= MaxPool

AgentsAccounted == NoOrphans /\ PoolBounded

(* A client that works for a turn is not taken from it by another turn's   *)
(* eviction or by the reaper: only its own answer, time limit or death     *)
(* ends it (hermes-executor.ts:323-346).                                   *)
OnlyOwnerKills ==
    [][\A c \in Turn : Running(c) /\ ~client[c].dead /\ client'[c].dead
           => turn'[c].at # "agent" \/ turn'[c].timedOut \/ client'[c].stage = "exited"]_vars

(* With no write between its two reads, a turn resolves what an            *)
(* administrator would call effective: the enabled override, or else the   *)
(* enabled default, or else the platform; and a save that nobody overtook  *)
(* replaced the very version it expected (resolution.ts:71-114,            *)
(* provider-config.service.ts:230-256).                                    *)
Effective(p) ==
    LET offers == {s \in {p, TenantOf[p]} : row[s] # NoRow /\ row[s].enabled} IN
    IF p \in offers THEN row[p].conf
    ELSE IF offers # {} THEN row[TenantOf[p]].conf ELSE Platform

ConfigIsEffective ==
    [][/\ \A t \in Turn :
            turn[t].at \in {"idle", "default"} /\ turn'[t].at = "resolved" /\ ~turn[t].torn
                => turn'[t].conf = Effective(PersonaOf[t])
       /\ \A w \in Saver :
            save[w].at = "update" /\ save'[w].at = "fetch" /\ ~save[w].raced
            /\ save[w].expected # AnyVersion
                => row[save[w].scope].version = save[w].expected]_vars

(* Every turn that starts ends: with the agent's answer, a plain           *)
(* completion, or that completion's error; and the port is free again.     *)
EveryTurnEnds ==
    \A t \in Turn :
        turn[t].at # "idle" ~>
            turn[t].at \in {"agent-answered", "thin-answered", "failed"} /\ port # t

-----------------------------------------------------------------------------
(* What a document says and the code does not do: the names of tools tell  *)
(* all servers apart, and a tenant's agent uses its tenant's entries only  *)
(* (specs/014, FR-010 and FR-008).                                         *)
OwnServers == \A t \in Turn : turn[t].served \subseteq {EntryOf(t)}

(* A save that names the version it is about replaces that version or is   *)
(* refused (provider-config.service.ts:40).  The version is compared after *)
(* the SELECT, and the UPDATE asks for the row's id only.                  *)
OptimisticSaves ==
    [][\A w \in Saver :
         save[w].at = "update" /\ row' # row /\ save'[w].at = "fetch"
         /\ save[w].expected # AnyVersion
             => row[save[w].scope].version = save[w].expected]_vars
=============================================================================
