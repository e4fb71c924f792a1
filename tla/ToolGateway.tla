---------------------------- MODULE ToolGateway ----------------------------
(***************************************************************************)
(* The engine MCP server and the tool gateway behind it: every tool call   *)
(* of an agent passes the allow-list, the confirmation gate and, for a     *)
(* write, the protocol reserve / run / finalise, each step a transaction   *)
(* of its own, with the external effect between them.                      *)
(*                                                                         *)
(* A key stands for (tenant, idempotency key).  Agents choose keys, so two *)
(* calls may carry one key: a retry after a timeout, or a different tool.  *)
(* A fault is a failed transaction, which may have committed all the same, *)
(* or a crash of the server.                                               *)
(***************************************************************************)
EXTENDS Naturals

CONSTANTS
  Calls, Keys, Tools,
  Registered,  \* tools with a handler in the registry
  Writes,      \* registered as isWriteAction
  Allowed,     \* ids in the persona's allow-list
  MayWrite,    \* entries with isWrite
  Confirmed,   \* entries with requiresConfirmation
  MaxFaults    \* bound on faults

ASSUME GatewayAssumption ==
  /\ Registered \subseteq Tools /\ Writes \subseteq Tools /\ Allowed \subseteq Tools
  /\ MayWrite \subseteq Tools /\ Confirmed \subseteq Tools
  /\ MaxFaults \in Nat

VARIABLES
  tool,    \* what a call asks for
  key,     \* and under which key
  pc,      \* where the call is; its reply at the end
  audit,   \* action_audit.status of the key's row, "none" without a row
  author,  \* the calls that inserted the rows
  ran,     \* the calls whose handler took effect
  denials, \* the calls with a 'denied' audit row
  faults

inputs == <<tool, key>>
gatewayVars == <<tool, key, pc, audit, author, ran, denials, faults>>

Active  == {"called", "reading", "noting", "reserving", "running", "ran", "threw"}
Replies == {"denied", "preview", "ok", "failed", "conflict", "error", "gone"}

GatewayTypeOK ==
  /\ tool \in [Calls -> Tools]
  /\ key \in [Calls -> Keys]
  /\ pc \in [Calls -> {"new"} \cup Active \cup Replies]
  /\ audit \in [Keys -> {"none", "pending", "ok", "failed"}]
  /\ author \subseteq Calls
  /\ ran \subseteq Calls
  /\ denials \subseteq Calls
  /\ faults \in Nat

GatewayInit ==
  /\ tool \in [Calls -> Tools]
  /\ key \in [Calls -> Keys]
  /\ pc = [c \in Calls |-> "new"]
  /\ audit = [k \in Keys |-> "none"]
  /\ author = {} /\ ran = {} /\ denials = {}
  /\ faults = 0

-----------------------------------------------------------------------------
(* Mistakes the properties are there to catch; nothing below uses them.    *)

FreeUnlessClosed(k)  == audit[k] \in {"none", "pending"}
AlwaysSuccess(k)     == "ok"
DenyByKey(c)         == denials' = denials \cup {key[c]}
RecordOnlyAtEnd(c, s) ==
  audit' = IF s = "pending" THEN audit ELSE [audit EXCEPT ![key[c]] = s]

-----------------------------------------------------------------------------

Fault == faults < MaxFaults /\ faults' = faults + 1
Goto(c, l) == pc' = [pc EXCEPT ![c] = l]
IsWrite(c) == tool[c] \in Writes
Record(c, s) == audit' = [audit EXCEPT ![key[c]] = s]

\* The unique index on (tenant, key) lets an insert through.
Free(k) == audit[k] = "none"

WriteDenied(c) == IsWrite(c) /\ tool[c] \notin MayWrite

AuditDenied(c) == denials' = denials \cup {c}

\* A terminal row is replayed: success is its status.
Replay(k) == audit[k]

\* EngineMcpServer.handleToolsCall: allow-list, then confirmation.
ToolsCall(c) ==
  /\ pc[c] = "new"
  /\ \/ tool[c] \notin Allowed /\ Goto(c, "denied")
     \/ tool[c] \in Allowed \cap Confirmed /\ Goto(c, "preview")
     \/ tool[c] \in Allowed \ Confirmed /\ Goto(c, "called")
  /\ UNCHANGED <<inputs, audit, author, ran, denials, faults>>

\* executeTool up to the branch on isWriteAction; the allow-list is the server's own.
ExecuteTool(c) ==
  /\ pc[c] = "called"
  /\ \/ /\ tool[c] \notin Registered
        /\ Goto(c, "error") /\ UNCHANGED <<denials, faults>>
     \/ /\ tool[c] \in Registered
        /\ ~WriteDenied(c)
        /\ Goto(c, IF IsWrite(c) THEN "reserving" ELSE "reading")
        /\ UNCHANGED <<denials, faults>>
     \/ /\ tool[c] \in Registered
        /\ WriteDenied(c)
        /\ \/ AuditDenied(c) /\ Goto(c, "denied") /\ UNCHANGED faults
           \/ Fault /\ Goto(c, "error") /\ UNCHANGED denials
  /\ UNCHANGED <<inputs, audit, author, ran>>

\* A read runs first ...
Read(c) ==
  /\ pc[c] = "reading"
  /\ \E l \in {"noting", "error"} : Goto(c, l)
  /\ ran' = ran \cup {c}
  /\ UNCHANGED <<inputs, audit, author, denials, faults>>

\* ... and is recorded afterwards, under a key nobody has used.
NoteRead(c) ==
  /\ pc[c] = "noting"
  /\ \/ /\ Free(key[c])
        /\ Record(c, "ok")
        /\ author' = author \cup {c}
        /\ \/ Goto(c, "ok") /\ UNCHANGED faults
           \/ Goto(c, "error") /\ Fault
     \/ /\ Goto(c, "error")
        /\ \/ ~Free(key[c]) /\ UNCHANGED faults
           \/ Fault
        /\ UNCHANGED <<audit, author>>
  /\ UNCHANGED <<inputs, ran, denials>>

\* Step 1 of a write: INSERT ... ON CONFLICT DO NOTHING, else look at the row.
Reserve(c) ==
  /\ pc[c] = "reserving"
  /\ \/ /\ Free(key[c])
        /\ Record(c, "pending")
        /\ author' = author \cup {c}
        /\ \/ Goto(c, "running") /\ UNCHANGED faults
           \/ Goto(c, "error") /\ Fault
     \/ /\ ~Free(key[c])
        /\ Goto(c, IF audit[key[c]] = "pending" THEN "conflict" ELSE Replay(key[c]))
        /\ UNCHANGED <<audit, author, faults>>
     \/ /\ Fault
        /\ Goto(c, "error") /\ UNCHANGED <<audit, author>>
  /\ UNCHANGED <<inputs, ran, denials>>

\* Step 2, outside any transaction.  A handler that throws may have had its effect.
Run(c) ==
  /\ pc[c] = "running"
  /\ \/ ran' = ran \cup {c} /\ \E l \in {"ran", "threw"} : Goto(c, l)
     \/ UNCHANGED ran /\ Goto(c, "threw")
  /\ UNCHANGED <<inputs, audit, author, denials, faults>>

\* Step 3: the row gets the outcome; a handler's error is rethrown.
Finalize(c) ==
  /\ pc[c] \in {"ran", "threw"}
  /\ LET ok == pc[c] = "ran" IN
     \/ /\ Record(c, IF ok THEN "ok" ELSE "failed")
        /\ \/ Goto(c, IF ok THEN "ok" ELSE "error") /\ UNCHANGED faults
           \/ Goto(c, "error") /\ Fault
     \/ /\ Fault
        /\ Goto(c, "error") /\ UNCHANGED audit
  /\ UNCHANGED <<inputs, author, ran, denials>>

\* The server dies with its calls in flight; rows and effects stay.
Crash ==
  /\ \E c \in Calls : pc[c] \in Active
  /\ Fault
  /\ pc' = [c \in Calls |-> IF pc[c] \in Active THEN "gone" ELSE pc[c]]
  /\ UNCHANGED <<inputs, audit, author, ran, denials>>

-----------------------------------------------------------------------------

Serve(c) ==
  \/ ToolsCall(c)
  \/ ExecuteTool(c)
  \/ Read(c)
  \/ NoteRead(c)
  \/ Reserve(c)
  \/ Run(c)
  \/ Finalize(c)

GatewayNext == (\E c \in Calls : Serve(c)) \/ Crash

GatewaySpec == GatewayInit /\ [][GatewayNext]_gatewayVars

-----------------------------------------------------------------------------

SameKey(c, d) == key[c] = key[d]

\* The effect of a write happens at most once per key, whatever the agent repeats and
\* wherever the server dies.
WriteOnce == \A c, d \in ran : IsWrite(c) /\ IsWrite(d) /\ SameKey(c, d) => c = d

\* A write that reports success, first-hand or replayed, has happened: under a key that
\* was only ever used for one tool, one of its calls took effect.  A replayed failure
\* is a recorded one.
ReplyIsTrue ==
  \A c \in Calls :
    LET sharing == {d \in Calls : SameKey(c, d)} IN
    IsWrite(c) /\ (\A d \in sharing : tool[d] = tool[c]) =>
      /\ pc[c] = "ok" => sharing \cap ran # {}
      /\ pc[c] = "failed" => audit[key[c]] = "failed"

\* Before a write takes effect its row is committed, by the call itself: after a crash no
\* effect is without a trace, and a permitted one.
EffectOnRecord ==
  \A c \in ran :
    IsWrite(c) => /\ c \in author
                  /\ audit[key[c]] # "none"
                  /\ tool[c] \in (Allowed \cap MayWrite) \ Confirmed

\* What idempotency keys are for, in one.
WritesAreTrue == WriteOnce /\ ReplyIsTrue /\ EffectOnRecord

\* The gateway keeps the promise of OnceCell for writes.
Cell == INSTANCE OnceCell WITH cell <- audit, effects <- {c \in ran : IsWrite(c)}
ImplementsOnceCell == Cell!CSpec
=============================================================================
