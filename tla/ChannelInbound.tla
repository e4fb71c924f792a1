--------------------------- MODULE ChannelInbound ---------------------------
(***************************************************************************)
(* One channel adapter from its platform to the INBOUND stream: requests,  *)
(* socket events or fetched batches, handled side by side in one process,  *)
(* with Redis failing, markers lapsing and the process dying in between.   *)
(* The initial state picks the kind of adapter; its program is the one of  *)
(* ChannelAdapters.                                                        *)
(***************************************************************************)
EXTENDS ChannelAdapters, Naturals

CONSTANTS
  Msgs,      \* what happens on the platform
  Texts,     \* those of them that are users' texts in any case: a bound on the inputs
  Slots,     \* handlers that may run at the same time
  NoMsg

ASSUME InboundAssumption ==
  /\ NoMsg \notin Msgs /\ Texts \subseteq Msgs
  /\ MaxFaults \in Nat

\* What an adapter may be handed: a user's text, a user's message without a text, what
\* the bot itself wrote, an event that is no message, a request whose signature is wrong
\* or missing.
Classes(k) ==
  {"text", "empty", "own"} \cup {x \in {"noise"} : k \notin {"email", "sms", "webhooks", "discord"}}
                           \cup {x \in {"bad", "unsigned"} : k \in WebhookKinds}

VARIABLES
  bare,   \* what a check of the adapter rests on is not configured
  handed, \* messages the platform has handed over
  told,   \* messages the platform was told are accepted
  req,    \* of a slot: the message it handles ...
  pc,     \* ... and the step it is at
  due,    \* messages of the batch that are still to be handled
  gone,   \* VK: messages the cursor is past. E-mail: mails that have arrived
  marked, \* ids with a marker
  lapsed, \* ids that lost one: it expired or died with the process
  stream, \* how often a message is on INBOUND, counted up to two
  up,     \* the process is running
  deaf,   \* its socket is closed for good
  spoilt  \* messages whose publication failed when nothing would repeat it

work == <<req, pc, due>>
adapterIn == <<kind, bare>>
platform == <<class, handed, gone>>
vars == <<adapterIn, platform, told, work, marked, lapsed, stream, up, deaf, spoilt, faults>>

Batch == kind \in PollKinds \cup MailboxKinds
Step(s) == IF pc[s] = 0 THEN "idle"
           ELSE IF pc[s] > Len(Inbound[kind]) THEN "end" ELSE Inbound[kind][pc[s]]
Idle(s) == req[s] = NoMsg
InHand(m) == \E s \in Slots : req[s] = m

TypeOK ==
  /\ kind \in Kinds
  /\ bare \in BOOLEAN /\ bare => kind \in OptionalKinds
  /\ class \in [Msgs -> Classes(kind)]
  /\ handed \subseteq Msgs
  /\ told \subseteq Msgs
  /\ req \in [Slots -> Msgs \cup {NoMsg}]
  /\ pc \in [Slots -> Nat]
  /\ \A s \in Slots : Idle(s) <=> pc[s] = 0
  /\ due \subseteq Msgs /\ gone \subseteq Msgs
  /\ marked \subseteq Msgs /\ lapsed \subseteq Msgs
  /\ stream \in [Msgs -> 0 .. 2]
  /\ up \in BOOLEAN /\ deaf \in BOOLEAN
  /\ spoilt \subseteq Msgs
  /\ faults \in Nat

Init ==
  /\ kind \in Kinds
  /\ bare \in {b \in BOOLEAN : b => kind \in OptionalKinds}
  /\ class \in {f \in [Msgs -> Classes(kind)] : \A m \in Texts : f[m] = "text"}
  /\ handed = {}
  /\ told = {}
  /\ req = [s \in Slots |-> NoMsg]
  /\ pc = [s \in Slots |-> 0]
  /\ due = {} /\ gone = {}
  /\ marked = {} /\ lapsed = {}
  /\ stream = [m \in Msgs |-> 0]
  /\ up = TRUE /\ deaf = FALSE
  /\ spoilt = {}
  /\ faults = 0

-----------------------------------------------------------------------------
(* A mistake the properties are there to catch; nothing below uses it.     *)

StayInHand(s) == pc' = [pc EXCEPT ![s] = 0] /\ UNCHANGED req

-----------------------------------------------------------------------------
(* The platform.                                                           *)

\* A slot gets a message to handle.
Give(s, m) ==
  /\ handed' = handed \cup {m}
  /\ req' = [req EXCEPT ![s] = m]
  /\ pc' = [pc EXCEPT ![s] = 1]

\* A request or an event, handed over for the first time or because the platform was not
\* told it is accepted.
Hand(s, m) ==
  /\ up /\ ~deaf /\ ~Batch /\ Idle(s)
  /\ m \notin handed \/ (kind \in WebhookKinds /\ m \notin told /\ ~InHand(m))
  /\ Give(s, m)
  /\ UNCHANGED <<adapterIn, class, gone, told, due, marked, lapsed, stream, up, deaf, spoilt, faults>>

\* The platform is impatient, lost the answer, or replays after a reconnect.
HandAgain(s, m) ==
  /\ up /\ kind \in ReplayKinds /\ Idle(s)
  /\ m \in handed /\ faults < MaxFaults
  /\ faults' = faults + 1
  /\ Give(s, m)
  /\ UNCHANGED <<adapterIn, class, gone, told, due, marked, lapsed, stream, up, deaf, spoilt>>

\* A poll gets what has arrived since the last one and moves its cursor at once; a
\* mailbox offers everything that is unseen, which is every mail that ever arrived.
Fetch ==
  /\ up /\ Batch /\ due = {} /\ \A s \in Slots : Idle(s)
  /\ \E new \in SUBSET (Msgs \ gone) :
       /\ gone' = gone \cup new
       /\ due' = IF kind \in MailboxKinds THEN gone \cup new ELSE new
  /\ due' # {}
  /\ UNCHANGED <<adapterIn, class, handed, told, req, pc, marked, lapsed, stream, up, deaf, spoilt,
                 faults>>

\* The next message of the batch; one at a time.
Take(s, m) ==
  /\ up /\ m \in due /\ \A t \in Slots : Idle(t)
  /\ due' = due \ {m}
  /\ Give(s, m)
  /\ UNCHANGED <<adapterIn, class, gone, told, marked, lapsed, stream, up, deaf, spoilt, faults>>

-----------------------------------------------------------------------------
(* The handler.                                                            *)

Advance(s) == pc' = [pc EXCEPT ![s] = @ + 1] /\ UNCHANGED req
Return(s) == pc' = [pc EXCEPT ![s] = 0] /\ req' = [req EXCEPT ![s] = NoMsg]

\* Ends with a success, which a request is told.
Accept(s) ==
  /\ Return(s)
  /\ told' = IF kind \in WebhookKinds THEN told \cup {req[s]} ELSE told

Verify(s) ==
  /\ Step(s) = "verify"
  /\ IF class[req[s]] \in Refused(kind, bare) THEN Return(s) ELSE Advance(s)
  /\ UNCHANGED <<adapterIn, platform, told, due, marked, lapsed, stream, up, deaf, spoilt, faults>>

Filter(s) ==
  /\ Step(s) = "filter"
  /\ IF class[req[s]] \in Dropped(kind) THEN Accept(s) ELSE Advance(s) /\ UNCHANGED told
  /\ UNCHANGED <<adapterIn, platform, due, marked, lapsed, stream, up, deaf, spoilt, faults>>

\* Is this the bot's own message? Matrix compares the sender with the userId it may not
\* have been given, Mattermost looks for the mark of a bot account.
Knows == ~bare \/ kind \notin OwnOptional
Own(s) ==
  /\ Step(s) = "own"
  /\ IF class[req[s]] = "own" /\ Knows THEN Accept(s) ELSE Advance(s) /\ UNCHANGED told
  /\ UNCHANGED <<adapterIn, platform, due, marked, lapsed, stream, up, deaf, spoilt, faults>>

\* Without Redis MTProto marks nothing, and finds nothing marked.
Dedup(s) ==
  /\ Step(s) = "dedup"
  /\ IF req[s] \in marked THEN Accept(s) ELSE Advance(s) /\ UNCHANGED told
  /\ marked' = IF bare THEN marked ELSE marked \cup {req[s]}
  /\ UNCHANGED <<adapterIn, platform, due, lapsed, stream, up, deaf, spoilt, faults>>

Answer(s) ==
  /\ Step(s) \in {"early", "ok"}
  /\ told' = told \cup {req[s]}
  /\ Advance(s)
  /\ UNCHANGED <<adapterIn, platform, due, marked, lapsed, stream, up, deaf, spoilt, faults>>

Publish(s) ==
  /\ Step(s) = "publish"
  /\ stream' = [stream EXCEPT ![req[s]] = IF @ < 2 THEN @ + 1 ELSE 2]
  /\ Advance(s)
  /\ UNCHANGED <<adapterIn, platform, told, due, marked, lapsed, up, deaf, spoilt, faults>>

End(s) ==
  /\ Step(s) = "end"
  /\ Return(s)
  /\ UNCHANGED <<adapterIn, platform, told, due, marked, lapsed, stream, up, deaf, spoilt, faults>>

-----------------------------------------------------------------------------
(* Faults.                                                                 *)

\* What is lost with a set of handlers: a message whose marker or whose answer is out
\* will not be published by a repetition.
Spoil(S) == spoilt' = spoilt \cup {m \in {req[s] : s \in S} : m \in marked \cup told}

\* The process is gone, and its memory with it.
Die ==
  /\ up' = FALSE
  /\ req' = [s \in Slots |-> NoMsg]
  /\ pc' = [s \in Slots |-> 0]
  /\ due' = {}
  /\ IF kind \in MemoryMarkers
     THEN marked' = {} /\ lapsed' = lapsed \cup marked
     ELSE UNCHANGED <<marked, lapsed>>

\* The write to Redis fails for good.
PublishFails(s) ==
  /\ Step(s) = "publish" /\ faults < MaxFaults
  /\ faults' = faults + 1
  /\ IF kind \in CrashOnThrow
     THEN Die /\ Spoil({t \in Slots : ~Idle(t)})
     ELSE /\ Return(s)
          /\ due' = IF kind \in DropOnThrow THEN {} ELSE due
          /\ Spoil({s})
          /\ UNCHANGED <<up, marked, lapsed>>
  /\ UNCHANGED <<adapterIn, platform, told, stream, deaf>>

Crash ==
  /\ up /\ faults < MaxFaults
  /\ faults' = faults + 1
  /\ Die /\ Spoil({s \in Slots : ~Idle(s)})
  /\ UNCHANGED <<adapterIn, platform, told, stream, deaf>>

\* A fresh long poll server comes with a cursor of its own: what arrived meanwhile is
\* behind it. The same happens when a poll is answered with "failed".
Skip == gone' \in {gone \cup lost : lost \in SUBSET (IF kind \in PollKinds THEN Msgs ELSE {})}

Restart ==
  /\ ~up
  /\ up' = TRUE /\ deaf' = FALSE
  /\ Skip
  /\ UNCHANGED <<adapterIn, class, handed, told, work, marked, lapsed, stream, spoilt, faults>>

Reconnect ==
  /\ up /\ kind \in PollKinds /\ due = {} /\ \A s \in Slots : Idle(s)
  /\ faults < MaxFaults
  /\ faults' = faults + 1
  /\ Skip
  /\ UNCHANGED <<adapterIn, class, handed, told, work, marked, lapsed, stream, up, deaf, spoilt>>

SocketCloses ==
  /\ up /\ kind \in SocketKinds /\ ~deaf /\ faults < MaxFaults
  /\ faults' = faults + 1
  /\ deaf' = TRUE
  /\ UNCHANGED <<adapterIn, platform, told, work, marked, lapsed, stream, up, spoilt>>

\* Five minutes have passed, a day for mtproto.
Lapse(m) ==
  /\ m \in marked
  /\ marked' = marked \ {m}
  /\ lapsed' = lapsed \cup {m}
  /\ UNCHANGED <<adapterIn, platform, told, work, stream, up, deaf, spoilt, faults>>

-----------------------------------------------------------------------------

Handle(s) ==
  Verify(s) \/ Filter(s) \/ Own(s) \/ Dedup(s) \/ Answer(s) \/ Publish(s) \/ End(s)

Next ==
  \/ \E s \in Slots, m \in Msgs : Hand(s, m) \/ HandAgain(s, m) \/ Take(s, m)
  \/ \E s \in Slots : Handle(s) \/ PublishFails(s)
  \/ Fetch \/ Crash \/ Restart \/ Reconnect \/ SocketCloses
  \/ \E m \in Msgs : Lapse(m)

\* A platform repeats what it was not told is accepted, handlers run to their end and
\* the process is started again.
Fairness ==
  /\ \A s \in Slots : WF_vars(Handle(s))
  /\ \A m \in Msgs : SF_vars(\E s \in Slots : Hand(s, m))
  /\ WF_vars(Restart)

Spec == Init /\ [][Next]_vars
FairSpec == Spec /\ Fairness

-----------------------------------------------------------------------------
(* Properties.                                                             *)

\* The platforms whose answer waits for the stream, with nothing marked before it.
AckLastKinds == {"slack", "dingtalk", "sms", "whatsapp"}

\* A user's message the platform was told is accepted is on the INBOUND stream. Where a
\* marker or the answer comes first (Feishu, WeCom, webhooks, Avito) it may still be in
\* a handler's hands, or have been spoilt there: that is the only way to lose it.
AcceptedIsQueued ==
  \A m \in told : class[m] = "text" =>
    \/ stream[m] > 0
    \/ kind \notin AckLastKinds /\ (InHand(m) \/ m \in spoilt)

\* An adapter that sets markers puts a message on the stream once, however often and
\* however simultaneously the platform hands it over, as long as the marker lives.
MarkedKinds == {"feishu", "wecom", "webhooks", "avito", "mtproto"}
Marks == kind \in MarkedKinds /\ ~bare
QueuedOnce == Marks => \A m \in Msgs \ lapsed : stream[m] <= 1

\* What else gets onto the stream, for want of a check: what the bot wrote comes back as
\* input where it is not recognised, messages without a text are published as empty ones,
\* DingTalk takes what is not signed and, without a token, what is falsely signed.
OwnUnknown == {"dingtalk", "sms", "whatsapp", "feishu", "wecom", "webhooks", "telegram",
               "homeassistant", "email"}
EmptyPasses == {"slack", "whatsapp", "feishu", "wecom", "avito", "discord", "mattermost", "vk",
                "email"}
Unchecked(k, b) ==
  {x \in {"own"} : k \in OwnUnknown \/ (b /\ k \in OwnOptional)}
    \cup {x \in {"empty"} : k \in EmptyPasses}
    \cup {x \in {"unsigned", "bad"} : k = "dingtalk" /\ (x = "bad" => b)}
Lets == {"text"} \cup Unchecked(kind, bare)

\* Without a fault, every user's text the handlers have finished is on the stream, and
\* beside it only what the adapter has no check for: nothing is filtered, deduplicated or
\* skipped by mistake, and the bot's own messages do not come back where it knows them.
ExactWithoutFaults ==
  faults = 0 =>
    \A m \in Msgs : m \in handed /\ ~InHand(m) =>
      (stream[m] > 0 <=> class[m] \in Lets)

\* The stream holds what it should: all that was accepted, once, and what users wrote,
\* but for what an adapter has no check for.
StreamIsExact == AcceptedIsQueued /\ QueuedOnce /\ ExactWithoutFaults

\* Where the answer comes last, a user's message reaches the stream in the end although
\* the write fails or the process dies on the way.
EventuallyQueued ==
  \A m \in Msgs : (kind \in AckLastKinds /\ class[m] = "text") ~> stream[m] > 0
=============================================================================
