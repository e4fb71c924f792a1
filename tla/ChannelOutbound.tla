-------------------------- MODULE ChannelOutbound --------------------------
(***************************************************************************)
(* The OUTBOUND stream and the processes of one kind of adapter, one for   *)
(* each channel. They share one consumer group, so an entry is given to    *)
(* whichever of them reads first; a process that gets another channel's    *)
(* entry acknowledges it. The consumer loop is ChannelTransport's, what an *)
(* adapter does with an entry is its program in ChannelAdapters. Reads,    *)
(* acknowledgements and sends fail, and the processes die and come back.   *)
(* The code reads an entry's fields by their names; ioredis hands them     *)
(* over as a flat list of names and values, in which no name is found.     *)
(***************************************************************************)
EXTENDS ChannelAdapters, Naturals, FiniteSets

CONSTANTS
  Channels,    \* of one kind, each with a process of its own
  Last,        \* number of entries written
  BatchSize,   \* entries of one read: COUNT, 10 in the code
  MaxRetries,  \* failing reads that end the consumer: 5 in the code
  MaxIdle      \* bound on reads that find nothing, and on windows of the limiter

ASSUME OutboundAssumption ==
  /\ Last \in Nat /\ MaxFaults \in Nat /\ MaxIdle \in Nat
  /\ BatchSize \in Nat \ {0} /\ MaxRetries \in Nat \ {0}

Entries == 1 .. Last

\* What an entry is: an answer, one longer than the platform's limit, or the notice of a
\* failure, which has neither content nor recipient.
EntryClasses == {"answer", "long", "notice"}
\* ... and what makes a difference to a kind of adapter.
Matters(k) ==
  {"answer"} \cup {x \in {"long"} : k \in DOMAIN MaxPerSecond}
             \cup {x \in {"notice"} : k \in {"email", "matrix", "avito"}}

VARIABLES
  ready,   \* channels whose process is started with all it insists on
  silent,  \* channels without the optional credentials for sending
  named,   \* whether the client library hands an entry's fields over by name
  owner,   \* of an entry: its channel_id
  written, \* entries on the stream
  given,   \* entries some consumer of the group has been given
  acked,   \* entries acknowledged
  conn,    \* of a channel's process: blocks of connect that are done
  loop,    \* ... where its consumer is
  batch,   \* ... entries of its last read it is not through with
  pos,     \* ... step of its program it is at
  tries,   \* ... failed sends of the entry in hand
  errs,    \* ... the consumer's count of errors
  window,  \* ... entries the limiter counted in this second
  status,  \* ... what health() reports
  sent,    \* how often an entry has reached the platform
  refused, \* entries the limiter turned away
  idle

adapter == <<kind, ready, silent, named>>
log == <<owner, class, written>>
process == <<conn, loop, batch, pos, tries, errs, window, status>>
outboundVars == <<adapter, log, given, acked, process, sent, refused, faults, idle>>

Running(c) == loop[c] \notin {"off", "ended"}
Entry(c) == Head(batch[c])
Program(c) == Outbound[kind]
At(c, s) == loop[c] = "handle" /\ Program(c)[pos[c]] = s

OutboundTypeOK ==
  /\ kind \in Kinds /\ silent \subseteq Channels
  /\ ready \subseteq Channels /\ named \in BOOLEAN
  /\ owner \in [Entries -> Channels] /\ class \in [Entries -> EntryClasses]
  /\ written \in 0 .. Last /\ given \in 0 .. written
  /\ acked \subseteq 1 .. given
  /\ conn \in [Channels -> Nat]
  /\ loop \in [Channels -> {"off", "group", "read", "handle", "ack", "ended"}]
  /\ \A c \in Channels : batch[c] \in Seq(1 .. given)
  /\ \A c \in Channels : loop[c] \in {"handle", "ack"} => batch[c] # <<>>
  /\ pos \in [Channels -> Nat] /\ tries \in [Channels -> Nat]
  /\ errs \in [Channels -> 0 .. MaxRetries]
  /\ window \in [Channels -> Nat]
  /\ status \in [Channels -> {"disconnected", "active", "error"}]
  /\ sent \in [Entries -> Nat] /\ refused \subseteq Entries
  /\ faults \in Nat /\ idle \in Nat

All(x) == [c \in Channels |-> x]

\* Arguments and credentials of the processes: all that is needed, or one is missing.
Configured ==
  {All(Needs[kind])} \cup
    {[All(Needs[kind]) EXCEPT ![c] = @ \ {n}] : c \in Channels, n \in Needs[kind]}

OutboundInit ==
  /\ kind \in Kinds
  /\ ready \in {{c \in Channels : Needs[kind] \subseteq h[c]} : h \in Configured}
  /\ silent \in IF kind \in {"wecom", "webhooks"} THEN SUBSET Channels ELSE {{}}
  /\ named \in BOOLEAN
  /\ owner \in [Entries -> Channels] /\ class \in [Entries -> Matters(kind)]
  /\ written = 0 /\ given = 0 /\ acked = {}
  /\ conn = All(0) /\ loop = All("off") /\ batch = All(<<>>)
  /\ pos = All(1) /\ tries = All(0) /\ errs = All(0) /\ window = All(0)
  /\ status = All("disconnected")
  /\ sent = [e \in Entries |-> 0] /\ refused = {}
  /\ faults = 0 /\ idle = 0

Fault == faults < MaxFaults /\ faults' = faults + 1

-----------------------------------------------------------------------------
(* Mistakes the properties are there to catch; nothing below uses them.    *)

FromTheStart(c) == [i \in 1 .. written |-> i]
AckAnyway(c) == loop' = [loop EXCEPT ![c] = "ack"] /\ UNCHANGED <<batch, pos, tries, errs>>
OneTooFar(c) ==
  /\ batch' = [batch EXCEPT ![c] = Tail(@)]
  /\ loop' = [loop EXCEPT ![c] = IF Len(batch[c]) = 0 THEN "read" ELSE "handle"]
  /\ errs' = [errs EXCEPT ![c] = 0]
  /\ pos' = [pos EXCEPT ![c] = 1]
  /\ tries' = [tries EXCEPT ![c] = 0]

-----------------------------------------------------------------------------
(* ChannelTransport.                                                       *)

Write ==
  /\ written < Last
  /\ written' = written + 1
  /\ UNCHANGED <<adapter, owner, class, given, acked, process, sent, refused,
                 faults, idle>>

\* The consumer's promise is rejected; the adapter notes it and goes on without.
Ends(c) ==
  /\ loop' = [loop EXCEPT ![c] = "ended"]
  /\ status' = IF kind \in QuietKinds THEN status ELSE [status EXCEPT ![c] = "error"]

EnsureGroup(c) ==
  /\ loop[c] = "group"
  /\ \/ loop' = [loop EXCEPT ![c] = "read"] /\ UNCHANGED <<status, faults>>
     \/ Ends(c) /\ Fault
  /\ UNCHANGED <<adapter, log, given, acked, conn, batch, pos, tries, errs, window, sent,
                 refused, idle>>

\* '>' is what no consumer of the group has been given.
NewEntries(c) == [i \in 1 .. written - given |-> given + i]

Read(c) ==
  /\ loop[c] = "read" /\ NewEntries(c) # <<>>
  /\ LET n == IF Len(NewEntries(c)) < BatchSize THEN Len(NewEntries(c)) ELSE BatchSize
     IN  batch' = [batch EXCEPT ![c] = SubSeq(NewEntries(c), 1, n)]
  /\ given' = Head(batch'[c]) + Len(batch'[c]) - 1
  /\ loop' = [loop EXCEPT ![c] = "handle"]
  /\ pos' = [pos EXCEPT ![c] = 1]
  /\ UNCHANGED <<adapter, log, acked, conn, tries, errs, window, status, sent, refused,
                 faults, idle>>

\* Nothing came within the blocking time. The count of errors stays as it is.
ReadNothing(c) ==
  /\ loop[c] = "read" /\ NewEntries(c) = <<>> /\ idle < MaxIdle
  /\ idle' = idle + 1
  /\ UNCHANGED <<adapter, log, given, acked, process, sent, refused, faults>>

ReadFails(c) ==
  /\ loop[c] = "read" /\ Fault
  /\ errs' = [errs EXCEPT ![c] = @ + 1]
  /\ IF errs'[c] >= MaxRetries THEN Ends(c) ELSE UNCHANGED <<loop, status>>
  /\ UNCHANGED <<adapter, log, given, acked, conn, batch, pos, tries, window, sent,
                 refused, idle>>

\* The next entry of the batch, or the next read.
Onward(c) ==
  /\ batch' = [batch EXCEPT ![c] = Tail(@)]
  /\ loop' = [loop EXCEPT ![c] = IF Len(batch[c]) = 1 THEN "read" ELSE "handle"]
  /\ errs' = [errs EXCEPT ![c] = IF Len(batch[c]) = 1 THEN 0 ELSE @]
  /\ pos' = [pos EXCEPT ![c] = 1]
  /\ tries' = [tries EXCEPT ![c] = 0]

Ack(c) ==
  /\ loop[c] = "ack"
  /\ \/ acked' = acked \cup {Entry(c)} /\ UNCHANGED faults
     \/ Fault /\ UNCHANGED acked
  /\ Onward(c)
  /\ UNCHANGED <<adapter, log, given, conn, window, status, sent, refused, idle>>

-----------------------------------------------------------------------------
(* What an adapter does with an entry.                                     *)

Goes(c) == pos' = [pos EXCEPT ![c] = @ + 1] /\ UNCHANGED <<loop, batch, tries, errs>>
\* The handler returns, and the entry is acknowledged.
Returns(c) == loop' = [loop EXCEPT ![c] = "ack"] /\ UNCHANGED <<batch, pos, tries, errs>>
\* The handler throws: the entry stays pending, and nothing reads it again.
Throws(c) == IF kind \in SwallowKinds THEN Returns(c) ELSE Onward(c)

\* From a flat list every channel reads `undefined' where the channel's name should be.
Mine(c) ==
  /\ At(c, "mine")
  /\ IF named /\ owner[Entry(c)] = c THEN Goes(c) ELSE Returns(c)
  /\ UNCHANGED <<adapter, log, given, acked, conn, window, status, sent, refused,
                 faults, idle>>

Rate(c) ==
  /\ At(c, "rate")
  /\ LET long == class[Entry(c)] = "long"
         full == window[c] >= MaxPerSecond[kind]
     IN  /\ window' = IF long THEN window ELSE [window EXCEPT ![c] = @ + 1]
         /\ IF long \/ full
            THEN Returns(c) /\ refused' = refused \cup {Entry(c)}
            ELSE Goes(c) /\ UNCHANGED refused
  /\ UNCHANGED <<adapter, log, given, acked, conn, status, sent, faults, idle>>

Address(c) ==
  /\ At(c, "address") \/ At(c, "require")
  /\ IF class[Entry(c)] # "notice" THEN Goes(c)
     ELSE IF At(c, "address") THEN Returns(c) ELSE Throws(c)
  /\ UNCHANGED <<adapter, log, given, acked, conn, window, status, sent, refused,
                 faults, idle>>

Config(c) ==
  /\ At(c, "config")
  /\ IF c \in silent THEN Returns(c) ELSE Goes(c)
  /\ UNCHANGED <<adapter, log, given, acked, conn, window, status, sent, refused,
                 faults, idle>>

\* What a failure leaves as the status. WhatsApp's does not change when no answer comes.
FailedStatus(c) ==
  CASE kind \in QuietKinds -> {status}
    [] kind = "whatsapp" -> {status, [status EXCEPT ![c] = "error"]}
    [] OTHER -> {[status EXCEPT ![c] = "error"]}

\* Both are requests of their own before the send.
Prepare(c) ==
  /\ At(c, "lookup") \/ At(c, "token")
  /\ \/ Goes(c) /\ UNCHANGED <<status, faults>>
     \/ At(c, "lookup") /\ Returns(c) /\ UNCHANGED <<status, faults>>
     \/ /\ Throws(c) /\ Fault
        /\ status' \in IF kind = "avito" THEN {status} ELSE FailedStatus(c)
  /\ UNCHANGED <<adapter, log, given, acked, conn, window, sent, refused, idle>>

Call(c) ==
  /\ At(c, "call")
  /\ sent' = [sent EXCEPT ![Entry(c)] = @ + 1]
  /\ Returns(c)
  /\ UNCHANGED <<adapter, log, given, acked, conn, window, status, refused, faults,
                 idle>>

\* The platform refuses, or the answer that it did not is lost. One fault may last for
\* all the attempts.
CallFails(c) ==
  /\ At(c, "call")
  /\ IF tries[c] = 0 THEN Fault ELSE UNCHANGED faults
  /\ sent' \in {sent, [sent EXCEPT ![Entry(c)] = @ + 1]}
  /\ status' \in FailedStatus(c)
  /\ \/ /\ tries[c] + 1 < Attempts(kind)
        /\ tries' = [tries EXCEPT ![c] = @ + 1]
        /\ UNCHANGED <<loop, batch, pos, errs>>
     \/ /\ tries[c] + 1 = Attempts(kind) \/ kind \in FloodKinds
        /\ Throws(c)
  /\ UNCHANGED <<adapter, log, given, acked, conn, window, refused, idle>>

\* Another second of the limiter.
Tick(c) ==
  /\ window[c] > 0 /\ idle < MaxIdle
  /\ idle' = idle + 1
  /\ window' = [window EXCEPT ![c] = 0]
  /\ UNCHANGED <<adapter, log, given, acked, conn, loop, batch, pos, tries, errs, status,
                 sent, refused, faults>>

-----------------------------------------------------------------------------
(* The process.                                                            *)

\* One block of connect, up to its next await. A main program that misses an argument
\* exits, as it does when the constructor throws for a credential.
ConnectStep(c) ==
  /\ c \in ready
  /\ conn[c] < Len(Connect[kind])
  /\ LET block == Connect[kind][conn[c] + 1]
     IN  /\ loop' = IF "consume" \in block THEN [loop EXCEPT ![c] = "group"] ELSE loop
         /\ status' = IF "active" \in block THEN [status EXCEPT ![c] = "active"] ELSE status
  /\ conn' = [conn EXCEPT ![c] = @ + 1]
  /\ UNCHANGED <<adapter, log, given, acked, batch, pos, tries, errs, window, sent,
                 refused, faults, idle>>

\* The process is killed, or what connect awaits fails and the main program exits. It is
\* started again at once; the entry in hand stays pending.
StartAgain(c) ==
  /\ Fault
  /\ conn[c] > 0
  /\ conn' = [conn EXCEPT ![c] = 0]
  /\ loop' = [loop EXCEPT ![c] = "off"]
  /\ batch' = [batch EXCEPT ![c] = <<>>]
  /\ pos' = [pos EXCEPT ![c] = 1]
  /\ tries' = [tries EXCEPT ![c] = 0]
  /\ errs' = [errs EXCEPT ![c] = 0]
  /\ window' = [window EXCEPT ![c] = 0]
  /\ status' = [status EXCEPT ![c] = "disconnected"]
  /\ UNCHANGED <<adapter, log, given, acked, sent, refused, idle>>

\* An error of the client, or the end of its connection.
ClientEvent(c) ==
  /\ conn[c] = Len(Connect[kind]) /\ Fault
  /\ \/ kind \in ErrorEvents /\ status' = [status EXCEPT ![c] = "error"]
     \/ kind \in CloseEvents /\ status[c] = "active"
        /\ status' = [status EXCEPT ![c] = "disconnected"]
  /\ UNCHANGED <<adapter, log, given, acked, conn, loop, batch, pos, tries, errs, window,
                 sent, refused, idle>>

-----------------------------------------------------------------------------

Consume(c) == EnsureGroup(c) \/ Read(c) \/ ReadNothing(c) \/ ReadFails(c) \/ Ack(c)
HandleEntry(c) == Mine(c) \/ Rate(c) \/ Address(c) \/ Config(c) \/ Prepare(c) \/ Call(c)

OutboundNext ==
  \/ Write
  \/ \E c \in Channels :
       Consume(c) \/ HandleEntry(c) \/ CallFails(c) \/ Tick(c) \/ ConnectStep(c) \/ StartAgain(c)
         \/ ClientEvent(c)

OutboundSpec == OutboundInit /\ [][OutboundNext]_outboundVars

-----------------------------------------------------------------------------
(* Properties.                                                             *)

\* An entry reaches the platform no oftener than its adapter tries, and in every adapter
\* but WhatsApp's and MTProto's that is once, through deaths of the process, lost
\* acknowledgements and the entries that stay pending.
SentAtMost ==
  \A e \in Entries : sent[e] <= CASE kind = "whatsapp" -> 5 [] kind = "mtproto" -> 3
                                  [] OTHER -> 1

\* A channel's entries reach the platform in the order of the stream: once a later one
\* has, an earlier one does not.
InOrder ==
  [][\A d, e \in Entries :
       (d < e /\ owner[d] = owner[e] /\ sent[e] > 0) => sent'[d] = sent[d]]_outboundVars

\* An answer in its channel's own hands is acknowledged because it reached the platform,
\* or for one of the reasons the adapters have: the limiter, no credentials, a Discord
\* channel that takes no messages, the fifth failure of a WhatsApp send.
AckedIsSent ==
  \A c \in Channels :
    (loop[c] = "ack" /\ owner[Entry(c)] = c /\ class[Entry(c)] # "notice") =>
      \/ sent[Entry(c)] > 0 \/ Entry(c) \in refused \/ c \in silent
      \/ kind = "discord" \/ (kind = "whatsapp" /\ tries[c] = 4)

\* A channel whose health is "active" has a consumer. Telegram and WhatsApp start the
\* consumer before they wait for the platform and may set the status over its failure.
ActiveConsumes ==
  kind \notin {"telegram", "whatsapp", "mtproto"} =>
    \A c \in Channels : status[c] = "active" => Running(c)

\* A flat list is nobody's: no adapter sends anything.
FlatIsLost == ~named => \A e \in Entries : sent[e] = 0

\* What an operator may rely on: an answer is sent once or, acknowledged, for a reason
\* not at all, if its fields can be read and not otherwise; and an adapter that says it is
\* active consumes.
SentAndAcked == SentAtMost /\ (named => AckedIsSent) /\ FlatIsLost /\ ActiveConsumes
=============================================================================
