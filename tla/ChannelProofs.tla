--------------------------- MODULE ChannelProofs ---------------------------
(***************************************************************************)
(* Proofs about ChannelInbound and ChannelOutbound, for any of the sixteen *)
(* adapters and any number of messages, handlers, channels, entries,       *)
(* failures and deaths. The two share the programs of ChannelAdapters,     *)
(* whose orders come first: everything below rests on what a step has      *)
(* behind it.                                                              *)
(*                                                                         *)
(* Inbound, the argument is about the markers. What a handler has behind   *)
(* it tells what its message is, and a marker is a debt: while it lives,   *)
(* its message is on the stream, was spoilt by a failure, or is owed by    *)
(* the one handler that set the marker. InboundInv says so, and gives what *)
(* was accepted, once.                                                     *)
(*                                                                         *)
(* Outbound, it is about the entry in hand. An entry gets past the first   *)
(* step of a program only in its own channel's process, entries are held   *)
(* in the order of the stream, and one that has reached the platform is    *)
(* held on only until it is acknowledged, or while failed sends are tried  *)
(* again: OutboundInv counts its sends by the tries. A process that dies   *)
(* forgets its batch, and the group gives nothing twice, so a sent entry   *)
(* is never met again.                                                     *)
(***************************************************************************)
EXTENDS ChannelInbound, ChannelOutbound, TLAPS, SequenceTheorems

\* The programs, by the eleven orders their steps come in.
LEMMA Programs ==
  ASSUME NEW k \in Kinds
  PROVE  \/ k = "slack" /\ Inbound[k] = <<"verify", "filter", "own", "publish", "ok">>
         \/ k \in {"dingtalk", "whatsapp"}
              /\ Inbound[k] = <<"verify", "filter", "publish", "ok">>
         \/ k = "sms" /\ Inbound[k] = <<"verify", "publish", "ok">>
         \/ k \in {"feishu", "wecom"}
              /\ Inbound[k] = <<"verify", "filter", "dedup", "publish", "ok">>
         \/ k = "webhooks" /\ Inbound[k] = <<"verify", "dedup", "publish", "ok">>
         \/ k = "avito"
              /\ Inbound[k] = <<"verify", "early", "filter", "dedup", "own", "publish">>
         \/ k \in {"telegram", "homeassistant"} /\ Inbound[k] = <<"filter", "publish">>
         \/ k \in {"mattermost", "matrix", "vk"} /\ Inbound[k] = <<"filter", "own", "publish">>
         \/ k = "discord" /\ Inbound[k] = <<"own", "publish">>
         \/ k = "mtproto" /\ Inbound[k] = <<"dedup", "own", "filter", "publish">>
         \/ k = "email" /\ Inbound[k] = <<"publish">>
BY DEF Kinds, Inbound, SlackInbound, DingtalkInbound, SmsInbound, WhatsappInbound,
   FeishuInbound, WecomInbound, WebhooksInbound, AvitoInbound, TelegramInbound, DiscordInbound,
   MattermostInbound, MatrixInbound, HomeassistantInbound, MtprotoInbound, VkInbound,
   EmailInbound

Past(k, x, i) == \E j \in 1 .. Len(Inbound[k]) : j < i /\ Inbound[k][j] = x

LEMMA PastFirst == ASSUME NEW k, NEW x PROVE ~Past(k, x, 1) /\ ~Past(k, x, 0)
BY DEF Past

LEMMA PastNext ==
  ASSUME NEW k, NEW x, NEW i \in 1 .. Len(Inbound[k])
  PROVE  Past(k, x, i + 1) <=> Past(k, x, i) \/ Inbound[k][i] = x
BY DEF Past

\* Nothing but this is without a filter.
Unfiltered == {"email", "sms", "webhooks", "discord"}

\* What the order of an adapter's steps makes sure of.
LEMMA Order ==
  ASSUME NEW k \in Kinds, NEW i \in 1 .. Len(Inbound[k])
  PROVE  /\ Len(Inbound[k]) \in Nat /\ Inbound[k][i] # "end"
         /\ Past(k, "publish", Len(Inbound[k]) + 1)
         /\ Inbound[k][i] = "ok" => Past(k, "publish", i)
         /\ Inbound[k][i] = "early" => k = "avito"
         /\ Inbound[k][i] = "own" => k \notin OwnUnknown
         /\ Inbound[k][i] = "dedup" => /\ k \in MarkedKinds
                                       /\ ~Past(k, "publish", i) /\ ~Past(k, "dedup", i)
         /\ Inbound[k][i] = "publish" =>
              /\ ~Past(k, "publish", i)
              /\ k \in MarkedKinds => Past(k, "dedup", i)
              /\ Past(k, "verify", i) \/ k \notin WebhookKinds
              /\ Past(k, "filter", i) \/ k \in Unfiltered
              /\ Past(k, "own", i) \/ k \in OwnUnknown
<1> DEFINE p == Inbound[k]
<1>1. CASE /\ p = <<"verify", "filter", "own", "publish", "ok">>
          /\ k = "slack"
  <2>1. Len(p) = 5 /\ p[1] = "verify" /\ p[2] = "filter" /\ p[3] = "own" /\ p[4] = "publish"
        /\ p[5] = "ok"
    BY <1>1
  <2> QED
    BY <1>1, <2>1 DEF Past, MarkedKinds, WebhookKinds, OwnUnknown, Unfiltered
<1>2. CASE /\ p = <<"verify", "filter", "publish", "ok">>
          /\ k \in {"dingtalk", "whatsapp"}
  <2>1. Len(p) = 4 /\ p[1] = "verify" /\ p[2] = "filter" /\ p[3] = "publish" /\ p[4] = "ok"
    BY <1>2
  <2> QED
    BY <1>2, <2>1 DEF Past, MarkedKinds, WebhookKinds, OwnUnknown, Unfiltered
<1>3. CASE /\ p = <<"verify", "publish", "ok">>
          /\ k = "sms"
  <2>1. Len(p) = 3 /\ p[1] = "verify" /\ p[2] = "publish" /\ p[3] = "ok"
    BY <1>3
  <2> QED
    BY <1>3, <2>1 DEF Past, MarkedKinds, WebhookKinds, OwnUnknown, Unfiltered
<1>4. CASE /\ p = <<"verify", "filter", "dedup", "publish", "ok">>
          /\ k \in {"feishu", "wecom"}
  <2>1. Len(p) = 5 /\ p[1] = "verify" /\ p[2] = "filter" /\ p[3] = "dedup" /\ p[4] = "publish"
        /\ p[5] = "ok"
    BY <1>4
  <2> QED
    BY <1>4, <2>1 DEF Past, MarkedKinds, WebhookKinds, OwnUnknown, Unfiltered
<1>5. CASE /\ p = <<"verify", "dedup", "publish", "ok">>
          /\ k = "webhooks"
  <2>1. Len(p) = 4 /\ p[1] = "verify" /\ p[2] = "dedup" /\ p[3] = "publish" /\ p[4] = "ok"
    BY <1>5
  <2> QED
    BY <1>5, <2>1 DEF Past, MarkedKinds, WebhookKinds, OwnUnknown, Unfiltered
<1>6. CASE /\ p = <<"verify", "early", "filter", "dedup", "own", "publish">>
          /\ k = "avito"
  <2>1. Len(p) = 6 /\ p[1] = "verify" /\ p[2] = "early" /\ p[3] = "filter" /\ p[4] = "dedup"
        /\ p[5] = "own" /\ p[6] = "publish"
    BY <1>6
  <2> QED
    BY <1>6, <2>1 DEF Past, MarkedKinds, WebhookKinds, OwnUnknown, Unfiltered
<1>7. CASE /\ p = <<"filter", "publish">>
          /\ k \in {"telegram", "homeassistant"}
  <2>1. Len(p) = 2 /\ p[1] = "filter" /\ p[2] = "publish"
    BY <1>7
  <2> QED
    BY <1>7, <2>1 DEF Past, MarkedKinds, WebhookKinds, OwnUnknown, Unfiltered
<1>8. CASE /\ p = <<"filter", "own", "publish">>
          /\ k \in {"mattermost", "matrix", "vk"}
  <2>1. Len(p) = 3 /\ p[1] = "filter" /\ p[2] = "own" /\ p[3] = "publish"
    BY <1>8
  <2> QED
    BY <1>8, <2>1 DEF Past, MarkedKinds, WebhookKinds, OwnUnknown, Unfiltered
<1>9. CASE /\ p = <<"own", "publish">>
          /\ k = "discord"
  <2>1. Len(p) = 2 /\ p[1] = "own" /\ p[2] = "publish"
    BY <1>9
  <2> QED
    BY <1>9, <2>1 DEF Past, MarkedKinds, WebhookKinds, OwnUnknown, Unfiltered
<1>10. CASE /\ p = <<"dedup", "own", "filter", "publish">>
          /\ k = "mtproto"
  <2>1. Len(p) = 4 /\ p[1] = "dedup" /\ p[2] = "own" /\ p[3] = "filter" /\ p[4] = "publish"
    BY <1>10
  <2> QED
    BY <1>10, <2>1 DEF Past, MarkedKinds, WebhookKinds, OwnUnknown, Unfiltered
<1>11. CASE /\ p = <<"publish">>
          /\ k = "email"
  <2>1. Len(p) = 1 /\ p[1] = "publish"
    BY <1>11
  <2> QED
    BY <1>11, <2>1 DEF Past, MarkedKinds, WebhookKinds, OwnUnknown, Unfiltered
<1> QED
  BY Programs, <1>1, <1>2, <1>3, <1>4, <1>5, <1>6, <1>7, <1>8, <1>9, <1>10, <1>11

LEMMA PastEnd == ASSUME NEW k \in Kinds PROVE Past(k, "publish", Len(Inbound[k]) + 1)
<1> DEFINE p == Inbound[k]
<1> SUFFICES \E i \in 1 .. Len(p) : i \in Nat
  BY Order
<1>1. CASE p = <<"verify", "filter", "own", "publish", "ok">>
  BY <1>1
<1>2. CASE p = <<"verify", "filter", "publish", "ok">>
  BY <1>2
<1>3. CASE p = <<"verify", "publish", "ok">>
  BY <1>3
<1>4. CASE p = <<"verify", "filter", "dedup", "publish", "ok">>
  BY <1>4
<1>5. CASE p = <<"verify", "dedup", "publish", "ok">>
  BY <1>5
<1>6. CASE p = <<"verify", "early", "filter", "dedup", "own", "publish">>
  BY <1>6
<1>7. CASE p = <<"filter", "publish">>
  BY <1>7
<1>8. CASE p = <<"filter", "own", "publish">>
  BY <1>8
<1>9. CASE p = <<"own", "publish">>
  BY <1>9
<1>10. CASE p = <<"dedup", "own", "filter", "publish">>
  BY <1>10
<1>11. CASE p = <<"publish">>
  BY <1>11
<1> HIDE DEF p
<1> QED
  BY Programs, <1>1, <1>2, <1>3, <1>4, <1>5, <1>6, <1>7, <1>8, <1>9, <1>10, <1>11 DEF p

-----------------------------------------------------------------------------
(* Inbound: type correctness.                                              *)

USE InboundAssumption

\* A slot at a step handles a message.
LEMMA AtStep ==
  ASSUME TypeOK, NEW s \in Slots, NEW x, Step(s) = x, x \notin {"idle", "end"}
  PROVE  /\ pc[s] \in 1 .. Len(Inbound[kind])
         /\ Inbound[kind][pc[s]] = x
         /\ req[s] \in Msgs /\ ~Idle(s)
<1>1. Len(Inbound[kind]) \in Nat
  BY Programs DEF TypeOK
<1> QED
  BY <1>1 DEF TypeOK, Step, Idle

LEMMA AtEnd ==
  ASSUME TypeOK, NEW s \in Slots, Step(s) = "end", pc[s] <= Len(Inbound[kind]) + 1
  PROVE  pc[s] = Len(Inbound[kind]) + 1 /\ req[s] \in Msgs /\ ~Idle(s)
<1>1. Len(Inbound[kind]) \in Nat
  BY Programs DEF TypeOK
<1>2. pc[s] # 0 /\ pc[s] \in Nat
  BY DEF TypeOK, Step
<1>3. ~(pc[s] <= Len(Inbound[kind]))
  BY <1>1, <1>2, Order DEF TypeOK, Step
<1>4. pc[s] = Len(Inbound[kind]) + 1
  BY <1>1, <1>2, <1>3
<1>5. req[s] \in Msgs /\ ~Idle(s)
  BY <1>2 DEF TypeOK, Idle
<1> QED
  BY <1>4, <1>5

LEMMA InInit == Init => TypeOK
<1> SUFFICES ASSUME Init PROVE TypeOK
  OBVIOUS
<1>1. /\ req \in [Slots -> Msgs \cup {NoMsg}] /\ pc \in [Slots -> Nat]
      /\ \A s \in Slots : Idle(s) <=> pc[s] = 0
  BY DEF Init, Idle
<1>2. stream \in [Msgs -> 0 .. 2] /\ faults \in Nat
  BY DEF Init
<1>3. /\ kind \in Kinds /\ class \in [Msgs -> Classes(kind)]
      /\ up \in BOOLEAN /\ deaf \in BOOLEAN
      /\ bare \in BOOLEAN /\ (bare => kind \in OptionalKinds)
  BY DEF Init
<1>4. /\ handed = {} /\ told = {} /\ due = {} /\ gone = {} /\ marked = {} /\ lapsed = {}
      /\ spoilt = {}
  BY DEF Init
<1> QED
  BY <1>1, <1>2, <1>3, <1>4 DEF TypeOK

LEMMA GiveType ==
  ASSUME TypeOK, NEW s \in Slots, NEW m \in Msgs, Give(s, m)
  PROVE  /\ req' \in [Slots -> Msgs \cup {NoMsg}] /\ pc' \in [Slots -> Nat]
         /\ \A t \in Slots : (req'[t] = NoMsg) <=> (pc'[t] = 0)
         /\ handed' \subseteq Msgs
BY DEF TypeOK, Give, Idle

LEMMA ReturnType ==
  ASSUME TypeOK, NEW s \in Slots, Return(s)
  PROVE  /\ req' \in [Slots -> Msgs \cup {NoMsg}] /\ pc' \in [Slots -> Nat]
         /\ \A t \in Slots : (req'[t] = NoMsg) <=> (pc'[t] = 0)
BY DEF TypeOK, Return, Idle

LEMMA AdvanceType ==
  ASSUME TypeOK, NEW s \in Slots, ~Idle(s), Advance(s)
  PROVE  /\ req' \in [Slots -> Msgs \cup {NoMsg}] /\ pc' \in [Slots -> Nat]
         /\ \A t \in Slots : (req'[t] = NoMsg) <=> (pc'[t] = 0)
BY DEF TypeOK, Advance, Idle

LEMMA DieType ==
  ASSUME TypeOK, Die
  PROVE  /\ req' \in [Slots -> Msgs \cup {NoMsg}] /\ pc' \in [Slots -> Nat]
         /\ \A t \in Slots : (req'[t] = NoMsg) <=> (pc'[t] = 0)
         /\ due' \subseteq Msgs /\ up' \in BOOLEAN
         /\ marked' \subseteq Msgs /\ lapsed' \subseteq Msgs
BY DEF TypeOK, Die, Idle

LEMMA InNextType == TypeOK /\ [Next]_vars => TypeOK'
<1> SUFFICES ASSUME TypeOK, [Next]_vars PROVE TypeOK'
  OBVIOUS
<1> USE DEF work, platform, adapterIn
<1>1. ASSUME NEW s \in Slots, NEW m \in Msgs, Hand(s, m) \/ HandAgain(s, m) \/ Take(s, m)
      PROVE  TypeOK'
  <2>1. Give(s, m)
    BY <1>1 DEF Hand, HandAgain, Take
  <2> QED
    BY <1>1, <2>1, GiveType DEF Hand, HandAgain, Take, TypeOK, Idle
<1>2. ASSUME NEW s \in Slots, Verify(s) \/ Filter(s) \/ Own(s) \/ Dedup(s) \/ Answer(s) \/ End(s)
      PROVE  TypeOK'
  <2>1. pc[s] # 0 /\ ~Idle(s) /\ req[s] \in Msgs
    BY <1>2 DEF Verify, Filter, Own, Dedup, Answer, End, Step, TypeOK, Idle
  <2>2. Return(s) \/ Advance(s)
    BY <1>2 DEF Verify, Filter, Own, Dedup, Answer, End, Accept
  <2>3. told' \subseteq Msgs /\ marked' \subseteq Msgs
    BY <1>2, <2>1 DEF Verify, Filter, Own, Dedup, Answer, End, Accept, TypeOK
  <2>4. UNCHANGED <<adapterIn, platform, due, lapsed, stream, up, deaf, spoilt, faults>>
    BY <1>2 DEF Verify, Filter, Own, Dedup, Answer, End
  <2> QED
    BY <2>1, <2>2, <2>3, <2>4, ReturnType, AdvanceType DEF TypeOK, Idle
<1>3. ASSUME NEW s \in Slots, Publish(s) PROVE TypeOK'
  <2>1. ~Idle(s) /\ req[s] \in Msgs
    BY <1>3, AtStep DEF Publish
  <2>2. stream' \in [Msgs -> 0 .. 2]
    BY <1>3, <2>1 DEF Publish, TypeOK
  <2> QED
    BY <1>3, <2>1, <2>2, AdvanceType DEF Publish, TypeOK, Idle
<1>4. ASSUME NEW s \in Slots, PublishFails(s) PROVE TypeOK'
  <2>1. ~Idle(s) /\ req[s] \in Msgs
    BY <1>4, AtStep DEF PublishFails
  <2>2. spoilt' \subseteq Msgs
    <3>1. \A t \in Slots : ~Idle(t) => req[t] \in Msgs
      BY DEF TypeOK, Idle
    <3> QED
      BY <1>4, <2>1, <3>1 DEF PublishFails, Spoil, TypeOK
  <2>3. UNCHANGED <<adapterIn, platform, told, stream, deaf>> /\ faults' \in Nat
    BY <1>4 DEF PublishFails, TypeOK
  <2>4. CASE Die
    BY <2>2, <2>3, <2>4, DieType DEF TypeOK, Idle
  <2>5. CASE Return(s) /\ due' \in {{}, due} /\ UNCHANGED <<up, marked, lapsed>>
    BY <2>2, <2>3, <2>5, ReturnType DEF TypeOK, Idle
  <2> QED
    BY <1>4, <2>4, <2>5 DEF PublishFails
<1>5. CASE Crash
  <2>1. spoilt' \subseteq Msgs
    <3>1. \A t \in Slots : ~Idle(t) => req[t] \in Msgs
      BY DEF TypeOK, Idle
    <3> QED
      BY <1>5, <3>1 DEF Crash, Spoil, TypeOK
  <2>2. Die /\ UNCHANGED <<adapterIn, platform, told, stream, deaf>> /\ faults' \in Nat
    BY <1>5 DEF Crash, TypeOK
  <2> QED
    BY <2>1, <2>2, DieType DEF TypeOK, Idle
<1>6. CASE Fetch
  <2>1. PICK new \in SUBSET (Msgs \ gone) :
          gone' = gone \cup new /\ due' \in {gone \cup new, new}
    BY <1>6 DEF Fetch
  <2>2. gone' \subseteq Msgs /\ due' \subseteq Msgs
    BY <2>1 DEF TypeOK
  <2>3. UNCHANGED <<kind, bare, class, handed, told, req, pc, marked, lapsed, stream, up, deaf,
                    spoilt, faults>>
    BY <1>6 DEF Fetch
  <2> QED
    BY <2>2, <2>3 DEF TypeOK, Idle
<1>7. CASE Restart \/ Reconnect \/ SocketCloses
  <2>1. gone' \subseteq Msgs
    BY <1>7 DEF Restart, Reconnect, Skip, SocketCloses, TypeOK
  <2>2. /\ UNCHANGED <<kind, bare, class, handed, told, work, marked, lapsed, stream, spoilt>>
        /\ up' \in BOOLEAN /\ deaf' \in BOOLEAN /\ faults' \in {faults, faults + 1}
    <3>1. CASE Restart
      BY <3>1 DEF Restart, TypeOK
    <3>2. CASE Reconnect
      BY <3>2 DEF Reconnect, TypeOK
    <3>3. CASE SocketCloses
      BY <3>3 DEF SocketCloses, TypeOK
    <3> QED
      BY <1>7, <3>1, <3>2, <3>3
  <2>3. faults' \in Nat
    BY <2>2 DEF TypeOK
  <2> QED
    BY <2>1, <2>2, <2>3 DEF TypeOK, Idle
<1>8. ASSUME NEW m \in Msgs, Lapse(m) PROVE TypeOK'
  BY <1>8 DEF Lapse, TypeOK, Idle
<1>9. CASE UNCHANGED vars
  BY <1>9 DEF vars, TypeOK, Idle
<1> QED
  BY <1>1, <1>2, <1>3, <1>4, <1>5, <1>6, <1>7, <1>8, <1>9 DEF Next, Handle

\* The inbound side of an adapter stays well typed: a slot without a message is at no step,
\* and no message is counted, marked or spoilt that the platform does not have.
THEOREM InboundTypes == Spec => []TypeOK
<1>1. Init => TypeOK
  BY InInit
<1>2. TypeOK /\ [Next]_vars => TypeOK'
  BY InNextType
<1> QED
  BY <1>1, <1>2, PTL DEF Spec

-----------------------------------------------------------------------------
(* Inbound: the stream.                                                    *)
(*                                                                         *)
(* What a handler has behind it tells what its message is, and a marker is *)
(* a debt: while it lives, the message is on the stream, spoilt, or owed   *)
(* by the one handler that set it.                                         *)

Placed == \A s \in Slots : pc[s] <= Len(Inbound[kind]) + 1
Behind(s, x) == Past(kind, x, pc[s])
Screened(s) ==
  ~Idle(s) => /\ Behind(s, "verify") => class[req[s]] \notin Refused(kind, bare)
              /\ Behind(s, "filter") => class[req[s]] \notin Dropped(kind)
              /\ Behind(s, "own") => class[req[s]] # "own" \/ ~Knows
              /\ Behind(s, "publish") => stream[req[s]] > 0
Owes(s, m) == req[s] = m /\ Behind(s, "dedup") /\ ~Behind(s, "publish")
Remembered(m) ==
  m \in marked /\ class[m] \in Lets =>
    stream[m] > 0 \/ m \in spoilt \/ \E s \in Slots : Owes(s, m)
Once(m) ==
  Marks /\ m \notin lapsed =>
    /\ stream[m] <= 1
    /\ stream[m] > 0 => m \in marked
    /\ \A s \in Slots : Owes(s, m) => m \in marked /\ stream[m] = 0
    /\ \A s, t \in Slots : Owes(s, m) /\ Owes(t, m) => s = t
Allowed(m) == stream[m] > 0 => class[m] \in Lets
Accepted(m) ==
  m \in told /\ class[m] \in Lets =>
    stream[m] > 0 \/ (kind \notin AckLastKinds /\ (InHand(m) \/ m \in spoilt))
Exact(m) ==
  faults = 0 /\ m \in handed /\ ~InHand(m) /\ class[m] \in Lets => stream[m] > 0

Stored(m) == Remembered(m) /\ Once(m) /\ Allowed(m) /\ Accepted(m) /\ Exact(m)
USE DEF Lets, Marks, Knows

Clean == faults = 0 => spoilt = {}
Rest == Placed /\ Clean /\ (\A s \in Slots : Screened(s)) /\ \A m \in Msgs : Stored(m)
InboundInv == TypeOK /\ Rest

\* What gets past every check an adapter has is what it lets through ...
LEMMA LetThrough ==
  ASSUME kind \in Kinds, NEW c \in Classes(kind),
         kind \in WebhookKinds => c \notin Refused(kind, bare),
         kind \notin Unfiltered => c \notin Dropped(kind),
         kind \notin OwnUnknown => c # "own" \/ ~Knows
  PROVE  c \in Lets
BY DEF Kinds, Classes, WebhookKinds, Refused, Unfiltered, Dropped, OwnUnknown, Knows, OwnOptional,
   Unchecked, EmptyPasses

\* ... and what a check stops is not.
LEMMA Stopped ==
  ASSUME kind \in Kinds, NEW c \in Lets
  PROVE  /\ c \notin Refused(kind, bare) /\ c \notin Dropped(kind)
         /\ kind \notin OwnUnknown => c # "own" \/ ~Knows
BY DEF Kinds, Refused, Dropped, OwnUnknown, Knows, OwnOptional, Unchecked, EmptyPasses

LEMMA InvIsExact == InboundInv => StreamIsExact
<1> SUFFICES ASSUME InboundInv PROVE StreamIsExact
  OBVIOUS
<1>1. AcceptedIsQueued
  BY DEF InboundInv, Rest, Stored, Accepted, AcceptedIsQueued, TypeOK
<1>2. QueuedOnce
  BY DEF InboundInv, Rest, Stored, Once, QueuedOnce
<1>3. ExactWithoutFaults
  BY DEF InboundInv, Rest, Stored, Exact, Allowed, ExactWithoutFaults
<1> QED
  BY <1>1, <1>2, <1>3 DEF StreamIsExact

LEMMA InitInbound == Init => InboundInv
<1> SUFFICES ASSUME Init PROVE InboundInv
  OBVIOUS
<1>1. TypeOK
  BY InInit
<1>2. \A s \in Slots : Idle(s) /\ pc[s] = 0
  BY DEF Init, Idle
<1>3. Placed
  BY <1>1, <1>2, Order, Programs DEF Placed, TypeOK
<1>4. \A s \in Slots : Screened(s)
  BY <1>2 DEF Screened
<1>5. ASSUME NEW m \in Msgs PROVE Stored(m)
  <2>1. stream[m] = 0 /\ marked = {} /\ told = {} /\ handed = {}
    BY DEF Init
  <2>2. \A s \in Slots : ~Owes(s, m)
    BY <1>2 DEF Owes, Idle
  <2> QED
    BY <2>1, <2>2 DEF Stored, Remembered, Once, Allowed, Accepted, Exact
<1> QED
  BY <1>1, <1>3, <1>4, <1>5 DEF InboundInv, Rest, Clean, Init

\* A step outside the handlers: markers may lapse, faults are counted.
LEMMA InNeutral ==
  ASSUME InboundInv,
         UNCHANGED <<kind, bare, class, handed, told, req, pc, stream, spoilt>>,
         marked' \subseteq marked, lapsed \subseteq lapsed', marked \ marked' \subseteq lapsed',
         faults' = 0 => faults = 0
  PROVE  Rest'
<1>1. Placed' /\ Clean'
  BY DEF InboundInv, Rest, Placed, Clean
<1>2. \A s \in Slots : Screened(s)'
  BY DEF InboundInv, Rest, Screened, Behind, Idle
<1>3. ASSUME NEW m \in Msgs PROVE Stored(m)'
  <2>1. Stored(m)
    BY DEF InboundInv, Rest
  <2>2. \A s \in Slots : Owes(s, m)' <=> Owes(s, m)
    BY DEF Owes, Behind
  <2>3. InHand(m)' <=> InHand(m)
    BY DEF InHand
  <2> QED
    BY <2>1, <2>2, <2>3 DEF Stored, Remembered, Once, Allowed, Accepted, Exact
<1> QED
  BY <1>1, <1>2, <1>3 DEF Rest

LEMMA GiveRest ==
  ASSUME InboundInv, NEW s \in Slots, NEW m \in Msgs, Idle(s), Give(s, m),
         UNCHANGED <<kind, bare, class, told, marked, lapsed, stream, spoilt>>,
         faults' = 0 => faults = 0
  PROVE  Rest'
<1>0. TypeOK /\ Len(Inbound[kind]) \in Nat
  BY Programs DEF InboundInv, TypeOK
<1>1. /\ req'[s] = m /\ pc'[s] = 1 /\ handed' = handed \cup {m}
      /\ \A t \in Slots \ {s} : req'[t] = req[t] /\ pc'[t] = pc[t]
  BY <1>0 DEF Give, TypeOK
<1>2. \A x : ~Past(kind, x, 1)
  BY <1>0 DEF Past
<1>3. Placed'
  BY <1>0, <1>1 DEF InboundInv, Rest, Placed
<1>4. ASSUME NEW t \in Slots PROVE Screened(t)'
  BY <1>1, <1>2 DEF InboundInv, Rest, Screened, Behind, Idle
<1>5. ASSUME NEW n \in Msgs PROVE Stored(n)'
  <2>1. Stored(n)
    BY DEF InboundInv, Rest
  <2>2. \A t \in Slots : Owes(t, n)' <=> Owes(t, n)
    BY <1>1, <1>2 DEF Owes, Behind, Idle
  <2>3. InHand(n) => InHand(n)'
    BY <1>1 DEF InHand, Idle
  <2>4. n \in handed' /\ ~InHand(n)' => n \in handed
    BY <1>1 DEF InHand
  <2> QED
    BY <2>1, <2>2, <2>3, <2>4 DEF Stored, Remembered, Once, Allowed, Accepted, Exact
<1>6. Clean'
  BY DEF InboundInv, Rest, Clean
<1> QED
  BY <1>3, <1>4, <1>5, <1>6 DEF Rest

\* A handler goes on past a step that is neither the marker's nor the stream's.
LEMMA AdvanceRest ==
  ASSUME InboundInv, NEW s \in Slots, NEW x, Step(s) = x, x \notin {"idle", "end"},
         x \notin {"dedup", "publish"}, Advance(s),
         x = "verify" => class[req[s]] \notin Refused(kind, bare),
         x = "filter" => class[req[s]] \notin Dropped(kind),
         x = "own" => class[req[s]] # "own" \/ ~Knows,
         UNCHANGED <<kind, bare, class, handed, marked, lapsed, stream, spoilt, faults>>,
         told' = told \/ (x \in {"early", "ok"} /\ told' = told \cup {req[s]})
  PROVE  Rest'
<1>0. TypeOK /\ kind \in Kinds
  BY DEF InboundInv, TypeOK
<1>a. /\ pc[s] \in 1 .. Len(Inbound[kind]) /\ Inbound[kind][pc[s]] = x
      /\ req[s] \in Msgs /\ ~Idle(s)
  BY <1>0, AtStep
<1>b. Len(Inbound[kind]) \in Nat
  BY <1>0, <1>a, Order
<1>1. req' = req /\ pc'[s] = pc[s] + 1 /\ \A t \in Slots \ {s} : pc'[t] = pc[t]
  BY <1>0 DEF Advance, TypeOK
<1>2. \A y : Behind(s, y)' <=> Behind(s, y) \/ x = y
  BY <1>a, <1>1, PastNext, ZenonT(40) DEF Behind
<1>3. Placed'
  BY <1>a, <1>b, <1>1 DEF InboundInv, Rest, Placed
<1>4. ASSUME NEW t \in Slots PROVE Screened(t)'
  <2>1. CASE t = s
    BY <1>1, <1>2, <2>1 DEF InboundInv, Rest, Screened, Idle
  <2>2. CASE t # s
    BY <1>1, <2>2 DEF InboundInv, Rest, Screened, Behind, Idle
  <2> QED
    BY <2>1, <2>2
<1>5. ASSUME NEW n \in Msgs PROVE Stored(n)'
  <2>1. Stored(n)
    BY DEF InboundInv, Rest
  <2>2. \A t \in Slots : Owes(t, n)' <=> Owes(t, n)
    <3>1. Owes(s, n)' <=> Owes(s, n)
      BY <1>1, <1>2 DEF Owes
    <3>2. \A t \in Slots \ {s} : Owes(t, n)' <=> Owes(t, n)
      BY <1>1 DEF Owes, Behind
    <3> QED
      BY <3>1, <3>2
  <2>3. InHand(n)' <=> InHand(n)
    BY <1>1 DEF InHand
  <2>4. n \in told' \ told =>
          stream[n] > 0 \/ (kind \notin AckLastKinds /\ InHand(n))
    <3> SUFFICES ASSUME n = req[s], x \in {"early", "ok"}
                 PROVE  stream[n] > 0 \/ (kind \notin AckLastKinds /\ InHand(n))
      OBVIOUS
    <3>1. CASE x = "early"
      BY <1>0, <1>a, <3>1, Order DEF InHand, AckLastKinds
    <3>2. CASE x = "ok"
      BY <1>0, <1>a, <3>2, Order DEF InboundInv, Rest, Screened, Behind
    <3> QED
      BY <3>1, <3>2
  <2> QED
    BY <2>1, <2>2, <2>3, <2>4 DEF Stored, Remembered, Once, Allowed, Accepted, Exact
<1>6. Clean'
  BY DEF InboundInv, Rest, Clean
<1> QED
  BY <1>3, <1>4, <1>5, <1>6 DEF Rest

\* A handler is through with its message; what becomes of a user's is up to the caller.
LEMMA ReturnRest ==
  ASSUME InboundInv, NEW s \in Slots, ~Idle(s), Return(s),
         UNCHANGED <<kind, bare, class, handed, marked, lapsed, stream>>,
         told \subseteq told', told' \subseteq told \cup {req[s]},
         spoilt \subseteq spoilt', faults' = 0 => faults = 0 /\ spoilt' = spoilt,
         class[req[s]] \in Lets =>
           \/ stream[req[s]] > 0
           \/ /\ kind \notin AckLastKinds
              /\ req[s] \in spoilt \/ \E t \in Slots \ {s} : Owes(t, req[s])
           \/ /\ faults' # 0 /\ told' = told
              /\ req[s] \in marked \cup told => req[s] \in spoilt'
  PROVE  Rest'
<1> DEFINE m == req[s]
<1>0. TypeOK /\ kind \in Kinds /\ m \in Msgs
  BY DEF InboundInv, TypeOK, Idle
<1>1. /\ req'[s] = NoMsg /\ pc'[s] = 0
      /\ \A t \in Slots \ {s} : req'[t] = req[t] /\ pc'[t] = pc[t]
  BY <1>0 DEF Return, TypeOK
<1>2. Placed'
  BY <1>0, <1>1, Order, Programs DEF InboundInv, Rest, Placed
<1>3. ASSUME NEW t \in Slots PROVE Screened(t)'
  BY <1>1 DEF InboundInv, Rest, Screened, Behind, Idle
<1>4. ASSUME NEW n \in Msgs PROVE Stored(n)'
  <2>1. Stored(n)
    BY DEF InboundInv, Rest
  <2>2. ~Owes(s, n)' /\ \A t \in Slots \ {s} : Owes(t, n)' <=> Owes(t, n)
    BY <1>1 DEF Owes, Behind
  <2>3. CASE n # m
    <3>1. ~Owes(s, n) /\ (InHand(n)' <=> InHand(n))
      BY <1>1, <2>3 DEF Owes, InHand
    <3>2. n \in told' => n \in told
      BY <2>3
    <3> QED
      BY <2>1, <2>2, <3>1, <3>2 DEF Stored, Remembered, Once, Allowed, Accepted, Exact
  <2>4. CASE n = m
    <3>1. \A t \in Slots \ {s} : Owes(t, n) => InHand(n)'
      BY <1>1 DEF Owes, InHand
    <3>2. Remembered(n)'
      BY <2>1, <2>2, <2>4 DEF Stored, Remembered
    <3>3. Once(n)' /\ Allowed(n)'
      BY <2>1, <2>2 DEF Stored, Once, Allowed
    <3>a. class[n] \in Lets =>
            \/ stream[n] > 0
            \/ kind \notin AckLastKinds /\ (n \in spoilt \/ InHand(n)')
            \/ faults' # 0 /\ told' = told /\ (n \in marked \cup told => n \in spoilt')
      BY <2>4, <3>1
    <3>4. Accepted(n)'
      BY <2>1, <3>a DEF Stored, Accepted
    <3>5. Exact(n)'
      BY <3>a DEF Exact, InboundInv, Rest, Clean
    <3> QED
      BY <3>2, <3>3, <3>4, <3>5 DEF Stored
  <2> QED
    BY <2>3, <2>4
<1>5. Clean'
  BY DEF InboundInv, Rest, Clean
<1> QED
  BY <1>2, <1>3, <1>4, <1>5 DEF Rest

\* The process dies, and what was in its hands is spoilt where a marker or an answer is out.
LEMMA DieRest ==
  ASSUME InboundInv, Die, Spoil({t \in Slots : ~Idle(t)}),
         UNCHANGED <<kind, bare, class, handed, told, stream>>, faults' # 0
  PROVE  Rest'
<1>0. TypeOK /\ kind \in Kinds
  BY DEF InboundInv, TypeOK
<1>1. \A t \in Slots : req'[t] = NoMsg /\ pc'[t] = 0
  BY DEF Die
<1>2. \A t \in Slots : ~Idle(t) /\ req[t] \in marked \cup told => req[t] \in spoilt'
  BY DEF Spoil
<1>3. spoilt \subseteq spoilt'
  BY DEF Spoil
<1>4. \/ marked' = marked /\ lapsed' = lapsed
      \/ marked' = {} /\ lapsed' = lapsed \cup marked
  BY DEF Die
<1>5. Placed'
  BY <1>0, <1>1, Order, Programs DEF Placed
<1>6. \A t \in Slots : Screened(t)'
  BY <1>1 DEF Screened, Idle
<1>7. ASSUME NEW n \in Msgs PROVE Stored(n)'
  <2>1. Stored(n)
    BY DEF InboundInv, Rest
  <2>2. \A t \in Slots : ~Owes(t, n)'
    BY <1>1 DEF Owes
  <2>3. InHand(n) /\ n \in marked \cup told => n \in spoilt'
    BY <1>2 DEF InHand, Idle
  <2>4. Remembered(n)'
    BY <1>3, <1>4, <2>1, <2>3 DEF Stored, Remembered, Owes, InHand
  <2>5. Accepted(n)'
    BY <1>3, <2>1, <2>3 DEF Stored, Accepted
  <2>6. Once(n)' /\ Allowed(n)' /\ Exact(n)'
    BY <1>4, <2>1, <2>2 DEF Stored, Once, Allowed, Exact
  <2> QED
    BY <2>4, <2>5, <2>6 DEF Stored
<1>8. Clean'
  BY DEF Clean
<1> QED
  BY <1>5, <1>6, <1>7, <1>8 DEF Rest

\* The marker of a message that had none: the handler owes the message now.
LEMMA MarkRest ==
  ASSUME InboundInv, NEW s \in Slots, Dedup(s), req[s] \notin marked
  PROVE  Rest'
<1>0. TypeOK /\ kind \in Kinds
  BY DEF InboundInv, TypeOK
<1>1. /\ Step(s) = "dedup" /\ Advance(s) /\ marked' = IF bare THEN marked ELSE marked \cup {req[s]}
      /\ UNCHANGED <<kind, bare, class, handed, told, lapsed, stream, spoilt, faults>>
  BY DEF Dedup, platform, adapterIn
<1>a. /\ pc[s] \in 1 .. Len(Inbound[kind]) /\ Inbound[kind][pc[s]] = "dedup"
      /\ req[s] \in Msgs /\ ~Idle(s)
  BY <1>0, <1>1, AtStep
<1>b. Len(Inbound[kind]) \in Nat /\ kind \in MarkedKinds /\ ~Behind(s, "publish")
  BY <1>0, <1>a, Order DEF Behind
<1>2. req' = req /\ pc'[s] = pc[s] + 1 /\ \A t \in Slots \ {s} : pc'[t] = pc[t]
  BY <1>0, <1>1 DEF Advance, TypeOK
<1>3. \A y : Behind(s, y)' <=> Behind(s, y) \/ "dedup" = y
  BY <1>a, <1>1, <1>2, PastNext DEF Behind
<1>4. Placed'
  BY <1>a, <1>b, <1>1, <1>2 DEF InboundInv, Rest, Placed
<1>5. ASSUME NEW t \in Slots PROVE Screened(t)'
  <2>1. CASE t = s
    BY <1>1, <1>2, <1>3, <2>1 DEF InboundInv, Rest, Screened, Idle
  <2>2. CASE t # s
    BY <1>1, <1>2, <2>2 DEF InboundInv, Rest, Screened, Behind, Idle
  <2> QED
    BY <2>1, <2>2
<1>6. ASSUME NEW n \in Msgs PROVE Stored(n)'
  <2>1. Stored(n)
    BY DEF InboundInv, Rest
  <2>2. \A t \in Slots \ {s} : Owes(t, n)' <=> Owes(t, n)
    BY <1>1, <1>2 DEF Owes, Behind
  <2>3. Owes(s, n)' <=> n = req[s]
    BY <1>b, <1>2, <1>3 DEF Owes
  <2>4. InHand(n)' <=> InHand(n)
    BY <1>2 DEF InHand
  <2>5. Allowed(n)' /\ Accepted(n)' /\ Exact(n)'
    BY <1>1, <2>1, <2>4 DEF Stored, Allowed, Accepted, Exact
  <2>6. CASE n # req[s]
    <3>1. ~Owes(s, n) /\ ~Owes(s, n)' /\ (n \in marked' <=> n \in marked)
      BY <1>1, <2>3, <2>6 DEF Owes
    <3>2. Remembered(n)' /\ Once(n)'
      BY <1>1, <2>1, <2>2, <3>1 DEF Stored, Remembered, Once
    <3> QED
      BY <2>5, <3>2 DEF Stored
  <2>7. CASE n = req[s]
    <3>1. Remembered(n)'
      BY <2>3, <2>7 DEF Remembered
    <3>2. Once(n)'
      <4> SUFFICES ASSUME Marks, n \notin lapsed
                   PROVE  stream[n] = 0 /\ n \in marked' /\ \A t \in Slots \ {s} : ~Owes(t, n)'
        BY <1>1 DEF Once
      <4>1. stream[n] \in 0 .. 2
        BY <1>0 DEF TypeOK
      <4>2. n \in marked' /\ n \notin marked
        BY <1>1, <2>7
      <4> QED
        BY <1>b, <2>1, <2>2, <4>1, <4>2 DEF Stored, Once
    <3> QED
      BY <2>5, <3>1, <3>2 DEF Stored
  <2> QED
    BY <2>6, <2>7
<1>7. Clean'
  BY <1>1 DEF InboundInv, Rest, Clean
<1> QED
  BY <1>4, <1>5, <1>6, <1>7 DEF Rest

\* One more copy on the stream: where there are markers, the handler owed it.
LEMMA PublishRest ==
  ASSUME InboundInv, NEW s \in Slots, Publish(s)
  PROVE  Rest'
<1>0. TypeOK /\ kind \in Kinds
  BY DEF InboundInv, TypeOK
<1>1. /\ Step(s) = "publish" /\ Advance(s)
      /\ UNCHANGED <<kind, bare, class, handed, told, marked, lapsed, spoilt, faults>>
  BY DEF Publish, platform, adapterIn
<1>a. /\ pc[s] \in 1 .. Len(Inbound[kind]) /\ Inbound[kind][pc[s]] = "publish"
      /\ req[s] \in Msgs /\ ~Idle(s)
  BY <1>0, <1>1, AtStep
<1>b. /\ Len(Inbound[kind]) \in Nat
      /\ ~Behind(s, "publish")
      /\ kind \in MarkedKinds => Behind(s, "dedup")
      /\ Behind(s, "verify") \/ kind \notin WebhookKinds
      /\ Behind(s, "filter") \/ kind \in Unfiltered
      /\ Behind(s, "own") \/ kind \in OwnUnknown
  BY <1>0, <1>a, Order DEF Behind
<1>c. class[req[s]] \in Lets
  <2>1. Screened(s) /\ class[req[s]] \in Classes(kind)
    BY <1>0, <1>a DEF InboundInv, Rest, TypeOK
  <2> QED
    BY <1>0, <1>a, <1>b, <2>1, LetThrough DEF Screened
<1>d. /\ stream'[req[s]] > 0
      /\ stream[req[s]] = 0 => stream'[req[s]] = 1
      /\ \A n \in Msgs \ {req[s]} : stream'[n] = stream[n]
  BY <1>0, <1>a DEF Publish, TypeOK
<1>2. req' = req /\ pc'[s] = pc[s] + 1 /\ \A t \in Slots \ {s} : pc'[t] = pc[t]
  BY <1>0, <1>1 DEF Advance, TypeOK
<1>3. \A y : Behind(s, y)' <=> Behind(s, y) \/ "publish" = y
  BY <1>a, <1>1, <1>2, PastNext DEF Behind
<1>4. Placed'
  BY <1>a, <1>b, <1>1, <1>2 DEF InboundInv, Rest, Placed
<1>5. ASSUME NEW t \in Slots PROVE Screened(t)'
  <2>1. CASE t = s
    BY <1>1, <1>2, <1>3, <1>d, <2>1 DEF InboundInv, Rest, Screened, Idle
  <2>2. CASE t # s
    <3>1. Idle(t) \/ req[t] \in Msgs
      BY <1>0 DEF TypeOK, Idle
    <3>2. ~Idle(t) /\ stream[req[t]] > 0 => stream'[req[t]] > 0
      BY <1>d, <3>1
    <3> QED
      BY <1>1, <1>2, <2>2, <3>2 DEF InboundInv, Rest, Screened, Behind, Idle
  <2> QED
    BY <2>1, <2>2
<1>6. ASSUME NEW n \in Msgs PROVE Stored(n)'
  <2>1. Stored(n)
    BY DEF InboundInv, Rest
  <2>2. \A t \in Slots \ {s} : Owes(t, n)' <=> Owes(t, n)
    BY <1>1, <1>2 DEF Owes, Behind
  <2>3. ~Owes(s, n)'
    BY <1>3 DEF Owes
  <2>4. InHand(n)' <=> InHand(n)
    BY <1>2 DEF InHand
  <2>5. CASE n # req[s]
    <3>1. stream'[n] = stream[n] /\ ~Owes(s, n)
      BY <1>d, <2>5 DEF Owes
    <3> QED
      BY <1>1, <2>1, <2>2, <2>3, <2>4, <3>1
         DEF Stored, Remembered, Once, Allowed, Accepted, Exact
  <2>6. CASE n = req[s]
    <3>1. Remembered(n)' /\ Allowed(n)' /\ Accepted(n)' /\ Exact(n)'
      BY <1>c, <1>d, <1>1, <2>6 DEF Remembered, Allowed, Accepted, Exact
    <3>2. Once(n)'
      <4> SUFFICES ASSUME Marks, n \notin lapsed
                   PROVE  /\ stream'[n] <= 1 /\ n \in marked
                          /\ \A t \in Slots : ~Owes(t, n)'
        BY <1>1 DEF Once
      <4>1. Owes(s, n)
        BY <1>b, <2>6 DEF Owes
      <4>2. stream[n] = 0 /\ n \in marked /\ \A t \in Slots \ {s} : ~Owes(t, n)
        BY <2>1, <4>1 DEF Stored, Once
      <4> QED
        BY <1>d, <2>2, <2>3, <2>6, <4>2
    <3> QED
      BY <3>1, <3>2 DEF Stored
  <2> QED
    BY <2>5, <2>6
<1>7. Clean'
  BY <1>1 DEF InboundInv, Rest, Clean
<1> QED
  BY <1>4, <1>5, <1>6, <1>7 DEF Rest

LEMMA NextInbound == InboundInv /\ [Next]_vars => InboundInv'
<1> SUFFICES ASSUME InboundInv, [Next]_vars PROVE Rest'
  BY InNextType DEF InboundInv
<1> USE DEF platform, work, adapterIn
<1>0. TypeOK /\ kind \in Kinds
  BY DEF InboundInv, TypeOK
<1>1. ASSUME NEW s \in Slots, NEW m \in Msgs, Hand(s, m) \/ HandAgain(s, m) \/ Take(s, m)
      PROVE  Rest'
  <2>1. Idle(s) /\ Give(s, m) /\ UNCHANGED <<kind, bare, class, told, marked, lapsed, stream, spoilt>>
    BY <1>1 DEF Hand, HandAgain, Take
  <2>2. faults' = 0 => faults = 0
    BY <1>0, <1>1 DEF Hand, HandAgain, Take, TypeOK
  <2> QED
    BY <2>1, <2>2, GiveRest
<1>2. ASSUME NEW s \in Slots, Verify(s) PROVE Rest'
  <2>1. Step(s) = "verify" /\ req[s] \in Msgs /\ ~Idle(s)
    BY <1>0, <1>2, AtStep DEF Verify
  <2>2. UNCHANGED <<kind, bare, class, handed, told, marked, lapsed, stream, spoilt, faults>>
    BY <1>2 DEF Verify
  <2>3. CASE class[req[s]] \in Refused(kind, bare)
    <3>1. Return(s) /\ class[req[s]] \notin Lets
      BY <1>0, <1>2, <2>3, Stopped DEF Verify
    <3> QED
      BY <2>1, <2>2, <3>1, ReturnRest
  <2>4. CASE class[req[s]] \notin Refused(kind, bare)
    <3>1. Advance(s)
      BY <1>2, <2>4 DEF Verify
    <3> QED
      BY <2>1, <2>2, <2>4, <3>1, AdvanceRest
  <2> QED
    BY <2>3, <2>4
<1>3. ASSUME NEW s \in Slots, Filter(s) PROVE Rest'
  <2>1. Step(s) = "filter" /\ req[s] \in Msgs /\ ~Idle(s)
    BY <1>0, <1>3, AtStep DEF Filter
  <2>2. UNCHANGED <<kind, bare, class, handed, marked, lapsed, stream, spoilt, faults>>
    BY <1>3 DEF Filter
  <2>3. CASE class[req[s]] \in Dropped(kind)
    <3>1. /\ Return(s) /\ told \subseteq told' /\ told' \subseteq told \cup {req[s]}
          /\ class[req[s]] \notin Lets
      BY <1>0, <1>3, <2>3, Stopped DEF Filter, Accept
    <3> QED
      BY <2>1, <2>2, <3>1, ReturnRest
  <2>4. CASE class[req[s]] \notin Dropped(kind)
    <3>1. Advance(s) /\ told' = told
      BY <1>3, <2>4 DEF Filter
    <3> QED
      BY <2>1, <2>2, <2>4, <3>1, AdvanceRest
  <2> QED
    BY <2>3, <2>4
<1>12. ASSUME NEW s \in Slots, Own(s) PROVE Rest'
  <2>1. Step(s) = "own" /\ req[s] \in Msgs /\ ~Idle(s)
    BY <1>0, <1>12, AtStep DEF Own
  <2>2. UNCHANGED <<kind, bare, class, handed, marked, lapsed, stream, spoilt, faults>>
    BY <1>12 DEF Own
  <2>3. CASE class[req[s]] = "own" /\ Knows
    <3>1. Return(s) /\ told \subseteq told' /\ told' \subseteq told \cup {req[s]}
      BY <1>12, <2>3 DEF Own, Accept
    <3>2. kind \notin OwnUnknown
      BY <1>0, <2>1, AtStep, Order
    <3>3. class[req[s]] \notin Lets
      BY <1>0, <2>3, <3>2, Stopped
    <3> QED
      BY <2>1, <2>2, <3>1, <3>3, ReturnRest
  <2>4. CASE class[req[s]] # "own" \/ ~Knows
    <3>1. Advance(s) /\ told' = told
      BY <1>12, <2>4 DEF Own
    <3> QED
      BY <2>1, <2>2, <2>4, <3>1, AdvanceRest
  <2> QED
    BY <2>3, <2>4
<1>4. ASSUME NEW s \in Slots, Dedup(s) PROVE Rest'
  <2>1. CASE req[s] \in marked
    <3>1. Return(s) /\ told \subseteq told' /\ told' \subseteq told \cup {req[s]}
      BY <1>4, <2>1 DEF Dedup, Accept
    <3>2. UNCHANGED <<kind, bare, class, handed, marked, lapsed, stream, spoilt, faults>>
      BY <1>4, <2>1 DEF Dedup
    <3>3. req[s] \in Msgs /\ ~Idle(s) /\ kind \notin AckLastKinds /\ ~Behind(s, "dedup")
      BY <1>0, <1>4, AtStep, Order DEF Dedup, MarkedKinds, AckLastKinds, Behind
    <3>4. Remembered(req[s])
      BY <3>3 DEF InboundInv, Rest, Stored
    <3>5. class[req[s]] \in Lets =>
            \/ stream[req[s]] > 0
            \/ req[s] \in spoilt \/ \E t \in Slots \ {s} : Owes(t, req[s])
      BY <2>1, <3>3, <3>4 DEF Remembered, Owes
    <3> QED
      BY <3>1, <3>2, <3>3, <3>5, ReturnRest
  <2>2. CASE req[s] \notin marked
    BY <1>4, <2>2, MarkRest
  <2> QED
    BY <2>1, <2>2
<1>5. ASSUME NEW s \in Slots, Answer(s) PROVE Rest'
  <2>1. PICK x \in {"early", "ok"} : Step(s) = x
    BY <1>5 DEF Answer
  <2>2. /\ Advance(s) /\ told' = told \cup {req[s]}
        /\ UNCHANGED <<kind, bare, class, handed, marked, lapsed, stream, spoilt, faults>>
    BY <1>5 DEF Answer
  <2> QED
    BY <2>1, <2>2, AdvanceRest
<1>6. ASSUME NEW s \in Slots, Publish(s) PROVE Rest'
  BY <1>6, PublishRest
<1>7. ASSUME NEW s \in Slots, End(s) PROVE Rest'
  <2>1. /\ Return(s)
        /\ UNCHANGED <<kind, bare, class, handed, told, marked, lapsed, stream, spoilt, faults>>
    BY <1>7 DEF End
  <2>2. pc[s] = Len(Inbound[kind]) + 1 /\ req[s] \in Msgs /\ ~Idle(s)
    BY <1>0, <1>7, AtEnd DEF End, InboundInv, Rest, Placed
  <2>3. Behind(s, "publish")
    BY <1>0, <2>2, PastEnd DEF Behind
  <2>4. stream[req[s]] > 0
    BY <2>2, <2>3 DEF InboundInv, Rest, Screened
  <2> QED
    BY <2>1, <2>2, <2>4, ReturnRest
<1>8. ASSUME NEW s \in Slots, PublishFails(s) PROVE Rest'
  <2>1. faults' # 0 /\ UNCHANGED <<kind, bare, class, handed, told, stream>>
    BY <1>0, <1>8 DEF PublishFails, TypeOK
  <2>2. CASE kind \in CrashOnThrow
    BY <1>8, <2>1, <2>2, DieRest DEF PublishFails
  <2>3. CASE kind \notin CrashOnThrow
    <3>1. Return(s) /\ Spoil({s}) /\ UNCHANGED <<marked, lapsed>>
      BY <1>8, <2>3 DEF PublishFails
    <3>2. spoilt \subseteq spoilt' /\ (req[s] \in marked \cup told => req[s] \in spoilt')
      BY <3>1 DEF Spoil
    <3>3. ~Idle(s)
      BY <1>0, <1>8, AtStep DEF PublishFails
    <3> QED
      BY <2>1, <3>1, <3>2, <3>3, ReturnRest
  <2> QED
    BY <2>2, <2>3
<1>9. CASE Crash
  <2>1. faults' # 0
    BY <1>0, <1>9 DEF Crash, TypeOK
  <2> QED
    BY <1>9, <2>1, DieRest DEF Crash
<1>10. CASE Fetch \/ Restart \/ Reconnect \/ SocketCloses \/ UNCHANGED vars
  <2>1. UNCHANGED <<kind, bare, class, handed, told, req, pc, marked, lapsed, stream, spoilt>>
    BY <1>10 DEF Fetch, Restart, Reconnect, SocketCloses, vars
  <2>2. faults' = 0 => faults = 0
    BY <1>0, <1>10 DEF Fetch, Restart, Reconnect, SocketCloses, vars, TypeOK
  <2> QED
    BY <2>1, <2>2, InNeutral
<1>11. ASSUME NEW m \in Msgs, Lapse(m) PROVE Rest'
  BY <1>11, InNeutral DEF Lapse
<1> QED
  BY <1>1, <1>2, <1>3, <1>4, <1>5, <1>6, <1>7, <1>8, <1>9, <1>10, <1>11,
     <1>12 DEF Next, Handle

\* The INBOUND stream holds what it should, in any of the sixteen adapters, for any number
\* of messages and handlers and however many writes fail, markers lapse and processes die:
\* all the platform was told is accepted, once while a marker lives, and what users wrote.
THEOREM StreamHoldsWhatItShould == Spec => []StreamIsExact
<1>1. Init => InboundInv
  BY InitInbound
<1>2. InboundInv /\ [Next]_vars => InboundInv'
  BY NextInbound
<1>3. InboundInv => StreamIsExact
  BY InvIsExact
<1> QED
  BY <1>1, <1>2, <1>3, PTL DEF Spec

-----------------------------------------------------------------------------
(* Outbound: type correctness.                                             *)

\* The outbound programs, by their eight orders, and what connect does, by its three.
LEMMA Sends ==
  ASSUME NEW k \in Kinds
  PROVE  \/ k \in {"telegram", "whatsapp", "mtproto"} /\ Outbound[k] = <<"mine">> \o <<"call">>
         \/ k \in {"slack", "homeassistant", "mattermost", "sms", "vk"}
              /\ Outbound[k] = Limited \o <<"call">>
         \/ k = "wecom" /\ Outbound[k] = Limited \o <<"config", "token", "call">>
         \/ k \in {"email", "matrix"} /\ Outbound[k] = Limited \o <<"address", "call">>
         \/ k \in {"feishu", "dingtalk"}
              /\ Outbound[k] = Limited \o (<<"token">> \o <<"call">>)
         \/ k = "webhooks" /\ Outbound[k] = Limited \o <<"config", "call">>
         \/ k = "discord" /\ Outbound[k] = Limited \o <<"lookup", "call">>
         \/ k = "avito"
              /\ Outbound[k] = Limited \o (<<"require">> \o <<"token">> \o <<"call">>)
<1>telegram. CASE k = "telegram"
  <2>1. Outbound[k] = TelegramOutbound \o TelegramSend
    BY <1>telegram DEF Outbound
  <2> QED
    BY <1>telegram, <2>1 DEF TelegramOutbound, TelegramSend
<1>whatsapp. CASE k = "whatsapp"
  <2>1. Outbound[k] = WhatsappOutbound \o WhatsappSend
    BY <1>whatsapp DEF Outbound
  <2> QED
    BY <1>whatsapp, <2>1 DEF WhatsappOutbound, WhatsappSend
<1>mtproto. CASE k = "mtproto"
  <2>1. Outbound[k] = MtprotoOutbound \o MtprotoSend
    BY <1>mtproto DEF Outbound
  <2> QED
    BY <1>mtproto, <2>1 DEF MtprotoOutbound, MtprotoSend
<1>slack. CASE k = "slack"
  <2>1. Outbound[k] = SlackOutbound \o SlackSend
    BY <1>slack DEF Outbound
  <2> QED
    BY <1>slack, <2>1 DEF SlackOutbound, SlackSend
<1>homeassistant. CASE k = "homeassistant"
  <2>1. Outbound[k] = HomeassistantOutbound \o HomeassistantSend
    BY <1>homeassistant DEF Outbound
  <2> QED
    BY <1>homeassistant, <2>1 DEF HomeassistantOutbound, HomeassistantSend
<1>mattermost. CASE k = "mattermost"
  <2>1. Outbound[k] = MattermostOutbound \o MattermostSend
    BY <1>mattermost DEF Outbound
  <2> QED
    BY <1>mattermost, <2>1 DEF MattermostOutbound, MattermostSend
<1>sms. CASE k = "sms"
  <2>1. Outbound[k] = SmsOutbound \o SmsSend
    BY <1>sms DEF Outbound
  <2> QED
    BY <1>sms, <2>1 DEF SmsOutbound, SmsSend
<1>vk. CASE k = "vk"
  <2>1. Outbound[k] = VkOutbound \o VkSend
    BY <1>vk DEF Outbound
  <2> QED
    BY <1>vk, <2>1 DEF VkOutbound, VkSend, VkCall
<1>wecom. CASE k = "wecom"
  <2>1. Outbound[k] = WecomOutbound \o WecomSend
    BY <1>wecom DEF Outbound
  <2> QED
    BY <1>wecom, <2>1 DEF WecomOutbound, WecomSend
<1>email. CASE k = "email"
  <2>1. Outbound[k] = EmailOutbound \o EmailSend
    BY <1>email DEF Outbound
  <2> QED
    BY <1>email, <2>1 DEF EmailOutbound, EmailSend
<1>matrix. CASE k = "matrix"
  <2>1. Outbound[k] = MatrixOutbound \o MatrixSend
    BY <1>matrix DEF Outbound
  <2> QED
    BY <1>matrix, <2>1 DEF MatrixOutbound, MatrixSend
<1>feishu. CASE k = "feishu"
  <2>1. Outbound[k] = FeishuOutbound \o FeishuSend
    BY <1>feishu DEF Outbound
  <2> QED
    BY <1>feishu, <2>1 DEF FeishuOutbound, FeishuSend, FeishuToken
<1>dingtalk. CASE k = "dingtalk"
  <2>1. Outbound[k] = DingtalkOutbound \o DingtalkSend
    BY <1>dingtalk DEF Outbound
  <2> QED
    BY <1>dingtalk, <2>1 DEF DingtalkOutbound, DingtalkSend, DingtalkToken
<1>webhooks. CASE k = "webhooks"
  <2>1. Outbound[k] = WebhooksOutbound \o WebhooksSend
    BY <1>webhooks DEF Outbound
  <2> QED
    BY <1>webhooks, <2>1 DEF WebhooksOutbound, WebhooksSend
<1>discord. CASE k = "discord"
  <2>1. Outbound[k] = DiscordOutbound \o DiscordSend
    BY <1>discord DEF Outbound
  <2> QED
    BY <1>discord, <2>1 DEF DiscordOutbound, DiscordSend
<1>avito. CASE k = "avito"
  <2>1. Outbound[k] = AvitoOutbound \o AvitoSend
    BY <1>avito DEF Outbound
  <2> QED
    BY <1>avito, <2>1 DEF AvitoOutbound, AvitoSend, AvitoToken, AvitoCall
<1> QED
  BY <1>telegram, <1>whatsapp, <1>mtproto, <1>slack, <1>homeassistant, <1>mattermost, <1>sms, <1>vk,
     <1>wecom, <1>email, <1>matrix, <1>feishu, <1>dingtalk, <1>webhooks, <1>discord, <1>avito
  DEF Kinds

LEMMA Connects ==
  ASSUME NEW k \in Kinds
  PROVE  \/ Connect[k] = <<{"listen"}, {"consume", "active"}>>
         \/ Connect[k] = <<{"consume", "active"}>>
         \/ k \in {"telegram", "whatsapp"} /\ Connect[k] = <<{"consume", "listen"}, {"active"}>>
BY DEF Kinds, Connect, SlackConnect, WecomConnect, EmailConnect,
   HomeassistantConnect, FeishuConnect, DingtalkConnect, WebhooksConnect,
   MattermostConnect, DiscordConnect, SmsConnect, AvitoConnect,
   VkConnect, MtprotoConnect, MatrixConnect, TelegramConnect,
   WhatsappConnect

\* connect starts the consumer once, and most adapters are active from then on only.
LEMMA ConnectOrder ==
  ASSUME NEW k \in Kinds, NEW i \in 1 .. Len(Connect[k])
  PROVE  /\ Len(Connect[k]) \in Nat
         /\ "consume" \in Connect[k][i] =>
              \A j \in 1 .. Len(Connect[k]) : j > i => "consume" \notin Connect[k][j]
         /\ "active" \in Connect[k][i] =>
              "consume" \in Connect[k][i] \/ k \in {"telegram", "whatsapp"}
<1>1. CASE Connect[k] = <<{"listen"}, {"consume", "active"}>>
  BY <1>1
<1>2. CASE Connect[k] = <<{"consume", "active"}>>
  BY <1>2
<1>3. CASE k \in {"telegram", "whatsapp"} /\ Connect[k] = <<{"consume", "listen"}, {"active"}>>
  BY <1>3
<1> QED
  BY <1>1, <1>2, <1>3, Connects

LEMMA SendFirst == ASSUME NEW k \in Kinds PROVE 1 \in 1 .. Len(Outbound[k])
BY Sends DEF Limited

\* Every program looks first whose entry it is, and ends with the send.
LEMMA SendOrder ==
  ASSUME NEW k \in Kinds, NEW i \in 1 .. Len(Outbound[k])
  PROVE  /\ Len(Outbound[k]) \in Nat
         /\ Outbound[k][i] = "mine" <=> i = 1
         /\ Outbound[k][i] = "call" <=> i = Len(Outbound[k])
         /\ Outbound[k][i] = "lookup" => k = "discord"
         /\ k = "whatsapp" => Outbound[k][i] \in {"mine", "call"}
<1> DEFINE p == Outbound[k]
<1>1. CASE p = <<"mine">> \o <<"call">> /\ k \in {"telegram", "whatsapp", "mtproto"}
  <2>1. /\ Len(p) = 2
        /\ p[1] = "mine" /\ p[2] = "call"
    BY <1>1 DEF Limited
  <2> QED
    BY <1>1, <2>1
<1>2. CASE p = Limited \o <<"call">> /\ k # "whatsapp"
  <2>1. /\ Len(p) = 3
        /\ p[1] = "mine" /\ p[2] = "rate" /\ p[3] = "call"
    BY <1>2 DEF Limited
  <2> QED
    BY <1>2, <2>1
<1>3. CASE p = Limited \o <<"config", "token", "call">> /\ k # "whatsapp"
  <2>1. /\ Len(p) = 5
        /\ p[1] = "mine" /\ p[2] = "rate" /\ p[3] = "config"
        /\ p[4] = "token" /\ p[5] = "call"
    BY <1>3 DEF Limited
  <2> QED
    BY <1>3, <2>1
<1>4. CASE p = Limited \o <<"address", "call">> /\ k # "whatsapp"
  <2>1. /\ Len(p) = 4
        /\ p[1] = "mine" /\ p[2] = "rate" /\ p[3] = "address"
        /\ p[4] = "call"
    BY <1>4 DEF Limited
  <2> QED
    BY <1>4, <2>1
<1>5. CASE p = Limited \o (<<"token">> \o <<"call">>) /\ k # "whatsapp"
  <2>1. /\ Len(p) = 4
        /\ p[1] = "mine" /\ p[2] = "rate" /\ p[3] = "token"
        /\ p[4] = "call"
    BY <1>5 DEF Limited
  <2> QED
    BY <1>5, <2>1
<1>6. CASE p = Limited \o <<"config", "call">> /\ k # "whatsapp"
  <2>1. /\ Len(p) = 4
        /\ p[1] = "mine" /\ p[2] = "rate" /\ p[3] = "config"
        /\ p[4] = "call"
    BY <1>6 DEF Limited
  <2> QED
    BY <1>6, <2>1
<1>7. CASE p = Limited \o <<"lookup", "call">> /\ k = "discord"
  <2>1. /\ Len(p) = 4
        /\ p[1] = "mine" /\ p[2] = "rate" /\ p[3] = "lookup"
        /\ p[4] = "call"
    BY <1>7 DEF Limited
  <2> QED
    BY <1>7, <2>1
<1>8. CASE p = Limited \o (<<"require">> \o <<"token">> \o <<"call">>) /\ k # "whatsapp"
  <2>1. /\ Len(p) = 5
        /\ p[1] = "mine" /\ p[2] = "rate" /\ p[3] = "require"
        /\ p[4] = "token" /\ p[5] = "call"
    BY <1>8 DEF Limited
  <2> QED
    BY <1>8, <2>1
<1> QED
  BY Sends, <1>1, <1>2, <1>3, <1>4, <1>5, <1>6, <1>7, <1>8

-----------------------------------------------------------------------------

\* A process starts its consumer once, and a consumer at its limit of errors has ended.
Joined(c) ==
  /\ errs[c] < MaxRetries \/ loop[c] = "ended"
  /\ loop[c] = "off" => errs[c] = 0
  /\ \A j \in 1 .. Len(Connect[kind]) :
       (j > conn[c] /\ "consume" \in Connect[kind][j]) => loop[c] = "off"

\* What a move of the consumer of a channel can disturb ...
ProcOK ==
  /\ conn \in [Channels -> Nat]
  /\ loop \in [Channels -> {"off", "group", "read", "handle", "ack", "ended"}]
  /\ batch \in [Channels -> Seq(Nat)]
  /\ pos \in [Channels -> Nat] /\ tries \in [Channels -> Nat]
  /\ errs \in [Channels -> 0 .. MaxRetries]
  /\ \A c \in Channels : batch[c] \in Seq(1 .. given)
  /\ \A c \in Channels : loop[c] \in {"handle", "ack"} => batch[c] # <<>>
  /\ \A c \in Channels : Joined(c)

\* ... and what it leaves alone.
EnvOK ==
  /\ kind \in Kinds /\ silent \subseteq Channels /\ ready \subseteq Channels
  /\ named \in BOOLEAN
  /\ owner \in [Entries -> Channels] /\ class \in [Entries -> EntryClasses]
  /\ written \in 0 .. Last /\ given \in 0 .. written /\ acked \subseteq 1 .. given
  /\ window \in [Channels -> Nat]
  /\ status \in [Channels -> {"disconnected", "active", "error"}]
  /\ sent \in [Entries -> Nat] /\ refused \subseteq Entries
  /\ faults \in Nat /\ idle \in Nat

OutType == ProcOK /\ EnvOK

LEMMA OutTypeIsTyped == ASSUME OutType PROVE OutboundTypeOK
BY DEF OutType, ProcOK, EnvOK, OutboundTypeOK

LEMMA OutInitType == ASSUME OutboundInit PROVE OutType
<1>1. /\ conn = [c \in Channels |-> 0] /\ loop = [c \in Channels |-> "off"]
      /\ batch = [c \in Channels |-> <<>>] /\ pos = [c \in Channels |-> 1]
      /\ tries = [c \in Channels |-> 0] /\ errs = [c \in Channels |-> 0]
      /\ window = [c \in Channels |-> 0] /\ status = [c \in Channels |-> "disconnected"]
  BY DEF OutboundInit, All
<1>2. ProcOK
  BY OutboundAssumption, <1>1 DEF ProcOK, Joined
<1>3. /\ kind \in Kinds /\ silent \subseteq Channels /\ ready \subseteq Channels
      /\ named \in BOOLEAN
  BY DEF OutboundInit
<1>4. owner \in [Entries -> Channels] /\ class \in [Entries -> EntryClasses]
  BY DEF OutboundInit, Matters, EntryClasses
<1>5. EnvOK
  BY OutboundAssumption, <1>1, <1>3, <1>4 DEF EnvOK, OutboundInit
<1> QED
  BY <1>2, <1>5 DEF OutType

\* A move of the consumer of one channel: to the next step, the acknowledgement or the
\* next entry.
Moves(c) ==
  /\ Goes(c) \/ Returns(c) \/ Onward(c)
  /\ loop[c] \in {"handle", "ack"}
  /\ UNCHANGED <<kind, given, conn>>

\* What an action of channel c does to the process of another channel.
Elsewhere(c) ==
  \A d \in Channels \ {c} :
    /\ conn'[d] = conn[d] /\ loop'[d] = loop[d] /\ batch'[d] = batch[d]
    /\ pos'[d] = pos[d] /\ tries'[d] = tries[d] /\ errs'[d] = errs[d]

LEMMA TailOf ==
  ASSUME NEW S, NEW q \in Seq(S), q # <<>>
  PROVE  /\ Tail(q) \in Seq(S) /\ Len(q) \in Nat /\ Len(q) > 0
         /\ Len(Tail(q)) = Len(q) - 1 /\ (Len(q) # 1 => Tail(q) # <<>>)
<1> DEFINE t == Tail(q)
<1>1. t \in Seq(S) /\ Len(t) = Len(q) - 1
  BY HeadTailProperties, Zenon
<1>2. Len(q) \in Nat /\ Len(q) > 0
  OBVIOUS
<1> HIDE DEF t
<1>3. t = <<>> => Len(t) = 0
  OBVIOUS
<1>4. Len(q) # 1 => t # <<>>
  BY <1>1, <1>2, <1>3
<1> QED
  BY <1>1, <1>2, <1>4 DEF t

LEMMA MovesType ==
  ASSUME OutType, NEW c \in Channels, Moves(c)
  PROVE  ProcOK'
<1>1. /\ batch[c] \in Seq(Nat) /\ batch[c] \in Seq(1 .. given) /\ batch[c] # <<>>
  BY DEF OutType, ProcOK, Moves
<1>2. /\ Tail(batch[c]) \in Seq(Nat) /\ Tail(batch[c]) \in Seq(1 .. given)
      /\ Len(batch[c]) # 1 => Tail(batch[c]) # <<>>
  BY <1>1, TailOf
<1>3. \A d \in Channels : Joined(d)'
  <2> SUFFICES ASSUME NEW d \in Channels PROVE Joined(d)'
    OBVIOUS
  <2>1. UNCHANGED <<kind, conn>> /\ Joined(d) /\ Joined(c)
    BY DEF OutType, ProcOK, Moves
  <2>2. \/ loop'[d] = loop[d] /\ errs'[d] = errs[d]
        \/ /\ loop[d] \in {"handle", "ack"} /\ loop'[d] \in {"read", "handle", "ack"}
           /\ errs'[d] = errs[d] \/ errs'[d] = 0
    BY DEF OutType, ProcOK, Moves, Goes, Returns, Onward
  <2>3. errs[d] \in 0 .. MaxRetries /\ MaxRetries \in Nat \ {0}
    BY OutboundAssumption DEF OutType, ProcOK
  <2> QED
    BY <2>1, <2>2, <2>3 DEF Joined
<1>4. CASE Goes(c)
  BY <1>1, <1>3, <1>4 DEF OutType, ProcOK, Moves, Goes
<1>5. CASE Returns(c)
  BY <1>1, <1>3, <1>5 DEF OutType, ProcOK, Moves, Returns
<1>6. CASE Onward(c)
  <2>1. /\ loop' \in [Channels -> {"off", "group", "read", "handle", "ack", "ended"}]
        /\ batch' \in [Channels -> Seq(Nat)]
        /\ pos' \in [Channels -> Nat] /\ tries' \in [Channels -> Nat]
        /\ errs' \in [Channels -> 0 .. MaxRetries]
    BY OutboundAssumption, <1>2, <1>6, SMTT(30) DEF OutType, ProcOK, Onward
  <2>2. ASSUME NEW d \in Channels
        PROVE  batch'[d] \in Seq(1 .. given) /\ (loop'[d] \in {"handle", "ack"} => batch'[d] # <<>>)
    BY <1>2, <1>6 DEF OutType, ProcOK, Onward
  <2> QED
    BY <1>3, <2>1, <2>2 DEF OutType, ProcOK, Moves
<1> QED
  BY <1>4, <1>5, <1>6 DEF Moves
LEMMA EntryOf ==
  ASSUME OutType, NEW c \in Channels, loop[c] \in {"handle", "ack"}
  PROVE  Entry(c) \in Entries /\ Entry(c) \in 1 .. given
<1>1. batch[c] \in Seq(1 .. given) /\ batch[c] # <<>>
  BY DEF OutType, ProcOK
<1>2. Head(batch[c]) \in 1 .. given
  BY <1>1, HeadTailProperties, Zenon
<1> QED
  BY OutboundAssumption, <1>2 DEF OutType, EnvOK, Entry, Entries

LEMMA FailedStatusType ==
  ASSUME EnvOK, NEW c \in Channels, NEW s \in FailedStatus(c)
  PROVE  s \in [Channels -> {"disconnected", "active", "error"}]
<1>1. s = status \/ s = [status EXCEPT ![c] = "error"]
  BY DEF FailedStatus
<1> QED
  BY <1>1 DEF EnvOK

\* The acknowledgement and the steps of a program ...
LEMMA HandleMoves ==
  ASSUME NEW c \in Channels, OutType,
         Ack(c) \/ HandleEntry(c)
  PROVE  Moves(c)
<1>1. CASE Ack(c)
  BY <1>1 DEF Ack, Moves, adapter, log
<1>2. CASE HandleEntry(c)
  BY <1>2 DEF HandleEntry, Mine, Rate, Address, Config, Prepare, Call,
     At, Throws, Moves, adapter, log
<1> QED
  BY <1>1, <1>2

LEMMA HandleEnv ==
  ASSUME OutType, NEW c \in Channels,
         Ack(c) \/ HandleEntry(c) \/ CallFails(c)
  PROVE  EnvOK'
<1>1. loop[c] \in {"handle", "ack"}
  BY DEF Ack, HandleEntry, Mine, Rate, Address, Config, Prepare,
     Call, CallFails, At
<1>2. Entry(c) \in Entries /\ Entry(c) \in 1 .. given
  BY <1>1, EntryOf
<1>3. EnvOK
  BY DEF OutType
<1>4. CASE Ack(c)
  <2>1. faults' \in Nat
    BY <1>3, <1>4 DEF Ack, Fault, EnvOK
  <2>2. given' = given /\ acked' \subseteq 1 .. given
    BY <1>2, <1>3, <1>4 DEF Ack, EnvOK
  <2> QED
    BY <1>3, <1>4, <2>1, <2>2 DEF EnvOK, Ack, adapter, log
<1>5. CASE Mine(c)
  BY <1>3, <1>5 DEF EnvOK, Mine, adapter, log
<1>6. CASE Rate(c)
  BY <1>2, <1>3, <1>6 DEF EnvOK, Rate, adapter, log
<1>7. CASE Address(c)
  BY <1>3, <1>7 DEF EnvOK, Address, adapter, log
<1>8. CASE Config(c)
  BY <1>3, <1>8 DEF EnvOK, Config, adapter, log
<1>9. CASE Prepare(c)
  <2>1. status' \in [Channels -> {"disconnected", "active", "error"}]
    BY <1>3, <1>9, FailedStatusType DEF Prepare, EnvOK
  <2>2. faults' \in Nat
    BY <1>3, <1>9 DEF Prepare, Fault, EnvOK
  <2> QED
    BY <1>3, <1>9, <2>1, <2>2 DEF EnvOK, Prepare, adapter, log
<1>10. CASE Call(c)
  BY <1>2, <1>3, <1>10 DEF EnvOK, Call, adapter, log
<1>11. CASE CallFails(c)
  <2>1. status' \in [Channels -> {"disconnected", "active", "error"}]
    BY <1>3, <1>11, FailedStatusType DEF CallFails, EnvOK
  <2>2. faults' \in Nat
    BY <1>3, <1>11 DEF CallFails, Fault, EnvOK
  <2>3. sent' \in [Entries -> Nat]
    BY <1>2, <1>3, <1>11 DEF CallFails, EnvOK
  <2> QED
    BY <1>3, <1>11, <2>1, <2>2, <2>3 DEF EnvOK, CallFails, adapter, log
<1> QED
  BY <1>4, <1>5, <1>6, <1>7, <1>8, <1>9, <1>10, <1>11 DEF HandleEntry

\* ... and a send that fails, which may be tried again: that counts and moves nothing.
Retries(c) ==
  /\ loop[c] = "handle"
  /\ tries' = [tries EXCEPT ![c] = @ + 1]
  /\ UNCHANGED <<kind, given, conn, loop, batch, pos, errs>>

LEMMA FailsMoves ==
  ASSUME NEW c \in Channels, OutType, CallFails(c)
  PROVE  Moves(c) \/ (Retries(c) /\ tries[c] + 1 < Attempts(kind))
BY DEF CallFails, At, Throws, Moves, Retries, adapter, log

LEMMA RetriesType ==
  ASSUME OutType, NEW c \in Channels, Retries(c)
  PROVE  ProcOK'
<1>1. tries' \in [Channels -> Nat]
  BY DEF OutType, ProcOK, Retries
<1>2. \A d \in Channels : Joined(d)'
  BY DEF OutType, ProcOK, Retries, Joined
<1> QED
  BY <1>1, <1>2 DEF OutType, ProcOK, Retries

\* The actions of the transport and of the process.
LEMMA ReadType ==
  ASSUME OutType, NEW c \in Channels, Read(c)
  PROVE  /\ OutType'
         /\ batch'[c] # <<>>
         /\ \A i \in 1 .. Len(batch'[c]) : batch'[c][i] = given + i
         /\ given' >= given
<1> DEFINE n == IF written - given < BatchSize THEN written - given ELSE BatchSize
           b == SubSeq(NewEntries(c), 1, n)
<1>1. written \in Nat /\ given \in Nat /\ written - given \in Nat
  BY OutboundAssumption DEF OutType, EnvOK
<1>2. NewEntries(c) = [i \in 1 .. written - given |-> given + i]
  BY DEF NewEntries
<1>3. Len(NewEntries(c)) = written - given /\ NewEntries(c) \in Seq(Nat)
  BY <1>1, <1>2
<1>4. written - given # 0
  BY <1>1, <1>2, <1>3 DEF Read
<1>5. n \in 1 .. written - given /\ n \in Nat
  BY OutboundAssumption, <1>1, <1>4
<1>6. b \in Seq(Nat) /\ Len(b) = n /\ \A i \in 1 .. n : b[i] = given + i
  BY <1>1, <1>2, <1>3, <1>5
<1>7. batch' = [batch EXCEPT ![c] = b]
  BY <1>3 DEF Read
<1> HIDE DEF n, b
<1>8. b # <<>> /\ Head(b) = given + 1
  BY <1>5, <1>6
<1>9. /\ batch'[c] = b /\ batch' \in [Channels -> Seq(Nat)]
      /\ \A d \in Channels \ {c} : batch'[d] = batch[d]
  BY <1>6, <1>7 DEF OutType, ProcOK
<1>10. given' = given + n
  BY <1>1, <1>5, <1>6, <1>8, <1>9 DEF Read
<1>11. given' \in 0 .. written /\ given' \in Nat /\ given' >= given
  BY <1>1, <1>5, <1>10
<1>12. \A d \in Channels : batch'[d] \in Seq(1 .. given')
  <2>1. b \in Seq(1 .. given')
    BY <1>1, <1>5, <1>6, <1>10
  <2>2. ASSUME NEW d \in Channels PROVE batch[d] \in Seq(1 .. given')
    <3>1. batch[d] \in Seq(1 .. given)
      BY DEF OutType, ProcOK
    <3> QED
      BY <1>1, <1>11, <3>1
  <2> QED
    BY <1>9, <2>1, <2>2
<1>13. EnvOK'
  <2>1. acked' \subseteq 1 .. given'
    BY OutboundAssumption, <1>1, <1>11 DEF OutType, EnvOK, Read
  <2> QED
    BY <1>11, <2>1 DEF OutType, EnvOK, Read, adapter, log
<1>14. \A d \in Channels : Joined(d)'
  BY DEF OutType, ProcOK, Joined, Read, adapter
<1>15. \A d \in Channels : loop'[d] \in {"handle", "ack"} => batch'[d] # <<>>
  BY <1>8, <1>9 DEF OutType, ProcOK, Read
<1>16. ProcOK'
  BY <1>9, <1>12, <1>14, <1>15 DEF OutType, ProcOK, Read
<1> QED
  BY <1>6, <1>8, <1>9, <1>11, <1>13, <1>16 DEF OutType

LEMMA EnsureType ==
  ASSUME OutType, NEW c \in Channels, EnsureGroup(c)
  PROVE  OutType'
<1>1. status' \in [Channels -> {"disconnected", "active", "error"}] /\ faults' \in Nat
  BY DEF OutType, EnvOK, EnsureGroup, Ends, Fault
<1>2. EnvOK'
  BY <1>1 DEF OutType, EnvOK, EnsureGroup, adapter, log
<1>3. loop' \in [Channels -> {"off", "group", "read", "handle", "ack", "ended"}]
      /\ loop'[c] \in {"read", "ended"} /\ \A d \in Channels \ {c} : loop'[d] = loop[d]
  BY DEF OutType, ProcOK, EnsureGroup, Ends
<1>4. UNCHANGED <<kind, conn, batch, pos, tries, errs, given>>
  BY DEF EnsureGroup, adapter, log
<1>5. \A d \in Channels : Joined(d)'
  BY <1>3, <1>4 DEF OutType, ProcOK, Joined, EnsureGroup
<1>6. \A d \in Channels : loop'[d] \in {"handle", "ack"} => batch'[d] # <<>>
  BY <1>3, <1>4 DEF OutType, ProcOK
<1> QED
  BY <1>2, <1>3, <1>4, <1>5, <1>6 DEF OutType, ProcOK

LEMMA FailsType ==
  ASSUME OutType, NEW c \in Channels, ReadFails(c)
  PROVE  OutType'
<1>1. status' \in [Channels -> {"disconnected", "active", "error"}] /\ faults' \in Nat
  BY DEF OutType, EnvOK, ReadFails, Ends, Fault
<1>2. EnvOK'
  BY <1>1 DEF OutType, EnvOK, ReadFails, adapter, log
<1>3. errs[c] < MaxRetries /\ errs[c] \in Nat
  BY DEF OutType, ProcOK, Joined, ReadFails
<1>4. /\ errs' \in [Channels -> 0 .. MaxRetries] /\ errs'[c] = errs[c] + 1
      /\ \A d \in Channels \ {c} : errs'[d] = errs[d]
  BY OutboundAssumption, <1>3 DEF OutType, ProcOK, ReadFails
<1>5. /\ loop' \in [Channels -> {"off", "group", "read", "handle", "ack", "ended"}]
      /\ loop'[c] = IF errs'[c] >= MaxRetries THEN "ended" ELSE "read"
      /\ \A d \in Channels \ {c} : loop'[d] = loop[d]
  BY DEF OutType, ProcOK, ReadFails, Ends
<1>6. UNCHANGED <<kind, conn, batch, pos, tries, given>>
  BY DEF ReadFails, adapter, log
<1>7. ASSUME NEW d \in Channels PROVE Joined(d)'
  <2>1. CASE d = c
    BY OutboundAssumption, <1>3, <1>4, <1>5, <1>6, <2>1 DEF OutType, ProcOK, Joined, ReadFails
  <2>2. CASE d # c
    BY <1>4, <1>5, <1>6, <2>2 DEF OutType, ProcOK, Joined
  <2> QED
    BY <2>1, <2>2
<1>8. \A d \in Channels : loop'[d] \in {"handle", "ack"} => batch'[d] # <<>>
  BY <1>5, <1>6 DEF OutType, ProcOK
<1> QED
  BY <1>2, <1>4, <1>5, <1>6, <1>7, <1>8 DEF OutType, ProcOK

LEMMA ConnectType ==
  ASSUME OutType, NEW c \in Channels, ConnectStep(c)
  PROVE  OutType'
<1> DEFINE block == Connect[kind][conn[c] + 1]
<1>1. kind \in Kinds /\ conn[c] \in Nat /\ Len(Connect[kind]) \in Nat
      /\ conn[c] + 1 \in 1 .. Len(Connect[kind])
  <2>1. kind \in Kinds /\ conn[c] \in Nat /\ conn[c] < Len(Connect[kind])
    BY DEF OutType, EnvOK, ProcOK, ConnectStep
  <2>2. Len(Connect[kind]) \in Nat
    BY <2>1, Connects
  <2> QED
    BY <2>1, <2>2
<1>2. status' \in [Channels -> {"disconnected", "active", "error"}]
  BY DEF OutType, EnvOK, ConnectStep
<1>3. EnvOK'
  BY <1>2 DEF OutType, EnvOK, ConnectStep, adapter, log
<1>4. /\ loop' \in [Channels -> {"off", "group", "read", "handle", "ack", "ended"}]
      /\ loop'[c] = IF "consume" \in block THEN "group" ELSE loop[c]
      /\ \A d \in Channels \ {c} : loop'[d] = loop[d]
  BY DEF OutType, ProcOK, ConnectStep
<1>5. /\ conn' \in [Channels -> Nat] /\ conn'[c] = conn[c] + 1
      /\ \A d \in Channels \ {c} : conn'[d] = conn[d]
  BY DEF OutType, ProcOK, ConnectStep
<1>6. UNCHANGED <<kind, batch, pos, tries, errs, given>>
  BY DEF ConnectStep, adapter, log
<1>7. ASSUME NEW d \in Channels PROVE Joined(d)'
  <2>1. CASE d = c /\ "consume" \in block
    <3>1. loop[c] = "off" /\ errs[c] = 0
      BY <1>1, <2>1 DEF OutType, ProcOK, Joined
    <3>2. \A j \in 1 .. Len(Connect[kind]) :
            j > conn[c] + 1 => "consume" \notin Connect[kind][j]
      BY <1>1, <2>1, ConnectOrder
    <3> QED
      BY OutboundAssumption, <1>4, <1>5, <1>6, <2>1, <3>1, <3>2 DEF Joined
  <2>2. CASE d = c /\ "consume" \notin block
    <3>1. /\ errs[c] < MaxRetries \/ loop[c] = "ended"
          /\ loop[c] = "off" => errs[c] = 0
          /\ \A j \in 1 .. Len(Connect[kind]) :
               (j > conn[c] /\ "consume" \in Connect[kind][j]) => loop[c] = "off"
      BY DEF OutType, ProcOK, Joined
    <3>2. loop'[c] = loop[c] /\ errs' = errs /\ kind' = kind
      BY <1>4, <1>6, <2>2
    <3>3. \A j \in 1 .. Len(Connect[kind]) : j > conn'[c] => j > conn[c]
      BY <1>1, <1>5
    <3> QED
      BY <2>2, <3>1, <3>2, <3>3 DEF Joined
  <2>3. CASE d # c
    BY <1>4, <1>5, <1>6, <2>3 DEF OutType, ProcOK, Joined
  <2> QED
    BY <2>1, <2>2, <2>3
<1>8. \A d \in Channels : loop'[d] \in {"handle", "ack"} => batch'[d] # <<>>
  BY <1>4, <1>6 DEF OutType, ProcOK
<1> QED
  BY <1>3, <1>4, <1>5, <1>6, <1>7, <1>8 DEF OutType, ProcOK

LEMMA RestartType ==
  ASSUME OutType, NEW c \in Channels, StartAgain(c)
  PROVE  OutType'
<1>1. status' \in [Channels -> {"disconnected", "active", "error"}] /\ faults' \in Nat
      /\ window' \in [Channels -> Nat]
  BY DEF OutType, EnvOK, StartAgain, Fault
<1>2. EnvOK'
  BY <1>1 DEF OutType, EnvOK, StartAgain, adapter, log
<1>3. /\ conn' \in [Channels -> Nat] /\ pos' \in [Channels -> Nat] /\ tries' \in [Channels -> Nat]
      /\ loop' \in [Channels -> {"off", "group", "read", "handle", "ack", "ended"}]
      /\ errs' \in [Channels -> 0 .. MaxRetries]
  BY OutboundAssumption DEF OutType, ProcOK, StartAgain
<1>4. <<>> \in Seq(Nat) /\ <<>> \in Seq(1 .. given)
  OBVIOUS
<1>5. batch' \in [Channels -> Seq(Nat)] /\ \A d \in Channels : batch'[d] \in Seq(1 .. given)
  BY <1>4 DEF OutType, ProcOK, StartAgain
<1>6. /\ loop'[c] = "off" /\ errs'[c] = 0 /\ conn'[c] = 0
      /\ \A d \in Channels \ {c} : /\ loop'[d] = loop[d] /\ errs'[d] = errs[d]
                                   /\ conn'[d] = conn[d] /\ batch'[d] = batch[d]
  BY DEF OutType, ProcOK, StartAgain
<1>7. kind' = kind /\ given' = given
  BY DEF StartAgain, adapter
<1>8. ASSUME NEW d \in Channels
      PROVE  Joined(d)' /\ (loop'[d] \in {"handle", "ack"} => batch'[d] # <<>>)
  <2>1. CASE d = c
    BY OutboundAssumption, <1>6, <1>7, <2>1 DEF Joined
  <2>2. CASE d # c
    BY <1>6, <1>7, <2>2 DEF OutType, ProcOK, Joined
  <2> QED
    BY <2>1, <2>2
<1> QED
  BY <1>2, <1>3, <1>5, <1>7, <1>8 DEF OutType, ProcOK

\* What leaves the consumers alone.
OutQuiet(c) ==
  \/ Write \/ ReadNothing(c) \/ ClientEvent(c) \/ UNCHANGED outboundVars
  \/ c \in Channels /\ Tick(c)

LEMMA QuietFrame ==
  ASSUME NEW c, OutQuiet(c)
  PROVE  UNCHANGED <<kind, silent, named, owner, class, given, conn, loop, batch, pos, tries, errs,
                     sent, refused, acked>>
BY DEF OutQuiet, Write, ReadNothing, Tick, ClientEvent, adapter,
   log, process, outboundVars

LEMMA QuietType ==
  ASSUME OutType, NEW c, OutQuiet(c)
  PROVE  OutType'
<1>1. ProcOK'
  BY QuietFrame DEF OutType, ProcOK, Joined
<1> SUFFICES EnvOK'
  BY <1>1 DEF OutType
<1>2. EnvOK
  BY DEF OutType
<1>3. CASE Write
  BY OutboundAssumption, <1>2, <1>3 DEF EnvOK, Write, adapter, process
<1>4. CASE ReadNothing(c)
  BY <1>2, <1>4 DEF EnvOK, ReadNothing, adapter, log, process
<1>5. CASE c \in Channels /\ Tick(c)
  BY <1>2, <1>5 DEF EnvOK, Tick, adapter, log
<1>6. CASE ClientEvent(c)
  <2>1. status' \in [Channels -> {"disconnected", "active", "error"}] /\ faults' \in Nat
    BY OutboundAssumption, <1>2, <1>6, SMTT(30) DEF EnvOK, ClientEvent, Fault
  <2> QED
    BY <1>2, <1>6, <2>1 DEF EnvOK, ClientEvent, adapter, log
<1>7. CASE UNCHANGED outboundVars
  BY <1>2, <1>7 DEF EnvOK, outboundVars, adapter, log, process
<1> QED
  BY <1>3, <1>4, <1>5, <1>6, <1>7 DEF OutQuiet

\* Every step is one channel's, or none's.
LEMMA OutSteps ==
  ASSUME [OutboundNext]_outboundVars
  PROVE  \/ Write \/ UNCHANGED outboundVars
         \/ \E c \in Channels :
              \/ OutQuiet(c) \/ EnsureGroup(c) \/ Read(c) \/ ReadFails(c)
              \/ Ack(c) \/ HandleEntry(c) \/ CallFails(c) \/ ConnectStep(c)
              \/ StartAgain(c)
BY DEF OutboundNext, Consume, OutQuiet

LEMMA OutNextType ==
  ASSUME OutType, [OutboundNext]_outboundVars
  PROVE  OutType'
<1>1. CASE Write \/ UNCHANGED outboundVars
  <2>1. OutQuiet(0)
    BY <1>1 DEF OutQuiet
  <2> QED
    BY <2>1, QuietType
<1>2. ASSUME NEW c \in Channels, OutQuiet(c) PROVE OutType'
  BY <1>2, QuietType
<1>3. ASSUME NEW c \in Channels, EnsureGroup(c) PROVE OutType'
  BY <1>3, EnsureType
<1>4. ASSUME NEW c \in Channels, Read(c) PROVE OutType'
  BY <1>4, ReadType
<1>5. ASSUME NEW c \in Channels, ReadFails(c) PROVE OutType'
  BY <1>5, FailsType
<1>6. ASSUME NEW c \in Channels, Ack(c) \/ HandleEntry(c) PROVE OutType'
  BY <1>6, HandleMoves, HandleEnv, MovesType DEF OutType
<1>7. ASSUME NEW c \in Channels, CallFails(c) PROVE OutType'
  BY <1>7, FailsMoves, HandleEnv, MovesType, RetriesType DEF OutType
<1>8. ASSUME NEW c \in Channels, ConnectStep(c) PROVE OutType'
  BY <1>8, ConnectType
<1>9. ASSUME NEW c \in Channels, StartAgain(c) PROVE OutType'
  BY <1>9, RestartType
<1> QED
  BY <1>1, <1>2, <1>3, <1>4, <1>5, <1>6, <1>7, <1>8, <1>9, OutSteps

\* Every reachable state of the outbound side is well typed: in particular a
\* consumer that handles or acknowledges has an entry in hand, no process is given an entry
\* that was not written, and no consumer goes on past its limit of errors.
THEOREM OutboundTypes == OutboundSpec => []OutboundTypeOK
<1>1. OutboundInit => OutType
  BY OutInitType
<1>2. OutType /\ [OutboundNext]_outboundVars => OutType'
  BY OutNextType
<1>3. OutType => OutboundTypeOK
  BY OutTypeIsTyped
<1> QED
  BY <1>1, <1>2, <1>3, PTL DEF OutboundSpec

-----------------------------------------------------------------------------
(* Outbound: what reaches the platform.                                    *)

\* Entries come in the order of the stream.
Rising(c) == \A i, j \in 1 .. Len(batch[c]) : i < j => batch[c][i] < batch[c][j]

\* An entry gets past the first step in its own channel's hands only, and is not tried
\* once the attempts are used up.
Handling(c) ==
  loop[c] = "handle" =>
    /\ pos[c] \in 1 .. Len(Outbound[kind])
    /\ pos[c] > 1 => named /\ owner[Entry(c)] = c
    /\ tries[c] < Attempts(kind)

Drained(c) == loop[c] \notin {"handle", "ack"} => batch[c] = <<>> /\ tries[c] = 0

AckedOne(c) ==
  (named /\ loop[c] = "ack" /\ owner[Entry(c)] = c /\ class[Entry(c)] # "notice") =>
    \/ sent[Entry(c)] > 0 \/ Entry(c) \in refused \/ c \in silent
    \/ kind = "discord" \/ (kind = "whatsapp" /\ tries[c] = 4)

Work(c) == Rising(c) /\ Handling(c) /\ Drained(c) /\ AckedOne(c)

\* What has reached the platform was given to its channel, which holds nothing earlier; it
\* is held itself only until it is acknowledged, or while failed sends are tried again.
Later(e) ==
  sent[e] > 0 =>
    /\ e <= given
    /\ \A i \in 1 .. Len(batch[owner[e]]) : batch[owner[e]][i] >= e
    /\ batch[owner[e]] # <<>> /\ Head(batch[owner[e]]) = e =>
         \/ loop[owner[e]] = "ack"
         \/ loop[owner[e]] = "handle" /\ sent[e] <= tries[owner[e]]

Bounded(e) == sent[e] <= Attempts(kind) /\ (sent[e] > 0 => named)

OutboundInv ==
  /\ OutType
  /\ \A c \in Channels : Work(c)
  /\ \A e \in Entries : Later(e) /\ Bounded(e)
  /\ ActiveConsumes

LEMMA InvIsSent ==
  ASSUME OutboundInv PROVE SentAndAcked
<1>1. SentAtMost
  <2> SUFFICES ASSUME NEW e \in Entries
               PROVE  sent[e] <= CASE kind = "whatsapp" -> 5 [] kind = "mtproto" -> 3
                                   [] OTHER -> 1
    BY DEF SentAtMost
  <2>1. sent[e] <= Attempts(kind)
    BY DEF OutboundInv, Bounded
  <2> QED
    BY <2>1 DEF Attempts, WhatsappAttempts, MtprotoAttempts
<1>2. named => AckedIsSent
  BY DEF OutboundInv, Work, AckedOne, AckedIsSent
<1>3. FlatIsLost
  BY DEF OutboundInv, OutType, EnvOK, Bounded, FlatIsLost
<1> QED
  BY <1>1, <1>2, <1>3 DEF SentAndAcked, OutboundInv

LEMMA OutInitInv == ASSUME OutboundInit PROVE OutboundInv
<1>1. OutType
  BY OutInitType
<1>2. /\ loop = [c \in Channels |-> "off"] /\ batch = [c \in Channels |-> <<>>]
      /\ tries = [c \in Channels |-> 0] /\ status = [c \in Channels |-> "disconnected"]
      /\ sent = [e \in Entries |-> 0]
  BY DEF OutboundInit, All
<1>3. \A c \in Channels : Work(c)
  BY <1>2 DEF Work, Rising, Handling, Drained, AckedOne
<1>4. \A e \in Entries : Later(e) /\ Bounded(e)
  BY <1>2 DEF Later, Bounded, Attempts, WhatsappAttempts, MtprotoAttempts
<1>5. ActiveConsumes
  BY <1>2 DEF ActiveConsumes
<1> QED
  BY <1>1, <1>3, <1>4, <1>5 DEF OutboundInv

\* The send of the entry in hand, by the channel it belongs to.
Reaches(c) ==
  /\ named /\ owner[Entry(c)] = c
  /\ sent' = [sent EXCEPT ![Entry(c)] = @ + 1]

\* What a step of channel c leaves to the other channels and their entries.
Frame(c) ==
  /\ Elsewhere(c) /\ UNCHANGED <<kind, silent, named, owner, class>>
  /\ given' >= given /\ refused \subseteq refused'
  /\ sent' = sent \/ (loop[c] = "handle" /\ Reaches(c))

LEMMA FrameSent ==
  ASSUME OutType, NEW c \in Channels, Frame(c)
  PROVE  /\ \A e \in Entries : sent'[e] \in Nat /\ sent[e] \in Nat /\ sent'[e] >= sent[e]
         /\ \A e \in Entries : owner[e] # c => sent'[e] = sent[e]
<1>1. loop[c] = "handle" => Entry(c) \in Entries
  BY EntryOf
<1> QED
  BY <1>1 DEF OutType, EnvOK, Frame, Reaches

LEMMA FrameWork ==
  ASSUME OutboundInv, NEW c \in Channels, Frame(c),
         NEW d \in Channels, d # c
  PROVE  Work(d)'
<1>1. /\ loop'[d] = loop[d] /\ batch'[d] = batch[d] /\ pos'[d] = pos[d] /\ tries'[d] = tries[d]
      /\ Work(d) /\ UNCHANGED <<kind, silent, named, owner, class>> /\ refused \subseteq refused'
  BY DEF OutboundInv, Frame, Elsewhere
<1>2. Rising(d)' /\ Handling(d)' /\ Drained(d)'
  BY <1>1 DEF Work, Rising, Handling, Drained, Entry
<1>3. AckedOne(d)'
  <2> SUFFICES ASSUME loop[d] = "ack" PROVE AckedOne(d)'
    BY <1>1 DEF AckedOne
  <2>1. Entry(d) \in Entries /\ Entry(d)' = Entry(d)
    BY <1>1, EntryOf DEF OutboundInv, Entry
  <2>2. sent'[Entry(d)] >= sent[Entry(d)] /\ sent'[Entry(d)] \in Nat
        /\ sent[Entry(d)] \in Nat
    BY <2>1, FrameSent DEF OutboundInv
  <2> QED
    BY <1>1, <2>1, <2>2 DEF Work, AckedOne
<1> QED
  BY <1>2, <1>3 DEF Work

LEMMA FrameLater ==
  ASSUME OutboundInv, OutType', NEW c \in Channels, Frame(c),
         NEW e \in Entries, owner[e] # c
  PROVE  Later(e)' /\ Bounded(e)'
<1> DEFINE d == owner[e]
<1>1. d \in Channels /\ sent'[e] = sent[e] /\ sent[e] \in Nat
  BY FrameSent DEF OutboundInv, OutType, EnvOK
<1>2. /\ loop'[d] = loop[d] /\ batch'[d] = batch[d] /\ tries'[d] = tries[d]
      /\ owner' = owner /\ kind' = kind /\ named' = named
  BY <1>1 DEF Frame, Elsewhere
<1>3. Later(e) /\ Bounded(e) /\ given' >= given /\ given \in Nat /\ given' \in Nat /\ e \in Nat
  BY OutboundAssumption DEF OutboundInv, OutType, EnvOK, Frame, Entries
<1> QED
  BY <1>1, <1>2, <1>3 DEF Later, Bounded

\* So a step of channel c is about channel c and its entries.
LEMMA FrameInv ==
  ASSUME OutboundInv, OutType', ActiveConsumes',
         NEW c \in Channels, Frame(c), Work(c)',
         \A e \in Entries : owner[e] = c => Later(e)' /\ Bounded(e)'
  PROVE  OutboundInv'
<1>1. \A d \in Channels : Work(d)'
  BY FrameWork
<1>2. \A e \in Entries : Later(e)' /\ Bounded(e)'
  BY FrameLater
<1> QED
  BY <1>1, <1>2 DEF OutboundInv, Entries

\* The four ways a step of a handler goes.
Keeps == UNCHANGED <<kind, silent, named, owner, class, given, conn>> /\ refused \subseteq refused'

Pass(c) ==
  /\ loop[c] = "handle" /\ Goes(c) /\ sent' = sent
  /\ pos[c] < Len(Outbound[kind])
  /\ pos[c] = 1 => named /\ owner[Entry(c)] = c

Settle(c) ==
  /\ loop[c] = "handle" /\ Returns(c)
  /\ sent' = sent \/ Reaches(c)
  /\ (named /\ owner[Entry(c)] = c /\ class[Entry(c)] # "notice") =>
       \/ sent'[Entry(c)] > 0 \/ Entry(c) \in refused' \/ c \in silent
       \/ kind = "discord" \/ (kind = "whatsapp" /\ tries[c] = 4)

Drop(c) ==
  /\ loop[c] \in {"handle", "ack"} /\ Onward(c)
  /\ sent' = sent \/ (loop[c] = "handle" /\ Reaches(c))

Again(c) ==
  /\ Retries(c) /\ tries[c] + 1 < Attempts(kind)
  /\ sent' = sent \/ Reaches(c)

LEMMA HeldEntry ==
  ASSUME OutboundInv, NEW c \in Channels, loop[c] = "handle"
  PROVE  /\ kind \in Kinds
         /\ pos[c] \in 1 .. Len(Outbound[kind]) /\ Len(Outbound[kind]) \in Nat
         /\ pos[c] > 1 => named /\ owner[Entry(c)] = c
         /\ tries[c] \in Nat /\ Attempts(kind) \in Nat /\ tries[c] < Attempts(kind)
         /\ Entry(c) \in Entries /\ Entry(c) \in 1 .. given
         /\ owner[Entry(c)] = c => sent[Entry(c)] <= tries[c]
<1>1. kind \in Kinds /\ tries[c] \in Nat
  BY DEF OutboundInv, OutType, EnvOK, ProcOK
<1>2. /\ pos[c] \in 1 .. Len(Outbound[kind])
      /\ pos[c] > 1 => named /\ owner[Entry(c)] = c
      /\ tries[c] < Attempts(kind)
  BY DEF OutboundInv, Work, Handling
<1>3. Len(Outbound[kind]) \in Nat
  BY <1>1, <1>2, SendOrder
<1>4. Attempts(kind) \in Nat
  BY DEF Attempts, WhatsappAttempts, MtprotoAttempts
<1>5. Entry(c) \in Entries /\ Entry(c) \in 1 .. given
  BY EntryOf DEF OutboundInv
<1>6. owner[Entry(c)] = c => sent[Entry(c)] <= tries[c]
  <2> DEFINE e == Entry(c)
  <2>1. Later(e) /\ sent[e] \in Nat
    BY <1>5 DEF OutboundInv, OutType, EnvOK
  <2>2. batch[c] # <<>> /\ Head(batch[c]) = e
    BY DEF OutboundInv, OutType, ProcOK, Entry
  <2> HIDE DEF e
  <2>3. owner[e] = c => sent[e] <= tries[c]
    BY <1>1, <2>1, <2>2 DEF Later
  <2> QED
    BY <2>3 DEF e
<1> QED
  BY <1>1, <1>2, <1>3, <1>4, <1>5, <1>6

\* Which step of its program the consumer is at tells where it stands.
LEMMA AtPlace ==
  ASSUME OutboundInv, NEW c \in Channels, NEW x, At(c, x)
  PROVE  /\ loop[c] = "handle"
         /\ x = "mine" <=> pos[c] = 1
         /\ x = "call" <=> pos[c] = Len(Outbound[kind])
         /\ x = "lookup" => kind = "discord"
         /\ kind = "whatsapp" => x \in {"mine", "call"}
         /\ x # "mine" => named /\ owner[Entry(c)] = c
<1>1. loop[c] = "handle" /\ Outbound[kind][pos[c]] = x
  BY DEF At, Program
<1>2. kind \in Kinds /\ pos[c] \in 1 .. Len(Outbound[kind])
      /\ Len(Outbound[kind]) \in Nat /\ (pos[c] > 1 => named /\ owner[Entry(c)] = c)
  BY <1>1, HeldEntry
<1> QED
  BY <1>1, <1>2, SendOrder

LEMMA PassLeaves ==
  ASSUME OutboundInv, NEW c \in Channels, NEW x, At(c, x), x # "call",
         x # "mine" \/ (named /\ owner[Entry(c)] = c), Goes(c), sent' = sent
  PROVE  Pass(c)
<1>1. pos[c] \in 1 .. Len(Outbound[kind]) /\ Len(Outbound[kind]) \in Nat
  BY AtPlace, HeldEntry
<1> QED
  BY <1>1, AtPlace DEF Pass

LEMMA HandlerSteps ==
  ASSUME OutboundInv, NEW c \in Channels,
         Ack(c) \/ HandleEntry(c) \/ CallFails(c)
  PROVE  Keeps /\ (Pass(c) \/ Settle(c) \/ Drop(c) \/ Again(c))
<1>1. Keeps
  BY DEF Ack, HandleEntry, Mine, Rate, Address, Config, Prepare,
     Call, CallFails, adapter, log, Keeps
<1> SUFFICES Pass(c) \/ Settle(c) \/ Drop(c) \/ Again(c)
  BY <1>1
<1>2. CASE Ack(c)
  BY <1>2 DEF Ack, Drop
<1>3. CASE Mine(c)
  <2>1. At(c, "mine") /\ sent' = sent /\ loop[c] = "handle"
    BY <1>3 DEF Mine, At
  <2>2. CASE named /\ owner[Entry(c)] = c
    BY <1>3, <2>1, <2>2, PassLeaves DEF Mine
  <2>3. CASE ~(named /\ owner[Entry(c)] = c)
    BY <1>3, <2>1, <2>3 DEF Mine, Settle
  <2> QED
    BY <2>2, <2>3
<1>4. CASE Rate(c)
  <2>1. At(c, "rate") /\ sent' = sent /\ loop[c] = "handle"
    BY <1>4 DEF Rate, At
  <2>2. CASE Goes(c)
    BY <2>1, <2>2, PassLeaves
  <2>3. CASE ~Goes(c)
    BY <1>4, <2>1, <2>3 DEF Rate, Settle
  <2> QED
    BY <2>2, <2>3
<1>5. CASE Address(c)
  <2>1. PICK x \in {"address", "require"} : At(c, x)
    BY <1>5 DEF Address
  <2>2. sent' = sent /\ loop[c] = "handle"
    BY <1>5, <2>1 DEF Address, At
  <2>3. CASE Goes(c)
    BY <2>1, <2>2, <2>3, PassLeaves
  <2>4. CASE ~Goes(c)
    BY <1>5, <2>2, <2>4 DEF Address, Throws, Settle, Drop
  <2> QED
    BY <2>3, <2>4
<1>6. CASE Config(c)
  <2>1. At(c, "config") /\ sent' = sent /\ loop[c] = "handle"
    BY <1>6 DEF Config, At
  <2>2. CASE Goes(c)
    BY <2>1, <2>2, PassLeaves
  <2>3. CASE ~Goes(c)
    BY <1>6, <2>1, <2>3 DEF Config, Settle
  <2> QED
    BY <2>2, <2>3
<1>7. CASE Prepare(c)
  <2>1. PICK x \in {"lookup", "token"} : At(c, x)
    BY <1>7 DEF Prepare
  <2>2. sent' = sent /\ loop[c] = "handle" /\ kind # "whatsapp"
    BY <1>7, <2>1, AtPlace DEF Prepare, At
  <2>3. CASE Goes(c)
    BY <2>1, <2>2, <2>3, PassLeaves
  <2>4. CASE At(c, "lookup") /\ Returns(c)
    BY <2>2, <2>4, AtPlace DEF Settle
  <2>5. CASE Throws(c)
    BY <2>2, <2>5 DEF Throws, SwallowKinds, Drop
  <2> QED
    BY <1>7, <2>3, <2>4, <2>5 DEF Prepare
<1>8. CASE Call(c)
  <2>1. At(c, "call") /\ Returns(c) /\ sent' = [sent EXCEPT ![Entry(c)] = @ + 1]
    BY <1>8 DEF Call
  <2>2. loop[c] = "handle" /\ named /\ owner[Entry(c)] = c
    BY <2>1, AtPlace
  <2>3. sent'[Entry(c)] > 0
    BY <2>1, <2>2, HeldEntry DEF OutboundInv, OutType, EnvOK
  <2> QED
    BY <2>1, <2>2, <2>3 DEF Settle, Reaches
<1>9. CASE CallFails(c)
  <2>1. At(c, "call") /\ (sent' = sent \/ sent' = [sent EXCEPT ![Entry(c)] = @ + 1])
    BY <1>9 DEF CallFails
  <2>2. loop[c] = "handle" /\ named /\ owner[Entry(c)] = c
    BY <2>1, AtPlace
  <2>3. sent' = sent \/ Reaches(c)
    BY <2>1, <2>2 DEF Reaches
  <2>4. CASE Throws(c) /\ kind = "whatsapp" /\ tries[c] + 1 = Attempts(kind)
    <3>1. tries[c] = 4
      BY <2>2, <2>4, HeldEntry DEF Attempts, WhatsappAttempts
    <3> QED
      BY <2>2, <2>3, <2>4, <3>1 DEF Throws, SwallowKinds, Settle
  <2>5. CASE Throws(c) /\ kind # "whatsapp"
    BY <2>2, <2>3, <2>5 DEF Throws, SwallowKinds, Drop
  <2>6. CASE Retries(c) /\ tries[c] + 1 < Attempts(kind)
    BY <2>3, <2>6 DEF Again
  <2>7. \/ Throws(c) /\ (tries[c] + 1 = Attempts(kind) \/ kind = "mtproto")
        \/ Retries(c) /\ tries[c] + 1 < Attempts(kind)
    BY <1>9, <2>2 DEF CallFails, FloodKinds, Retries, adapter, log
  <2> QED
    BY <2>4, <2>5, <2>6, <2>7
<1> QED
  BY <1>2, <1>3, <1>4, <1>5, <1>6, <1>7, <1>8, <1>9 DEF HandleEntry

Steps(c) == Pass(c) \/ Settle(c) \/ Drop(c) \/ Again(c)

LEMMA StepsFrame ==
  ASSUME OutType, NEW c \in Channels, Keeps, Steps(c)
  PROVE  Frame(c)
<1>1. Elsewhere(c)
  BY DEF OutType, ProcOK, Steps, Pass, Settle, Drop, Again, Keeps, Elsewhere, Retries, Goes,
     Returns, Onward
<1>2. given' >= given
  BY DEF OutType, EnvOK, Keeps
<1>3. sent' = sent \/ (loop[c] = "handle" /\ Reaches(c))
  BY DEF Steps, Pass, Settle, Drop, Again, Retries
<1> QED
  BY <1>1, <1>2, <1>3 DEF Frame, Keeps

LEMMA BatchIs ==
  ASSUME OutboundInv, NEW c \in Channels, loop[c] \in {"handle", "ack"}
  PROVE  /\ batch[c] \in Seq(Nat) /\ Len(batch[c]) \in Nat \ {0}
         /\ batch[c][1] = Entry(c) /\ Head(batch[c]) = Entry(c)
         /\ \A i \in 1 .. Len(batch[c]) : batch[c][i] \in Nat /\ batch[c][i] >= Entry(c)
<1>1. batch[c] \in Seq(Nat) /\ batch[c] # <<>>
  BY DEF OutboundInv, OutType, ProcOK
<1>2. Len(batch[c]) \in Nat \ {0} /\ \A i \in 1 .. Len(batch[c]) : batch[c][i] \in Nat
  BY <1>1
<1>3. batch[c][1] = Entry(c) /\ Head(batch[c]) = Entry(c)
  BY <1>1, <1>2 DEF Entry
<1>4. \A i \in 1 .. Len(batch[c]) : i # 1 => batch[c][1] < batch[c][i]
  BY <1>2 DEF OutboundInv, Work, Rising
<1>5. \A i \in 1 .. Len(batch[c]) : batch[c][i] >= Entry(c)
  BY <1>2, <1>3, <1>4
<1> QED
  BY <1>1, <1>2, <1>3, <1>5

\* What a step makes of an entry of the channel that has reached the platform.
LEMMA SentOne ==
  ASSUME OutboundInv, NEW c \in Channels, loop[c] \in {"handle", "ack"},
         sent' = sent \/ (loop[c] = "handle" /\ Reaches(c)),
         NEW e \in Entries, owner[e] = c
  PROVE  /\ sent'[e] \in Nat /\ sent'[e] <= Attempts(kind)
         /\ loop[c] = "handle" /\ e = Entry(c) => sent'[e] <= tries[c] + 1
         /\ sent'[e] > 0 =>
              named /\ e <= given /\ \A i \in 1 .. Len(batch[c]) : batch[c][i] >= e
<1>1. e \in Nat /\ sent[e] \in Nat /\ sent[e] <= Attempts(kind) /\ Later(e)
  BY DEF OutboundInv, OutType, EnvOK, Bounded, Entries
<1>2. CASE sent'[e] = sent[e]
  <2>1. loop[c] = "handle" /\ e = Entry(c) => sent[e] <= tries[c] + 1
    BY <1>1, HeldEntry
  <2> QED
    BY <1>1, <1>2, <2>1 DEF Later, OutboundInv, Bounded
<1>3. CASE sent'[e] # sent[e]
  <2>1. loop[c] = "handle" /\ named /\ e = Entry(c) /\ sent'[e] = sent[e] + 1
    BY <1>3, HeldEntry DEF Reaches, OutboundInv, OutType, EnvOK
  <2>2. sent[e] <= tries[c] /\ tries[c] < Attempts(kind) /\ tries[c] \in Nat
        /\ Attempts(kind) \in Nat /\ e \in 1 .. given
    BY <2>1, HeldEntry
  <2>3. \A i \in 1 .. Len(batch[c]) : batch[c][i] >= e
    BY <2>1, BatchIs
  <2>4. given \in Nat
    BY DEF OutboundInv, OutType, EnvOK
  <2> QED
    BY <1>1, <2>1, <2>2, <2>3, <2>4
<1> QED
  BY <1>2, <1>3

LEMMA PassInv ==
  ASSUME OutboundInv, NEW c \in Channels, Keeps, Pass(c)
  PROVE  Work(c)' /\ \A e \in Entries : owner[e] = c => Later(e)' /\ Bounded(e)'
<1>1. /\ loop' = loop /\ batch' = batch /\ tries' = tries /\ sent' = sent /\ loop[c] = "handle"
      /\ UNCHANGED <<kind, silent, named, owner, class, given>> /\ Work(c)
  BY DEF Pass, Goes, Keeps, OutboundInv
<1>2. pos'[c] = pos[c] + 1
  BY DEF Pass, Goes, OutboundInv, OutType, ProcOK
<1>3. /\ pos[c] \in 1 .. Len(Outbound[kind]) /\ Len(Outbound[kind]) \in Nat
      /\ pos[c] > 1 => named /\ owner[Entry(c)] = c
  BY <1>1, HeldEntry
<1>4. pos'[c] \in 1 .. Len(Outbound[kind]) /\ named /\ owner[Entry(c)] = c
  BY <1>2, <1>3 DEF Pass
<1>5. Work(c)'
  BY <1>1, <1>4 DEF Work, Rising, Handling, Drained, AckedOne, Entry
<1>6. ASSUME NEW e \in Entries PROVE Later(e)' /\ Bounded(e)'
  BY <1>1 DEF OutboundInv, Later, Bounded
<1> QED
  BY <1>5, <1>6

LEMMA SettleInv ==
  ASSUME OutboundInv, NEW c \in Channels, Keeps, Settle(c)
  PROVE  Work(c)' /\ \A e \in Entries : owner[e] = c => Later(e)' /\ Bounded(e)'
<1>1. /\ batch' = batch /\ tries' = tries /\ pos' = pos /\ loop[c] = "handle"
      /\ UNCHANGED <<kind, silent, named, owner, class, given>> /\ Work(c)
      /\ sent' = sent \/ Reaches(c)
  BY DEF Settle, Returns, Keeps, OutboundInv
<1>2. loop'[c] = "ack"
  BY DEF Settle, Returns, OutboundInv, OutType, ProcOK
<1>3. Rising(c)' /\ Handling(c)' /\ Drained(c)'
  BY <1>1, <1>2 DEF Work, Rising, Handling, Drained
<1>4. AckedOne(c)'
  BY <1>1 DEF Settle, AckedOne, Entry
<1>5. ASSUME NEW e \in Entries, owner[e] = c PROVE Later(e)' /\ Bounded(e)'
  <2>1. /\ sent'[e] <= Attempts(kind)
        /\ sent'[e] > 0 => named /\ e <= given /\ \A i \in 1 .. Len(batch[c]) : batch[c][i] >= e
    BY <1>1, <1>5, SentOne
  <2> QED
    BY <1>1, <1>2, <1>5, <2>1 DEF Later, Bounded
<1> QED
  BY <1>3, <1>4, <1>5 DEF Work

LEMMA AgainInv ==
  ASSUME OutboundInv, NEW c \in Channels, Keeps, Again(c)
  PROVE  Work(c)' /\ \A e \in Entries : owner[e] = c => Later(e)' /\ Bounded(e)'
<1>1. /\ batch' = batch /\ loop' = loop /\ pos' = pos /\ loop[c] = "handle"
      /\ UNCHANGED <<kind, silent, named, owner, class, given>> /\ Work(c)
      /\ sent' = sent \/ Reaches(c)
  BY DEF Again, Retries, Keeps, OutboundInv
<1>2. tries'[c] = tries[c] + 1 /\ tries[c] + 1 < Attempts(kind)
  BY DEF Again, Retries, OutboundInv, OutType, ProcOK
<1>3. Rising(c)' /\ Handling(c)' /\ Drained(c)' /\ AckedOne(c)'
  BY <1>1, <1>2 DEF Work, Rising, Handling, Drained, AckedOne, Entry
<1>4. ASSUME NEW e \in Entries, owner[e] = c PROVE Later(e)' /\ Bounded(e)'
  <2>1. /\ sent'[e] <= Attempts(kind)
        /\ e = Entry(c) => sent'[e] <= tries[c] + 1
        /\ sent'[e] > 0 => named /\ e <= given /\ \A i \in 1 .. Len(batch[c]) : batch[c][i] >= e
    BY <1>1, <1>4, SentOne
  <2> QED
    BY <1>1, <1>2, <1>4, <2>1 DEF Later, Bounded, Entry
<1> QED
  BY <1>3, <1>4 DEF Work

LEMMA DropInv ==
  ASSUME OutboundInv, NEW c \in Channels, Keeps, Drop(c)
  PROVE  Work(c)' /\ \A e \in Entries : owner[e] = c => Later(e)' /\ Bounded(e)'
<1> DEFINE t == Tail(batch[c])
           b == batch[c]
<1>1. /\ loop[c] \in {"handle", "ack"}
      /\ UNCHANGED <<kind, silent, named, owner, class, given>> /\ Work(c)
      /\ sent' = sent \/ (loop[c] = "handle" /\ Reaches(c))
  BY DEF Drop, Keeps, OutboundInv
<1>2. /\ batch'[c] = t /\ tries'[c] = 0 /\ pos'[c] = 1
      /\ loop'[c] = IF Len(b) = 1 THEN "read" ELSE "handle"
  BY DEF Drop, Onward, OutboundInv, OutType, ProcOK
<1>3. /\ b \in Seq(Nat) /\ b # <<>> /\ Len(b) \in Nat \ {0} /\ b[1] = Entry(c)
      /\ \A i \in 1 .. Len(b) : b[i] \in Nat
  BY <1>1, BatchIs DEF OutboundInv, OutType, ProcOK
<1>4. t \in Seq(Nat) /\ Len(t) = Len(b) - 1 /\ \A i \in 1 .. Len(t) : t[i] = b[i + 1]
  BY <1>3, HeadTailProperties, Zenon
<1>5. \A i, j \in 1 .. Len(b) : i < j => b[i] < b[j]
  BY <1>1 DEF Work, Rising
<1> HIDE DEF t, b
<1>6. t # <<>> => Head(t) = t[1] /\ 1 \in 1 .. Len(t)
  BY <1>3, <1>4
<1>7. Len(b) = 1 => t = <<>>
  BY <1>3, <1>4
<1>8. Rising(c)'
  <2>1. ASSUME NEW i \in 1 .. Len(t), NEW j \in 1 .. Len(t), i < j PROVE t[i] < t[j]
    <3>1. /\ i + 1 \in 1 .. Len(b) /\ j + 1 \in 1 .. Len(b) /\ i + 1 < j + 1
          /\ t[i] = b[i + 1] /\ t[j] = b[j + 1]
      BY <1>3, <1>4, <2>1, SMTT(30)
    <3> QED
      BY <1>5, <3>1, SMTT(30)
  <2> QED
    BY <1>2, <2>1 DEF Rising
<1>9. Handling(c)'
  <2>1. 1 \in 1 .. Len(Outbound[kind])
    BY SendFirst DEF OutboundInv, OutType, EnvOK
  <2> QED
    BY <1>1, <1>2, <2>1 DEF Handling, Attempts, WhatsappAttempts, MtprotoAttempts
<1>10. Drained(c)' /\ AckedOne(c)'
  BY <1>2, <1>7 DEF Drained, AckedOne
<1>11. ASSUME NEW e \in Entries, owner[e] = c PROVE Later(e)' /\ Bounded(e)'
  <2>1. /\ sent'[e] \in Nat /\ sent'[e] <= Attempts(kind) /\ e \in Nat
        /\ sent'[e] > 0 => named /\ e <= given /\ \A i \in 1 .. Len(b) : b[i] >= e
    BY <1>1, <1>11, SentOne DEF b, Entries
  <2>2. ASSUME sent'[e] > 0, NEW i \in 1 .. Len(t) PROVE t[i] >= e /\ t[i] # e
    <3>1. i + 1 \in 1 .. Len(b) /\ 1 \in 1 .. Len(b) /\ 1 < i + 1 /\ t[i] = b[i + 1]
      BY <1>3, <1>4
    <3>2. b[1] < b[i + 1] /\ b[1] >= e /\ b[1] \in Nat /\ b[i + 1] \in Nat
      BY <1>3, <1>5, <2>1, <2>2, <3>1
    <3> QED
      BY <2>1, <3>1, <3>2
  <2> QED
    BY <1>1, <1>2, <1>6, <1>11, <2>1, <2>2 DEF Later, Bounded
<1> QED
  BY <1>8, <1>9, <1>10, <1>11 DEF Work

LEMMA StepsInv ==
  ASSUME OutboundInv, NEW c \in Channels, Keeps, Steps(c)
  PROVE  Work(c)' /\ \A e \in Entries : owner[e] = c => Later(e)' /\ Bounded(e)'
BY PassInv, SettleInv, DropInv, AgainInv DEF Steps

\* The other actions of a channel leave what has been sent.
LEMMA ReadInv ==
  ASSUME OutboundInv, NEW c \in Channels, Read(c)
  PROVE  /\ Frame(c) /\ Work(c)'
         /\ \A e \in Entries : owner[e] = c => Later(e)' /\ Bounded(e)'
<1>1. /\ UNCHANGED <<kind, silent, named, owner, class, sent, refused, tries, conn, errs>>
      /\ loop[c] = "read" /\ loop' = [loop EXCEPT ![c] = "handle"] /\ pos' = [pos EXCEPT ![c] = 1]
      /\ OutType /\ Work(c)
  BY DEF Read, adapter, log, OutboundInv
<1>2. /\ OutType' /\ batch'[c] # <<>> /\ given' >= given
      /\ \A i \in 1 .. Len(batch'[c]) : batch'[c][i] = given + i
  BY <1>1, ReadType
<1>3. Len(batch'[c]) \in Nat \ {0} /\ given \in Nat /\ batch'[c] \in Seq(Nat)
  BY <1>1, <1>2 DEF OutType, ProcOK, EnvOK
<1>4. /\ \A d \in Channels \ {c} : /\ loop'[d] = loop[d] /\ batch'[d] = batch[d]
                                   /\ pos'[d] = pos[d]
      /\ loop'[c] = "handle" /\ pos'[c] = 1 /\ tries[c] = 0
  BY <1>1 DEF OutType, ProcOK, Work, Drained, Read
<1>5. Frame(c)
  BY <1>1, <1>2, <1>4 DEF Frame, Elsewhere
<1>6. Rising(c)'
  BY <1>2, <1>3, SMTT(30) DEF Rising
<1>7. Handling(c)' /\ Drained(c)' /\ AckedOne(c)'
  <2>1. 1 \in 1 .. Len(Outbound[kind])
    BY <1>1, SendFirst DEF OutType, EnvOK
  <2> QED
    BY <1>1, <1>4, <2>1 DEF Handling, Drained, AckedOne, Attempts, WhatsappAttempts,
       MtprotoAttempts
<1>8. ASSUME NEW e \in Entries, owner[e] = c PROVE Later(e)' /\ Bounded(e)'
  <2>1. e \in Nat /\ Later(e) /\ Bounded(e) /\ given' \in Nat
    BY <1>2 DEF OutboundInv, Entries, OutType, EnvOK
  <2>2. ASSUME sent[e] > 0
        PROVE  /\ e <= given' /\ Head(batch'[c]) # e
               /\ \A i \in 1 .. Len(batch'[c]) : batch'[c][i] >= e
    <3>1. e <= given
      BY <2>1, <2>2 DEF Later
    <3>2. Head(batch'[c]) = given + 1
      BY <1>2, <1>3
    <3> QED
      BY <1>2, <1>3, <2>1, <3>1, <3>2
  <2> QED
    BY <1>1, <1>8, <2>1, <2>2 DEF Later, Bounded
<1> QED
  BY <1>5, <1>6, <1>7, <1>8 DEF Work

\* A consumer that is not at an entry, and stays so; or a step that is not the consumer's.
Aside(c) ==
  /\ \/ loop' = loop
     \/ loop[c] \notin {"handle", "ack"} /\ loop'[c] \notin {"handle", "ack"}
  /\ \A d \in Channels \ {c} : loop'[d] = loop[d] /\ errs'[d] = errs[d] /\ conn'[d] = conn[d]
  /\ UNCHANGED <<kind, silent, named, owner, class, given, batch, pos, tries, sent, refused>>

LEMMA AsideInv ==
  ASSUME OutboundInv, NEW c \in Channels, Aside(c)
  PROVE  /\ Frame(c) /\ Work(c)'
         /\ \A e \in Entries : owner[e] = c => Later(e)' /\ Bounded(e)'
<1>1. Work(c) /\ given \in Nat
  BY DEF OutboundInv, OutType, EnvOK
<1>2. Frame(c)
  BY <1>1 DEF Aside, Frame, Elsewhere
<1>3. Work(c)'
  BY <1>1 DEF Aside, Work, Rising, Handling, Drained, AckedOne, Entry
<1>4. ASSUME NEW e \in Entries, owner[e] = c PROVE Later(e)' /\ Bounded(e)'
  <2>1. Later(e) /\ Bounded(e) /\ (batch[c] = <<>> \/ loop' = loop)
    BY <1>1 DEF Aside, OutboundInv, Work, Drained
  <2> QED
    BY <1>4, <2>1 DEF Aside, Later, Bounded
<1> QED
  BY <1>2, <1>3, <1>4

LEMMA RestartInv ==
  ASSUME OutboundInv, NEW c \in Channels, StartAgain(c)
  PROVE  /\ Frame(c) /\ Work(c)'
         /\ \A e \in Entries : owner[e] = c => Later(e)' /\ Bounded(e)'
<1>1. /\ UNCHANGED <<kind, silent, named, owner, class, given, sent, refused>>
      /\ loop'[c] = "off" /\ batch'[c] = <<>> /\ tries'[c] = 0
  BY DEF StartAgain, adapter, log, OutboundInv, OutType, ProcOK
<1>2. given \in Nat
  BY DEF OutboundInv, OutType, EnvOK
<1>3. Elsewhere(c)
  BY DEF StartAgain, Elsewhere, OutboundInv, OutType, ProcOK
<1>4. Frame(c)
  BY <1>1, <1>2, <1>3 DEF Frame
<1>5. Work(c)'
  BY <1>1 DEF Work, Rising, Handling, Drained, AckedOne
<1>6. ASSUME NEW e \in Entries, owner[e] = c PROVE Later(e)' /\ Bounded(e)'
  BY <1>1, <1>6 DEF OutboundInv, Later, Bounded
<1> QED
  BY <1>4, <1>5, <1>6

\* Health: connect sets "active" with the consumer, whose end takes it away.
LEMMA ActiveStays ==
  ASSUME OutboundInv, [OutboundNext]_outboundVars PROVE ActiveConsumes'
<1> DEFINE Few == kind \notin {"telegram", "whatsapp", "mtproto"}
           Good(d) == status[d] = "active" => loop[d] \notin {"off", "ended"}
<1>1. ActiveConsumes <=> (Few => \A d \in Channels : Good(d))
  BY DEF ActiveConsumes, Running
<1>2. ActiveConsumes' <=> (Few' => \A d \in Channels : Good(d)')
  BY DEF ActiveConsumes, Running
<1>3. kind' = kind
  BY DEF OutboundNext, outboundVars, adapter, Write, Consume, EnsureGroup, Read,
     ReadNothing, ReadFails, Ack, HandleEntry, Mine, Rate, Address,
     Config, Prepare, Call, CallFails, Tick, ConnectStep, StartAgain,
     ClientEvent
<1>4. SUFFICES ASSUME Few, NEW d \in Channels, Good(d) PROVE Good(d)'
  BY <1>1, <1>2, <1>3 DEF OutboundInv
<1>5. OutType /\ kind \notin QuietKinds
  BY <1>4 DEF OutboundInv, QuietKinds
<1>6. CASE Write \/ UNCHANGED outboundVars
  BY <1>4, <1>6 DEF Write, process, outboundVars
<1>7. ASSUME NEW c \in Channels, OutQuiet(c) PROVE Good(d)'
  <2>1. loop' = loop
    BY <1>7, QuietFrame
  <2>2. status'[d] = "active" => status[d] = "active"
    BY <1>5, <1>7 DEF OutQuiet, Write, ReadNothing, Tick, ClientEvent, process,
       outboundVars, OutType, EnvOK
  <2> QED
    BY <1>4, <2>1, <2>2
<1>8. ASSUME NEW c \in Channels, EnsureGroup(c) \/ ReadFails(c) PROVE Good(d)'
  BY <1>4, <1>5, <1>8, SMTT(30) DEF EnsureGroup, ReadFails, Ends, OutType, ProcOK, EnvOK
<1>9. ASSUME NEW c \in Channels, Read(c) PROVE Good(d)'
  BY <1>4, <1>5, <1>9 DEF Read, OutType, ProcOK
<1>10. ASSUME NEW c \in Channels, Ack(c) \/ HandleEntry(c) \/ CallFails(c)
       PROVE  Good(d)'
  <2>1. Moves(c) \/ Retries(c)
    BY <1>5, <1>10, HandleMoves, FailsMoves
  <2>2. loop[d] \notin {"off", "ended"} => loop'[d] \notin {"off", "ended"}
    BY <1>5, <2>1 DEF Moves, Retries, Goes, Returns, Onward, OutType, ProcOK
  <2>3. \A s \in FailedStatus(c) : s[d] = "active" => status[d] = "active"
    BY <1>5 DEF FailedStatus, OutType, EnvOK
  <2>4. status' = status \/ status' \in FailedStatus(c)
    BY <1>10 DEF Ack, HandleEntry, Mine, Rate, Address, Config,
       Prepare, Call, CallFails
  <2> QED
    BY <1>4, <2>2, <2>3, <2>4
<1>11. ASSUME NEW c \in Channels, ConnectStep(c) PROVE Good(d)'
  <2> DEFINE block == Connect[kind][conn[c] + 1]
  <2>1. kind \in Kinds /\ conn[c] \in Nat /\ conn[c] < Len(Connect[kind])
    BY <1>5, <1>11 DEF OutType, EnvOK, ProcOK, ConnectStep
  <2>2. conn[c] + 1 \in 1 .. Len(Connect[kind])
    BY <2>1, Connects
  <2>3. "active" \in block => "consume" \in block
    BY <1>4, <2>1, <2>2, ConnectOrder
  <2>4. /\ loop' = IF "consume" \in block THEN [loop EXCEPT ![c] = "group"] ELSE loop
        /\ status' = IF "active" \in block THEN [status EXCEPT ![c] = "active"] ELSE status
    BY <1>11 DEF ConnectStep
  <2> HIDE DEF block
  <2> QED
    BY <1>4, <1>5, <2>3, <2>4 DEF OutType, ProcOK, EnvOK
<1>12. ASSUME NEW c \in Channels, StartAgain(c) PROVE Good(d)'
  BY <1>4, <1>5, <1>12 DEF StartAgain, OutType, ProcOK, EnvOK
<1> QED
  BY <1>6, <1>7, <1>8, <1>9, <1>10, <1>11, <1>12, OutSteps

LEMMA NextOutbound ==
  ASSUME OutboundInv, [OutboundNext]_outboundVars PROVE OutboundInv'
<1>1. OutType' /\ ActiveConsumes' /\ OutType
  BY OutNextType, ActiveStays DEF OutboundInv
<1>2. ASSUME NEW c, OutQuiet(c) PROVE OutboundInv'
  <2>1. /\ UNCHANGED <<kind, silent, named, owner, class, given, loop, batch, pos, tries, sent, refused>>
    BY <1>2, QuietFrame
  <2>2. \A d \in Channels : Work(d)'
    BY <2>1 DEF OutboundInv, Work, Rising, Handling, Drained, AckedOne, Entry
  <2>3. \A e \in Entries : Later(e)' /\ Bounded(e)'
    BY <2>1 DEF OutboundInv, Later, Bounded
  <2> QED
    BY <1>1, <2>2, <2>3 DEF OutboundInv, Entries
<1>3. CASE Write \/ UNCHANGED outboundVars
  BY <1>2, <1>3 DEF OutQuiet
<1>4. ASSUME NEW c \in Channels, EnsureGroup(c) \/ ReadFails(c) PROVE OutboundInv'
  <2>1. /\ loop[c] \in {"group", "read"} /\ loop'[c] \in {"read", "ended"}
        /\ \A d \in Channels \ {c} : loop'[d] = loop[d] /\ errs'[d] = errs[d]
    BY <1>1, <1>4 DEF EnsureGroup, ReadFails, Ends, OutType, ProcOK
  <2>2. UNCHANGED <<kind, silent, named, owner, class, given, batch, pos, tries, sent, refused, conn>>
    BY <1>4 DEF EnsureGroup, ReadFails, adapter, log
  <2>3. Aside(c)
    BY <2>1, <2>2 DEF Aside
  <2> QED
    BY <1>1, <2>3, AsideInv, FrameInv
<1>5. ASSUME NEW c \in Channels, Read(c) PROVE OutboundInv'
  BY <1>1, <1>5, ReadInv, FrameInv
<1>6. ASSUME NEW c \in Channels, Ack(c) \/ HandleEntry(c) \/ CallFails(c)
      PROVE  OutboundInv'
  <2>1. Keeps /\ Steps(c)
    BY <1>6, HandlerSteps DEF Steps
  <2> QED
    BY <1>1, <2>1, StepsFrame, StepsInv, FrameInv
<1>7. ASSUME NEW c \in Channels, ConnectStep(c) PROVE OutboundInv'
  <2> DEFINE block == Connect[kind][conn[c] + 1]
  <2>1. kind \in Kinds /\ conn[c] \in Nat /\ conn[c] < Len(Connect[kind])
    BY <1>1, <1>7 DEF OutType, EnvOK, ProcOK, ConnectStep
  <2>2. conn[c] + 1 \in 1 .. Len(Connect[kind])
    BY <2>1, Connects
  <2>3. "consume" \in block => loop[c] = "off"
    BY <1>1, <2>1, <2>2 DEF OutType, ProcOK, Joined
  <2>4. /\ loop' = IF "consume" \in block THEN [loop EXCEPT ![c] = "group"] ELSE loop
        /\ conn' = [conn EXCEPT ![c] = @ + 1]
        /\ UNCHANGED <<kind, silent, named, owner, class, given, batch, pos, tries, errs, sent, refused>>
    BY <1>7 DEF ConnectStep, adapter, log
  <2> HIDE DEF block
  <2>5. Aside(c)
    BY <1>1, <2>3, <2>4 DEF Aside, OutType, ProcOK
  <2> QED
    BY <1>1, <2>5, AsideInv, FrameInv
<1>8. ASSUME NEW c \in Channels, StartAgain(c) PROVE OutboundInv'
  BY <1>1, <1>8, RestartInv, FrameInv
<1> QED
  BY <1>2, <1>3, <1>4, <1>5, <1>6, <1>7, <1>8, OutSteps

\* An entry reaches the platform no oftener than its adapter tries to send it,
\* through deaths of the process, lost acknowledgements and answers of the platform that are
\* lost; an answer its own channel acknowledges was sent, or an adapter had one of its
\* reasons; and a channel that reports itself active has a consumer.
THEOREM SentOnce == OutboundSpec => []SentAndAcked
<1>1. OutboundInit => OutboundInv
  BY OutInitInv
<1>2. OutboundInv /\ [OutboundNext]_outboundVars => OutboundInv'
  BY NextOutbound
<1>3. OutboundInv => SentAndAcked
  BY InvIsSent
<1> QED
  BY <1>1, <1>2, <1>3, PTL DEF OutboundSpec

\* A step that sends an entry is its channel's, with that entry in hand.
LEMMA SendsInHand ==
  ASSUME OutboundInv, [OutboundNext]_outboundVars,
         NEW d \in Entries, sent'[d] # sent[d]
  PROVE  loop[owner[d]] = "handle" /\ Entry(owner[d]) = d
<1>1. OutType
  BY DEF OutboundInv
<1>2. ASSUME NEW c, OutQuiet(c) PROVE sent' = sent
  BY <1>2, QuietFrame
<1>3. Write \/ UNCHANGED outboundVars => sent' = sent
  BY <1>2 DEF OutQuiet
<1>4. ASSUME NEW c \in Channels,
             \/ EnsureGroup(c) \/ Read(c) \/ ReadFails(c) \/ ConnectStep(c)
             \/ StartAgain(c)
      PROVE  sent' = sent
  BY <1>4 DEF EnsureGroup, Read, ReadFails, ConnectStep, StartAgain
<1>5. PICK c \in Channels : Ack(c) \/ HandleEntry(c) \/ CallFails(c)
  BY <1>2, <1>3, <1>4, OutSteps
<1>6. loop[c] = "handle" /\ Reaches(c)
  BY <1>1, <1>5, HandlerSteps, StepsFrame DEF Steps, Frame
<1>7. d = Entry(c)
  BY <1>1, <1>6 DEF Reaches, OutType, EnvOK
<1> QED
  BY <1>6, <1>7 DEF Reaches

\* The entries of a channel reach the platform in the order of the stream: once a
\* later one has, an earlier one no longer does.
THEOREM SentInOrder == OutboundSpec => InOrder
<1> DEFINE Ordered == \A d, e \in Entries :
                        (d < e /\ owner[d] = owner[e] /\ sent[e] > 0) => sent'[d] = sent[d]
<1>1. OutboundInit => OutboundInv
  BY OutInitInv
<1>2. OutboundInv /\ [OutboundNext]_outboundVars => OutboundInv'
  BY NextOutbound
<1>3. OutboundInv /\ [OutboundNext]_outboundVars => [Ordered]_outboundVars
  <2> SUFFICES ASSUME OutboundInv, [OutboundNext]_outboundVars,
                      NEW d \in Entries, NEW e \in Entries, d < e,
                      owner[d] = owner[e], sent[e] > 0, sent'[d] # sent[d]
               PROVE  FALSE
    OBVIOUS
  <2>1. loop[owner[d]] = "handle" /\ Entry(owner[d]) = d /\ owner[d] \in Channels
    BY SendsInHand DEF OutboundInv, OutType, EnvOK
  <2>2. batch[owner[d]][1] = d /\ 1 \in 1 .. Len(batch[owner[d]])
    BY <2>1, BatchIs
  <2>3. d >= e
    BY <2>2 DEF OutboundInv, Later
  <2> QED
    BY <2>3 DEF Entries
<1>4. InOrder <=> [][Ordered]_outboundVars
  BY DEF InOrder
<1> HIDE DEF Ordered
<1> QED
  BY <1>1, <1>2, <1>3, <1>4, PTL DEF OutboundSpec

=============================================================================
