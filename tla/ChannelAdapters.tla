-------------------------- MODULE ChannelAdapters --------------------------
(***************************************************************************)
(* What the sixteen channel adapters do, as programs. An adapter's code is *)
(* the same few steps in an order of its own, and its faults are that      *)
(* order: this module holds one program per adapter and direction, and     *)
(* ChannelInbound and ChannelOutbound say what a step does.                *)
(*                                                                         *)
(* Steps of an inbound program, one message of the platform at a time:     *)
(*   "verify"  turn away what is not a valid request                       *)
(*   "filter"  end, with a success, on what is no message, or has no text  *)
(*   "own"     end, with a success, on what the bot wrote                  *)
(*   "dedup"   end, with a success, on an id that is marked; mark it       *)
(*   "early"   answer the platform before the work is done                 *)
(*   "publish" add the message to the INBOUND stream                       *)
(*   "ok"      answer the platform                                         *)
(* The incoming handler is left out: no main program registers one.        *)
(*                                                                         *)
(* Steps of an outbound program, one entry of the OUTBOUND stream:         *)
(*   "mine"    end on an entry of another channel                          *)
(*   "rate"    end on an entry the rate limiter refuses                    *)
(*   "address" end on an entry without a recipient                         *)
(*   "require" throw on an entry without a recipient                       *)
(*   "config"  end when the channel has no credentials for sending         *)
(*   "lookup"  find the platform's channel; end when it takes no messages  *)
(*   "token"   have an access token, cached or fetched                     *)
(*   "call"    the platform's send                                         *)
(*                                                                         *)
(* connect, as what it does between two awaits: "listen" (the inbound      *)
(* side, awaited), "consume" (start the outbound consumer, not awaited),   *)
(* "active" (the status).                                                  *)
(***************************************************************************)
EXTENDS Sequences

CONSTANT
  MaxFaults  \* bound on failing calls, deaths, needless repetitions, broken connections

\* What both directions have.
VARIABLES
  kind,   \* of the adapter
  class,  \* what the messages of the platform, or the entries of the stream, are
  faults

Kinds == {"telegram", "mtproto", "whatsapp", "slack", "discord", "mattermost", "matrix",
          "dingtalk", "feishu", "wecom", "email", "sms", "webhooks", "homeassistant",
          "vk", "avito"}

-----------------------------------------------------------------------------
(* Mistakes the properties are there to catch; nothing below uses them.    *)

ReplyFirst == <<"verify", "filter", "own", "early", "publish">>
MarkLast == <<"verify", "filter", "publish", "dedup", "ok">>
DedupAll == <<"verify", "filter", "dedup", "ok">>
NoOwn == <<"filter", "publish">>
ConsumeFirst == <<{"consume", "listen"}, {"active"}>>

-----------------------------------------------------------------------------
(* What a process is started with. A constructor throws for a missing one. *)

SlackNeeds == {"botToken", "signingSecret"}
WecomNeeds == {"token", "encodingAesKey", "corpId", "agentId"}
EmailNeeds == {"imapHost", "imapUser", "imapPass", "smtpHost", "smtpUser", "smtpPass"}
HomeassistantNeeds == {"hassUrl", "accessToken"}
FeishuNeeds == {"verificationToken", "encryptKey", "appId", "appSecret"}
DingtalkNeeds == {"appKey", "appSecret"}
WebhooksNeeds == {"webhookSecret"}
MattermostNeeds == {"botToken", "serverUrl"}
DiscordNeeds == {"botToken"}
SmsNeeds == {"accountSid", "authToken", "fromNumber"}
MatrixNeeds == {"homeserverUrl", "accessToken"}
AvitoNeeds == {"clientId", "clientSecret", "webhookSecret"}
VkNeeds == {"accessToken", "groupId"}
\* Arguments a main program insists on; MTProto has none, it is a library.
Identity == {"channelId", "tenantId", "personaSlug"}
SlackMain == Identity
WecomMain == Identity
EmailMain == Identity
HomeassistantMain == Identity
FeishuMain == Identity
DingtalkMain == Identity
WebhooksMain == Identity
MattermostMain == Identity
DiscordMain == Identity
SmsMain == Identity
MatrixMain == Identity
AvitoMain == Identity
VkMain == Identity
TelegramMain == Identity \cup {"botToken"}
WhatsappMain == Identity \cup {"evolutionUrl", "instanceId", "webhookSecret"}

Needs == [
  slack |-> SlackMain \cup SlackNeeds,
  wecom |-> WecomMain \cup WecomNeeds,
  email |-> EmailMain \cup EmailNeeds,
  homeassistant |-> HomeassistantMain \cup HomeassistantNeeds,
  feishu |-> FeishuMain \cup FeishuNeeds,
  dingtalk |-> DingtalkMain \cup DingtalkNeeds,
  webhooks |-> WebhooksMain \cup WebhooksNeeds,
  mattermost |-> MattermostMain \cup MattermostNeeds,
  discord |-> DiscordMain \cup DiscordNeeds,
  sms |-> SmsMain \cup SmsNeeds,
  matrix |-> MatrixMain \cup MatrixNeeds,
  avito |-> AvitoMain \cup AvitoNeeds,
  vk |-> VkMain \cup VkNeeds,
  telegram |-> TelegramMain,
  whatsapp |-> WhatsappMain,
  mtproto |-> {}]

-----------------------------------------------------------------------------
(* Inbound.                                                                *)

\* Requests of the platform, answered when the message is on the stream.
SlackInbound == <<"verify", "filter", "own", "publish", "ok">>
DingtalkInbound == <<"verify", "filter", "publish", "ok">>
SmsInbound == <<"verify", "publish", "ok">>
WhatsappInbound == <<"verify", "filter", "publish", "ok">>

\* ... with a marker of five minutes in Redis, set before the message is published.
FeishuInbound == <<"verify", "filter", "dedup", "publish", "ok">>
WecomInbound == <<"verify", "filter", "dedup", "publish", "ok">>
WebhooksInbound == <<"verify", "dedup", "publish", "ok">>

\* ... with an answer in two seconds, and a marker in memory that even the bot's own
\* messages leave.
AvitoInbound == <<"verify", "early", "filter", "dedup", "own", "publish">>

\* Messages of a client library or a socket, which takes no answer.
TelegramInbound == <<"filter", "publish">>
DiscordInbound == <<"own", "publish">>
MattermostInbound == <<"filter", "own", "publish">>
MatrixInbound == <<"filter", "own", "publish">>
HomeassistantInbound == <<"filter", "publish">>
MtprotoInbound == <<"dedup", "own", "filter", "publish">>

\* Messages the adapter fetches in batches.
VkInbound == <<"filter", "own", "publish">>
EmailInbound == <<"publish">>

Inbound == [
  slack |-> SlackInbound, dingtalk |-> DingtalkInbound, sms |-> SmsInbound,
  whatsapp |-> WhatsappInbound, feishu |-> FeishuInbound, wecom |-> WecomInbound,
  webhooks |-> WebhooksInbound, avito |-> AvitoInbound, telegram |-> TelegramInbound,
  discord |-> DiscordInbound, mattermost |-> MattermostInbound, matrix |-> MatrixInbound,
  homeassistant |-> HomeassistantInbound, mtproto |-> MtprotoInbound, vk |-> VkInbound,
  email |-> EmailInbound]

\* What a step rests on may be missing: Matrix's userId and DingTalk's token are optional
\* credentials, MTProto's Redis an optional argument, and Mattermost marks the posts of a
\* bot account only.
OwnOptional == {"matrix", "mattermost"}
OptionalKinds == OwnOptional \cup {"dingtalk", "mtproto"}

\* Requests "verify" turns away: those that are falsely signed or not signed at all, and
\* in two adapters those without a text. DingTalk's looks at a signature only when there
\* is one, and when it has a token to check it with.
Refused(k, bare) ==
  (IF k = "dingtalk" THEN {x \in {"bad"} : ~bare} ELSE {"bad", "unsigned"})
    \cup {x \in {"empty"} : k \in {"sms", "webhooks"}}

\* What "filter" ends on: events that are no messages, and in some adapters messages
\* without a text.
Dropped(k) ==
  {"noise"} \cup {x \in {"empty"} : k \in {"dingtalk", "telegram", "matrix", "homeassistant",
                                           "mtproto"}}

WebhookKinds == {"slack", "dingtalk", "sms", "whatsapp", "feishu", "wecom", "webhooks", "avito"}
\* Its fetch moves a cursor; what is fetched is not offered again.
PollKinds == {"vk"}
\* Its fetch takes all that is unseen, and the adapter never marks a mail as seen.
MailboxKinds == {"email"}
\* The platform answers a closed socket with silence: nothing connects again.
SocketKinds == {"mattermost", "homeassistant"}
\* The library offers a message again after a reconnect or a restart.
ReplayKinds == WebhookKinds \cup {"mtproto", "telegram"}

\* Its markers live in the memory of the process.
MemoryMarkers == {"avito"}

\* What an exception of a handler does. The handler of a node server is an async function
\* nobody awaits, so the rejection ends the process; the others log it.
CrashOnThrow == {"slack", "dingtalk", "sms", "feishu", "wecom", "webhooks", "telegram"}
\* VK handles the updates of a poll in one try: the ones after the failure are lost.
DropOnThrow == {"vk"}

-----------------------------------------------------------------------------
(* Outbound.                                                               *)

\* The consumer of an entry ...
Limited == <<"mine", "rate">>
SlackOutbound == Limited
WecomOutbound == Limited
EmailOutbound == Limited
HomeassistantOutbound == Limited
FeishuOutbound == Limited
DingtalkOutbound == Limited
WebhooksOutbound == Limited
MattermostOutbound == Limited
DiscordOutbound == Limited
SmsOutbound == Limited
MatrixOutbound == Limited
AvitoOutbound == Limited
VkOutbound == Limited
TelegramOutbound == <<"mine">>
WhatsappOutbound == <<"mine">>
MtprotoOutbound == <<"mine">>

\* ... and its send.
SlackSend == <<"call">>
WecomSend == <<"config", "token", "call">>
EmailSend == <<"address", "call">>
HomeassistantSend == <<"call">>
FeishuToken == <<"token">>
FeishuSend == FeishuToken \o <<"call">>
DingtalkToken == <<"token">>
DingtalkSend == DingtalkToken \o <<"call">>
WebhooksSend == <<"config", "call">>
MattermostSend == <<"call">>
DiscordSend == <<"lookup", "call">>
SmsSend == <<"call">>
MatrixSend == <<"address", "call">>
AvitoToken == <<"token">>
AvitoCall == <<"call">>
AvitoSend == <<"require">> \o AvitoToken \o AvitoCall
VkCall == <<"call">>
VkSend == VkCall
TelegramSend == <<"call">>
WhatsappSend == <<"call">>
MtprotoSend == <<"call">>

Outbound == [
  slack |-> SlackOutbound \o SlackSend,
  email |-> EmailOutbound \o EmailSend,
  homeassistant |-> HomeassistantOutbound \o HomeassistantSend,
  feishu |-> FeishuOutbound \o FeishuSend,
  dingtalk |-> DingtalkOutbound \o DingtalkSend,
  webhooks |-> WebhooksOutbound \o WebhooksSend,
  wecom |-> WecomOutbound \o WecomSend,
  mattermost |-> MattermostOutbound \o MattermostSend,
  discord |-> DiscordOutbound \o DiscordSend,
  sms |-> SmsOutbound \o SmsSend,
  matrix |-> MatrixOutbound \o MatrixSend,
  avito |-> AvitoOutbound \o AvitoSend,
  vk |-> VkOutbound \o VkSend,
  telegram |-> TelegramOutbound \o TelegramSend,
  whatsapp |-> WhatsappOutbound \o WhatsappSend,
  mtproto |-> MtprotoOutbound \o MtprotoSend]

\* Only these two try a failed send again ...
WhatsappAttempts == 5
MtprotoAttempts == 3
Attempts(k) == IF k = "whatsapp" THEN WhatsappAttempts
               ELSE IF k = "mtproto" THEN MtprotoAttempts ELSE 1
\* ... and only this one gives up by acknowledging the entry.
SwallowKinds == {"whatsapp"}
\* A flood wait of more than a minute is not waited for.
FloodKinds == {"mtproto"}

\* Entries the limiter lets through in a window of one second, none without a limiter.
MaxPerSecond == [
  slack |-> 1, email |-> 1, sms |-> 1, avito |-> 1, vk |-> 3, discord |-> 5,
  dingtalk |-> 5, feishu |-> 5, wecom |-> 5, mattermost |-> 10, matrix |-> 10,
  homeassistant |-> 10, webhooks |-> 100]

-----------------------------------------------------------------------------
(* connect.                                                                *)

SlackConnect == <<{"listen"}, {"consume", "active"}>>
WecomConnect == <<{"listen"}, {"consume", "active"}>>
EmailConnect == <<{"listen"}, {"consume", "active"}>>
HomeassistantConnect == <<{"listen"}, {"consume", "active"}>>
FeishuConnect == <<{"listen"}, {"consume", "active"}>>
DingtalkConnect == <<{"listen"}, {"consume", "active"}>>
WebhooksConnect == <<{"listen"}, {"consume", "active"}>>
MattermostConnect == <<{"listen"}, {"consume", "active"}>>
DiscordConnect == <<{"listen"}, {"consume", "active"}>>
SmsConnect == <<{"listen"}, {"consume", "active"}>>
AvitoConnect == <<{"listen"}, {"consume", "active"}>>
VkConnect == <<{"listen"}, {"consume", "active"}>>
MtprotoConnect == <<{"listen"}, {"consume", "active"}>>
\* client.start is not awaited.
MatrixConnect == <<{"consume", "active"}>>
\* The consumer may have ended before the status is set.
TelegramConnect == <<{"consume", "listen"}, {"active"}>>
WhatsappConnect == <<{"consume", "listen"}, {"active"}>>

Connect == [
  slack |-> SlackConnect, wecom |-> WecomConnect, email |-> EmailConnect,
  homeassistant |-> HomeassistantConnect, feishu |-> FeishuConnect,
  dingtalk |-> DingtalkConnect, webhooks |-> WebhooksConnect,
  mattermost |-> MattermostConnect, discord |-> DiscordConnect, sms |-> SmsConnect,
  matrix |-> MatrixConnect, avito |-> AvitoConnect, vk |-> VkConnect,
  telegram |-> TelegramConnect, whatsapp |-> WhatsappConnect, mtproto |-> MtprotoConnect]

\* An error or a close event of the client or the socket changes the status.
ErrorEvents == {"discord", "matrix", "mattermost", "homeassistant", "email"}
CloseEvents == {"mattermost", "homeassistant"}
\* mtproto keeps no status but a flag that its consumer's end leaves set, and its
\* disconnect leaves the transport open.
QuietKinds == {"mtproto"}
=============================================================================
