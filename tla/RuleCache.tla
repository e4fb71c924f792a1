----------------------------- MODULE RuleCache -----------------------------
(***************************************************************************)
(* The correction rules of one persona and the process-wide cache they are *)
(* read through (core/src/services/correction-rules/rule-cache.ts).  The   *)
(* rules live in another product; each change of them is a new version.    *)
(*                                                                         *)
(* A lookup takes the cached rules if they are young enough.  Otherwise it *)
(* asks the product, telling it which version it has, and caches what it   *)
(* gets under the time at which it began.  Between question, answer and    *)
(* use anything may happen: other lookups, a change of the rules, and the  *)
(* product's call to drop the entry, which may also be lost or repeated    *)
(* (routes/correction-rules-reload.ts); a restart drops the entry as well. *)
(***************************************************************************)
EXTENDS Integers

CONSTANTS
    Lookup,     \* lookups, one per reply that reads the rules
    TTL,        \* CORRECTION_RULE_CACHE_TTL_MS
    MaxVersion, \* bound: changes of the rules
    MaxNow,     \* bound: the clock
    NoRules,    \* no entry, or the empty list a failed lookup returns
    NotModified, Failed \* answers of the product: 304, or an error

ASSUME CacheAssumption ==
    /\ TTL \in Nat /\ MaxVersion \in Nat /\ MaxNow \in Nat
    /\ {NoRules, NotModified, Failed} \cap 0..MaxVersion = {}
    /\ NoRules # NotModified /\ NoRules # Failed /\ NotModified # Failed

VARIABLES
    product,    \* the version of the rules in force
    ended,      \* history: when a version ceased to be in force
    now,
    cache,      \* the entry: version and fetchedAt
    reloaded,   \* history: the oldest version that may be used after the last
                \* call to drop the entry
    look        \* the lookups

cacheVars == <<product, ended, now, cache, reloaded, look>>

Version == 0..MaxVersion
Time == 0..MaxNow
StillInForce == MaxNow + 1
NoEntry == [version |-> NoRules, at |-> 0]
Cached == cache.version # NoRules

-----------------------------------------------------------------------------
(* Mistakes the properties are there to catch; nothing below uses them.    *)
AnyAge(entry) == TRUE
StampedLate(l) == now
EvenFailures(answer) == answer # NotModified
StillThere == cache
-----------------------------------------------------------------------------
(* The world: the rules change, time passes, the entry is dropped.         *)
Change ==
    /\ product < MaxVersion
    /\ product' = product + 1
    /\ ended' = [ended EXCEPT ![product] = now]
    /\ UNCHANGED <<now, cache, reloaded, look>>

Tick ==
    /\ now < MaxNow
    /\ now' = now + 1
    /\ UNCHANGED <<product, ended, cache, reloaded, look>>

(* What lookups have been told and will still cache.                       *)
InFlight == {look[l].answer : l \in {k \in Lookup : look[k].at = "answered"}} \cap Version

Dropped == NoEntry

Invalidate ==
    /\ Cached
    /\ cache' = Dropped
    /\ reloaded' \in InFlight \cup {product}
    /\ \A v \in InFlight \cup {product} : reloaded' <= v
    /\ UNCHANGED <<product, ended, now, look>>

-----------------------------------------------------------------------------
(* getRules().                                                             *)
Young(entry) == now - entry.at < TTL

LookUp(l) ==
    /\ look[l].at = "idle"
    /\ look' = [look EXCEPT ![l] =
         IF Cached /\ Young(cache)
         THEN [@ EXCEPT !.at = "found", !.start = now, !.floor = reloaded,
                        !.rules = cache.version]
         ELSE [@ EXCEPT !.at = "asking", !.start = now, !.floor = reloaded,
                        !.entry = cache.version]]
    /\ UNCHANGED <<product, ended, now, cache, reloaded>>

(* The product answers with its rules, with 304 if they are the version    *)
(* the lookup has, or not at all.                                          *)
Answers(l) == {Failed, IF look[l].entry = product THEN NotModified ELSE product}

Serve(l) ==
    /\ look[l].at = "asking"
    /\ \E answer \in Answers(l) :
         look' = [look EXCEPT ![l] = [@ EXCEPT !.at = "answered", !.answer = answer]]
    /\ UNCHANGED <<product, ended, now, cache, reloaded>>

Kept(answer) == answer \notin {NotModified, Failed}
FetchedAt(l) == look[l].start

(* Without new rules the lookup goes on with the entry it saw.             *)
Used(l) == IF Kept(look[l].answer) THEN look[l].answer ELSE look[l].entry

UseAnswer(l) ==
    /\ look[l].at = "answered"
    /\ cache' = IF Kept(look[l].answer)
                THEN [version |-> look[l].answer, at |-> FetchedAt(l)]
                ELSE cache
    /\ look' = [look EXCEPT ![l] =
         [@ EXCEPT !.at = "found", !.rules = Used(l)]]
    /\ UNCHANGED <<product, ended, now, reloaded>>

LookStep(l) == LookUp(l) \/ Serve(l) \/ UseAnswer(l)

CacheInit ==
    /\ product = 0
    /\ ended = [v \in Version |-> StillInForce]
    /\ now = 0
    /\ cache = NoEntry
    /\ reloaded = 0
    /\ look = [l \in Lookup |->
         [at |-> "idle", start |-> 0, floor |-> 0, entry |-> NoRules,
          answer |-> NoRules, rules |-> NoRules]]

World == Change \/ Tick \/ Invalidate

-----------------------------------------------------------------------------
Looks ==
    [at : {"idle", "asking", "answered", "found"}, start : Time, floor : Version,
     entry : Version \cup {NoRules}, answer : Version \cup {NoRules, NotModified, Failed},
     rules : Version \cup {NoRules}]

CacheOK ==
    /\ product \in Version
    /\ ended \in [Version -> Time \cup {StillInForce}]
    /\ now \in Time
    /\ cache \in [version : Version \cup {NoRules}, at : Time]
    /\ reloaded \in Version
    /\ look \in [Lookup -> Looks]

(* A lookup the product did not fail returns rules that were in force at   *)
(* some moment of the TTL before it began, or later (spec 018, FR-002),    *)
(* whatever fetches of other replies, changes and invalidations overlap.   *)
RulesAreRecent ==
    \A l \in Lookup : look[l].at = "found" /\ look[l].answer # Failed =>
        look[l].rules \in Version /\ ended[look[l].rules] + TTL >= look[l].start

(* A lookup that begins after the product has called the entry out of date *)
(* uses no older rules than were then in force (spec 018, user story 4),   *)
(* but for those an earlier lookup had been sent and not yet cached.       *)
ReloadTakes ==
    \A l \in Lookup : look[l].at = "found" /\ look[l].rules \in Version =>
        look[l].rules >= look[l].floor
=============================================================================
