-------------------------- MODULE ReplyGuardProofs --------------------------
(***************************************************************************)
(* Proofs about ReplyGuard, for every set of replies and lookups, all      *)
(* bounds and all texts.                                                   *)
(*                                                                         *)
(* The cache's part of the invariant says of each lookup what the product  *)
(* was when it answered: the version that an answer or an entry stands for *)
(* had not ceased to be in force when its fetch began.  The pipeline's     *)
(* says at each validator what the earlier ones have established.          *)
(***************************************************************************)
EXTENDS ReplyGuard, TLAPS

-----------------------------------------------------------------------------
(* The cache.                                                              *)
EntryTrue ==
    /\ reloaded <= product
    /\ \A v \in Version : v >= product => ended[v] = StillInForce
    /\ Cached => /\ cache.at <= now /\ ended[cache.version] >= cache.at
                 /\ reloaded <= cache.version

LookTrue(l) ==
    /\ look[l].at # "idle" => look[l].start <= now /\ look[l].floor <= product
    /\ look[l].at \in {"asking", "answered"} /\ look[l].entry \in Version
       => look[l].floor <= look[l].entry
    /\ look[l].at = "answered" =>
         /\ look[l].answer # NoRules
         /\ look[l].answer \in Version =>
              /\ ended[look[l].answer] >= look[l].start
              /\ look[l].floor <= look[l].answer /\ reloaded <= look[l].answer
         /\ look[l].answer = NotModified =>
              look[l].entry \in Version /\ ended[look[l].entry] >= look[l].start
    /\ look[l].at = "found" =>
         /\ look[l].answer # Failed =>
              look[l].rules \in Version /\ ended[look[l].rules] + TTL >= look[l].start
         /\ look[l].rules \in Version => look[l].floor <= look[l].rules

CacheInv == CacheOK /\ EntryTrue /\ \A l \in Lookup : LookTrue(l)

LEMMA CacheStarts == CacheInit => CacheInv
<1> SUFFICES ASSUME CacheInit PROVE CacheInv
  OBVIOUS
<1> USE CacheAssumption
<1>1. 0 \in Version /\ 0 \in Time
  BY SMT DEF Version, Time
<1>2. CacheOK
  BY <1>1 DEF CacheInit, CacheOK, NoEntry, Looks
<1>3. EntryTrue
  BY <1>1, SMT DEF CacheInit, EntryTrue, NoEntry, Cached
<1>4. \A l \in Lookup : LookTrue(l)
  BY DEF CacheInit, LookTrue
<1> QED
  BY <1>2, <1>3, <1>4 DEF CacheInv

(* No version is one of the marks for its absence.                         *)
LEMMA Marks ==
    /\ NoRules \notin Version /\ NotModified \notin Version /\ Failed \notin Version
    /\ NoRules # NotModified /\ NoRules # Failed /\ NotModified # Failed
BY CacheAssumption DEF Version

(* What is known of a lookup stays true as versions end, time passes and   *)
(* the entry is dropped.                                                   *)
LEMMA LookKept ==
    ASSUME CacheInv, UNCHANGED look, now' >= now, product' >= product,
           now' \in Time, product' \in Version, reloaded' \in Version,
           \A v \in Version, t \in Time : t <= now /\ ended[v] >= t => ended'[v] >= t,
           \A v \in Version, t \in Time : ended[v] + TTL >= t /\ t <= now => ended'[v] + TTL >= t,
           \A l \in Lookup : look[l].at = "answered" /\ look[l].answer \in Version
                             => reloaded' <= look[l].answer
    PROVE  \A l \in Lookup : LookTrue(l)'
<1> SUFFICES ASSUME NEW l \in Lookup PROVE LookTrue(l)'
  OBVIOUS
<1>1. LookTrue(l) /\ look[l].start \in Time /\ look[l].floor \in Version
      /\ now \in Time /\ product \in Version
  BY DEF CacheInv, CacheOK, Looks
<1>2. look[l].at # "idle" => look[l].start <= now' /\ look[l].floor <= product'
  BY <1>1, CacheAssumption, SMT DEF LookTrue, Time, Version
<1>3. look[l].at # "idle" => look[l].start <= now
  BY <1>1 DEF LookTrue
<1> QED
  BY <1>1, <1>2, <1>3 DEF LookTrue

LEMMA ChangeKeeps == ASSUME CacheInv, Change PROVE CacheInv'
<1>1. CacheOK'
  BY CacheAssumption, SMT DEF CacheInv, CacheOK, Change, Version, Time
<1>2. /\ product \in Version /\ product' \in Version /\ product' = product + 1
      /\ \A v \in Version : ended'[v] = IF v = product THEN now ELSE ended[v]
      /\ now \in Time /\ ended \in [Version -> Time \cup {StillInForce}]
      /\ UNCHANGED <<now, cache, reloaded, look>>
  BY CacheAssumption, SMT DEF CacheInv, CacheOK, Change, Version, Time, StillInForce
<1>3. \A v \in Version, t \in Time : t <= now /\ ended[v] >= t => ended'[v] >= t
  BY <1>2, CacheAssumption, SMT DEF Time
<1>4. \A v \in Version, t \in Time : ended[v] + TTL >= t /\ t <= now => ended'[v] + TTL >= t
  BY <1>2, CacheAssumption, SMT DEF Time, StillInForce
<1>5. EntryTrue'
  <2>1. EntryTrue /\ cache \in [version : Version \cup {NoRules}, at : Time]
        /\ reloaded \in Version
    BY DEF CacheInv, CacheOK
  <2>2. reloaded' <= product'
    BY <1>2, <2>1, CacheAssumption, SMT DEF EntryTrue, Version
  <2>3. \A v \in Version : v >= product' => ended'[v] = StillInForce
    BY <1>2, <2>1, CacheAssumption, SMT DEF EntryTrue, Version
  <2> QED
    BY <1>2, <1>3, <2>1, <2>2, <2>3 DEF EntryTrue, Cached, StillInForce
<1>6. \A l \in Lookup : LookTrue(l)'
  <2>1. now' >= now /\ product' >= product
    BY <1>2, CacheAssumption, SMT DEF Time, Version
  <2>2. \A l \in Lookup : look[l].at = "answered" /\ look[l].answer \in Version
                          => reloaded' <= look[l].answer
    BY <1>2 DEF CacheInv, LookTrue
  <2> QED
    BY <1>1, <1>2, <1>3, <1>4, <2>1, <2>2, LookKept DEF CacheOK
<1> QED
  BY <1>1, <1>5, <1>6 DEF CacheInv

LEMMA TickKeeps == ASSUME CacheInv, Tick PROVE CacheInv'
<1>1. CacheOK'
  BY CacheAssumption, SMT DEF CacheInv, CacheOK, Tick, Time
<1>2. now \in Time /\ now' \in Time /\ now' >= now
      /\ UNCHANGED <<product, ended, cache, reloaded, look>>
  BY <1>1, CacheAssumption, SMT DEF CacheInv, CacheOK, Tick, Time
<1>3. EntryTrue'
  <2>1. EntryTrue /\ cache.at \in Time
    BY DEF CacheInv, CacheOK
  <2>2. cache.at <= now => cache.at <= now'
    BY <1>2, <2>1, CacheAssumption, SMT DEF Time
  <2> QED
    BY <1>2, <2>1, <2>2 DEF EntryTrue, Cached
<1>4. \A l \in Lookup : LookTrue(l)'
  <2>1. product' >= product /\ product' \in Version /\ reloaded' \in Version
    BY <1>1, <1>2, CacheAssumption, SMT DEF CacheOK, Version
  <2>2. \A l \in Lookup : look[l].at = "answered" /\ look[l].answer \in Version
                          => reloaded' <= look[l].answer
    BY <1>2 DEF CacheInv, LookTrue
  <2> QED
    BY <1>2, <2>1, <2>2, LookKept
<1> QED
  BY <1>1, <1>3, <1>4 DEF CacheInv

(* A call to drop the entry never takes back what an earlier one promised. *)
LEMMA InvalidateKeeps == ASSUME CacheInv, Invalidate PROVE CacheInv'
<1>1. /\ reloaded' \in Version /\ reloaded' <= product
      /\ \A l \in Lookup : look[l].at = "answered" /\ look[l].answer \in Version
                           => reloaded' <= look[l].answer
  BY DEF CacheInv, CacheOK, Invalidate, InFlight
<1>2. CacheOK'
  BY <1>1, CacheAssumption, SMT DEF CacheInv, CacheOK, Invalidate, Dropped, NoEntry, Time
<1>3. EntryTrue'
  BY <1>1 DEF CacheInv, EntryTrue, Invalidate, Dropped, NoEntry, Cached
<1>4. \A l \in Lookup : LookTrue(l)'
  <2>1. UNCHANGED <<product, ended, now, look>>
    BY DEF Invalidate
  <2>2. now' >= now /\ product' >= product /\ now' \in Time /\ product' \in Version
    BY <1>2, <2>1, CacheAssumption, SMT DEF CacheOK, Time, Version
  <2> QED
    BY <1>1, <2>1, <2>2, LookKept
<1> QED
  BY <1>2, <1>3, <1>4 DEF CacheInv

(* One lookup steps; the others are as they were.                          *)
LEMMA OtherLooks ==
    ASSUME CacheInv, NEW k \in Lookup, \A l \in Lookup \ {k} : look'[l] = look[l],
           UNCHANGED <<product, ended, now, reloaded>>
    PROVE  \A l \in Lookup \ {k} : LookTrue(l)'
BY DEF CacheInv, LookTrue

(* What a step of a lookup makes of it.                                    *)
LEMMA FoundLook ==
    ASSUME NEW r \in Looks, NEW s \in Time, NEW f \in Version, NEW v \in Version \cup {NoRules}
    PROVE  [r EXCEPT !.at = "found", !.start = s, !.floor = f, !.rules = v] \in Looks
BY DEF Looks

LEMMA AskingLook ==
    ASSUME NEW r \in Looks, NEW s \in Time, NEW f \in Version, NEW v \in Version \cup {NoRules}
    PROVE  [r EXCEPT !.at = "asking", !.start = s, !.floor = f, !.entry = v] \in Looks
BY DEF Looks

LEMMA AnsweredLook ==
    ASSUME NEW r \in Looks, NEW v \in Version \cup {NoRules, NotModified, Failed}
    PROVE  [r EXCEPT !.at = "answered", !.answer = v] \in Looks
BY DEF Looks

LEMMA UsedLook ==
    ASSUME NEW r \in Looks, NEW v \in Version \cup {NoRules}
    PROVE  [r EXCEPT !.at = "found", !.rules = v] \in Looks
BY DEF Looks

(* A field-wise view of a lookup's step.                                   *)
LEMMA LookStepped ==
    ASSUME CacheInv, NEW k \in Lookup, NEW new \in Looks, look' = [look EXCEPT ![k] = new]
    PROVE  /\ look' \in [Lookup -> Looks] /\ look'[k] = new
           /\ \A l \in Lookup \ {k} : look'[l] = look[l]
BY DEF CacheInv, CacheOK

LEMMA LookUpKeeps == ASSUME CacheInv, NEW k \in Lookup, LookUp(k) PROVE CacheInv'
<1>1. /\ UNCHANGED <<product, ended, now, cache, reloaded>>
      /\ CacheOK /\ EntryTrue /\ look[k] \in Looks /\ now \in Time /\ reloaded \in Version
      /\ cache.version \in Version \cup {NoRules} /\ cache.at \in Time
  BY DEF LookUp, CacheInv, CacheOK
<1>2. CASE Cached /\ Young(cache)
  <2> DEFINE new == [look[k] EXCEPT !.at = "found", !.start = now, !.floor = reloaded,
                                    !.rules = cache.version]
  <2>1. look' = [look EXCEPT ![k] = new]
    BY <1>2 DEF LookUp
  <2>2. cache.version \in Version
    BY <1>1, <1>2 DEF Cached
  <2>3. /\ new \in Looks /\ new.at = "found" /\ new.start = now /\ new.floor = reloaded
        /\ new.rules = cache.version
    <3>1. new \in Looks
      BY <1>1, FoundLook
    <3> QED
      BY <1>1, <3>1 DEF Looks
  <2> HIDE DEF new
  <2>4. ended[cache.version] + TTL >= now
    BY <1>1, <1>2, <2>2, CacheAssumption, SMT
    DEF EntryTrue, Young, Time, Version, CacheOK, StillInForce
  <2>5. look' \in [Lookup -> Looks] /\ look'[k] = new /\ \A l \in Lookup \ {k} : look'[l] = look[l]
    BY <2>1, <2>3, LookStepped
  <2>6. LookTrue(k)'
    BY <1>1, <1>2, <2>2, <2>3, <2>4, <2>5, CacheAssumption, SMT
    DEF LookTrue, EntryTrue, Time, Version
  <2> QED
    BY <1>1, <2>5, <2>6, OtherLooks DEF CacheInv, CacheOK, EntryTrue, Cached
<1>3. CASE ~(Cached /\ Young(cache))
  <2> DEFINE new == [look[k] EXCEPT !.at = "asking", !.start = now, !.floor = reloaded,
                                    !.entry = cache.version]
  <2>1. look' = [look EXCEPT ![k] = new]
    BY <1>3 DEF LookUp
  <2>2. /\ new \in Looks /\ new.at = "asking" /\ new.start = now /\ new.floor = reloaded
        /\ new.entry = cache.version
    <3>1. new \in Looks
      BY <1>1, AskingLook
    <3> QED
      BY <1>1, <3>1 DEF Looks
  <2> HIDE DEF new
  <2>3. look' \in [Lookup -> Looks] /\ look'[k] = new /\ \A l \in Lookup \ {k} : look'[l] = look[l]
    BY <2>1, <2>2, LookStepped
  <2>4. cache.version \in Version => reloaded <= cache.version
    BY <1>1, Marks DEF EntryTrue, Cached
  <2>5. LookTrue(k)'
    BY <1>1, <2>2, <2>3, <2>4, CacheAssumption, SMT DEF LookTrue, EntryTrue, Time
  <2> QED
    BY <1>1, <2>3, <2>5, OtherLooks DEF CacheInv, CacheOK, EntryTrue, Cached
<1> QED
  BY <1>2, <1>3

LEMMA ServeKeeps == ASSUME CacheInv, NEW k \in Lookup, Serve(k) PROVE CacheInv'
<1>1. /\ UNCHANGED <<product, ended, now, cache, reloaded>> /\ look[k].at = "asking"
      /\ CacheOK /\ EntryTrue /\ LookTrue(k) /\ look[k] \in Looks /\ product \in Version
  BY DEF Serve, CacheInv, CacheOK
<1>2. PICK answer \in Answers(k) :
        look' = [look EXCEPT ![k] = [@ EXCEPT !.at = "answered", !.answer = answer]]
  BY DEF Serve
<1> DEFINE new == [look[k] EXCEPT !.at = "answered", !.answer = answer]
<1>3. /\ answer \in Version \cup {NotModified, Failed}
      /\ answer \in Version => answer = product
      /\ answer = NotModified => look[k].entry = product
  BY <1>1, Marks DEF Answers
<1>4. /\ new \in Looks /\ new.at = "answered" /\ new.answer = answer /\ new.start = look[k].start
      /\ new.floor = look[k].floor /\ new.entry = look[k].entry
  <2>1. new \in Looks
    BY <1>1, <1>3, AnsweredLook
  <2> QED
    BY <1>1, <2>1 DEF Looks
<1>5. look' = [look EXCEPT ![k] = new]
  BY <1>2
<1> HIDE DEF new
<1>6. look' \in [Lookup -> Looks] /\ look'[k] = new /\ \A l \in Lookup \ {k} : look'[l] = look[l]
  BY <1>4, <1>5, LookStepped
<1>7. look[k].start <= now /\ look[k].floor <= product /\ reloaded <= product
      /\ (look[k].entry \in Version => look[k].floor <= look[k].entry)
  BY <1>1 DEF LookTrue, EntryTrue
<1>8. ended[product] >= look[k].start
  BY <1>1, CacheAssumption, SMT DEF EntryTrue, CacheOK, Looks, Time, Version, StillInForce
<1>9. LookTrue(k)'
  BY <1>1, <1>3, <1>4, <1>6, <1>7, <1>8, Marks DEF LookTrue
<1> QED
  BY <1>1, <1>6, <1>9, OtherLooks DEF CacheInv, CacheOK, EntryTrue, Cached

(* What is cached was in force when its fetch began, however late it came. *)
LEMMA UseAnswerKeeps == ASSUME CacheInv, NEW k \in Lookup, UseAnswer(k) PROVE CacheInv'
<1>1. /\ UNCHANGED <<product, ended, now, reloaded>> /\ look[k].at = "answered"
      /\ CacheOK /\ EntryTrue /\ LookTrue(k) /\ look[k] \in Looks
  BY DEF UseAnswer, CacheInv, CacheOK
<1>2. /\ look[k].start \in Time /\ look[k].floor \in Version /\ look[k].start <= now
      /\ look[k].floor <= product /\ ended \in [Version -> Time \cup {StillInForce}]
      /\ look[k].answer \in Version \cup {NotModified, Failed}
      /\ look[k].entry \in Version \cup {NoRules}
  BY <1>1 DEF LookTrue, CacheOK, Looks
<1> DEFINE new == [look[k] EXCEPT !.at = "found", !.rules = Used(k)]
<1>3. Used(k) \in Version \cup {NoRules}
  BY <1>2 DEF Used, Kept
<1>4. /\ new \in Looks /\ new.at = "found" /\ new.rules = Used(k) /\ new.start = look[k].start
      /\ new.floor = look[k].floor /\ new.answer = look[k].answer
  <2>1. new \in Looks
    BY <1>1, <1>3, UsedLook
  <2> QED
    BY <1>1, <2>1 DEF Looks
<1>5. look' = [look EXCEPT ![k] = new]
  BY DEF UseAnswer
<1> HIDE DEF new
<1>6. look' \in [Lookup -> Looks] /\ look'[k] = new /\ \A l \in Lookup \ {k} : look'[l] = look[l]
  BY <1>4, <1>5, LookStepped
<1>7. CASE Kept(look[k].answer)
  <2>1. /\ look[k].answer \in Version /\ Used(k) = look[k].answer
        /\ cache' = [version |-> look[k].answer, at |-> look[k].start]
    BY <1>2, <1>7 DEF UseAnswer, FetchedAt, Kept, Used
  <2>2. /\ ended[look[k].answer] >= look[k].start /\ look[k].floor <= look[k].answer
        /\ reloaded <= look[k].answer
    BY <1>1, <2>1 DEF LookTrue
  <2>3. CacheOK'
    BY <1>1, <1>2, <1>6, <2>1 DEF CacheOK
  <2>4. EntryTrue'
    BY <1>1, <1>2, <2>1, <2>2 DEF EntryTrue, Cached, StillInForce
  <2>5. ended[look[k].answer] + TTL >= look[k].start
    BY <1>2, <2>1, <2>2, CacheAssumption, SMT DEF Time, StillInForce
  <2>6. LookTrue(k)'
    BY <1>1, <1>2, <1>4, <1>6, <2>1, <2>2, <2>5 DEF LookTrue
  <2> QED
    BY <1>1, <1>6, <2>3, <2>4, <2>6, OtherLooks DEF CacheInv
<1>8. CASE ~Kept(look[k].answer)
  <2>1. look[k].answer \in {NotModified, Failed} /\ Used(k) = look[k].entry /\ cache' = cache
    BY <1>8 DEF UseAnswer, Kept, Used
  <2>2. look[k].answer = NotModified =>
          look[k].entry \in Version /\ ended[look[k].entry] + TTL >= look[k].start
    <3>1. look[k].answer = NotModified =>
            look[k].entry \in Version /\ ended[look[k].entry] >= look[k].start
      BY <1>1 DEF LookTrue
    <3> QED
      BY <1>2, <3>1, CacheAssumption, SMT DEF Time, StillInForce
  <2>3. look[k].entry \in Version => look[k].floor <= look[k].entry
    BY <1>1 DEF LookTrue
  <2>4. LookTrue(k)'
    <3>1. look'[k].answer # Failed => look[k].answer = NotModified
      BY <1>4, <1>6, <2>1
    <3> QED
      BY <1>1, <1>2, <1>4, <1>6, <2>1, <2>2, <2>3, <3>1 DEF LookTrue
  <2> QED
    BY <1>1, <1>6, <2>1, <2>4, OtherLooks DEF CacheInv, CacheOK, EntryTrue, Cached
<1> QED
  BY <1>7, <1>8

-----------------------------------------------------------------------------
(* The pipeline.                                                           *)
Places == {"start", "settle", "rules", "done", "bypassed"} \cup Guards
Replies ==
    [at : Places, kind : Kinds, first : Text, text : Text, active : SUBSET Guards,
     by : Writers, verdict : {"none"} \cup Lenient]

PromiseFact(p) ==
    "promise" \in p.active /\ p.by = "llm" /\ p.text.promise = "exact" => p.verdict \in Lenient
LanguageFact(p) ==
    "language" \in p.active /\ p.kind # "agent" /\ p.by \in {"llm", "promise"}
    => p.text.script \in {"native", "braced"}
IdentityFact(p) ==
    "identity" \in p.active /\ p.by \notin {"identity", "original", "default"} => ~p.text.leak

ReplyTrue(p) ==
    /\ p.at \in {"start", "promise", "bypassed"} => p.active = {} /\ p.by = "llm"
    /\ p.at = "language" => p.active \subseteq {"promise"} /\ p.by \in {"llm", "promise"}
    /\ p.at = "identity" => "identity" \notin p.active
    /\ p.at \in {"language", "identity", "settle", "rules", "done"} => PromiseFact(p)
    /\ p.at \in {"identity", "settle", "rules", "done"} => LanguageFact(p)
    /\ p.at \in {"settle", "rules", "done"} => IdentityFact(p)
    /\ p.at \in {"rules", "done"} => ~p.text.blank

RepliesInv ==
    reply \in [Reply -> Replies] /\ (\A r \in Reply : ReplyTrue(reply[r])) /\ guardOn \in BOOLEAN

(* What the updates of a reply make of its fields.                         *)
LEMMA SaysWhat ==
    ASSUME NEW p \in Replies, NEW t \in Text, NEW w \in Writers
    PROVE  /\ Says(p, t, w) \in Replies
           /\ Says(p, t, w).text = t /\ Says(p, t, w).by = w
           /\ Says(p, t, w).active = p.active /\ Says(p, t, w).kind = p.kind
           /\ Says(p, t, w).verdict = p.verdict
<1>1. [p EXCEPT !.text = t, !.by = w] \in Replies
  BY DEF Replies
<1> QED
  BY <1>1 DEF Says, Replies

LEMMA ActiveWhat ==
    ASSUME NEW p \in Replies, NEW g \in Guards
    PROVE  LET q == [p EXCEPT !.active = @ \cup {g}] IN
           /\ q \in Replies /\ q.active = p.active \cup {g}
           /\ q.text = p.text /\ q.by = p.by /\ q.kind = p.kind /\ q.verdict = p.verdict
<1>1. p.active \cup {g} \in SUBSET Guards
  BY DEF Replies
<1> DEFINE a == p.active \cup {g}
<1>2. [p EXCEPT !.active = a] \in Replies
  <2> HIDE DEF a
  <2> QED
    BY <1>1 DEF Replies, a
<1> QED
  BY <1>2 DEF Replies

LEMMA MovedWhat ==
    ASSUME NEW p \in Replies, NEW a \in Places
    PROVE  LET q == [p EXCEPT !.at = a] IN
           /\ q \in Replies /\ q.at = a /\ q.active = p.active
           /\ q.text = p.text /\ q.by = p.by /\ q.kind = p.kind /\ q.verdict = p.verdict
<1>1. [p EXCEPT !.at = a] \in Replies
  BY DEF Replies
<1> QED
  BY <1>1 DEF Replies

LEMMA ReplyStepped ==
    ASSUME RepliesInv, NEW r \in Reply, NEW new \in Replies, ReplyTrue(new),
           reply' = [reply EXCEPT ![r] = new], UNCHANGED guardOn
    PROVE  RepliesInv'
<1>1. reply' \in [Reply -> Replies]
  BY DEF RepliesInv
<1>2. ASSUME NEW k \in Reply PROVE ReplyTrue(reply[k])'
  <2>1. reply'[k] = IF k = r THEN new ELSE reply[k]
    BY DEF RepliesInv
  <2> QED
    BY <2>1 DEF RepliesInv, ReplyTrue, PromiseFact, LanguageFact, IdentityFact
<1> QED
  BY <1>1, <1>2 DEF RepliesInv

LEMMA TextsAreTexts ==
    /\ Generated \subseteq Text /\ Canned \subseteq Text /\ Configured \subseteq Text
    /\ \A t \in Configured : ~t.blank
    /\ \A t \in Text : Disclaimed(t) \subseteq Text
    /\ Stripped \subseteq Text
BY TextAssumption, Zenon DEF Configured, Disclaimed, Stripped

LEMMA GuardsWrite ==
    {"promise", "identity", "language", "translation", "regeneration", "original", "default"}
      \subseteq Writers
BY DEF Writers, Guards

(* What each validator establishes of what it returns.                     *)
LEMMA JudgedWell ==
    ASSUME NEW p \in Replies, p.by = "llm", NEW q \in Judged(p)
    PROVE  /\ q \in Replies /\ q.active = p.active /\ q.by \in {"llm", "promise"}
           /\ q.by = "llm" /\ q.text.promise = "exact" => q.verdict \in Lenient
<1>1. CASE q = p /\ p.text.promise # "exact"
  BY <1>1
<1>2. ASSUME NEW v \in Lenient, q = [p EXCEPT !.verdict = v]
      PROVE  /\ q \in Replies /\ q.active = p.active /\ q.by \in {"llm", "promise"}
             /\ q.by = "llm" /\ q.text.promise = "exact" => q.verdict \in Lenient
  <2>1. q \in Replies
    BY <1>2 DEF Replies
  <2> QED
    BY <1>2, <2>1 DEF Replies
<1>3. CASE q \in Remedied(p)
  <2>1. p.text \in Text
    BY DEF Replies
  <2>2. PICK t \in Text : q = Says(p, t, "promise")
    BY <1>3, <2>1, TextsAreTexts, Zenon DEF Remedied
  <2>3. q \in Replies /\ q.active = p.active /\ q.by = "promise"
    <3>1. "promise" \in Writers
      BY GuardsWrite
    <3> QED
      BY <2>2, <3>1, SaysWhat, Zenon
  <2> QED
    BY <2>3
<1> QED
  BY <1>1, <1>2, <1>3 DEF Judged, OpenOnError

LEMMA SpokenWell ==
    ASSUME NEW p \in Replies, NEW q \in Spoken(p)
    PROVE  /\ q \in Replies /\ q.active = p.active /\ q.kind = p.kind
           /\ \/ q = p /\ (p.kind # "agent" => p.text.script \in {"native", "braced"})
              \/ q.by \in {"language", "translation", "regeneration"}
<1>1. CASE q = p /\ (p.kind = "agent" \/ p.text.script \in {"native", "braced"})
  BY <1>1
<1>2. CASE \E t \in Text, w \in {"language", "translation", "regeneration"} : q = Says(p, t, w)
  <2>1. PICK t \in Text, w \in {"language", "translation", "regeneration"} : q = Says(p, t, w)
    BY <1>2
  <2>2. q \in Replies /\ q.active = p.active /\ q.kind = p.kind /\ q.by = w
    <3>1. w \in Writers
      BY GuardsWrite
    <3> QED
      BY <2>1, <3>1, SaysWhat, Zenon
  <2> QED
    BY <2>2
<1>3. q \in Cleaned(p) => q \in AsIs(p)
        \/ \E t \in Text, w \in {"language", "translation", "regeneration"} : q = Says(p, t, w)
  BY TextsAreTexts, Zenon DEF Cleaned, StripOrBlock, Translated, Regenerated
<1> QED
  BY <1>1, <1>2, <1>3 DEF Spoken, AsIs

LEMMA AcknowledgedWell ==
    ASSUME NEW p \in Replies, NEW q \in Acknowledged(p)
    PROVE  /\ q \in Replies /\ q.active = p.active /\ q.kind = p.kind
           /\ (q = p /\ ~p.text.leak) \/ q.by = "identity"
<1>1. (q = p /\ ~p.text.leak) \/ \E t \in Text : q = Says(p, t, "identity")
  BY TextsAreTexts, Zenon DEF Acknowledged
<1>2. ASSUME NEW t \in Text, q = Says(p, t, "identity")
      PROVE  q \in Replies /\ q.active = p.active /\ q.kind = p.kind /\ q.by = "identity"
  <2>1. "identity" \in Writers
    BY GuardsWrite
  <2> QED
    BY <1>2, <2>1, SaysWhat, ZenonT(30)
<1> QED
  BY <1>1, <1>2

LEMMA RefilledWell ==
    ASSUME NEW p \in Replies, NEW q \in Refilled(p)
    PROVE  /\ q \in Replies /\ q.active = p.active /\ q.kind = p.kind /\ ~q.text.blank
           /\ q = p \/ q.by \in {"original", "default"}
<1>1. p.first \in Text
  BY DEF Replies
<1>2. \/ q = p /\ ~p.text.blank
      \/ \E t \in Text : ~t.blank /\ \E w \in {"original", "default"} : q = Says(p, t, w)
  BY <1>1, TextsAreTexts, Zenon DEF Refilled
<1>3. CASE q = p /\ ~p.text.blank
  BY <1>3
<1>4. CASE \E t \in Text : ~t.blank /\ \E w \in {"original", "default"} : q = Says(p, t, w)
  <2>1. PICK t \in Text, w \in {"original", "default"} : ~t.blank /\ q = Says(p, t, w)
    BY <1>4
  <2>2. /\ q \in Replies /\ q.active = p.active /\ q.kind = p.kind /\ q.by = w
        /\ q.text = t
    <3>1. w \in Writers
      BY GuardsWrite
    <3> QED
      BY <2>1, <3>1, SaysWhat, Zenon
  <2>3. ~q.text.blank
    BY <2>1, <2>2, Zenon
  <2> QED
    BY <2>1, <2>2, <2>3
<1> QED
  BY <1>2, <1>3, <1>4

-----------------------------------------------------------------------------
(* The steps of a reply.                                                   *)
(* The state a validator finds and the one it leaves.                      *)
LEMMA ValidateWell ==
    ASSUME RepliesInv, NEW r \in Reply, NEW g \in Guards, NEW results, Validate(r, g, results)
    PROVE  \E q : /\ q \in {reply[r]} \cup Enforced(reply[r], g, results)
                 /\ reply' = [reply EXCEPT ![r] = [q EXCEPT !.at = After[g]]]
                 /\ reply[r] \in Replies /\ reply[r].at = g /\ ReplyTrue(reply[r])
                 /\ UNCHANGED guardOn
BY DEF Validate, RepliesInv

LEMMA PromiseKeeps ==
    ASSUME RepliesInv, NEW r \in Reply, Validate(r, "promise", Judged(reply[r]))
    PROVE  RepliesInv'
<1> DEFINE p == reply[r]
<1>1. PICK q : /\ q \in {p} \cup Enforced(p, "promise", Judged(p))
               /\ reply' = [reply EXCEPT ![r] = [q EXCEPT !.at = After["promise"]]]
               /\ p \in Replies /\ p.at = "promise" /\ ReplyTrue(p) /\ UNCHANGED guardOn
  BY ValidateWell DEF Guards
<1>2. p.active = {} /\ p.by = "llm"
  BY <1>1 DEF ReplyTrue
<1>3. /\ q \in Replies /\ q.active \subseteq {"promise"} /\ q.by \in {"llm", "promise"}
      /\ PromiseFact(q)
  <2>1. CASE q = p
    BY <1>1, <1>2, <2>1 DEF PromiseFact
  <2>2. CASE q \in Enforced(p, "promise", Judged(p))
    <3>1. PICK j \in Judged(p) : q = [j EXCEPT !.active = @ \cup {"promise"}]
      BY <2>2 DEF Enforced
    <3>2. /\ j \in Replies /\ j.active = {} /\ j.by \in {"llm", "promise"}
          /\ j.by = "llm" /\ j.text.promise = "exact" => j.verdict \in Lenient
      BY <1>1, <1>2, JudgedWell
    <3>3. /\ q \in Replies /\ q.active = {"promise"} /\ q.text = j.text /\ q.by = j.by
          /\ q.verdict = j.verdict
      BY <3>1, <3>2, ActiveWhat DEF Guards
    <3> QED
      BY <3>2, <3>3 DEF PromiseFact
  <2> QED
    BY <1>1, <2>1, <2>2
<1> DEFINE new == [q EXCEPT !.at = "language"]
<1>4. reply' = [reply EXCEPT ![r] = new]
  BY <1>1 DEF After
<1>5. /\ new \in Replies /\ new.at = "language" /\ new.active = q.active /\ new.text = q.text
      /\ new.by = q.by /\ new.verdict = q.verdict
  BY <1>3, MovedWhat DEF Places, Guards
<1> HIDE DEF new
<1>6. ReplyTrue(new)
  BY <1>3, <1>5 DEF ReplyTrue, PromiseFact
<1> QED
  BY <1>1, <1>4, <1>5, <1>6, ReplyStepped

LEMMA LanguageKeeps ==
    ASSUME RepliesInv, NEW r \in Reply, Validate(r, "language", Spoken(reply[r]))
    PROVE  RepliesInv'
<1> DEFINE p == reply[r]
<1>1. PICK q : /\ q \in {p} \cup Enforced(p, "language", Spoken(p))
               /\ reply' = [reply EXCEPT ![r] = [q EXCEPT !.at = After["language"]]]
               /\ p \in Replies /\ p.at = "language" /\ ReplyTrue(p) /\ UNCHANGED guardOn
  BY ValidateWell DEF Guards
<1>2. p.active \subseteq {"promise"} /\ p.by \in {"llm", "promise"} /\ PromiseFact(p)
  BY <1>1 DEF ReplyTrue
<1>3. q \in Replies /\ "identity" \notin q.active /\ PromiseFact(q) /\ LanguageFact(q)
  <2>1. CASE q = p
    BY <1>1, <1>2, <2>1 DEF LanguageFact
  <2>2. CASE q \in Enforced(p, "language", Spoken(p))
    <3>1. PICK j \in Spoken(p) : q = [j EXCEPT !.active = @ \cup {"language"}]
      BY <2>2 DEF Enforced
    <3>2. /\ j \in Replies /\ j.active = p.active /\ j.kind = p.kind
          /\ \/ j = p /\ (p.kind # "agent" => p.text.script \in {"native", "braced"})
             \/ j.by \in {"language", "translation", "regeneration"}
      BY <1>1, SpokenWell
    <3>3. /\ q \in Replies /\ q.active = p.active \cup {"language"} /\ q.text = j.text
          /\ q.by = j.by /\ q.verdict = j.verdict /\ q.kind = p.kind
      BY <3>1, <3>2, ActiveWhat DEF Guards
    <3>4. CASE j = p /\ (p.kind # "agent" => p.text.script \in {"native", "braced"})
      BY <1>2, <3>2, <3>3, <3>4 DEF PromiseFact, LanguageFact
    <3>5. CASE j.by \in {"language", "translation", "regeneration"}
      BY <1>2, <3>2, <3>3, <3>5 DEF PromiseFact, LanguageFact
    <3> QED
      BY <3>2, <3>4, <3>5
  <2> QED
    BY <1>1, <2>1, <2>2
<1> DEFINE new == [q EXCEPT !.at = "identity"]
<1>4. reply' = [reply EXCEPT ![r] = new]
  BY <1>1 DEF After
<1>5. /\ new \in Replies /\ new.at = "identity" /\ new.active = q.active /\ new.text = q.text
      /\ new.by = q.by /\ new.verdict = q.verdict /\ new.kind = q.kind
  BY <1>3, MovedWhat DEF Places, Guards
<1> HIDE DEF new
<1>6. ReplyTrue(new)
  BY <1>3, <1>5 DEF ReplyTrue, PromiseFact, LanguageFact
<1> QED
  BY <1>1, <1>4, <1>5, <1>6, ReplyStepped

LEMMA IdentityKeeps ==
    ASSUME RepliesInv, NEW r \in Reply, Validate(r, "identity", Acknowledged(reply[r]))
    PROVE  RepliesInv'
<1> DEFINE p == reply[r]
<1>1. PICK q : /\ q \in {p} \cup Enforced(p, "identity", Acknowledged(p))
               /\ reply' = [reply EXCEPT ![r] = [q EXCEPT !.at = After["identity"]]]
               /\ p \in Replies /\ p.at = "identity" /\ ReplyTrue(p) /\ UNCHANGED guardOn
  BY ValidateWell DEF Guards
<1>2. "identity" \notin p.active /\ PromiseFact(p) /\ LanguageFact(p)
  BY <1>1 DEF ReplyTrue
<1>3. q \in Replies /\ PromiseFact(q) /\ LanguageFact(q) /\ IdentityFact(q)
  <2>1. CASE q = p
    BY <1>1, <1>2, <2>1 DEF IdentityFact
  <2>2. CASE q \in Enforced(p, "identity", Acknowledged(p))
    <3>1. PICK j \in Acknowledged(p) : q = [j EXCEPT !.active = @ \cup {"identity"}]
      BY <2>2 DEF Enforced
    <3>2. /\ j \in Replies /\ j.active = p.active /\ j.kind = p.kind
          /\ (j = p /\ ~p.text.leak) \/ j.by = "identity"
      BY <1>1, AcknowledgedWell
    <3>3. /\ q \in Replies /\ q.active = p.active \cup {"identity"} /\ q.text = j.text
          /\ q.by = j.by /\ q.verdict = j.verdict /\ q.kind = p.kind
      BY <3>1, <3>2, ActiveWhat DEF Guards
    <3>4. CASE j = p /\ ~p.text.leak
      <4>1. ~q.text.leak
        BY <3>3, <3>4, Zenon
      <4> QED
        BY <1>2, <3>2, <3>3, <3>4, <4>1 DEF PromiseFact, LanguageFact, IdentityFact
    <3>5. CASE j.by = "identity"
      BY <1>2, <3>2, <3>3, <3>5 DEF PromiseFact, LanguageFact, IdentityFact
    <3> QED
      BY <3>2, <3>4, <3>5
  <2> QED
    BY <1>1, <2>1, <2>2
<1> DEFINE new == [q EXCEPT !.at = "settle"]
<1>4. reply' = [reply EXCEPT ![r] = new]
  BY <1>1 DEF After
<1>5. /\ new \in Replies /\ new.at = "settle" /\ new.active = q.active /\ new.text = q.text
      /\ new.by = q.by /\ new.verdict = q.verdict /\ new.kind = q.kind
  BY <1>3, MovedWhat DEF Places, Guards
<1> HIDE DEF new
<1>6. ReplyTrue(new)
  BY <1>3, <1>5 DEF ReplyTrue, PromiseFact, LanguageFact, IdentityFact
<1> QED
  BY <1>1, <1>4, <1>5, <1>6, ReplyStepped

LEMMA SettleKeeps == ASSUME RepliesInv, NEW r \in Reply, Settle(r) PROVE RepliesInv'
<1>1. /\ reply[r] \in Replies /\ reply[r].at = "settle" /\ ReplyTrue(reply[r])
      /\ UNCHANGED guardOn
  BY DEF Settle, RepliesInv
<1>2. PICK p \in Refilled(reply[r]), a \in {"rules", "done"} :
        reply' = [reply EXCEPT ![r] = [p EXCEPT !.at = a]]
  BY DEF Settle
<1>3. /\ p \in Replies /\ p.active = reply[r].active /\ p.kind = reply[r].kind /\ ~p.text.blank
      /\ p = reply[r] \/ p.by \in {"original", "default"}
  BY <1>1, RefilledWell
<1>4. PromiseFact(reply[r]) /\ LanguageFact(reply[r]) /\ IdentityFact(reply[r])
  BY <1>1 DEF ReplyTrue
<1>5. PromiseFact(p) /\ LanguageFact(p) /\ IdentityFact(p)
  <2>1. CASE p = reply[r]
    BY <1>4, <2>1
  <2>2. CASE p.by \in {"original", "default"}
    BY <2>2 DEF PromiseFact, LanguageFact, IdentityFact
  <2> QED
    BY <1>3, <2>1, <2>2
<1> DEFINE new == [p EXCEPT !.at = a]
<1>6. /\ new \in Replies /\ new.at = a /\ new.active = p.active /\ new.text = p.text
      /\ new.by = p.by /\ new.verdict = p.verdict /\ new.kind = p.kind
  BY <1>3, MovedWhat DEF Places
<1> HIDE DEF new
<1>7. ReplyTrue(new)
  BY <1>3, <1>5, <1>6 DEF ReplyTrue, PromiseFact, LanguageFact, IdentityFact
<1> QED
  BY <1>1, <1>2, <1>6, <1>7, ReplyStepped DEF new

LEMMA CorrectKeeps == ASSUME RepliesInv, NEW r \in Reply, Correct(r) PROVE RepliesInv'
<1>1. /\ reply[r] \in Replies /\ reply[r].at = "rules" /\ ReplyTrue(reply[r])
      /\ UNCHANGED guardOn
  BY DEF Correct, RepliesInv
<1>2. PICK q \in {reply[r]} \cup Rewritten(reply[r]) :
        reply' = [reply EXCEPT ![r] = [q EXCEPT !.at = "done"]]
  BY DEF Correct
<1>3. /\ q \in Replies /\ PromiseFact(q) /\ LanguageFact(q) /\ IdentityFact(q)
      /\ ~q.text.blank
  <2>1. CASE q = reply[r]
    <3>1. ~reply[r].text.blank
      BY <1>1, Zenon DEF ReplyTrue
    <3>2. PromiseFact(reply[r]) /\ LanguageFact(reply[r]) /\ IdentityFact(reply[r])
      BY <1>1 DEF ReplyTrue
    <3> QED
      BY <1>1, <2>1, <3>1, <3>2, Zenon
  <2>2. CASE q \in Rewritten(reply[r])
    <3>1. PICK t \in Text : ~t.blank /\ ~t.leak /\ q = Says(reply[r], t, "rules")
      BY <2>2, TextsAreTexts, Zenon DEF Rewritten, Accepted
    <3>2. "rules" \in Writers
      BY DEF Writers
    <3>3. q \in Replies /\ q.text = t /\ q.by = "rules"
      BY <1>1, <3>1, <3>2, SaysWhat, Zenon
    <3>4. ~q.text.blank /\ ~q.text.leak
      BY <3>1, <3>3, Zenon
    <3> QED
      BY <3>3, <3>4 DEF PromiseFact, LanguageFact, IdentityFact
  <2> QED
    BY <1>2, <2>1, <2>2
<1> DEFINE new == [q EXCEPT !.at = "done"]
<1>4. /\ new \in Replies /\ new.at = "done" /\ new.active = q.active /\ new.text = q.text
      /\ new.by = q.by /\ new.verdict = q.verdict /\ new.kind = q.kind
  BY <1>3, MovedWhat DEF Places
<1>5. reply' = [reply EXCEPT ![r] = new]
  BY <1>2
<1> HIDE DEF new
<1>6. ReplyTrue(new)
  BY <1>3, <1>4 DEF ReplyTrue, PromiseFact, LanguageFact, IdentityFact
<1> QED
  BY <1>1, <1>4, <1>5, <1>6, ReplyStepped

LEMMA GenerateKeeps == ASSUME RepliesInv, NEW r \in Reply, Generate(r) PROVE RepliesInv'
<1>1. /\ reply[r] \in Replies /\ reply[r].at = "start" /\ ReplyTrue(reply[r])
      /\ UNCHANGED guardOn
  BY DEF Generate, RepliesInv
<1>2. PICK kind \in Kinds, t \in Text, a \in {"promise", "bypassed"} :
        reply' = [reply EXCEPT ![r] =
          [reply[r] EXCEPT !.kind = kind, !.first = t, !.text = t, !.at = a]]
  BY TextsAreTexts DEF Generate, After
<1> DEFINE new == [reply[r] EXCEPT !.kind = kind, !.first = t, !.text = t, !.at = a]
<1>3. new \in Replies
  BY <1>1 DEF Replies, Places, Guards
<1>4. /\ new \in Replies /\ new.at = a /\ new.active = reply[r].active /\ new.by = reply[r].by
  BY <1>1, <1>3 DEF Replies
<1>5. reply' = [reply EXCEPT ![r] = new]
  BY <1>2
<1> HIDE DEF new
<1>6. reply[r].active = {} /\ reply[r].by = "llm"
  BY <1>1 DEF ReplyTrue
<1>7. ReplyTrue(new)
  BY <1>4, <1>6 DEF ReplyTrue
<1> QED
  BY <1>1, <1>4, <1>5, <1>7, ReplyStepped

-----------------------------------------------------------------------------
Inv == CacheInv /\ RepliesInv

LEMMA Starts == Init => Inv
<1> SUFFICES ASSUME Init PROVE Inv
  OBVIOUS
<1> DEFINE p == [at |-> "start", kind |-> "complete", first |-> Blank, text |-> Blank,
                 active |-> {}, by |-> "llm", verdict |-> "none"]
<1>1. Blank \in Text
  BY DEF Blank, Text, Promises, Scripts
<1>2. p \in Replies
  BY <1>1 DEF Replies, Places, Kinds, Writers
<1>3. p.at = "start" /\ p.active = {} /\ p.by = "llm"
  OBVIOUS
<1>4. reply = [r \in Reply |-> p] /\ guardOn \in BOOLEAN
  BY DEF Init
<1> HIDE DEF p
<1>5. ReplyTrue(p)
  BY <1>3 DEF ReplyTrue
<1>6. RepliesInv
  <2>1. \A r \in Reply : reply[r] = p
    BY <1>4
  <2>2. \A r \in Reply : ReplyTrue(reply[r])
    BY <1>5, <2>1, Zenon
  <2>3. reply \in [Reply -> Replies]
    BY <1>2, <1>4
  <2> QED
    BY <1>4, <2>2, <2>3, Zenon DEF RepliesInv
<1> QED
  BY <1>6, CacheStarts DEF Init, Inv

LEMMA CacheUnchanged == ASSUME CacheInv, UNCHANGED cacheVars PROVE CacheInv'
BY DEF CacheInv, CacheOK, EntryTrue, LookTrue, Cached, cacheVars

LEMMA RepliesUnchanged == ASSUME RepliesInv, UNCHANGED <<reply, guardOn>> PROVE RepliesInv'
BY DEF RepliesInv

LEMMA Steps == Inv /\ [Next]_vars => Inv'
<1> SUFFICES ASSUME Inv, [Next]_vars PROVE Inv'
  OBVIOUS
<1>1. CacheInv /\ RepliesInv
  BY DEF Inv
<1>2. ASSUME NEW r \in Reply, ReplyStep(r) PROVE Inv'
  <2>1. UNCHANGED cacheVars
    BY <1>2 DEF ReplyStep, Generate, Validate, Settle, Correct
  <2>2. RepliesInv'
    BY <1>1, <1>2, GenerateKeeps, PromiseKeeps, LanguageKeeps, IdentityKeeps, SettleKeeps,
       CorrectKeeps DEF ReplyStep
  <2> QED
    BY <1>1, <2>1, <2>2, CacheUnchanged DEF Inv
<1>3. ASSUME NEW l \in Lookup, Reading(l) PROVE Inv'
  BY <1>1, <1>3, LookUpKeeps, ServeKeeps, UseAnswerKeeps, RepliesUnchanged
  DEF Reading, LookStep, Inv
<1>4. CASE Outside
  BY <1>1, <1>4, ChangeKeeps, TickKeeps, InvalidateKeeps, RepliesUnchanged
  DEF Outside, World, Inv
<1>5. CASE UNCHANGED vars
  BY <1>1, <1>5, CacheUnchanged, RepliesUnchanged DEF vars, Inv
<1> QED
  BY <1>2, <1>3, <1>4, <1>5 DEF Next

(* Every value has its type, however many replies are guarded and rules    *)
(* looked up at once (validators/pipeline.ts, rule-cache.ts).              *)
THEOREM TypeCorrect == Spec => []TypeOK
<1>1. Inv => TypeOK
  BY DEF Inv, CacheInv, RepliesInv, TypeOK, Replies, Places
<1> QED
  BY <1>1, Starts, Steps, PTL DEF Spec

(* A reply goes out governed: what an active validator promises of it      *)
(* still holds after everything that follows, and the rules it went by     *)
(* are recent and no older than the last reload allows.                    *)
THEOREM Governed == Spec => []ReplyIsGoverned
<1>1. Inv => ReplyIsGoverned
  <2> SUFFICES ASSUME Inv PROVE ReplyIsGoverned
    OBVIOUS
  <2>1. RulesAreRecent /\ ReloadTakes
    BY DEF Inv, CacheInv, LookTrue, RulesAreRecent, ReloadTakes
  <2>2. \A r \in Done : ReplyTrue(reply[r]) /\ reply[r].at = "done"
    BY Zenon DEF Inv, RepliesInv, Done
  <2>3. PromiseHolds /\ LanguageHolds
    BY <2>2 DEF ReplyTrue, PromiseFact, LanguageFact, PromiseHolds, LanguageHolds
  <2>4. IdentityHolds
    BY <2>2 DEF ReplyTrue, IdentityFact, IdentityHolds
  <2>5. NeverBlank
    BY <2>2 DEF ReplyTrue, NeverBlank
  <2> QED
    BY <2>1, <2>3, <2>4, <2>5 DEF ReplyIsGoverned
<1> QED
  BY <1>1, Starts, Steps, PTL DEF Spec
=============================================================================
