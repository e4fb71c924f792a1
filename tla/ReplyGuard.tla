----------------------------- MODULE ReplyGuard -----------------------------
(***************************************************************************)
(* What happens to a generated reply before it is stored and sent: the     *)
(* pipeline of validators (validators/pipeline.ts), and then the persona's *)
(* correction rules (correction-rules/dar-pipeline.ts), read through the   *)
(* cache of module RuleCache.                                              *)
(*                                                                         *)
(* Each validator asks for its configuration when its turn comes; one that *)
(* is in dry-run, disabled or fails leaves the reply as it is.  A text is  *)
(* what the detectors make of it: how sure a false promise is, how much of *)
(* it is in a foreign script, whether it gives the model away.  "braced"   *)
(* is a text in braces that is no funnel envelope, which the language      *)
(* guard does not look into; an envelope stands for the answer in it.      *)
(***************************************************************************)
EXTENDS RuleCache

CONSTANTS
    Reply,      \* the replies followed; each is also a lookup of the rules
    Generated,  \* the texts an LLM may come up with
    Canned      \* the texts operators and code have ready for the validators

Promises == {"none", "ambiguous", "exact"}
Scripts == {"native", "some", "most", "braced"}
Text == [promise : Promises, script : Scripts, leak : BOOLEAN, blank : BOOLEAN]
Blank == [promise |-> "none", script |-> "native", leak |-> FALSE, blank |-> TRUE]

ASSUME ReplyAssumption == Reply \subseteq Lookup

ASSUME TextAssumption ==
    /\ Generated \subseteq Text /\ Canned \subseteq Text
    /\ \A t \in Generated \cup Canned : t.blank => t = Blank
    /\ \E t \in Canned : ~t.blank

VARIABLES
    reply,      \* the replies under way
    guardOn     \* USE_RESPONSE_GUARD

vars == <<cacheVars, reply, guardOn>>

Guards == {"promise", "language", "identity"}
Kinds == {"complete", "stream", "agent"}
\* Whose words the text is.
Writers == Guards \cup {"llm", "translation", "regeneration", "original", "default", "rules"}

-----------------------------------------------------------------------------
(* Mistakes the properties are there to catch; nothing below uses them.    *)
IdentityFirst ==
    [start |-> "identity", identity |-> "language", language |-> "promise", promise |-> "settle"]
PromiseSecond ==
    [start |-> "language", language |-> "promise", promise |-> "identity", identity |-> "settle"]
OpenToo(p) == TRUE
Untrimmed(p) == {p}
AnyRewrite(t) == TRUE
-----------------------------------------------------------------------------
(* The pipeline's order: validators that block before the one that         *)
(* rewrites (004, FR-017).                                                 *)
After == [start |-> "promise", promise |-> "language", language |-> "identity",
          identity |-> "settle"]

Says(p, text, who) == [p EXCEPT !.text = text, !.by = who]
Configured == {t \in Canned : ~t.blank}

(* A reply is generated.  Streamed replies and those of an agent pass the  *)
(* pipeline only if the persona has a language guard with languages.       *)
Generate(r) ==
    /\ reply[r].at = "start"
    /\ \E kind \in Kinds, t \in Generated, guarded \in BOOLEAN :
         /\ kind = "complete" => guarded
         /\ reply' = [reply EXCEPT ![r] =
              [@ EXCEPT !.kind = kind, !.first = t, !.text = t,
                        !.at = IF guarded THEN After.start ELSE "bypassed"]]
    /\ UNCHANGED <<cacheVars, guardOn>>

(* What a validator returns is used if it is active.                       *)
Enforced(p, g, results) == {[q EXCEPT !.active = @ \cup {g}] : q \in results}

Validate(r, g, results) ==
    /\ reply[r].at = g
    /\ \E q \in {reply[r]} \cup Enforced(reply[r], g, results) :
         reply' = [reply EXCEPT ![r] = [q EXCEPT !.at = After[g]]]
    /\ UNCHANGED <<cacheVars, guardOn>>

(* False promises: an LLM judges what a regular expression has found; if   *)
(* the call fails or returns no JSON, an exact match counts as a promise.  *)
(* What is not taken for a conviction lets the reply pass: an acquittal, a *)
(* conviction below minConfidence, and JSON without a confidence, which no *)
(* comparison holds of.  The remedy is a disclaimer, or a message instead  *)
(* of the reply.                                                           *)
Lenient == {"cleared", "doubted", "malformed"}

Disclaimed(t) ==
    {u \in Text : /\ u.promise = t.promise /\ (t.leak => u.leak)
                  /\ u.script # "braced" /\ ~u.blank}

Remedied(p) == {Says(p, t, "promise") : t \in Canned \cup Disclaimed(p.text)}

OpenOnError(p) == p.text.promise = "ambiguous"

Judged(p) ==
    IF p.text.promise = "none"
    THEN {p}
    ELSE {[p EXCEPT !.verdict = v] : v \in Lenient} \cup Remedied(p)
         \cup {q \in {p} : OpenOnError(q)}

(* Languages: foreign letters are stripped, or the whole reply replaced if *)
(* there are many; or the reply is translated, or generated anew if the    *)
(* translation loses a number.  Only what is generated anew is measured    *)
(* again.  An agent's reply goes out as it is if none of this succeeds.    *)
Stripped == {u \in Text : u.script = "native" /\ ~u.blank}

StripOrBlock(p) ==
    IF p.text.script = "most"
    THEN {Says(p, t, "language") : t \in Configured}
    ELSE {Says(p, t, "language") : t \in Stripped}

Translated(p) == {Says(p, t, "translation") : t \in Generated}
Regenerated(p) ==
    {Says(p, t, "regeneration") : t \in {u \in Generated : u.script \in {"native", "braced"}}}
AsIs(p) == {q \in {p} : q.kind = "agent"}

Cleaned(p) == StripOrBlock(p) \cup Translated(p) \cup Regenerated(p) \cup AsIs(p)

(* A native text may be taken for another language of the same script.     *)
Suspected(p) == p.text.script # "braced" /\ ~p.text.blank

Spoken(p) ==
    (IF p.text.script \in {"native", "braced"} THEN {p} ELSE {})
    \cup (IF Suspected(p) THEN Cleaned(p) ELSE {})

(* Identity: a reply that leaks, or one to the question who is speaking,   *)
(* is replaced.                                                            *)
Acknowledged(p) ==
    {q \in {p} : ~q.text.leak} \cup {Says(p, t, "identity") : t \in Configured}

(* The empty-output guard goes back to the reply as it was generated.      *)
Refilled(p) ==
    IF ~p.text.blank THEN {p}
    ELSE IF ~p.first.blank THEN {Says(p, p.first, "original")}
    ELSE {Says(p, t, "default") : t \in Configured}

(* ResponseGuard takes a changed reply for final; without it, and for one  *)
(* that is unchanged, the rules come next, if the reply is not streamed    *)
(* and no agent's.                                                         *)
Settle(r) ==
    /\ reply[r].at = "settle"
    /\ \E p \in Refilled(reply[r]), changed \in BOOLEAN :
         /\ p.text # p.first => changed
         /\ p.by \in {"llm", "original"} => ~changed
         /\ reply' = [reply EXCEPT ![r] =
              [p EXCEPT !.at = IF p.kind = "complete" /\ ~(guardOn /\ changed)
                               THEN "rules" ELSE "done"]]
    /\ UNCHANGED <<cacheVars, guardOn>>

-----------------------------------------------------------------------------
(* The correction rules.  A text they rewrite is validated again: by the   *)
(* identity guard; by a language guard without languages, which passes     *)
(* everything; and, if it has new words of promise, by the false-promise   *)
(* validator, no verdict of which is the 'pass' that is asked for.         *)
Accepted(t) == ~t.leak

Rewritten(p) == {Says(p, t, "rules") : t \in {u \in Generated : ~u.blank /\ Accepted(u)}}

Correct(r) ==
    /\ reply[r].at = "rules" /\ look[r].at = "found"
    /\ \E q \in {reply[r]} \cup {q \in Rewritten(reply[r]) : look[r].rules # NoRules} :
         reply' = [reply EXCEPT ![r] = [q EXCEPT !.at = "done"]]
    /\ UNCHANGED <<cacheVars, guardOn>>

ReplyStep(r) ==
    \/ Generate(r)
    \/ Validate(r, "promise", Judged(reply[r]))
    \/ Validate(r, "language", Spoken(reply[r]))
    \/ Validate(r, "identity", Acknowledged(reply[r]))
    \/ Settle(r)
    \/ Correct(r)

(* A reply that is not followed may look the rules up at any time.         *)
Reading(l) ==
    /\ l \in Reply => reply[l].at = "rules"
    /\ LookStep(l)
    /\ UNCHANGED <<reply, guardOn>>

Outside == World /\ UNCHANGED <<reply, guardOn>>

Init ==
    /\ CacheInit
    /\ reply = [r \in Reply |->
         [at |-> "start", kind |-> "complete", first |-> Blank, text |-> Blank,
          active |-> {}, by |-> "llm", verdict |-> "none"]]
    /\ guardOn \in BOOLEAN

Next == (\E r \in Reply : ReplyStep(r)) \/ (\E l \in Lookup : Reading(l)) \/ Outside

Spec == Init /\ [][Next]_vars

-----------------------------------------------------------------------------
(* Every value has its type.                                               *)
TypeOK ==
    /\ CacheOK
    /\ reply \in [Reply ->
         [at : {"start", "settle", "rules", "done", "bypassed"} \cup Guards, kind : Kinds,
          first : Text, text : Text, active : SUBSET Guards, by : Writers,
          verdict : {"none"} \cup Lenient]]
    /\ guardOn \in BOOLEAN

Done == {r \in Reply : reply[r].at = "done"}

(* A reply that an active identity guard has seen, or the rules have       *)
(* rewritten, gives nothing away, whoever wrote its text last, unless it   *)
(* is the operator's own words or the original that replaces a blank text. *)
IdentityHolds ==
    \A r \in Done :
        /\ "identity" \in reply[r].active
        /\ reply[r].by \notin {"identity", "original", "default"}
        => ~reply[r].text.leak

(* A sure promise in the LLM's own words leaves an active validator only   *)
(* if the judge answered and its answer was no conviction to the code: a   *)
(* judge that fails does not let it out (004, FR-005).                     *)
PromiseHolds ==
    \A r \in Done :
        "promise" \in reply[r].active /\ reply[r].by = "llm" /\ reply[r].text.promise = "exact"
        => reply[r].verdict \in Lenient

(* What an active language guard has let pass is in the target's script,   *)
(* a disclaimer put there before it included (017, FR-003 to FR-005).      *)
LanguageHolds ==
    \A r \in Done :
        /\ "language" \in reply[r].active
        /\ reply[r].kind # "agent"
        /\ reply[r].by \in {"llm", "promise"}
        => reply[r].text.script \in {"native", "braced"}

(* The customer never receives a blank message (004, FR-019).              *)
NeverBlank == \A r \in Done : ~reply[r].text.blank

(* What a reply is when it is stored and sent: what its validators promise *)
(* in the configuration each was given at its turn, and rules of this      *)
(* persona that are as recent as the cache promises.                       *)
ReplyIsGoverned ==
    /\ IdentityHolds /\ PromiseHolds /\ LanguageHolds /\ NeverBlank
    /\ RulesAreRecent /\ ReloadTakes

-----------------------------------------------------------------------------
(* What the documents say and the code does not do.                        *)

(* A judge that answers what is no verdict counts as one that failed: an   *)
(* exact match is not let out (specs/004, spec.md:103 and FR-005).         *)
MalformedIsClosed ==
    \A r \in Done :
        "promise" \in reply[r].active /\ reply[r].by = "llm" /\ reply[r].text.promise = "exact"
        => reply[r].verdict # "malformed"

(* What chat-service.ts:621-629 hands the caller of complete(), and what   *)
(* the streamed and the agent's turn hand theirs.                          *)
Returned(p) == IF p.kind = "complete" THEN p.first ELSE p.text

(* The caller is given the reply as the validators and rules left it, as   *)
(* the history is (specs/004, FR-001).                                     *)
ReturnedIsGoverned == \A r \in Done : Returned(reply[r]) = reply[r].text
=============================================================================
