---------------------------- MODULE MCFunnelTurn ----------------------------
(***************************************************************************)
(* A funnel of four stages: "hello" leads to "need", "need" to "offer",    *)
(* which asks for a confirmation and is left for "need" when the           *)
(* conversation is stuck there; "faq" may be entered at any time and is    *)
(* left for "hello" when stuck.                                            *)
(***************************************************************************)
EXTENDS FunnelTurn

CONSTANTS hello, need, offer, faq, t1, t2, t3

MCStage == {hello, need, offer, faq}
MCAnytime == {faq}
MCConfirm == {offer}
MCNext == [s \in MCStage |-> CASE s = hello -> need [] s = need -> offer
                               [] s = offer -> None [] s = faq -> hello]
MCOrder == [s \in MCStage |-> CASE s = hello -> 1 [] s = need -> 2
                                [] s = offer -> 3 [] s = faq -> 4]
MCExit == [s \in MCStage |-> CASE s = hello -> None [] s = need -> None
                               [] s = offer -> need [] s = faq -> hello]
=============================================================================
