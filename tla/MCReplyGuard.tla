---------------------------- MODULE MCReplyGuard ----------------------------
(* One reply, and another one of the persona that reads the rules as well. *)
EXTENDS ReplyGuard

CONSTANTS r1, r2

Of(promise, script, leak) ==
    [promise |-> promise, script |-> script, leak |-> leak, blank |-> FALSE]

MCGenerated ==
    {Blank, Of("none", "native", FALSE), Of("exact", "native", FALSE),
     Of("ambiguous", "some", TRUE), Of("none", "braced", TRUE)}

MCCanned == {Blank, Of("none", "most", FALSE)}
=============================================================================
