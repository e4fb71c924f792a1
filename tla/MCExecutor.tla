----------------------------- MODULE MCExecutor -----------------------------
(* Two turns of two personas of two tenants: one has its tenant's default *)
(* to fall back on, the other an override.                                 *)
EXTENDS Executor, TLC
CONSTANTS t1, t2, p1, p2, a, b, k1, k2, sA, sB, nameA, nameB
MCPersonaOf == (t1 :> p1) @@ (t2 :> p2)
MCTenantOf == (p1 :> a) @@ (a :> a) @@ (p2 :> b) @@ (b :> b)
MCBoundTo == (p1 :> sA) @@ (a :> sA) @@ (p2 :> sB) @@ (b :> sB)
MCEntryTenant == (sA :> a) @@ (sB :> b)
OwnNames == (sA :> nameA) @@ (sB :> nameB)
OneName == (sA :> nameA) @@ (sB :> nameA)

(* Two bounds.  The rows are read only while a turn resolves, and turns    *)
(* that resolve do not touch each other: rows are written only until the   *)
(* first turn has resolved, and then only one turn takes part and stops    *)
(* there, and they are the rows it reads.  EveryTurnEnds is about the      *)
(* behaviours without writes.                                              *)
Resolving == {"idle", "default", "resolved"}
Touched == save # [w \in Saver |-> NewSave] \/ \E s \in Stored : row[s] = NoRow
SavesMeetOneTurn ==
    Touched' =>
        /\ turn'[t1].at \in Resolving \cup {"failed"} /\ turn'[t2].at = "idle"
        /\ \A w \in Saver : save'[w] # Over(save'[w].at) => save'[w].scope \in {p1, a}
        /\ row'[p2] # NoRow
=============================================================================
