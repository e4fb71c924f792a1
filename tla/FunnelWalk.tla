----------------------------- MODULE FunnelWalk -----------------------------
(***************************************************************************)
(* What the funnel runtime promises of one conversation, each user turn    *)
(* being one indivisible step: the conversation stands on a stage, may     *)
(* have a stage waiting for the user's confirmation, remembers the stages  *)
(* it was called away from, and counts the turns it has been stuck.        *)
(***************************************************************************)
EXTENDS Naturals, Sequences

CONSTANTS Stage,      \* the stages of the pinned funnel version
          First,      \* its first stage
          Anytime,    \* the stages with isAnytime and triggers
          Confirm,    \* the stages with requiresConfirmation
          Exit,       \* Exit[s]: where a stuck turn leaves s for, or None
          Threshold,  \* stuck_threshold of the funnel's configuration
          MaxDepth,   \* the depth of the return stack
          None

VARIABLE walk  \* None, or the conversation's place in the funnel

WInit == walk = None

Start ==
    /\ walk = None
    /\ walk' = [stage |-> First, stack |-> <<>>, pending |-> None, stuck |-> 0]

Reset == walk # None /\ walk' = None

\* A confirmation is answered: the pending stage is entered, or forgotten.
Answer ==
    /\ walk # None
    /\ walk.pending # None
    /\ \/ walk' = [walk EXCEPT !.stage = walk.pending, !.pending = None,
                               !.stuck = 0]
       \/ walk' = [walk EXCEPT !.pending = None]

\* Turns that overlap may pass over a confirmation asked between their two
\* readings, so the other steps do not wait for the answer.
Under == walk # None

Detour(a) ==
    /\ Under
    /\ Len(walk.stack) < MaxDepth
    /\ a # walk.stage
    /\ \A i \in DOMAIN walk.stack : walk.stack[i] # a
    /\ walk' = [walk EXCEPT !.stage = a, !.stuck = 0,
                            !.stack = Append(@, walk.stage)]

Return ==
    /\ Under
    /\ walk.stage \in Anytime
    /\ walk.stack # <<>>
    /\ walk' = [walk EXCEPT !.stage = walk.stack[Len(walk.stack)],
                            !.stack = SubSeq(walk.stack, 1, Len(walk.stack) - 1)]

Ask(c) == Under /\ walk' = [walk EXCEPT !.pending = c]

Stick ==
    /\ Under
    /\ walk.stuck + 1 < Threshold \/ Exit[walk.stage] = None
    /\ walk' = [walk EXCEPT !.stuck = IF @ < Threshold THEN @ + 1 ELSE @]

GiveUp ==
    /\ Under
    /\ walk.stuck + 1 >= Threshold
    /\ Exit[walk.stage] # None
    /\ walk' = [walk EXCEPT !.stage = Exit[@], !.stuck = 0]

WNext ==
    \/ Start \/ Reset \/ Answer \/ Return \/ Stick \/ GiveUp
    \/ \E a \in Anytime : Detour(a)
    \/ \E c \in Confirm : Ask(c)

Walk == WInit /\ [][WNext]_walk
=============================================================================
