----------------------------- MODULE GroupRoster -----------------------------
(***************************************************************************)
(* What the group endpoints promise to whoever listens to their events:    *)
(* groups are founded, teams join groups that are there, nobody leaves;    *)
(* nothing is announced that has not happened, and whatever has happened   *)
(* is announced in the end, whichever requests are refused or fail         *)
(* half-way.                                                               *)
(***************************************************************************)
CONSTANTS
    Groups,     \* group ids
    Teams       \* team ids

VARIABLES
    founded,    \* the groups there are
    members,    \* pairs <<group, team>>: the team has joined the group
    heralded,   \* groups whose founding listeners were told of
    announced   \* pairs whose joining listeners were told of

vars == <<founded, members, heralded, announced>>

Init == founded = {} /\ members = {} /\ heralded = {} /\ announced = {}

Found(g) ==
    /\ founded' = founded \cup {g}
    /\ UNCHANGED <<members, heralded, announced>>

Herald(g) ==
    /\ g \in founded
    /\ heralded' = heralded \cup {g}
    /\ UNCHANGED <<founded, members, announced>>

Join(p) ==
    /\ p[1] \in founded
    /\ members' = members \cup {p}
    /\ UNCHANGED <<founded, heralded, announced>>

Announce(p) ==
    /\ p \in members
    /\ announced' = announced \cup {p}
    /\ UNCHANGED <<founded, members, heralded>>

Next ==
    \/ \E g \in Groups : Found(g) \/ Herald(g)
    \/ \E p \in Groups \X Teams : Join(p) \/ Announce(p)

Spec == Init /\ [][Next]_vars

\* Nothing waits for ever to be announced.
Progress ==
    /\ \A g \in Groups : (g \in founded) ~> (g \in heralded)
    /\ \A p \in Groups \X Teams : (p \in members) ~> (p \in announced)

LiveSpec == Spec /\ Progress
==============================================================================
