--------------------------- MODULE MatchScheduling ---------------------------
(***************************************************************************)
(* TeamAddedConsumer behind the group endpoints: it receives the           *)
(* "group.team_added" events they publish and announces "matches.created"  *)
(* for a group that it finds full.  It looks at the group when the event   *)
(* arrives, not when it was published.                                     *)
(*                                                                         *)
(* The bus is not part of the repository.  It may deliver an event late,   *)
(* out of order and again, and delivers it again if the consumer failed.   *)
(***************************************************************************)
EXTENDS GroupService

CONSTANTS
    ConsumerMax,   \* the consumer's maxTeamsPerGroup, given to its constructor
    NoEvent        \* the consumer is idle

ASSUME ConsumerMaxAssumption == ConsumerMax \in Nat

VARIABLES
    handling,      \* the event being handled, or NoEvent
    counted,       \* currentCount, or NotCounted before CountTeamsInGroup
    acked,         \* the events that some delivery has dealt with
    scheduled      \* the "matches.created" messages published

consumerVars == <<handling, counted, acked, scheduled>>
allVars == <<vars, consumerVars>>

NotCounted == -1
TeamEvents == {e \in published : e.topic = "group.team_added"}
MatchesCreated(e) == [tid |-> e.tid, gid |-> e.gid]

SchedulingInit ==
    /\ Init
    /\ handling = NoEvent
    /\ counted = NotCounted
    /\ acked = {}
    /\ scheduled = {}

Idle ==
    /\ handling' = NoEvent
    /\ counted' = NotCounted

Deliver ==
    /\ handling = NoEvent
    /\ handling' \in TeamEvents
    /\ UNCHANGED <<counted, acked, scheduled, vars>>

\* CountTeamsInGroup, a transaction of its own.
CountGroup ==
    /\ handling # NoEvent
    /\ counted = NotCounted
    /\ counted' = Cardinality(TeamsOf(handling.gid))
    /\ UNCHANGED <<handling, acked, scheduled, vars>>

\* Mutant of Full: a group that has grown beyond the limit is not full.
FullExactly == counted = ConsumerMax

\* Mutant of Full: the team of the event is counted once more.
FullWithNewTeam == counted + 1 >= ConsumerMax

Full == counted >= ConsumerMax

Announce ==
    /\ counted # NotCounted
    /\ scheduled' = IF Full THEN scheduled \cup {MatchesCreated(handling)}
                            ELSE scheduled
    /\ acked' = acked \cup {handling}
    /\ Idle
    /\ UNCHANGED vars

\* CountTeamsInGroup or Publish throws, and nobody catches it.
HandlerFails ==
    /\ handling # NoEvent
    /\ Idle
    /\ UNCHANGED <<acked, scheduled, vars>>

SchedulingNext ==
    \/ Next /\ UNCHANGED consumerVars
    \/ Deliver \/ CountGroup \/ Announce \/ HandlerFails

SchedulingSpec == SchedulingInit /\ [][SchedulingNext]_allVars
------------------------------------------------------------------------------

\* Matches are announced for full groups only: what was counted then is still
\* true, however late, often and disordered the events arrive.
ScheduledAreFull ==
    \A m \in scheduled : Cardinality(TeamsOf(m.gid)) >= ConsumerMax

\* No full group is forgotten: its matches are announced, or an event is still
\* to be published or dealt with that will announce them.  The count of one
\* event can be older than the last team, and several can jump over the limit.
FullAreScheduled ==
    HasEventBus =>
        \A g \in GroupIds :
            Cardinality(TeamsOf(g)) >= ConsumerMax /\ TeamsOf(g) # {} =>
                \/ \E m \in scheduled : m.gid = g
                \/ \E e \in TeamEvents \ acked : e.gid = g
                \/ \E w \in Workers : stage[w] = "publish" /\ req[w].gid = g
==============================================================================
