------------------------ MODULE MatchSchedulingProofs ------------------------
(***************************************************************************)
(* Theorems about MatchScheduling, for any number of workers, groups and   *)
(* teams, any limit of the consumer, and any order of delivery.            *)
(***************************************************************************)
EXTENDS MatchScheduling, GroupServiceProofs

\* A worker has a row of group g that nobody has announced yet.
AwaitingNews(g) ==
    \E w \in Workers :
        /\ stage[w] = "publish" /\ req[w].gid = g
        /\ TeamAdded(req[w].tid, g, Announcing(w)) \notin TeamEvents

\* An event about group g is still to be dealt with, beside those of E.
OpenBut(E, g) == \E e \in TeamEvents \ (acked \cup E) : e.gid = g

\* What the consumer holds: published events, and a count that was true once.
ConsumerOK ==
    /\ acked \subseteq TeamEvents
    /\ handling \in TeamEvents \cup {NoEvent}
    /\ handling = NoEvent => counted = NotCounted
    /\ counted # NotCounted =>
          counted \in Nat /\ counted <= Cardinality(TeamsOf(handling.gid))
    /\ \A m \in scheduled :
          m.gid \in GroupIds /\ Cardinality(TeamsOf(m.gid)) >= ConsumerMax

\* FullAreScheduled, of one group, with the reason why a publishing worker helps:
\* its event is a new one, that no delivery can have dealt with before.
FullKept(g) ==
    Cardinality(TeamsOf(g)) >= ConsumerMax /\ TeamsOf(g) # {} =>
        (\E m \in scheduled : m.gid = g) \/ OpenBut({}, g) \/ AwaitingNews(g)

\* Whoever has outdated the count has left an event of his own, or will.
CountKept ==
    counted # NotCounted /\ Cardinality(TeamsOf(handling.gid)) > counted =>
        OpenBut({handling}, handling.gid) \/ AwaitingNews(handling.gid)

\* The inductive invariant behind FullAreScheduled.
NewsKept == CountKept /\ \A g \in GroupIds : FullKept(g)
------------------------------------------------------------------------------
\* The group endpoints do not notice the consumer

LEMMA SchedulingRefines ==
    /\ SchedulingInit => Init
    /\ [SchedulingNext]_allVars => [Next]_vars
BY DEF SchedulingInit, SchedulingNext, Deliver, CountGroup, Announce, HandlerFails,
       allVars, vars

\* What GroupServiceProofs knows holds beside the consumer as well.
LEMMA EndpointsHold == SchedulingSpec => []IInv /\ []Room
<1>1. IInv /\ Room /\ [SchedulingNext]_allVars => IInv' /\ Room'
  BY SchedulingRefines, NextIInv, NextRoom
<1>2. SchedulingInit => IInv /\ Room
  BY SchedulingRefines, InitIInv, InitRoom
<1> QED  BY <1>1, <1>2, PTL DEF SchedulingSpec

\* Rows and events stay, and a group never has fewer teams.
LEMMA Growth ==
    ASSUME IInv, Room, [Next]_vars
    PROVE  /\ groupTeams \subseteq groupTeams' /\ TeamEvents \subseteq TeamEvents'
           /\ \A g \in GroupIds :
                 /\ Cardinality(TeamsOf(g)) \in Nat /\ Cardinality(TeamsOf(g))' \in Nat
                 /\ Cardinality(TeamsOf(g)) <= Cardinality(TeamsOf(g))'
<1>1. groupTeams \subseteq groupTeams' /\ TeamNews \subseteq TeamNews'
  <2>1. CASE UNCHANGED <<groupTeams, published>>
    BY <2>1 DEF TeamNews
  <2>2. ASSUME NEW w \in Workers, Accept(w) \/ Serve(w), ~Dies
        PROVE  groupTeams \subseteq groupTeams' /\ TeamNews \subseteq TeamNews'
    <3>1. CASE AddTeam(w) \/ PublishTeam(w)
      BY <3>1, AddFacts, PublishFacts
    <3>2. CASE CommitInDoubt(w)
      BY <3>2 DEF CommitInDoubt, StoreTeam, TeamNews
    <3> QED  BY <2>2, <3>1, <3>2, StepFrame
  <2>3. Dies => UNCHANGED <<groupTeams, published>>
    BY DEF Dies, GetGroup, tables
  <2> QED  BY <2>1, <2>2, <2>3 DEF Next, UpdateTournament, vars, tables
<1>2. Room'
  BY NextRoom
<1>3. ASSUME NEW g \in GroupIds
      PROVE  /\ Cardinality(TeamsOf(g)) \in Nat /\ Cardinality(TeamsOf(g))' \in Nat
             /\ Cardinality(TeamsOf(g)) <= Cardinality(TeamsOf(g))'
  <2>1. IsFiniteSet(TeamsOf(g)) /\ IsFiniteSet(TeamsOf(g)')
    BY <1>2 DEF Room
  <2>2. TeamsOf(g) \subseteq TeamsOf(g)'
    BY <1>1 DEF TeamsOf
  <2> QED  BY <2>1, <2>2, FS_Subset, FS_CardinalityType
<1> QED  BY <1>1, <1>3 DEF TeamNews, TeamEvents

\* Events are about groups that can exist.
LEMMA EventsTyped == ASSUME IInv PROVE \A e \in TeamEvents : e.gid \in GroupIds
BY DEF IInv, TypeOK, TeamEvents
------------------------------------------------------------------------------
\* ScheduledAreFull

\* A count that was true when it was taken is a lower bound ever after.
LEMMA ConsumerStep ==
    ASSUME IInv, Room, ConsumerOK, [SchedulingNext]_allVars
    PROVE  ConsumerOK'
<1>1. [Next]_vars
  BY SchedulingRefines
<1>2. /\ TeamEvents \subseteq TeamEvents'
      /\ \A g \in GroupIds :
            /\ Cardinality(TeamsOf(g)) \in Nat /\ Cardinality(TeamsOf(g))' \in Nat
            /\ Cardinality(TeamsOf(g)) <= Cardinality(TeamsOf(g))'
  BY <1>1, Growth
<1>3. /\ handling # NoEvent => handling \in TeamEvents /\ handling.gid \in GroupIds
      /\ \A e \in TeamEvents : e.gid \in GroupIds
  BY EventsTyped DEF ConsumerOK
<1>4. CASE UNCHANGED consumerVars
  <2>1. counted' # NotCounted =>
           counted' \in Nat /\ counted' <= Cardinality(TeamsOf(handling.gid))'
    BY <1>2, <1>3, <1>4 DEF ConsumerOK, consumerVars
  <2>2. \A m \in scheduled' :
           m.gid \in GroupIds /\ Cardinality(TeamsOf(m.gid))' >= ConsumerMax
    BY <1>2, <1>4, ConsumerMaxAssumption DEF ConsumerOK, consumerVars
  <2> QED  BY <1>2, <1>4, <2>1, <2>2 DEF ConsumerOK, consumerVars
<1>5. CASE Deliver
  BY <1>5 DEF Deliver, ConsumerOK, TeamEvents, TeamsOf, vars, tables
<1>6. CASE CountGroup
  BY <1>2, <1>3, <1>6 DEF CountGroup, ConsumerOK, TeamEvents, TeamsOf, vars, tables
<1>7. CASE Announce
  <2>1. /\ TeamEvents' = TeamEvents /\ handling \in TeamEvents
        /\ \A g : TeamsOf(g)' = TeamsOf(g)
    BY <1>3, <1>7 DEF Announce, ConsumerOK, TeamEvents, TeamsOf, vars, tables
  <2>2. \A m \in scheduled' :
           m.gid \in GroupIds /\ Cardinality(TeamsOf(m.gid)) >= ConsumerMax
    BY <1>2, <1>3, <1>7, <2>1, ConsumerMaxAssumption
    DEF Announce, Full, MatchesCreated, ConsumerOK
  <2> QED  BY <1>7, <2>1, <2>2 DEF Announce, Idle, ConsumerOK
<1>8. CASE HandlerFails
  BY <1>8 DEF HandlerFails, Idle, ConsumerOK, TeamEvents, TeamsOf, vars, tables
<1> QED
  BY <1>4, <1>5, <1>6, <1>7, <1>8 DEF SchedulingNext, allVars

LEMMA ConsumerHolds == SchedulingSpec => []ConsumerOK
<1>1. SchedulingInit => ConsumerOK
  BY DEF SchedulingInit, ConsumerOK
<1>2. IInv /\ Room /\ ConsumerOK /\ [SchedulingNext]_allVars => ConsumerOK'
  BY ConsumerStep
<1> QED  BY <1>1, <1>2, EndpointsHold, PTL DEF SchedulingSpec

\* Whatever the order, the delay and the repetition of the events, and whatever
\* fails, matches are announced for full groups only.
THEOREM OnlyFullAnnounced == SchedulingSpec => []ScheduledAreFull
<1>1. ConsumerOK => ScheduledAreFull
  BY DEF ConsumerOK, ScheduledAreFull
<1> QED  BY <1>1, ConsumerHolds, PTL
------------------------------------------------------------------------------
\* FullAreScheduled

\* A team that joins a group leaves it with news, and what is open or awaited
\* stays so, when a worker takes a step.  E are events to be left out.
LEMMA NewsSurvive ==
    ASSUME IInv, HasEventBus, ~CommitsInDoubt, acked \subseteq TeamEvents,
           NEW w \in Workers, Accept(w) \/ Serve(w), ~Dies, NEW g \in GroupIds
    PROVE  /\ TeamsOf(g)' # TeamsOf(g) => AwaitingNews(g)'
           /\ \A E \in SUBSET TeamEvents :
                 OpenBut(E, g) \/ AwaitingNews(g) =>
                    \/ \E e \in TeamEvents' \ (acked \cup E) : e.gid = g
                    \/ AwaitingNews(g)'
<1>1. /\ \A v \in Workers \ {w} : Unmoved(v)
      /\ \/ AddTeam(w) \/ PublishTeam(w)
         \/ UNCHANGED groupTeams /\ TeamEvents' = TeamEvents /\ stage[w] # "publish"
  BY StepFrame DEF CommitInDoubt, TeamEvents, TeamNews
<1>2. CASE UNCHANGED groupTeams /\ TeamEvents' = TeamEvents /\ stage[w] # "publish"
  <2>1. TeamsOf(g)' = TeamsOf(g)
    BY <1>2 DEF TeamsOf
  <2>2. AwaitingNews(g) => AwaitingNews(g)'
    BY <1>1, <1>2 DEF AwaitingNews, Unmoved, Announcing
  <2> QED  BY <1>2, <2>1, <2>2 DEF OpenBut
<1>3. CASE AddTeam(w)
  <2>1. /\ groupTeams' = groupTeams \cup {<<req[w].gid, Storing(w)>>}
        /\ TeamEvents' = TeamEvents /\ stage[w] # "publish"
        /\ req'[w] = req[w] /\ stage'[w] = "publish" /\ Announcing(w)' = Storing(w)
    BY <1>3, AddFacts DEF TeamEvents, TeamNews, AddTeam
  <2>2. TeamsOf(g)' # TeamsOf(g) => AwaitingNews(g)'
    <3> SUFFICES ASSUME TeamsOf(g)' # TeamsOf(g) PROVE AwaitingNews(g)'
      OBVIOUS
    <3>1. g = req[w].gid /\ <<g, Storing(w)>> \notin groupTeams
      BY <2>1 DEF TeamsOf
    <3>2. \A e \in TeamEvents : <<e.gid, e.team>> \in groupTeams
      BY DEF IInv, EventsHaveRows, TeamEvents
    <3>3. TeamAdded(req[w].tid, g, Storing(w)) \notin TeamEvents
      BY <3>1, <3>2 DEF TeamAdded
    <3> QED  BY <2>1, <3>1, <3>3 DEF AwaitingNews, TeamAdded
  <2>3. AwaitingNews(g) => AwaitingNews(g)'
    BY <1>1, <2>1 DEF AwaitingNews, Unmoved, Announcing
  <2> QED  BY <2>1, <2>2, <2>3 DEF OpenBut
<1>4. CASE PublishTeam(w)
  <2> DEFINE new == TeamAdded(req[w].tid, req[w].gid, Announcing(w))
  <2>1. UNCHANGED groupTeams /\ TeamEvents' = TeamEvents \cup {new}
    BY <1>4, PublishFacts DEF TeamEvents, TeamNews
  <2>2. TeamsOf(g)' = TeamsOf(g)
    BY <2>1 DEF TeamsOf
  <2>3. ASSUME AwaitingNews(g), NEW E \in SUBSET TeamEvents
        PROVE  \/ \E e \in TeamEvents' \ (acked \cup E) : e.gid = g
               \/ AwaitingNews(g)'
    <3>1. PICK v \in Workers :
             /\ stage[v] = "publish" /\ req[v].gid = g
             /\ TeamAdded(req[v].tid, g, Announcing(v)) \notin TeamEvents
      BY <2>3 DEF AwaitingNews
    <3>2. CASE new = TeamAdded(req[v].tid, g, Announcing(v))
      <4>1. new.gid = g /\ new \notin acked \cup E
        BY <3>1, <3>2 DEF TeamAdded
      <4> QED  BY <2>1, <4>1
    <3>3. CASE new # TeamAdded(req[v].tid, g, Announcing(v))
      <4>1. v # w
        BY <3>1, <3>3
      <4> QED
        BY <1>1, <2>1, <3>1, <3>3, <4>1 DEF AwaitingNews, Unmoved, Announcing
    <3> QED  BY <3>2, <3>3
  <2> QED  BY <2>1, <2>2, <2>3 DEF OpenBut
<1> QED  BY <1>1, <1>2, <1>3, <1>4

LEMMA WorkerKeepsNews ==
    ASSUME IInv, ConsumerOK, NewsKept, HasEventBus, ~CommitsInDoubt,
           NEW w \in Workers, Accept(w) \/ Serve(w), ~Dies, UNCHANGED consumerVars
    PROVE  NewsKept'
<1>1. /\ acked' = acked /\ handling' = handling /\ counted' = counted
      /\ scheduled' = scheduled /\ acked \subseteq TeamEvents
  BY DEF consumerVars, ConsumerOK
<1>2. ASSUME NEW g \in GroupIds PROVE FullKept(g)'
  <2>1. /\ TeamsOf(g)' # TeamsOf(g) => AwaitingNews(g)'
        /\ OpenBut({}, g) \/ AwaitingNews(g) =>
              \/ \E e \in TeamEvents' \ (acked \cup {}) : e.gid = g
              \/ AwaitingNews(g)'
    BY <1>1, NewsSurvive
  <2>2. FullKept(g)
    BY DEF NewsKept
  <2> QED  BY <1>1, <2>1, <2>2 DEF FullKept, OpenBut
<1>3. CountKept'
  <2> SUFFICES ASSUME counted # NotCounted,
                      Cardinality(TeamsOf(handling.gid))' > counted
               PROVE  (OpenBut({handling}, handling.gid)
                          \/ AwaitingNews(handling.gid))'
    BY <1>1 DEF CountKept
  <2>1. handling \in TeamEvents /\ handling.gid \in GroupIds
    BY EventsTyped DEF ConsumerOK
  <2>2. PICK g \in GroupIds : g = handling.gid
    BY <2>1
  <2>3. /\ TeamsOf(g)' # TeamsOf(g) => AwaitingNews(g)'
        /\ OpenBut({handling}, g) \/ AwaitingNews(g) =>
              \/ \E e \in TeamEvents' \ (acked \cup {handling}) : e.gid = g
              \/ AwaitingNews(g)'
    BY <1>1, <2>1, NewsSurvive
  <2>4. TeamsOf(handling.gid)' = TeamsOf(g)'
    BY <1>1, <2>2 DEF TeamsOf
  <2>5. TeamsOf(g)' = TeamsOf(g) => OpenBut({handling}, g) \/ AwaitingNews(g)
    BY <2>2, <2>4 DEF NewsKept, CountKept
  <2>6. (\E e \in TeamEvents' \ (acked \cup {handling}) : e.gid = g) \/ AwaitingNews(g)'
    BY <2>3, <2>5
  <2> QED  BY <1>1, <2>2, <2>6 DEF OpenBut, AwaitingNews
<1> QED  BY <1>2, <1>3 DEF NewsKept

\* The consumer gives an event up only when its group is announced, or has not
\* enough teams, or has gained one since it was counted.
LEMMA ConsumerKeepsNews ==
    ASSUME IInv, Room, ConsumerOK, NewsKept,
           Deliver \/ CountGroup \/ Announce \/ HandlerFails
    PROVE  NewsKept'
<1>1. /\ UNCHANGED vars /\ TeamEvents' = TeamEvents
      /\ \A g : TeamsOf(g)' = TeamsOf(g) /\ AwaitingNews(g)' = AwaitingNews(g)
  BY DEF Deliver, CountGroup, Announce, HandlerFails, vars, tables, locals,
         TeamEvents, TeamsOf, AwaitingNews, Announcing
<1>2. CASE Deliver \/ CountGroup \/ HandlerFails
  <2>1. acked' = acked /\ scheduled' = scheduled
    BY <1>2 DEF Deliver, CountGroup, HandlerFails
  <2>2. CountKept'
    <3>1. CASE counted' = NotCounted
      BY <3>1 DEF CountKept, NotCounted
    <3>2. CASE CountGroup
      <4>1. /\ handling' = handling /\ handling.gid \in GroupIds
            /\ counted' = Cardinality(TeamsOf(handling.gid))
        BY <3>2, EventsTyped DEF CountGroup, ConsumerOK
      <4>2. counted' \in Nat
        BY <4>1, FS_CardinalityType DEF Room
      <4>3. TeamsOf(handling.gid)' = TeamsOf(handling.gid)
        BY <1>1, <4>1 DEF TeamsOf
      <4> QED  BY <4>1, <4>2, <4>3 DEF CountKept
    <3> QED
      BY <1>2, <3>1, <3>2 DEF Deliver, HandlerFails, Idle, ConsumerOK
  <2>3. \A g \in GroupIds : FullKept(g)'
    BY <1>1, <2>1 DEF NewsKept, FullKept, OpenBut
  <2> QED  BY <2>2, <2>3 DEF NewsKept
<1>3. CASE Announce
  <2>1. /\ counted # NotCounted /\ handling \in TeamEvents
        /\ handling.gid \in GroupIds /\ counted \in Nat
    BY <1>3, EventsTyped DEF Announce, ConsumerOK
  <2>2. /\ acked' = acked \cup {handling} /\ scheduled \subseteq scheduled'
        /\ Full => MatchesCreated(handling) \in scheduled'
    BY <1>3 DEF Announce
  <2>3. CountKept'
    BY <1>3 DEF Announce, Idle, CountKept
  <2>4. ASSUME NEW g \in GroupIds PROVE FullKept(g)'
    <3> SUFFICES ASSUME Cardinality(TeamsOf(g)) >= ConsumerMax, TeamsOf(g) # {},
                        \A m \in scheduled' : m.gid # g
                 PROVE  OpenBut({}, g)' \/ AwaitingNews(g)
      BY <1>1 DEF FullKept
    <3>1. OpenBut({}, g) \/ AwaitingNews(g)
      BY <2>2 DEF NewsKept, FullKept
    <3>2. CASE g # handling.gid
      BY <1>1, <2>2, <3>1, <3>2 DEF OpenBut
    <3>3. CASE g = handling.gid
      <4>1. counted < ConsumerMax
        BY <2>1, <2>2, <3>3, ConsumerMaxAssumption DEF Full, MatchesCreated
      <4>2. Cardinality(TeamsOf(g)) \in Nat
        BY FS_CardinalityType DEF Room
      <4>3. OpenBut({handling}, g) \/ AwaitingNews(g)
        BY <2>1, <3>3, <4>1, <4>2, ConsumerMaxAssumption DEF NewsKept, CountKept
      <4> QED  BY <1>1, <2>2, <4>3 DEF OpenBut
    <3> QED  BY <3>2, <3>3
  <2> QED  BY <2>3, <2>4 DEF NewsKept
<1> QED  BY <1>2, <1>3

LEMMA NewsStep ==
    ASSUME IInv, Room, ConsumerOK, NewsKept, HasEventBus, ~CommitsInDoubt,
           [SchedulingNext]_allVars, [~Dies]_vars
    PROVE  NewsKept'
<1>1. CASE UNCHANGED consumerVars /\ UNCHANGED <<groupTeams, published, req, locals>>
  BY <1>1
  DEF consumerVars, locals, NewsKept, CountKept, FullKept, OpenBut, AwaitingNews,
      Announcing, TeamEvents, TeamsOf
<1>2. CASE Next /\ UNCHANGED consumerVars
  <2>1. CASE UNCHANGED vars
    BY <1>1, <1>2, <2>1 DEF vars, tables
  <2>2. CASE ~Dies /\ \E w \in Workers : Accept(w) \/ Serve(w)
    BY <1>2, <2>2, WorkerKeepsNews
  <2>3. CASE \E t \in StoredTournaments : UpdateTournament(t)
    BY <1>1, <1>2, <2>3 DEF UpdateTournament
  <2> QED  BY <1>2, <2>1, <2>2, <2>3 DEF Next
<1>3. CASE UNCHANGED allVars
  BY <1>1, <1>3 DEF allVars, vars, tables
<1> QED
  BY <1>2, <1>3, ConsumerKeepsNews DEF SchedulingNext

\* No full group is forgotten, though the consumer counts once for each event and
\* several workers can add teams behind its back: unless the process dies or a
\* commit is in doubt, whoever adds the last team publishes an event that is counted
\* after it.
THEOREM NoFullGroupForgotten ==
    ASSUME ~CommitsInDoubt
    PROVE  SchedulingSpec /\ [][~Dies]_vars => []FullAreScheduled
<1>1. CASE ~HasEventBus
  <2>1. FullAreScheduled
    BY <1>1 DEF FullAreScheduled
  <2> QED  BY <2>1, PTL
<1>2. CASE HasEventBus
  <2>1. SchedulingInit => NewsKept
    <3> SUFFICES ASSUME SchedulingInit PROVE NewsKept
      OBVIOUS
    <3>1. counted = NotCounted /\ \A g : TeamsOf(g) = {}
      BY DEF SchedulingInit, Init, TeamsOf
    <3> QED  BY <3>1 DEF NewsKept, CountKept, FullKept
  <2>2. IInv /\ Room /\ ConsumerOK /\ NewsKept /\ [SchedulingNext]_allVars
           /\ [~Dies]_vars => NewsKept'
    BY <1>2, NewsStep
  <2>3. NewsKept => FullAreScheduled
    BY DEF NewsKept, FullKept, OpenBut, AwaitingNews, FullAreScheduled
  <2> QED
    BY <2>1, <2>2, <2>3, EndpointsHold, ConsumerHolds, PTL DEF SchedulingSpec
<1> QED  BY <1>1, <1>2

\* With a single tournament the process cannot die in a GET, so that this holds as
\* the run checks it.
THEOREM NoFullGroupForgottenAlone ==
    ASSUME ~CommitsInDoubt, ~StrayGets, \A s, t \in StoredTournaments : s = t
    PROVE  SchedulingSpec => []FullAreScheduled
<1>1. SchedulingSpec => Spec
  BY SchedulingRefines, PTL DEF SchedulingSpec, Spec
<1> QED  BY <1>1, GetsFindTheirGroup, NoFullGroupForgotten, PTL
==============================================================================
