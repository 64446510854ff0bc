-------------------------- MODULE GroupServiceProofs --------------------------
(***************************************************************************)
(* Theorems about GroupService, for any workers, tournaments, groups and   *)
(* teams, and for every wiring of the delegate.                            *)
(***************************************************************************)
EXTENDS GroupService, FiniteSetTheorems, TLAPS

\* What the tables and the bus hold of the request of w: the group it works on,
\* the first k of its teams, the events of those, the event of a new group.
HasGroup(w)  == req[w].gid \in GroupIds /\ groups[req[w].gid] # NoRow
Stored(w, k) ==
    \A j \in 1 .. k : <<req[w].gid, req[w].teams[j]>> \in groupTeams
Told(w, k) ==
    HasEventBus =>
        \A j \in 1 .. k :
            TeamAdded(req[w].tid, req[w].gid, req[w].teams[j]) \in published
GroupTold(w) ==
    req[w].op = "create" /\ HasEventBus =>
        Created(req[w].tid, req[w].gid) \in published
AllRelayed(w) ==
    Decorated /\ req[w].op = "add" =>
        \A j \in 1 .. Len(req[w].teams) :
            Relayed(req[w].tid, req[w].gid, req[w].teams[j]) \in published

\* The last conjunct of TypeOK, of one worker.
Typed(w) ==
    /\ (req[w] = NoRequest) <=> (stage[w] = "idle")
    /\ stage[w] \in {"idle", "replied"} => fmt[w] = DefaultMax
    /\ done[w] > 0 =>
          /\ stage[w] # "idle"
          /\ req[w].op \in {"create", "add"}
          /\ done[w] <= Len(req[w].teams)

\* What each stage knows of its request.
Staged(w) ==
    /\ stage[w] = "format" => req[w] \in Creates \cup Adds
    /\ stage[w] = "insert" => req[w] \in Creates
    /\ stage[w] = "announce" => req[w] \in CreatesOf(GroupIds)
    /\ stage[w] \in {"find", "count", "check", "relay"} => req[w] \in Adds
    /\ stage[w] \in {"add", "publish"} => req[w] \in CreatesOf(GroupIds) \cup Adds
    /\ stage[w] = "update" => req[w] \in Updates
    /\ stage[w] = "get" => req[w] \in Gets
    /\ stage[w] \in {"announce", "count", "check", "add", "publish", "relay"} =>
          HasGroup(w)
    /\ stage[w] \notin {"add", "publish", "relay", "replied"} => done[w] = 0
    /\ stage[w] # "replied" => reply[w] = "none"

\* How far the loop over the teams has come.
Looped(w) ==
    /\ stage[w] = "add" =>
          /\ done[w] < Len(req[w].teams)
          /\ Stored(w, done[w]) /\ Told(w, done[w]) /\ GroupTold(w)
    /\ stage[w] = "publish" =>
          /\ done[w] \in 1 .. Len(req[w].teams)
          /\ Stored(w, done[w]) /\ Told(w, done[w] - 1) /\ GroupTold(w)
    /\ stage[w] = "relay" =>
          Stored(w, Len(req[w].teams)) /\ Told(w, Len(req[w].teams))

\* ErrorsWriteNothing and SuccessIsComplete, of one worker.
Answered(w) ==
    /\ reply[w] \in Errors =>
          done[w] = 0 /\ (req[w].op = "create" => req[w].gid = NoGroup)
    /\ reply[w] = "ok" /\ req[w].op \in {"create", "add"} =>
          /\ Stored(w, Len(req[w].teams)) /\ Told(w, Len(req[w].teams))
          /\ GroupTold(w) /\ AllRelayed(w)

WorkerOK(w) == Typed(w) /\ Staged(w) /\ Looped(w) /\ Answered(w)

\* The inductive invariant.  SuccessIsComplete needs to know how far the loop has
\* come, the loop that the group of the request is stored, and this the stage.
IInv == TypeOK /\ EventsHaveRows /\ \A w \in Workers : WorkerOK(w)
------------------------------------------------------------------------------
\* What a step of one worker leaves alone, and what no step takes back

Unmoved(v) ==
    /\ req'[v] = req[v] /\ stage'[v] = stage[v] /\ fmt'[v] = fmt[v]
    /\ done'[v] = done[v] /\ reply'[v] = reply[v]

\* Rows and events stay.
Grows ==
    /\ \A g \in GroupIds : groups[g] # NoRow => groups'[g] # NoRow
    /\ groupTeams \subseteq groupTeams'
    /\ published \subseteq published'

\* The function-valued variables, and the tables and events, as TypeOK has them.
LocalsTyped ==
    /\ req \in [Workers -> Requests \cup {NoRequest}]
    /\ stage \in [Workers -> Stages]
    /\ reply \in [Workers -> Replies]
    /\ fmt \in [Workers -> Int]
    /\ done \in [Workers -> Nat]
TablesTyped ==
    /\ groups \in [GroupIds -> Row \cup {NoRow}]
    /\ groupTeams \subseteq GroupIds \X Teams
    /\ defaulted \subseteq StoredTournaments
    /\ \A e \in published :
          \/ e \in [topic : {"group.created"}, tid : Tournaments, gid : GroupIds]
          \/ e \in [topic : {"group.team_added", "team_added_to_group"},
                   tid : Tournaments, gid : GroupIds, team : Teams]

LEMMA TypeOKParts ==
    TypeOK <=> LocalsTyped /\ TablesTyped /\ \A w \in Workers : Typed(w)
BY DEF TypeOK, LocalsTyped, TablesTyped, Typed

\* A worker whose own variables stay keeps its invariant, since the tables and
\* the events only grow.
LEMMA UnmovedOK ==
    ASSUME NEW v \in Workers, WorkerOK(v), Unmoved(v), Grows
    PROVE  WorkerOK(v)'
<1>1. Typed(v)'
  BY DEF WorkerOK, Typed, Unmoved
<1>2. Staged(v)'
  BY DEF WorkerOK, Staged, Unmoved, Grows, HasGroup, CreatesOf
<1>3. Looped(v)'
  BY DEF WorkerOK, Looped, Unmoved, Grows, Stored, Told, GroupTold
<1>4. Answered(v)'
  BY DEF WorkerOK, Answered, Unmoved, Grows, Stored, Told, GroupTold, AllRelayed
<1> QED  BY <1>1, <1>2, <1>3, <1>4 DEF WorkerOK

\* So a step of w keeps the invariant if it keeps that of w.
LEMMA StepOK ==
    ASSUME IInv, NEW w \in Workers, Grows, LocalsTyped', TablesTyped',
           EventsHaveRows', \A v \in Workers \ {w} : Unmoved(v), WorkerOK(w)'
    PROVE  IInv'
<1>1. \A v \in Workers : WorkerOK(v)'
  BY UnmovedOK DEF IInv
<1>2. TypeOK'
  <2>1. \A v \in Workers : Typed(v)'
    BY <1>1 DEF WorkerOK
  <2> QED  BY <2>1 DEF TypeOK, LocalsTyped, TablesTyped, Typed
<1> QED  BY <1>1, <1>2 DEF IInv

LEMMA GotoMoves ==
    ASSUME LocalsTyped, NEW w \in Workers, NEW s \in Stages, Goto(w, s),
           UNCHANGED req
    PROVE  /\ LocalsTyped' /\ \A v \in Workers \ {w} : Unmoved(v)
           /\ stage'[w] = s /\ req'[w] = req[w] /\ fmt'[w] = fmt[w]
           /\ done'[w] = done[w] /\ reply'[w] = reply[w]
BY DEF LocalsTyped, Goto, Unmoved

LEMMA AnswerMoves ==
    ASSUME LocalsTyped, NEW w \in Workers, NEW r \in Replies, Answer(w, r),
           UNCHANGED req
    PROVE  /\ LocalsTyped' /\ \A v \in Workers \ {w} : Unmoved(v)
           /\ stage'[w] = "replied" /\ req'[w] = req[w] /\ fmt'[w] = DefaultMax
           /\ done'[w] = done[w] /\ reply'[w] = r
BY TournamentsAssumption DEF LocalsTyped, Answer, Unmoved, Stages

\* The end of the loop over the teams, or its next turn.
LEMMA NextTeamOK ==
    ASSUME LocalsTyped, NEW w \in Workers, NextTeam(w, done[w]), UNCHANGED req,
           req[w] \in CreatesOf(GroupIds) \cup Adds,
           done[w] <= Len(req[w].teams), reply[w] = "none",
           HasGroup(w)', Stored(w, done[w])', Told(w, done[w])', GroupTold(w)'
    PROVE  LocalsTyped' /\ (\A v \in Workers \ {w} : Unmoved(v)) /\ WorkerOK(w)'
<1>1. /\ req'[w] = req[w] /\ req[w].op \in {"create", "add"}
      /\ req[w] # NoRequest /\ Len(req[w].teams) \in Nat
      /\ req[w].op = "add" => req[w] \in Adds
  BY NoRequestAssumption, TeamsAssumption
  DEF Requests, CreatesOf, Adds
<1>2. done[w] \in Nat
  BY DEF LocalsTyped
<1>3. CASE Goto(w, "add") /\ done[w] < Len(req[w].teams)
  <2>1. /\ LocalsTyped' /\ \A v \in Workers \ {w} : Unmoved(v)
        /\ stage'[w] = "add" /\ done'[w] = done[w] /\ reply'[w] = "none"
    BY <1>3, GotoMoves DEF Stages
  <2>2. Typed(w)' /\ Answered(w)'
    BY <1>1, <1>2, <2>1 DEF Typed, Answered, Errors
  <2>3. Staged(w)' /\ Looped(w)'
    BY <1>1, <1>2, <1>3, <2>1 DEF Staged, Looped, CreatesOf
  <2> QED  BY <2>1, <2>2, <2>3 DEF WorkerOK
<1>4. CASE done[w] = Len(req[w].teams) /\ req[w] \in Adds /\ Goto(w, "relay")
  <2>1. /\ LocalsTyped' /\ \A v \in Workers \ {w} : Unmoved(v)
        /\ stage'[w] = "relay" /\ done'[w] = done[w] /\ reply'[w] = "none"
    BY <1>4, GotoMoves DEF Stages
  <2>2. Typed(w)' /\ Answered(w)'
    BY <1>1, <1>2, <2>1 DEF Typed, Answered, Errors
  <2>3. Staged(w)' /\ Looped(w)'
    BY <1>1, <1>2, <1>4, <2>1 DEF Staged, Looped, CreatesOf, Stored, Told
  <2> QED  BY <2>1, <2>2, <2>3 DEF WorkerOK
<1>5. CASE /\ done[w] = Len(req[w].teams) /\ Answer(w, "ok")
           /\ ~(Decorated /\ req[w].op = "add")
  <2>1. /\ LocalsTyped' /\ \A v \in Workers \ {w} : Unmoved(v)
        /\ stage'[w] = "replied" /\ done'[w] = done[w] /\ reply'[w] = "ok"
        /\ fmt'[w] = DefaultMax
    BY <1>5, AnswerMoves DEF Replies
  <2>2. Typed(w)'
    BY <1>1, <1>2, <1>5, <2>1 DEF Typed
  <2>3. Staged(w)' /\ Looped(w)'
    BY <2>1 DEF Staged, Looped
  <2>4. Answered(w)'
    BY <1>1, <1>5, <2>1 DEF Answered, Errors, Stored, Told, AllRelayed
  <2> QED  BY <2>1, <2>2, <2>3, <2>4 DEF WorkerOK
<1> QED  BY <1>1, <1>2, <1>3, <1>4, <1>5 DEF NextTeam, Finish

------------------------------------------------------------------------------
\* Each action keeps the invariant

\* The steps that only read.
LEMMA QuietOK ==
    ASSUME IInv, UNCHANGED <<tables, published>>
    PROVE  Grows /\ TablesTyped' /\ EventsHaveRows'
BY DEF IInv, TypeOK, TablesTyped, Grows, tables, EventsHaveRows

\* An answer that is an error: nothing was stored, or nobody takes it for one of
\* the errors of the delegate.
LEMMA RefuseOK ==
    ASSUME IInv, NEW w \in Workers, NEW r \in Replies, Answer(w, r),
           UNCHANGED req, stage[w] \notin {"idle", "replied"},
           r \in Errors => stage[w] \in {"format", "find", "count", "check", "update"},
           r = "ok" => stage[w] \in {"update", "get"}
    PROVE  LocalsTyped' /\ (\A v \in Workers \ {w} : Unmoved(v)) /\ WorkerOK(w)'
<1>1. LocalsTyped /\ Typed(w) /\ Staged(w)
  BY DEF IInv, WorkerOK, TypeOK, LocalsTyped
<1>2. /\ LocalsTyped' /\ \A v \in Workers \ {w} : Unmoved(v)
      /\ stage'[w] = "replied" /\ done'[w] = done[w] /\ reply'[w] = r
      /\ fmt'[w] = DefaultMax /\ req'[w] = req[w]
  BY <1>1, AnswerMoves
<1>3. Typed(w)'
  BY <1>1, <1>2 DEF Typed
<1>4. Staged(w)' /\ Looped(w)'
  BY <1>2 DEF Staged, Looped
<1>5. Answered(w)'
  <2>1. r \in Errors => done[w] = 0 /\ (req[w].op = "create" => req[w].gid = NoGroup)
    BY <1>1 DEF Staged, Creates, CreatesOf, Adds, Updates
  <2>2. r = "ok" => req[w].op \notin {"create", "add"}
    BY <1>1 DEF Staged, Updates, Gets
  <2> QED  BY <1>2, <2>1, <2>2 DEF Answered
<1> QED  BY <1>2, <1>3, <1>4, <1>5 DEF WorkerOK

LEMMA ReceiveOK == ASSUME IInv, NEW w \in Workers, Accept(w) PROVE IInv'
<1>1. PICK r \in Creates \cup Adds \cup Updates \cup Gets, s \in Stages :
         /\ Receive(w, r, s)
         /\ \/ s = "format" /\ r \in Creates \cup Adds
            \/ s = "update" /\ r \in Updates
            \/ s = "get" /\ r \in Gets
  BY DEF Accept, ReceiveCreate, ReceiveAdd, ReceiveUpdate, ReceiveGet, Stages
<1>2. r \in Requests
  BY <1>1 DEF Requests, Creates, CreatesOf
<1>3. LocalsTyped /\ Typed(w) /\ Staged(w) /\ stage[w] = "idle"
  BY <1>1 DEF IInv, WorkerOK, TypeOK, LocalsTyped, Receive
<1>4. /\ LocalsTyped' /\ (\A v \in Workers \ {w} : Unmoved(v))
      /\ req'[w] = r /\ stage'[w] = s /\ done'[w] = 0 /\ reply'[w] = "none"
  BY <1>1, <1>2, <1>3 DEF Receive, Goto, LocalsTyped, Unmoved, Staged
<1>5. Typed(w)' /\ Looped(w)' /\ Answered(w)'
  BY <1>1, <1>2, <1>4, NoRequestAssumption DEF Typed, Looped, Answered, Errors
<1>6. Staged(w)'
  BY <1>1, <1>4 DEF Staged, Creates, CreatesOf
<1>7. UNCHANGED <<tables, published>>
  BY <1>1 DEF Receive
<1> QED  BY <1>4, <1>5, <1>6, <1>7, QuietOK, StepOK DEF WorkerOK

LEMMA ReadOK ==
    ASSUME IInv, NEW w \in Workers,
           ReadFormat(w) \/ FindGroup(w) \/ CountTeams(w) \/ CheckTeams(w)
    PROVE  IInv'
<1>1. /\ LocalsTyped /\ Typed(w) /\ Staged(w)
      /\ UNCHANGED <<tables, published, req>>
  BY DEF IInv, WorkerOK, TypeOK, LocalsTyped,
         ReadFormat, FindGroup, CountTeams, CheckTeams
<1>2. HasGroup(w) => HasGroup(w)'
  BY <1>1 DEF HasGroup, tables
<1>3. ASSUME NEW r \in Errors, Answer(w, r),
             stage[w] \in {"format", "find", "count", "check"}
      PROVE  IInv'
  <2>1. LocalsTyped' /\ (\A v \in Workers \ {w} : Unmoved(v)) /\ WorkerOK(w)'
    BY <1>1, <1>3, RefuseOK DEF Replies, Errors
  <2> QED  BY <1>1, <2>1, QuietOK, StepOK
<1>4. ASSUME LocalsTyped', \A v \in Workers \ {w} : Unmoved(v),
             req'[w] = req[w], done'[w] = 0, reply'[w] = "none", Staged(w)',
             stage'[w] \in {"insert", "find", "count", "check"}, req[w] # NoRequest
      PROVE  IInv'
  <2>1. Typed(w)' /\ Looped(w)' /\ Answered(w)'
    BY <1>4 DEF Typed, Looped, Answered, Errors
  <2> QED  BY <1>1, <1>4, <2>1, QuietOK, StepOK DEF WorkerOK
<1>5. CASE ReadFormat(w)
  <2>1. CASE Answer(w, "tournament_not_found") \/ Answer(w, "group_limit_reached")
    BY <1>3, <1>5, <2>1 DEF ReadFormat, Errors
  <2>2. CASE /\ ~UnknownTournament(w)
             /\ fmt' = [fmt EXCEPT ![w] = Limit(req[w].tid)]
             /\ stage' = [stage EXCEPT ![w] =
                             IF req[w].op = "create" THEN "insert" ELSE "find"]
             /\ UNCHANGED <<done, reply>>
    <3>1. /\ stage[w] = "format" /\ done[w] = 0 /\ reply[w] = "none"
          /\ req[w] \in Creates \cup Adds /\ req[w] # NoRequest
      BY <1>1, <1>5 DEF ReadFormat, Staged, Typed
    <3>2. Limit(req[w].tid) \in Int
      BY <2>2, TournamentsAssumption DEF Limit, UnknownTournament
    <3>3. LocalsTyped' /\ \A v \in Workers \ {w} : Unmoved(v)
      BY <1>1, <2>2, <3>1, <3>2 DEF LocalsTyped, Unmoved, Stages
    <3>4. /\ stage'[w] = IF req[w].op = "create" THEN "insert" ELSE "find"
          /\ req'[w] = req[w] /\ done'[w] = 0 /\ reply'[w] = "none"
      BY <1>1, <2>2, <3>1 DEF LocalsTyped
    <3>5. Staged(w)'
      BY <3>1, <3>4 DEF Staged, Creates, CreatesOf, Adds
    <3> QED  BY <1>4, <3>1, <3>3, <3>4, <3>5
  <2> QED  BY <1>5, <2>1, <2>2 DEF ReadFormat
<1>6. CASE FindGroup(w) /\ GroupInTournament(req[w].tid, req[w].gid)
  <2>1. /\ Goto(w, "count") /\ req[w] \in Adds /\ req[w] # NoRequest
        /\ done[w] = 0 /\ reply[w] = "none" /\ HasGroup(w)
    BY <1>1, <1>6 DEF FindGroup, Staged, Typed, GroupInTournament, HasGroup, Adds
  <2>2. /\ LocalsTyped' /\ \A v \in Workers \ {w} : Unmoved(v)
        /\ stage'[w] = "count" /\ req'[w] = req[w]
        /\ done'[w] = 0 /\ reply'[w] = "none"
    BY <1>1, <2>1, GotoMoves DEF Stages
  <2>3. Staged(w)'
    BY <1>2, <2>1, <2>2 DEF Staged
  <2> QED  BY <1>4, <2>1, <2>2, <2>3
<1>7. CASE FindGroup(w) /\ ~GroupInTournament(req[w].tid, req[w].gid)
  BY <1>3, <1>7 DEF FindGroup, Errors
<1>8. CASE CountTeams(w)
  <2>1. CASE Answer(w, "group_full")
    BY <1>3, <1>8, <2>1 DEF CountTeams, Errors
  <2>2. CASE Goto(w, "check")
    <3>1. /\ req[w] \in Adds /\ req[w] # NoRequest
          /\ done[w] = 0 /\ reply[w] = "none" /\ HasGroup(w)
      BY <1>1, <1>8 DEF CountTeams, Staged, Typed
    <3>2. /\ LocalsTyped' /\ \A v \in Workers \ {w} : Unmoved(v)
          /\ stage'[w] = "check" /\ req'[w] = req[w]
          /\ done'[w] = 0 /\ reply'[w] = "none"
      BY <1>1, <2>2, <3>1, GotoMoves DEF Stages
    <3>3. Staged(w)'
      BY <1>2, <3>1, <3>2 DEF Staged
    <3> QED  BY <1>4, <3>1, <3>2, <3>3
  <2> QED  BY <1>8, <2>1, <2>2 DEF CountTeams
<1>9. CASE CheckTeams(w)
  <2>1. CASE Answer(w, "team_not_found")
    BY <1>3, <1>9, <2>1 DEF CheckTeams, Errors
  <2>2. CASE NextTeam(w, 0)
    <3>1. /\ req[w] \in Adds /\ done[w] = 0 /\ reply[w] = "none" /\ HasGroup(w)
      BY <1>1, <1>9 DEF CheckTeams, Staged
    <3>2. Len(req[w].teams) \in Nat
      BY <3>1, TeamsAssumption DEF Adds
    <3>3. done'[w] = 0
      BY <2>2, <3>1 DEF NextTeam, Finish, Goto, Answer
    <3>4. Stored(w, done[w])' /\ Told(w, done[w])' /\ GroupTold(w)'
      BY <1>1, <3>1, <3>3 DEF Stored, Told, GroupTold, Adds
    <3>5. LocalsTyped' /\ (\A v \in Workers \ {w} : Unmoved(v)) /\ WorkerOK(w)'
      BY <1>1, <1>2, <2>2, <3>1, <3>2, <3>4, NextTeamOK
    <3> QED  BY <1>1, <3>5, QuietOK, StepOK
  <2> QED  BY <1>9, <2>1, <2>2 DEF CheckTeams
<1> QED  BY <1>5, <1>6, <1>7, <1>8, <1>9

LEMMA FailOK ==
    ASSUME IInv, NEW w \in Workers, DatabaseError(w) \/ (GetGroup(w) /\ ~Restart)
    PROVE  IInv'
<1>1. CASE DatabaseError(w)
  <2>1. stage[w] \notin {"idle", "replied"}
    BY <1>1 DEF DatabaseError, UsesDatabase
  <2>2. LocalsTyped' /\ (\A v \in Workers \ {w} : Unmoved(v)) /\ WorkerOK(w)'
    BY <1>1, <2>1, RefuseOK DEF DatabaseError, Replies, Errors
  <2> QED  BY <1>1, <2>2, QuietOK, StepOK DEF DatabaseError
<1>2. CASE GetGroup(w) /\ Answer(w, "ok") /\ UNCHANGED req
  <2>1. LocalsTyped' /\ (\A v \in Workers \ {w} : Unmoved(v)) /\ WorkerOK(w)'
    BY <1>2, RefuseOK DEF GetGroup, Replies, Errors
  <2> QED  BY <1>2, <2>1, QuietOK, StepOK DEF GetGroup
<1> QED  BY <1>1, <1>2 DEF GetGroup

\* The three statements that write, each in a transaction of its own.
LEMMA StoreGroupOK ==
    ASSUME IInv, NEW w \in Workers, stage[w] = "insert",
           NEW g \in GroupIds, StoreGroup(w, g),
           UNCHANGED <<groupTeams, defaulted, published>>
    PROVE  Grows /\ TablesTyped' /\ EventsHaveRows' /\ groups'[g] # NoRow
<1>1. /\ TablesTyped /\ EventsHaveRows /\ req[w] \in Creates
  BY DEF IInv, WorkerOK, Staged, TypeOK, TablesTyped
<1>2. [tournament |-> req[w].body, name |-> req[w].name] \in Row
  BY <1>1 DEF Creates, CreatesOf, Row
<1>3. TablesTyped' /\ groups'[g] # NoRow
      /\ \A h \in GroupIds \ {g} : groups'[h] = groups[h]
  BY <1>1, <1>2, NoRowAssumption DEF TablesTyped, StoreGroup
<1>4. Grows
  BY <1>3 DEF Grows
<1>5. \A e \in published : e.gid \in GroupIds
  BY <1>1 DEF TablesTyped
<1>6. EventsHaveRows'
  BY <1>1, <1>4, <1>5 DEF EventsHaveRows, Grows
<1> QED  BY <1>3, <1>4, <1>6

LEMMA StoreUpdateOK ==
    ASSUME IInv, NEW w \in Workers, stage[w] = "update", StoreUpdate(w),
           UNCHANGED <<groupTeams, defaulted, published>>
    PROVE  Grows /\ TablesTyped' /\ EventsHaveRows'
<1>1. /\ TablesTyped /\ EventsHaveRows /\ req[w] \in Updates
  BY DEF IInv, WorkerOK, Staged, TypeOK, TablesTyped
<1>2. /\ [tournament |-> req[w].tid, name |-> req[w].name] \in Row
      /\ req[w].gid \in GroupIds
  BY <1>1 DEF Updates, Row
<1>3. TablesTyped' /\ groups'[req[w].gid] # NoRow
      /\ \A h \in GroupIds \ {req[w].gid} : groups'[h] = groups[h]
  BY <1>1, <1>2, NoRowAssumption DEF TablesTyped, StoreUpdate
<1>4. Grows
  BY <1>3 DEF Grows
<1>5. \A e \in published : e.gid \in GroupIds
  BY <1>1 DEF TablesTyped
<1>6. EventsHaveRows'
  BY <1>1, <1>4, <1>5 DEF EventsHaveRows, Grows
<1> QED  BY <1>3, <1>4, <1>6

\* The team of the next turn, and the row that StoreTeam writes for it.
LEMMA NextTeamTyped ==
    ASSUME IInv, NEW w \in Workers, stage[w] = "add"
    PROVE  /\ req[w] \in CreatesOf(GroupIds) \cup Adds
           /\ Len(req[w].teams) \in Nat /\ done[w] \in Nat
           /\ req[w].gid \in GroupIds /\ done[w] + 1 \in 1 .. Len(req[w].teams)
           /\ \A j \in 1 .. Len(req[w].teams) : req[w].teams[j] \in Teams
<1>1. /\ req[w] \in CreatesOf(GroupIds) \cup Adds /\ done[w] \in Nat
      /\ done[w] < Len(req[w].teams)
  BY DEF IInv, WorkerOK, Staged, Looped, TypeOK
<1>2. req[w].teams \in Seq(Teams)
  BY <1>1, TeamsAssumption DEF CreatesOf, Adds
<1> QED  BY <1>1, <1>2 DEF CreatesOf, Adds

LEMMA StoreTeamOK ==
    ASSUME IInv, NEW w \in Workers, stage[w] = "add", StoreTeam(w),
           UNCHANGED <<groups, defaulted, published>>
    PROVE  Grows /\ TablesTyped' /\ EventsHaveRows'
<1>1. TablesTyped /\ EventsHaveRows
  BY DEF IInv, TypeOK, TablesTyped
<1>2. <<req[w].gid, req[w].teams[done[w] + 1]>> \in GroupIds \X Teams
  BY NextTeamTyped
<1>3. Grows /\ EventsHaveRows'
  BY <1>1 DEF StoreTeam, Grows, EventsHaveRows
<1>4. TablesTyped'
  BY <1>1, <1>2 DEF TablesTyped, StoreTeam
<1> QED  BY <1>3, <1>4

LEMMA InsertOK == ASSUME IInv, NEW w \in Workers, InsertGroup(w) PROVE IInv'
<1>1. /\ LocalsTyped /\ Staged(w) /\ stage[w] = "insert"
      /\ req[w] \in Creates /\ done[w] = 0 /\ reply[w] = "none"
      /\ UNCHANGED <<groupTeams, defaulted, published>>
  BY DEF IInv, WorkerOK, TypeOK, LocalsTyped, Staged, InsertGroup
<1>2. CASE Goto(w, "announce")
  <2>1. PICK g \in GroupIds : StoreGroup(w, g) /\ req' = [req EXCEPT ![w].gid = g]
    BY <1>1, <1>2 DEF InsertGroup, Goto, Answer, LocalsTyped
  <2>2. Grows /\ TablesTyped' /\ EventsHaveRows' /\ groups'[g] # NoRow
    BY <1>1, <2>1, StoreGroupOK
  <2>3. [req[w] EXCEPT !.gid = g] \in CreatesOf(GroupIds)
    BY <1>1 DEF Creates, CreatesOf
  <2>4. req'[w] = [req[w] EXCEPT !.gid = g]
    BY <1>1, <2>1 DEF LocalsTyped
  <2>5. LocalsTyped' /\ \A v \in Workers \ {w} : Unmoved(v)
    <3>1. [req[w] EXCEPT !.gid = g] \in Requests
      BY <2>3 DEF Requests, CreatesOf
    <3> QED  BY <1>1, <1>2, <2>1, <3>1 DEF LocalsTyped, Unmoved, Goto, Stages
  <2>6. /\ req'[w] \in CreatesOf(GroupIds) /\ req'[w].gid = g
        /\ stage'[w] = "announce" /\ done'[w] = 0 /\ reply'[w] = "none"
    BY <1>1, <1>2, <2>3, <2>4 DEF LocalsTyped, Goto, Creates, CreatesOf
  <2>7. req'[w] # NoRequest
    BY <2>6, NoRequestAssumption DEF Requests, CreatesOf
  <2>8. Typed(w)' /\ Looped(w)' /\ Answered(w)'
    BY <2>6, <2>7 DEF Typed, Looped, Answered, Errors
  <2>9. Staged(w)'
    BY <2>2, <2>6 DEF Staged, HasGroup, CreatesOf
  <2> QED  BY <2>2, <2>5, <2>8, <2>9, StepOK DEF WorkerOK
<1>3. ASSUME NEW r \in {"unique_violation", "database_error"}, Answer(w, r),
             UNCHANGED <<groups, req>>
      PROVE  IInv'
  <2>1. LocalsTyped' /\ (\A v \in Workers \ {w} : Unmoved(v)) /\ WorkerOK(w)'
    BY <1>1, <1>3, RefuseOK DEF Replies, Errors
  <2> QED  BY <1>1, <1>3, <2>1, QuietOK, StepOK DEF tables
<1> QED  BY <1>2, <1>3 DEF InsertGroup

LEMMA UpdateOK == ASSUME IInv, NEW w \in Workers, UpdateGroup(w) PROVE IInv'
<1>1. stage[w] = "update" /\ UNCHANGED <<groupTeams, defaulted, published, req>>
  BY DEF UpdateGroup
<1>2. CASE StoreUpdate(w) /\ Answer(w, "ok")
  <2>1. LocalsTyped' /\ (\A v \in Workers \ {w} : Unmoved(v)) /\ WorkerOK(w)'
    BY <1>1, <1>2, RefuseOK DEF Replies
  <2> QED  BY <1>1, <1>2, <2>1, StoreUpdateOK, StepOK
<1>3. ASSUME NEW r \in {"group_not_found", "unique_violation", "database_error"},
             Answer(w, r), UNCHANGED groups
      PROVE  IInv'
  <2>1. LocalsTyped' /\ (\A v \in Workers \ {w} : Unmoved(v)) /\ WorkerOK(w)'
    BY <1>1, <1>3, RefuseOK DEF Replies, Errors
  <2> QED  BY <1>1, <1>3, <2>1, QuietOK, StepOK DEF tables
<1> QED  BY <1>2, <1>3 DEF UpdateGroup

LEMMA InDoubtOK == ASSUME IInv, NEW w \in Workers, CommitInDoubt(w) PROVE IInv'
<1>1. /\ Answer(w, "database_error") /\ stage[w] \in {"insert", "add", "update"}
      /\ UNCHANGED <<defaulted, published, req>>
  BY DEF CommitInDoubt
<1>2. LocalsTyped' /\ (\A v \in Workers \ {w} : Unmoved(v)) /\ WorkerOK(w)'
  BY <1>1, RefuseOK DEF Replies, Errors
<1>3. CASE /\ stage[w] = "insert" /\ UNCHANGED groupTeams
           /\ \E g \in GroupIds : StoreGroup(w, g)
  BY <1>1, <1>2, <1>3, StoreGroupOK, StepOK
<1>4. CASE stage[w] = "add" /\ StoreTeam(w) /\ UNCHANGED groups
  BY <1>1, <1>2, <1>4, StoreTeamOK, StepOK
<1>5. CASE stage[w] = "update" /\ StoreUpdate(w) /\ UNCHANGED groupTeams
  BY <1>1, <1>2, <1>5, StoreUpdateOK, StepOK
<1> QED  BY <1>3, <1>4, <1>5 DEF CommitInDoubt

LEMMA AddOK == ASSUME IInv, NEW w \in Workers, AddTeam(w) PROVE IInv'
<1>1. /\ stage[w] = "add" /\ StoreTeam(w)
      /\ UNCHANGED <<groups, defaulted, published, req, fmt, reply>>
  BY DEF AddTeam
<1>2. /\ LocalsTyped /\ Typed(w) /\ HasGroup(w) /\ reply[w] = "none"
      /\ Stored(w, done[w]) /\ Told(w, done[w]) /\ GroupTold(w)
  BY <1>1 DEF IInv, WorkerOK, Staged, Looped, TypeOK, LocalsTyped
<1>3. /\ req[w] \in CreatesOf(GroupIds) \cup Adds /\ done[w] \in Nat
      /\ done[w] + 1 \in 1 .. Len(req[w].teams)
  BY <1>1, NextTeamTyped
<1>4. LocalsTyped' /\ \A v \in Workers \ {w} : Unmoved(v)
  BY <1>2 DEF LocalsTyped, Unmoved, AddTeam, Stages
<1>5. /\ stage'[w] = "publish" /\ done'[w] = done[w] + 1
      /\ req'[w] = req[w] /\ reply'[w] = "none"
  BY <1>1, <1>2 DEF AddTeam, LocalsTyped
<1>6. Stored(w, done[w])' /\ Told(w, done[w] - 1)' /\ GroupTold(w)' /\ HasGroup(w)'
  <2>1. Stored(w, done[w])'
    <3> SUFFICES ASSUME NEW j \in 1 .. done[w] + 1
                 PROVE  <<req[w].gid, req[w].teams[j]>> \in groupTeams'
      BY <1>5 DEF Stored
    <3>1. CASE j = done[w] + 1
      BY <1>1, <3>1 DEF StoreTeam
    <3>2. CASE j \in 1 .. done[w]
      BY <1>1, <1>2, <3>2 DEF StoreTeam, Stored
    <3> QED  BY <1>3, <3>1, <3>2
  <2>2. done'[w] - 1 = done[w]
    BY <1>3, <1>5
  <2>3. Told(w, done[w] - 1)'
    BY <1>1, <1>2, <1>5, <2>2 DEF Told
  <2>4. GroupTold(w)' /\ HasGroup(w)'
    BY <1>1, <1>2, <1>5 DEF GroupTold, HasGroup
  <2> QED  BY <2>1, <2>3, <2>4
<1>7. Typed(w)' /\ Answered(w)'
  <2>1. req[w] # NoRequest /\ req[w].op \in {"create", "add"}
    BY <1>1, <1>2, <1>3 DEF Typed, CreatesOf, Adds
  <2>2. done[w] + 1 <= Len(req[w].teams)
    BY <1>3
  <2> QED  BY <1>5, <2>1, <2>2 DEF Typed, Answered, Errors
<1>8. Staged(w)' /\ Looped(w)'
  BY <1>3, <1>5, <1>6 DEF Staged, Looped, CreatesOf
<1> QED  BY <1>1, <1>4, <1>7, <1>8, StoreTeamOK, StepOK DEF WorkerOK

\* Events are only added, and each is about rows that are there.
LEMMA PublishOK ==
    ASSUME IInv, NEW E, published' = published \cup E, UNCHANGED tables,
           \A e \in E :
              /\ \/ e \in [topic : {"group.created"}, tid : Tournaments,
                         gid : GroupIds]
                 \/ /\ e \in [topic : {"group.team_added", "team_added_to_group"},
                            tid : Tournaments, gid : GroupIds, team : Teams]
                    /\ <<e.gid, e.team>> \in groupTeams
              /\ groups[e.gid] # NoRow
    PROVE  Grows /\ TablesTyped' /\ EventsHaveRows'
<1>1. TablesTyped /\ EventsHaveRows
  BY DEF IInv, TypeOK, TablesTyped
<1>2. Grows /\ TablesTyped'
  BY <1>1 DEF Grows, TablesTyped, tables
<1>3. EventsHaveRows'
  BY <1>1 DEF EventsHaveRows, tables
<1> QED  BY <1>2, <1>3

LEMMA AnnounceOK == ASSUME IInv, NEW w \in Workers, AnnounceGroup(w) PROVE IInv'
<1>1. /\ stage[w] = "announce" /\ UNCHANGED <<tables, req>>
      /\ Publish(Created(req[w].tid, req[w].gid)) /\ NextTeam(w, 0)
  BY DEF AnnounceGroup
<1>2. /\ LocalsTyped /\ HasGroup(w) /\ req[w] \in CreatesOf(GroupIds)
      /\ done[w] = 0 /\ reply[w] = "none"
  BY <1>1 DEF IInv, WorkerOK, Staged, TypeOK, LocalsTyped
<1>3. Grows /\ TablesTyped' /\ EventsHaveRows'
  <2>1. /\ req[w].tid \in Tournaments /\ req[w].gid \in GroupIds
        /\ groups[req[w].gid] # NoRow
    BY <1>2 DEF CreatesOf, HasGroup
  <2>2. CASE HasEventBus
    <3> DEFINE new == {Created(req[w].tid, req[w].gid)}
    <3>1. published' = published \cup new /\ UNCHANGED tables
      BY <1>1, <2>2 DEF Publish
    <3>2. \A e \in new :
             /\ e \in [topic : {"group.created"}, tid : Tournaments, gid : GroupIds]
             /\ groups[e.gid] # NoRow
      BY <2>1 DEF Created
    <3> HIDE DEF new
    <3> QED  BY <3>1, <3>2, PublishOK
  <2>3. CASE ~HasEventBus
    BY <1>1, <2>3, QuietOK DEF Publish
  <2> QED  BY <2>2, <2>3
<1>4. done'[w] = 0 /\ HasGroup(w)' /\ Len(req[w].teams) \in Nat
  BY <1>1, <1>2, TeamsAssumption
  DEF NextTeam, Finish, Goto, Answer, HasGroup, tables, CreatesOf
<1>5. Stored(w, done[w])' /\ Told(w, done[w])' /\ GroupTold(w)'
  BY <1>1, <1>2, <1>4 DEF Stored, Told, GroupTold, Publish
<1>6. LocalsTyped' /\ (\A v \in Workers \ {w} : Unmoved(v)) /\ WorkerOK(w)'
  BY <1>1, <1>2, <1>4, <1>5, NextTeamOK
<1> QED  BY <1>3, <1>6, StepOK

LEMMA PublishTeamOK == ASSUME IInv, NEW w \in Workers, PublishTeam(w) PROVE IInv'
<1>1. /\ stage[w] = "publish" /\ UNCHANGED <<tables, req>>
      /\ Publish(TeamAdded(req[w].tid, req[w].gid, req[w].teams[done[w]]))
      /\ NextTeam(w, done[w])
  BY DEF PublishTeam, AnnounceTeam
<1>2. /\ LocalsTyped /\ HasGroup(w) /\ req[w] \in CreatesOf(GroupIds) \cup Adds
      /\ done[w] \in 1 .. Len(req[w].teams) /\ reply[w] = "none"
      /\ Stored(w, done[w]) /\ Told(w, done[w] - 1) /\ GroupTold(w)
  BY <1>1 DEF IInv, WorkerOK, Staged, Looped, TypeOK, LocalsTyped
<1>3. /\ done[w] \in Nat /\ Len(req[w].teams) \in Nat /\ done[w] <= Len(req[w].teams)
      /\ req[w].teams[done[w]] \in Teams /\ req[w].tid \in Tournaments
      /\ <<req[w].gid, req[w].teams[done[w]]>> \in groupTeams
  <2>1. req[w].teams \in Seq(Teams)
    BY <1>2, TeamsAssumption DEF CreatesOf, Adds
  <2> QED  BY <1>2, <2>1 DEF LocalsTyped, CreatesOf, Adds, Stored
<1>4. Grows /\ TablesTyped' /\ EventsHaveRows'
  <2>1. CASE HasEventBus
    <3> DEFINE new == {TeamAdded(req[w].tid, req[w].gid, req[w].teams[done[w]])}
    <3>1. published' = published \cup new /\ UNCHANGED tables
      BY <1>1, <2>1 DEF Publish
    <3>2. \A e \in new :
             /\ e \in [topic : {"group.team_added", "team_added_to_group"},
                       tid : Tournaments, gid : GroupIds, team : Teams]
             /\ <<e.gid, e.team>> \in groupTeams /\ groups[e.gid] # NoRow
      BY <1>2, <1>3 DEF TeamAdded, HasGroup
    <3> HIDE DEF new
    <3> QED  BY <3>1, <3>2, PublishOK
  <2>2. CASE ~HasEventBus
    BY <1>1, <2>2, QuietOK DEF Publish
  <2> QED  BY <2>1, <2>2
<1>5. done'[w] = done[w] /\ HasGroup(w)' /\ Stored(w, done[w])' /\ GroupTold(w)'
  BY <1>1, <1>2
  DEF NextTeam, Finish, Goto, Answer, HasGroup, Stored, GroupTold, Publish, tables
<1>6. Told(w, done[w])'
  <2> SUFFICES ASSUME HasEventBus, NEW j \in 1 .. done[w]
               PROVE  TeamAdded(req[w].tid, req[w].gid, req[w].teams[j]) \in published'
    BY <1>1, <1>5 DEF Told, TeamAdded
  <2>1. CASE j = done[w]
    BY <1>1, <2>1 DEF Publish
  <2>2. CASE j \in 1 .. done[w] - 1
    BY <1>1, <1>2, <2>2 DEF Publish, Told
  <2> QED  BY <1>3, <2>1, <2>2
<1>7. LocalsTyped' /\ (\A v \in Workers \ {w} : Unmoved(v)) /\ WorkerOK(w)'
  BY <1>1, <1>2, <1>3, <1>5, <1>6, NextTeamOK
<1> QED  BY <1>4, <1>7, StepOK

LEMMA RelayOK == ASSUME IInv, NEW w \in Workers, Relay(w) PROVE IInv'
<1>1. /\ stage[w] = "relay" /\ Answer(w, "ok") /\ UNCHANGED <<tables, req>>
      /\ published' = published \cup
            {Relayed(req[w].tid, req[w].gid, req[w].teams[j]) :
                j \in DOMAIN req[w].teams}
  BY DEF Relay
<1>2. /\ LocalsTyped /\ Typed(w) /\ HasGroup(w) /\ req[w] \in Adds
      /\ Stored(w, Len(req[w].teams)) /\ Told(w, Len(req[w].teams))
  BY <1>1 DEF IInv, WorkerOK, Staged, Looped, TypeOK, LocalsTyped
<1>3. req[w].teams \in Seq(Teams) /\ DOMAIN req[w].teams = 1 .. Len(req[w].teams)
  BY <1>2, TeamsAssumption DEF Adds
<1>4. Grows /\ TablesTyped' /\ EventsHaveRows'
  <2>1. \A j \in DOMAIN req[w].teams :
           /\ req[w].teams[j] \in Teams
           /\ <<req[w].gid, req[w].teams[j]>> \in groupTeams
    BY <1>2, <1>3 DEF Stored
  <2>2. /\ req[w].tid \in Tournaments /\ req[w].gid \in GroupIds
        /\ groups[req[w].gid] # NoRow
    BY <1>2 DEF Adds, HasGroup
  <2>3. ASSUME NEW e \in {Relayed(req[w].tid, req[w].gid, req[w].teams[j]) :
                             j \in DOMAIN req[w].teams}
        PROVE  /\ e \in [topic : {"group.team_added", "team_added_to_group"},
                         tid : Tournaments, gid : GroupIds, team : Teams]
               /\ <<e.gid, e.team>> \in groupTeams /\ groups[e.gid] # NoRow
    BY <2>1, <2>2, <2>3 DEF Relayed
  <2> QED  BY <1>1, <2>3, PublishOK
<1>5. /\ LocalsTyped' /\ (\A v \in Workers \ {w} : Unmoved(v))
      /\ stage'[w] = "replied" /\ req'[w] = req[w] /\ fmt'[w] = DefaultMax
      /\ done'[w] = done[w] /\ reply'[w] = "ok"
  BY <1>1, <1>2, AnswerMoves DEF Replies
<1>6. Typed(w)' /\ Staged(w)' /\ Looped(w)'
  BY <1>1, <1>2, <1>5 DEF Typed, Staged, Looped
<1>7. Answered(w)'
  BY <1>1, <1>2, <1>3, <1>5
  DEF Answered, Errors, Stored, Told, GroupTold, AllRelayed, Adds, tables
<1> QED  BY <1>4, <1>5, <1>6, <1>7, StepOK DEF WorkerOK

LEMMA RespondOK == ASSUME IInv, NEW w \in Workers, Respond(w) PROVE IInv'
<1>1. LocalsTyped /\ Typed(w) /\ stage[w] = "replied" /\ UNCHANGED <<tables, published>>
  BY DEF IInv, WorkerOK, TypeOK, LocalsTyped, Respond
<1>2. /\ LocalsTyped' /\ (\A v \in Workers \ {w} : Unmoved(v))
      /\ req'[w] = NoRequest /\ stage'[w] = "idle" /\ done'[w] = 0
      /\ reply'[w] = "none" /\ fmt'[w] = DefaultMax
  BY <1>1 DEF Respond, LocalsTyped, Unmoved, Stages, Replies, Typed
<1>3. WorkerOK(w)'
  BY <1>2 DEF WorkerOK, Typed, Staged, Looped, Answered, Errors
<1> QED  BY <1>1, <1>2, <1>3, QuietOK, StepOK

LEMMA RestartOK ==
    ASSUME IInv, Restart, UNCHANGED <<tables, published>>
    PROVE  IInv'
<1>1. LocalsTyped'
  BY TournamentsAssumption DEF Restart, LocalsTyped, Stages, Replies
<1>2. ASSUME NEW v \in Workers PROVE WorkerOK(v)'
  <2>1. /\ req'[v] = NoRequest /\ stage'[v] = "idle" /\ done'[v] = 0
        /\ reply'[v] = "none" /\ fmt'[v] = DefaultMax
    BY DEF Restart
  <2> QED  BY <2>1 DEF WorkerOK, Typed, Staged, Looped, Answered, Errors
<1>3. TablesTyped' /\ EventsHaveRows'
  BY QuietOK
<1> QED  BY <1>1, <1>2, <1>3 DEF IInv, TypeOK, LocalsTyped, TablesTyped, WorkerOK, Typed

\* UpdateTournament, and steps of another part of the system.
LEMMA AsideOK ==
    ASSUME IInv, UNCHANGED <<groups, groupTeams, published, req, locals>>,
           \/ UNCHANGED defaulted
           \/ \E t \in StoredTournaments : UpdateTournament(t)
    PROVE  IInv'
<1>1. LocalsTyped' /\ TablesTyped' /\ EventsHaveRows'
  BY DEF IInv, TypeOK, LocalsTyped, TablesTyped, EventsHaveRows, locals,
         UpdateTournament
<1>2. Grows /\ \A v \in Workers : Unmoved(v)
  BY DEF Grows, Unmoved, locals
<1>3. \A v \in Workers : WorkerOK(v)'
  BY <1>2, UnmovedOK DEF IInv
<1> QED  BY <1>1, <1>3 DEF IInv, TypeOK, LocalsTyped, TablesTyped, WorkerOK, Typed

LEMMA InitIInv == Init => IInv
<1> SUFFICES ASSUME Init PROVE IInv
  OBVIOUS
<1>1. LocalsTyped /\ TablesTyped /\ EventsHaveRows
  BY TournamentsAssumption
  DEF Init, LocalsTyped, TablesTyped, EventsHaveRows, Stages, Replies
<1>2. \A w \in Workers : WorkerOK(w)
  BY DEF Init, WorkerOK, Typed, Staged, Looped, Answered, Errors
<1> QED  BY <1>1, <1>2 DEF IInv, TypeOK, LocalsTyped, TablesTyped, WorkerOK, Typed

LEMMA NextIInv == IInv /\ [Next]_vars => IInv'
<1> SUFFICES ASSUME IInv, [Next]_vars PROVE IInv'
  OBVIOUS
<1>1. ASSUME NEW w \in Workers, Serve(w) PROVE IInv'
  <2>1. CASE ReadFormat(w) \/ FindGroup(w) \/ CountTeams(w) \/ CheckTeams(w)
    BY <2>1, ReadOK
  <2>2. CASE InsertGroup(w)
    BY <2>2, InsertOK
  <2>3. CASE AnnounceGroup(w)
    BY <2>3, AnnounceOK
  <2>4. CASE AddTeam(w)
    BY <2>4, AddOK
  <2>5. CASE PublishTeam(w)
    BY <2>5, PublishTeamOK
  <2>6. CASE Relay(w)
    BY <2>6, RelayOK
  <2>7. CASE UpdateGroup(w)
    BY <2>7, UpdateOK
  <2>8. CASE GetGroup(w) /\ Restart
    BY <2>8, RestartOK DEF GetGroup
  <2>9. CASE DatabaseError(w) \/ (GetGroup(w) /\ ~Restart)
    BY <2>9, FailOK
  <2>10. CASE CommitInDoubt(w)
    BY <2>10, InDoubtOK
  <2>11. CASE Respond(w)
    BY <2>11, RespondOK
  <2> QED
    BY <1>1, <2>1, <2>2, <2>3, <2>4, <2>5, <2>6, <2>7, <2>8, <2>9, <2>10, <2>11
    DEF Serve
<1>2. ASSUME NEW w \in Workers, Accept(w) PROVE IInv'
  BY <1>2, ReceiveOK
<1>3. ASSUME NEW t \in StoredTournaments, UpdateTournament(t) PROVE IInv'
  BY <1>3, AsideOK DEF UpdateTournament
<1>4. CASE UNCHANGED vars
  BY <1>4, AsideOK DEF vars, tables
<1> QED  BY <1>1, <1>2, <1>3, <1>4 DEF Next

\* In every reachable state of the group endpoints, the stage of each request,
\* what it has stored and what it has announced agree.
THEOREM Inductive == Spec => []IInv
BY InitIInv, NextIInv, PTL DEF Spec

\* Types, for any workers, tournaments, groups and teams.
THEOREM TypeCorrect == Spec => []TypeOK
BY Inductive, PTL DEF IInv

\* Whoever is told one of the delegate's errors has written nothing, whatever
\* other requests do between its checks.
THEOREM ErrorsAreClean == Spec => []ErrorsWriteNothing
<1>1. IInv => ErrorsWriteNothing
  BY DEF IInv, WorkerOK, Answered, ErrorsWriteNothing
<1> QED  BY <1>1, Inductive, PTL

\* A successful request has stored and announced all its teams and its group.
THEOREM SuccessComplete == Spec => []SuccessIsComplete
<1>1. IInv => SuccessIsComplete
  <2> SUFFICES ASSUME IInv, NEW w \in Workers, reply[w] = "ok",
                      req[w].op \in {"create", "add"}
               PROVE  /\ \A j \in DOMAIN req[w].teams :
                            /\ <<req[w].gid, req[w].teams[j]>> \in groupTeams
                            /\ HasEventBus =>
                                  TeamAdded(req[w].tid, req[w].gid, req[w].teams[j])
                                     \in published
                            /\ Decorated /\ req[w].op = "add" =>
                                  Relayed(req[w].tid, req[w].gid, req[w].teams[j])
                                     \in published
                      /\ req[w].op = "create" /\ HasEventBus =>
                            Created(req[w].tid, req[w].gid) \in published
    BY DEF SuccessIsComplete
  <2>1. Answered(w) /\ req[w] \in Requests
    BY DEF IInv, WorkerOK, Staged, Typed, TypeOK
  <2>2. DOMAIN req[w].teams = 1 .. Len(req[w].teams)
    <3>1. req[w] \in CreatesOf(GroupIds \cup {NoGroup}) \cup Adds
      BY <2>1 DEF Requests, Updates, Gets
    <3>2. req[w].teams \in Seq(Teams)
      BY <3>1, TeamsAssumption DEF CreatesOf, Adds
    <3> QED  BY <3>2
  <2> QED  BY <2>1, <2>2 DEF Answered, Stored, Told, GroupTold, AllRelayed
<1> QED  BY <1>1, Inductive, PTL

\* No event is ahead of the tables, with any number of requests in flight.
THEOREM EventsTrue == Spec => []EventsHaveRows
BY Inductive, PTL DEF IInv
------------------------------------------------------------------------------
\* What the steps of a worker do to the rows of group_teams and to the events
\* about them

TeamNews == {e \in published : e.topic = "group.team_added"}

\* The process dies in this step.
Dies == Restart /\ \E w \in Workers : GetGroup(w)

\* Two actions add a row, one of them publishes an event about a team; the others
\* leave both alone.
LEMMA StepFrame ==
    ASSUME IInv, NEW w \in Workers, Accept(w) \/ Serve(w), ~Dies
    PROVE  /\ \A v \in Workers \ {w} : Unmoved(v)
           /\ \/ AddTeam(w) \/ CommitInDoubt(w) \/ PublishTeam(w)
              \/ /\ UNCHANGED groupTeams /\ TeamNews' = TeamNews
                 /\ stage[w] # "publish"
<1>1. LocalsTyped /\ Staged(w)
  BY DEF IInv, WorkerOK, TypeOK, LocalsTyped
<1>2. CASE Accept(w)
  <2>1. PICK r \in Creates \cup Adds \cup Updates \cup Gets, s \in Stages :
           Receive(w, r, s)
    BY <1>2 DEF Accept, ReceiveCreate, ReceiveAdd, ReceiveUpdate, ReceiveGet, Stages
  <2>2. \A v \in Workers \ {w} : Unmoved(v)
    BY <1>1, <2>1 DEF Receive, Goto, LocalsTyped, Unmoved
  <2>3. stage[w] # "publish" /\ UNCHANGED <<groupTeams, published>>
    BY <2>1 DEF Receive, tables
  <2> QED  BY <2>2, <2>3 DEF TeamNews
<1>3. CASE ReadFormat(w) \/ FindGroup(w) \/ CountTeams(w) \/ CheckTeams(w)
  <2>1. stage[w] # "publish" /\ UNCHANGED <<groupTeams, published>>
    BY <1>3 DEF ReadFormat, FindGroup, CountTeams, CheckTeams, tables
  <2>2. \A v \in Workers \ {w} : Unmoved(v)
    BY <1>1, <1>3
    DEF ReadFormat, FindGroup, CountTeams, CheckTeams, NextTeam, Finish, Goto,
        Answer, LocalsTyped, Unmoved
  <2> QED  BY <2>1, <2>2 DEF TeamNews
<1>4. CASE InsertGroup(w) \/ UpdateGroup(w)
  <2>1. stage[w] # "publish" /\ UNCHANGED <<groupTeams, published>>
    BY <1>4 DEF InsertGroup, UpdateGroup
  <2>2. \A v \in Workers \ {w} : Unmoved(v)
    BY <1>1, <1>4 DEF InsertGroup, UpdateGroup, Goto, Answer, LocalsTyped, Unmoved
  <2> QED  BY <2>1, <2>2 DEF TeamNews
<1>5. CASE AnnounceGroup(w)
  <2>1. /\ stage[w] # "publish" /\ UNCHANGED groupTeams
        /\ published' \in {published, published \cup {Created(req[w].tid, req[w].gid)}}
    BY <1>5 DEF AnnounceGroup, Publish, tables
  <2>2. TeamNews' = TeamNews
    BY <2>1 DEF TeamNews, Created
  <2>3. \A v \in Workers \ {w} : Unmoved(v)
    BY <1>1, <1>5 DEF AnnounceGroup, NextTeam, Finish, Goto, Answer, LocalsTyped, Unmoved
  <2> QED  BY <2>1, <2>2, <2>3
<1>6. CASE AddTeam(w)
  BY <1>1, <1>6 DEF AddTeam, LocalsTyped, Unmoved
<1>7. CASE PublishTeam(w)
  BY <1>1, <1>7 DEF PublishTeam, NextTeam, Finish, Goto, Answer, LocalsTyped, Unmoved
<1>8. CASE Relay(w)
  <2>1. /\ stage[w] # "publish" /\ UNCHANGED groupTeams
        /\ published' = published \cup
              {Relayed(req[w].tid, req[w].gid, req[w].teams[j]) :
                  j \in DOMAIN req[w].teams}
    BY <1>8 DEF Relay, tables
  <2>2. TeamNews' = TeamNews
    BY <2>1 DEF TeamNews, Relayed
  <2>3. \A v \in Workers \ {w} : Unmoved(v)
    BY <1>1, <1>8 DEF Relay, Answer, LocalsTyped, Unmoved
  <2> QED  BY <2>1, <2>2, <2>3
<1>9. CASE DatabaseError(w) \/ GetGroup(w) \/ Respond(w)
  <2>1. stage[w] # "publish" /\ UNCHANGED <<groupTeams, published>>
    BY <1>9 DEF DatabaseError, UsesDatabase, GetGroup, Respond, tables
  <2>2. \A v \in Workers \ {w} : Unmoved(v)
    BY <1>1, <1>9 DEF DatabaseError, GetGroup, Respond, Answer, LocalsTyped, Unmoved, Dies
  <2> QED  BY <2>1, <2>2 DEF TeamNews
<1>10. CASE CommitInDoubt(w)
  BY <1>1, <1>10 DEF CommitInDoubt, Answer, LocalsTyped, Unmoved
<1> QED
  BY <1>2, <1>3, <1>4, <1>5, <1>6, <1>7, <1>8, <1>9, <1>10 DEF Serve

\* The team that w stores next, and the one that it announces next.
Storing(w)    == req[w].teams[done[w] + 1]
Announcing(w) == req[w].teams[done[w]]

LEMMA AddFacts ==
    ASSUME IInv, NEW w \in Workers, AddTeam(w)
    PROVE  /\ groupTeams' = groupTeams \cup {<<req[w].gid, Storing(w)>>}
           /\ published' = published /\ TeamNews' = TeamNews
           /\ req[w].gid \in GroupIds /\ Storing(w) \in Teams
           /\ req[w].tid \in Tournaments
           /\ req'[w] = req[w] /\ stage'[w] = "publish" /\ done'[w] = done[w] + 1
           /\ Announcing(w)' = Storing(w)
<1>1. /\ stage[w] = "add" /\ groupTeams' = groupTeams \cup {<<req[w].gid, Storing(w)>>}
      /\ published' = published /\ TeamNews' = TeamNews
  BY DEF AddTeam, StoreTeam, Storing, TeamNews
<1>2. /\ req[w].gid \in GroupIds /\ Storing(w) \in Teams
      /\ req[w].tid \in Tournaments
  BY <1>1, NextTeamTyped DEF Storing, CreatesOf, Adds
<1>3. req'[w] = req[w] /\ stage'[w] = "publish" /\ done'[w] = done[w] + 1
  BY DEF AddTeam, IInv, TypeOK
<1> QED  BY <1>1, <1>2, <1>3 DEF Announcing, Storing

LEMMA PublishFacts ==
    ASSUME IInv, NEW w \in Workers, PublishTeam(w)
    PROVE  /\ stage[w] = "publish" /\ UNCHANGED <<groups, groupTeams>>
           /\ HasEventBus =>
                 TeamNews' = TeamNews \cup
                     {TeamAdded(req[w].tid, req[w].gid, Announcing(w))}
           /\ ~HasEventBus => TeamNews' = TeamNews
           /\ <<req[w].gid, Announcing(w)>> \in groupTeams
           /\ req[w].gid \in GroupIds /\ Announcing(w) \in Teams
           /\ req[w].tid \in Tournaments
<1>1. /\ stage[w] = "publish" /\ UNCHANGED <<groups, groupTeams>>
      /\ Publish(TeamAdded(req[w].tid, req[w].gid, Announcing(w)))
  BY DEF PublishTeam, AnnounceTeam, Announcing, tables
<1>2. /\ req[w] \in CreatesOf(GroupIds) \cup Adds
      /\ done[w] \in 1 .. Len(req[w].teams) /\ Stored(w, done[w]) /\ done[w] \in Nat
  BY <1>1 DEF IInv, WorkerOK, Staged, Looped, TypeOK
<1>3. /\ <<req[w].gid, Announcing(w)>> \in groupTeams
      /\ req[w].gid \in GroupIds /\ Announcing(w) \in Teams
      /\ req[w].tid \in Tournaments
  <2>1. req[w].teams \in Seq(Teams)
    BY <1>2, TeamsAssumption DEF CreatesOf, Adds
  <2> QED  BY <1>2, <2>1 DEF CreatesOf, Adds, Stored, Announcing
<1>4. /\ HasEventBus => TeamNews' = TeamNews \cup
                            {TeamAdded(req[w].tid, req[w].gid, Announcing(w))}
      /\ ~HasEventBus => TeamNews' = TeamNews
  BY <1>1 DEF TeamNews, Publish, TeamAdded
<1> QED  BY <1>1, <1>3, <1>4

------------------------------------------------------------------------------
\* RowsAnnounced

LEMMA StepAnnounced ==
    ASSUME IInv, RowsAnnounced, NEW w \in Workers, Accept(w) \/ Serve(w),
           ~Dies, ~CommitsInDoubt
    PROVE  RowsAnnounced'
<1> SUFFICES ASSUME HasEventBus, NEW g \in GroupIds, NEW m \in Teams,
                    <<g, m>> \in groupTeams'
             PROVE  \/ \E tid \in Tournaments : TeamAdded(tid, g, m) \in TeamNews'
                    \/ \E v \in Workers :
                          /\ stage'[v] = "publish" /\ req'[v].gid = g
                          /\ req'[v].teams[done'[v]] = m
  BY DEF RowsAnnounced, TeamsOf, TeamNews
<1>1. <<g, m>> \in groupTeams =>
         \/ \E tid \in Tournaments : TeamAdded(tid, g, m) \in TeamNews
         \/ \E v \in Workers : /\ stage[v] = "publish" /\ req[v].gid = g
                                /\ Announcing(v) = m
  BY DEF RowsAnnounced, TeamsOf, TeamNews, TeamAdded, Announcing
<1>2. /\ \A v \in Workers \ {w} : Unmoved(v)
      /\ \/ AddTeam(w) \/ PublishTeam(w)
         \/ /\ UNCHANGED groupTeams /\ TeamNews' = TeamNews
            /\ stage[w] # "publish"
  BY StepFrame DEF CommitInDoubt
<1>3. CASE UNCHANGED groupTeams /\ TeamNews' = TeamNews /\ stage[w] # "publish"
  BY <1>1, <1>2, <1>3 DEF Unmoved, Announcing
<1>4. CASE AddTeam(w)
  <2>1. CASE <<g, m>> \in groupTeams
    BY <1>1, <1>2, <1>4, <2>1, AddFacts DEF Unmoved, Announcing, AddTeam
  <2>2. CASE g = req[w].gid /\ m = Storing(w)
    BY <1>4, <2>2, AddFacts DEF Announcing
  <2> QED  BY <1>4, <2>1, <2>2, AddFacts
<1>5. CASE PublishTeam(w)
  <2>1. <<g, m>> \in groupTeams /\ req[w].tid \in Tournaments
        /\ TeamNews' = TeamNews \cup
              {TeamAdded(req[w].tid, req[w].gid, Announcing(w))}
    BY <1>5, PublishFacts
  <2>2. CASE req[w].gid = g /\ Announcing(w) = m
    BY <2>1, <2>2
  <2>3. CASE ~(req[w].gid = g /\ Announcing(w) = m)
    BY <1>1, <1>2, <2>1, <2>3 DEF Unmoved, Announcing
  <2> QED  BY <2>2, <2>3
<1> QED  BY <1>2, <1>3, <1>4, <1>5

LEMMA NextAnnounced ==
    ASSUME IInv, RowsAnnounced, [Next]_vars, ~Dies, ~CommitsInDoubt
    PROVE  RowsAnnounced'
<1>1. CASE \E w \in Workers : Accept(w) \/ Serve(w)
  BY <1>1, StepAnnounced
<1>2. CASE UNCHANGED <<groupTeams, published, req, locals>>
  BY <1>2 DEF RowsAnnounced, TeamsOf, locals
<1> QED  BY <1>1, <1>2 DEF Next, UpdateTournament, vars, tables

\* As long as the process lives and no commit is in doubt, no team is in a group
\* without having been announced, or being about to be.
THEOREM RowsAreAnnounced ==
    ASSUME ~CommitsInDoubt
    PROVE  Spec /\ [][~Dies]_vars => []RowsAnnounced
<1>1. Init => RowsAnnounced
  BY DEF Init, RowsAnnounced, TeamsOf
<1>2. IInv /\ RowsAnnounced /\ [Next]_vars /\ [~Dies]_vars => RowsAnnounced'
  <2>1. Dies /\ UNCHANGED vars /\ IInv /\ RowsAnnounced => RowsAnnounced'
    BY DEF RowsAnnounced, TeamsOf, vars, locals, tables
  <2> QED  BY <2>1, NextAnnounced
<1> QED  BY <1>1, <1>2, Inductive, PTL DEF Spec

\* Where the rows of GROUPS are, and what a request that reads one was given.
Located ==
    /\ \A g \in GroupIds :
          groups[g] # NoRow => groups[g].tournament \in StoredTournaments
    /\ \A w \in Workers :
          stage[w] = "get" => GroupInTournament(req[w].tid, req[w].gid)

\* A row that is written belongs to a stored tournament.
LEMMA RowsStored ==
    ASSUME IInv, NEW w \in Workers, Accept(w) \/ Serve(w)
    PROVE  \A g \in GroupIds :
              groups'[g] # groups[g] =>
                 groups'[g] # NoRow /\ groups'[g].tournament \in StoredTournaments
<1>1. CASE InsertGroup(w) \/ (CommitInDoubt(w) /\ stage[w] = "insert")
  <2>1. UNCHANGED groups \/ (InsertAccepted(w) /\ \E g \in GroupIds : StoreGroup(w, g))
    BY <1>1 DEF InsertGroup, CommitInDoubt
  <2>2. req[w] \in Creates /\ groups \in [GroupIds -> Row \cup {NoRow}]
    BY <1>1 DEF InsertGroup, IInv, WorkerOK, Staged, TypeOK
  <2>3. [tournament |-> req[w].body, name |-> req[w].name] \in Row
    BY <2>2 DEF Creates, CreatesOf, Row
  <2> QED  BY <2>1, <2>2, <2>3, NoRowAssumption DEF StoreGroup, InsertAccepted
<1>2. CASE UpdateGroup(w) \/ (CommitInDoubt(w) /\ stage[w] = "update")
  <2>1. UNCHANGED groups \/ (UpdateAccepted(w) /\ StoreUpdate(w))
    BY <1>2 DEF UpdateGroup, CommitInDoubt
  <2>2. req[w] \in Updates /\ groups \in [GroupIds -> Row \cup {NoRow}]
    BY <1>2 DEF UpdateGroup, IInv, WorkerOK, Staged, TypeOK
  <2>3. [tournament |-> req[w].tid, name |-> req[w].name] \in Row
    BY <2>2 DEF Updates, Row
  <2> QED  BY <2>1, <2>2, <2>3, NoRowAssumption DEF StoreUpdate, UpdateAccepted
<1>3. CASE UNCHANGED groups
  BY <1>3
<1> QED
  BY <1>1, <1>2, <1>3
  DEF Accept, ReceiveCreate, ReceiveAdd, ReceiveUpdate, ReceiveGet, Receive, Serve,
      ReadFormat, FindGroup, CountTeams, CheckTeams, AnnounceGroup, AddTeam,
      PublishTeam, Relay, GetGroup, DatabaseError, CommitInDoubt, Respond, tables

\* Only ReceiveGet brings a request to the reading of its group.
LEMMA GetsBegin ==
    ASSUME IInv, NEW w \in Workers, Accept(w) \/ Serve(w), stage'[w] = "get"
    PROVE  ReceiveGet(w)
<1>1. stage \in [Workers -> Stages]
  BY DEF IInv, TypeOK
<1>2. CASE Accept(w)
  BY <1>1, <1>2 DEF Accept, ReceiveCreate, ReceiveAdd, ReceiveUpdate, Receive, Goto
<1>3. CASE Serve(w)
  <2>1. CASE ReadFormat(w) \/ FindGroup(w) \/ CountTeams(w) \/ CheckTeams(w)
    BY <1>1, <2>1 DEF ReadFormat, FindGroup, CountTeams, CheckTeams, NextTeam, Finish,
                      Goto, Answer
  <2>2. CASE InsertGroup(w) \/ UpdateGroup(w) \/ CommitInDoubt(w)
    BY <1>1, <2>2 DEF InsertGroup, UpdateGroup, CommitInDoubt, Goto, Answer
  <2>3. CASE AnnounceGroup(w) \/ PublishTeam(w) \/ AddTeam(w) \/ Relay(w)
    BY <1>1, <2>3 DEF AnnounceGroup, PublishTeam, AddTeam, Relay, NextTeam, Finish,
                      Goto, Answer
  <2>4. CASE DatabaseError(w) \/ GetGroup(w) \/ Respond(w)
    BY <1>1, <2>4 DEF DatabaseError, GetGroup, Restart, Respond, Answer
  <2> QED  BY <1>3, <2>1, <2>2, <2>3, <2>4 DEF Serve
<1> QED  BY <1>2, <1>3

LEMMA NextLocated ==
    ASSUME IInv, Located, [Next]_vars, ~StrayGets,
           \A s, t \in StoredTournaments : s = t
    PROVE  Located' /\ ~Dies
<1>1. ~Dies
  <2> SUFFICES ASSUME NEW w \in Workers, GetGroup(w), Restart PROVE FALSE
    BY DEF Dies
  <2>1. Answer(w, "ok") /\ UNCHANGED req /\ stage[w] = "get"
    BY DEF GetGroup, Located
  <2>2. stage'[w] = "replied" /\ stage'[w] = "idle"
    BY <2>1 DEF Answer, Restart, IInv, TypeOK
  <2> QED  BY <2>2
<1>2. ASSUME NEW w \in Workers, Accept(w) \/ Serve(w) PROVE Located'
  <2>1. \A g \in GroupIds :
           groups[g] # NoRow => /\ groups'[g] # NoRow
                                /\ groups'[g].tournament = groups[g].tournament
    BY <1>2, RowsStored DEF Located
  <2>2. \A g \in GroupIds :
           groups'[g] # NoRow => groups'[g].tournament \in StoredTournaments
    BY <1>2, RowsStored DEF Located
  <2>3. ASSUME NEW v \in Workers, stage'[v] = "get"
        PROVE  GroupInTournament(req[v].tid, req[v].gid)'
    <3>1. CASE v = w
      <4>1. PICK r \in Gets : GroupInTournament(r.tid, r.gid) /\ Receive(w, r, "get")
        BY <1>2, <2>3, <3>1, GetsBegin DEF ReceiveGet
      <4>2. req'[w] = r /\ UNCHANGED groups
        BY <4>1 DEF Receive, tables, IInv, TypeOK
      <4> QED  BY <3>1, <4>1, <4>2 DEF GroupInTournament
    <3>2. CASE v # w
      <4>1. Unmoved(v)
        BY <1>1, <1>2, <3>2, StepFrame
      <4>2. /\ req'[v] = req[v] /\ req[v].gid \in GroupIds
            /\ GroupInTournament(req[v].tid, req[v].gid)
        BY <2>3, <4>1 DEF Unmoved, Located, IInv, WorkerOK, Staged, Gets
      <4> QED  BY <2>1, <4>2 DEF GroupInTournament
    <3> QED  BY <3>1, <3>2
  <2> QED  BY <2>2, <2>3 DEF Located
<1>3. CASE UNCHANGED <<groups, req, locals>>
  BY <1>1, <1>3 DEF Located, GroupInTournament, locals
<1> QED  BY <1>1, <1>2, <1>3 DEF Next, UpdateTournament, vars, tables

\* With a single tournament, a group that was there when its GET arrived is there
\* when it is read, so that the null pointer is never followed.  With two, another
\* worker may have moved the group by then.
THEOREM GetsFindTheirGroup ==
    ASSUME ~StrayGets, \A s, t \in StoredTournaments : s = t
    PROVE  Spec => [][~Dies]_vars
<1>1. Init => Located
  BY DEF Init, Located
<1>2. IInv /\ Located /\ [Next]_vars => Located' /\ [~Dies]_vars
  BY NextLocated
<1> QED  BY <1>1, <1>2, Inductive, PTL DEF Spec

\* So every row is announced in the instance that the run checks, of any size.
THEOREM RowsAnnouncedAlone ==
    ASSUME ~CommitsInDoubt, ~StrayGets, \A s, t \in StoredTournaments : s = t
    PROVE  Spec => []RowsAnnounced
BY RowsAreAnnounced, GetsFindTheirGroup, PTL
------------------------------------------------------------------------------
\* The refinement of GroupRoster

There     == {g \in GroupIds : groups[g] # NoRow}
GroupNews == {e \in published : e.topic = "group.created"}
Heralded  == {e.gid : e \in GroupNews}
Heard     == {<<e.gid, e.team>> : e \in TeamNews}

\* A step founds a group, or announces one, or leaves both to others.
LEMMA StepFounds ==
    ASSUME IInv, NEW w \in Workers, Accept(w) \/ Serve(w)
    PROVE  \/ \E g \in GroupIds :
                 /\ \/ There' = There \cup {g} /\ Heralded' = Heralded
                    \/ /\ g \in There /\ There' = There
                       /\ Heralded' = Heralded \cup {g}
                 /\ groupTeams' = groupTeams /\ Heard' = Heard
           \/ There' = There /\ Heralded' = Heralded
<1>1. /\ groups \in [GroupIds -> Row \cup {NoRow}]
      /\ req \in [Workers -> Requests \cup {NoRequest}] /\ Staged(w)
  BY DEF IInv, TypeOK, WorkerOK
<1>2. CASE UNCHANGED <<groups, published>>
  BY <1>2 DEF There, Heralded, GroupNews
<1>3. CASE InsertGroup(w) \/ (CommitInDoubt(w) /\ stage[w] = "insert")
  <2>1. CASE UNCHANGED groups
    BY <1>2, <1>3, <2>1 DEF InsertGroup, CommitInDoubt
  <2>2. CASE ~UNCHANGED groups
    <3>1. PICK g \in GroupIds : StoreGroup(w, g)
      BY <1>3, <2>2 DEF InsertGroup, CommitInDoubt
    <3>2. UNCHANGED <<groupTeams, published>>
      BY <1>3 DEF InsertGroup, CommitInDoubt
    <3>3. [tournament |-> req[w].body, name |-> req[w].name] # NoRow
      <4>1. req[w] \in Creates
        BY <1>1, <1>3 DEF InsertGroup, Staged
      <4> QED  BY <4>1, NoRowAssumption DEF Creates, CreatesOf, Row
    <3>4. There' = There \cup {g}
      BY <1>1, <3>1, <3>3 DEF StoreGroup, There
    <3>5. Heralded' = Heralded /\ Heard' = Heard
      BY <3>2 DEF Heralded, GroupNews, Heard, TeamNews
    <3> QED  BY <3>2, <3>4, <3>5
  <2> QED  BY <2>1, <2>2
<1>4. CASE UpdateGroup(w) \/ (CommitInDoubt(w) /\ stage[w] = "update")
  <2>1. CASE UNCHANGED groups
    BY <1>2, <1>4, <2>1 DEF UpdateGroup, CommitInDoubt
  <2>2. CASE ~UNCHANGED groups
    <3>1. UpdateAccepted(w) /\ StoreUpdate(w) /\ UNCHANGED published
      BY <1>4, <2>2 DEF UpdateGroup, CommitInDoubt
    <3>2. [tournament |-> req[w].tid, name |-> req[w].name] # NoRow
      <4>1. req[w] \in Updates
        BY <1>1, <1>4 DEF UpdateGroup, Staged
      <4> QED  BY <4>1, NoRowAssumption DEF Updates, Row
    <3>3. There' = There
      BY <1>1, <3>1, <3>2 DEF UpdateAccepted, StoreUpdate, There
    <3> QED  BY <3>1, <3>3 DEF Heralded, GroupNews
  <2> QED  BY <2>1, <2>2
<1>5. CASE AnnounceGroup(w)
  <2> DEFINE e == Created(req[w].tid, req[w].gid)
             g == req[w].gid
  <2>1. /\ UNCHANGED <<groups, groupTeams>> /\ g \in There
        /\ published' = published \/ published' = published \cup {e}
    BY <1>1, <1>5 DEF AnnounceGroup, Publish, tables, Staged, HasGroup, There
  <2>2. e.topic = "group.created" /\ e.gid = g
    BY DEF Created
  <2> HIDE DEF e
  <2>3. /\ Heralded' = Heralded \/ Heralded' = Heralded \cup {g}
        /\ Heard' = Heard /\ There' = There
    BY <2>1, <2>2 DEF Heralded, GroupNews, Heard, TeamNews, There
  <2>4. g \in GroupIds
    BY <2>1 DEF There
  <2> QED  BY <2>1, <2>3, <2>4
<1>6. CASE PublishTeam(w)
  <2>1. /\ UNCHANGED groups
        /\ \/ published' = published
           \/ published' = published \cup
                 {TeamAdded(req[w].tid, req[w].gid, req[w].teams[done[w]])}
    BY <1>6 DEF PublishTeam, AnnounceTeam, Publish, tables
  <2>2. GroupNews' = GroupNews
    BY <2>1 DEF GroupNews, TeamAdded
  <2> QED  BY <2>1, <2>2 DEF There, Heralded
<1>7. CASE Relay(w)
  <2>1. /\ UNCHANGED groups
        /\ published' = published \cup
              {Relayed(req[w].tid, req[w].gid, req[w].teams[j]) :
                  j \in DOMAIN req[w].teams}
    BY <1>7 DEF Relay, tables
  <2>2. GroupNews' = GroupNews
    BY <2>1 DEF GroupNews, Relayed
  <2> QED  BY <2>1, <2>2 DEF There, Heralded
<1> QED
  BY <1>2, <1>3, <1>4, <1>5, <1>6, <1>7
  DEF Accept, ReceiveCreate, ReceiveAdd, ReceiveUpdate, ReceiveGet, Receive, Serve,
      ReadFormat, FindGroup, CountTeams, CheckTeams, AddTeam, GetGroup,
      DatabaseError, CommitInDoubt, Respond, tables

\* A step adds a row of group_teams, or announces one, or leaves both to others.
LEMMA StepJoins ==
    ASSUME IInv, NEW w \in Workers, Accept(w) \/ Serve(w)
    PROVE  \/ \E p \in GroupIds \X Teams :
                 /\ p[1] \in There
                 /\ \/ groupTeams' = groupTeams \cup {p} /\ Heard' = Heard
                    \/ /\ p \in groupTeams /\ groupTeams' = groupTeams
                       /\ Heard' = Heard \cup {p}
           \/ groupTeams' = groupTeams /\ Heard' = Heard
<1>1. CASE Dies
  <2>1. UNCHANGED <<groupTeams, published>>
    BY <1>1 DEF Dies, GetGroup, tables
  <2> QED  BY <2>1 DEF Heard, TeamNews
<1>2. CASE UNCHANGED groupTeams /\ TeamNews' = TeamNews
  BY <1>2 DEF Heard
<1>3. stage[w] \in {"add", "publish"} => req[w].gid \in There
  BY DEF IInv, WorkerOK, Staged, HasGroup, There
<1>4. CASE AddTeam(w)
  <2> DEFINE p == <<req[w].gid, Storing(w)>>
  <2>1. /\ groupTeams' = groupTeams \cup {p} /\ Heard' = Heard
        /\ p \in GroupIds \X Teams
    BY <1>4, AddFacts DEF Heard
  <2>2. p[1] \in There
    BY <1>3, <1>4 DEF AddTeam
  <2> QED  BY <2>1, <2>2
<1>5. CASE CommitInDoubt(w)
  <2>1. published' = published
    BY <1>5 DEF CommitInDoubt
  <2>2. CASE UNCHANGED groupTeams
    BY <2>1, <2>2 DEF Heard, TeamNews
  <2>3. CASE stage[w] = "add" /\ StoreTeam(w)
    <3> DEFINE p == <<req[w].gid, req[w].teams[done[w] + 1]>>
    <3>1. p \in GroupIds \X Teams /\ p[1] \in There
      BY <1>3, <2>3, NextTeamTyped
    <3>2. groupTeams' = groupTeams \cup {p} /\ Heard' = Heard
      BY <2>1, <2>3 DEF StoreTeam, Heard, TeamNews
    <3> QED  BY <3>1, <3>2
  <2> QED  BY <1>5, <2>2, <2>3 DEF CommitInDoubt
<1>6. CASE PublishTeam(w)
  <2> DEFINE e == TeamAdded(req[w].tid, req[w].gid, Announcing(w))
             p == <<req[w].gid, Announcing(w)>>
  <2>1. /\ p \in groupTeams /\ p \in GroupIds \X Teams /\ groupTeams' = groupTeams
        /\ TeamNews' = TeamNews \cup {e} \/ TeamNews' = TeamNews
    BY <1>6, PublishFacts
  <2>2. <<e.gid, e.team>> = p
    BY DEF TeamAdded
  <2>3. Heard' = Heard \cup {p} \/ Heard' = Heard
    BY <2>1, <2>2 DEF Heard
  <2>4. p[1] \in There
    BY <1>3, <1>6 DEF PublishTeam
  <2> QED  BY <2>1, <2>3, <2>4
<1> QED  BY <1>1, <1>2, <1>4, <1>5, <1>6, StepFrame

\* The safety half of ImplementsRoster: whatever fails or is repeated, and even if
\* the process dies, groups stay, teams only join groups that are there, and only
\* what has happened is announced.
THEOREM RosterKept == Spec => Roster!Spec
<1>1. Init => Roster!Init
  BY DEF Init, Roster!Init
<1>2. IInv /\ [Next]_vars => [Roster!Next]_(Roster!vars)
  <2> SUFFICES ASSUME IInv, [Next]_vars PROVE [Roster!Next]_(Roster!vars)
    OBVIOUS
  <2>1. CASE UNCHANGED <<groups, groupTeams, published>>
    BY <2>1 DEF Roster!vars
  <2>2. CASE \E w \in Workers : Accept(w) \/ Serve(w)
    <3>1. PICK w \in Workers : Accept(w) \/ Serve(w)
      BY <2>2
    <3>2. CASE \E g \in GroupIds :
                 /\ \/ There' = There \cup {g} /\ Heralded' = Heralded
                    \/ /\ g \in There /\ There' = There
                       /\ Heralded' = Heralded \cup {g}
                 /\ groupTeams' = groupTeams /\ Heard' = Heard
      BY <3>2
      DEF There, Heralded, GroupNews, Heard, TeamNews, Roster!Next, Roster!Found,
          Roster!Herald
    <3>3. CASE There' = There /\ Heralded' = Heralded
      <4>1. CASE \E p \in GroupIds \X Teams :
                    /\ p[1] \in There
                    /\ \/ groupTeams' = groupTeams \cup {p} /\ Heard' = Heard
                       \/ /\ p \in groupTeams /\ groupTeams' = groupTeams
                          /\ Heard' = Heard \cup {p}
        BY <3>3, <4>1
        DEF There, Heralded, GroupNews, Heard, TeamNews, Roster!Next, Roster!Join,
            Roster!Announce
      <4>2. CASE groupTeams' = groupTeams /\ Heard' = Heard
        BY <3>3, <4>2 DEF There, Heralded, GroupNews, Heard, TeamNews, Roster!vars
      <4> QED  BY <3>1, <4>1, <4>2, StepJoins
    <3> QED  BY <3>1, <3>2, <3>3, StepFounds
  <2> QED  BY <2>1, <2>2 DEF Next, UpdateTournament, vars, tables
<1> QED  BY <1>1, <1>2, Inductive, PTL DEF Spec, Roster!Spec
------------------------------------------------------------------------------
\* OvershootBounded.  Every team that a worker may still store, having passed the
\* check of the limit, is counted as if it were in the group already.

Limits == {MaxTeams[t] : t \in StoredTournaments} \cup {DefaultMax}

\* The stages behind the check that TooManyPreloaded or CountTeams makes.
Checked == {"announce", "check", "add", "publish"}

Pending(g) ==
    {p \in Workers \X Nat :
        /\ stage[p[1]] \in Checked /\ req[p[1]].gid = g
        /\ done[p[1]] < p[2] /\ p[2] <= Len(req[p[1]].teams)}

\* A request that was checked is no longer than M.
Fits(w, M) == stage[w] \in Checked \cup {"insert"} => Len(req[w].teams) <= M

\* There is room for what is pending, when M is a bound of all limits.
RoomFor(M) ==
    /\ \A w \in Workers : Fits(w, M)
    /\ \A g \in GroupIds :
          Cardinality(TeamsOf(g)) + Cardinality(Pending(g)) <= Cardinality(Workers) * M

Room ==
    /\ \A w \in Workers : fmt[w] \in Limits
    /\ \A g \in GroupIds : /\ IsFiniteSet(TeamsOf(g))
                           /\ groups[g] = NoRow => TeamsOf(g) = {}
    /\ Workers = {} => groupTeams = {}
    /\ (\A l \in Limits : l > 0) =>
          \A M \in Nat : (\A l \in Limits : l <= M) => RoomFor(M)

\* What is pending is finite.
LEMMA PendingFinite ==
    ASSUME NEW M \in Nat, \A w \in Workers : Fits(w, M), NEW g,
           \A w \in Workers :
              stage[w] \in Checked => Len(req[w].teams) \in Nat /\ done[w] \in Nat
    PROVE  Pending(g) \subseteq Workers \X (1 .. M) /\ IsFiniteSet(Pending(g))
<1>1. Pending(g) \subseteq Workers \X (1 .. M)
  <2> SUFFICES ASSUME NEW p \in Pending(g) PROVE p \in Workers \X (1 .. M)
    OBVIOUS
  <2>1. /\ p \in Workers \X Nat /\ stage[p[1]] \in Checked
        /\ done[p[1]] < p[2] /\ p[2] <= Len(req[p[1]].teams)
    BY DEF Pending
  <2>2. p[2] \in 1 .. M
    BY <2>1 DEF Fits
  <2> QED  BY <2>1, <2>2
<1>2. IsFiniteSet(Workers \X (1 .. M))
  <2>1. IsFiniteSet(1 .. M)
    BY FS_Interval
  <2> QED  BY ONLY <2>1, WorkersAssumption, FS_Product, Zenon
<1> QED  BY <1>1, <1>2, FS_Subset

\* When a worker has passed the check, the k teams of its request fit beside the
\* others of the group, and every other worker has at most M teams pending.
LEMMA RoomToEnter ==
    ASSUME NEW w \in Workers, NEW M \in Nat, NEW k \in Nat, NEW c \in Nat, c + k <= M,
           NEW P, P \subseteq ((Workers \ {w}) \X (1 .. M)) \cup ({w} \X (1 .. k))
    PROVE  c + Cardinality(P) <= Cardinality(Workers) * M
<1> DEFINE A == (Workers \ {w}) \X (1 .. M)
           B == {w} \X (1 .. k)
           m == Cardinality(Workers)
<1>1. /\ IsFiniteSet(Workers \ {w}) /\ Cardinality(Workers \ {w}) = m - 1
      /\ m \in Nat
  BY WorkersAssumption, FS_RemoveElement, FS_CardinalityType
<1>2. /\ IsFiniteSet(1 .. M) /\ Cardinality(1 .. M) = M
      /\ IsFiniteSet(1 .. k) /\ Cardinality(1 .. k) = k
  BY FS_Interval
<1>3. IsFiniteSet(A) /\ Cardinality(A) = (m - 1) * M
  <2>1. Cardinality(A) = Cardinality(Workers \ {w}) * Cardinality(1 .. M)
        /\ IsFiniteSet(A)
    BY ONLY <1>1, <1>2, FS_Product, Zenon DEF A
  <2> QED  BY <1>1, <1>2, <2>1
<1>4. IsFiniteSet(B) /\ Cardinality(B) = k
  <2>1. IsFiniteSet({w}) /\ Cardinality({w}) = 1
    BY FS_Singleton
  <2>2. Cardinality(B) = Cardinality({w}) * Cardinality(1 .. k) /\ IsFiniteSet(B)
    BY ONLY <1>2, <2>1, FS_Product, Zenon DEF B
  <2> QED  BY <1>2, <2>1, <2>2
<1> HIDE DEF A, B, m
<1>5. /\ IsFiniteSet(A \cup B) /\ Cardinality(A \cap B) \in Nat
      /\ Cardinality(A \cup B) = (m - 1) * M + k - Cardinality(A \cap B)
  <2>1. IsFiniteSet(A \cap B)
    BY <1>3, FS_Intersection
  <2> QED  BY <1>3, <1>4, <2>1, FS_Union, FS_CardinalityType
<1>6. Cardinality(P) <= Cardinality(A \cup B) /\ Cardinality(P) \in Nat
  BY <1>5, FS_Subset, FS_CardinalityType DEF A, B
<1>7. (m - 1) * M + M = m * M /\ (m - 1) * M \in Int
  BY <1>1
<1> QED  BY <1>1, <1>5, <1>6, <1>7 DEF m

\* What the stages of a worker have to do with what is pending.
LEMMA CheckedFacts ==
    ASSUME IInv, NEW w \in Workers, stage[w] \in Checked
    PROVE  /\ req[w] \in CreatesOf(GroupIds) \cup Adds
           /\ Len(req[w].teams) \in Nat /\ done[w] \in Nat
           /\ groups[req[w].gid] # NoRow
<1>1. /\ req[w] \in CreatesOf(GroupIds) \cup Adds /\ HasGroup(w) /\ done[w] \in Nat
  BY DEF IInv, WorkerOK, Staged, TypeOK, Checked
<1>2. req[w].teams \in Seq(Teams)
  BY <1>1, TeamsAssumption DEF CreatesOf, Adds
<1> QED  BY <1>1, <1>2 DEF HasGroup

\* Limits are numbers, and both reads of a format find one of them.
LEMMA LimitFacts ==
    /\ Limits \subseteq Int
    /\ DefaultMax \in Limits
    /\ \A w : ~UnknownTournament(w) => Limit(req[w].tid) \in Limits
BY TournamentsAssumption DEF Limits, Limit, UnknownTournament

\* A worker enters the checked stages in two actions; a third and a fourth store
\* a team, which is then no longer pending.
LEMMA StepKinds ==
    ASSUME IInv, NEW w \in Workers, Accept(w) \/ Serve(w), ~Dies
    PROVE  \/ AddTeam(w) \/ (stage[w] = "add" /\ CommitInDoubt(w))
           \/ (CountTeams(w) /\ Goto(w, "check"))
           \/ (InsertGroup(w) /\ Goto(w, "announce"))
           \/ /\ UNCHANGED groupTeams
              /\ stage'[w] \in Checked =>
                    /\ stage[w] \in Checked
                    /\ req'[w] = req[w] /\ done'[w] = done[w]
              /\ stage'[w] = "insert" => ReadFormat(w)
<1>1. LocalsTyped
  BY DEF IInv, TypeOK, LocalsTyped
<1>2. CASE Accept(w)
  BY <1>1, <1>2
  DEF Accept, ReceiveCreate, ReceiveAdd, ReceiveUpdate, ReceiveGet, Receive, Goto,
      LocalsTyped, Checked, tables
<1>3. CASE ReadFormat(w) \/ FindGroup(w) \/ CountTeams(w)
  BY <1>1, <1>3
  DEF ReadFormat, FindGroup, CountTeams, Goto, Answer, LocalsTyped, Checked, tables
<1>4. CASE CheckTeams(w) \/ AnnounceGroup(w) \/ PublishTeam(w)
  BY <1>1, <1>4
  DEF CheckTeams, AnnounceGroup, PublishTeam, NextTeam, Finish, Goto, Answer,
      LocalsTyped, Checked, tables
<1>5. CASE InsertGroup(w) \/ UpdateGroup(w) \/ Relay(w) \/ GetGroup(w)
  BY <1>1, <1>5
  DEF InsertGroup, UpdateGroup, Relay, GetGroup, Answer, LocalsTyped, Checked,
      tables, Dies
<1>6. CASE DatabaseError(w) \/ Respond(w) \/ CommitInDoubt(w)
  BY <1>1, <1>6
  DEF DatabaseError, Respond, CommitInDoubt, Answer, LocalsTyped, Checked, tables
<1> QED  BY <1>2, <1>3, <1>4, <1>5, <1>6 DEF Serve

\* What a worker keeps as the format is one of the limits.
LEMMA FmtKept ==
    ASSUME IInv, NEW w \in Workers, Accept(w) \/ Serve(w), ~Dies,
           fmt[w] \in Limits
    PROVE  fmt'[w] \in Limits
<1>1. LocalsTyped
  BY DEF IInv, TypeOK, LocalsTyped
<1>2. CASE ReadFormat(w)
  BY <1>1, <1>2, LimitFacts DEF ReadFormat, Answer, LocalsTyped
<1>3. CASE fmt'[w] \in {fmt[w], DefaultMax}
  BY <1>3, LimitFacts
<1>4. CASE Accept(w)
  BY <1>3, <1>4
  DEF Accept, ReceiveCreate, ReceiveAdd, ReceiveUpdate, ReceiveGet, Receive, Goto
<1>5. CASE FindGroup(w) \/ CountTeams(w) \/ InsertGroup(w) \/ UpdateGroup(w)
  BY <1>1, <1>3, <1>5
  DEF FindGroup, CountTeams, InsertGroup, UpdateGroup, Goto, Answer, LocalsTyped
<1>6. CASE CheckTeams(w) \/ AnnounceGroup(w) \/ PublishTeam(w) \/ AddTeam(w)
  BY <1>1, <1>3, <1>6
  DEF CheckTeams, AnnounceGroup, PublishTeam, AddTeam, NextTeam, Finish, Goto,
      Answer, LocalsTyped
<1>7. CASE \/ Relay(w) \/ GetGroup(w) \/ DatabaseError(w) \/ CommitInDoubt(w)
           \/ Respond(w)
  BY <1>1, <1>3, <1>7
  DEF Relay, GetGroup, DatabaseError, CommitInDoubt, Respond, Answer, LocalsTyped, Dies
<1> QED  BY <1>2, <1>4, <1>5, <1>6, <1>7 DEF Serve

LEMMA CountFacts ==
    ASSUME IInv, NEW w \in Workers, CountTeams(w), Goto(w, "check"),
           fmt[w] > 0, IsFiniteSet(TeamsOf(req[w].gid))
    PROVE  /\ req'[w] = req[w] /\ done'[w] = 0 /\ stage'[w] = "check"
           /\ req[w].gid \in GroupIds /\ Len(req[w].teams) \in Nat
           /\ Cardinality(TeamsOf(req[w].gid)) \in Nat
           /\ Cardinality(TeamsOf(req[w].gid)) + Len(req[w].teams) <= fmt[w]
<1>1. /\ LocalsTyped /\ stage[w] = "count" /\ req[w] \in Adds /\ done[w] = 0
  BY DEF IInv, TypeOK, LocalsTyped, WorkerOK, Staged, CountTeams
<1>2. stage'[w] = "check" /\ req'[w] = req[w] /\ done'[w] = 0
  BY <1>1 DEF Goto, LocalsTyped, CountTeams
<1>3. ~(TeamsAfter(w) > fmt[w])
  BY <1>1, <1>2 DEF CountTeams, Answer, LocalsTyped
<1>4. req[w].teams \in Seq(Teams) /\ req[w].gid \in GroupIds
  BY <1>1, TeamsAssumption DEF Adds
<1>5. Cardinality(TeamsOf(req[w].gid)) \in Nat /\ Len(req[w].teams) \in Nat
  BY <1>4, FS_CardinalityType
<1>6. fmt[w] \in Int
  BY <1>1 DEF LocalsTyped
<1> QED  BY <1>2, <1>3, <1>4, <1>5, <1>6 DEF TeamsAfter

LEMMA InsertFacts ==
    ASSUME IInv, NEW w \in Workers, InsertGroup(w), Goto(w, "announce")
    PROVE  /\ stage[w] = "insert" /\ stage'[w] = "announce" /\ done'[w] = 0
           /\ req'[w].teams = req[w].teams /\ Len(req[w].teams) \in Nat
           /\ groups[req'[w].gid] = NoRow /\ req'[w].gid \in GroupIds
           /\ UNCHANGED groupTeams
<1>1. /\ LocalsTyped /\ stage[w] = "insert" /\ req[w] \in Creates /\ done[w] = 0
  BY DEF IInv, TypeOK, LocalsTyped, WorkerOK, Staged, InsertGroup
<1>2. stage'[w] = "announce" /\ done'[w] = 0 /\ UNCHANGED groupTeams
  BY <1>1 DEF Goto, LocalsTyped, InsertGroup
<1>3. PICK g \in GroupIds : StoreGroup(w, g) /\ req' = [req EXCEPT ![w].gid = g]
  BY <1>1, <1>2 DEF InsertGroup, Answer, LocalsTyped
<1>4. req'[w] = [req[w] EXCEPT !.gid = g] /\ groups[g] = NoRow
  BY <1>1, <1>3 DEF LocalsTyped, StoreGroup
<1>5. req'[w].gid = g /\ req'[w].teams = req[w].teams
  BY <1>1, <1>4 DEF Creates, CreatesOf
<1>6. req[w].teams \in Seq(Teams)
  BY <1>1, TeamsAssumption DEF Creates, CreatesOf
<1> QED  BY <1>1, <1>2, <1>4, <1>5, <1>6

\* Nothing passes a check that is longer than the largest limit.
LEMMA FitsKept ==
    ASSUME IInv, NEW w \in Workers, Accept(w) \/ Serve(w), ~Dies,
           fmt[w] \in Limits, NEW M \in Nat,
           \A l \in Limits : l > 0 /\ l <= M, \A v \in Workers : Fits(v, M),
           \A g \in GroupIds : IsFiniteSet(TeamsOf(g))
    PROVE  \A v \in Workers : Fits(v, M)'
<1>1. \A v \in Workers \ {w} : Fits(v, M)'
  BY StepFrame DEF Unmoved, Fits
<1>2. LocalsTyped
  BY DEF IInv, TypeOK, LocalsTyped
<1>3. Fits(w, M)'
  <2>1. CASE AddTeam(w)
    BY <2>1, AddFacts DEF Fits, AddTeam, Checked
  <2>2. CASE stage[w] = "add" /\ CommitInDoubt(w)
    <3>1. stage'[w] = "replied"
      BY <1>2, <2>2 DEF CommitInDoubt, Answer, LocalsTyped
    <3> QED  BY <3>1 DEF Fits, Checked
  <2>3. CASE CountTeams(w) /\ Goto(w, "check")
    <3>1. req[w].gid \in GroupIds
      BY <2>3 DEF CountTeams, IInv, WorkerOK, Staged, Adds
    <3>2. /\ req'[w] = req[w] /\ Len(req[w].teams) \in Nat
          /\ Cardinality(TeamsOf(req[w].gid)) \in Nat
          /\ Cardinality(TeamsOf(req[w].gid)) + Len(req[w].teams) <= fmt[w]
      BY <2>3, <3>1, CountFacts
    <3>3. Len(req[w].teams) <= M
      BY <1>2, <3>2 DEF LocalsTyped
    <3> QED  BY <3>2, <3>3 DEF Fits
  <2>4. CASE InsertGroup(w) /\ Goto(w, "announce")
    BY <2>4, InsertFacts DEF Fits
  <2>5. CASE stage'[w] \in Checked /\ stage[w] \in Checked /\ req'[w] = req[w]
    BY <2>5 DEF Fits
  <2>6. CASE stage'[w] = "insert" /\ ReadFormat(w)
    <3>1. /\ req'[w] = req[w] /\ ~UnknownTournament(w) /\ ~TooManyPreloaded(w)
          /\ req[w].op = "create" /\ req[w] \in Creates \cup Adds
      BY <1>2, <2>6 DEF ReadFormat, Answer, LocalsTyped, IInv, WorkerOK, Staged
    <3>2. /\ Limit(req[w].tid) > 0 /\ Limit(req[w].tid) <= M
          /\ Limit(req[w].tid) \in Int
      BY <3>1, LimitFacts
    <3>3. req[w].teams \in Seq(Teams)
      BY <3>1, TeamsAssumption DEF Creates, CreatesOf, Adds
    <3>4. Len(req[w].teams) <= M
      BY <3>1, <3>2, <3>3 DEF TooManyPreloaded
    <3> QED  BY <3>1, <3>4 DEF Fits
  <2>7. CASE stage'[w] \notin Checked \cup {"insert"}
    BY <2>7 DEF Fits
  <2> QED  BY <2>1, <2>2, <2>3, <2>4, <2>5, <2>6, <2>7, StepKinds
<1> QED  BY <1>1, <1>3

LEMMA FewerPending ==
    ASSUME NEW T, IsFiniteSet(T), NEW P, IsFiniteSet(P), NEW Q, Q \subseteq P
    PROVE  /\ Cardinality(T) + Cardinality(Q) <= Cardinality(T) + Cardinality(P)
           /\ Cardinality(T) + Cardinality(Q) \in Nat
<1>1. Cardinality(Q) <= Cardinality(P) /\ IsFiniteSet(Q)
  BY FS_Subset
<1> QED  BY <1>1, FS_CardinalityType

\* A pending team becomes a team of the group, or was one.
LEMMA PendingStored ==
    ASSUME NEW T, IsFiniteSet(T), NEW m, NEW P, IsFiniteSet(P), NEW p \in P,
           NEW Q, Q \subseteq P \ {p}
    PROVE  /\ Cardinality(T \cup {m}) + Cardinality(Q)
                 <= Cardinality(T) + Cardinality(P)
           /\ Cardinality(T \cup {m}) + Cardinality(Q) \in Nat
<1>1. Cardinality(T \cup {m}) <= Cardinality(T) + 1 /\ Cardinality(T \cup {m}) \in Nat
  <2>1. /\ IsFiniteSet(T \cup {m}) /\ Cardinality(T) \in Nat
        /\ Cardinality(T \cup {m}) \in {Cardinality(T), Cardinality(T) + 1}
    BY FS_AddElement, FS_CardinalityType
  <2> QED  BY <2>1
<1>2. IsFiniteSet(P \ {p}) /\ Cardinality(P \ {p}) = Cardinality(P) - 1
  BY FS_RemoveElement
<1>3. Cardinality(Q) <= Cardinality(P \ {p}) /\ IsFiniteSet(Q)
  BY <1>2, FS_Subset
<1> QED  BY <1>1, <1>2, <1>3, FS_CardinalityType

LEMMA RoomStep ==
    ASSUME IInv, Room, NEW w \in Workers, Accept(w) \/ Serve(w), ~Dies,
           NEW M \in Nat, \A l \in Limits : l > 0 /\ l <= M, RoomFor(M)
    PROVE  RoomFor(M)'
<1> DEFINE bound == Cardinality(Workers) * M
<1>1. LocalsTyped /\ \A v \in Workers \ {w} : Unmoved(v)
  BY StepFrame DEF IInv, TypeOK, LocalsTyped
<1>2. \A v \in Workers : Fits(v, M)'
  BY FitsKept DEF Room, RoomFor
<1>3. bound \in Nat
  <2>1. Cardinality(Workers) \in Nat
    BY FS_CardinalityType, WorkersAssumption
  <2> QED  BY <2>1
<1> HIDE DEF bound
<1>4. ASSUME NEW g \in GroupIds
      PROVE  Cardinality(TeamsOf(g)') + Cardinality(Pending(g)') <= bound
  <2>1. /\ IsFiniteSet(TeamsOf(g)) /\ IsFiniteSet(Pending(g))
        /\ Pending(g) \subseteq Workers \X (1 .. M)
        /\ Cardinality(TeamsOf(g)) + Cardinality(Pending(g)) <= bound
    BY CheckedFacts, PendingFinite DEF Room, RoomFor, bound
  <2>2. Cardinality(TeamsOf(g)) \in Nat /\ Cardinality(Pending(g)) \in Nat
    BY <2>1, FS_CardinalityType
  <2>3. ASSUME UNCHANGED groupTeams,
               stage'[w] \in Checked /\ req'[w].gid = g =>
                  stage[w] \in Checked /\ req'[w] = req[w] /\ done'[w] = done[w]
        PROVE  Cardinality(TeamsOf(g)') + Cardinality(Pending(g)') <= bound
    <3>1. TeamsOf(g)' = TeamsOf(g)
      BY <2>3 DEF TeamsOf
    <3>2. Pending(g)' \subseteq Pending(g)
      BY <1>1, <2>3 DEF Pending, Unmoved
    <3>3. /\ Cardinality(TeamsOf(g)) + Cardinality(Pending(g)')
                 <= Cardinality(TeamsOf(g)) + Cardinality(Pending(g))
          /\ Cardinality(TeamsOf(g)) + Cardinality(Pending(g)') \in Nat
      BY <2>1, <3>2, FewerPending
    <3> QED  BY <1>3, <2>1, <2>2, <3>1, <3>3
  <2>4. CASE stage[w] = "add" /\ (AddTeam(w) \/ CommitInDoubt(w))
    <3> DEFINE m == req[w].teams[done[w] + 1]
               p == <<w, done[w] + 1>>
    <3>1. /\ groupTeams' = groupTeams \cup {<<req[w].gid, m>>} /\ m \in Teams
          /\ req[w].gid \in GroupIds /\ done[w] \in Nat
          /\ done[w] + 1 \in 1 .. Len(req[w].teams)
      BY <2>4, NextTeamTyped DEF AddTeam, CommitInDoubt, StoreTeam
    <3>2. /\ req'[w] = req[w]
          /\ stage'[w] \in Checked => done'[w] = done[w] + 1
      BY <1>1, <2>4 DEF AddTeam, CommitInDoubt, Answer, LocalsTyped, Checked
    <3>3. CASE req[w].gid = g
      <4>1. TeamsOf(g)' = TeamsOf(g) \cup {m}
        BY <3>1, <3>3 DEF TeamsOf
      <4>2. p \in Pending(g)
        BY <2>4, <3>1, <3>3 DEF Pending, Checked
      <4>3. Pending(g)' \subseteq Pending(g) \ {p}
        <5> SUFFICES ASSUME NEW q \in Pending(g)'
                     PROVE  q \in Pending(g) /\ q # p
          OBVIOUS
        <5>1. q \in Workers \X Nat /\ stage'[q[1]] \in Checked
              /\ req'[q[1]].gid = g /\ done'[q[1]] < q[2]
              /\ q[2] <= Len(req'[q[1]].teams)
          BY DEF Pending
        <5>2. CASE q[1] = w
          BY <2>4, <3>1, <3>2, <3>3, <5>1, <5>2 DEF Pending, Checked
        <5>3. CASE q[1] # w
          BY <1>1, <5>1, <5>3 DEF Pending, Unmoved
        <5> QED  BY <5>2, <5>3
      <4> HIDE DEF m, p
      <4>4. /\ Cardinality(TeamsOf(g) \cup {m}) + Cardinality(Pending(g)')
                   <= Cardinality(TeamsOf(g)) + Cardinality(Pending(g))
            /\ Cardinality(TeamsOf(g) \cup {m}) + Cardinality(Pending(g)') \in Nat
        BY <2>1, <4>2, <4>3, PendingStored
      <4> QED  BY <1>3, <2>1, <2>2, <4>1, <4>4
    <3>4. CASE req[w].gid # g
      <4>1. TeamsOf(g)' = TeamsOf(g)
        BY <3>1, <3>4 DEF TeamsOf
      <4>2. Pending(g)' \subseteq Pending(g)
        BY <1>1, <3>2, <3>4 DEF Pending, Unmoved
      <4>3. /\ Cardinality(TeamsOf(g)) + Cardinality(Pending(g)')
                   <= Cardinality(TeamsOf(g)) + Cardinality(Pending(g))
            /\ Cardinality(TeamsOf(g)) + Cardinality(Pending(g)') \in Nat
        BY <2>1, <4>2, FewerPending
      <4> QED  BY <1>3, <2>1, <2>2, <4>1, <4>3
    <3> QED  BY <3>3, <3>4
  <2>5. ASSUME UNCHANGED groupTeams, req'[w].gid = g, done'[w] = 0,
               NEW k \in Nat, Len(req'[w].teams) = k,
               Cardinality(TeamsOf(g)) + k <= M
        PROVE  Cardinality(TeamsOf(g)') + Cardinality(Pending(g)') <= bound
    <3>1. TeamsOf(g)' = TeamsOf(g)
      BY <2>5 DEF TeamsOf
    <3>2. Pending(g)' \subseteq ((Workers \ {w}) \X (1 .. M)) \cup ({w} \X (1 .. k))
      <4> SUFFICES ASSUME NEW q \in Pending(g)'
                   PROVE  \/ q \in (Workers \ {w}) \X (1 .. M)
                          \/ q \in {w} \X (1 .. k)
        OBVIOUS
      <4>1. q \in Workers \X Nat /\ stage'[q[1]] \in Checked
            /\ req'[q[1]].gid = g /\ done'[q[1]] < q[2]
            /\ q[2] <= Len(req'[q[1]].teams)
        BY DEF Pending
      <4>2. CASE q[1] = w
        BY <2>5, <4>1, <4>2
      <4>3. CASE q[1] # w
        <5>1. q \in Pending(g)
          BY <1>1, <4>1, <4>3 DEF Pending, Unmoved
        <5> QED  BY <2>1, <4>3, <5>1
      <4> QED  BY <4>2, <4>3
    <3> QED  BY <2>2, <2>5, <3>1, <3>2, RoomToEnter DEF bound
  <2>6. CASE CountTeams(w) /\ Goto(w, "check")
    <3>1. fmt[w] \in Limits /\ IsFiniteSet(TeamsOf(req[w].gid))
      BY <2>6 DEF Room, CountTeams, IInv, WorkerOK, Staged, Adds
    <3>2. /\ req'[w] = req[w] /\ done'[w] = 0
          /\ Len(req[w].teams) \in Nat /\ Cardinality(TeamsOf(req[w].gid)) \in Nat
          /\ Cardinality(TeamsOf(req[w].gid)) + Len(req[w].teams) <= M
      BY <1>1, <2>6, <3>1, CountFacts DEF LocalsTyped
    <3>3. UNCHANGED groupTeams
      BY <2>6 DEF CountTeams, tables
    <3> QED  BY <2>3, <2>5, <3>2, <3>3
  <2>7. CASE InsertGroup(w) /\ Goto(w, "announce")
    <3>1. /\ done'[w] = 0 /\ Len(req'[w].teams) \in Nat /\ Len(req'[w].teams) <= M
          /\ groups[req'[w].gid] = NoRow /\ UNCHANGED groupTeams
      BY <1>2, <2>7, InsertFacts DEF Fits, Checked
    <3>2. req'[w].gid = g => Cardinality(TeamsOf(g)) = 0
      BY <3>1, FS_EmptySet DEF Room
    <3> QED  BY <2>3, <2>5, <3>1, <3>2
  <2> QED
    BY <2>3, <2>4, <2>6, <2>7, StepKinds DEF AddTeam
<1> QED  BY <1>2, <1>4 DEF RoomFor, bound

LEMMA NextRoom == ASSUME IInv, Room, [Next]_vars PROVE Room'
<1> USE LimitFacts
<1>1. ASSUME NEW w \in Workers, Accept(w) \/ Serve(w), ~Dies PROVE Room'
  <2>1. \A v \in Workers : fmt'[v] \in Limits
    BY <1>1, StepFrame, FmtKept DEF Room, Unmoved
  <2>2. UNCHANGED groupTeams \/
           \E m : /\ groupTeams' = groupTeams \cup {<<req[w].gid, m>>} /\ m \in Teams
                 /\ groups[req[w].gid] # NoRow
    <3>1. CASE AddTeam(w) \/ (stage[w] = "add" /\ CommitInDoubt(w))
      BY <3>1, NextTeamTyped, CheckedFacts
      DEF AddTeam, CommitInDoubt, StoreTeam, Checked
    <3> QED
      BY <1>1, <3>1, StepKinds DEF CountTeams, InsertGroup, tables
  <2>3. ASSUME NEW g \in GroupIds
        PROVE  IsFiniteSet(TeamsOf(g)') /\ (groups'[g] = NoRow => TeamsOf(g)' = {})
    <3>1. groups'[g] = NoRow => groups[g] = NoRow
      BY <1>1, RowsStored
    <3>2. CASE UNCHANGED groupTeams
      BY <3>1, <3>2 DEF TeamsOf, Room
    <3>3. ASSUME NEW m \in Teams, groups[req[w].gid] # NoRow,
                 groupTeams' = groupTeams \cup {<<req[w].gid, m>>}
          PROVE  IsFiniteSet(TeamsOf(g)') /\ (groups'[g] = NoRow => TeamsOf(g)' = {})
      <4>1. TeamsOf(g)' = IF req[w].gid = g THEN TeamsOf(g) \cup {m} ELSE TeamsOf(g)
        BY <3>3 DEF TeamsOf
      <4>2. IsFiniteSet(TeamsOf(g) \cup {m})
        BY FS_AddElement DEF Room
      <4> QED  BY <3>1, <3>3, <4>1, <4>2 DEF Room
    <3> QED  BY <2>2, <3>2, <3>3
  <2>4. ASSUME \A l \in Limits : l > 0, NEW M \in Nat, \A l \in Limits : l <= M
        PROVE  RoomFor(M)'
    BY <1>1, <2>4, RoomStep DEF Room
  <2> QED  BY <2>1, <2>3, <2>4 DEF Room, Limits
<1>2. CASE Dies
  <2>1. UNCHANGED <<groups, groupTeams>>
    BY <1>2 DEF Dies, GetGroup, tables
  <2>2. \A v \in Workers : fmt'[v] = DefaultMax /\ stage'[v] = "idle"
    BY <1>2 DEF Dies, Restart
  <2>3. \A g : TeamsOf(g)' = TeamsOf(g) /\ Pending(g)' = {}
    BY <2>1, <2>2 DEF TeamsOf, Pending, Checked
  <2>4. ASSUME NEW M \in Nat, RoomFor(M) PROVE RoomFor(M)'
    <3>1. \A v \in Workers : Fits(v, M)'
      BY <2>2 DEF Fits, Checked
    <3>2. ASSUME NEW g \in GroupIds
          PROVE  Cardinality(TeamsOf(g)) + Cardinality({}) <= Cardinality(Workers) * M
      <4>1. IsFiniteSet(TeamsOf(g)) /\ IsFiniteSet(Pending(g))
        BY <2>4, CheckedFacts, PendingFinite DEF Room, RoomFor
      <4>2. /\ Cardinality(TeamsOf(g)) + Cardinality({})
                   <= Cardinality(TeamsOf(g)) + Cardinality(Pending(g))
            /\ Cardinality(TeamsOf(g)) + Cardinality({}) \in Nat
        BY <4>1, FewerPending
      <4>3. /\ Cardinality(TeamsOf(g)) + Cardinality(Pending(g))
                   <= Cardinality(Workers) * M
            /\ Cardinality(TeamsOf(g)) \in Nat /\ Cardinality(Pending(g)) \in Nat
            /\ Cardinality(Workers) \in Nat
        BY <2>4, <4>1, FS_CardinalityType, WorkersAssumption DEF RoomFor
      <4> QED  BY <4>2, <4>3
    <3> QED  BY <2>3, <3>1, <3>2 DEF RoomFor
  <2> QED  BY <2>1, <2>2, <2>3, <2>4 DEF Room, Limits
<1>3. CASE UNCHANGED <<groups, groupTeams, req, locals>>
  <2>1. \A g : TeamsOf(g)' = TeamsOf(g) /\ Pending(g)' = Pending(g)
    BY <1>3 DEF TeamsOf, Pending, locals
  <2>2. \A M : RoomFor(M) => RoomFor(M)'
    BY <1>3, <2>1 DEF RoomFor, Fits, locals
  <2> QED  BY <1>3, <2>1, <2>2 DEF Room, Limits, locals
<1> QED
  BY <1>1, <1>2, <1>3 DEF Next, UpdateTournament, vars, tables

LEMMA InitRoom == Init => Room
<1> SUFFICES ASSUME Init PROVE Room
  OBVIOUS
<1>1. \A g : TeamsOf(g) = {} /\ Pending(g) = {}
  BY DEF Init, TeamsOf, Pending, Checked
<1>2. \A w \in Workers : fmt[w] \in Limits
  BY LimitFacts DEF Init
<1>3. ASSUME NEW M \in Nat PROVE RoomFor(M)
  <2>1. \A w \in Workers : Fits(w, M)
    BY DEF Init, Fits, Checked
  <2>2. Cardinality({}) + Cardinality({}) <= Cardinality(Workers) * M
    <3>1. Cardinality({}) = 0 /\ Cardinality(Workers) \in Nat
      BY FS_EmptySet, FS_CardinalityType, WorkersAssumption
    <3> QED  BY <3>1
  <2> QED  BY <1>1, <2>1, <2>2 DEF RoomFor
<1>4. IsFiniteSet({}) /\ groupTeams = {}
  BY FS_EmptySet DEF Init
<1> QED  BY <1>1, <1>2, <1>3, <1>4 DEF Room

\* Positive limits with an upper bound have a largest one.
LEMMA LargestLimit ==
    ASSUME \A l \in Limits : l > 0, NEW b \in Nat, \A l \in Limits : l <= b
    PROVE  \E M \in Limits : M \in Nat /\ \A l \in Limits : l <= M
<1> DEFINE Bounds == {k \in Nat : \A l \in Limits : l <= k}
<1>1. PICK k \in Bounds : \A j \in Bounds : <<j, k>> \notin OpToRel(<, Nat)
  <2>1. Bounds \subseteq Nat /\ Bounds # {}
    OBVIOUS
  <2> HIDE DEF Bounds
  <2> QED  BY <2>1, NatLessThanWellFounded, WFMin
<1>2. \A j \in Bounds : ~(j < k)
  BY <1>1 DEF OpToRel
<1>3. CASE k \in Limits
  BY <1>3
<1>4. CASE k \notin Limits
  <2>1. DefaultMax \in Limits /\ DefaultMax <= k /\ DefaultMax > 0 /\ Limits \subseteq Int
    BY LimitFacts
  <2>2. k - 1 \in Bounds
    BY <1>4, <2>1
  <2> QED  BY <1>2, <2>2
<1> QED  BY <1>3, <1>4

\* However many workers check the limit before any of them inserts, no group takes
\* more teams than the number of workers times the largest limit.
THEOREM OvershootIsBounded == Spec => []OvershootBounded
<1>1. IInv /\ Room => OvershootBounded
  <2> SUFFICES ASSUME IInv, Room, \A l \in Limits : l > 0, NEW g \in GroupIds,
                      \A l \in Limits :
                         ~(Cardinality(TeamsOf(g)) <= Cardinality(Workers) * l)
               PROVE  FALSE
    BY DEF OvershootBounded, Limits
  <2> DEFINE m == Cardinality(Workers)
             c == Cardinality(TeamsOf(g))
  <2>1. m \in Nat /\ c \in Nat /\ Limits \subseteq Int /\ DefaultMax \in Limits
    BY LimitFacts, FS_CardinalityType, WorkersAssumption DEF Room
  <2>2. m # 0
    <3>1. m = 0 => Workers = {}
      BY FS_EmptySet, WorkersAssumption
    <3>2. Workers = {} => c = 0
      BY FS_EmptySet DEF Room, TeamsOf
    <3> QED  BY <2>1, <3>1, <3>2
  <2>3. \A l \in Limits : l <= c
    <3> SUFFICES ASSUME NEW l \in Limits PROVE l <= c
      OBVIOUS
    <3>1. m * l < c /\ l > 0 /\ l \in Int
      BY <2>1
    <3>2. l <= m * l
      BY <2>1, <2>2, <3>1
    <3> QED  BY <2>1, <3>1, <3>2
  <2>4. PICK M \in Limits : M \in Nat /\ \A l \in Limits : l <= M
    BY <2>1, <2>3, LargestLimit
  <2>5. RoomFor(M)
    BY <2>4 DEF Room
  <2>6. IsFiniteSet(Pending(g)) /\ c + Cardinality(Pending(g)) <= m * M
    BY <2>4, <2>5, CheckedFacts, PendingFinite DEF RoomFor
  <2>7. c <= m * M
    BY <2>1, <2>4, <2>6, FS_CardinalityType
  <2> QED  BY <2>4, <2>7
<1>2. IInv /\ Room /\ [Next]_vars => Room'
  BY NextRoom
<1> QED  BY <1>1, <1>2, InitRoom, Inductive, PTL DEF Spec
==============================================================================
