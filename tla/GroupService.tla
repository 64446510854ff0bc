----------------------------- MODULE GroupService -----------------------------
(***************************************************************************)
(* The group endpoints: GroupController, GroupDelegate and GroupRepository *)
(* as Crow's worker threads run them.  A request is a sequence of steps;   *)
(* each repository call is one step, because it is one transaction on its  *)
(* own connection, and nothing spans two of them.                          *)
(***************************************************************************)
EXTENDS Integers, Sequences, FiniteSets

CONSTANTS
    Workers,            \* Crow's worker threads
    Tournaments,        \* tournament ids a URL or a body can carry
    StoredTournaments,  \* those with a row in TOURNAMENTS
    MaxTeams,           \* format.maxTeamsPerGroup of each stored tournament
    DefaultMax,         \* the same, of a default TournamentFormat
    GroupIds,           \* ids that GROUPS.id can take
    Names,              \* group names
    Teams,              \* team ids a body can carry
    StoredTeams,        \* those with a row in TEAMS
    Batches,            \* lists of teams a body can carry
    HasTournamentRepo,  \* which of the delegate's nullable collaborators
    HasTeamRepo,        \*   were injected
    HasEventBus,
    Decorated,          \* the controller talks to an EventingGroupDelegate
    FormatsChange,      \* tournaments are updated while groups are served
    StrayGets,          \* a GET may name a group that its tournament lacks
    DatabaseFails,      \* a repository call may fail for reasons of its own
    CommitsInDoubt,     \* a commit may throw after the server has applied it
    NoRow,              \* no group has this id
    NoRequest           \* the worker is idle

ASSUME TournamentsAssumption ==
    /\ StoredTournaments \subseteq Tournaments
    /\ MaxTeams \in [StoredTournaments -> Int]
    /\ DefaultMax \in Int

\* main() starts "concurrency" many threads, and no more later.
ASSUME WorkersAssumption == IsFiniteSet(Workers)

\* The unique index leaves an id for every group that can be inserted.
ASSUME IdsAssumption ==
    Cardinality(GroupIds) >= Cardinality(StoredTournaments) * Cardinality(Names)

ASSUME TeamsAssumption ==
    /\ StoredTeams \subseteq Teams
    /\ Batches \subseteq Seq(Teams)

ASSUME WiringAssumption ==
    /\ {HasTournamentRepo, HasTeamRepo, HasEventBus} \subseteq BOOLEAN
    /\ {Decorated, FormatsChange, StrayGets} \subseteq BOOLEAN
    /\ {DatabaseFails, CommitsInDoubt} \subseteq BOOLEAN

\* A group's row; its teams are rows of group_teams.
Row == [tournament : Tournaments, name : Names]

ASSUME NoRowAssumption == NoRow \notin Row

\* "tid" and "gid" come from the URL, the rest from the body.  A create has no
\* gid until its row is inserted; its body may ask for an id of its own.
NoGroup == "no group"
CreatesOf(gids) ==
    [op : {"create"}, tid : Tournaments, body : Tournaments,
     id : GroupIds \cup {NoGroup}, gid : gids, name : Names, teams : Batches]
Creates == CreatesOf({NoGroup})
Adds    == [op : {"add"}, tid : Tournaments, gid : GroupIds, teams : Batches]
Updates == [op : {"update"}, tid : Tournaments, gid : GroupIds, name : Names]
Gets    == [op : {"get"}, tid : Tournaments, gid : GroupIds]
Requests == CreatesOf(GroupIds \cup {NoGroup}) \cup Adds \cup Updates \cup Gets

ASSUME NoRequestAssumption == NoRequest \notin Requests

VARIABLES
    groups,      \* GROUPS: groups[id] is a Row, or NoRow
    groupTeams,  \* group_teams: pairs <<group id, team id>>
    defaulted,   \* the tournaments an update has made default ones
    published,   \* the events given to the bus
    req,         \* req[w]: the request w is serving, or NoRequest
    stage,       \* stage[w]: the next step of that request
    fmt,         \* fmt[w]: maxTeamsPerGroup of the format it has read
    done,        \* done[w]: how many of its teams have been stored
    reply        \* reply[w]: what the delegate returned, "none" before that

locals == <<stage, fmt, done, reply>>
tables == <<groups, groupTeams, defaulted>>
vars == <<tables, published, req, locals>>

Stages ==
    {"idle", "format", "insert", "announce", "find", "count", "check",
     "add", "publish", "relay", "update", "get", "replied"}

\* "unique_violation" and "database_error" are exceptions that nobody catches.
Errors ==
    {"tournament_not_found", "group_limit_reached", "group_not_found",
     "group_full", "team_not_found"}
Replies == {"none", "ok", "unique_violation", "database_error"} \cup Errors

Created(tid, gid)      == [topic |-> "group.created", tid |-> tid, gid |-> gid]
TeamAdded(tid, gid, m) ==
    [topic |-> "group.team_added", tid |-> tid, gid |-> gid, team |-> m]
Relayed(tid, gid, m) ==
    [topic |-> "team_added_to_group", tid |-> tid, gid |-> gid, team |-> m]

TeamsOf(g) == {m \in Teams : <<g, m>> \in groupTeams}

\* The limit of a tournament now, as the delegate would read it.
Limit(tid) ==
    IF HasTournamentRepo /\ tid \notin defaulted THEN MaxTeams[tid]
                                                 ELSE DefaultMax

GroupInTournament(tid, g) == groups[g] # NoRow /\ groups[g].tournament = tid

NameTaken(tid, name, others) ==
    \E g \in others : groups[g] = [tournament |-> tid, name |-> name]

Init ==
    /\ groups = [g \in GroupIds |-> NoRow]
    /\ groupTeams = {}
    /\ defaulted = {}
    /\ published = {}
    /\ req = [w \in Workers |-> NoRequest]
    /\ stage = [w \in Workers |-> "idle"]
    /\ fmt = [w \in Workers |-> DefaultMax]
    /\ done = [w \in Workers |-> 0]
    /\ reply = [w \in Workers |-> "none"]

Goto(w, s) == stage' = [stage EXCEPT ![w] = s] /\ UNCHANGED <<fmt, done, reply>>

Answer(w, r) ==
    /\ stage' = [stage EXCEPT ![w] = "replied"]
    /\ reply' = [reply EXCEPT ![w] = r]
    /\ fmt' = [fmt EXCEPT ![w] = DefaultMax]
    /\ UNCHANGED done

\* The delegate has stored every team.  EventingGroupDelegate overrides only
\* UpdateTeams.
Finish(w) ==
    IF Decorated /\ req[w].op = "add" THEN Goto(w, "relay") ELSE Answer(w, "ok")

\* Mutants of NextTeam: the loop ends one team early; it repeats the checks from
\* the second team on.
NextTeamStopsEarly(w, n) ==
    IF n + 1 < Len(req[w].teams) THEN Goto(w, "add") ELSE Finish(w)
NextTeamChecksLater(w, n) ==
    IF n < Len(req[w].teams)
    THEN Goto(w, IF n = 0 THEN "add" ELSE "count") ELSE Finish(w)

\* The loop over the teams of the request, when n of them are stored.
NextTeam(w, n) ==
    IF n < Len(req[w].teams) THEN Goto(w, "add") ELSE Finish(w)

Publish(event) ==
    published' = IF HasEventBus THEN published \cup {event} ELSE published

------------------------------------------------------------------------------

\* A well-formed request reaches its handler.
Receive(w, r, s) ==
    /\ stage[w] = "idle"
    /\ req' = [req EXCEPT ![w] = r]
    /\ Goto(w, s)
    /\ UNCHANGED <<tables, published>>

ReceiveCreate(w) == \E r \in Creates : Receive(w, r, "format")
ReceiveAdd(w)    == \E r \in Adds : Receive(w, r, "format")
ReceiveUpdate(w) == \E r \in Updates : Receive(w, r, "update")
ReceiveGet(w)    ==
    \E r \in Gets :
        /\ StrayGets \/ GroupInTournament(r.tid, r.gid)
        /\ Receive(w, r, "get")

\* get_format_or_err, and what each of the two delegate methods does next.
UnknownTournament(w) ==
    HasTournamentRepo /\ req[w].tid \notin StoredTournaments

\* Mutant of TooManyPreloaded: a create is not checked.
PreloadedUnchecked(w) == FALSE

TooManyPreloaded(w) ==
    /\ req[w].op = "create"
    /\ req[w].teams # <<>>
    /\ Limit(req[w].tid) > 0
    /\ Len(req[w].teams) > Limit(req[w].tid)

ReadFormat(w) ==
    /\ stage[w] = "format"
    /\ \/ UnknownTournament(w) /\ Answer(w, "tournament_not_found")
       \/ /\ ~UnknownTournament(w)
          /\ TooManyPreloaded(w)
          /\ Answer(w, "group_limit_reached")
       \/ /\ ~UnknownTournament(w)
          /\ ~TooManyPreloaded(w)
          /\ fmt' = [fmt EXCEPT ![w] = Limit(req[w].tid)]
          /\ stage' = [stage EXCEPT ![w] =
                          IF req[w].op = "create" THEN "insert" ELSE "find"]
          /\ UNCHANGED <<done, reply>>
    /\ UNCHANGED <<tables, published, req>>

------------------------------------------------------------------------------
\* CreateGroup

\* The row gets the id of the body, or else one the database makes up.
StoreGroup(w, g) ==
    /\ groups[g] = NoRow
    /\ req[w].id \in {NoGroup, g}
    /\ groups' = [groups EXCEPT ![g] =
                     [tournament |-> req[w].body, name |-> req[w].name]]

\* The foreign key, the unique index on (tournament, name) and the primary key
\* accept the row.
InsertAccepted(w) ==
    /\ req[w].body \in StoredTournaments
    /\ ~NameTaken(req[w].body, req[w].name, GroupIds)
    /\ req[w].id # NoGroup => groups[req[w].id] = NoRow

\* The INSERT, with the tournament id of the body; whatever the constraints
\* refuse is thrown.
InsertGroup(w) ==
    /\ stage[w] = "insert"
    /\ \/ /\ InsertAccepted(w)
          /\ \E g \in GroupIds :
                StoreGroup(w, g) /\ req' = [req EXCEPT ![w].gid = g]
          /\ Goto(w, "announce")
       \/ /\ ~InsertAccepted(w)
          /\ Answer(w, IF req[w].body \in StoredTournaments
                       THEN "unique_violation" ELSE "database_error")
          /\ UNCHANGED <<groups, req>>
    /\ UNCHANGED <<groupTeams, defaulted, published>>

AnnounceGroup(w) ==
    /\ stage[w] = "announce"
    /\ Publish(Created(req[w].tid, req[w].gid))
    /\ NextTeam(w, 0)
    /\ UNCHANGED <<tables, req>>

------------------------------------------------------------------------------
\* UpdateTeams, which AddTeam calls with a single team

FindGroup(w) ==
    /\ stage[w] = "find"
    /\ IF GroupInTournament(req[w].tid, req[w].gid)
       THEN Goto(w, "count")
       ELSE Answer(w, "group_not_found")
    /\ UNCHANGED <<tables, published, req>>

\* Mutant of TeamsAfter: only the batch is compared with the limit.
BatchAlone(w) == Len(req[w].teams)

TeamsAfter(w) == Cardinality(TeamsOf(req[w].gid)) + Len(req[w].teams)

\* No count is taken when the format sets no limit.
CountTeams(w) ==
    /\ stage[w] = "count"
    /\ IF fmt[w] > 0 /\ TeamsAfter(w) > fmt[w]
       THEN Answer(w, "group_full")
       ELSE Goto(w, "check")
    /\ UNCHANGED <<tables, published, req>>

\* Rows of TEAMS are never deleted, so the reads of the loop are one step.  A
\* repository that has no such team returns null; TeamRepository itself throws,
\* as in DatabaseError.
CheckTeams(w) ==
    /\ stage[w] = "check"
    /\ LET teams == req[w].teams IN
       IF HasTeamRepo /\ \E i \in DOMAIN teams : teams[i] \notin StoredTeams
       THEN Answer(w, "team_not_found")
       ELSE NextTeam(w, 0)
    /\ UNCHANGED <<tables, published, req>>

------------------------------------------------------------------------------
\* The loop both methods end with

\* Mutants of StoreTeam: the transaction is never committed; the arguments of
\* the INSERT are swapped.
StoreTeamUncommitted(w) == UNCHANGED groupTeams
StoreTeamSwapped(w) ==
    groupTeams' = groupTeams \cup {<<req[w].teams[done[w] + 1], req[w].gid>>}

\* INSERT INTO group_teams ... ON CONFLICT DO NOTHING
StoreTeam(w) ==
    groupTeams' = groupTeams \cup {<<req[w].gid, req[w].teams[done[w] + 1]>>}

AddTeam(w) ==
    /\ stage[w] = "add"
    /\ StoreTeam(w)
    /\ done' = [done EXCEPT ![w] = @ + 1]
    /\ stage' = [stage EXCEPT ![w] = "publish"]
    /\ UNCHANGED <<groups, defaulted, published, req, fmt, reply>>

\* Mutant of AnnounceTeam: one event per request, for its last team.
AnnounceLastTeam(w) ==
    IF done[w] = Len(req[w].teams)
    THEN Publish(TeamAdded(req[w].tid, req[w].gid, req[w].teams[done[w]]))
    ELSE UNCHANGED published

AnnounceTeam(w) ==
    Publish(TeamAdded(req[w].tid, req[w].gid, req[w].teams[done[w]]))

PublishTeam(w) ==
    /\ stage[w] = "publish"
    /\ AnnounceTeam(w)
    /\ NextTeam(w, done[w])
    /\ UNCHANGED <<tables, req>>

\* EventingGroupDelegate, once the delegate it decorates has succeeded: an event
\* for every team of the request, those that were in the group before included.
Relay(w) ==
    /\ stage[w] = "relay"
    /\ published' = published \cup
           {Relayed(req[w].tid, req[w].gid, req[w].teams[i]) :
               i \in DOMAIN req[w].teams}
    /\ Answer(w, "ok")
    /\ UNCHANGED <<tables, req>>

------------------------------------------------------------------------------
\* UpdateGroup and GetGroup

UpdateAccepted(w) ==
    LET r == req[w] IN
    /\ groups[r.gid] # NoRow
    /\ r.tid \in StoredTournaments
    /\ ~NameTaken(r.tid, r.name, GroupIds \ {r.gid})

\* UPDATE groups SET name, tournament_id, document WHERE id: the tournament of
\* the URL is written, not looked for.
StoreUpdate(w) ==
    groups' = [groups EXCEPT ![req[w].gid] =
                  [tournament |-> req[w].tid, name |-> req[w].name]]

UpdateGroup(w) ==
    /\ stage[w] = "update"
    /\ \/ UpdateAccepted(w) /\ StoreUpdate(w) /\ Answer(w, "ok")
       \/ /\ groups[req[w].gid] = NoRow
          /\ Answer(w, "group_not_found")
          /\ UNCHANGED groups
       \/ /\ ~UpdateAccepted(w)
          /\ groups[req[w].gid] # NoRow
          /\ Answer(w, IF req[w].tid \in StoredTournaments
                       THEN "unique_violation" ELSE "database_error")
          /\ UNCHANGED groups
    /\ UNCHANGED <<groupTeams, defaulted, published, req>>

\* The process dies, and every request it was serving with it; then it is
\* started again.  Only what the database and the bus have is left.
Restart ==
    /\ req' = [v \in Workers |-> NoRequest]
    /\ stage' = [v \in Workers |-> "idle"]
    /\ fmt' = [v \in Workers |-> DefaultMax]
    /\ done' = [v \in Workers |-> 0]
    /\ reply' = [v \in Workers |-> "none"]

\* GetGroup of the repository reports no error for a group it did not find, and
\* the controller dereferences the null pointer it was given.
GetGroup(w) ==
    /\ stage[w] = "get"
    /\ IF GroupInTournament(req[w].tid, req[w].gid)
       THEN Answer(w, "ok") /\ UNCHANGED req
       ELSE Restart
    /\ UNCHANGED <<tables, published>>

------------------------------------------------------------------------------

\* PATCH /tournaments/<id>, by whichever thread: the stored document becomes
\* that of a default Tournament.  The unique index on its name, which is empty,
\* lets only one row be so.
UpdateTournament(t) ==
    /\ FormatsChange
    /\ defaulted \subseteq {t}
    /\ defaulted' = {t}
    /\ UNCHANGED <<groups, groupTeams, published, req, locals>>

\* The stages that call a repository.
UsesDatabase(w) ==
    \/ stage[w] \in {"insert", "find", "add", "update", "get"}
    \/ stage[w] = "format" /\ HasTournamentRepo
    \/ stage[w] = "count" /\ fmt[w] > 0
    \/ stage[w] = "check" /\ HasTeamRepo /\ req[w].teams # <<>>

\* A connection breaks, a statement times out: the transaction is rolled back
\* and the exception leaves the handler.
DatabaseError(w) ==
    /\ DatabaseFails
    /\ UsesDatabase(w)
    /\ Answer(w, "database_error")
    /\ UNCHANGED <<tables, published, req>>

\* The connection breaks while the server commits: the row is there, but the
\* handler ends with an exception all the same.
CommitInDoubt(w) ==
    /\ CommitsInDoubt
    /\ \/ /\ stage[w] = "insert"
          /\ InsertAccepted(w)
          /\ \E g \in GroupIds : StoreGroup(w, g)
          /\ UNCHANGED groupTeams
       \/ /\ stage[w] = "add"
          /\ StoreTeam(w)
          /\ UNCHANGED groups
       \/ /\ stage[w] = "update"
          /\ UpdateAccepted(w)
          /\ StoreUpdate(w)
          /\ UNCHANGED groupTeams
    /\ Answer(w, "database_error")
    /\ UNCHANGED <<defaulted, published, req>>

\* Crow sends the response and the worker is free.
Respond(w) ==
    /\ stage[w] = "replied"
    /\ req' = [req EXCEPT ![w] = NoRequest]
    /\ stage' = [stage EXCEPT ![w] = "idle"]
    /\ done' = [done EXCEPT ![w] = 0]
    /\ reply' = [reply EXCEPT ![w] = "none"]
    /\ UNCHANGED <<tables, published, fmt>>

Accept(w) == ReceiveCreate(w) \/ ReceiveAdd(w) \/ ReceiveUpdate(w) \/ ReceiveGet(w)

Serve(w) ==
    \/ ReadFormat(w) \/ InsertGroup(w) \/ AnnounceGroup(w)
    \/ FindGroup(w) \/ CountTeams(w) \/ CheckTeams(w)
    \/ AddTeam(w) \/ PublishTeam(w) \/ Relay(w)
    \/ UpdateGroup(w) \/ GetGroup(w)
    \/ DatabaseError(w) \/ CommitInDoubt(w) \/ Respond(w)

Next ==
    \/ \E w \in Workers : Accept(w) \/ Serve(w)
    \/ \E t \in StoredTournaments : UpdateTournament(t)

Spec == Init /\ [][Next]_vars

\* A handler that is about to publish goes on, for this waits for nothing but its
\* thread.  A repository call waits for a connection, and the pool promises none to
\* any caller in particular.  No client has to send anything.
FairSpec ==
    Spec /\ \A w \in Workers : WF_vars(AnnounceGroup(w)) /\ WF_vars(PublishTeam(w))
------------------------------------------------------------------------------

\* Types, and an idle worker keeps nothing of its last request.
TypeOK ==
    /\ groups \in [GroupIds -> Row \cup {NoRow}]
    /\ groupTeams \subseteq GroupIds \X Teams
    /\ defaulted \subseteq StoredTournaments
    /\ \A e \in published :
          \/ e \in [topic : {"group.created"}, tid : Tournaments, gid : GroupIds]
          \/ e \in [topic : {"group.team_added", "team_added_to_group"},
                   tid : Tournaments, gid : GroupIds, team : Teams]
    /\ req \in [Workers -> Requests \cup {NoRequest}]
    /\ stage \in [Workers -> Stages]
    /\ reply \in [Workers -> Replies]
    /\ fmt \in [Workers -> Int]
    /\ done \in [Workers -> Nat]
    /\ \A w \in Workers :
          /\ (req[w] = NoRequest) <=> (stage[w] = "idle")
          /\ stage[w] \in {"idle", "replied"} => fmt[w] = DefaultMax
          /\ done[w] > 0 =>
                /\ stage[w] # "idle"
                /\ req[w].op \in {"create", "add"}
                /\ done[w] <= Len(req[w].teams)

\* A request refused with one of the delegate's error strings changed nothing:
\* all its checks, three of them on other tables, come before its first write.
ErrorsWriteNothing ==
    \A w \in Workers :
        reply[w] \in Errors =>
            done[w] = 0 /\ (req[w].op = "create" => req[w].gid = NoGroup)

\* A request that stored teams and was answered with success has all of them in
\* the group, and has announced each of them on every bus there is, and the
\* group it created.
SuccessIsComplete ==
    \A w \in Workers :
        reply[w] = "ok" /\ req[w].op \in {"create", "add"} =>
            LET r == req[w] IN
            /\ \A i \in DOMAIN r.teams :
                  /\ <<r.gid, r.teams[i]>> \in groupTeams
                  /\ HasEventBus => TeamAdded(r.tid, r.gid, r.teams[i]) \in published
                  /\ Decorated /\ r.op = "add" =>
                        Relayed(r.tid, r.gid, r.teams[i]) \in published
            /\ r.op = "create" /\ HasEventBus => Created(r.tid, r.gid) \in published

\* No team enters a group silently: whoever stored it has announced it or is
\* about to, even when the rest of the batch fails.
RowsAnnounced ==
    HasEventBus =>
        \A g \in GroupIds : \A m \in TeamsOf(g) :
            \/ \E tid \in Tournaments : TeamAdded(tid, g, m) \in published
            \/ \E w \in Workers :
                  /\ stage[w] = "publish"
                  /\ req[w].gid = g
                  /\ req[w].teams[done[w]] = m

\* An event never runs ahead of the tables, whatever fails afterwards: its group
\* exists, and the team it announces is in the group.
EventsHaveRows ==
    \A e \in published :
        /\ groups[e.gid] # NoRow
        /\ e.topic # "group.created" => <<e.gid, e.team>> \in groupTeams

\* No group has more teams than its tournament's format allows.
LimitRespected ==
    \A g \in GroupIds :
        groups[g] # NoRow =>
            LET limit == Limit(groups[g].tournament)
            IN  limit > 0 => Cardinality(TeamsOf(g)) <= limit

\* What is left of LimitRespected when several workers count before any of them
\* inserts, when a format is replaced between the moment it is read and the moment
\* it is compared, and when groups are stored in another tournament than the one that
\* was looked up: each worker can add one full group, by the largest limit that was
\* ever in force.
OvershootBounded ==
    LET limits == {MaxTeams[t] : t \in StoredTournaments} \cup {DefaultMax} IN
    (\A limit \in limits : limit > 0) =>
        \A g \in GroupIds : \E limit \in limits :
            Cardinality(TeamsOf(g)) <= Cardinality(Workers) * limit

\* What the tables and the events tell: rows and the events about them.
Roster == INSTANCE GroupRoster WITH
    Groups <- GroupIds,
    founded <- {g \in GroupIds : groups[g] # NoRow},
    members <- groupTeams,
    heralded <- {e.gid : e \in {f \in published : f.topic = "group.created"}},
    announced <- {<<e.gid, e.team>> :
                     e \in {f \in published : f.topic = "group.team_added"}}

\* The endpoints keep the promise of GroupRoster, with batches that fail in the
\* middle: a group is announced by the request that stored it, and so is each team,
\* unless it was before.
ImplementsRoster == Roster!LiveSpec
==============================================================================
