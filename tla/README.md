# A TLA+ model of the round-robin tournament service

This directory specifies and verifies the C++ service in `src/`: an HTTP API
(Crow) over PostgreSQL (libpqxx) and ActiveMQ that manages teams, tournaments
and their groups, and generates round-robin fixtures. Paths below are relative
to `src/`; `services/` stands for `tournament_services/` and `common/` for
`tournament_common/`. `PROJECT.json` lists the runs, the theorems, the findings
and, for every definition, the lines it models.

## 1. Inventory

### Components

| component | state it keeps | operations | talks to |
|---|---|---|---|
| Connection pool (`common/.../PostgresConnectionProvider.hpp`) | a queue of connections, a mutex, a condition variable | `Connection()`, the deleter of `PooledConnection` | called by every repository on every worker thread |
| Group endpoints (`GroupController`, `GroupDelegate`) | none of their own | create, list, get, rename a group; add one team or a batch | group, tournament and team repositories; event bus |
| Group repository (`GroupRepository`) | tables `GROUPS`, `group_teams` | one transaction per call | pool |
| Tournament endpoints (`TournamentController`, `TournamentDelegate`, `TournamentRepository`) | table `TOURNAMENTS` | create, read, update | pool; queue producer (`tournament.created`) |
| Team endpoints (`TeamController`, `TeamDelegate`, `TeamRepository`) | table `TEAMS` | create, update, read (no route is registered) | pool |
| Queue producer, resolver, `ConnectionManager` | a broker connection | `SendMessage` (not persistent) | ActiveMQ |
| Queue consumer (`common/include/cms/QueueMessageConsumer.hpp`) | `running`, a session, a thread | `Start`, `Stop`, the receive loop | ActiveMQ |
| `TeamAddedConsumer` | none | on `group.team_added`: count, and if full publish `matches.created` | group repository, publisher |
| `EventingGroupDelegate`, `NullEventBus` | none | decorate `UpdateTeams` with events | nothing instantiates them |
| Fixture generators (`RoundRobinMatchGenerator`, `RoundRobinGenerator::Generate`, `::GenerateSingleRound`) | none (pure) | teams to pairs or matches | – |
| `StandingsCalculator`, `KnockoutBracketBuilder` | none (pure) | matches to a table; eight ids to a bracket | – |
| Wiring (`ContainerSetup.hpp`, `RouteDefinition.hpp`, `main.cpp`) | – | builds the objects once | – |

`ContainerSetup.hpp` registers neither `ITournamentRepository` nor
`ITeamRepository` nor `IEventBus`, so which collaborators a `GroupDelegate` has
depends on the constructor the container picks. The delegate accepts null for
each of them; `GroupService` has them as constants.

### Which behaviours are hard

- **Threads.** `configuration.json` runs 4 HTTP workers over 2 connections.
  Every repository call may block on the pool, and the pool's queue is touched
  from deleters on any thread. What goes wrong here - a lost wake-up, a leaked
  connection, an open transaction on a returned one - no unit test shows.
- **Transactions are per call.** A group request makes several repository calls,
  each its own transaction on its own connection. Between any two of them other
  requests run and errors strike: check-then-insert on the limit, a batch stored
  in part, an event published or lost between two writes.
- **A null pointer takes every request with it.** A GET for a group that is not
  there ends the process, whatever its other workers were in the middle of.
- **Two sources of one id.** URL and body both carry tournament ids.
- **Arithmetic of the circle method.** Mirror index, rotation around a fixed
  slot, the bye of an odd list, parity of the round - three implementations.
- **Messages.** The producer sends non-persistently after the commit, the
  consumer counts when the event arrives: loss, duplication and reordering.

`PROJECT.json` lists each hazard at its line with the properties that cover it.

## 2. Modules

| module | what it is |
|---|---|
| `ConnectionLease` | abstract: atomic loans of connections, and progress |
| `ConnectionPool` | `PostgresConnectionProvider` with its mutex, condition variable and queue, and the transaction every repository call runs |
| `ConnectionPoolProofs` | theorems about `ConnectionPool` |
| `GroupRoster` | abstract: groups are founded and teams join them; all of it is announced in the end, and nothing else |
| `GroupService` | the group endpoints from route to reply, with or without `EventingGroupDelegate`, on the tables and the bus |
| `GroupServiceProofs` | theorems about `GroupService` |
| `MatchScheduling` | `TeamAddedConsumer` behind the group endpoints |
| `MatchSchedulingProofs` | theorems about `MatchScheduling` |
| `TournamentService` | creating and updating tournaments: the table and the queue |
| `TournamentServiceProofs` | theorems about `TournamentService` |
| `TeamService` | creating and updating teams |
| `TeamServiceProofs` | theorems about `TeamService` |
| `CircleMethod` | `RoundRobinMatchGenerator::Generate` |
| `CircleMethodProofs` | theorems about `CircleMethod` |
| `RoundRobinGenerator` | `RoundRobinGenerator::Generate` |
| `SingleRound` | `RoundRobinGenerator::GenerateSingleRound` |
| `Standings` | `StandingsCalculator::Compute` and `KnockoutBracketBuilder::BuildTop8` on its table |
| `StandingsProofs` | theorems about `Standings` |
| `Fixtures` | composes the three generators on one input |
| `FixturesProofs` | theorems about the two functions of `RoundRobinGenerator` |
| `MC*` | the instances TLC checks |

### ConnectionPool

Threads move through control points `pc[t]`. A call of `Connection()` is
`Request` (enter), `Lock` (the `unique_lock`, at first or after a wake-up), then
`Wait` or `Take`. `wait()` with a predicate is a loop: a woken thread goes back
to `Lock` and looks again, whether `NotifyOne` or `SpuriousWakeup` woke it. The
condition variable is the set of threads at `"sleeping"`; releasing the mutex
and joining that set is one step, as the standard requires. The repository
operation is `BeginTx`, `Commit` or `Throw` and `Rollback` - the destructor of
`pqxx::work`, declared after the `PooledConnection` and so destroyed before it -
or `BeginFails`. The deleter is `LockToReturn`, `Push` (whose end releases the
`lock_guard`) and `NotifyOne`, outside the lock as in the code; `delete pc` is
not visible to others and belongs to it. Statements are not modelled: an
operation is a transaction that ends one way or the other.

`ConnectionPool!Lending` maps it to `ConnectionLease`: the free set is the range
of the queue, the threads that want are those in `Connection()`, what they hold
is their lease.

### GroupService

Each worker serves one request at a time; `stage[w]` is its next step. A
repository call is one step because it is one transaction; what the delegate
computes between two calls belongs to the earlier one. The routes map to
`Receive*`; `ReadFormat` is `get_format_or_err` with what follows it in each
method, then `InsertGroup`, `AnnounceGroup` for a create, `FindGroup`,
`CountTeams`, `CheckTeams` for an addition, and for both the loop `AddTeam`,
`PublishTeam`. `UpdateGroup` and `GetGroup` are one call each. The tournament
ids of URL (`tid`) and body (`body`) are kept apart; a create may carry an id.
The constraints of `db_script.sql` (foreign key, unique name per tournament,
primary key) decide which inserts are accepted. `DatabaseError` is any failing
call; `CommitInDoubt` is the commit that the server applied and the client saw
fail (`pqxx::in_doubt_error`). Exceptions nobody catches are the replies
`unique_violation` and `database_error`.

`fmt[w]` is the limit that the worker read at the start. Meanwhile
`UpdateTournament` may replace the tournament (constant `FormatsChange`): the
PATCH stores a default tournament, so from then on the limit is `DefaultMax`.
Of the tournament endpoints this is all that the group endpoints can see.

With `Decorated` the controller talks to `EventingGroupDelegate`, which forwards
everything and, after a successful `UpdateTeams`, announces each team on a topic
of its own: the step `Relay`, reached through `Finish`.

`GetGroup` of a group that is not there dereferences a null pointer: `Restart`
ends all requests at once and keeps tables and events. The constant `StrayGets`
says whether clients send such a GET at all.

`GroupService!Roster` maps the module to `GroupRoster`: the founded groups are the
rows of `GROUPS`, the members those of `group_teams`; heralded and announced are
those of `group.created` and `group.team_added` events. A repeated batch announces
a team again, which is a stutter there. `FairSpec` asks only of the steps that
publish (`AnnounceGroup`, `PublishTeam`) that they are taken.

Abstractions: ids and names are model values; requests refused for their syntax
are not sent; teams are a constant table (the code never deletes one, and a row
more in it only lets more requests pass); reading all teams of a batch in
`CheckTeams` is one step for the same reason. The delegate answers
`team_not_found` to a repository that returns null; `TeamRepository` throws
instead, which `DatabaseError` covers. `group_teams`, which no script creates, is
taken to have the key that the code's `ON CONFLICT DO NOTHING` presupposes.
`published` is the set of events handed to the buses; what happens to them
afterwards is not modelled here. `eventBus->Publish` does not throw in the model.
`IEventBus` forbids nothing, but its only implementation, `NullEventBus`, cannot;
a bus that throws would leave a row without its event, and `RowsAnnounced` and the
progress of `GroupRoster` presuppose that there is none. `GetGroups` changes nothing and `RemoveGroup`
has no route and no effect.

### MatchScheduling

`GroupService` and, behind its events, one `TeamAddedConsumer`. `Deliver` hands
it an event, `CountGroup` is its one transaction, `Announce` is the comparison
and what follows it, `HandlerFails` an exception from the repository or the
publisher, which `HandleTeamAdded` lets through. Between the two steps the group
endpoints run. The bus is external and nothing in the repository fixes its
guarantees: it may be late, reorder and repeat, and a failed delivery is
repeated; an event lost for good would leave a full group without matches. The
number that means "full" is an argument of the consumer's constructor,
`ConsumerMax`, not the format of the tournament. A message may be announced
several times (once per event of a full group): `scheduled` is a set, and
nothing says that its reader wants it once. Nothing builds a consumer today, so
the module describes the class behind the events it was written for.

### TournamentService

The same scheme, with two effects in place of one. A create is `Insert` (or
`InsertRefused`, by the unique index on the name), then `Send` or `SendFails`;
an update is `Read`, then `Update`. `DatabaseError` and `CommitInDoubt` strike
any repository call. The handlers parse the body only to see that it is JSON and
pass on `std::make_shared<domain::Tournament>()`, so what is stored has the name
`DefaultName`; the body's name stays in `req` for the properties to compare.
`Status` is `http_for_error`, on the kinds of message that can reach it: libpqxx
says "Lost connection to the database server" (500) and "duplicate key value"
(409). Of a commit in doubt and of any other failing statement (a timeout, a
missing table) it says nothing that `http_for_error` looks for, nor does the
broker of a failed send (422). `sent` is what was handed to the broker; since
messages are not persistent, it is not what a consumer will receive.

### TeamService

The handlers as routes would run them; none is registered today. A create is one
statement, `Insert` or `InsertRefused`; an update is `Read`, then `Update`.
`TeamRepository::Create` returns a `string_view` into a result that it destroys,
and `SaveTeam` copies it afterwards: `location` is the id or `Garbage`, never
empty, because the length of the view is that of the id. So a success is never
taken for the empty string that stands for a duplicate. `Read` of an unknown id
parses a document that is not there, which throws; `Update` executes a statement
that no connection has prepared, which throws as well. Neither is caught, so an
update ends in a 500 in every case and changes nothing.

### The generators

All three are loops over rounds and slots; every turn is a step. Teams are their
positions in the input, -1 is the bye. This assumes distinct ids and none equal
to `"__BYE__"`. `CircleMethod` makes a round robin (no self-match, no repetition,
at last all pairs). Its list has no round numbers: `Matchday(d)` is what a reader
would take for round d, the next `size \div 2` places, and `MatchdaysDisjoint` says
that nobody is in two of its matches - so that the first rounds of the list are a
partial round robin. `RoundRobinGenerator` and `SingleRound` refine `CircleMethod`,
the second with its two lists read as the circle folded in the middle. `Fixtures` steps them side by side so that one run covers the three: they
are deterministic and share only their input, so nothing is lost by the lock
step.

### Standings

`Compute` takes one match per step; its sort places one row per step, any of the
least ones, because `std::sort` is not stable and the rows come from a hash
table. `BuildTop8` follows on the table. A placeholder `W(home-away)` is the pair
of its sides. The properties compare rows and bracket with what the results say
directly (`Record`, `Ranked`, `Merit`), in definitions that share nothing with
the loop: the points of a team are a set with one element for each, and its total
is the size of that set. `MeetIn` follows the placeholders back to the teams
that can come out of each match. The lists are those of a round robin, in which
nobody plays himself (`MatchesAssumption`), and ids come from the database, so
none of them reads `W(...)` (`PlaceholdersAssumption`). The service calls neither
class yet.

## 3. Runs

| run | expects | what it shows |
|---|---|---|
| `pool` | pass | mutual exclusion on the queue; a connection is never in two places, never lost, never returned with an open transaction; no lost wake-up; refinement of `ConnectionLease` with its progress; draining |
| `group_sequential` | pass | one worker, everything may fail and the process may die: no group outgrows the largest limit, even when URL and body name different tournaments, refused requests write nothing, successful ones are complete on both topics, events never precede rows |
| `group_concurrent` | pass | two workers, and tournaments that are replaced meanwhile: rows are always announced although batches fail in the middle; the endpoints implement `GroupRoster` with its progress, every stored group and team is announced in the end; the limit is overshot by at most one full group per worker |
| `group_limit_race` | violation | two workers count, then both insert: `LimitRespected` fails |
| `group_crash` | violation | a GET for a missing group ends the process while another worker is about to announce the team it stored: `RowsAnnounced` fails |
| `match_scheduling` | pass | matches are announced for full groups only, and no full group is forgotten, with events late, repeated and out of order |
| `fixtures` | pass | the generators, for 0 to 16 teams: complete, without repetition, nobody twice in a round, fair sides; the second and third make the pairs of the first |
| `tournaments` | pass | three workers, failing database and broker: every message has its row, none is repeated, a 201 means row and message |
| `standings` | pass | rows are the records of the teams, the best eight qualify however ties fall, the best seeds meet last |
| `teams` | pass | two workers, failing database: 201 and 409 are only given for names that are stored, and no two clients are told that they created one |
| `tournament_dual_write` | violation | a create answered with 422 leaves its row behind |
| `fixtures_pair` | violation | `GenerateSingleRound` with two teams: insertion beyond the end of an empty vector |

The violation runs are disagreements between the code and what the repository
says of it; `PROJECT.json` quotes both under `findings`.

**Bounds.** The pool runs at the size `configuration.json` deploys, 4 threads on
2 connections, which has everything that matters: sleepers, several at once, and
a notification sent while another connection is free. `group_sequential` uses three
tournaments (two stored, with limits 2 and 1), one name, two group ids, three
teams of which one is unknown, and batches that are empty, contain duplicates, contain
unknown teams or exceed the limit; `group_concurrent` uses one group, five teams
and batches that two workers can interleave, and a format that shrinks from 2 to
1 while requests hold the old one. `StrayGets` is FALSE where two workers serve:
with it TRUE, `group_crash` is what happens, in a second group id that nobody
creates. `match_scheduling` has one group, three teams
and a limit of 2 on both sides, so that two workers can jump over it before an
event is handled. The tournament runs use two names, two ids and
two or three workers; workers and ids are interchangeable there, and only
invariants are checked under that symmetry. `teams` has two names and three ids, so that an
id is always free. `standings` has every list of up to three matches of
three teams, with scores at and beyond both limits and missing ones, and lists
for seven, eight and nine teams, the last with ties that the sort decides.
Nothing else is bounded: requests
go on for ever, `published` is a set, and `sent` cannot grow beyond the rows. The generators run for every size up
to 16, the default `maxTeamsPerGroup`.

**Fairness.** In `ConnectionPool!FairSpec` every thread that is inside an
operation and not asleep goes on (`WF(Step(t))`): the operating system schedules
it, and the database answers or the driver throws. No thread has to begin an
operation, nor to wake by chance, and mutexes need not be fair: under barging a
single caller may starve, which is why `ConnectionLease` promises that loans are
made, not to whom, and why `Drains` speaks of what happens once calls stop
coming. The generators are loops on one thread (`WF(AllNext)`).
`GroupService!FairSpec` is narrower: a worker that has stored a row and stands
before its publication takes that step (`WF(AnnounceGroup(w))`, `WF(PublishTeam(w))`),
for which it needs a processor and no connection. Nothing is assumed of the steps
that wait for the pool: it does not say to whom it lends, so a request may hang
there for ever, and that every request is answered is not claimed. The progress of
`GroupRoster` holds all the same, although any call may fail and any request may
starve between two teams of its batch. The other group runs and those of
tournaments and teams check safety only.

`MCFixtures` and `MCStandings` have `CHECK_DEADLOCK FALSE`, because the functions
return.

## 4. Proofs

`ConnectionPoolProofs` proves, for all finite sets of threads and connections
(`ThreadsAssumption`, `ConnsAssumption`), every safety property of the run
`pool` and the safety half of the refinement:

- **Inductive invariant.** The properties are not inductive by themselves.
  `IInv` adds what ties control points to the other variables: a thread holds a
  connection exactly at the `Leasing` points, the mutex belongs to the thread at
  a `Critical` point, open transactions are those of threads at `inTx` or
  `unwinding`, and the queue is injective, disjoint from the leases and together
  with them covers `Conns`. `InitIInv` and `StepIInv` show it inductive, with
  `PopFacts` and `PushFacts` about the queue; `TypeCorrect`,
  `ConnectionsExclusive`, `ConnectionsConserved`, `PoolRaceFree` and
  `ConnectionsReturnClean` are its consequences.
- **Wake-ups.** `WakeupsKept` proves `NoLostWakeup`, a statement about
  cardinalities, by following how each step changes the set of threads that will
  look at the queue or notify; `ThreadSetsFinite` supplies finiteness.
- **Refinement.** `PoolRefinesLease`: `Take` is `Lease`, `Push` is `Return`,
  `Request` is `Request`, the rest stutters.

`TournamentServiceProofs` proves the four invariants of the run `tournaments`
for any sets of workers, ids and names. It assumes that the constants that stand
for "nothing" are not values (`NoRowAssumption`, `NoIdAssumption`,
`NoRequestAssumption`). `SentOnce` alone is not inductive: it needs that a
worker about to send holds the id of a stored row that nobody has announced
(`SendersStored`), that no other worker holds the same id (`SendersApart`), and,
so that a fresh id is neither, `MessagesHaveRows`.

`TeamServiceProofs` proves the three invariants of the run `teams` for any sets
of workers, ids and names, from the same kind of assumptions (`NoRowAssumption`,
`LocationsAssumption`, `NoRequestAssumption`). `OneCreator` is inductive only
together with `AnswersTrue`: the name of whoever was told 201 is in the table, so
the index refuses the next. `Staged` ties stages to kinds of requests.

`CircleMethodProofs` proves, for every number of teams, that
`RoundRobinMatchGenerator` pairs nobody twice (`PairsUnique`), that everybody has
met when it returns (`PairsComplete`), and that nobody plays twice in a matchday of
its list (`MatchdaysApart`). The run `fixtures` checks sizes up to 16. The
argument:

- After r rotations slot j > 0 holds what slot j - r held at the start, counted
  around the m = 2h - 1 slots that move, h being half the number of slots
  (`Origin`, `OriginMoves`; `Turned` is the invariant).
- In the turns of round r that do not involve slot 0, the two origins add up to
  -2r around the circle. Since m is odd, that sum determines r, and then the slot
  of one origin determines the turn: no two turns bring the same slots together
  (`TurnsDiffer`). Conversely every two slots have such a round (`SomeTurn`).
- At most one slot starts with the bye, so different slots are different teams
  (`OccupantsDiffer`).
- The invariants `FromTurns` and `TurnsKept` say that the matches are those of
  the turns taken so far, none invented and none forgotten. `NoRematch` follows
  from the first, `EveryoneMeets` from the second.
- The bye walks from the last slot around the circle, so it is in exactly one turn
  of each round (`ByeTurn`, `ByeOnce`). Hence the list is as long as the rounds that
  are over and the turns taken make it (`Counted`), a match of round r lies in the
  places of round r (`Placed`), places of two rounds are apart (`RoundsApart`), and
  two turns of one round have four different slots (`TeamsApart`).

The only assumption is `SizesAssumption`: sizes are natural numbers.

`GroupServiceProofs` proves every safety property of the runs `group_sequential`
and `group_concurrent`, for any sets of workers, tournaments, groups and teams
and every wiring of the delegate. It assumes what the constants stand for
(`TournamentsAssumption`, `TeamsAssumption`, `WiringAssumption`; `NoRow` and
`NoRequest` are not values) and, where workers are counted, that they are
finitely many (`WorkersAssumption`).

- **Inductive invariant.** `IInv` says of every worker which requests can be at
  which stage (`Staged`), how much of the batch is stored and announced there
  (`Looped`), and what that makes of the reply (`Answered`). All of it is about
  rows and events, which only grow (`Grows`); so the steps of other workers
  cannot falsify it, and each action has to be looked at for its own worker only.
  `EventsHaveRows` needs `Looped` - a team is announced in the stage behind its
  insertion - and `SuccessIsComplete` needs all three. `TypeCorrect`,
  `ErrorsAreClean`, `SuccessComplete` and `EventsTrue` are consequences.
- **`RowsAnnounced`** is true only of a process that lives, and of commits that
  are not in doubt: `group_crash` and section 5 show why. `RowsAreAnnounced`
  therefore has `[][~Dies]_vars` and `~CommitsInDoubt` as hypotheses.
  `GetsFindTheirGroup` discharges the first for the constants of the run: if there
  is one stored tournament, and clients ask only for groups that are there
  (`~StrayGets`), no GET finds nothing. With two tournaments a rename by another
  worker can move the group between the arrival of the GET and its read, and the
  process dies without a stray request. `RowsAnnouncedAlone` puts the two together.
- **Refinement.** `RosterKept`: the row of `InsertGroup` is `Found` and that of
  `AddTeam` is `Join`, whether or not the commit is in doubt; `AnnounceGroup` is
  `Herald`, `PublishTeam` is `Announce` or a stutter, everything else stutters, the
  death of the process included. Teams only join groups that are there because a
  worker that adds teams has found, or made, the row of its group (`Staged`), and
  no row is ever deleted; what it announces is the team it has just stored
  (`Looped`).
- **`OvershootBounded`** is a statement about cardinalities that no step
  preserves by itself, since every insertion adds to a group. `Room` counts the
  teams that workers behind the check have still to store (`Pending`) as if they
  were in the group already. Entering `Checked` adds at most one limit, for a
  worker that had nothing pending before (`RoomToEnter`); inserting moves one team
  from one summand to the other.

`MatchSchedulingProofs` proves both invariants of the run `match_scheduling`, with
any `ConsumerMax`, on top of `GroupServiceProofs` (a step of the composition is a
step of the endpoints or leaves them alone, `SchedulingRefines`).
`OnlyFullAnnounced`: the consumer's count was true once (`ConsumerOK`) and groups do
not shrink. `NoFullGroupForgotten` has to exclude that the last event of a group is
handled with a count from before its last team: `CountKept` says that whoever has
outdated the count has left an event that is not dealt with, or is about to
(`AwaitingNews`). That this event is a new one, and not one the consumer has seen,
follows from `EventsHaveRows`: an event that was there already would have had its
row. The hypotheses are those of `RowsAreAnnounced`.

`FixturesProofs` proves, for every number of teams, the four safety properties of
the run `fixtures` that are about `RoundRobinGenerator`:

- `GenerateOnCircle` and `ListsOnCircle`: each function makes the steps of
  `CircleMethod`, the second with its two lists folded into one circle
  (`TurnedLists` says what a rotation makes of them). The theorems of
  `CircleMethodProofs` then hold of both: `GenerateIsRoundRobin`,
  `ListsAreRoundRobin`. For two teams `SingleRound` may crash in its rotation;
  what it has pushed by then is right.
- `RoundsAreFair` (`OncePerRound`): a match comes from a turn of the round it is
  numbered with (`Rounds`), and two turns of a round have four different slots.
- `SidesAreFair` (`HomeAwayBalanced`): over the rounds a team walks around the
  circle, along the home side, the away side and the one it began on; on each walk
  the parity of the round makes it play home and away in turn, so that each can
  leave at most one match over. `Swing` is that sum in closed form, between -3
  and 3 (`SwingStep`, `SwingBounds`), and the one turn in which the team meets the
  bye, if any, is the fourth (`MetBye`, `Balance`).

`StandingsProofs` proves the three properties of the run `standings`, for any
teams and any lists of matches between them, with any integers as scores.

- **`RowsAreRecords`.** A match changes the record of its two players and of
  nobody else (`RecordPlayer`, `RecordOther`). The new points of a player are those
  of the match counted, which no earlier match has, and there are as many of them
  as the capped score says (`NewPoints`); so what `Credit` adds is what the
  cardinalities grow by. `NoRecord` covers the row that is still missing: who has
  not played has won and scored nothing.
- **Inductive invariant.** `IInv` adds that the table is sorted so far and that
  nobody still to be placed is better than anybody in it (`TableOK`), which a step
  of the sort preserves because `Before` is a strict weak order, and that the
  bracket is that of the whole table (`BracketOK`).
- **`TheBestQualify`.** The finished table lists every ranked team once
  (`Finished`); those in the bracket are its first eight (`InBracket`). `Merit` puts
  three numbers into one, and agrees with `Before` because no total reaches `Base`
  (`MeritOrder`, `RecordBounds`).
- **`SeedsAreKeptApart`.** `Entrants` is a recursive function on the seven
  matches of the bracket: `EntrantsOfEight` writes its values down, shows that they
  satisfy the recursion, and that it leaves no choice. It needs that a placeholder
  names one match only, since seeds are different, and no team.

**Model-checked only:** `Drains`, `ListsReturnUnlessPair` and the progress halves of
`ImplementsLease` and `ImplementsRoster`: liveness is beyond TLAPS. Every invariant
and every action property of the passing runs is proved.

## 5. Seen while modelling, not a run

These are single steps, which the model has and a run would only restate:

- A duplicate group name makes `tx.exec` throw; no handler catches it, so the
  reply is a 500, while `duplicate_group_name` and its 409 are unreachable
  (`services/src/delegate/GroupDelegate.cpp:57`).
- `database/db_script.sql` creates neither `groups.name` nor `group_teams`, which
  `GroupRepository.cpp` uses; the model assumes the tables the SQL names.
- A rename under another tournament's URL writes that tournament into the row
  (`GroupRepository.cpp:98`): the group moves with all its teams.
- `CreateGroup` checks the teams of the body against the tournament of the URL
  and stores the group under the `tournamentId` of the body
  (`GroupDelegate.cpp:56`). Like the rename this is a way past the limit, with one
  worker, as soon as two stored tournaments have different limits:
  `LimitRespected` fails with the constants of `group_sequential`, whose
  `OvershootBounded` says what is left: the largest limit of any tournament holds.
- `CreateGroup` does not look its teams up, as `UpdateTeams` does: unknown ids
  enter the group (`GroupDelegate.cpp:69`).
- `UpdateTournament`, like the create, stores a default tournament: name and
  format of the row are lost.
- Because every tournament is stored under the empty name, which is unique, the
  second create ever sent is refused as a duplicate whatever it is called
  (`TournamentController.cpp:85`).
- When a batch fails in the middle, `EventingGroupDelegate` announces none of the
  teams that were stored; the delegate's own bus has them.
- An unknown team id is a 500: `TeamRepository.hpp:49` reads the
  first row of an empty result, so `team_not_found` and its 404 are unreachable.
- No connection prepares `update_team` (`TeamRepository.hpp:74`): every update of
  a team throws, and 204 is unreachable.
- `TeamRepository.hpp:65` returns a view of memory that it frees; the interface
  above it says "Evitar vistas colgantes"
  (`services/include/delegate/ITeamDelegate.hpp:16`).
- When the connection breaks during the commit of `UpdateGroupAddTeam`, libpqxx
  throws although the row may be stored, and the loop ends before `publish_if`:
  with `CommitsInDoubt = TRUE` a team can stay in its group unannounced, and
  `RowsAnnounced` and `FullAreScheduled` fail. The runs that check these two have
  it FALSE; `group_sequential`, whose properties survive it, has it TRUE.
- `TeamsAfter` adds the whole batch to the count, teams of the group included, so
  a batch repeated after part of it was stored is refused as full although
  storing it again would change nothing; the comment says "conteo actual +
  nuevos" (`services/src/delegate/GroupDelegate.cpp:123`).
- `AddTeam` replies 201 where `services/tests/Pruebas unitarias.txt:56` asks for 204.

## 6. Plan

Done: the pool, the tournament and team endpoints and the circle method with
their proofs; the group endpoints with both publishers, restarts and changing
formats; the consumer of their events; the other two generators, standings and
bracket; proofs of every safety property of the passing runs. What is left:

1. How long the generators take: that the number of turns left falls with every
   step is a safety property, and as much of `ListsReturnUnlessPair` as can be proved.
2. The sides in `RoundRobinMatchGenerator`, as `SidesAreFair` has them for
   `RoundRobinGenerator`, if the code means anything by them.

### Not modelled

- `QueueMessageConsumer`: nothing builds one, since `main()` of
  `tournament_consumer` is commented out. `worker` and `messageConsumer` are never
  assigned, so that `Stop`, which the destructor calls, dereferences a null
  pointer on every path, and `Start` does nothing with a message but print it.
- What the broker does with a message: the producer sends non-persistently, and
  no consumer exists whose state could depend on it.
- Routing, dependency injection and configuration, which run once before the
  first request, and the text of JSON bodies.
- `common/src/.../TeamRepository.cpp`: another class of the name `TeamRepository`,
  which keeps its teams in a map. No header declares it, and the file that does
  never makes an object of it.
- `common/include/domain/IMatchStrategy.hpp`: an abstract class that nothing
  implements. Its `roundsCap` allows a partial round robin, which none of the three
  generators can be asked for.
- Repository methods without a caller (`PROJECT.json` lists them).
