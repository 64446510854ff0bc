----------------------------- MODULE TeamService -----------------------------
(***************************************************************************)
(* The team endpoints that change something: TeamController, TeamDelegate  *)
(* and TeamRepository on the table TEAMS.  No route reaches them yet: the  *)
(* module describes the classes as the routes would run them.  An update   *)
(* always ends in an exception that nobody catches: PostgreSQL knows no    *)
(* statement "update_team", because nothing prepares one.                  *)
(***************************************************************************)
EXTENDS Naturals, FiniteSets

CONSTANTS
    Workers,       \* the threads that run handlers
    Ids,           \* ids that TEAMS.id can take
    Names,         \* names a body can carry
    Garbage,       \* 36 characters that are no id
    NoRow,         \* no team has this id
    NoLocation,    \* a response without that header
    NoRequest      \* the worker is idle

\* The unique index leaves an id for every team that can be inserted.
ASSUME IdsAssumption == Cardinality(Ids) >= Cardinality(Names)
ASSUME NoRowAssumption == NoRow \notin Names
ASSUME LocationsAssumption ==
    Garbage \notin Ids /\ NoLocation \notin Ids \cup {Garbage}

VARIABLES
    rows,          \* TEAMS: the name in the document of each id, or NoRow
    req,           \* req[w]: the request w is serving, or NoRequest
    stage,         \* stage[w]: the next step of that request
    status,        \* status[w]: the HTTP status of its response, 0 before
    location       \* location[w]: the header of that name

vars == <<rows, req, stage, status, location>>

\* The id that a create may carry is not used.
Creates == [op : {"create"}, name : Names]
Updates == [op : {"update"}, name : Names, id : Ids]

ASSUME NoRequestAssumption == NoRequest \notin Creates \cup Updates

Init ==
    /\ rows = [i \in Ids |-> NoRow]
    /\ req = [w \in Workers |-> NoRequest]
    /\ stage = [w \in Workers |-> "idle"]
    /\ status = [w \in Workers |-> 0]
    /\ location = [w \in Workers |-> NoLocation]

Goto(w, s) == stage' = [stage EXCEPT ![w] = s] /\ UNCHANGED <<status, location>>

Answer(w, code, l) ==
    /\ stage' = [stage EXCEPT ![w] = "replied"]
    /\ status' = [status EXCEPT ![w] = code]
    /\ location' = [location EXCEPT ![w] = l]

Receive(w, requests, s) ==
    /\ stage[w] = "idle"
    /\ \E r \in requests : req' = [req EXCEPT ![w] = r]
    /\ Goto(w, s)
    /\ UNCHANGED rows

ReceiveCreate(w) == Receive(w, Creates, "insert")
ReceiveUpdate(w) == Receive(w, Updates, "read")
------------------------------------------------------------------------------

\* Mutant of IndexAccepts: there is no unique index.
IndexMissing(name) == TRUE

IndexAccepts(name) == \A i \in Ids : rows[i] # name

StoreTeam(w, i) ==
    /\ rows[i] = NoRow
    /\ IndexAccepts(req[w].name)
    /\ rows' = [rows EXCEPT ![i] = req[w].name]

\* Create returns a view of the id in a result that it destroys, and SaveTeam
\* copies the 36 characters that are there by then.
Insert(w) ==
    /\ stage[w] = "insert"
    /\ \E i \in Ids :
          /\ StoreTeam(w, i)
          /\ \E l \in {i, Garbage} : Answer(w, 201, l)
    /\ UNCHANGED req

InsertRefused(w) ==
    /\ stage[w] = "insert"
    /\ ~IndexAccepts(req[w].name)
    /\ Answer(w, 409, NoLocation)
    /\ UNCHANGED <<rows, req>>

\* TeamDelegate::UpdateTeam looks for the row first; parsing the document of a
\* row that is not there throws.
Read(w) ==
    /\ stage[w] = "read"
    /\ IF rows[req[w].id] = NoRow
       THEN Answer(w, 500, NoLocation)
       ELSE Goto(w, "update")
    /\ UNCHANGED <<rows, req>>

Update(w) ==
    /\ stage[w] = "update"
    /\ Answer(w, 500, NoLocation)
    /\ UNCHANGED <<rows, req>>
------------------------------------------------------------------------------

\* Mutant of ErrorStatus: every exception of a create counts as a conflict.
ErrorStatusConflict(w) == IF req[w].op = "create" THEN 409 ELSE 500

\* catch (...), and Crow's own for what the handlers let through.
ErrorStatus(w) == 500

\* A repository call fails and its transaction is rolled back.
DatabaseError(w) ==
    /\ stage[w] \in {"insert", "read", "update"}
    /\ Answer(w, ErrorStatus(w), NoLocation)
    /\ UNCHANGED <<rows, req>>

\* The connection breaks while the server commits: the row is there, and the
\* caller gets an exception all the same.
CommitInDoubt(w) ==
    /\ stage[w] = "insert"
    /\ \E i \in Ids : StoreTeam(w, i)
    /\ Answer(w, ErrorStatus(w), NoLocation)
    /\ UNCHANGED req

\* Mutant of ClearHeader: the header of a response is kept for the next one.
KeepHeader(w) == UNCHANGED location

ClearHeader(w) == location' = [location EXCEPT ![w] = NoLocation]

Respond(w) ==
    /\ stage[w] = "replied"
    /\ req' = [req EXCEPT ![w] = NoRequest]
    /\ stage' = [stage EXCEPT ![w] = "idle"]
    /\ status' = [status EXCEPT ![w] = 0]
    /\ ClearHeader(w)
    /\ UNCHANGED rows

Next ==
    \E w \in Workers :
        \/ ReceiveCreate(w) \/ Insert(w) \/ InsertRefused(w)
        \/ ReceiveUpdate(w) \/ Read(w) \/ Update(w)
        \/ DatabaseError(w) \/ CommitInDoubt(w) \/ Respond(w)

Spec == Init /\ [][Next]_vars
------------------------------------------------------------------------------

\* Types; a response in the making keeps nothing of the last one, and a location
\* belongs to a team that has been created.
TypeOK ==
    /\ rows \in [Ids -> Names \cup {NoRow}]
    /\ req \in [Workers -> {NoRequest} \cup Creates \cup Updates]
    /\ stage \in [Workers -> {"idle", "insert", "read", "update", "replied"}]
    /\ status \in [Workers -> {0, 201, 409, 500}]
    /\ location \in [Workers -> Ids \cup {Garbage, NoLocation}]
    /\ \A w \in Workers :
          /\ (req[w] = NoRequest) <=> (stage[w] = "idle")
          /\ (status[w] = 0) <=> (stage[w] # "replied")
          /\ (location[w] = NoLocation) <=> (status[w] # 201)

\* A client that repeats a create until it is told 201 or 409 has its team in the
\* table, whatever failed on the way: neither answer is ever given for a name
\* that nobody has stored, and a location that is an id is that team's.
AnswersTrue ==
    \A w \in Workers :
        /\ status[w] \in {201, 409} => \E i \in Ids : rows[i] = req[w].name
        /\ location[w] \in Ids => rows[location[w]] = req[w].name

\* Two clients that race for a name are not both told that they created it.
OneCreator ==
    \A v, w \in Workers :
        status[v] = 201 /\ status[w] = 201 /\ req[v].name = req[w].name => v = w
==============================================================================
