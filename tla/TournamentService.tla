-------------------------- MODULE TournamentService --------------------------
(***************************************************************************)
(* The tournament endpoints that change something: TournamentController,   *)
(* TournamentDelegate, TournamentRepository and QueueMessageProducer, as   *)
(* Crow's worker threads run them.  Creating a tournament has two effects, *)
(* a row and a "tournament.created" message, in that order and with no way *)
(* back.  Neither handler reads the body it was sent: what it stores is a  *)
(* default Tournament.  Rows are never deleted.                            *)
(***************************************************************************)
EXTENDS Naturals, Sequences, Functions

CONSTANTS
    Workers,       \* Crow's worker threads
    Ids,           \* ids that TOURNAMENTS.id can take
    Names,         \* names a body can carry
    DefaultName,   \* the name of a default Tournament, ""
    NoRow,         \* no tournament has this id
    NoRequest      \* the worker is idle

ASSUME IdsAssumption == Ids # {}
ASSUME NoRowAssumption == NoRow \notin Names \cup {DefaultName}

VARIABLES
    rows,          \* TOURNAMENTS: the name in the document of each id, or NoRow
    sent,          \* the ids sent to the queue "tournament.created", in order
    req,           \* req[w]: the request w is serving, or NoRequest
    stage,         \* stage[w]: the next step of that request
    reply          \* reply[w]: what the delegate returned, "none" before that

vars == <<rows, sent, req, stage, reply>>

\* A create learns its id when its row is inserted.
NoId == "no id"
Creates == [op : {"create"}, name : Names, id : {NoId}]
Updates == [op : {"update"}, name : Names, id : Ids]

\* A create that the database gave an id.
Inserted == [op : {"create"}, name : Names, id : Ids]

ASSUME NoIdAssumption == NoId \notin Ids
ASSUME NoRequestAssumption == NoRequest \notin Creates \cup Inserted \cup Updates

\* The delegate turns every exception into a message: of the unique index, of a
\* lost database, of any other failing statement, of a commit in doubt and of the
\* broker.
Errors == {"duplicate", "database", "statement", "in_doubt", "broker", "not_found"}
Stages == {"idle", "insert", "send", "read", "update", "replied"}

\* http_for_error searches the message for words, and takes one that has none
\* of them for a mistake in the request.
Status(w) ==
    CASE reply[w] = "ok"        -> IF req[w].op = "create" THEN 201 ELSE 204
      [] reply[w] = "database"  -> 500
      [] reply[w] = "duplicate" -> 409
      [] reply[w] = "not_found" -> 404
      [] OTHER                  -> 422

Init ==
    /\ rows = [i \in Ids |-> NoRow]
    /\ sent = <<>>
    /\ req = [w \in Workers |-> NoRequest]
    /\ stage = [w \in Workers |-> "idle"]
    /\ reply = [w \in Workers |-> "none"]

Goto(w, s) == stage' = [stage EXCEPT ![w] = s] /\ UNCHANGED reply

Answer(w, r) ==
    /\ stage' = [stage EXCEPT ![w] = "replied"]
    /\ reply' = [reply EXCEPT ![w] = r]

Receive(w, requests, s) ==
    /\ stage[w] = "idle"
    /\ \E r \in requests : req' = [req EXCEPT ![w] = r]
    /\ Goto(w, s)
    /\ UNCHANGED <<rows, sent>>

ReceiveCreate(w) == Receive(w, Creates, "insert")
ReceiveUpdate(w) == Receive(w, Updates, "read")
------------------------------------------------------------------------------
\* CreateTournament

\* The unique index on the name accepts a default Tournament as the row of id.
IndexAccepts(id) == \A i \in Ids \ {id} : rows[i] # DefaultName

StoreDefault(id) == rows' = [rows EXCEPT ![id] = DefaultName]

\* Mutant of KeepId: the id that the database returned is not kept.
ForgetId(w, id) == UNCHANGED req

KeepId(w, id) ==
    req' = [req EXCEPT ![w] = [op |-> "create", name |-> req[w].name, id |-> id]]

\* Mutant of StoreNew: the transaction is never committed.
StoreNewUncommitted(w, id) ==
    /\ rows[id] = NoRow
    /\ IndexAccepts(id)
    /\ UNCHANGED rows

\* A row that the index accepts gets an id that the database makes up.
StoreNew(w, id) ==
    /\ rows[id] = NoRow
    /\ IndexAccepts(id)
    /\ StoreDefault(id)

Insert(w) ==
    /\ stage[w] = "insert"
    /\ \E id \in Ids : StoreNew(w, id) /\ KeepId(w, id)
    /\ Goto(w, "send")
    /\ UNCHANGED sent

InsertRefused(w) ==
    /\ stage[w] = "insert"
    /\ ~ \E id \in Ids : rows[id] = NoRow /\ IndexAccepts(id)
    /\ Answer(w, "duplicate")
    /\ UNCHANGED <<rows, sent, req>>

Send(w) ==
    /\ stage[w] = "send"
    /\ sent' = Append(sent, req[w].id)
    /\ Answer(w, "ok")
    /\ UNCHANGED <<rows, req>>

\* Mutant of SendFails: the failure is logged and forgotten.
SendFailsUnnoticed(w) ==
    /\ stage[w] = "send"
    /\ Answer(w, "ok")
    /\ UNCHANGED <<rows, sent, req>>

\* No session, no producer, no broker: SendMessage throws, and the row stays.
SendFails(w) ==
    /\ stage[w] = "send"
    /\ Answer(w, "broker")
    /\ UNCHANGED <<rows, sent, req>>
------------------------------------------------------------------------------
\* UpdateTournament

Read(w) ==
    /\ stage[w] = "read"
    /\ IF rows[req[w].id] = NoRow
       THEN Answer(w, "not_found")
       ELSE Goto(w, "update")
    /\ UNCHANGED <<rows, sent, req>>

\* Mutant of Update: an update is announced like a creation.
UpdateAnnounced(w) ==
    /\ stage[w] = "update"
    /\ StoreDefault(req[w].id)
    /\ sent' = Append(sent, req[w].id)
    /\ Answer(w, "ok")
    /\ UNCHANGED req

Update(w) ==
    /\ stage[w] = "update"
    /\ IF IndexAccepts(req[w].id)
       THEN StoreDefault(req[w].id) /\ Answer(w, "ok")
       ELSE Answer(w, "duplicate") /\ UNCHANGED rows
    /\ UNCHANGED <<sent, req>>
------------------------------------------------------------------------------
\* A repository call fails and its transaction is rolled back.
DatabaseError(w) ==
    /\ stage[w] \in {"insert", "read", "update"}
    /\ \E r \in {"database", "statement"} : Answer(w, r)
    /\ UNCHANGED <<rows, sent, req>>

\* The connection breaks while the server commits: the row is there, and the
\* caller gets an exception all the same.
CommitInDoubt(w) ==
    /\ \/ stage[w] = "insert" /\ \E id \in Ids : StoreNew(w, id)
       \/ stage[w] = "update" /\ IndexAccepts(req[w].id) /\ StoreDefault(req[w].id)
    /\ Answer(w, "in_doubt")
    /\ UNCHANGED <<sent, req>>

Respond(w) ==
    /\ stage[w] = "replied"
    /\ req' = [req EXCEPT ![w] = NoRequest]
    /\ stage' = [stage EXCEPT ![w] = "idle"]
    /\ reply' = [reply EXCEPT ![w] = "none"]
    /\ UNCHANGED <<rows, sent>>

Next ==
    \E w \in Workers :
        \/ ReceiveCreate(w) \/ Insert(w) \/ InsertRefused(w)
        \/ Send(w) \/ SendFails(w)
        \/ ReceiveUpdate(w) \/ Read(w) \/ Update(w)
        \/ DatabaseError(w) \/ CommitInDoubt(w) \/ Respond(w)

Spec == Init /\ [][Next]_vars
------------------------------------------------------------------------------

\* Types; only the ids of rows are sent and searched for.
TypeOK ==
    /\ rows \in [Ids -> Names \cup {DefaultName, NoRow}]
    /\ sent \in Seq(Ids)
    /\ stage \in [Workers -> Stages]
    /\ reply \in [Workers -> {"none", "ok"} \cup Errors]
    /\ \A w \in Workers :
          /\ req[w] \in {NoRequest} \cup Creates \cup Inserted \cup Updates
          /\ (req[w] = NoRequest) <=> (stage[w] = "idle")

\* No consumer of "tournament.created" is told of a tournament that it cannot
\* read, whichever of the two writes fails.
MessagesHaveRows == \A id \in Range(sent) : rows[id] # NoRow

\* A tournament is announced at most once, although updates run through the same
\* delegate and clients repeat creates that failed.
SentOnce == IsInjective(sent)

\* Whoever is told 201 has a tournament that is stored and announced.
SuccessAnnounced ==
    \A w \in Workers :
        reply[w] = "ok" /\ req[w].op = "create" =>
            rows[req[w].id] # NoRow /\ req[w].id \in Range(sent)

\* A create refused with 422, the status of a body that cannot be processed, has
\* stored nothing.
UnprocessableStoresNothing ==
    \A w \in Workers :
        reply[w] # "none" /\ Status(w) = 422 /\ req[w].op = "create" =>
            req[w].id = NoId
==============================================================================
