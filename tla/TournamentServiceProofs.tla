------------------------ MODULE TournamentServiceProofs ------------------------
(***************************************************************************)
(* The safety of TournamentService for any workers, ids and names.         *)
(***************************************************************************)
EXTENDS TournamentService, TLAPS

\* What appending a new element makes of messages without repetitions.
LEMMA PushFacts ==
    ASSUME NEW S, NEW q \in Seq(S), NEW x \in S,
           IsInjective(q), x \notin Range(q)
    PROVE  /\ Append(q, x) \in Seq(S)
           /\ IsInjective(Append(q, x))
           /\ Range(Append(q, x)) = Range(q) \cup {x}
<1> DEFINE p == Append(q, x)
<1>1. Len(q) \in Nat /\ DOMAIN q = 1 .. Len(q)
  OBVIOUS
<1>2. p \in Seq(S) /\ DOMAIN p = 1 .. Len(q) + 1
  OBVIOUS
<1>3. p[Len(q) + 1] = x /\ \A i \in 1 .. Len(q) : p[i] = q[i]
  OBVIOUS
<1> HIDE DEF p
<1>4. IsInjective(p)
  BY <1>1, <1>2, <1>3 DEF IsInjective, Range
<1>5. Range(p) = Range(q) \cup {x}
  BY <1>1, <1>2, <1>3 DEF Range
<1> QED  BY <1>2, <1>4, <1>5 DEF p
------------------------------------------------------------------------------
Typing ==
    /\ rows \in [Ids -> Names \cup {DefaultName, NoRow}]
    /\ sent \in Seq(Ids)
    /\ req \in [Workers -> {NoRequest} \cup Creates \cup Inserted \cup Updates]
    /\ stage \in [Workers -> Stages]
    /\ reply \in [Workers -> {"none", "ok"} \cup Errors]

\* Which request a worker has at each stage, and when it has a reply.
StageOf(w) ==
    /\ req[w] = NoRequest <=> stage[w] = "idle"
    /\ reply[w] # "none" <=> stage[w] = "replied"
    /\ stage[w] = "insert" => req[w] \in Creates
    /\ stage[w] = "send" => req[w] \in Inserted
    /\ stage[w] \in {"read", "update"} => req[w] \in Updates
    /\ reply[w] = "ok" => req[w] \in Inserted \cup Updates

Staged == \A w \in Workers : StageOf(w)

\* A worker about to send has a stored tournament that nobody has announced...
SendersStored ==
    \A w \in Workers :
        stage[w] = "send" =>
            rows[req[w].id] # NoRow /\ req[w].id \notin Range(sent)

\* ... and that no other worker is about to announce.
SendersApart ==
    \A v, w \in Workers :
        stage[v] = "send" /\ stage[w] = "send" /\ req[v].id = req[w].id => v = w

IInv ==
    /\ Typing
    /\ Staged
    /\ MessagesHaveRows
    /\ SentOnce
    /\ SuccessAnnounced
    /\ SendersStored
    /\ SendersApart
------------------------------------------------------------------------------

\* The inductive invariant holds initially.
LEMMA InitIInv == Init => IInv
BY DEF Init, IInv, Typing, Staged, StageOf, MessagesHaveRows, SentOnce,
       SuccessAnnounced, SendersStored, SendersApart, Stages, IsInjective, Range

\* Every step of a worker preserves the inductive invariant.  Only the insert
\* makes a new sender and only the send ends one.
LEMMA StepIInv ==
    ASSUME IInv, NEW w \in Workers,
           \/ ReceiveCreate(w) \/ Insert(w) \/ InsertRefused(w)
           \/ Send(w) \/ SendFails(w)
           \/ ReceiveUpdate(w) \/ Read(w) \/ Update(w)
           \/ DatabaseError(w) \/ CommitInDoubt(w) \/ Respond(w)
    PROVE  IInv'
<1> USE NoRowAssumption, NoIdAssumption, NoRequestAssumption
<1> USE DEF IInv, Typing, Staged, StageOf, Stages, Errors, Creates, Inserted,
            Updates, Goto, Answer
<1>1. CASE ReceiveCreate(w) \/ ReceiveUpdate(w)
  <2> USE <1>1 DEF ReceiveCreate, ReceiveUpdate, Receive
  <2> HIDE DEF Errors
  <2>1. Typing' /\ Staged'
    OBVIOUS
  <2>2. MessagesHaveRows' /\ SentOnce' /\ SuccessAnnounced'
    BY DEF MessagesHaveRows, SentOnce, SuccessAnnounced
  <2>3. SendersStored' /\ SendersApart'
    BY DEF SendersStored, SendersApart
  <2> QED  BY <2>1, <2>2, <2>3
<1>2. CASE Insert(w)
  <2>1. PICK id \in Ids : StoreNew(w, id) /\ KeepId(w, id)
    BY <1>2 DEF Insert
  <2>2. /\ rows[id] = NoRow
        /\ rows' = [rows EXCEPT ![id] = DefaultName]
        /\ sent' = sent
        /\ stage[w] = "insert" /\ req' \in [Workers -> {NoRequest} \cup Creates
                                                   \cup Inserted \cup Updates]
        /\ req'[w] \in Inserted /\ req'[w].id = id
        /\ \A v \in Workers \ {w} : req'[v] = req[v]
        /\ stage' = [stage EXCEPT ![w] = "send"] /\ reply' = reply
    BY <1>2, <2>1 DEF Insert, StoreNew, StoreDefault, KeepId
  <2>3. rows'[id] # NoRow
    BY <2>2
  <2>4. id \notin Range(sent)
    BY <2>2 DEF MessagesHaveRows
  <2>5. Typing' /\ Staged'
    <3>1. Typing'
      BY <2>2
    <3>2. StageOf(w)'
      BY <2>2
    <3>3. ASSUME NEW v \in Workers \ {w} PROVE StageOf(v)'
      BY <2>2
    <3> QED  BY <3>1, <3>2, <3>3
  <2>6. MessagesHaveRows' /\ SentOnce' /\ SuccessAnnounced'
    BY <1>2, <2>2, <2>3 DEF MessagesHaveRows, SentOnce, SuccessAnnounced, Insert
  <2>7. SendersStored'
    BY <2>2, <2>3, <2>4 DEF SendersStored
  <2>8. SendersApart'
    BY <2>2 DEF SendersStored, SendersApart
  <2> QED  BY <2>5, <2>6, <2>7, <2>8
<1>3. CASE Send(w)
  <2> DEFINE id == req[w].id
  <2>1. id \in Ids /\ rows[id] # NoRow /\ id \notin Range(sent)
    BY <1>3 DEF Send, SendersStored
  <2>2. sent' \in Seq(Ids) /\ IsInjective(sent')
        /\ Range(sent') = Range(sent) \cup {id}
    BY <1>3, <2>1, PushFacts DEF Send, SentOnce
  <2>3. Typing' /\ Staged'
    BY <1>3, <2>2 DEF Send
  <2>4. MessagesHaveRows' /\ SentOnce'
    BY <1>3, <2>1, <2>2 DEF Send, MessagesHaveRows, SentOnce
  <2>5. SuccessAnnounced'
    BY <1>3, <2>1, <2>2 DEF Send, SuccessAnnounced
  <2>6. SendersStored' /\ SendersApart'
    BY <1>3, <2>1, <2>2 DEF Send, SendersStored, SendersApart
  <2> QED  BY <2>3, <2>4, <2>5, <2>6
<1>4. CASE Update(w) \/ CommitInDoubt(w)
  <2>1. /\ rows' \in [Ids -> Names \cup {DefaultName, NoRow}]
        /\ \A i \in Ids : rows[i] # NoRow => rows'[i] # NoRow
        /\ UNCHANGED <<sent, req>>
        /\ stage[w] \in {"insert", "update"}
        /\ stage' = [stage EXCEPT ![w] = "replied"]
        /\ \E r \in {"ok", "duplicate", "in_doubt"} :
              /\ reply' = [reply EXCEPT ![w] = r]
              /\ r = "ok" => req[w] \in Updates
    BY <1>4 DEF Update, CommitInDoubt, StoreNew, StoreDefault
  <2>2. Typing' /\ Staged'
    BY <2>1
  <2>3. MessagesHaveRows' /\ SentOnce'
    <3>1. Range(sent) \subseteq Ids
      BY DEF Range
    <3> QED  BY <2>1, <3>1 DEF MessagesHaveRows, SentOnce
  <2>4. SuccessAnnounced'
    BY <2>1 DEF SuccessAnnounced
  <2>5. SendersStored' /\ SendersApart'
    BY <2>1 DEF SendersStored, SendersApart
  <2> QED  BY <2>2, <2>3, <2>4, <2>5
<1>5. CASE InsertRefused(w) \/ SendFails(w) \/ Read(w) \/ DatabaseError(w)
  <2>1. /\ UNCHANGED <<rows, sent, req>>
        /\ stage[w] \in {"insert", "send", "read", "update"}
        /\ \/ stage' = [stage EXCEPT ![w] = "update"]
              /\ reply' = reply /\ stage[w] = "read"
           \/ /\ stage' = [stage EXCEPT ![w] = "replied"]
              /\ \E r \in Errors : reply' = [reply EXCEPT ![w] = r]
    BY <1>5 DEF InsertRefused, SendFails, Read, DatabaseError
  <2>2. Typing' /\ Staged'
    BY <2>1
  <2>3. MessagesHaveRows' /\ SentOnce' /\ SuccessAnnounced'
    BY <2>1 DEF MessagesHaveRows, SentOnce, SuccessAnnounced
  <2>4. SendersStored' /\ SendersApart'
    BY <2>1 DEF SendersStored, SendersApart
  <2> QED  BY <2>2, <2>3, <2>4
<1>6. CASE Respond(w)
  <2>1. Typing' /\ Staged'
    BY <1>6 DEF Respond
  <2>2. MessagesHaveRows' /\ SentOnce' /\ SuccessAnnounced'
    BY <1>6 DEF Respond, MessagesHaveRows, SentOnce, SuccessAnnounced
  <2>3. SendersStored' /\ SendersApart'
    BY <1>6 DEF Respond, SendersStored, SendersApart
  <2> QED  BY <2>1, <2>2, <2>3
<1> QED  BY <1>1, <1>2, <1>3, <1>4, <1>5, <1>6

\* Nothing the invariant speaks of changes in a stuttering step.
LEMMA StutterIInv == IInv /\ UNCHANGED vars => IInv'
BY DEF vars, IInv, Typing, Staged, StageOf, MessagesHaveRows, SentOnce,
       SuccessAnnounced, SendersStored, SendersApart

\* In every reachable state of the tournament endpoints, stages, requests, rows
\* and messages agree, and no two workers are about to announce one tournament.
THEOREM Inductive == Spec => []IInv
<1>1. IInv /\ [Next]_vars => IInv'
  BY StepIInv, StutterIInv DEF Next
<1> QED  BY <1>1, InitIInv, PTL DEF Spec

------------------------------------------------------------------------------

\* Types, for any sets of workers, ids and names.
THEOREM TypeCorrect == Spec => []TypeOK
<1>1. IInv => TypeOK
  BY DEF IInv, Typing, Staged, StageOf, TypeOK
<1> QED  BY <1>1, Inductive, PTL

\* CreateTournament sends "tournament.created" only for rows that exist, however
\* the database and the broker fail.
THEOREM MessagesTrue == Spec => []MessagesHaveRows
<1>1. IInv => MessagesHaveRows
  BY DEF IInv
<1> QED  BY <1>1, Inductive, PTL

\* No tournament is announced twice, whatever requests are repeated.
THEOREM MessagesUnique == Spec => []SentOnce
<1>1. IInv => SentOnce
  BY DEF IInv
<1> QED  BY <1>1, Inductive, PTL

\* A 201 means that both of the delegate's writes happened.
THEOREM CreatedIsAnnounced == Spec => []SuccessAnnounced
<1>1. IInv => SuccessAnnounced
  BY DEF IInv
<1> QED  BY <1>1, Inductive, PTL
==============================================================================
