-------------------------- MODULE TeamServiceProofs --------------------------
(***************************************************************************)
(* Theorems about TeamService, for any workers, ids and names.             *)
(***************************************************************************)
EXTENDS TeamService, TLAPS

\* What each stage knows of its request; not part of TypeOK.
Staged ==
    \A w \in Workers :
        /\ stage[w] = "insert" => req[w] \in Creates
        /\ stage[w] \in {"read", "update"} => req[w] \in Updates

\* The inductive invariant.  OneCreator rests on AnswersTrue: the name of a
\* request that was told 201 is in the table, so that the index refuses the next.
IInv == TypeOK /\ Staged /\ AnswersTrue /\ OneCreator

LEMMA InitIInv == Init => IInv
<1> SUFFICES ASSUME Init PROVE IInv
  OBVIOUS
<1>1. TypeOK
  BY DEF Init, TypeOK
<1>2. Staged /\ AnswersTrue /\ OneCreator
  BY LocationsAssumption DEF Init, Staged, AnswersTrue, OneCreator
<1> QED  BY <1>1, <1>2 DEF IInv

\* The steps that give the worker a request or take it away.
LEMMA ServeIInv ==
    ASSUME IInv, NEW w \in Workers,
           ReceiveCreate(w) \/ ReceiveUpdate(w) \/ Respond(w)
    PROVE  IInv'
<1>1. /\ UNCHANGED rows
      /\ status'[w] = 0 /\ location'[w] = NoLocation
      /\ \A v \in Workers \ {w} :
            /\ req'[v] = req[v] /\ stage'[v] = stage[v]
            /\ status'[v] = status[v] /\ location'[v] = location[v]
      /\ req' \in [Workers -> {NoRequest} \cup Creates \cup Updates]
  BY DEF ReceiveCreate, ReceiveUpdate, Receive, Goto, Respond, ClearHeader,
         IInv, TypeOK
<1>2. AnswersTrue' /\ OneCreator'
  BY <1>1, LocationsAssumption DEF IInv, AnswersTrue, OneCreator
<1>3. TypeOK' /\ Staged'
  <2>1. CASE ReceiveCreate(w)
    BY <1>1, <2>1, NoRequestAssumption
    DEF ReceiveCreate, Receive, Goto, IInv, TypeOK, Staged
  <2>2. CASE ReceiveUpdate(w)
    BY <1>1, <2>2, NoRequestAssumption
    DEF ReceiveUpdate, Receive, Goto, IInv, TypeOK, Staged
  <2>3. CASE Respond(w)
    BY <1>1, <2>3 DEF Respond, ClearHeader, IInv, TypeOK, Staged
  <2> QED  BY <2>1, <2>2, <2>3
<1> QED  BY <1>2, <1>3 DEF IInv

\* The steps that store a row: the name was in no row, so nobody who was told 201
\* has a request for it.
LEMMA StoreIInv ==
    ASSUME IInv, NEW w \in Workers, Insert(w) \/ CommitInDoubt(w)
    PROVE  IInv'
<1> USE DEF IInv, TypeOK, Staged
<1>1. PICK i \in Ids : StoreTeam(w, i)
  BY DEF Insert, CommitInDoubt
<1>2. req' = req /\ req[w] \in Creates /\ req[w].name \in Names
  BY DEF Insert, CommitInDoubt, Creates
<1>3. /\ rows[i] = NoRow /\ rows' = [rows EXCEPT ![i] = req[w].name]
      /\ \A j \in Ids : rows[j] # req[w].name
  BY <1>1 DEF StoreTeam, IndexAccepts
<1>4. \A v \in Workers \ {w} :
         status'[v] = status[v] /\ location'[v] = location[v] /\ stage'[v] = stage[v]
  BY DEF Insert, CommitInDoubt, Answer
<1>5. status[w] = 0 /\ stage[w] = "insert"
  BY DEF Insert, CommitInDoubt
<1>6. rows' \in [Ids -> Names \cup {NoRow}]
  BY <1>2, <1>3
<1>7. \A v \in Workers : status[v] \in {201, 409} => req[v].name # req[w].name
  BY <1>3 DEF AnswersTrue
<1>8. \A v \in Workers : status[v] \in {201, 409} =>
         \E j \in Ids : rows'[j] = req[v].name
  <2> SUFFICES ASSUME NEW v \in Workers, status[v] \in {201, 409}
               PROVE  \E j \in Ids : rows'[j] = req[v].name
    OBVIOUS
  <2>1. PICK j \in Ids : rows[j] = req[v].name
    BY DEF AnswersTrue
  <2>2. req[v].name \in Names
    BY DEF Creates, Updates
  <2>3. j # i
    BY <1>3, <2>1, <2>2, NoRowAssumption
  <2> QED  BY <1>3, <2>1, <2>3
<1>9. \A v \in Workers : location[v] \in Ids => rows'[location[v]] = req[v].name
  <2> SUFFICES ASSUME NEW v \in Workers, location[v] \in Ids
               PROVE  rows'[location[v]] = req[v].name
    OBVIOUS
  <2>1. rows[location[v]] = req[v].name /\ status[v] = 201
    BY LocationsAssumption DEF AnswersTrue
  <2>2. req[v].name \in Names
    BY <2>1 DEF Creates, Updates
  <2> QED  BY <1>3, <2>1, <2>2, NoRowAssumption
<1>10. CASE Insert(w)
  <2>1. PICK k \in Ids : /\ StoreTeam(w, k)
                         /\ \E l \in {k, Garbage} : Answer(w, 201, l)
    BY <1>10 DEF Insert
  <2>2. rows'[k] = req[w].name
    BY <2>1 DEF StoreTeam
  <2>3. PICK l \in {k, Garbage} : Answer(w, 201, l)
    BY <2>1
  <2>4. TypeOK' /\ Staged'
    BY <1>2, <1>5, <1>6, <2>3, LocationsAssumption DEF Answer
  <2>5. AnswersTrue'
    BY <1>2, <1>4, <1>8, <1>9, <2>2, <2>3, LocationsAssumption DEF AnswersTrue, Answer
  <2>6. OneCreator'
    BY <1>2, <1>4, <1>7 DEF OneCreator
  <2> QED  BY <2>4, <2>5, <2>6
<1>11. CASE CommitInDoubt(w)
  <2>1. TypeOK' /\ Staged'
    BY <1>2, <1>5, <1>6, <1>11 DEF CommitInDoubt, Answer, ErrorStatus
  <2>2. status'[w] = 500 /\ location'[w] = NoLocation
    BY <1>11 DEF CommitInDoubt, Answer, ErrorStatus
  <2>3. AnswersTrue'
    BY <1>2, <1>4, <1>8, <1>9, <2>2, LocationsAssumption DEF AnswersTrue
  <2>4. OneCreator'
    BY <1>2, <1>4, <2>2 DEF OneCreator
  <2> QED  BY <2>1, <2>3, <2>4
<1> QED  BY <1>10, <1>11

\* The steps that leave the table alone and answer, or go on to the update.
LEMMA RefuseIInv ==
    ASSUME IInv, NEW w \in Workers,
           InsertRefused(w) \/ Read(w) \/ Update(w) \/ DatabaseError(w)
    PROVE  IInv'
<1> USE LocationsAssumption
    DEF IInv, TypeOK, Staged, AnswersTrue, OneCreator, Goto, Answer
<1>1. CASE InsertRefused(w)
  BY <1>1 DEF InsertRefused, IndexAccepts
<1>2. CASE Read(w)
  BY <1>2 DEF Read
<1>3. CASE Update(w)
  BY <1>3 DEF Update
<1>4. CASE DatabaseError(w)
  BY <1>4 DEF DatabaseError, ErrorStatus
<1> QED  BY <1>1, <1>2, <1>3, <1>4

\* Stages, requests, rows and responses agree in every reachable state.
THEOREM Inductive == Spec => []IInv
<1>1. IInv /\ [Next]_vars => IInv'
  <2> SUFFICES ASSUME IInv, [Next]_vars PROVE IInv'
    OBVIOUS
  <2>1. CASE Next
    BY <2>1, ServeIInv, StoreIInv, RefuseIInv DEF Next
  <2>2. CASE UNCHANGED vars
    BY <2>2 DEF vars, IInv, TypeOK, Staged, AnswersTrue, OneCreator
  <2> QED  BY <2>1, <2>2
<1> QED  BY InitIInv, <1>1, PTL DEF Spec

\* Types, for any sets of workers, ids and names.
THEOREM TypeCorrect == Spec => []TypeOK
BY Inductive, PTL DEF IInv

\* 201 and 409 are given only for names that are stored, however the database
\* fails, and a location that is an id is that of the team.
THEOREM AnswersAreTrue == Spec => []AnswersTrue
BY Inductive, PTL DEF IInv

\* No two clients are told that they created the same team.
THEOREM CreatorsUnique == Spec => []OneCreator
BY Inductive, PTL DEF IInv
==============================================================================
