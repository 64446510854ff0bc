--------------------------- MODULE StandingsProofs ---------------------------
(***************************************************************************)
(* Theorems about Standings, for any teams and any lists of matches.       *)
(***************************************************************************)
EXTENDS Standings, FiniteSetTheorems, TLAPS

\* Where Compute is in its list.
Progress ==
    /\ matches \in MatchLists
    /\ Len(matches) \in Nat /\ DOMAIN matches = 1 .. Len(matches)
    /\ next \in 1 .. Len(matches) + 1
------------------------------------------------------------------------------
\* RowsMatchResults: what one more match does to a record

LEMMA MinOfTwo ==
    ASSUME NEW a \in Int, NEW b \in Int
    PROVE  Min({a, b}) = IF a <= b THEN a ELSE b
<1> DEFINE low == Min({a, b})
<1>1. \E x \in {a, b} : \A y \in {a, b} : x <= y
  OBVIOUS
<1>2. low \in {a, b} /\ \A y \in {a, b} : low <= y
  BY <1>1 DEF Min
<1> HIDE DEF low
<1>3. low = IF a <= b THEN a ELSE b
  BY <1>2
<1> QED  BY <1>3 DEF low

LEMMA CappedScore ==
    ASSUME NEW v \in Int
    PROVE  Capped(v) = ClampScore(v) /\ ClampScore(v) \in 0 .. 10
<1> DEFINE low == Min({10, v})
<1>1. low = IF v < 10 THEN v ELSE 10
  BY MinOfTwo
<1> HIDE DEF low
<1>2. Max({0, low}) = IF low < 0 THEN 0 ELSE low
  <2> DEFINE high == Max({0, low})
  <2>1. \E x \in {0, low} : \A y \in {0, low} : x >= y
    BY <1>1
  <2>2. high \in {0, low} /\ \A y \in {0, low} : high >= y
    BY <2>1 DEF Max
  <2> HIDE DEF high
  <2>3. high = IF low < 0 THEN 0 ELSE low
    BY <1>1, <2>2
  <2> QED  BY <2>3 DEF high
<1>3. Capped(v) = IF low < 0 THEN 0 ELSE low
  BY <1>2 DEF Capped, low
<1> QED  BY <1>1, <1>3 DEF ClampScore

\* What Results says of one match.
LEMMA OneMatch ==
    ASSUME Progress, NEW k \in 1 .. Len(matches)
    PROVE  /\ matches[k].home \in Teams /\ matches[k].away \in Teams
           /\ matches[k].home # matches[k].away
           /\ IsScored(matches[k]) =>
                 matches[k].homeScore \in Int /\ matches[k].awayScore \in Int
<1>1. /\ matches \in Seq(Results)
      /\ matches[k].home # matches[k].away
  BY MatchesAssumption DEF Progress
<1>2. matches[k] \in Results
  BY <1>1
<1> QED  BY <1>1, <1>2 DEF Results, Scores, IsScored

LEMMA UpTo ==
    ASSUME NEW m \in Nat
    PROVE  IsFiniteSet(1 .. m) /\ Cardinality(1 .. m) = m
<1>1. 1 \in Int /\ m \in Int
  OBVIOUS
<1>2. /\ IsFiniteSet(1 .. m)
      /\ Cardinality(1 .. m) = IF 1 > m THEN 0 ELSE m - 1 + 1
  BY ONLY <1>1, FS_Interval, Zenon
<1> QED  BY <1>2

\* The points of match k are v new ones.
LEMMA NewPoints ==
    ASSUME NEW k \in Nat \ {0}, NEW v \in 0 .. 10, NEW P, NEW Q,
           P \subseteq (1 .. k - 1) \X (1 .. 10),
           Q = P \cup {k} \X (1 .. v)
    PROVE  Cardinality(P) \in Nat /\ Cardinality(Q) = Cardinality(P) + v
<1> DEFINE N == {k} \X (1 .. v)
<1>1. IsFiniteSet(P) /\ Cardinality(P) \in Nat
  <2>1. IsFiniteSet(1 .. k - 1) /\ IsFiniteSet(1 .. 10)
    <3>1. k - 1 \in Nat /\ 10 \in Nat
      OBVIOUS
    <3> QED  BY ONLY <3>1, UpTo, Zenon
  <2>2. IsFiniteSet((1 .. k - 1) \X (1 .. 10))
    BY ONLY <2>1, FS_Product, Zenon
  <2>3. IsFiniteSet(P)
    BY ONLY <2>2, P \subseteq (1 .. k - 1) \X (1 .. 10), FS_Subset, Zenon
  <2> QED  BY <2>3, FS_CardinalityType
<1>2. IsFiniteSet(N) /\ Cardinality(N) = v
  <2>1. IsFiniteSet({k}) /\ Cardinality({k}) = 1
    BY FS_Singleton
  <2>2. IsFiniteSet(1 .. v) /\ Cardinality(1 .. v) = v
    BY UpTo
  <2>3. IsFiniteSet(N) /\ Cardinality(N) = Cardinality({k}) * Cardinality(1 .. v)
    BY ONLY <2>1, <2>2, FS_Product, Zenon DEF N
  <2> QED  BY <2>1, <2>2, <2>3
<1>3. P \cap N = {}
  <2>1. \A p \in (1 .. k - 1) \X (1 .. 10) : p[1] # k
    OBVIOUS
  <2>2. \A p \in N : p[1] = k
    OBVIOUS
  <2> HIDE DEF N
  <2> QED  BY <2>1, <2>2
<1> HIDE DEF N
<1>4. Cardinality(P \cup N) = Cardinality(P) + Cardinality(N) - Cardinality(P \cap N)
  BY <1>1, <1>2, FS_Union
<1>5. Cardinality(P \cap N) = 0
  BY <1>3, FS_EmptySet
<1> QED  BY <1>1, <1>2, <1>4, <1>5 DEF N

\* One more match, and what it does to the record of a team.
LEMMA RecordOther ==
    ASSUME Progress, NEW k \in 1 .. Len(matches), NEW t,
           ~IsScored(matches[k]) \/ t \notin {matches[k].home, matches[k].away}
    PROVE  Record(t, k) = Record(t, k - 1)
<1>1. Played(t, k) = Played(t, k - 1)
  BY DEF Played, Progress
<1>2. Won(t, k) = Won(t, k - 1)
  BY <1>1 DEF Won
<1>3. PointsFor(t, k) = PointsFor(t, k - 1) /\ PointsAgainst(t, k) = PointsAgainst(t, k - 1)
  <2>1. k \in Nat \ {0} /\ Played(t, k - 1) \subseteq 1 .. k - 1
    BY DEF Progress, Played
  <2>2. \A p \in (1 .. k) \X (1 .. 10) :
           p[1] \in Played(t, k - 1) => p \in (1 .. k - 1) \X (1 .. 10)
    BY <2>1
  <2>3. (1 .. k - 1) \X (1 .. 10) \subseteq (1 .. k) \X (1 .. 10)
    BY <2>1
  <2> QED  BY <1>1, <2>2, <2>3 DEF PointsFor, PointsAgainst
<1> QED  BY <1>2, <1>3 DEF Record

LEMMA RecordPlayer ==
    ASSUME Progress, NEW k \in 1 .. Len(matches), IsScored(matches[k]),
           NEW t \in {matches[k].home, matches[k].away}
    PROVE  LET h == ClampScore(matches[k].homeScore)
               a == ClampScore(matches[k].awayScore)
               f == IF matches[k].home = t THEN h ELSE a
               g == IF matches[k].home = t THEN a ELSE h
               old == Record(t, k - 1)
           IN  Record(t, k) = [wins |-> old.wins + Wins(f, g),
                               pointsFor |-> old.pointsFor + f,
                               pointsAgainst |-> old.pointsAgainst + g]
<1> DEFINE h == ClampScore(matches[k].homeScore)
           a == ClampScore(matches[k].awayScore)
           f == IF matches[k].home = t THEN h ELSE a
           g == IF matches[k].home = t THEN a ELSE h
           p == Played(t, k - 1)
<1>1. f = For(t, k) /\ g = Against(t, k) /\ f \in 0 .. 10 /\ g \in 0 .. 10
  BY OneMatch, CappedScore DEF For, Against
<1> HIDE DEF f, g
<1>2. /\ Played(t, k) = p \cup {k} /\ k \notin p /\ p \subseteq 1 .. k - 1
      /\ k \in Nat \ {0}
  BY DEF Played, Progress
<1> HIDE DEF p
<1>3. Cardinality(Won(t, k)) = Cardinality(Won(t, k - 1)) + Wins(f, g)
  <2>1. /\ Won(t, k) = IF f > g THEN Won(t, k - 1) \cup {k} ELSE Won(t, k - 1)
        /\ k \notin Won(t, k - 1) /\ Won(t, k - 1) \subseteq 1 .. k - 1
    BY <1>1, <1>2 DEF Won, p
  <2>2. IsFiniteSet(1 .. k - 1)
    BY <1>2, UpTo
  <2>3. IsFiniteSet(Won(t, k - 1))
    BY <2>1, <2>2, FS_Subset
  <2> QED  BY <1>1, <2>1, <2>3, FS_AddElement, FS_CardinalityType DEF Wins
<1>4. ASSUME NEW q \in (1 .. k) \X (1 .. 10)
      PROVE  /\ q[1] \in p <=> q[1] \in p /\ q \in (1 .. k - 1) \X (1 .. 10)
             /\ \A v \in 0 .. 10 :
                   q \in {k} \X (1 .. v) <=> q[1] = k /\ q[2] <= v
  BY <1>2
<1>5. \A v \in 0 .. 10 : {k} \X (1 .. v) \subseteq (1 .. k) \X (1 .. 10)
  BY <1>2
<1>6. (1 .. k - 1) \X (1 .. 10) \subseteq (1 .. k) \X (1 .. 10)
  BY <1>2
<1>7. Cardinality(PointsFor(t, k)) = Cardinality(PointsFor(t, k - 1)) + f
  <2>1. PointsFor(t, k - 1) \subseteq (1 .. k - 1) \X (1 .. 10)
    BY DEF PointsFor
  <2>2. PointsFor(t, k) = PointsFor(t, k - 1) \cup {k} \X (1 .. f)
    <3>1. \A q \in (1 .. k) \X (1 .. 10) :
             q \in PointsFor(t, k) <=> \/ q \in PointsFor(t, k - 1)
                                    \/ q \in {k} \X (1 .. f)
      BY <1>1, <1>2, <1>4 DEF PointsFor, p
    <3>2. PointsFor(t, k) \subseteq (1 .. k) \X (1 .. 10)
      BY DEF PointsFor
    <3> QED  BY <1>1, <1>5, <1>6, <2>1, <3>1, <3>2
  <2> QED  BY <1>1, <1>2, <2>1, <2>2, NewPoints
<1>8. Cardinality(PointsAgainst(t, k)) = Cardinality(PointsAgainst(t, k - 1)) + g
  <2>1. PointsAgainst(t, k - 1) \subseteq (1 .. k - 1) \X (1 .. 10)
    BY DEF PointsAgainst
  <2>2. PointsAgainst(t, k) = PointsAgainst(t, k - 1) \cup {k} \X (1 .. g)
    <3>1. \A q \in (1 .. k) \X (1 .. 10) :
             q \in PointsAgainst(t, k) <=> \/ q \in PointsAgainst(t, k - 1)
                                    \/ q \in {k} \X (1 .. g)
      BY <1>1, <1>2, <1>4 DEF PointsAgainst, p
    <3>2. PointsAgainst(t, k) \subseteq (1 .. k) \X (1 .. 10)
      BY DEF PointsAgainst
    <3> QED  BY <1>1, <1>5, <1>6, <2>1, <3>1, <3>2
  <2> QED  BY <1>1, <1>2, <2>1, <2>2, NewPoints
<1> QED  BY <1>3, <1>7, <1>8 DEF Record, f, g

LEMMA RankedGrows ==
    ASSUME Progress, NEW k \in 1 .. Len(matches)
    PROVE  /\ Ranked(k) = IF IsScored(matches[k])
                          THEN Ranked(k - 1) \cup {matches[k].home, matches[k].away}
                          ELSE Ranked(k - 1)
           /\ Ranked(0) = {}
<1>1. k \in Nat \ {0} /\ 1 .. k = (1 .. k - 1) \cup {k}
  BY DEF Progress
<1> QED  BY <1>1 DEF Ranked

\* Who has not played has no record.
LEMMA NoRecord ==
    ASSUME NEW k \in Nat, NEW t, t \notin Ranked(k)
    PROVE  Record(t, k) = EmptyRow
<1>1. Played(t, k) = {}
  BY DEF Played, Ranked
<1>2. Won(t, k) = {} /\ PointsFor(t, k) = {} /\ PointsAgainst(t, k) = {}
  BY <1>1 DEF Won, PointsFor, PointsAgainst
<1> QED  BY <1>2, FS_EmptySet DEF Record, EmptyRow

LEMMA CountKeepsRows ==
    ASSUME Progress, RowsMatchResults, CountMatch
    PROVE  rows' = [t \in Ranked(next) |-> Record(t, next)]
<1> DEFINE m == matches[next]
           h == ClampScore(m.homeScore)
           a == ClampScore(m.awayScore)
           R == Ranked(next - 1)
           S == Ranked(next)
<1>1. /\ next \in 1 .. Len(matches)
      /\ rows' = IF IsScored(m)
                 THEN Credit(Credit(rows, m.home, h, a), m.away, a, h)
                 ELSE rows
  BY DEF CountMatch, Progress
<1>2. DOMAIN rows = R /\ \A t \in R : rows[t] = Record(t, next - 1)
  BY DEF RowsMatchResults
<1>3. \A t : t \notin R => Record(t, next - 1) = EmptyRow
  BY <1>1, NoRecord DEF Progress
<1>4. m.home # m.away
  BY <1>1, OneMatch
<1>5. CASE ~IsScored(m)
  <2>1. S = R /\ \A t : Record(t, next) = Record(t, next - 1)
    BY <1>1, <1>5, RankedGrows, RecordOther
  <2> QED  BY <1>1, <1>5, <2>1 DEF RowsMatchResults
<1>6. CASE IsScored(m)
  <2> DEFINE after(old, f, g) == [wins |-> old.wins + Wins(f, g),
                                  pointsFor |-> old.pointsFor + f,
                                  pointsAgainst |-> old.pointsAgainst + g]
             one == Credit(rows, m.home, h, a)
             two == Credit(one, m.away, a, h)
  <2>1. S = R \cup {m.home, m.away}
    BY <1>1, <1>6, RankedGrows
  <2>2. /\ Record(m.home, next) = after(Record(m.home, next - 1), h, a)
        /\ Record(m.away, next) = after(Record(m.away, next - 1), a, h)
    BY <1>1, <1>4, <1>6, RecordPlayer
  <2>3. \A t : t \notin {m.home, m.away} => Record(t, next) = Record(t, next - 1)
    BY <1>1, RecordOther
  <2> HIDE DEF h, a, R, S
  <2>4. one = [t \in R \cup {m.home} |->
                 IF t = m.home THEN after(Record(t, next - 1), h, a) ELSE rows[t]]
    BY <1>2, <1>3 DEF Credit
  <2>5. two = [t \in R \cup {m.home} \cup {m.away} |->
                 IF t = m.away THEN after(Record(t, next - 1), a, h) ELSE one[t]]
    BY <1>2, <1>3, <1>4, <2>4 DEF Credit
  <2> HIDE DEF one, two
  <2>6. \A t \in S : (IF t = m.away THEN after(Record(t, next - 1), a, h) ELSE one[t])
                        = Record(t, next)
    BY <1>2, <1>4, <2>1, <2>2, <2>3, <2>4
  <2>7. two = [t \in S |-> Record(t, next)]
    BY <2>1, <2>5, <2>6
  <2> QED  BY <1>1, <1>6, <2>7 DEF one, two, h, a, S
<1> QED  BY <1>5, <1>6 DEF S

\* The first two conjuncts of the inductive invariant.
LEMMA RowsStep ==
    ASSUME Progress, RowsMatchResults, [Next]_vars
    PROVE  Progress' /\ RowsMatchResults'
<1>1. CASE CountMatch
  <2>1. /\ rows' = [t \in Ranked(next) |-> Record(t, next)]
        /\ matches' = matches /\ next' = next + 1 /\ next <= Len(matches)
    BY <1>1, CountKeepsRows DEF CountMatch
  <2>2. Progress' /\ next' - 1 = next
    BY <2>1 DEF Progress
  <2> QED  BY <2>1, <2>2
           DEF RowsMatchResults, Ranked, Record, Won, PointsFor, PointsAgainst, Played,
               For, Against
<1>2. CASE UNCHANGED <<matches, next, rows>>
  BY <1>2 DEF Progress, RowsMatchResults, Ranked, Record, Won, PointsFor,
              PointsAgainst, Played, For, Against
<1> QED  BY <1>1, <1>2 DEF Next, SortNext, BuildTop8, vars

LEMMA RowsStart == Init => Progress /\ RowsMatchResults
<1> SUFFICES ASSUME Init PROVE Progress /\ RowsMatchResults
  OBVIOUS
<1>1. matches \in Seq(Results)
  BY MatchesAssumption DEF Init
<1>2. Progress
  BY <1>1 DEF Progress, Init
<1>3. Ranked(next - 1) = {}
  BY DEF Init, Ranked
<1> QED  BY <1>2, <1>3 DEF Init, RowsMatchResults

\* Whatever the list of matches, the rows are the records of the teams.
THEOREM RowsAreRecords == Spec => []RowsMatchResults
<1>1. Progress /\ RowsMatchResults /\ [Next]_vars => Progress' /\ RowsMatchResults'
  BY RowsStep
<1> QED  BY <1>1, RowsStart, PTL DEF Spec
------------------------------------------------------------------------------
\* BestQualify: the order of the table, and who is in the bracket

\* The table so far is a sorted list of some teams, and those that are still to
\* be placed are none better than any of them.
TableOK ==
    /\ table \in Seq(DOMAIN rows)
    /\ table # <<>> => next > Len(matches)
    /\ \A i, j \in DOMAIN table : table[i] = table[j] => i = j
    /\ \A i, j \in DOMAIN table : i < j => ~Before(rows[table[j]], rows[table[i]])
    /\ \A i \in DOMAIN table : \A u \in Unsorted : ~Before(rows[u], rows[table[i]])

\* The bracket is that of the whole table.
BracketOK ==
    bracket # NoBracket =>
        /\ next > Len(matches) /\ Unsorted = {}
        /\ bracket = BuildTop8FromSeeds(Seeds)

IInv == Progress /\ RowsMatchResults /\ TableOK /\ BracketOK

LEMMA SortStep ==
    ASSUME TableOK, SortNext
    PROVE  TableOK'
<1>1. PICK t \in Unsorted :
         /\ \A u \in Unsorted : ~Before(rows[u], rows[t])
         /\ table' = Append(table, t)
         /\ next > Len(matches) /\ UNCHANGED <<matches, next, rows>>
  BY DEF SortNext
<1>2. /\ table \in Seq(DOMAIN rows) /\ t \in DOMAIN rows
      /\ \A i \in DOMAIN table : table[i] # t
      /\ DOMAIN table = 1 .. Len(table) /\ Len(table) \in Nat
  BY DEF TableOK, Unsorted, Range
<1>3. /\ table' \in Seq(DOMAIN rows) /\ DOMAIN table' = 1 .. Len(table) + 1
      /\ table'[Len(table) + 1] = t
      /\ \A i \in 1 .. Len(table) : table'[i] = table[i]
  BY <1>1, <1>2
<1>4. Unsorted' \subseteq Unsorted
  <2>1. Range(table) \subseteq Range(table')
    BY <1>2, <1>3 DEF Range
  <2> QED  BY <1>1, <2>1 DEF Unsorted
<1>5. \A i, j \in DOMAIN table' : table'[i] = table'[j] => i = j
  BY <1>2, <1>3 DEF TableOK
<1>6. \A i \in DOMAIN table' : i = Len(table) + 1 \/ i \in DOMAIN table
  BY <1>2, <1>3
<1>7. \A i, j \in DOMAIN table' :
         i < j => ~Before(rows[table'[j]], rows[table'[i]])
  <2> SUFFICES ASSUME NEW i \in DOMAIN table', NEW j \in DOMAIN table', i < j
               PROVE  ~Before(rows[table'[j]], rows[table'[i]])
    OBVIOUS
  <2>1. i \in DOMAIN table /\ table'[i] = table[i]
    BY <1>2, <1>3
  <2>2. CASE j = Len(table) + 1
    BY <1>1, <1>3, <2>1, <2>2 DEF TableOK
  <2>3. CASE j \in DOMAIN table
    BY <1>2, <1>3, <2>1, <2>3 DEF TableOK
  <2> QED  BY <1>6, <2>2, <2>3
<1>8. \A i \in DOMAIN table' : \A u \in Unsorted' : ~Before(rows[u], rows[table'[i]])
  <2> SUFFICES ASSUME NEW i \in DOMAIN table', NEW u \in Unsorted
               PROVE  ~Before(rows[u], rows[table'[i]])
    BY <1>4
  <2>1. CASE i = Len(table) + 1
    BY <1>1, <1>3, <2>1
  <2>2. CASE i \in DOMAIN table
    BY <1>2, <1>3, <2>2 DEF TableOK
  <2> QED  BY <1>6, <2>1, <2>2
<1> QED  BY <1>1, <1>3, <1>5, <1>7, <1>8 DEF TableOK, Before

LEMMA StepIInv == IInv /\ [Next]_vars => IInv'
<1> SUFFICES ASSUME IInv, [Next]_vars PROVE IInv'
  OBVIOUS
<1>1. Progress' /\ RowsMatchResults'
  BY RowsStep DEF IInv
<1>2. CASE CountMatch
  <2>1. table = <<>> /\ table' = <<>> /\ bracket = NoBracket /\ bracket' = NoBracket
    BY <1>2 DEF IInv, TableOK, BracketOK, CountMatch, Progress
  <2>2. TableOK' /\ BracketOK'
    BY <2>1 DEF TableOK, BracketOK
  <2> QED  BY <1>1, <2>2 DEF IInv
<1>3. CASE SortNext
  <2>1. bracket = NoBracket /\ bracket' = bracket
    BY <1>3 DEF SortNext, IInv, BracketOK
  <2> QED  BY <1>1, <1>3, <2>1, SortStep DEF IInv, BracketOK
<1>4. CASE BuildTop8
  <2>1. /\ UNCHANGED <<matches, next, rows, table>> /\ Unsorted = {}
        /\ next > Len(matches) /\ bracket' = BuildTop8FromSeeds(Seeds)
    BY <1>4 DEF BuildTop8
  <2>2. Unsorted' = Unsorted /\ Seeds' = Seeds
    BY <2>1 DEF Unsorted, Seeds
  <2> QED  BY <1>1, <2>1, <2>2 DEF IInv, TableOK, BracketOK
<1>5. CASE UNCHANGED vars
  <2>1. Unsorted' = Unsorted /\ Seeds' = Seeds
    BY <1>5 DEF vars, Unsorted, Seeds
  <2> QED  BY <1>1, <1>5, <2>1 DEF vars, IInv, TableOK, BracketOK
<1> QED  BY <1>2, <1>3, <1>4, <1>5 DEF Next

\* In every state the rows are right, the table is sorted as far as it goes, and
\* the bracket is that of the table.
THEOREM Inductive == Spec => []IInv
<1>1. Init => IInv
  BY RowsStart DEF Init, IInv, TableOK, BracketOK
<1> QED  BY <1>1, StepIInv, PTL DEF Spec

\* A better row has more merit, as long as points stay below the base.
LEMMA MeritOrder ==
    ASSUME NEW B \in Nat, NEW v \in Nat, NEW w \in Nat,
           NEW f \in 0 .. B - 1, NEW g \in 0 .. B - 1,
           NEW a \in 0 .. B - 1, NEW b \in 0 .. B - 1,
           v > w \/ (v = w /\ f > g) \/ (v = w /\ f = g /\ a <= b)
    PROVE  (v * B + f) * B - a >= (w * B + g) * B - b
<1> DEFINE x == v * B + f
           y == w * B + g
<1>1. v * B \in Nat /\ w * B \in Nat /\ x \in Nat /\ y \in Nat
  <2>1. v * B \in Nat /\ w * B \in Nat
    OBVIOUS
  <2> QED  BY <2>1
<1>2. x > y \/ (x = y /\ a <= b)
  <2>1. CASE v > w
    <3>1. v >= w + 1 /\ v \in Nat /\ w + 1 \in Nat /\ B \in Nat
      BY <2>1
    <3>2. v * B >= (w + 1) * B
      BY ONLY <3>1
    <3>3. (w + 1) * B = w * B + B
      OBVIOUS
    <3> QED  BY <1>1, <3>2, <3>3
  <2>2. CASE v = w
    BY <1>1, <2>2
  <2> QED  BY <2>1, <2>2
<1> HIDE DEF x, y
<1>3. CASE x = y /\ a <= b
  BY <1>1, <1>3
<1>4. CASE x > y
  <2>1. x >= y + 1 /\ B \in Nat /\ y + 1 \in Nat /\ x \in Nat
    BY <1>1, <1>4
  <2>2. x * B >= (y + 1) * B
    BY ONLY <2>1
  <2>3. (y + 1) * B = y * B + B /\ x * B \in Nat /\ y * B \in Nat
    BY <1>1
  <2>4. x * B >= y * B + B
    BY ONLY <2>2, <2>3
  <2>5. x * B - a >= y * B - b
    BY <2>3, <2>4
  <2> QED  BY <2>5 DEF x, y
<1> QED  BY <1>2, <1>3, <1>4 DEF x, y

LEMMA RecordBounds ==
    ASSUME Progress, NEW t
    PROVE  LET r == Record(t, Len(matches)) IN
           /\ r.wins \in Nat /\ Base \in Nat
           /\ r.pointsFor \in 0 .. Base - 1 /\ r.pointsAgainst \in 0 .. Base - 1
<1> DEFINE n == Len(matches)
           Box == (1 .. n) \X (1 .. 10)
<1>1. n \in Nat /\ 10 \in Nat
  BY DEF Progress
<1>2. /\ IsFiniteSet(1 .. n) /\ Cardinality(1 .. n) = n
      /\ IsFiniteSet(1 .. 10) /\ Cardinality(1 .. 10) = 10
  BY ONLY <1>1, UpTo, Zenon
<1>3. IsFiniteSet(Box) /\ Cardinality(Box) = Cardinality(1 .. n) * Cardinality(1 .. 10)
  BY ONLY <1>2, FS_Product, Zenon DEF Box
<1>4. Cardinality(Box) = 10 * n
  BY <1>1, <1>2, <1>3
<1>5. PointsFor(t, n) \subseteq Box /\ PointsAgainst(t, n) \subseteq Box
      /\ Won(t, n) \subseteq 1 .. n
  BY DEF PointsFor, PointsAgainst, Won, Played
<1> HIDE DEF n, Box
<1>6. /\ Cardinality(PointsFor(t, n)) \in Nat /\ Cardinality(PointsFor(t, n)) <= 10 * n
      /\ Cardinality(PointsAgainst(t, n)) \in Nat
      /\ Cardinality(PointsAgainst(t, n)) <= 10 * n
      /\ Cardinality(Won(t, n)) \in Nat
  BY <1>2, <1>3, <1>4, <1>5, FS_Subset, FS_CardinalityType
<1>7. Base = 10 * n + 1
  BY DEF Base, n
<1> QED  BY <1>1, <1>6, <1>7 DEF Record, n

\* The first eight of the table, if there are eight.
LEMMA SeedsAre ==
    ASSUME NEW S, table \in Seq(S)
    PROVE  /\ Len(table) < 8 => Seeds \in Seq(S) /\ Len(Seeds) < 8
           /\ Len(table) >= 8 => /\ Seeds \in Seq(S) /\ Len(Seeds) = 8
                                 /\ \A i \in 1 .. 8 : Seeds[i] = table[i]
<1> DEFINE m == Min({8, Len(table)})
<1>1. Len(table) \in Nat /\ m = IF 8 <= Len(table) THEN 8 ELSE Len(table)
  BY MinOfTwo
<1> HIDE DEF m
<1>2. m \in 0 .. Len(table)
  BY <1>1
<1>3. \A i \in 1 .. m : table[i] \in S
  BY <1>2
<1>4. SubSeq(table, 1, m) \in Seq(S) /\ Len(SubSeq(table, 1, m)) = m
      /\ \A i \in 1 .. m : SubSeq(table, 1, m)[i] = table[i]
  BY <1>2, <1>3
<1>5. Seeds = SubSeq(table, 1, m)
  BY DEF Seeds, m
<1> QED  BY <1>1, <1>4, <1>5

LEMMA Joined ==
    ASSUME NEW S, NEW s \in Seq(S), NEW t \in Seq(S)
    PROVE  /\ Len(s \o t) = Len(s) + Len(t) /\ DOMAIN (s \o t) = 1 .. Len(s) + Len(t)
           /\ \A k \in 1 .. Len(s) + Len(t) :
                 (s \o t)[k] = IF k <= Len(s) THEN s[k] ELSE t[k - Len(s)]
OBVIOUS

\* The bracket, match by match.
LEMMA BracketShape ==
    ASSUME NEW s \in Seq(Teams), Len(s) = 8
    PROVE  LET b == BuildTop8FromSeeds(s)
               u == <<s[1], s[8]>>   v == <<s[4], s[5]>>
               w == <<s[3], s[6]>>   x == <<s[2], s[7]>>
           IN  /\ Len(b) = 7 /\ DOMAIN b = 1 .. 7 /\ b # <<>>
               /\ b[1] = Match(s[1], s[8], 1) /\ b[2] = Match(s[4], s[5], 1)
               /\ b[3] = Match(s[3], s[6], 1) /\ b[4] = Match(s[2], s[7], 1)
               /\ b[5] = Match(u, v, 2) /\ b[6] = Match(w, x, 2)
               /\ b[7] = Match(<<u, v>>, <<w, x>>, 3)
<1> DEFINE b == BuildTop8FromSeeds(s)
           u == <<s[1], s[8]>>
           v == <<s[4], s[5]>>
           w == <<s[3], s[6]>>
           x == <<s[2], s[7]>>
           late == <<Match(u, v, 2), Match(w, x, 2), Match(<<u, v>>, <<w, x>>, 3)>>
<1>1. b = FirstRound(s) \o late
  <2>1. /\ W(FirstRound(s)[1]) = u /\ W(FirstRound(s)[2]) = v
        /\ W(FirstRound(s)[3]) = w /\ W(FirstRound(s)[4]) = x
    BY DEF FirstRound, Match, W
  <2>2. W(Match(u, v, 2)) = <<u, v>> /\ W(Match(w, x, 2)) = <<w, x>>
    BY DEF Match, W
  <2>3. ~(Len(s) < 8)
    OBVIOUS
  <2> HIDE DEF u, v, w, x
  <2> QED  BY <2>1, <2>2, <2>3, Zenon DEF BuildTop8FromSeeds
<1> HIDE DEF b
<1>2. /\ Len(FirstRound(s)) = 4 /\ Len(late) = 3
      /\ FirstRound(s)[1] = Match(s[1], s[8], 1) /\ FirstRound(s)[2] = Match(s[4], s[5], 1)
      /\ FirstRound(s)[3] = Match(s[3], s[6], 1) /\ FirstRound(s)[4] = Match(s[2], s[7], 1)
  BY DEF FirstRound
<1>3. /\ late[1] = Match(u, v, 2) /\ late[2] = Match(w, x, 2)
      /\ late[3] = Match(<<u, v>>, <<w, x>>, 3)
  OBVIOUS
<1>4. /\ Len(b) = 7 /\ DOMAIN b = 1 .. 7 /\ b # <<>>
      /\ b[1] = FirstRound(s)[1] /\ b[2] = FirstRound(s)[2]
      /\ b[3] = FirstRound(s)[3] /\ b[4] = FirstRound(s)[4]
      /\ b[5] = late[1] /\ b[6] = late[2] /\ b[7] = late[3]
  <2>1. \E S : FirstRound(s) \in Seq(S) /\ late \in Seq(S)
    <3> DEFINE S == {Match(s[1], s[8], 1), Match(s[4], s[5], 1), Match(s[3], s[6], 1),
                     Match(s[2], s[7], 1), Match(u, v, 2), Match(w, x, 2),
                     Match(<<u, v>>, <<w, x>>, 3)}
    <3>1. FirstRound(s) \in Seq(S)
      BY DEF FirstRound
    <3>2. late \in Seq(S)
      OBVIOUS
    <3> QED  BY <3>1, <3>2
  <2> HIDE DEF late
  <2> DEFINE f == FirstRound(s)
  <2>2. /\ Len(b) = Len(f) + Len(late) /\ DOMAIN b = 1 .. Len(f) + Len(late)
        /\ \A k \in 1 .. Len(f) + Len(late) :
              b[k] = IF k <= Len(f) THEN f[k] ELSE late[k - Len(f)]
    BY ONLY <1>1, <2>1, Joined, Zenon
  <2> HIDE DEF f
  <2>3. Len(f) = 4 /\ Len(late) = 3
    BY <1>2 DEF f
  <2>4. Len(b) = 7 /\ DOMAIN b = 1 .. 7
    BY <2>2, <2>3
  <2>5. /\ b[1] = f[1] /\ b[2] = f[2] /\ b[3] = f[3] /\ b[4] = f[4]
        /\ b[5] = late[1] /\ b[6] = late[2] /\ b[7] = late[3]
    BY <2>2, <2>3
  <2>6. b # <<>>
    BY ONLY <2>4
  <2> QED  BY <2>4, <2>5, <2>6 DEF f
<1> HIDE DEF u, v, w, x, late
<1>5. /\ b[1] = Match(s[1], s[8], 1) /\ b[2] = Match(s[4], s[5], 1)
      /\ b[3] = Match(s[3], s[6], 1) /\ b[4] = Match(s[2], s[7], 1)
      /\ b[5] = Match(u, v, 2) /\ b[6] = Match(w, x, 2)
      /\ b[7] = Match(<<u, v>>, <<w, x>>, 3)
  BY <1>2, <1>3, <1>4
<1> QED  BY <1>4, <1>5, Zenon DEF b, u, v, w, x

\* Whom the finished table and its bracket are made of.
LEMMA Finished ==
    ASSUME IInv, bracket # NoBracket
    PROVE  LET all == Ranked(Len(matches)) IN
           /\ table \in Seq(all) /\ all \subseteq Teams /\ DOMAIN rows = all
           /\ \A t \in all : \E i \in 1 .. Len(table) : t = table[i]
           /\ \A t \in all : rows[t] = Record(t, Len(matches))
           /\ DOMAIN table = 1 .. Len(table) /\ Len(table) \in Nat
           /\ IsFiniteSet(all) /\ Cardinality(all) = Len(table)
<1> DEFINE all == Ranked(Len(matches))
<1>1. next - 1 = Len(matches) /\ Unsorted = {}
  BY DEF IInv, Progress, BracketOK
<1>2. DOMAIN rows = all /\ \A t \in all : rows[t] = Record(t, Len(matches))
  BY <1>1 DEF IInv, RowsMatchResults
<1>3. all \subseteq Teams
  BY OneMatch DEF Ranked, IInv
<1> HIDE DEF all
<1>4. /\ table \in Seq(all) /\ DOMAIN table = 1 .. Len(table) /\ Len(table) \in Nat
      /\ \A i, j \in 1 .. Len(table) : table[i] = table[j] => i = j
      /\ table \in [1 .. Len(table) -> all]
  BY <1>2 DEF IInv, TableOK
<1>5. \A t \in all : \E i \in 1 .. Len(table) : t = table[i]
  BY <1>1, <1>2, <1>4 DEF Unsorted, Range
<1>6. table \in Surjection(1 .. Len(table), all) /\ table \in Injection(1 .. Len(table), all)
  BY <1>4, <1>5 DEF Surjection, Injection, IsInjective
<1>7. IsFiniteSet(1 .. Len(table)) /\ Cardinality(1 .. Len(table)) = Len(table)
  BY <1>4, UpTo
<1>8. IsFiniteSet(all) /\ Cardinality(all) = Len(table)
  BY <1>6, <1>7, FS_Surjection
<1> QED  BY <1>2, <1>3, <1>4, <1>5, <1>8 DEF all

\* A placeholder is nobody.
LEMMA Placeholders ==
    ASSUME NEW s \in Seq(Teams), Len(s) = 8
    PROVE  /\ \A i \in 1 .. 8 : s[i] \in Teams
           /\ \A i, j \in 1 .. 8 : <<s[i], s[j]>> \notin Teams
           /\ \A i, j, k, l \in 1 .. 8 : <<<<s[i], s[j]>>, <<s[k], s[l]>>>> \notin Teams
<1>1. \A i \in 1 .. 8 : s[i] \in Teams
  <2>1. \A i \in 1 .. Len(s) : s[i] \in Teams
    BY ONLY s \in Seq(Teams)
  <2> QED  BY <2>1
<1>2. \A i, j \in 1 .. 8 : <<s[i], s[j]>> \in PairsOfTeams
  BY <1>1 DEF PairsOfTeams
<1>3. \A i, j, k, l \in 1 .. 8 :
         <<<<s[i], s[j]>>, <<s[k], s[l]>>>> \in PairsOfTeams \X PairsOfTeams
  BY <1>2
<1> QED  BY <1>1, <1>2, <1>3, PlaceholdersAssumption

\* Who is in the bracket: the first eight of the table, if there are eight.
LEMMA InBracket ==
    ASSUME IInv, bracket # NoBracket
    PROVE  LET all == Ranked(Len(matches))
               in == {t \in all : \E i \in DOMAIN bracket :
                                     t \in {bracket[i].home, bracket[i].away}}
           IN  in = IF Len(table) < 8 THEN {} ELSE {table[i] : i \in 1 .. 8}
<1> DEFINE all == Ranked(Len(matches))
           in == {t \in all : \E i \in DOMAIN bracket :
                                 t \in {bracket[i].home, bracket[i].away}}
<1>1. /\ table \in Seq(all) /\ all \subseteq Teams /\ Len(table) \in Nat
      /\ bracket = BuildTop8FromSeeds(Seeds)
  BY Finished DEF IInv, BracketOK
<1> SUFFICES in = IF Len(table) < 8 THEN {} ELSE {table[i] : i \in 1 .. 8}
  OBVIOUS
<1> HIDE DEF all
<1>2. CASE Len(table) < 8
  <2>1. bracket = <<>>
    BY <1>1, <1>2, SeedsAre DEF BuildTop8FromSeeds
  <2>2. in = {}
    BY <2>1
  <2> QED  BY <1>2, <2>2 DEF all
<1>3. CASE Len(table) >= 8
  <2>1. Seeds \in Seq(Teams) /\ Len(Seeds) = 8 /\ \A i \in 1 .. 8 : Seeds[i] = table[i]
    <3>1. table \in Seq(Teams)
      BY <1>1
    <3> QED  BY <1>3, <3>1, SeedsAre
  <2> DEFINE s == Seeds
  <2> HIDE DEF s
  <2>2. /\ DOMAIN bracket = 1 .. 7
        /\ bracket[1] = Match(s[1], s[8], 1) /\ bracket[2] = Match(s[4], s[5], 1)
        /\ bracket[3] = Match(s[3], s[6], 1) /\ bracket[4] = Match(s[2], s[7], 1)
        /\ bracket[5] = Match(<<s[1], s[8]>>, <<s[4], s[5]>>, 2)
        /\ bracket[6] = Match(<<s[3], s[6]>>, <<s[2], s[7]>>, 2)
        /\ bracket[7] = Match(<<<<s[1], s[8]>>, <<s[4], s[5]>>>>,
                              <<<<s[3], s[6]>>, <<s[2], s[7]>>>>, 3)
    BY <1>1, <2>1, BracketShape DEF s
  <2>3. /\ \A i, j \in 1 .. 8 : <<s[i], s[j]>> \notin all
        /\ \A i, j, k, l \in 1 .. 8 : <<<<s[i], s[j]>>, <<s[k], s[l]>>>> \notin all
    BY <1>1, <2>1, Placeholders DEF s
  <2>4. \A t \in all : t \in in <=> \E i \in 1 .. 8 : t = s[i]
    <3> SUFFICES ASSUME NEW t \in all PROVE t \in in <=> \E i \in 1 .. 8 : t = s[i]
      OBVIOUS
    <3>1. t \in in <=> \E i \in 1 .. 7 : t = bracket[i].home \/ t = bracket[i].away
      BY <2>2
    <3>2. /\ bracket[1].home = s[1] /\ bracket[1].away = s[8]
          /\ bracket[2].home = s[4] /\ bracket[2].away = s[5]
          /\ bracket[3].home = s[3] /\ bracket[3].away = s[6]
          /\ bracket[4].home = s[2] /\ bracket[4].away = s[7]
      BY <2>2 DEF Match
    <3>3. /\ t # bracket[5].home /\ t # bracket[5].away
          /\ t # bracket[6].home /\ t # bracket[6].away
          /\ t # bracket[7].home /\ t # bracket[7].away
      <4>1. /\ bracket[5].home = <<s[1], s[8]>> /\ bracket[5].away = <<s[4], s[5]>>
            /\ bracket[6].home = <<s[3], s[6]>> /\ bracket[6].away = <<s[2], s[7]>>
            /\ bracket[7].home = <<<<s[1], s[8]>>, <<s[4], s[5]>>>>
            /\ bracket[7].away = <<<<s[3], s[6]>>, <<s[2], s[7]>>>>
        BY <2>2 DEF Match
      <4>2. 1 \in 1..8 /\ 2 \in 1..8 /\ 3 \in 1..8 /\ 4 \in 1..8
            /\ 5 \in 1..8 /\ 6 \in 1..8 /\ 7 \in 1..8 /\ 8 \in 1..8
        OBVIOUS
      <4>3. /\ <<s[1], s[8]>> \notin all /\ <<s[4], s[5]>> \notin all
            /\ <<s[3], s[6]>> \notin all /\ <<s[2], s[7]>> \notin all
        BY ONLY <2>3, <4>2, Zenon
      <4>4. /\ <<<<s[1], s[8]>>, <<s[4], s[5]>>>> \notin all
            /\ <<<<s[3], s[6]>>, <<s[2], s[7]>>>> \notin all
        BY ONLY <2>3, <4>2, Zenon
      <4> QED  BY ONLY <4>1, <4>3, <4>4, t \in all
    <3>4. /\ \A i \in 1 .. 7 : i = 1 \/ i = 2 \/ i = 3 \/ i = 4 \/ i = 5 \/ i = 6 \/ i = 7
          /\ \A i \in 1 .. 8 : \/ i = 1 \/ i = 2 \/ i = 3 \/ i = 4
                               \/ i = 5 \/ i = 6 \/ i = 7 \/ i = 8
      OBVIOUS
    <3> HIDE DEF in
    <3>5. CASE t \in in
      BY <3>1, <3>2, <3>3, <3>4, <3>5
    <3>6. CASE \E i \in 1 .. 8 : t = s[i]
      BY <3>1, <3>2, <3>4, <3>6
    <3> QED  BY <3>5, <3>6
  <2>5. \A i \in 1 .. 8 : s[i] \in all /\ s[i] = table[i]
    BY <1>1, <1>3, <2>1 DEF s
  <2>6. in = {table[i] : i \in 1 .. 8}
    BY <2>4, <2>5
  <2> QED  BY <1>1, <1>3, <2>6 DEF all
<1> HIDE DEF in
<1> QED  BY <1>1, <1>2, <1>3

\* The best eight of any list of results are the ones in the bracket, however the
\* sort breaks ties.
THEOREM TheBestQualify == Spec => []BestQualify
<1>1. IInv => BestQualify
  <2> SUFFICES ASSUME IInv, bracket # NoBracket PROVE BestQualify
    BY DEF BestQualify
  <2> DEFINE all == Ranked(Len(matches))
             in == {t \in all : \E i \in DOMAIN bracket :
                                   t \in {bracket[i].home, bracket[i].away}}
  <2>1. in = IF Len(table) < 8 THEN {} ELSE {table[i] : i \in 1 .. 8}
    BY InBracket
  <2>2. /\ \A t \in all : \E i \in 1 .. Len(table) : t = table[i]
        /\ \A t \in all : rows[t] = Record(t, Len(matches))
        /\ DOMAIN table = 1 .. Len(table) /\ Len(table) \in Nat
        /\ Cardinality(all) = Len(table)
    BY Finished
  <2> HIDE DEF in, all
  <2>3. Cardinality(in) = IF Cardinality(all) < 8 THEN 0 ELSE 8
    <3>1. CASE Len(table) < 8
      BY <2>1, <2>2, <3>1, FS_EmptySet
    <3>2. CASE Len(table) >= 8
      <4> DEFINE first == [i \in 1 .. 8 |-> table[i]]
      <4>1. in = {table[i] : i \in 1 .. 8}
        BY <2>1, <2>2, <3>2
      <4>2. \A i, j \in 1 .. 8 : table[i] = table[j] => i = j
        BY <2>2, <3>2 DEF IInv, TableOK
      <4>3. first \in Surjection(1 .. 8, in) /\ first \in Injection(1 .. 8, in)
        BY <4>1, <4>2 DEF Surjection, Injection, IsInjective
      <4>4. 8 \in Nat
        OBVIOUS
      <4>5. IsFiniteSet(1 .. 8) /\ Cardinality(1 .. 8) = 8
        BY ONLY <4>4, UpTo, Zenon
      <4> HIDE DEF first
      <4>6. Cardinality(in) = 8
        BY <4>3, <4>5, FS_Surjection
      <4> QED  BY <2>2, <3>2, <4>6
    <3> QED  BY <2>2, <3>1, <3>2
  <2>4. ASSUME NEW t \in in, NEW u \in all \ in
        PROVE  Merit(Record(t, Len(matches))) >= Merit(Record(u, Len(matches)))
    <3>1. t \in all
      BY <2>4 DEF in
    <3>2. PICK i \in 1 .. 8 : t = table[i] /\ Len(table) >= 8
      BY <2>1, <2>2
    <3>3. PICK j \in 1 .. Len(table) : u = table[j]
      BY <2>2
    <3>4. i < j /\ i \in DOMAIN table /\ j \in DOMAIN table
      BY <2>1, <2>2, <3>2, <3>3
    <3>5. ~Before(rows[u], rows[t])
      BY <3>2, <3>3, <3>4 DEF IInv, TableOK
    <3> DEFINE r == Record(t, Len(matches))
               o == Record(u, Len(matches))
    <3>6. ~Before(o, r)
      BY <2>2, <3>1, <3>5
    <3>7. /\ r.wins \in Nat /\ o.wins \in Nat /\ Base \in Nat
          /\ r.pointsFor \in 0 .. Base - 1 /\ r.pointsAgainst \in 0 .. Base - 1
          /\ o.pointsFor \in 0 .. Base - 1 /\ o.pointsAgainst \in 0 .. Base - 1
      BY RecordBounds DEF IInv
    <3> HIDE DEF r, o
    <3>8. \/ r.wins > o.wins
          \/ r.wins = o.wins /\ r.pointsFor > o.pointsFor
          \/ /\ r.wins = o.wins /\ r.pointsFor = o.pointsFor
             /\ r.pointsAgainst <= o.pointsAgainst
      BY <3>6, <3>7 DEF Before
    <3> DEFINE rm == (r.wins * Base + r.pointsFor) * Base - r.pointsAgainst
               om == (o.wins * Base + o.pointsFor) * Base - o.pointsAgainst
    <3>9. rm >= om
      BY ONLY <3>7, <3>8, MeritOrder
    <3>10. Merit(r) = rm /\ Merit(o) = om
      BY DEF Merit
    <3> QED  BY <3>9, <3>10 DEF r, o
  <2> QED  BY <2>3, <2>4 DEF BestQualify, in, all
<1> QED  BY <1>1, Inductive, PTL
------------------------------------------------------------------------------
\* SeedsMeetLate

LEMMA MinUpTo7 ==
    ASSUME NEW S, S \subseteq 1 .. 7, 7 \in S
    PROVE  Min(S) \in S
<1>1. \E x \in S : \A y \in S : x <= y
  <2>1. \A y \in S : y = 1 \/ y = 2 \/ y = 3 \/ y = 4 \/ y = 5 \/ y = 6 \/ y = 7
    OBVIOUS
  <2> QED  BY <2>1
<1> QED  BY <1>1 DEF Min

\* The definition of Entrants, one match of it: whom the sides of match i stand
\* for, when e says who can come out of the matches before it.
Feeding(e, i) ==
    UNION {IF side \in DOMAIN rows THEN {side}
           ELSE UNION {e[j] : j \in {k \in 1..(i - 1) : W(bracket[k]) = side}}
           : side \in {bracket[i].home, bracket[i].away}}

LEMMA EntrantsChosen ==
    Entrants = CHOOSE e : e = [i \in DOMAIN bracket |-> Feeding(e, i)]
BY DEF Entrants, Feeding

LEMMA TwoPlayers ==
    ASSUME NEW e, NEW i, NEW t \in DOMAIN rows, NEW u \in DOMAIN rows,
           bracket[i].home = t, bracket[i].away = u
    PROVE  Feeding(e, i) = {t, u}
BY DEF Feeding

\* What the definition of Entrants comes to in a bracket of eight.
LEMMA FeedingOfEight ==
    ASSUME NEW s \in Seq(Teams), Len(s) = 8, NEW e,
           bracket = BuildTop8FromSeeds(s), DOMAIN rows \subseteq Teams,
           \A i \in 1 .. 8 : s[i] \in DOMAIN rows,
           \A i, j \in 1 .. 8 : s[i] = s[j] => i = j
    PROVE  /\ Feeding(e, 1) = {s[1], s[8]} /\ Feeding(e, 2) = {s[4], s[5]}
           /\ Feeding(e, 3) = {s[3], s[6]} /\ Feeding(e, 4) = {s[2], s[7]}
           /\ Feeding(e, 5) = e[1] \cup e[2] /\ Feeding(e, 6) = e[3] \cup e[4]
           /\ Feeding(e, 7) = e[5] \cup e[6]
<1> DEFINE u == <<s[1], s[8]>>
           v == <<s[4], s[5]>>
           w == <<s[3], s[6]>>
           x == <<s[2], s[7]>>
<1>1. /\ 1 \in 1..8 /\ 2 \in 1..8 /\ 3 \in 1..8 /\ 4 \in 1..8
      /\ 5 \in 1..8 /\ 6 \in 1..8 /\ 7 \in 1..8 /\ 8 \in 1..8
  OBVIOUS
<1>2. /\ s[1] \in DOMAIN rows /\ s[2] \in DOMAIN rows /\ s[3] \in DOMAIN rows
      /\ s[4] \in DOMAIN rows /\ s[5] \in DOMAIN rows /\ s[6] \in DOMAIN rows
      /\ s[7] \in DOMAIN rows /\ s[8] \in DOMAIN rows
  BY <1>1
<1>3. /\ \A i, j \in 1 .. 8 : <<s[i], s[j]>> \notin Teams
      /\ \A i, j, k, l \in 1 .. 8 : <<<<s[i], s[j]>>, <<s[k], s[l]>>>> \notin Teams
  BY Placeholders
<1>4. /\ u \notin DOMAIN rows /\ v \notin DOMAIN rows
      /\ w \notin DOMAIN rows /\ x \notin DOMAIN rows
  <2>1. u \notin Teams /\ v \notin Teams /\ w \notin Teams /\ x \notin Teams
    BY ONLY <1>1, <1>3, Zenon
  <2> QED  BY ONLY <2>1, DOMAIN rows \subseteq Teams
<1>5. <<u, v>> \notin DOMAIN rows /\ <<w, x>> \notin DOMAIN rows
  <2>1. <<u, v>> \notin Teams /\ <<w, x>> \notin Teams
    BY ONLY <1>1, <1>3, Zenon
  <2> QED  BY ONLY <2>1, DOMAIN rows \subseteq Teams
<1>6. /\ s[1] # s[2] /\ s[1] # s[3] /\ s[1] # s[4]
      /\ s[2] # s[3] /\ s[2] # s[4] /\ s[3] # s[4]
  OBVIOUS
<1>7. u # v /\ u # w /\ u # x /\ v # w /\ v # x /\ w # x
  BY ONLY <1>6
<1>8. /\ bracket[1] = Match(s[1], s[8], 1) /\ bracket[2] = Match(s[4], s[5], 1)
      /\ bracket[3] = Match(s[3], s[6], 1) /\ bracket[4] = Match(s[2], s[7], 1)
      /\ bracket[5] = Match(u, v, 2) /\ bracket[6] = Match(w, x, 2)
      /\ bracket[7] = Match(<<u, v>>, <<w, x>>, 3)
  BY BracketShape
<1>9. /\ W(bracket[1]) = u /\ W(bracket[2]) = v /\ W(bracket[3]) = w
      /\ W(bracket[4]) = x /\ W(bracket[5]) = <<u, v>> /\ W(bracket[6]) = <<w, x>>
  BY ONLY <1>8 DEF Match, W
<1>10. \* a pair of teams is not a pair of pairs
       /\ u # <<u, v>> /\ v # <<u, v>> /\ w # <<u, v>> /\ x # <<u, v>>
       /\ u # <<w, x>> /\ v # <<w, x>> /\ w # <<w, x>> /\ x # <<w, x>>
  <2>1. /\ s[1] # u /\ s[1] # w /\ s[2] # u /\ s[2] # w
        /\ s[3] # u /\ s[3] # w /\ s[4] # u /\ s[4] # w
    <3> HIDE DEF u, v, w, x
    <3> QED  BY ONLY <1>2, <1>4
  <2> QED  BY ONLY <2>1
<1> HIDE DEF u, v, w, x
<1>11. /\ Feeding(e, 1) = {s[1], s[8]} /\ Feeding(e, 2) = {s[4], s[5]}
       /\ Feeding(e, 3) = {s[3], s[6]} /\ Feeding(e, 4) = {s[2], s[7]}
  <2>1. /\ bracket[1].home = s[1] /\ bracket[1].away = s[8]
        /\ bracket[2].home = s[4] /\ bracket[2].away = s[5]
        /\ bracket[3].home = s[3] /\ bracket[3].away = s[6]
        /\ bracket[4].home = s[2] /\ bracket[4].away = s[7]
    BY ONLY <1>8 DEF Match
  <2> QED  BY ONLY <1>2, <2>1, TwoPlayers
<1>12. /\ bracket[5].home = u /\ bracket[5].away = v
       /\ bracket[6].home = w /\ bracket[6].away = x
       /\ bracket[7].home = <<u, v>> /\ bracket[7].away = <<w, x>>
  BY ONLY <1>8 DEF Match
<1>13. Feeding(e, 5) = e[1] \cup e[2]
  <2>1. /\ {k \in 1 .. (5 - 1) : W(bracket[k]) = u} = {1}
        /\ {k \in 1 .. (5 - 1) : W(bracket[k]) = v} = {2}
    BY ONLY <1>7, <1>9
  <2> QED  BY ONLY <1>4, <1>12, <2>1 DEF Feeding
<1>14. Feeding(e, 6) = e[3] \cup e[4]
  <2>1. /\ {k \in 1 .. (6 - 1) : W(bracket[k]) = w} = {3}
        /\ {k \in 1 .. (6 - 1) : W(bracket[k]) = x} = {4}
    BY ONLY <1>7, <1>9, <1>10
  <2> QED  BY ONLY <1>4, <1>12, <2>1 DEF Feeding
<1>15. Feeding(e, 7) = e[5] \cup e[6]
  <2>1. <<u, v>> # <<w, x>>
    BY ONLY <1>7
  <2>2. /\ {k \in 1 .. (7 - 1) : W(bracket[k]) = <<u, v>>} = {5}
        /\ {k \in 1 .. (7 - 1) : W(bracket[k]) = <<w, x>>} = {6}
    BY ONLY <1>9, <1>10, <2>1
  <2> QED  BY ONLY <1>5, <1>12, <2>2 DEF Feeding
<1> QED  BY ONLY <1>11, <1>13, <1>14, <1>15

\* Who can come out of each match of a bracket of eight.
LEMMA EntrantsOfEight ==
    ASSUME NEW s \in Seq(Teams), Len(s) = 8,
           bracket = BuildTop8FromSeeds(s), DOMAIN rows \subseteq Teams,
           \A i \in 1 .. 8 : s[i] \in DOMAIN rows,
           \A i, j \in 1 .. 8 : s[i] = s[j] => i = j
    PROVE  /\ Entrants[1] = {s[1], s[8]} /\ Entrants[2] = {s[4], s[5]}
           /\ Entrants[3] = {s[3], s[6]} /\ Entrants[4] = {s[2], s[7]}
           /\ Entrants[5] = {s[1], s[8], s[4], s[5]}
           /\ Entrants[6] = {s[3], s[6], s[2], s[7]}
           /\ Entrants[7] = {s[1], s[8], s[4], s[5], s[3], s[6], s[2], s[7]}
<1> DEFINE A == {s[1], s[8]}
           B == {s[4], s[5]}
           C == {s[3], s[6]}
           D == {s[2], s[7]}
           e == [i \in 1 .. 7 |-> CASE i = 1 -> A [] i = 2 -> B
                                    [] i = 3 -> C [] i = 4 -> D
                                    [] i = 5 -> A \cup B
                                    [] i = 6 -> C \cup D
                                    [] OTHER -> (A \cup B) \cup (C \cup D)]
<1>1. DOMAIN bracket = 1 .. 7
  BY BracketShape
<1>2. \A i \in 1 .. 7 : i = 1 \/ i = 2 \/ i = 3 \/ i = 4 \/ i = 5 \/ i = 6 \/ i = 7
  OBVIOUS
<1>3. ASSUME NEW f
      PROVE  /\ Feeding(f, 1) = A /\ Feeding(f, 2) = B
             /\ Feeding(f, 3) = C /\ Feeding(f, 4) = D
             /\ Feeding(f, 5) = f[1] \cup f[2] /\ Feeding(f, 6) = f[3] \cup f[4]
             /\ Feeding(f, 7) = f[5] \cup f[6]
  BY FeedingOfEight
<1>4. e = [i \in DOMAIN bracket |-> Feeding(e, i)]
  <2> HIDE DEF A, B, C, D
  <2>1. /\ e[1] = A /\ e[2] = B /\ e[3] = C /\ e[4] = D
        /\ e[5] = A \cup B /\ e[6] = C \cup D /\ e[7] = e[5] \cup e[6]
        /\ DOMAIN e = 1 .. 7 /\ e = [i \in 1 .. 7 |-> e[i]]
    OBVIOUS
  <2> HIDE DEF e
  <2>2. \A i \in 1 .. 7 : e[i] = Feeding(e, i)
    BY ONLY <1>2, <1>3, <2>1
  <2> QED  BY ONLY <1>1, <2>1, <2>2
<1> HIDE DEF A, B, C, D, e
<1>5. Entrants = [i \in DOMAIN bracket |-> Feeding(Entrants, i)]
  BY ONLY <1>4, EntrantsChosen, Zenon
<1>6. \A i \in 1 .. 7 : Entrants[i] = Feeding(Entrants, i)
  BY ONLY <1>1, <1>5
<1>7. /\ Entrants[1] = A /\ Entrants[2] = B /\ Entrants[3] = C /\ Entrants[4] = D
      /\ Entrants[5] = Entrants[1] \cup Entrants[2]
      /\ Entrants[6] = Entrants[3] \cup Entrants[4]
      /\ Entrants[7] = Entrants[5] \cup Entrants[6]
  BY ONLY <1>3, <1>6
<1> QED  BY ONLY <1>7 DEF A, B, C, D

\* The first match of a set: it is one of them.
LEMMA MeetIsOne ==
    ASSUME NEW t, NEW u, DOMAIN bracket = 1 .. 7, {t, u} \subseteq Entrants[7]
    PROVE  MeetIn(t, u) \in 1 .. 7 /\ {t, u} \subseteq Entrants[MeetIn(t, u)]
<1> DEFINE S == {i \in DOMAIN bracket : {t, u} \subseteq Entrants[i]}
<1>1. S \subseteq 1 .. 7 /\ 7 \in S
  OBVIOUS
<1> HIDE DEF S
<1>2. Min(S) \in S
  BY <1>1, MinUpTo7
<1>3. MeetIn(t, u) \in S
  BY <1>2 DEF MeetIn, S
<1> QED  BY <1>1, <1>3 DEF S

\* The best four of a bracket do not meet in the first round, nor do the best two
\* before the final.
THEOREM SeedsAreKeptApart == Spec => []SeedsMeetLate
<1>1. IInv => SeedsMeetLate
  <2> SUFFICES ASSUME IInv, Built,
                      NEW i \in 1 .. 8, NEW j \in (i + 1) .. 8
               PROVE  LET round == bracket[MeetIn(table[i], table[j])].round
                      IN  (j <= 4 => round >= 2) /\ (j <= 2 => round >= 3)
    BY DEF SeedsMeetLate
  <2> DEFINE s == Seeds
             m == MeetIn(table[i], table[j])
             round == bracket[m].round
  <2>1. /\ table \in Seq(Ranked(Len(matches))) /\ Ranked(Len(matches)) \subseteq Teams
        /\ DOMAIN rows = Ranked(Len(matches))
        /\ DOMAIN table = 1 .. Len(table) /\ Len(table) \in Nat
        /\ bracket = BuildTop8FromSeeds(s)
    BY Finished DEF Built, IInv, BracketOK
  <2>2. Len(table) >= 8
    <3>1. SUFFICES ASSUME Len(table) < 8 PROVE FALSE
      BY <2>1
    <3>2. bracket = <<>>
      BY <2>1, <3>1, SeedsAre DEF BuildTop8FromSeeds
    <3> QED  BY <3>2 DEF Built
  <2>3. s \in Seq(Teams) /\ Len(s) = 8 /\ \A k \in 1 .. 8 : s[k] = table[k]
    <3>1. table \in Seq(Teams)
      BY <2>1
    <3> QED  BY <2>2, <3>1, SeedsAre
  <2>4. /\ \A k \in 1 .. 8 : s[k] \in DOMAIN rows
        /\ \A k, l \in 1 .. 8 : s[k] = s[l] => k = l
    <3>1. \A k, l \in 1 .. Len(table) : table[k] = table[l] => k = l
      BY <2>1 DEF IInv, TableOK
    <3>2. \A k \in 1 .. 8 : k \in 1 .. Len(table)
      BY ONLY <2>1, <2>2
    <3>3. \A k \in 1 .. Len(table) : table[k] \in DOMAIN rows
      BY <2>1
    <3> HIDE DEF s
    <3> QED  BY ONLY <2>3, <3>1, <3>2, <3>3
  <2> HIDE DEF s
  <2>5. /\ Entrants[1] = {s[1], s[8]} /\ Entrants[2] = {s[4], s[5]}
        /\ Entrants[3] = {s[3], s[6]} /\ Entrants[4] = {s[2], s[7]}
        /\ Entrants[5] = {s[1], s[8], s[4], s[5]}
        /\ Entrants[6] = {s[3], s[6], s[2], s[7]}
        /\ Entrants[7] = {s[1], s[8], s[4], s[5], s[3], s[6], s[2], s[7]}
    BY <2>1, <2>3, <2>4, EntrantsOfEight
  <2>6. DOMAIN bracket = 1 .. 7
    BY <2>1, <2>3, BracketShape
  <2>7. bracket[5].round = 2 /\ bracket[6].round = 2 /\ bracket[7].round = 3
    <3>1. /\ bracket[5] = Match(<<s[1], s[8]>>, <<s[4], s[5]>>, 2)
          /\ bracket[6] = Match(<<s[3], s[6]>>, <<s[2], s[7]>>, 2)
          /\ bracket[7] = Match(<<<<s[1], s[8]>>, <<s[4], s[5]>>>>,
                                <<<<s[3], s[6]>>, <<s[2], s[7]>>>>, 3)
      BY <2>1, <2>3, BracketShape
    <3> QED  BY ONLY <3>1 DEF Match
  <2>8. /\ i = 1 \/ i = 2 \/ i = 3 \/ i = 4 \/ i = 5 \/ i = 6 \/ i = 7 \/ i = 8
        /\ j = 1 \/ j = 2 \/ j = 3 \/ j = 4 \/ j = 5 \/ j = 6 \/ j = 7 \/ j = 8
        /\ i < j /\ i \in 1 .. 8 /\ j \in 1 .. 8
    OBVIOUS
  <2>9. table[i] = s[i] /\ table[j] = s[j]
    BY <2>3, <2>8
  <2>10. {s[i], s[j]} \subseteq Entrants[7]
    BY ONLY <2>5, <2>8
  <2>11. m \in 1 .. 7 /\ {s[i], s[j]} \subseteq Entrants[m]
    BY <2>6, <2>9, <2>10, MeetIsOne
  <2> HIDE DEF m
  <2>12. /\ s[1] # s[2] /\ s[1] # s[3] /\ s[1] # s[4] /\ s[1] # s[5] /\ s[1] # s[6]
         /\ s[2] # s[3] /\ s[2] # s[4] /\ s[2] # s[5] /\ s[2] # s[8] /\ s[1] # s[7]
         /\ s[3] # s[4] /\ s[3] # s[5] /\ s[3] # s[8] /\ s[3] # s[7]
         /\ s[4] # s[6] /\ s[4] # s[7] /\ s[4] # s[8] /\ s[2] # s[6]
    BY <2>4
  <2>13. ASSUME j <= 4 PROVE m \in {5, 6, 7}
    <3>1. \/ i = 1 /\ (j = 2 \/ j = 3 \/ j = 4)
          \/ i = 2 /\ (j = 3 \/ j = 4)
          \/ i = 3 /\ j = 4
      BY ONLY <2>8, <2>13
    <3>2. m # 1 /\ m # 2 /\ m # 3 /\ m # 4
      BY ONLY <2>5, <2>11, <2>12, <3>1
    <3> QED  BY ONLY <2>11, <3>2
  <2>14. ASSUME j <= 2 PROVE m = 7
    <3>1. i = 1 /\ j = 2 /\ j <= 4
      BY ONLY <2>8, <2>14
    <3>2. m \in {5, 6, 7}
      BY ONLY <2>13, <3>1
    <3>3. m # 5 /\ m # 6
      BY ONLY <2>5, <2>11, <2>12, <3>1
    <3> QED  BY ONLY <3>2, <3>3
  <2>15. (j <= 4 => round >= 2) /\ (j <= 2 => round >= 3)
    BY ONLY <2>7, <2>13, <2>14
  <2> QED  BY ONLY <2>15 DEF m
<1> QED  BY <1>1, Inductive, PTL
==============================================================================
