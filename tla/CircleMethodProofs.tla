-------------------------- MODULE CircleMethodProofs --------------------------
(***************************************************************************)
(* The circle method makes a round robin of any number of teams.  After r  *)
(* rotations slot j > 0 holds what slot j - r held at the start, counted   *)
(* around the circle of the h + h - 1 slots that move, h being half the    *)
(* number of slots.                                                        *)
(***************************************************************************)
EXTENDS CircleMethod, TLAPS

\* The slot whose first occupant is in slot j after r rotations.
Origin(h, j, r) ==
    IF j = 0 THEN 0 ELSE IF j > r THEN j - r ELSE j - r + (2 * h - 1)

\* The first occupant of slot j, when there are s teams.
Occupant(s, j) == IF j < s THEN j ELSE Bye

\* The pair of slots q and 2h - 1 - q after r rotations, by their origins.
HomeOrigin(h, r, q) == Origin(h, q, r)
AwayOrigin(h, r, q) == Origin(h, 2 * h - 1 - q, r)

Home(r, q) == Occupant(size, HomeOrigin(half, r, q))
Away(r, q) == Occupant(size, AwayOrigin(half, r, q))

\* Turn q of round r has been taken.
Taken(r, q) == r < round \/ (r = round /\ q < i)

Typing ==
    /\ size \in Nat
    /\ half \in Nat /\ 2 * half \in {size, size + 1}
    /\ round \in Nat /\ i \in 0 .. half
    /\ round > 0 => round <= rounds
    /\ round = rounds => i = 0
    /\ matches \in Seq((0 .. size - 1) \X (0 .. size - 1))

\* The circle after as many rotations as there were rounds.
Turned == arr = [j \in 0 .. n - 1 |-> Occupant(size, Origin(half, j, round))]

\* Every match is the pair of a turn that has been taken ...
FromTurns ==
    \A k \in DOMAIN matches :
        \E r \in 0 .. rounds - 1, q \in 0 .. half - 1 :
            Taken(r, q) /\ matches[k] = <<Home(r, q), Away(r, q)>>

\* ... and every turn without the bye has its match.
TurnsKept ==
    \A r \in 0 .. rounds - 1, q \in 0 .. half - 1 :
        Taken(r, q) /\ Home(r, q) # Bye /\ Away(r, q) # Bye =>
            \E k \in DOMAIN matches : matches[k] = <<Home(r, q), Away(r, q)>>

IInv == Typing /\ Turned /\ FromTurns /\ TurnsKept /\ NoRematch

------------------------------------------------------------------------------
\* Arithmetic around the circle.  H is half the number of slots.

\* One rotation moves every occupant of a slot other than the first by one.
LEMMA OriginMoves ==
    ASSUME NEW h \in Nat, NEW r \in 0 .. 2 * h - 2, NEW j \in 0 .. 2 * h - 1
    PROVE  Origin(h, j, r + 1) =
             CASE j = 0 -> Origin(h, 0, r)
               [] j = 1 -> Origin(h, 2 * h - 1, r)
               [] j > 1 -> Origin(h, j - 1, r)
BY DEF Origin

\* The origins of the two slots of a turn are two slots.
LEMMA OriginsDiffer ==
    ASSUME NEW h \in Nat, NEW r \in 0 .. 2 * h - 2, NEW q \in 0 .. h - 1
    PROVE  /\ HomeOrigin(h, r, q) \in 0 .. 2 * h - 1
           /\ AwayOrigin(h, r, q) \in 0 .. 2 * h - 1
           /\ HomeOrigin(h, r, q) # AwayOrigin(h, r, q)
BY DEF Origin, HomeOrigin, AwayOrigin

\* No two turns bring the same two slots together: but for the first slot, the
\* origins of a turn of round r add up to -2r around the circle, whose length
\* is odd.
LEMMA TurnsDiffer ==
    ASSUME NEW h \in Nat,
           NEW r \in 0 .. 2 * h - 2, NEW q \in 0 .. h - 1,
           NEW s \in 0 .. 2 * h - 2, NEW p \in 0 .. h - 1,
           \/ /\ HomeOrigin(h, r, q) = HomeOrigin(h, s, p)
              /\ AwayOrigin(h, r, q) = AwayOrigin(h, s, p)
           \/ /\ HomeOrigin(h, r, q) = AwayOrigin(h, s, p)
              /\ AwayOrigin(h, r, q) = HomeOrigin(h, s, p)
    PROVE  r = s /\ q = p
<1> USE DEF Origin, HomeOrigin, AwayOrigin
<1>1. CASE q = 0 \/ p = 0
  BY <1>1
<1>2. CASE q # 0 /\ p # 0
  <2>1. HomeOrigin(h, r, q) + AwayOrigin(h, r, q)
          = HomeOrigin(h, s, p) + AwayOrigin(h, s, p)
    OBVIOUS
  <2>2. r = s
    BY <1>2, <2>1
  <2> QED  BY <1>2, <2>2
<1> QED  BY <1>1, <1>2

\* Any two slots are the origins of some turn.
LEMMA SomeTurn ==
    ASSUME NEW h \in Nat, NEW a \in 0 .. 2 * h - 1, NEW b \in 0 .. 2 * h - 1,
           a < b
    PROVE  \E r \in 0 .. 2 * h - 2, q \in 0 .. h - 1 :
              \/ HomeOrigin(h, r, q) = a /\ AwayOrigin(h, r, q) = b
              \/ HomeOrigin(h, r, q) = b /\ AwayOrigin(h, r, q) = a
<1> DEFINE m == 2 * h - 1
<1>1. CASE a = 0
  <2>1. m - b \in 0 .. 2 * h - 2 /\ 0 \in 0 .. h - 1
    BY <1>1
  <2>2. HomeOrigin(h, m - b, 0) = a /\ AwayOrigin(h, m - b, 0) = b
    BY <1>1 DEF Origin, HomeOrigin, AwayOrigin
  <2> QED  BY <2>1, <2>2
<1>2. CASE a > 0
  <2>1. PICK r \in 0 .. 2 * h - 2 :
           \/ a + b + 2 * r = m
           \/ a + b + 2 * r = 2 * m
           \/ a + b + 2 * r = 3 * m
    <3> DEFINE k == (a + b) \div 2
    <3>1. k \in Nat /\ a + b \in {2 * k, 2 * k + 1}
      OBVIOUS
    <3> HIDE DEF k
    <3>2. CASE a + b = 2 * k
      <4>1. m - k \in 0 .. 2 * h - 2 /\ a + b + 2 * (m - k) = 2 * m
        BY <1>2, <3>1, <3>2
      <4> QED  BY <4>1
    <3>3. CASE a + b = 2 * k + 1 /\ a + b <= m
      <4>1. h - 1 - k \in 0 .. 2 * h - 2 /\ a + b + 2 * (h - 1 - k) = m
        BY <1>2, <3>1, <3>3
      <4> QED  BY <4>1
    <3>4. CASE a + b = 2 * k + 1 /\ a + b > m
      <4>1. /\ 3 * h - 2 - k \in 0 .. 2 * h - 2
            /\ a + b + 2 * (3 * h - 2 - k) = 3 * m
        BY <1>2, <3>1, <3>4
      <4> QED  BY <4>1
    <3> QED  BY <3>1, <3>2, <3>3, <3>4
  <2> DEFINE ja == IF a + r <= m THEN a + r ELSE a + r - m
             jb == IF b + r <= m THEN b + r ELSE b + r - m
  <2>2. /\ ja \in 1 .. m /\ jb \in 1 .. m
        /\ Origin(h, ja, r) = a /\ Origin(h, jb, r) = b
        /\ ja + jb = m
    BY <1>2, <2>1 DEF Origin
  <2> HIDE DEF ja, jb
  <2>3. CASE ja < jb
    <3>1. ja \in 0 .. h - 1 /\ 2 * h - 1 - ja = jb
      BY <2>2, <2>3
    <3> QED  BY <2>2, <3>1 DEF HomeOrigin, AwayOrigin
  <2>4. CASE ja > jb
    <3>1. jb \in 0 .. h - 1 /\ 2 * h - 1 - jb = ja
      BY <2>2, <2>4
    <3> QED  BY <2>2, <3>1 DEF HomeOrigin, AwayOrigin
  <2> QED  BY <2>2, <2>3, <2>4
<1> QED  BY <1>1, <1>2
------------------------------------------------------------------------------
\* From slots to teams

\* Only one slot can start with the bye, so teams are as different as origins.
LEMMA OccupantsDiffer ==
    ASSUME NEW s \in Nat, NEW h \in Nat, 2 * h \in {s, s + 1},
           NEW j \in 0 .. 2 * h - 1, NEW k \in 0 .. 2 * h - 1
    PROVE  /\ Occupant(s, j) \in 0 .. s - 1 \/ Occupant(s, j) = Bye
           /\ Occupant(s, j) = Occupant(s, k) => j = k
BY DEF Occupant, Bye

\* When two unordered pairs are the same.
LEMMA PairsEqual ==
    ASSUME NEW a, NEW b, NEW c, NEW d
    PROVE  {a, b} = {c, d} <=> (a = c /\ b = d) \/ (a = d /\ b = c)
OBVIOUS

\* Two turns in which the same two teams meet are one.
LEMMA MatchesDiffer ==
    ASSUME Typing,
           NEW r \in 0 .. rounds - 1, NEW q \in 0 .. half - 1,
           NEW s \in 0 .. rounds - 1, NEW p \in 0 .. half - 1,
           {Home(r, q), Away(r, q)} = {Home(s, p), Away(s, p)}
    PROVE  r = s /\ q = p
<1> DEFINE a == HomeOrigin(half, r, q)
           b == AwayOrigin(half, r, q)
           c == HomeOrigin(half, s, p)
           d == AwayOrigin(half, s, p)
<1>1. half \in Nat /\ rounds - 1 = 2 * half - 2
  BY DEF Typing, rounds, n
<1>2. a \in 0 .. 2 * half - 1 /\ b \in 0 .. 2 * half - 1
  BY <1>1, OriginsDiffer
<1>3. c \in 0 .. 2 * half - 1 /\ d \in 0 .. 2 * half - 1
  BY <1>1, OriginsDiffer
<1> HIDE DEF a, b, c, d
<1>4. \/ Occupant(size, a) = Occupant(size, c) /\ Occupant(size, b) = Occupant(size, d)
      \/ Occupant(size, a) = Occupant(size, d) /\ Occupant(size, b) = Occupant(size, c)
  BY PairsEqual DEF Home, Away, a, b, c, d
<1>5. (a = c /\ b = d) \/ (a = d /\ b = c)
  <2>1. \A j, k \in 0 .. 2 * half - 1 :
           Occupant(size, j) = Occupant(size, k) => j = k
    BY OccupantsDiffer DEF Typing
  <2> QED  BY <1>2, <1>3, <1>4, <2>1
<1> QED  BY <1>1, <1>5, TurnsDiffer DEF a, b, c, d

\* What AddMatch and SkipBye find in the two slots.
LEMMA TurnPair ==
    ASSUME Typing, Turned, round < rounds, i < half
    PROVE  /\ round \in 0 .. rounds - 1 /\ i \in 0 .. half - 1
           /\ arr[i] = Home(round, i) /\ Opponent = Away(round, i)
           /\ Home(round, i) # Away(round, i)
           /\ Home(round, i) # Bye => Home(round, i) \in 0 .. size - 1
           /\ Away(round, i) # Bye => Away(round, i) \in 0 .. size - 1
<1>1. /\ half \in Nat /\ n = 2 * half /\ rounds = 2 * half - 1
      /\ round \in 0 .. 2 * half - 2 /\ i \in 0 .. half - 1
      /\ size \in Nat /\ 2 * half \in {size, size + 1}
  BY DEF Typing, rounds, n
<1>2. arr[i] = Home(round, i) /\ Opponent = Away(round, i)
  BY <1>1 DEF Turned, Opponent, Home, Away, HomeOrigin, AwayOrigin
<1>3. /\ HomeOrigin(half, round, i) \in 0 .. 2 * half - 1
      /\ AwayOrigin(half, round, i) \in 0 .. 2 * half - 1
      /\ HomeOrigin(half, round, i) # AwayOrigin(half, round, i)
  BY <1>1, OriginsDiffer
<1>4. /\ Home(round, i) # Away(round, i)
      /\ Home(round, i) # Bye => Home(round, i) \in 0 .. size - 1
      /\ Away(round, i) # Bye => Away(round, i) \in 0 .. size - 1
  BY <1>1, <1>3, OccupantsDiffer DEF Home, Away
<1> QED  BY <1>1, <1>2, <1>4

\* A match that AddMatch makes is not there yet.
LEMMA NewPair ==
    ASSUME Typing, FromTurns, round \in 0 .. rounds - 1, i \in 0 .. half - 1,
           NEW k \in DOMAIN matches
    PROVE  {matches[k][1], matches[k][2]} # {Home(round, i), Away(round, i)}
<1>1. PICK r \in 0 .. rounds - 1, q \in 0 .. half - 1 :
         Taken(r, q) /\ matches[k] = <<Home(r, q), Away(r, q)>>
  BY DEF FromTurns
<1>2. ~(r = round /\ q = i)
  BY <1>1 DEF Taken, Typing
<1>3. {Home(r, q), Away(r, q)} # {Home(round, i), Away(round, i)}
  BY <1>2, MatchesDiffer
<1> QED  BY <1>1, <1>3
------------------------------------------------------------------------------
\* The inductive invariant

\* The inductive invariant holds when the loops begin.
LEMMA InitIInv == Init => IInv
<1> SUFFICES ASSUME Init PROVE IInv
  OBVIOUS
<1>1. size \in Nat
  BY SizesAssumption DEF Init
<1>2. Typing
  BY <1>1 DEF Init, Typing, half, n, rounds
<1>3. Turned
  BY <1>1, <1>2 DEF Init, Turned, Typing, Occupant, Origin, n, rounds
<1>4. FromTurns /\ NoRematch
  BY DEF Init, FromTurns, NoRematch
<1>5. TurnsKept
  BY <1>1, <1>2 DEF Init, TurnsKept, Taken, Typing
<1> QED  BY <1>2, <1>3, <1>4, <1>5 DEF IInv

\* Turns of the inner loop change neither the circle nor the size.
LEMMA SameCircle ==
    ASSUME Typing, UNCHANGED <<size, arr, round>>
    PROVE  /\ half' = half /\ n' = n /\ rounds' = rounds
           /\ Turned => Turned'
           /\ \A r, q : Home(r, q)' = Home(r, q) /\ Away(r, q)' = Away(r, q)
BY DEF half, n, rounds, Turned, Home, Away

\* A turn with two teams preserves it: its match is new and is kept.
LEMMA AddMatchIInv == IInv /\ AddMatch => IInv'
<1> SUFFICES ASSUME IInv, AddMatch PROVE IInv'
  OBVIOUS
<1> DEFINE pair == <<Home(round, i), Away(round, i)>>
<1> USE DEF IInv
<1>1. /\ round < rounds /\ i < half
      /\ UNCHANGED <<size, arr, round>> /\ i' = i + 1
  BY DEF AddMatch
<1>2. /\ round \in 0 .. rounds - 1 /\ i \in 0 .. half - 1
      /\ Home(round, i) # Away(round, i)
      /\ pair \in (0 .. size - 1) \X (0 .. size - 1)
      /\ matches' = Append(matches, pair)
  BY <1>1, TurnPair DEF AddMatch
<1>3. /\ half' = half /\ rounds' = rounds /\ Turned'
      /\ \A r, q : Home(r, q)' = Home(r, q) /\ Away(r, q)' = Away(r, q)
  BY <1>1, SameCircle
<1>4. matches \in Seq((0 .. size - 1) \X (0 .. size - 1))
  BY DEF Typing
<1>5. /\ Len(matches) \in Nat /\ DOMAIN matches = 1 .. Len(matches)
      /\ DOMAIN matches' = 1 .. Len(matches) + 1
      /\ matches'[Len(matches) + 1] = pair
      /\ \A k \in DOMAIN matches : matches'[k] = matches[k]
  BY <1>2, <1>4
<1>6. Typing'
  BY <1>1, <1>2, <1>3, <1>4 DEF Typing
<1>7. \A r \in 0 .. rounds - 1, q \in 0 .. half - 1 :
         Taken(r, q)' <=> Taken(r, q) \/ (r = round /\ q = i)
  BY <1>1, <1>2 DEF Taken
<1> HIDE DEF pair
<1>8. FromTurns'
  <2> SUFFICES ASSUME NEW k \in DOMAIN matches'
               PROVE  \E r \in 0 .. rounds - 1, q \in 0 .. half - 1 :
                         Taken(r, q)' /\ matches'[k] = <<Home(r, q), Away(r, q)>>
    BY <1>3 DEF FromTurns
  <2>1. CASE k \in DOMAIN matches
    BY <2>1, <1>5, <1>7 DEF FromTurns
  <2>2. CASE k = Len(matches) + 1
    BY <2>2, <1>2, <1>5, <1>7 DEF pair
  <2> QED  BY <2>1, <2>2, <1>5
<1>9. TurnsKept'
  <2> SUFFICES ASSUME NEW r \in 0 .. rounds - 1, NEW q \in 0 .. half - 1,
                      Taken(r, q)', Home(r, q) # Bye, Away(r, q) # Bye
               PROVE  \E k \in DOMAIN matches' :
                         matches'[k] = <<Home(r, q), Away(r, q)>>
    BY <1>3 DEF TurnsKept
  <2>1. CASE Taken(r, q)
    <3>1. PICK k \in DOMAIN matches : matches[k] = <<Home(r, q), Away(r, q)>>
      BY <2>1 DEF TurnsKept
    <3>2. k \in DOMAIN matches' /\ matches'[k] = matches[k]
      BY <1>5
    <3> QED  BY <3>1, <3>2
  <2>2. CASE r = round /\ q = i
    <3>1. Len(matches) + 1 \in DOMAIN matches'
      BY <1>5
    <3>2. matches'[Len(matches) + 1] = <<Home(r, q), Away(r, q)>>
      BY <2>2, <1>5 DEF pair
    <3> QED  BY <3>1, <3>2
  <2> QED  BY <2>1, <2>2, <1>7
<1>10. NoRematch'
  <2>1. \A k \in DOMAIN matches :
           {matches[k][1], matches[k][2]} # {pair[1], pair[2]}
    BY <1>2, NewPair DEF pair
  <2>2. pair[1] # pair[2]
    BY <1>2 DEF pair
  <2> SUFFICES ASSUME NEW j \in DOMAIN matches', NEW k \in DOMAIN matches'
               PROVE  /\ matches'[j][1] # matches'[j][2]
                      /\ {matches'[j][1], matches'[j][2]}
                           = {matches'[k][1], matches'[k][2]} => j = k
    BY DEF NoRematch
  <2>3. CASE j \in DOMAIN matches /\ k \in DOMAIN matches
    BY <2>3, <1>5 DEF NoRematch
  <2>4. CASE j = Len(matches) + 1 /\ k \in DOMAIN matches
    BY <2>1, <2>2, <2>4, <1>5
  <2>5. CASE j \in DOMAIN matches /\ k = Len(matches) + 1
    BY <2>1, <2>5, <1>5 DEF NoRematch
  <2>6. CASE j = Len(matches) + 1 /\ k = Len(matches) + 1
    BY <2>2, <2>6, <1>5
  <2>7. \A l \in DOMAIN matches' : l \in DOMAIN matches \/ l = Len(matches) + 1
    BY <1>5
  <2> QED  BY <2>3, <2>4, <2>5, <2>6, <2>7
<1> QED  BY <1>3, <1>6, <1>8, <1>9, <1>10

\* A turn with the bye preserves it: there is no match to keep.
LEMMA SkipByeIInv == IInv /\ SkipBye => IInv'
<1> SUFFICES ASSUME IInv, SkipBye PROVE IInv'
  OBVIOUS
<1> USE DEF IInv
<1>1. /\ round < rounds /\ i < half
      /\ UNCHANGED <<size, arr, round, matches>> /\ i' = i + 1
  BY DEF SkipBye
<1>2. /\ round \in 0 .. rounds - 1 /\ i \in 0 .. half - 1
      /\ Home(round, i) = Bye \/ Away(round, i) = Bye
  BY <1>1, TurnPair DEF SkipBye
<1>3. /\ half' = half /\ rounds' = rounds /\ Turned'
      /\ \A r, q : Home(r, q)' = Home(r, q) /\ Away(r, q)' = Away(r, q)
  BY <1>1, SameCircle
<1>4. Typing'
  BY <1>1, <1>2, <1>3 DEF Typing
<1>5. \A r \in 0 .. rounds - 1, q \in 0 .. half - 1 :
         Taken(r, q)' <=> Taken(r, q) \/ (r = round /\ q = i)
  BY <1>1, <1>2 DEF Taken
<1>6. FromTurns'
  BY <1>1, <1>3, <1>5 DEF FromTurns
<1>7. TurnsKept'
  BY <1>1, <1>2, <1>3, <1>5 DEF TurnsKept
<1>8. NoRematch'
  BY <1>1 DEF NoRematch
<1> QED  BY <1>3, <1>4, <1>6, <1>7, <1>8

\* std::rotate preserves it: the closed form moves on by one round.
LEMMA RotateIInv == IInv /\ Rotate => IInv'
<1> SUFFICES ASSUME IInv, Rotate PROVE IInv'
  OBVIOUS
<1> USE DEF IInv
<1>1. /\ round < rounds /\ i = half
      /\ UNCHANGED <<size, matches>> /\ arr' = Rotated
      /\ round' = round + 1 /\ i' = 0
  BY DEF Rotate
<1>2. /\ half' = half /\ n' = n /\ rounds' = rounds
      /\ \A r, q : Home(r, q)' = Home(r, q) /\ Away(r, q)' = Away(r, q)
  BY <1>1 DEF half, n, rounds, Home, Away
<1>3. /\ half \in Nat /\ n = 2 * half /\ rounds = 2 * half - 1
      /\ round \in 0 .. 2 * half - 2
  BY <1>1 DEF Typing, n, rounds
<1>4. Typing'
  BY <1>1, <1>2, <1>3 DEF Typing
<1>5. Turned'
  <2>1. \A j \in 0 .. 2 * half - 1 :
           Rotated[j] = Occupant(size, Origin(half, j, round + 1))
    <3> SUFFICES ASSUME NEW j \in 0 .. 2 * half - 1
                 PROVE  Rotated[j] = Occupant(size, Origin(half, j, round + 1))
      OBVIOUS
    <3>1. /\ j = 0 => Rotated[j] = arr[0]
          /\ j = 1 => Rotated[j] = arr[2 * half - 1]
          /\ j > 1 => Rotated[j] = arr[j - 1]
      BY <1>3 DEF Rotated
    <3>2. \A k \in 0 .. 2 * half - 1 :
             arr[k] = Occupant(size, Origin(half, k, round))
      BY <1>3 DEF Turned
    <3>3. /\ j = 0 => Origin(half, j, round + 1) = Origin(half, 0, round)
          /\ j = 1 => Origin(half, j, round + 1) = Origin(half, 2 * half - 1, round)
          /\ j > 1 => Origin(half, j, round + 1) = Origin(half, j - 1, round)
      BY <1>3, OriginMoves
    <3>4. CASE j = 0
      BY <1>3, <3>1, <3>2, <3>3, <3>4
    <3>5. CASE j = 1
      BY <1>3, <3>1, <3>2, <3>3, <3>5
    <3>6. CASE j > 1
      BY <1>3, <3>1, <3>2, <3>3, <3>6
    <3> QED  BY <3>4, <3>5, <3>6
  <2>2. Rotated = [j \in 0 .. n - 1 |-> Rotated[j]]
    BY DEF Rotated
  <2> QED  BY <1>1, <1>2, <1>3, <2>1, <2>2 DEF Turned
<1>6. \A r \in 0 .. rounds - 1, q \in 0 .. half - 1 :
         Taken(r, q)' <=> Taken(r, q)
  BY <1>1, <1>3 DEF Taken
<1>7. FromTurns' /\ TurnsKept'
  BY <1>1, <1>2, <1>6 DEF FromTurns, TurnsKept
<1>8. NoRematch'
  BY <1>1 DEF NoRematch
<1> QED  BY <1>4, <1>5, <1>7, <1>8

\* Nothing it speaks of changes in a stuttering step.
LEMMA StutterIInv == IInv /\ UNCHANGED vars => IInv'
<1> SUFFICES ASSUME IInv, UNCHANGED vars PROVE IInv'
  OBVIOUS
<1>1. UNCHANGED <<size, arr, round, i, matches>>
  BY DEF vars
<1>2. /\ half' = half /\ n' = n /\ rounds' = rounds
      /\ \A r, q : Home(r, q)' = Home(r, q) /\ Away(r, q)' = Away(r, q)
  BY <1>1 DEF half, n, rounds, Home, Away
<1>3. Typing' /\ Turned' /\ NoRematch'
  BY <1>1, <1>2 DEF IInv, Typing, Turned, NoRematch
<1>4. FromTurns' /\ TurnsKept'
  BY <1>1, <1>2 DEF IInv, FromTurns, TurnsKept, Taken
<1> QED  BY <1>3, <1>4 DEF IInv

\* In every reachable state the slots hold what the closed form says, and the
\* matches are those of the turns taken.
THEOREM Inductive == Spec => []IInv
<1>1. IInv /\ [Next]_vars => IInv'
  BY AddMatchIInv, SkipByeIInv, RotateIInv, StutterIInv DEF Next
<1> QED  BY <1>1, InitIInv, PTL DEF Spec

------------------------------------------------------------------------------

\* Generate never pairs two teams twice, for any number of teams.
THEOREM PairsUnique == Spec => []NoRematch
<1>1. IInv => NoRematch
  BY DEF IInv
<1> QED  BY <1>1, Inductive, PTL

\* When the loops have ended, the turn that brings two teams together was taken.
LEMMA AllTurnsPair == IInv => EveryoneMeets
<1> SUFFICES ASSUME IInv, Returned,
                    NEW a \in 0 .. size - 1, NEW b \in 0 .. size - 1, a < b
             PROVE  \E k \in DOMAIN matches :
                       {matches[k][1], matches[k][2]} = {a, b}
  <2>1. ASSUME IInv, Returned,
               NEW a \in 0 .. size - 1, NEW b \in 0 .. size - 1, a # b
        PROVE  \E k \in DOMAIN matches :
                  {matches[k][1], matches[k][2]} = {a, b}
    <3>1. size \in Nat
      BY <2>1 DEF IInv, Typing
    <3>2. CASE a < b
      BY <2>1, <3>2
    <3>3. CASE b < a
      BY <2>1, <3>3, {a, b} = {b, a}
    <3> QED  BY <2>1, <3>1, <3>2, <3>3
  <2> QED  BY <2>1 DEF EveryoneMeets
<1>1. /\ half \in Nat /\ size \in Nat /\ 2 * half \in {size, size + 1}
      /\ rounds = 2 * half - 1 /\ round \in Nat /\ round >= rounds
  BY DEF IInv, Typing, Returned, rounds, n
<1>2. a \in 0 .. 2 * half - 1 /\ b \in 0 .. 2 * half - 1
  BY <1>1
<1>3. PICK r \in 0 .. 2 * half - 2, q \in 0 .. half - 1 :
         \/ HomeOrigin(half, r, q) = a /\ AwayOrigin(half, r, q) = b
         \/ HomeOrigin(half, r, q) = b /\ AwayOrigin(half, r, q) = a
  BY <1>1, <1>2, SomeTurn
<1>4. Occupant(size, a) = a /\ Occupant(size, b) = b /\ a # Bye /\ b # Bye
  BY <1>1 DEF Occupant, Bye
<1>5. \/ Home(r, q) = a /\ Away(r, q) = b
      \/ Home(r, q) = b /\ Away(r, q) = a
  BY <1>3, <1>4 DEF Home, Away
<1>6. Taken(r, q)
  BY <1>1 DEF Taken
<1>7. PICK k \in DOMAIN matches : matches[k] = <<Home(r, q), Away(r, q)>>
  BY <1>1, <1>4, <1>5, <1>6 DEF IInv, TurnsKept
<1> QED  BY <1>5, <1>7

\* Generate returns a complete round robin, for any number of teams.
THEOREM PairsComplete == Spec => []EveryoneMeets
BY AllTurnsPair, Inductive, PTL
------------------------------------------------------------------------------
\* Matchdays.  The bye is met in one turn of every round, so that the matches of
\* a round fill as many places of the list as half the number of teams.

\* Two turns of one round have four different slots.
LEMMA TurnsApart ==
    ASSUME NEW h \in Nat, NEW r \in 0 .. 2 * h - 2,
           NEW q \in 0 .. h - 1, NEW p \in 0 .. h - 1, q # p
    PROVE  /\ HomeOrigin(h, r, q) # HomeOrigin(h, r, p)
           /\ HomeOrigin(h, r, q) # AwayOrigin(h, r, p)
           /\ AwayOrigin(h, r, q) # HomeOrigin(h, r, p)
           /\ AwayOrigin(h, r, q) # AwayOrigin(h, r, p)
BY DEF HomeOrigin, AwayOrigin, Origin

\* So nobody plays in both.
LEMMA TeamsApart ==
    ASSUME Typing, NEW r \in 0 .. rounds - 1,
           NEW q \in 0 .. half - 1, NEW p \in 0 .. half - 1, q # p
    PROVE  {Home(r, q), Away(r, q)} \cap {Home(r, p), Away(r, p)} = {}
<1> DEFINE h == half
<1>1. /\ h \in Nat /\ 2 * h \in {size, size + 1} /\ size \in Nat
      /\ r \in 0 .. 2 * h - 2
  BY DEF Typing, rounds, n
<1>2. /\ HomeOrigin(h, r, q) \in 0 .. 2 * h - 1
      /\ AwayOrigin(h, r, q) \in 0 .. 2 * h - 1
      /\ HomeOrigin(h, r, p) \in 0 .. 2 * h - 1
      /\ AwayOrigin(h, r, p) \in 0 .. 2 * h - 1
  BY <1>1, OriginsDiffer
<1>3. \A j, k \in 0 .. 2 * h - 1 :
         Occupant(size, j) = Occupant(size, k) => j = k
  BY <1>1 DEF Occupant, Bye
<1>4. /\ HomeOrigin(h, r, q) # HomeOrigin(h, r, p)
      /\ HomeOrigin(h, r, q) # AwayOrigin(h, r, p)
      /\ AwayOrigin(h, r, q) # HomeOrigin(h, r, p)
      /\ AwayOrigin(h, r, q) # AwayOrigin(h, r, p)
  BY <1>1, TurnsApart
<1>5. Home(r, q) = Occupant(size, HomeOrigin(h, r, q))
  BY DEF Home
<1>6. Home(r, p) = Occupant(size, HomeOrigin(h, r, p))
  BY DEF Home
<1>7. Away(r, q) = Occupant(size, AwayOrigin(h, r, q))
  BY DEF Away
<1>8. Away(r, p) = Occupant(size, AwayOrigin(h, r, p))
  BY DEF Away
<1> QED  BY <1>2, <1>3, <1>4, <1>5, <1>6, <1>7, <1>8

\* Matches of one round.
PerRound == size \div 2

\* The turn of round r in which the bye, if there is one, sits out.
ByeTurn(h, r) == IF r < h THEN r ELSE 2 * h - 1 - r

\* The turns of the present round that were taken without a match.
Skipped == IF size = 2 * PerRound + 1 /\ ByeTurn(half, round) < i THEN 1 ELSE 0

\* The list holds a full share of every round that is over, ...
Counted == Len(matches) = round * PerRound + i - Skipped

\* ... and the matches of round r are in the places of that round.
Placed ==
    \A k \in DOMAIN matches :
        \E r \in 0 .. rounds - 1, q \in 0 .. half - 1 :
            /\ matches[k] = <<Home(r, q), Away(r, q)>>
            /\ r * PerRound < k /\ k <= (r + 1) * PerRound

\* The slot of the bye is the last in the first round and walks on from there.
LEMMA ByeOnce ==
    ASSUME Typing, NEW r \in 0 .. rounds - 1, NEW q \in 0 .. half - 1
    PROVE  /\ PerRound \in Nat
           /\ Home(r, q) = Bye \/ Away(r, q) = Bye
                <=> size = 2 * PerRound + 1 /\ q = ByeTurn(half, r)
           /\ ByeTurn(half, r) \in 0 .. half - 1
           /\ \/ size = 2 * PerRound /\ half = PerRound
              \/ size = 2 * PerRound + 1 /\ half = PerRound + 1
<1>1. /\ half \in Nat /\ 2 * half \in {size, size + 1} /\ size \in Nat
      /\ r \in 0 .. 2 * half - 2
  BY DEF Typing, rounds, n
<1>2. /\ PerRound \in Nat
      /\ \/ size = 2 * PerRound /\ half = PerRound
         \/ size = 2 * PerRound + 1 /\ half = PerRound + 1
  BY <1>1 DEF PerRound
<1>3. ByeTurn(half, r) \in 0 .. half - 1
  BY <1>1 DEF ByeTurn
<1>4. /\ HomeOrigin(half, r, q) \in 0 .. 2 * half - 1
      /\ AwayOrigin(half, r, q) \in 0 .. 2 * half - 1
  BY <1>1, OriginsDiffer
<1>5. /\ Home(r, q) = Bye <=> HomeOrigin(half, r, q) >= size
      /\ Away(r, q) = Bye <=> AwayOrigin(half, r, q) >= size
  BY <1>1, <1>4 DEF Home, Away, Occupant, Bye
<1>6. HomeOrigin(half, r, q) = 2 * half - 1 \/ AwayOrigin(half, r, q) = 2 * half - 1
        <=> q = ByeTurn(half, r)
  BY <1>1 DEF HomeOrigin, AwayOrigin, Origin, ByeTurn
<1> QED  BY <1>1, <1>2, <1>3, <1>4, <1>5, <1>6

\* The places of two rounds are apart.
LEMMA RoundsApart ==
    ASSUME NEW p \in Nat, NEW r \in Nat, NEW d \in Nat, NEW k \in Nat,
           r * p < k, k <= (r + 1) * p, d * p < k, k <= (d + 1) * p
    PROVE  r = d
<1>1. ASSUME NEW a \in Nat, NEW b \in Nat, a < b
      PROVE  (a + 1) * p <= b * p
  <2>1. b * p = (a + 1) * p + (b - a - 1) * p
    OBVIOUS
  <2>2. b - a - 1 \in Nat
    BY <1>1
  <2> HIDE <1>1
  <2>3. \A x \in Nat : x * p \in Nat
    OBVIOUS
  <2>4. (b - a - 1) * p \in Nat /\ (a + 1) * p \in Nat /\ b * p \in Nat
    BY <2>2, <2>3
  <2> QED  BY <2>1, <2>4
<1>2. r < d => (r + 1) * p <= d * p
  BY <1>1
<1>3. d < r => (d + 1) * p <= r * p
  BY <1>1
<1> QED  BY <1>2, <1>3

\* A turn with two teams puts its match into the next place of its round.
LEMMA AddMatchPlaced == IInv /\ Counted /\ Placed /\ AddMatch => Counted' /\ Placed'
<1> SUFFICES ASSUME IInv, Counted, Placed, AddMatch PROVE Counted' /\ Placed'
  OBVIOUS
<1> DEFINE pair == <<Home(round, i), Away(round, i)>>
           base == round * PerRound
<1>1. /\ Typing /\ Turned /\ round < rounds /\ i < half
      /\ UNCHANGED <<size, arr, round>> /\ i' = i + 1
  BY DEF IInv, AddMatch
<1>2. /\ round \in 0 .. rounds - 1 /\ i \in 0 .. half - 1
      /\ Home(round, i) # Bye /\ Away(round, i) # Bye
      /\ matches' = Append(matches, pair)
  BY <1>1, TurnPair DEF AddMatch
<1>3. /\ half' = half /\ rounds' = rounds /\ PerRound' = PerRound
      /\ \A r, q : Home(r, q)' = Home(r, q) /\ Away(r, q)' = Away(r, q)
  BY <1>1, SameCircle DEF PerRound
<1>4. /\ PerRound \in Nat
      /\ ByeTurn(half, round) \in 0 .. half - 1
      /\ size = 2 * PerRound + 1 => ByeTurn(half, round) # i
      /\ \/ size = 2 * PerRound /\ half = PerRound
         \/ size = 2 * PerRound + 1 /\ half = PerRound + 1
  BY <1>1, <1>2, ByeOnce
<1>5. /\ Len(matches) \in Nat /\ DOMAIN matches = 1 .. Len(matches)
      /\ DOMAIN matches' = 1 .. Len(matches) + 1
      /\ Len(matches') = Len(matches) + 1
      /\ matches'[Len(matches) + 1] = pair
      /\ \A k \in DOMAIN matches : matches'[k] = matches[k]
  <2>1. matches \in Seq((0 .. size - 1) \X (0 .. size - 1))
    BY <1>1 DEF Typing
  <2> HIDE DEF pair
  <2> QED  BY <1>2, <2>1
<1> HIDE DEF pair
<1>6. Skipped' = Skipped /\ Skipped \in {0, 1}
  BY <1>1, <1>2, <1>3, <1>4 DEF Skipped
<1>7. base \in Nat /\ (round + 1) * PerRound = base + PerRound
  BY <1>2, <1>4
<1>8. i + 1 - Skipped \in 1 .. PerRound
  BY <1>2, <1>4 DEF Skipped
<1>9. Len(matches) = base + i - Skipped
  BY DEF Counted
<1>10. Counted'
  BY <1>1, <1>2, <1>3, <1>5, <1>6, <1>7, <1>9 DEF Counted
<1>11. Placed'
  <2> SUFFICES ASSUME NEW k \in DOMAIN matches'
               PROVE  \E r \in 0 .. rounds - 1, q \in 0 .. half - 1 :
                         /\ matches'[k] = <<Home(r, q), Away(r, q)>>
                         /\ r * PerRound < k /\ k <= (r + 1) * PerRound
    BY <1>3 DEF Placed
  <2>1. CASE k \in DOMAIN matches
    <3>1. matches'[k] = matches[k]
      BY <2>1, <1>5
    <3> QED  BY <2>1, <3>1 DEF Placed
  <2>2. CASE k = Len(matches) + 1
    <3>1. matches'[k] = <<Home(round, i), Away(round, i)>>
      BY <2>2, <1>5 DEF pair
    <3>2. base < k /\ k <= (round + 1) * PerRound
      <4>1. k = base + (i + 1 - Skipped)
        BY <2>2, <1>2, <1>6, <1>7, <1>9
      <4> HIDE DEF base
      <4>2. i + 1 - Skipped \in Nat /\ i + 1 - Skipped > 0 /\ i + 1 - Skipped <= PerRound
        BY <1>4, <1>8
      <4> QED  BY <4>1, <4>2, <1>4, <1>7
    <3> QED  BY <3>1, <3>2, <1>2
  <2> QED  BY <2>1, <2>2, <1>5
<1> QED  BY <1>10, <1>11

\* A turn with the bye is the one skipped.
LEMMA SkipByePlaced == IInv /\ Counted /\ Placed /\ SkipBye => Counted' /\ Placed'
<1> SUFFICES ASSUME IInv, Counted, Placed, SkipBye PROVE Counted' /\ Placed'
  OBVIOUS
<1>1. /\ Typing /\ Turned /\ round < rounds /\ i < half
      /\ UNCHANGED <<size, arr, round, matches>> /\ i' = i + 1
  BY DEF IInv, SkipBye
<1>2. /\ round \in 0 .. rounds - 1 /\ i \in 0 .. half - 1
      /\ Home(round, i) = Bye \/ Away(round, i) = Bye
  BY <1>1, TurnPair DEF SkipBye
<1>3. /\ half' = half /\ rounds' = rounds /\ PerRound' = PerRound
      /\ \A r, q : Home(r, q)' = Home(r, q) /\ Away(r, q)' = Away(r, q)
  BY <1>1, SameCircle DEF PerRound
<1>4. size = 2 * PerRound + 1 /\ i = ByeTurn(half, round) /\ PerRound \in Nat
  BY <1>1, <1>2, ByeOnce
<1>5. Skipped = 0 /\ Skipped' = 1
  BY <1>1, <1>2, <1>3, <1>4 DEF Skipped
<1>6. round * PerRound \in Nat
  BY <1>2, <1>4
<1>7. Counted'
  BY <1>1, <1>2, <1>3, <1>5, <1>6 DEF Counted
<1>8. Placed'
  BY <1>1, <1>3 DEF Placed
<1> QED  BY <1>7, <1>8

\* At the end of a round its share is full.
LEMMA RotatePlaced == IInv /\ Counted /\ Placed /\ Rotate => Counted' /\ Placed'
<1> SUFFICES ASSUME IInv, Counted, Placed, Rotate PROVE Counted' /\ Placed'
  OBVIOUS
<1>1. /\ Typing /\ round < rounds /\ i = half
      /\ UNCHANGED <<size, matches>>
      /\ round' = round + 1 /\ i' = 0
  BY DEF IInv, Rotate
<1>2. /\ half' = half /\ n' = n /\ rounds' = rounds /\ PerRound' = PerRound
      /\ \A r, q : Home(r, q)' = Home(r, q) /\ Away(r, q)' = Away(r, q)
  BY <1>1 DEF half, n, rounds, Home, Away, PerRound
<1>3. round \in 0 .. rounds - 1 /\ half \in Nat /\ half > 0 /\ 0 \in 0 .. half - 1
  BY <1>1 DEF Typing, n, rounds
<1>4. /\ PerRound \in Nat /\ ByeTurn(half, round) \in 0 .. half - 1
      /\ \/ size = 2 * PerRound /\ half = PerRound
         \/ size = 2 * PerRound + 1 /\ half = PerRound + 1
  BY <1>1, <1>3, ByeOnce
<1>5. i - Skipped = PerRound /\ Skipped \in {0, 1}
  BY <1>1, <1>3, <1>4 DEF Skipped
<1>6. Skipped' = 0
  <2>1. rounds = 2 * half - 1
    BY DEF rounds, n
  <2>2. ByeTurn(half, round + 1) >= 0
    BY <2>1, <1>3 DEF ByeTurn
  <2>3. Skipped' = IF size = 2 * PerRound + 1 /\ ByeTurn(half, round + 1) < 0 THEN 1 ELSE 0
    BY <1>1, <1>2 DEF Skipped, ByeTurn
  <2>4. ByeTurn(half, round + 1) \in Int
    BY <1>3 DEF ByeTurn
  <2> QED  BY <2>2, <2>3, <2>4
<1>7. /\ round * PerRound \in Nat
      /\ (round + 1) * PerRound = round * PerRound + PerRound
  BY <1>3, <1>4
<1>8. Counted'
  BY <1>1, <1>2, <1>3, <1>4, <1>5, <1>6, <1>7 DEF Counted
<1>9. Placed'
  BY <1>1, <1>2 DEF Placed
<1> QED  BY <1>8, <1>9

\* In the places of a round are the pairs of its turns, which share nobody.
LEMMA PlacedApart == IInv /\ Placed => MatchdaysDisjoint
<1> SUFFICES ASSUME IInv, Placed, NEW d \in 0 .. rounds - 1,
                    NEW j \in Matchday(d), NEW k \in Matchday(d), j # k
             PROVE  {matches[j][1], matches[j][2]} \cap {matches[k][1], matches[k][2]} = {}
  BY DEF MatchdaysDisjoint
<1>1. /\ Typing /\ NoRematch /\ PerRound \in Nat /\ rounds \in Int /\ d \in Nat
      /\ DOMAIN matches \subseteq Nat
  BY DEF IInv, Typing, PerRound, rounds, n
<1>2. ASSUME NEW l \in Matchday(d)
      PROVE  \E q \in 0 .. half - 1 : matches[l] = <<Home(d, q), Away(d, q)>>
  <2>1. l \in DOMAIN matches /\ l \in Nat /\ d * PerRound < l /\ l <= (d + 1) * PerRound
    BY <1>1, <1>2 DEF Matchday, PerRound
  <2>2. PICK r \in 0 .. rounds - 1, q \in 0 .. half - 1 :
           /\ matches[l] = <<Home(r, q), Away(r, q)>>
           /\ r * PerRound < l /\ l <= (r + 1) * PerRound
    BY <2>1 DEF Placed
  <2>3. r = d
    BY <1>1, <2>1, <2>2, RoundsApart
  <2> QED  BY <2>2, <2>3
<1>3. PICK q \in 0 .. half - 1 : matches[j] = <<Home(d, q), Away(d, q)>>
  BY <1>2
<1>4. PICK p \in 0 .. half - 1 : matches[k] = <<Home(d, p), Away(d, p)>>
  BY <1>2
<1>5. q # p
  <2>1. j \in DOMAIN matches /\ k \in DOMAIN matches
    BY DEF Matchday
  <2> QED  BY <1>1, <1>3, <1>4, <2>1 DEF NoRematch
<1> QED  BY <1>1, <1>3, <1>4, <1>5, TeamsApart

\* The list of Generate, cut into rounds of equal length, is a calendar: for any
\* number of teams, nobody is in two matches of one round.
THEOREM MatchdaysApart == Spec => []MatchdaysDisjoint
<1>1. Init => Counted /\ Placed
  <2> SUFFICES ASSUME Init PROVE Counted /\ Placed
    OBVIOUS
  <2>1. size \in Nat /\ matches = <<>> /\ round = 0 /\ i = 0
    BY SizesAssumption DEF Init
  <2>2. half \in Nat /\ PerRound \in Nat
    BY <2>1 DEF half, PerRound
  <2>3. Skipped = 0 /\ round * PerRound = 0 /\ Len(matches) = 0
    <3>1. size = 2 * PerRound + 1 => ByeTurn(half, 0) = 0
      BY <2>1, <2>2 DEF half, ByeTurn
    <3> QED  BY <2>1, <2>2, <3>1 DEF Skipped
  <2>4. Counted
    BY <2>1, <2>3 DEF Counted
  <2> QED  BY <2>1, <2>4 DEF Placed
<1>2. IInv /\ Counted /\ Placed /\ [Next]_vars => Counted' /\ Placed'
  <2>1. UNCHANGED vars /\ Counted /\ Placed => Counted' /\ Placed'
    BY DEF vars, Counted, Placed, Skipped, PerRound, half, n, rounds, Home, Away
  <2> QED  BY <2>1, AddMatchPlaced, SkipByePlaced, RotatePlaced DEF Next
<1> QED  BY <1>1, <1>2, Inductive, PlacedApart, PTL DEF Spec
==============================================================================
