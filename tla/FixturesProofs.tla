---------------------------- MODULE FixturesProofs ----------------------------
(***************************************************************************)
(* Theorems about the two loops of RoundRobinGenerator, for any number of  *)
(* teams.  Both follow the circle of CircleMethod step by step, so that    *)
(* what CircleMethodProofs says of the circle is true of them; home and    *)
(* away, and the round number, are Generate's own.                         *)
(***************************************************************************)
EXTENDS Fixtures, FiniteSetTheorems, TLAPS

\* The matches of Generate as pairs of the circle.
PairsOf(s) ==
    [k \in DOMAIN s |-> IF s[k].round % 2 = 1 THEN <<s[k].home, s[k].away>>
                                              ELSE <<s[k].away, s[k].home>>]
Pairs == PairsOf(out)

GenCircle == INSTANCE CircleMethodProofs WITH
    arr <- idx, round <- genRound, i <- genSlot, matches <- Pairs

\* The two lists of GenerateSingleRound as one circle.
Folded ==
    [j \in 0 .. Lists!n - 1 |->
        IF j < Lists!half THEN left[j + 1] ELSE right[Lists!n - j]]

ListCircle == INSTANCE CircleMethodProofs WITH
    arr <- Folded, round <- listRound, i <- listSlot, matches <- games

\* Each generator takes its own steps.
LEMMA StepsOfEach ==
    [AllNext]_allVars =>
        [Next]_vars /\ [Gen!Next]_(Gen!vars) /\ [Lists!Next]_(Lists!vars)
BY DEF AllNext, Turn, allVars, vars, genVars, listVars, Gen!vars, Lists!vars,
       Next, AddMatch, SkipBye, Rotate
------------------------------------------------------------------------------
\* Generate follows the circle

\* A sequence that is one longer, and the same before that, is an appended one.
LEMMA AppendedBy ==
    ASSUME NEW S, NEW s \in Seq(S), NEW e \in S, NEW t \in Seq(S),
           Len(t) = Len(s) + 1, t[Len(s) + 1] = e,
           \A k \in 1 .. Len(s) : t[k] = s[k]
    PROVE  t = Append(s, e)
<1>1. /\ Append(s, e) \in Seq(S) /\ Len(Append(s, e)) = Len(s) + 1 /\ Len(s) \in Nat
      /\ Append(s, e)[Len(s) + 1] = e
      /\ \A k \in 1 .. Len(s) : Append(s, e)[k] = s[k]
  OBVIOUS
<1>2. ASSUME NEW k \in 1 .. Len(s) + 1 PROVE t[k] = Append(s, e)[k]
  <2>1. k \in 1 .. Len(s) \/ k = Len(s) + 1
    BY <1>1
  <2> QED  BY <1>1, <2>1
<1> QED  BY <1>1, <1>2

LEMMA FunctionIsSeq ==
    ASSUME NEW S, NEW m \in Nat, NEW f \in [1 .. m -> S]
    PROVE  f \in Seq(S) /\ Len(f) = m
<1>1. f \in Seq(S)
  OBVIOUS
<1> QED  BY <1>1

MatchSet == [home : Int, away : Int, round : Nat]

GenTyped ==
    /\ size \in Nat
    /\ idx \in [0 .. Gen!n - 1 -> Int]
    /\ genRound \in Nat /\ genSlot \in Nat
    /\ out \in Seq(MatchSet)

\* Both modules cut the circle in the same way.
LEMMA GenSlots ==
    ASSUME size \in Nat
    PROVE  /\ Gen!n = GenCircle!n /\ Gen!n = 2 * GenCircle!half
           /\ Gen!n \div 2 = GenCircle!half /\ GenCircle!half \in Nat
           /\ size >= 2 => Gen!rounds = GenCircle!rounds
           /\ size < 2 => Gen!rounds = 0
BY DEF Gen!n, Gen!odd, Gen!rounds, GenCircle!n, GenCircle!half, GenCircle!rounds

LEMMA PairsTyped ==
    ASSUME NEW s \in Seq(MatchSet)
    PROVE  PairsOf(s) \in Seq(Int \X Int) /\ Len(PairsOf(s)) = Len(s)
<1>1. Len(s) \in Nat /\ DOMAIN s = 1 .. Len(s)
  OBVIOUS
<1>2. ASSUME NEW k \in DOMAIN s PROVE s[k].home \in Int /\ s[k].away \in Int
  <2>1. s[k] \in MatchSet
    BY <1>2
  <2> QED  BY <2>1 DEF MatchSet
<1>3. PairsOf(s) \in [1 .. Len(s) -> Int \X Int]
  BY <1>1, <1>2 DEF PairsOf
<1> QED  BY <1>1, <1>3, FunctionIsSeq

\* A match that is pushed is a pair of the circle, the right way round.
LEMMA PairsAppend ==
    ASSUME out \in Seq(MatchSet), genRound \in Nat, NEW a \in Int, NEW b \in Int,
           out' = Append(out, Gen!MatchOf(a, b))
    PROVE  /\ out' \in Seq(MatchSet) /\ Pairs' = Append(Pairs, <<a, b>>)
           /\ Len(out) \in Nat /\ DOMAIN out = 1 .. Len(out)
           /\ DOMAIN out' = 1 .. Len(out) + 1
           /\ \A k \in 1 .. Len(out) : out'[k] = out[k] /\ Pairs'[k] = Pairs[k]
           /\ out'[Len(out) + 1] = Gen!MatchOf(a, b)
           /\ Pairs'[Len(out) + 1] = <<a, b>>
<1> DEFINE e == Gen!MatchOf(a, b)
<1>1. /\ e \in MatchSet
      /\ (IF e.round % 2 = 1 THEN <<e.home, e.away>> ELSE <<e.away, e.home>>) = <<a, b>>
  BY DEF Gen!MatchOf, MatchSet
<1> HIDE DEF e
<1>2. /\ out' \in Seq(MatchSet) /\ Len(out') = Len(out) + 1 /\ Len(out) \in Nat
      /\ out'[Len(out) + 1] = e /\ \A k \in 1 .. Len(out) : out'[k] = out[k]
      /\ DOMAIN out' = 1 .. Len(out) + 1 /\ DOMAIN out = 1 .. Len(out)
  BY <1>1 DEF e
<1>3. /\ PairsOf(out) \in Seq(Int \X Int) /\ Len(PairsOf(out)) = Len(out)
      /\ PairsOf(out') \in Seq(Int \X Int) /\ Len(PairsOf(out')) = Len(out) + 1
  BY <1>2, PairsTyped
<1>4. PairsOf(out')[Len(out) + 1] = <<a, b>>
  BY <1>1, <1>2 DEF PairsOf
<1>5. \A k \in 1 .. Len(out) : PairsOf(out')[k] = PairsOf(out)[k]
  BY <1>2 DEF PairsOf
<1>6. <<a, b>> \in Int \X Int
  OBVIOUS
<1>7. PairsOf(out') = Append(PairsOf(out), <<a, b>>)
  BY <1>3, <1>4, <1>5, <1>6, AppendedBy
<1> QED  BY <1>2, <1>4, <1>5, <1>7 DEF Pairs, e

\* Each of its steps is one of the circle.
LEMMA GenStep ==
    ASSUME GenTyped, [Gen!Next]_(Gen!vars)
    PROVE  GenTyped' /\ [GenCircle!Next]_(GenCircle!vars)
<1>1. /\ Gen!n = GenCircle!n /\ Gen!n = 2 * GenCircle!half
      /\ Gen!n \div 2 = GenCircle!half /\ GenCircle!half \in Nat
      /\ genRound < Gen!rounds => genRound < GenCircle!rounds /\ size >= 2
  BY GenSlots DEF GenTyped
<1>2. CASE Gen!Pair
  <2> DEFINE a == idx[genSlot]
             b == idx[Gen!n - 1 - genSlot]
  <2>1. /\ genRound < Gen!rounds /\ genSlot < GenCircle!half /\ genSlot' = genSlot + 1
        /\ out' = IF Bye \in {a, b} THEN out ELSE Append(out, Gen!MatchOf(a, b))
        /\ UNCHANGED <<size, idx, genRound>> /\ Gen!n' = Gen!n
    BY <1>1, <1>2 DEF Gen!Pair, Gen!Bye, Bye, Gen!n, Gen!odd
  <2>2. a \in Int /\ b \in Int
    BY <1>1, <2>1 DEF GenTyped
  <2>3. b = GenCircle!Opponent
    BY <1>1 DEF GenCircle!Opponent
  <2> HIDE DEF a, b
  <2>4. CASE Bye \in {a, b}
    <3>1. out' = out /\ Pairs' = Pairs
      BY <2>1, <2>4 DEF Pairs
    <3>2. GenCircle!SkipBye
      BY <1>1, <2>1, <2>3, <2>4, <3>1 DEF GenCircle!SkipBye, GenCircle!Bye, Bye, a
    <3> QED  BY <2>1, <3>1, <3>2 DEF GenTyped, GenCircle!Next
  <2>5. CASE Bye \notin {a, b}
    <3>1. out' \in Seq(MatchSet) /\ Pairs' = Append(Pairs, <<a, b>>)
      BY <2>1, <2>2, <2>5, PairsAppend DEF GenTyped
    <3>2. GenCircle!AddMatch
      BY <1>1, <2>1, <2>3, <2>5, <3>1 DEF GenCircle!AddMatch, GenCircle!Bye, Bye, a
    <3> QED  BY <2>1, <3>1, <3>2 DEF GenTyped, GenCircle!Next
  <2> QED  BY <2>4, <2>5
<1>3. CASE Gen!Rotate
  <2>1. /\ genRound < Gen!rounds /\ genSlot = GenCircle!half
        /\ idx' = [j \in 0 .. Gen!n - 1 |-> idx[Gen!Source(j)]]
        /\ genRound' = genRound + 1 /\ genSlot' = 0
        /\ UNCHANGED <<size, out>> /\ Gen!n' = Gen!n
    BY <1>1, <1>3 DEF Gen!Rotate, Gen!n, Gen!odd
  <2>2. \A j \in 0 .. Gen!n - 1 :
           /\ Gen!Source(j) \in 0 .. Gen!n - 1
           /\ idx[Gen!Source(j)] = CASE j = 0 -> idx[0]
                                     [] j = 1 -> idx[GenCircle!n - 1]
                                     [] j > 1 -> idx[j - 1]
    BY <1>1 DEF Gen!Source
  <2>3. idx' = GenCircle!Rotated /\ Pairs' = Pairs
    BY <1>1, <2>1, <2>2 DEF GenCircle!Rotated, Pairs
  <2>4. GenTyped'
    BY <2>1, <2>2 DEF GenTyped
  <2> QED  BY <1>1, <2>1, <2>3, <2>4 DEF GenCircle!Rotate, GenCircle!Next
<1>4. CASE UNCHANGED Gen!vars
  BY <1>4 DEF Gen!vars, GenTyped, GenCircle!vars, Pairs, Gen!n, Gen!odd
<1> QED  BY <1>2, <1>3, <1>4 DEF Gen!Next

LEMMA GenStarts == AllInit => GenTyped /\ GenCircle!Init
<1> SUFFICES ASSUME AllInit PROVE GenTyped /\ GenCircle!Init
  OBVIOUS
<1>1. /\ size \in Nat /\ size \in Sizes /\ genRound = 0 /\ genSlot = 0 /\ out = <<>>
      /\ idx = [j \in 0 .. Gen!n - 1 |-> IF j = size THEN Bye ELSE j]
  BY SizesAssumption DEF AllInit, Gen!Init, Gen!Bye, Bye
<1>2. \A j \in 0 .. Gen!n - 1 : j = size \/ j < size
  BY <1>1 DEF Gen!n, Gen!odd
<1>3. idx = [j \in 0 .. GenCircle!n - 1 |-> IF j < size THEN j ELSE GenCircle!Bye]
  BY <1>1, <1>2, GenSlots DEF GenCircle!Bye, Bye
<1>4. Pairs = <<>>
  BY <1>1 DEF Pairs, PairsOf
<1>5. idx \in [0 .. Gen!n - 1 -> Int]
  BY <1>1 DEF Bye
<1>6. GenTyped
  BY <1>1, <1>5 DEF GenTyped
<1> QED  BY <1>1, <1>3, <1>4, <1>6 DEF GenCircle!Init

LEMMA GenSpec == AllSpec => []GenTyped /\ GenCircle!Spec
<1>1. GenTyped /\ [AllNext]_allVars => GenTyped' /\ [GenCircle!Next]_(GenCircle!vars)
  BY GenStep, StepsOfEach
<1> QED  BY <1>1, GenStarts, PTL DEF AllSpec, GenCircle!Spec

\* Generate makes the pairs of the circle method, in its order, for any number of
\* teams.
THEOREM GenerateOnCircle == AllSpec => GenerateFollowsCircle
<1>1. GenCircle!Spec => GenerateFollowsCircle
  <2>1. GenCircle!Init => Gen!Circle!Init
    BY DEF GenCircle!Init, GenCircle!n, GenCircle!half, GenCircle!Bye,
           Gen!Circle!Init, Gen!Circle!n, Gen!Circle!half, Gen!Circle!Bye, Pairs, PairsOf
  <2>2. [GenCircle!Next]_(GenCircle!vars) => [Gen!Circle!Next]_(Gen!Circle!vars)
    BY DEF GenCircle!Next, GenCircle!AddMatch, GenCircle!SkipBye, GenCircle!Rotate,
           GenCircle!Opponent, GenCircle!Rotated, GenCircle!n, GenCircle!half,
           GenCircle!rounds, GenCircle!Bye, GenCircle!vars,
           Gen!Circle!Next, Gen!Circle!AddMatch, Gen!Circle!SkipBye,
           Gen!Circle!Rotate, Gen!Circle!Opponent, Gen!Circle!Rotated,
           Gen!Circle!n, Gen!Circle!half, Gen!Circle!rounds, Gen!Circle!Bye,
           Gen!Circle!vars, Pairs, PairsOf
  <2> QED  BY <2>1, <2>2, PTL
           DEF GenCircle!Spec, GenerateFollowsCircle, Gen!FollowsCircle, Gen!Circle!Spec
<1> QED  BY <1>1, GenSpec, PTL

\* What the circle is known to do, Generate does: nobody meets twice, and in the
\* end everyone has met.
THEOREM GenerateIsRoundRobin ==
    AllSpec => [](Gen!Circle!NoRematch /\ Gen!Circle!EveryoneMeets)
<1>1. GenCircle!NoRematch => Gen!Circle!NoRematch
  BY DEF GenCircle!NoRematch, Gen!Circle!NoRematch, Pairs, PairsOf
<1>2. GenCircle!EveryoneMeets => Gen!Circle!EveryoneMeets
  <2>1. Gen!Circle!Returned <=> GenCircle!Returned
    BY DEF GenCircle!Returned, GenCircle!rounds, GenCircle!n, GenCircle!half,
           Gen!Circle!Returned, Gen!Circle!rounds, Gen!Circle!n, Gen!Circle!half
  <2> QED  BY <2>1, Zenon DEF GenCircle!EveryoneMeets, Gen!Circle!EveryoneMeets,
                            Pairs, PairsOf
<1> QED
  BY <1>1, <1>2, GenSpec, SizesAssumption, GenCircle!PairsUnique, GenCircle!PairsComplete,
     PTL
------------------------------------------------------------------------------
\* OncePerRound

\* The round a match is numbered with is the one whose turn made it.
Rounds ==
    \A k \in DOMAIN out :
        \E q \in 0 .. GenCircle!half - 1 :
            LET r == out[k].round - 1 IN
            /\ r \in 0 .. GenCircle!rounds - 1
            /\ Pairs[k] = <<GenCircle!Home(r, q), GenCircle!Away(r, q)>>

\* A turn of Generate, with the teams that the circle says it brings together.
LEMMA GenTurn ==
    ASSUME GenTyped, GenCircle!IInv, Gen!Pair
    PROVE  LET a == GenCircle!Home(genRound, genSlot)
               b == GenCircle!Away(genRound, genSlot)
           IN  /\ genRound \in 0 .. GenCircle!rounds - 1
               /\ genSlot \in 0 .. GenCircle!half - 1
               /\ a # b
               /\ a \in 0 .. size - 1 \/ a = Bye
               /\ b \in 0 .. size - 1 \/ b = Bye
               /\ UNCHANGED <<size, idx, genRound>> /\ genSlot' = genSlot + 1
               /\ out' = IF Bye \in {a, b} THEN out
                                           ELSE Append(out, Gen!MatchOf(a, b))
<1>1. /\ Gen!n = GenCircle!n /\ Gen!n \div 2 = GenCircle!half
      /\ genRound < Gen!rounds => genRound < GenCircle!rounds
  BY GenSlots DEF GenTyped
<1>2. /\ genRound < GenCircle!rounds /\ genSlot < GenCircle!half
      /\ UNCHANGED <<size, idx, genRound>> /\ genSlot' = genSlot + 1
      /\ out' = IF Bye \in {idx[genSlot], GenCircle!Opponent} THEN out
                ELSE Append(out, Gen!MatchOf(idx[genSlot], GenCircle!Opponent))
  BY <1>1 DEF Gen!Pair, Gen!Bye, Bye, GenCircle!Opponent
<1>3. /\ genRound \in 0 .. GenCircle!rounds - 1 /\ genSlot \in 0 .. GenCircle!half - 1
      /\ idx[genSlot] = GenCircle!Home(genRound, genSlot)
      /\ GenCircle!Opponent = GenCircle!Away(genRound, genSlot)
      /\ GenCircle!Home(genRound, genSlot) # GenCircle!Away(genRound, genSlot)
      /\ GenCircle!Home(genRound, genSlot) # GenCircle!Bye =>
            GenCircle!Home(genRound, genSlot) \in 0 .. size - 1
      /\ GenCircle!Away(genRound, genSlot) # GenCircle!Bye =>
            GenCircle!Away(genRound, genSlot) \in 0 .. size - 1
  BY <1>2, SizesAssumption, GenCircle!TurnPair DEF GenCircle!IInv
<1>4. out' = IF Bye \in {GenCircle!Home(genRound, genSlot),
                        GenCircle!Away(genRound, genSlot)} THEN out
             ELSE Append(out, Gen!MatchOf(GenCircle!Home(genRound, genSlot),
                                          GenCircle!Away(genRound, genSlot)))
  BY <1>2, <1>3
<1> QED  BY <1>2, <1>3, <1>4 DEF GenCircle!Bye, Bye

\* Which turns there are, and who meets in them, does not change.
LEMMA GenSame ==
    ASSUME UNCHANGED size
    PROVE  /\ GenCircle!half' = GenCircle!half /\ GenCircle!rounds' = GenCircle!rounds
           /\ \A r, q : /\ GenCircle!Home(r, q)' = GenCircle!Home(r, q)
                        /\ GenCircle!Away(r, q)' = GenCircle!Away(r, q)
BY DEF GenCircle!half, GenCircle!rounds, GenCircle!n, GenCircle!Home, GenCircle!Away

LEMMA RoundsStep ==
    ASSUME GenTyped, GenCircle!IInv, Rounds, [Gen!Next]_(Gen!vars)
    PROVE  Rounds'
<1>1. CASE out' = out /\ UNCHANGED size
  BY <1>1, GenSame DEF Rounds, Pairs
<1>2. CASE Gen!Pair
  <2> DEFINE a == GenCircle!Home(genRound, genSlot)
             b == GenCircle!Away(genRound, genSlot)
  <2>1. /\ genRound \in 0 .. GenCircle!rounds - 1
        /\ genSlot \in 0 .. GenCircle!half - 1
        /\ a \in 0 .. size - 1 \/ a = Bye
        /\ b \in 0 .. size - 1 \/ b = Bye
        /\ UNCHANGED size
        /\ out' = IF Bye \in {a, b} THEN out ELSE Append(out, Gen!MatchOf(a, b))
    BY <1>2, GenTurn
  <2> HIDE DEF a, b
  <2>2. CASE Bye \in {a, b}
    BY <1>1, <2>1, <2>2
  <2>3. CASE Bye \notin {a, b}
    <3>1. a \in Int /\ b \in Int /\ out' = Append(out, Gen!MatchOf(a, b))
      BY <2>1, <2>3
    <3>2. /\ Len(out) \in Nat /\ DOMAIN out = 1 .. Len(out)
          /\ DOMAIN out' = 1 .. Len(out) + 1
          /\ \A k \in 1 .. Len(out) : out'[k] = out[k] /\ Pairs'[k] = Pairs[k]
          /\ out'[Len(out) + 1] = Gen!MatchOf(a, b)
          /\ Pairs'[Len(out) + 1] = <<a, b>> /\ genRound \in Nat
      BY <3>1, PairsAppend DEF GenTyped
    <3>3. out'[Len(out) + 1].round - 1 = genRound
      BY <3>2 DEF Gen!MatchOf
    <3> QED  BY <2>1, <3>2, <3>3, GenSame DEF Rounds, a, b
  <2> QED  BY <2>2, <2>3
<1>3. CASE Gen!Rotate \/ UNCHANGED Gen!vars
  BY <1>1, <1>3 DEF Gen!Rotate, Gen!vars
<1> QED  BY <1>2, <1>3 DEF Gen!Next

\* What the circle and the typing say of every state.
LEMMA GenHolds == AllSpec => [](GenTyped /\ GenCircle!IInv)
BY GenSpec, SizesAssumption, GenCircle!Inductive, PTL

\* No team plays twice in a round of Generate: the pairs of a round are those of
\* its turns, and a turn that has its match is over.
THEOREM RoundsAreFair == AllSpec => []OncePerRound
<1>1. AllInit => Rounds
  BY DEF AllInit, Gen!Init, Rounds
<1>2. GenTyped /\ GenCircle!IInv /\ Rounds /\ [AllNext]_allVars => Rounds'
  BY StepsOfEach, RoundsStep
<1>3. GenTyped /\ GenCircle!IInv /\ Rounds => OncePerRound
  <2> SUFFICES ASSUME GenTyped, GenCircle!IInv, Rounds,
                      NEW j \in DOMAIN out, NEW k \in DOMAIN out, j # k,
                      out[j].round = out[k].round
               PROVE  {out[j].home, out[j].away} \cap {out[k].home, out[k].away} = {}
    BY DEF OncePerRound, Gen!OncePerRound
  <2> DEFINE r == out[j].round - 1
  <2>1. PICK q \in 0 .. GenCircle!half - 1 :
           /\ r \in 0 .. GenCircle!rounds - 1
           /\ Pairs[j] = <<GenCircle!Home(r, q), GenCircle!Away(r, q)>>
    BY DEF Rounds
  <2>2. PICK p \in 0 .. GenCircle!half - 1 :
           Pairs[k] = <<GenCircle!Home(r, p), GenCircle!Away(r, p)>>
    BY DEF Rounds
  <2>3. /\ {out[j].home, out[j].away} = {Pairs[j][1], Pairs[j][2]}
        /\ {out[k].home, out[k].away} = {Pairs[k][1], Pairs[k][2]}
        /\ DOMAIN Pairs = DOMAIN out
    BY DEF Pairs, PairsOf
  <2>4. q # p
    <3> SUFFICES ASSUME q = p PROVE FALSE
      OBVIOUS
    <3>1. {Pairs[j][1], Pairs[j][2]} = {Pairs[k][1], Pairs[k][2]}
      BY <2>1, <2>2
    <3> QED  BY <2>3, <3>1 DEF GenCircle!IInv, GenCircle!NoRematch
  <2> HIDE DEF r
  <2> QED  BY <2>1, <2>2, <2>3, <2>4, SizesAssumption, GenCircle!TeamsApart DEF GenCircle!IInv
<1> QED  BY <1>1, <1>2, <1>3, GenHolds, PTL DEF AllSpec
------------------------------------------------------------------------------
\* HomeAwayBalanced.  A team but the first walks around the circle, along the
\* home side, the away side and then the one it began on; on each of these walks
\* the swapping of sides lets it play home and away in turn.

Odd(x) == x % 2

\* Where team t is after x rounds, h being half the number of slots.
Slot(h, t, x) ==
    IF t = 0 THEN 0 ELSE IF t + x <= 2 * h - 1 THEN t + x ELSE t + x - (2 * h - 1)
TurnOf(h, t, x) ==
    IF Slot(h, t, x) < h THEN Slot(h, t, x) ELSE 2 * h - 1 - Slot(h, t, x)

\* How much oftener it has then been at home than away, if it never met the bye.
Swing(h, t, x) ==
    IF t = 0 THEN Odd(x)
    ELSE IF t < h
         THEN IF x <= h - t THEN Odd(x)
              ELSE IF x <= 2 * h - t THEN 2 * Odd(h - t) - Odd(x)
              ELSE 2 * Odd(h - t) - 2 * Odd(2 * h - t) + Odd(x)
         ELSE IF x <= 2 * h - t THEN -Odd(x)
              ELSE IF x <= 3 * h - 1 - t THEN Odd(x) - 2 * Odd(2 * h - t)
              ELSE 2 * Odd(3 * h - 1 - t) - 2 * Odd(2 * h - t) - Odd(x)

LEMMA OddFacts ==
    /\ Odd(0) = 0
    /\ \A x \in Nat : Odd(x) \in {0, 1} /\ Odd(x + 1) = 1 - Odd(x)
BY DEF Odd

LEMMA SwingStep ==
    ASSUME NEW h \in Nat, NEW t \in 0 .. 2 * h - 1, NEW x \in 0 .. 2 * h - 2
    PROVE  Swing(h, t, x + 1) =
             Swing(h, t, x) +
                (IF (Slot(h, t, x) < h) <=> (Odd(x) = 0) THEN 1 ELSE -1)
<1>1. Odd(x) \in {0, 1} /\ Odd(x + 1) = 1 - Odd(x)
  BY OddFacts
<1>2. CASE t = 0
  BY <1>1, <1>2 DEF Swing, Slot
<1>3. CASE t > 0 /\ t < h
  <2>1. Odd(h - t) \in {0, 1} /\ Odd(2 * h - t) \in {0, 1}
    BY <1>3, OddFacts
  <2>2. CASE x < h - t
    BY <1>1, <1>3, <2>2 DEF Swing, Slot
  <2>3. CASE x = h - t
    <3>1. Odd(h - t) = Odd(x)
      BY <2>3
    <3> QED  BY <1>1, <1>3, <2>3, <3>1 DEF Swing, Slot
  <2>4. CASE h - t < x /\ x < 2 * h - t
    BY <1>1, <1>3, <2>1, <2>4 DEF Swing, Slot
  <2>5. CASE x = 2 * h - t
    <3>1. Odd(2 * h - t) = Odd(x)
      BY <2>5
    <3> QED  BY <1>1, <1>3, <2>1, <2>5, <3>1 DEF Swing, Slot
  <2>6. CASE x > 2 * h - t
    BY <1>1, <1>3, <2>1, <2>6 DEF Swing, Slot
  <2> QED  BY <2>2, <2>3, <2>4, <2>5, <2>6
<1>4. CASE t >= h /\ t > 0
  <2>1. Odd(2 * h - t) \in {0, 1} /\ Odd(3 * h - 1 - t) \in {0, 1}
    BY <1>4, OddFacts
  <2>2. CASE x < 2 * h - t
    BY <1>1, <1>4, <2>2 DEF Swing, Slot
  <2>3. CASE x = 2 * h - t
    <3>1. Odd(2 * h - t) = Odd(x)
      BY <2>3
    <3> QED  BY <1>1, <1>4, <2>3, <3>1 DEF Swing, Slot
  <2>4. CASE 2 * h - t < x /\ x < 3 * h - 1 - t
    BY <1>1, <1>4, <2>1, <2>4 DEF Swing, Slot
  <2>5. CASE x = 3 * h - 1 - t /\ x > 2 * h - t
    <3>1. Odd(3 * h - 1 - t) = Odd(x)
      BY <2>5
    <3> QED  BY <1>1, <1>4, <2>1, <2>5, <3>1 DEF Swing, Slot
  <2>6. CASE x > 3 * h - 1 - t
    BY <1>1, <1>4, <2>1, <2>6 DEF Swing, Slot
  <2> QED  BY <1>4, <2>2, <2>3, <2>4, <2>5, <2>6
<1> QED  BY <1>2, <1>3, <1>4

LEMMA SwingBounds ==
    ASSUME NEW h \in Nat, NEW t \in 0 .. 2 * h - 1, NEW x \in 0 .. 2 * h - 1
    PROVE  Swing(h, t, x) \in -3 .. 3 /\ Swing(h, t, 0) = 0
<1>1. Odd(x) \in {0, 1} /\ Odd(0) = 0
  BY OddFacts
<1>2. CASE t = 0
  BY <1>1, <1>2 DEF Swing
<1>3. CASE t > 0 /\ t < h
  <2>1. Odd(h - t) \in {0, 1} /\ Odd(2 * h - t) \in {0, 1}
    BY <1>3, OddFacts
  <2> QED  BY <1>1, <1>3, <2>1 DEF Swing
<1>4. CASE t >= h /\ t > 0
  <2>1. Odd(2 * h - t) \in {0, 1} /\ Odd(3 * h - 1 - t) \in {0, 1}
    BY <1>4, OddFacts
  <2> QED  BY <1>1, <1>4, <2>1 DEF Swing
<1> QED  BY <1>2, <1>3, <1>4

\* A team is in one slot, and in one turn of each round.
LEMMA SlotOrigin ==
    ASSUME NEW h \in Nat, NEW t \in 0 .. 2 * h - 1, NEW x \in 0 .. 2 * h - 2,
           NEW q \in 0 .. h - 1
    PROVE  /\ Slot(h, t, x) \in 0 .. 2 * h - 1 /\ TurnOf(h, t, x) \in 0 .. h - 1
           /\ GenCircle!HomeOrigin(h, x, q) = t <=> Slot(h, t, x) = q
           /\ GenCircle!AwayOrigin(h, x, q) = t <=> Slot(h, t, x) = 2 * h - 1 - q
BY DEF Slot, TurnOf, GenCircle!HomeOrigin, GenCircle!AwayOrigin, GenCircle!Origin

AtHome(t) == {k \in DOMAIN out : out[k].home = t}
AtAway(t) == {k \in DOMAIN out : out[k].away = t}
Net(t)    == Cardinality(AtHome(t)) - Cardinality(AtAway(t))

\* The rounds in which t has had its turn, and whether one of them was a bye.
Played(t) ==
    genRound + (IF TurnOf(GenCircle!half, t, genRound) < genSlot THEN 1 ELSE 0)
MetBye(t) ==
    \E r \in 0 .. GenCircle!rounds - 1, q \in 0 .. GenCircle!half - 1 :
        /\ GenCircle!Taken(r, q)
        /\ {GenCircle!Home(r, q), GenCircle!Away(r, q)} = {t, Bye}

Balance ==
    \A t \in 0 .. size - 1 :
        \E b \in {-1, 0, 1} :
            /\ Net(t) = Swing(GenCircle!half, t, Played(t)) + b
            /\ b # 0 => MetBye(t)

\* Who plays in a turn, by where the teams are.
LEMMA TurnTeams ==
    ASSUME GenCircle!Typing, NEW r \in 0 .. GenCircle!rounds - 1,
           NEW q \in 0 .. GenCircle!half - 1, NEW t \in 0 .. size - 1
    PROVE  LET h == GenCircle!half IN
           /\ h \in Nat /\ t \in 0 .. 2 * h - 1 /\ r \in 0 .. 2 * h - 2
           /\ TurnOf(h, t, r) \in 0 .. h - 1
           /\ GenCircle!Home(r, q) = t <=> TurnOf(h, t, r) = q /\ Slot(h, t, r) < h
           /\ GenCircle!Away(r, q) = t <=> TurnOf(h, t, r) = q /\ Slot(h, t, r) >= h
<1> DEFINE h == GenCircle!half
<1>1. /\ h \in Nat /\ 2 * h \in {size, size + 1} /\ size \in Nat
      /\ r \in 0 .. 2 * h - 2 /\ t \in 0 .. 2 * h - 1
  BY DEF GenCircle!Typing, GenCircle!rounds, GenCircle!n
<1>2. /\ GenCircle!HomeOrigin(h, r, q) \in 0 .. 2 * h - 1
      /\ GenCircle!AwayOrigin(h, r, q) \in 0 .. 2 * h - 1
  BY <1>1, SizesAssumption, GenCircle!OriginsDiffer
<1>3. \A j \in 0 .. 2 * h - 1 : GenCircle!Occupant(size, j) = t <=> j = t
  BY <1>1 DEF GenCircle!Occupant, GenCircle!Bye
<1>4. /\ Slot(h, t, r) \in 0 .. 2 * h - 1 /\ TurnOf(h, t, r) \in 0 .. h - 1
      /\ GenCircle!HomeOrigin(h, r, q) = t <=> Slot(h, t, r) = q
      /\ GenCircle!AwayOrigin(h, r, q) = t <=> Slot(h, t, r) = 2 * h - 1 - q
  BY <1>1, SlotOrigin
<1>5. /\ GenCircle!Home(r, q) = t <=> Slot(h, t, r) = q
      /\ GenCircle!Away(r, q) = t <=> Slot(h, t, r) = 2 * h - 1 - q
  BY <1>2, <1>3, <1>4 DEF GenCircle!Home, GenCircle!Away
<1> HIDE DEF h
<1>6. /\ Slot(h, t, r) = q <=> TurnOf(h, t, r) = q /\ Slot(h, t, r) < h
      /\ Slot(h, t, r) = 2 * h - 1 - q <=> TurnOf(h, t, r) = q /\ Slot(h, t, r) >= h
  BY <1>1, <1>4 DEF TurnOf, h
<1> QED  BY <1>1, <1>4, <1>5, <1>6 DEF h

\* What a new match does to the balance of a team.
LEMMA NetAppend ==
    ASSUME out \in Seq(MatchSet), genRound \in Nat,
           NEW a \in Int, NEW b \in Int, a # b,
           out' = Append(out, Gen!MatchOf(a, b)), NEW t \in Int
    PROVE  /\ Net(t) \in Int
           /\ Net(t)' = Net(t) + (IF t \notin {a, b} THEN 0
                                  ELSE IF (t = a) <=> (Odd(genRound) = 0) THEN 1
                                  ELSE -1)
<1> DEFINE e == Gen!MatchOf(a, b)
           new == Len(out) + 1
<1>1. /\ Len(out) \in Nat /\ DOMAIN out = 1 .. Len(out) /\ DOMAIN out' = 1 .. new
      /\ \A k \in 1 .. Len(out) : out'[k] = out[k]
      /\ out'[new] = e
  BY PairsAppend
<1>2. /\ e.home = IF Odd(genRound) = 0 THEN a ELSE b
      /\ e.away = IF Odd(genRound) = 0 THEN b ELSE a
  BY DEF Gen!MatchOf, Odd
<1> HIDE DEF e
<1>3. /\ AtHome(t)' = IF e.home = t THEN AtHome(t) \cup {new} ELSE AtHome(t)
      /\ AtAway(t)' = IF e.away = t THEN AtAway(t) \cup {new} ELSE AtAway(t)
      /\ new \notin AtHome(t) /\ new \notin AtAway(t)
  BY <1>1 DEF AtHome, AtAway
<1>4. IsFiniteSet(AtHome(t)) /\ IsFiniteSet(AtAway(t))
  <2>1. IsFiniteSet(1 .. Len(out))
    BY <1>1, FS_Interval
  <2>2. AtHome(t) \subseteq 1 .. Len(out) /\ AtAway(t) \subseteq 1 .. Len(out)
    BY <1>1 DEF AtHome, AtAway
  <2> QED  BY <2>1, <2>2, FS_Subset
<1>5. /\ Cardinality(AtHome(t)) \in Nat /\ Cardinality(AtAway(t)) \in Nat
      /\ Cardinality(AtHome(t) \cup {new}) = Cardinality(AtHome(t)) + 1
      /\ Cardinality(AtAway(t) \cup {new}) = Cardinality(AtAway(t)) + 1
  BY <1>3, <1>4, FS_CardinalityType, FS_AddElement
<1>6. /\ Cardinality(AtHome(t)') = Cardinality(AtHome(t)) + (IF e.home = t THEN 1 ELSE 0)
      /\ Cardinality(AtAway(t)') = Cardinality(AtAway(t)) + (IF e.away = t THEN 1 ELSE 0)
  BY <1>3, <1>5
<1>7. Odd(genRound) \in {0, 1}
  BY OddFacts
<1> QED  BY <1>2, <1>5, <1>6, <1>7 DEF Net

\* A turn, for a team that it brings to the field, and for one that it does not.
LEMMA TurnBalance ==
    ASSUME GenTyped, GenCircle!IInv, Balance, Gen!Pair, NEW t \in 0 .. size - 1
    PROVE  \E d \in {-1, 0, 1} :
              /\ Net(t)' = Swing(GenCircle!half, t, Played(t))' + d
              /\ d # 0 => MetBye(t)'
<1> DEFINE h == GenCircle!half
           a == GenCircle!Home(genRound, genSlot)
           b == GenCircle!Away(genRound, genSlot)
<1>1. /\ genRound \in 0 .. GenCircle!rounds - 1 /\ genSlot \in 0 .. h - 1 /\ a # b
      /\ a \in 0 .. size - 1 \/ a = Bye
      /\ b \in 0 .. size - 1 \/ b = Bye
      /\ UNCHANGED <<size, genRound>> /\ genSlot' = genSlot + 1
      /\ out' = IF Bye \in {a, b} THEN out ELSE Append(out, Gen!MatchOf(a, b))
  BY GenTurn
<1>2. /\ h \in Nat /\ t \in 0 .. 2 * h - 1 /\ genRound \in 0 .. 2 * h - 2
      /\ TurnOf(h, t, genRound) \in 0 .. h - 1
      /\ a = t <=> TurnOf(h, t, genRound) = genSlot /\ Slot(h, t, genRound) < h
      /\ b = t <=> TurnOf(h, t, genRound) = genSlot /\ Slot(h, t, genRound) >= h
      /\ Slot(h, t, genRound) \in 0 .. 2 * h - 1
  <2>1. h \in Nat /\ t \in 0 .. 2 * h - 1 /\ genRound \in 0 .. 2 * h - 2
    BY <1>1, TurnTeams DEF GenCircle!IInv
  <2>2. Slot(h, t, genRound) \in 0 .. 2 * h - 1
    BY <1>1, <2>1, SlotOrigin
  <2> QED  BY <1>1, <2>2, TurnTeams DEF GenCircle!IInv
<1>3. PICK d \in {-1, 0, 1} : /\ Net(t) = Swing(h, t, Played(t)) + d
                              /\ d # 0 => MetBye(t)
  BY DEF Balance
<1>4. h' = h /\ t # Bye
  BY <1>1, GenSame DEF Bye
<1>5. Played(t) = genRound + (IF TurnOf(h, t, genRound) < genSlot THEN 1 ELSE 0)
  BY DEF Played
<1>6. Played(t)' = genRound + (IF TurnOf(h, t, genRound) < genSlot + 1 THEN 1 ELSE 0)
  BY <1>1, <1>4 DEF Played
<1>7. MetBye(t) => MetBye(t)'
  <2> SUFFICES ASSUME NEW r \in 0 .. GenCircle!rounds - 1,
                      NEW q \in 0 .. GenCircle!half - 1, GenCircle!Taken(r, q),
                      {GenCircle!Home(r, q), GenCircle!Away(r, q)} = {t, Bye}
               PROVE  MetBye(t)'
    BY DEF MetBye
  <2>1. GenCircle!Taken(r, q)'
    BY <1>1, <1>2 DEF GenCircle!Taken
  <2>2. UNCHANGED size
    BY <1>1
  <2> QED  BY <2>1, <2>2, GenSame DEF MetBye
<1>8. Swing(h, t, Played(t))' = Swing(h, t, Played(t)')
  BY <1>4 DEF Swing
<1>9. Swing(h, t, genRound + 1) =
         Swing(h, t, genRound) +
            (IF (Slot(h, t, genRound) < h) <=> (Odd(genRound) = 0) THEN 1 ELSE -1)
  BY <1>2, SwingStep
<1>10. Swing(h, t, genRound) \in Int /\ Swing(h, t, genRound + 1) \in Int
  BY <1>2, SwingBounds
<1> HIDE DEF h, a, b
<1>11. CASE t \notin {a, b}
  <2>1. TurnOf(h, t, genRound) # genSlot
    BY <1>2, <1>11
  <2>2. Played(t)' = Played(t)
    BY <1>1, <1>2, <1>5, <1>6, <2>1
  <2>3. Net(t)' = Net(t)
    <3>1. CASE Bye \in {a, b}
      BY <1>1, <3>1 DEF Net, AtHome, AtAway
    <3>2. CASE Bye \notin {a, b}
      BY <1>1, <1>11, <3>2, NetAppend DEF GenTyped
    <3> QED  BY <3>1, <3>2
  <2> QED  BY <1>3, <1>7, <1>8, <2>2, <2>3 DEF h
<1>12. CASE t \in {a, b} /\ Bye \notin {a, b}
  <2>1. Played(t) = genRound /\ Played(t)' = genRound + 1
    BY <1>1, <1>2, <1>5, <1>6, <1>12
  <2>2. /\ Net(t) \in Int
        /\ Net(t)' = Net(t) + (IF (t = a) <=> (Odd(genRound) = 0) THEN 1 ELSE -1)
    <3>1. /\ out' = Append(out, Gen!MatchOf(a, b)) /\ out \in Seq(MatchSet)
          /\ a \in Int /\ b \in Int /\ t \in Int /\ genRound \in Nat
      BY <1>1, <1>12 DEF GenTyped
    <3>2. /\ Net(t) \in Int
          /\ Net(t)' = Net(t) + (IF t \notin {a, b} THEN 0
                                 ELSE IF (t = a) <=> (Odd(genRound) = 0) THEN 1
                                 ELSE -1)
      BY ONLY <1>1, <3>1, NetAppend
    <3> QED  BY <1>12, <3>2
  <2>3. (t = a) <=> (Slot(h, t, genRound) < h)
    BY <1>1, <1>2, <1>12
  <2>4. Net(t)' = Swing(h, t, Played(t)') + d
    BY <1>3, <1>9, <1>10, <2>1, <2>2, <2>3
  <2> QED  BY <1>3, <1>7, <1>8, <2>4 DEF h
<1>13. CASE t \in {a, b} /\ Bye \in {a, b}
  <2>1. Played(t) = genRound /\ Played(t)' = genRound + 1
    BY <1>1, <1>2, <1>5, <1>6, <1>13
  <2>2. {a, b} = {t, Bye}
    BY <1>1, <1>4, <1>13
  <2>3. ~MetBye(t)
    <3> SUFFICES ASSUME NEW r \in 0 .. GenCircle!rounds - 1,
                        NEW q \in 0 .. GenCircle!half - 1, GenCircle!Taken(r, q),
                        {GenCircle!Home(r, q), GenCircle!Away(r, q)} = {t, Bye}
                 PROVE  FALSE
      BY DEF MetBye
    <3>1. /\ {GenCircle!Home(r, q), GenCircle!Away(r, q)} =
                {GenCircle!Home(genRound, genSlot), GenCircle!Away(genRound, genSlot)}
          /\ genSlot \in 0 .. GenCircle!half - 1 /\ GenCircle!Typing
          /\ genRound \in 0 .. GenCircle!rounds - 1
      BY <1>1, <2>2 DEF GenCircle!IInv, h, a, b
    <3>2. r = genRound /\ q = genSlot
      BY ONLY <3>1, SizesAssumption, GenCircle!MatchesDiffer,
              r \in 0 .. GenCircle!rounds - 1, q \in 0 .. GenCircle!half - 1
    <3> QED  BY <1>1, <1>2, <3>2 DEF GenCircle!Taken
  <2>4. MetBye(t)'
    <3>1. PICK r \in 0 .. GenCircle!rounds - 1, q \in 0 .. GenCircle!half - 1 :
             r = genRound /\ q = genSlot
      BY <1>1 DEF h
    <3>2. GenCircle!Taken(r, q)'
      BY <1>1, <1>2, <3>1 DEF GenCircle!Taken
    <3>3. {GenCircle!Home(r, q), GenCircle!Away(r, q)} = {t, Bye}
      BY <2>2, <3>1 DEF a, b
    <3> QED  BY <1>1, <3>2, <3>3, GenSame DEF MetBye
  <2>5. Net(t)' = Net(t) /\ d = 0
    BY <1>1, <1>3, <1>13, <2>3 DEF Net, AtHome, AtAway
  <2>6. Net(t)' = Swing(h, t, Played(t)') + (-1) \/ Net(t)' = Swing(h, t, Played(t)') + 1
    BY <1>3, <1>9, <1>10, <2>1, <2>5
  <2> QED  BY <1>8, <2>4, <2>6 DEF h
<1> QED  BY <1>11, <1>12, <1>13

LEMMA BalanceStep ==
    ASSUME GenTyped, GenCircle!IInv, Balance, [Gen!Next]_(Gen!vars)
    PROVE  Balance'
<1>1. CASE Gen!Pair
  <2>1. size' = size /\ GenCircle!half' = GenCircle!half
    BY <1>1, GenSame DEF Gen!Pair
  <2> QED  BY <1>1, <2>1, TurnBalance DEF Balance
<1>2. CASE Gen!Rotate
  <2>1. /\ genSlot = GenCircle!half /\ genRound' = genRound + 1 /\ genSlot' = 0
        /\ UNCHANGED <<size, out>> /\ genRound < GenCircle!rounds
        /\ genRound \in Nat /\ GenCircle!half \in Nat
    BY <1>2, GenSlots DEF Gen!Rotate, GenTyped
  <2>2. /\ GenCircle!half' = GenCircle!half /\ GenCircle!rounds' = GenCircle!rounds
        /\ genRound' \in Nat
    BY <2>1, GenSame
  <2>3. ASSUME NEW t \in 0 .. size - 1
        PROVE  /\ Played(t)' = Played(t) /\ Net(t)' = Net(t)
               /\ MetBye(t) => MetBye(t)'
    <3> DEFINE h == GenCircle!half
    <3>1. 2 * h \in {size, size + 1} /\ size \in Nat /\ genRound < 2 * h - 1
      BY <2>1 DEF GenCircle!IInv, GenCircle!Typing, GenCircle!rounds, GenCircle!n
    <3>2. /\ t \in 0 .. 2 * h - 1 /\ genRound \in 0 .. 2 * h - 2
          /\ genRound + 1 \in 0 .. 2 * h - 1
      BY <2>1, <3>1
    <3>3. TurnOf(h, t, genRound) < h
      BY <2>1, <3>2 DEF TurnOf, Slot
    <3>4. ~(TurnOf(h, t, genRound + 1) < 0)
      BY <2>1, <3>2 DEF TurnOf, Slot
    <3>5. Played(t) = genRound + 1
      BY <2>1, <3>3 DEF Played
    <3>6. Played(t)' = genRound + 1
      BY <2>1, <2>2, <3>4 DEF Played
    <3>7. Net(t)' = Net(t)
      BY <2>1 DEF Net, AtHome, AtAway
    <3>8. MetBye(t) => MetBye(t)'
      <4> SUFFICES ASSUME NEW r \in 0 .. GenCircle!rounds - 1,
                          NEW q \in 0 .. GenCircle!half - 1, GenCircle!Taken(r, q),
                          {GenCircle!Home(r, q), GenCircle!Away(r, q)} = {t, Bye}
                   PROVE  MetBye(t)'
        BY DEF MetBye
      <4>1. r \in Int /\ GenCircle!rounds \in Int
        BY <2>1, <3>1 DEF GenCircle!rounds, GenCircle!n
      <4>2. GenCircle!Taken(r, q)' /\ UNCHANGED size
        BY <2>1, <4>1 DEF GenCircle!Taken
      <4> QED  BY <4>2, GenSame DEF MetBye
    <3> QED  BY <3>5, <3>6, <3>7, <3>8
  <2>4. \A t : Swing(GenCircle!half, t, Played(t))' = Swing(GenCircle!half, t, Played(t)')
    BY <2>2 DEF Swing
  <2> QED  BY <2>1, <2>2, <2>3, <2>4 DEF Balance
<1>3. CASE UNCHANGED Gen!vars
  <2>1. /\ UNCHANGED <<size, out, genRound, genSlot>>
        /\ GenCircle!half' = GenCircle!half /\ GenCircle!rounds' = GenCircle!rounds
    BY <1>3, GenSame DEF Gen!vars
  <2>2. \A t : /\ Net(t)' = Net(t) /\ Played(t)' = Played(t)
               /\ Swing(GenCircle!half, t, Played(t))' = Swing(GenCircle!half, t, Played(t))
    BY <2>1 DEF Net, AtHome, AtAway, Played, Swing
  <2>3. \A t : MetBye(t)' = MetBye(t)
    BY <2>1, GenSame DEF MetBye, GenCircle!Taken
  <2> QED  BY <2>1, <2>2, <2>3 DEF Balance
<1> QED  BY <1>1, <1>2, <1>3 DEF Gen!Next

LEMMA BalanceStarts == AllInit => Balance
<1> SUFFICES ASSUME AllInit, NEW t \in 0 .. size - 1
             PROVE  Net(t) = Swing(GenCircle!half, t, Played(t)) + 0
  BY DEF Balance
<1> DEFINE h == GenCircle!half
<1>1. size \in Nat /\ genRound = 0 /\ genSlot = 0 /\ out = <<>>
  BY GenStarts DEF AllInit, Gen!Init, GenTyped
<1>2. h \in Nat /\ t \in 0 .. 2 * h - 1
  BY <1>1 DEF GenCircle!half
<1>3. Played(t) = 0
  BY <1>1, <1>2 DEF Played, TurnOf, Slot
<1>4. Net(t) = 0
  <2>1. AtHome(t) = {} /\ AtAway(t) = {}
    BY <1>1 DEF AtHome, AtAway
  <2> QED  BY <2>1, FS_EmptySet DEF Net
<1>5. Swing(h, t, 0) = 0
  BY <1>2, SwingBounds
<1> QED  BY <1>3, <1>4, <1>5

\* In the fixture of any number of teams, no team is more than four times oftener
\* at home than away, or the reverse: three walks around the circle, and a bye.
THEOREM SidesAreFair == AllSpec => []HomeAwayBalanced
<1>1. GenTyped /\ GenCircle!IInv /\ Balance /\ [AllNext]_allVars => Balance'
  BY StepsOfEach, BalanceStep
<1>2. ASSUME GenTyped, GenCircle!IInv, Balance, NEW t \in 0 .. size - 1
      PROVE  Net(t) \in -4 .. 4
  <2> DEFINE h == GenCircle!half
  <2>1. /\ h \in Nat /\ 2 * h \in {size, size + 1} /\ size \in Nat /\ genRound \in Nat
        /\ genRound <= 2 * h - 1 /\ genSlot \in 0 .. h
        /\ genRound = 2 * h - 1 => genSlot = 0
    BY <1>2 DEF GenCircle!IInv, GenCircle!Typing, GenCircle!rounds, GenCircle!n
  <2>2. t \in 0 .. 2 * h - 1
    BY <2>1
  <2>3. genRound = 2 * h - 1 => ~(TurnOf(h, t, genRound) < genSlot)
    BY <2>1, <2>2 DEF TurnOf, Slot
  <2>4. Played(t) \in 0 .. 2 * h - 1
    BY <2>1, <2>3 DEF Played
  <2>5. Swing(h, t, Played(t)) \in -3 .. 3
    BY <2>1, <2>2, <2>4, SwingBounds
  <2> QED  BY <1>2, <2>5 DEF Balance
<1>3. GenTyped /\ GenCircle!IInv /\ Balance => HomeAwayBalanced
  <2>1. \A S : Gen!Cardinality(S) = Cardinality(S)
    BY Zenon DEF Gen!Cardinality, Cardinality
  <2> QED  BY <1>2, <2>1 DEF HomeAwayBalanced, Gen!HomeAwayBalanced, Net, AtHome, AtAway
<1> QED  BY <1>1, <1>3, BalanceStarts, GenHolds, PTL DEF AllSpec
------------------------------------------------------------------------------
\* GenerateSingleRound follows the circle

ListTyped ==
    /\ size \in Nat
    /\ left \in Seq(Int) /\ Len(left) = Lists!half
    /\ right \in Seq(Int) /\ Len(right) = Lists!half
    /\ listRound \in Nat /\ listSlot \in Nat

LEMMA ListSlots ==
    ASSUME size \in Nat
    PROVE  /\ Lists!half = ListCircle!half /\ Lists!n = ListCircle!n
           /\ Lists!half \in Nat /\ Lists!n = 2 * Lists!half
           /\ size >= 2 => Lists!rounds = ListCircle!rounds /\ Lists!half >= 1
           /\ size < 2 => Lists!rounds = 0
BY DEF Lists!half, Lists!n, Lists!rounds, ListCircle!half, ListCircle!n,
       ListCircle!rounds

LEMMA Joined ==
    ASSUME NEW S, NEW s \in Seq(S), NEW t \in Seq(S)
    PROVE  /\ s \o t \in Seq(S) /\ Len(s \o t) = Len(s) + Len(t)
           /\ \A k \in 1 .. Len(s) + Len(t) :
                 (s \o t)[k] = IF k <= Len(s) THEN s[k] ELSE t[k - Len(s)]
OBVIOUS

\* The two lists after a rotation, element by element.
LEMMA TurnedLists ==
    ASSUME ListTyped, Lists!half > 1
    PROVE  /\ Lists!TurnedLeft \in Seq(Int) /\ Len(Lists!TurnedLeft) = Lists!half
           /\ \A k \in 1 .. Lists!half :
                 Lists!TurnedLeft[k] = IF k = 1 THEN left[1]
                                       ELSE IF k = 2 THEN right[1] ELSE left[k - 1]
           /\ Lists!TurnedRight \in Seq(Int) /\ Len(Lists!TurnedRight) = Lists!half
           /\ \A k \in 1 .. Lists!half :
                 Lists!TurnedRight[k] = IF k = Lists!half THEN left[k] ELSE right[k + 1]
<1> DEFINE h == Lists!half
           front == <<Head(left), Head(right)>>
           back == SubSeq(left, 2, h - 1)
           rest == Tail(right)
<1>1. /\ h \in Nat /\ left \in Seq(Int) /\ right \in Seq(Int)
      /\ Len(left) = h /\ Len(right) = h /\ h > 1
  BY ListSlots DEF ListTyped
<1>2. /\ Head(left) = left[1] /\ Head(right) = right[1]
      /\ left[1] \in Int /\ right[1] \in Int /\ left[h] \in Int
  BY <1>1
<1> HIDE DEF h
<1>3. front \in Seq(Int) /\ Len(front) = 2 /\ front[1] = left[1] /\ front[2] = right[1]
  BY <1>2
<1>4. /\ back \in Seq(Int) /\ Len(back) = h - 2
      /\ \A k \in 1 .. h - 2 : back[k] = left[k + 1]
  <2>1. \A k \in 2 .. h - 1 : left[k] \in Int
    BY <1>1
  <2> QED  BY <1>1, <2>1
<1>5. /\ rest \in Seq(Int) /\ Len(rest) = h - 1
      /\ \A k \in 1 .. h - 1 : rest[k] = right[k + 1]
  BY <1>1
<1>6. Lists!TurnedLeft = front \o back /\ Lists!TurnedRight = Append(rest, left[h])
  BY DEF Lists!TurnedLeft, Lists!TurnedRight, h
<1> HIDE DEF front, back, rest
<1>7. /\ Lists!TurnedLeft \in Seq(Int) /\ Len(Lists!TurnedLeft) = h
      /\ \A k \in 1 .. h : Lists!TurnedLeft[k] =
                              IF k <= 2 THEN front[k] ELSE back[k - 2]
  <2>1. Len(front) + Len(back) = h /\ Len(front) = 2
    BY <1>1, <1>3, <1>4
  <2>2. /\ front \o back \in Seq(Int) /\ Len(front \o back) = Len(front) + Len(back)
        /\ \A k \in 1 .. Len(front) + Len(back) :
              (front \o back)[k] = IF k <= Len(front) THEN front[k]
                                   ELSE back[k - Len(front)]
    <3>1. front \in Seq(Int) /\ back \in Seq(Int)
      BY <1>3, <1>4
    <3> QED  BY ONLY <3>1, Joined, Zenon
  <2> QED  BY <1>6, <2>1, <2>2
<1>8. \A k \in 1 .. h :
         Lists!TurnedLeft[k] = IF k = 1 THEN left[1]
                               ELSE IF k = 2 THEN right[1] ELSE left[k - 1]
  <2> SUFFICES ASSUME NEW k \in 1 .. h
               PROVE  Lists!TurnedLeft[k] =
                         IF k = 1 THEN left[1]
                         ELSE IF k = 2 THEN right[1] ELSE left[k - 1]
    OBVIOUS
  <2>1. CASE k <= 2
    BY <1>1, <1>3, <1>7, <2>1
  <2>2. CASE k > 2
    <3>1. k - 2 \in 1 .. h - 2 /\ k - 2 + 1 = k - 1
      BY <1>1, <2>2
    <3>2. back[k - 2] = left[k - 1]
      BY <1>4, <3>1
    <3> QED  BY <1>1, <1>7, <2>2, <3>2
  <2> QED  BY <1>1, <2>1, <2>2
<1>9. /\ Lists!TurnedRight \in Seq(Int) /\ Len(Lists!TurnedRight) = h
      /\ \A k \in 1 .. h :
            Lists!TurnedRight[k] = IF k = h THEN left[k] ELSE right[k + 1]
  BY <1>1, <1>2, <1>5, <1>6
<1> QED  BY <1>7, <1>8, <1>9 DEF h

LEMMA ListStep ==
    ASSUME ListTyped, [Lists!Next]_(Lists!vars)
    PROVE  ListTyped' /\ [ListCircle!Next]_(ListCircle!vars)
<1> DEFINE h == Lists!half
           m == Lists!n
<1>1. /\ h = ListCircle!half /\ m = ListCircle!n /\ h \in Nat /\ m = 2 * h
      /\ size \in Nat /\ listRound \in Nat /\ listSlot \in Nat
      /\ listRound < Lists!rounds => listRound < ListCircle!rounds /\ h >= 1
  BY ListSlots DEF ListTyped
<1>2. CASE Lists!Play
  <2> DEFINE a == left[listSlot + 1]
             b == right[listSlot + 1]
  <2>1. /\ listRound < ListCircle!rounds /\ listSlot < h
        /\ games' = IF Bye \in {a, b} THEN games ELSE Append(games, <<a, b>>)
        /\ listSlot' = listSlot + 1 /\ UNCHANGED <<size, left, right, listRound>>
        /\ h' = h /\ m' = m
    BY <1>1, <1>2 DEF Lists!Play, Lists!Bye, Bye, Lists!half, Lists!n
  <2>2. Folded[listSlot] = a /\ ListCircle!Opponent = b
    <3>1. /\ listSlot \in 0 .. m - 1 /\ m - 1 - listSlot \in 0 .. m - 1
          /\ ~(m - 1 - listSlot < h) /\ m - (m - 1 - listSlot) = listSlot + 1
      BY <1>1, <2>1
    <3>2. Folded[listSlot] = a /\ Folded[m - 1 - listSlot] = b
      BY <2>1, <3>1 DEF Folded
    <3> QED  BY <1>1, <3>2 DEF ListCircle!Opponent
  <2>3. Folded' = Folded
    BY <2>1 DEF Folded
  <2>4. ListTyped'
    BY <1>1, <2>1 DEF ListTyped
  <2> HIDE DEF a, b, h, m
  <2>5. CASE Bye \in {a, b}
    <3>1. ListCircle!SkipBye
      BY <1>1, <2>1, <2>2, <2>3, <2>5 DEF ListCircle!SkipBye, ListCircle!Bye, Bye
    <3> QED  BY <2>4, <3>1 DEF ListCircle!Next
  <2>6. CASE Bye \notin {a, b}
    <3>1. ListCircle!AddMatch
      BY <1>1, <2>1, <2>2, <2>3, <2>6 DEF ListCircle!AddMatch, ListCircle!Bye, Bye
    <3> QED  BY <2>4, <3>1 DEF ListCircle!Next
  <2> QED  BY <2>5, <2>6
<1>3. CASE Lists!Rotate
  <2>1. /\ listRound < ListCircle!rounds /\ listSlot = h /\ h >= 1
        /\ listRound' = listRound + 1 /\ listSlot' = 0 /\ UNCHANGED <<size, games>>
        /\ \/ h > 1 /\ left' = Lists!TurnedLeft /\ right' = Lists!TurnedRight
           \/ h <= 1 /\ UNCHANGED <<left, right>>
        /\ h' = h /\ m' = m
    BY <1>1, <1>3 DEF Lists!Rotate, Lists!CanInsert, Lists!half, Lists!n
  <2>2. ListTyped'
    <3>1. left' \in Seq(Int) /\ right' \in Seq(Int) /\ Len(left') = h /\ Len(right') = h
      BY <2>1, TurnedLists DEF ListTyped
    <3> QED  BY <1>1, <2>1, <3>1 DEF ListTyped
  <2>3. ASSUME NEW j \in 0 .. m - 1
        PROVE  (IF j < h THEN left'[j + 1] ELSE right'[m - j]) =
                  CASE j = 0 -> Folded[0]
                    [] j = 1 -> Folded[m - 1]
                    [] j > 1 -> Folded[j - 1]
    <3>1. /\ Folded[0] = left[1] /\ Folded[m - 1] = right[1]
          /\ j > 1 => Folded[j - 1] = IF j - 1 < h THEN left[j] ELSE right[m - j + 1]
      <4>1. /\ 0 \in 0 .. m - 1 /\ m - 1 \in 0 .. m - 1 /\ 0 < h /\ ~(m - 1 < h)
            /\ j > 1 => j - 1 \in 0 .. m - 1 /\ m - (j - 1) = m - j + 1
                        /\ j - 1 + 1 = j /\ 0 + 1 = 1 /\ m - (m - 1) = 1
            /\ 0 + 1 = 1 /\ m - (m - 1) = 1
        BY <1>1, <2>1
      <4> QED  BY <4>1 DEF Folded
    <3>2. CASE h = 1
      BY <1>1, <2>1, <3>1, <3>2
    <3>3. CASE h > 1
      <4>1. /\ \A k \in 1 .. h :
                  left'[k] = IF k = 1 THEN left[1]
                             ELSE IF k = 2 THEN right[1] ELSE left[k - 1]
            /\ \A k \in 1 .. h :
                  right'[k] = IF k = h THEN left[k] ELSE right[k + 1]
        BY <2>1, <3>3, TurnedLists
      <4>2. CASE j < h
        <5>1. j + 1 \in 1 .. h /\ j + 1 - 1 = j
          BY <1>1, <4>2
        <5> QED  BY <1>1, <3>1, <3>3, <4>1, <4>2, <5>1
      <4>3. CASE j >= h
        <5>1. m - j \in 1 .. h /\ (m - j = h <=> j = h) /\ j > 1
          BY <1>1, <3>3, <4>3
        <5> QED  BY <1>1, <3>1, <3>3, <4>1, <4>3, <5>1
      <4> QED  BY <1>1, <4>2, <4>3
    <3> QED  BY <1>1, <2>1, <3>2, <3>3
  <2>4. Folded' = [j \in 0 .. m - 1 |-> IF j < h THEN left'[j + 1] ELSE right'[m - j]]
    BY <2>1 DEF Folded
  <2>5. Folded' = ListCircle!Rotated
    BY <1>1, <2>3, <2>4 DEF ListCircle!Rotated
  <2> HIDE DEF h, m
  <2> QED  BY <1>1, <2>1, <2>2, <2>5 DEF ListCircle!Rotate, ListCircle!Next
<1>4. CASE UNCHANGED Lists!vars
  BY <1>4 DEF Lists!vars, ListTyped, ListCircle!vars, Folded, Lists!half, Lists!n
<1> QED  BY <1>2, <1>3, <1>4 DEF Lists!Next

LEMMA ListStarts == AllInit => ListTyped /\ ListCircle!Init
<1> SUFFICES ASSUME AllInit PROVE ListTyped /\ ListCircle!Init
  OBVIOUS
<1> DEFINE h == Lists!half
           m == Lists!n
<1>1. /\ size \in Nat /\ size \in Sizes /\ listRound = 0 /\ listSlot = 0 /\ games = <<>>
      /\ left = [k \in 1 .. h |-> k - 1]
      /\ right = [k \in 1 .. h |-> IF m - k < size THEN m - k ELSE Bye]
  BY SizesAssumption DEF AllInit, Lists!Init, Lists!Bye, Bye
<1>2. h = ListCircle!half /\ m = ListCircle!n /\ h \in Nat /\ m = 2 * h
  BY <1>1, ListSlots
<1>3. 2 * h \in {size, size + 1}
  BY <1>1 DEF Lists!half
<1> HIDE DEF h, m
<1>4. left \in [1 .. h -> Int] /\ right \in [1 .. h -> Int]
  BY <1>1, <1>2 DEF Bye
<1>5. ListTyped
  BY <1>1, <1>2, <1>4, FunctionIsSeq DEF ListTyped, h
<1>6. ASSUME NEW j \in 0 .. m - 1
      PROVE  (IF j < h THEN left[j + 1] ELSE right[m - j]) =
                IF j < size THEN j ELSE Bye
  <2>1. CASE j < h
    <3>1. j + 1 \in 1 .. h /\ j + 1 - 1 = j /\ j < size
      BY <1>1, <1>2, <1>3, <2>1
    <3> QED  BY <1>1, <2>1, <3>1
  <2>2. CASE j >= h
    <3>1. m - j \in 1 .. h /\ m - (m - j) = j
      BY <1>2, <2>2
    <3> QED  BY <1>1, <1>2, <2>2, <3>1
  <2> QED  BY <1>2, <2>1, <2>2
<1>7. Folded = [j \in 0 .. m - 1 |-> IF j < size THEN j ELSE Bye]
  BY <1>6 DEF Folded, h, m
<1> QED  BY <1>1, <1>2, <1>5, <1>7 DEF ListCircle!Init, ListCircle!Bye, Bye

LEMMA ListSpec == AllSpec => []ListTyped /\ ListCircle!Spec
<1>1. ListTyped /\ [AllNext]_allVars => ListTyped' /\ [ListCircle!Next]_(ListCircle!vars)
  BY ListStep, StepsOfEach
<1> QED  BY <1>1, ListStarts, PTL DEF AllSpec, ListCircle!Spec

\* GenerateSingleRound makes the pairs of the circle method, in its order, for any
\* number of teams, as long as it runs.
THEOREM ListsOnCircle == AllSpec => ListsFollowCircle
<1>1. ListCircle!Spec => ListsFollowCircle
  <2>1. ListCircle!Init => Lists!Circle!Init
    BY DEF ListCircle!Init, ListCircle!n, ListCircle!half, ListCircle!Bye, Folded,
           Lists!Circle!Init, Lists!Circle!n, Lists!Circle!half, Lists!Circle!Bye
  <2>2. [ListCircle!Next]_(ListCircle!vars) => [Lists!Circle!Next]_(Lists!Circle!vars)
    BY DEF ListCircle!Next, ListCircle!AddMatch, ListCircle!SkipBye, ListCircle!Rotate,
           ListCircle!Opponent, ListCircle!Rotated, ListCircle!n, ListCircle!half,
           ListCircle!rounds, ListCircle!Bye, ListCircle!vars, Folded,
           Lists!Circle!Next, Lists!Circle!AddMatch, Lists!Circle!SkipBye,
           Lists!Circle!Rotate, Lists!Circle!Opponent, Lists!Circle!Rotated,
           Lists!Circle!n, Lists!Circle!half, Lists!Circle!rounds, Lists!Circle!Bye,
           Lists!Circle!vars
  <2> QED  BY <2>1, <2>2, PTL
           DEF ListCircle!Spec, ListsFollowCircle, Lists!FollowsCircle, Lists!Circle!Spec
<1> QED  BY <1>1, ListSpec, PTL

\* Nobody meets twice in what GenerateSingleRound pushes, and when its loop has
\* ended everyone has met.
THEOREM ListsAreRoundRobin ==
    AllSpec => [](Lists!Circle!NoRematch /\ Lists!Circle!EveryoneMeets)
<1>1. ListCircle!NoRematch => Lists!Circle!NoRematch
  BY DEF ListCircle!NoRematch, Lists!Circle!NoRematch
<1>2. ListCircle!EveryoneMeets => Lists!Circle!EveryoneMeets
  <2>1. Lists!Circle!Returned <=> ListCircle!Returned
    BY DEF ListCircle!Returned, ListCircle!rounds, ListCircle!n, ListCircle!half,
           Lists!Circle!Returned, Lists!Circle!rounds, Lists!Circle!n, Lists!Circle!half
  <2> QED  BY <2>1, Zenon DEF ListCircle!EveryoneMeets, Lists!Circle!EveryoneMeets
<1> QED
  BY <1>1, <1>2, ListSpec, SizesAssumption, ListCircle!PairsUnique,
     ListCircle!PairsComplete, PTL
===============================================================================
