------------------------------ MODULE SingleRound ------------------------------
(***************************************************************************)
(* RoundRobinGenerator::GenerateSingleRound: the same schedule, with the   *)
(* circle kept as two lists that face each other.                          *)
(***************************************************************************)
EXTENDS Integers, Sequences

CONSTANT Sizes     \* the numbers of teams considered

VARIABLES
    size,          \* teamIdsInput.size()
    left, right,   \* the two lists; left[k] plays right[k]
    r,             \* the outer loop
    i,             \* the inner loop
    games,         \* the pairs pushed so far
    crashed        \* the process died in the rotation

vars == <<size, left, right, r, i, games, crashed>>

Bye    == -1
half   == (size + 1) \div 2
n      == 2 * half
rounds == IF size < 2 THEN 0 ELSE n - 1        \* 0: it returns at once

Init ==
    /\ size \in Sizes
    /\ left = [k \in 1 .. half |-> k - 1]
    /\ right = [k \in 1 .. half |-> IF n - k < size THEN n - k ELSE Bye]
    /\ r = 0
    /\ i = 0
    /\ games = <<>>
    /\ crashed = FALSE

Play ==
    /\ ~crashed
    /\ r < rounds
    /\ i < half
    /\ LET a == left[i + 1]
           b == right[i + 1]
       IN games' = IF Bye \in {a, b} THEN games ELSE Append(games, <<a, b>>)
    /\ i' = i + 1
    /\ UNCHANGED <<size, left, right, r, crashed>>

\* Mutant of TurnedLeft: the newcomer is put in front, as the first of all.
TurnedLeftInFront == <<Head(right)>> \o SubSeq(left, 1, half - 1)

\* insert(begin + 1, right.front()) after pop_back()
TurnedLeft  == <<Head(left), Head(right)>> \o SubSeq(left, 2, half - 1)
TurnedRight == Append(Tail(right), left[half])

\* Mutant of CanInsert: the newcomer is inserted at begin() + 2.
CanInsertFurther == half > 2

CanInsert == half > 1

\* With two teams, pop_back() leaves an empty list, and begin() + 1 is beyond
\* its end: whether the process survives is undefined.
Rotate ==
    /\ ~crashed
    /\ r < rounds
    /\ i = half
    /\ \/ /\ CanInsert
          /\ left' = TurnedLeft
          /\ right' = TurnedRight
          /\ UNCHANGED crashed
       \/ /\ ~CanInsert
          /\ crashed' \in BOOLEAN
          /\ UNCHANGED <<left, right>>
    /\ r' = r + 1
    /\ i' = 0
    /\ UNCHANGED <<size, games>>

Next == Play \/ Rotate

Stopped == crashed \/ r = rounds

Spec == Init /\ [][Next]_vars

------------------------------------------------------------------------------

\* The function returns for every list it accepts.
Returns == <>(~crashed /\ r = rounds)

\* The rotation stays within its lists, and the function returns, for every
\* number of teams but two.
ReturnsUnlessPair == size # 2 => Returns

\* The two lists are the circle of CircleMethod, folded in the middle.
Circle == INSTANCE CircleMethod WITH
    arr <- [j \in 0 .. n - 1 |->
               IF j < half THEN left[j + 1] ELSE right[n - j]],
    round <- r, i <- i, matches <- games

\* Every step on the lists is a step of the circle method.
FollowsCircle == Circle!Spec
===============================================================================
