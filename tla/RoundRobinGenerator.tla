-------------------------- MODULE RoundRobinGenerator --------------------------
(***************************************************************************)
(* RoundRobinGenerator::Generate: the fixture of one group as matches with *)
(* a home team, an away team and a round number.  Tournament and group ids *)
(* are copied into every match unchanged and left out here.                *)
(***************************************************************************)
EXTENDS Integers, Sequences, FiniteSets

CONSTANT Sizes     \* the numbers of teams considered

VARIABLES
    originalN,     \* teams.size()
    idx,           \* the circle: positions in teams, or Bye
    r,             \* the outer loop
    i,             \* the inner loop
    out            \* the matches pushed so far

vars == <<originalN, idx, r, i, out>>

Bye    == -1
odd    == originalN % 2 = 1
n      == originalN + (IF odd THEN 1 ELSE 0)
rounds == IF originalN < 2 THEN 0 ELSE n - 1   \* 0: it returns at once

Init ==
    /\ originalN \in Sizes
    /\ idx = [j \in 0 .. n - 1 |-> IF j = originalN THEN Bye ELSE j]
    /\ r = 0
    /\ i = 0
    /\ out = <<>>

\* Mutant of MatchOf: the home side does not alternate.
MatchHomeFirst(a, b) == [home |-> a, away |-> b, round |-> r + 1]

\* Mutant of MatchOf: rounds are numbered by the position in the round.
MatchOfSlot(a, b) == [home |-> a, away |-> b, round |-> i + 1]

\* The pair of one slot, with the sides swapped in every second round.
MatchOf(a, b) ==
    IF r % 2 = 0 THEN [home |-> a, away |-> b, round |-> r + 1]
                 ELSE [home |-> b, away |-> a, round |-> r + 1]

Pair ==
    /\ r < rounds
    /\ i < n \div 2
    /\ LET a == idx[i]
           b == idx[n - 1 - i]
       IN out' = IF Bye \in {a, b} THEN out ELSE Append(out, MatchOf(a, b))
    /\ i' = i + 1
    /\ UNCHANGED <<originalN, idx, r>>

\* Mutant of Source: std::rotate from the first slot on.
SourceWhole(j) == IF j = 0 THEN n - 1 ELSE j - 1

\* The slot whose team the rotation of begin+1 .. end brings to slot j.
Source(j) == CASE j = 0 -> 0 [] j = 1 -> n - 1 [] j > 1 -> j - 1

Rotate ==
    /\ r < rounds
    /\ i = n \div 2
    /\ idx' = [j \in 0 .. n - 1 |-> idx[Source(j)]]
    /\ r' = r + 1
    /\ i' = 0
    /\ UNCHANGED <<originalN, out>>

Next == Pair \/ Rotate

Returned == r = rounds

Spec == Init /\ [][Next]_vars

------------------------------------------------------------------------------

Plays(m, t) == t \in {m.home, m.away}

\* A team plays at most one match in each round.
OncePerRound ==
    \A j, k \in DOMAIN out :
        out[j].round = out[k].round /\ j # k =>
            {out[j].home, out[j].away} \cap {out[k].home, out[k].away} = {}

\* Swapping the sides keeps the fixture fair: at the end no team has played at
\* home more than four times oftener than away, or the reverse.
HomeAwayBalanced ==
    Returned =>
        \A t \in 0 .. originalN - 1 :
            LET atHome == Cardinality({k \in DOMAIN out : out[k].home = t})
                away   == Cardinality({k \in DOMAIN out : out[k].away = t})
            IN  atHome - away \in -4 .. 4

\* The same pairs, in the same order, as the circle of CircleMethod.
Circle == INSTANCE CircleMethod WITH
    size <- originalN, arr <- idx, round <- r, i <- i,
    matches <- [k \in DOMAIN out |->
                   IF out[k].round % 2 = 1 THEN <<out[k].home, out[k].away>>
                                           ELSE <<out[k].away, out[k].home>>]

\* Every step of Generate is a step of the circle method, so that its fixture
\* inherits what holds there: no rematch, and everyone meets.
FollowsCircle == Circle!Spec
===============================================================================
