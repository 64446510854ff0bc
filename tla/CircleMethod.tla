----------------------------- MODULE CircleMethod -----------------------------
(***************************************************************************)
(* RoundRobinMatchGenerator::Generate: a round robin by the circle method. *)
(* Teams are known by their position in the input.  An odd number of them  *)
(* is made even with a bye.  In every round, slot i plays slot n-1-i; then *)
(* all slots but the first rotate by one.                                  *)
(***************************************************************************)
EXTENDS Integers, Sequences

CONSTANT Sizes     \* the numbers of teams considered

ASSUME SizesAssumption == Sizes \subseteq Nat

VARIABLES
    size,          \* inputTeams.size()
    arr,           \* arr[j]: the team in slot j
    round,         \* the index of the outer loop
    i,             \* the index of the inner loop
    matches        \* the pairs pushed so far, <<home, away>>

vars == <<size, arr, round, i, matches>>

Bye    == -1
half   == (size + 1) \div 2
n      == 2 * half
rounds == n - 1

Init ==
    /\ size \in Sizes
    /\ arr = [j \in 0 .. n - 1 |-> IF j < size THEN j ELSE Bye]
    /\ round = 0
    /\ i = 0
    /\ matches = <<>>

\* Mutant of Opponent: the last slot is taken for n - i.
OpponentShifted == arr[(n - i) % n]

Opponent == arr[n - 1 - i]

\* One turn of the inner loop: a pair, or nothing if one of the two is the bye.
AddMatch ==
    /\ round < rounds
    /\ i < half
    /\ arr[i] # Bye
    /\ Opponent # Bye
    /\ matches' = Append(matches, <<arr[i], Opponent>>)
    /\ i' = i + 1
    /\ UNCHANGED <<size, arr, round>>

\* Mutant of SkipBye: the bye ends its round, break for continue.
SkipByeEndsRound ==
    /\ round < rounds
    /\ i < half
    /\ arr[i] = Bye \/ Opponent = Bye
    /\ i' = half
    /\ UNCHANGED <<size, arr, round, matches>>

SkipBye ==
    /\ round < rounds
    /\ i < half
    /\ arr[i] = Bye \/ Opponent = Bye
    /\ i' = i + 1
    /\ UNCHANGED <<size, arr, round, matches>>

\* Mutant of Rotated: the rotation moves the first slot as well.
RotatedWhole == [j \in 0 .. n - 1 |-> arr[IF j = 0 THEN n - 1 ELSE j - 1]]

\* std::rotate(begin + 1, end - 1, end)
Rotated ==
    [j \in 0 .. n - 1 |->
        CASE j = 0 -> arr[0]
          [] j = 1 -> arr[n - 1]
          [] j > 1 -> arr[j - 1]]

Rotate ==
    /\ round < rounds
    /\ i = half
    /\ arr' = Rotated
    /\ round' = round + 1
    /\ i' = 0
    /\ UNCHANGED <<size, matches>>

Next == AddMatch \/ SkipBye \/ Rotate

Spec == Init /\ [][Next]_vars

------------------------------------------------------------------------------

Returned == round >= rounds

\* No two teams meet twice, in either order, and nobody meets himself.
NoRematch ==
    \A j, k \in DOMAIN matches :
        /\ matches[j][1] # matches[j][2]
        /\ {matches[j][1], matches[j][2]} = {matches[k][1], matches[k][2]} => j = k

\* When the function returns, every two teams have met.
EveryoneMeets ==
    Returned =>
        \A a, b \in 0 .. size - 1 :
            a # b => \E k \in DOMAIN matches :
                        {matches[k][1], matches[k][2]} = {a, b}

\* The places of round d in the list, which has no round numbers: every round
\* but for the bye has half as many matches as there are teams.
Matchday(d) ==
    {k \in DOMAIN matches : d * (size \div 2) < k /\ k <= (d + 1) * (size \div 2)}

\* Cut into rounds of equal length, in its order, the list has nobody play twice
\* in a round; so the first rounds of it are a partial round robin.
MatchdaysDisjoint ==
    \A d \in 0 .. rounds - 1 :
        \A j, k \in Matchday(d) :
            j # k => {matches[j][1], matches[j][2]} \cap {matches[k][1], matches[k][2]} = {}
===============================================================================
