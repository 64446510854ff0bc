------------------------------ MODULE Standings ------------------------------
(***************************************************************************)
(* From results to the knockout phase: StandingsCalculator::Compute counts *)
(* the matches into one row per team and sorts the rows,                   *)
(* KnockoutBracketBuilder::BuildTop8 seeds the first eight.                *)
(*                                                                         *)
(* Compute sorts what it finds in a hash table, with a sort that is not    *)
(* stable: rows that compare equal may come out in any order.              *)
(***************************************************************************)
EXTENDS Integers, Sequences, FiniteSetsExt, Functions

CONSTANTS
    Teams,         \* team ids
    MatchLists,    \* the lists of matches that Compute is called with
    NoScore,       \* a score that was not reported
    NoBracket      \* BuildTop8 has not been called

ASSUME NoScoreAssumption == NoScore \notin Int

\* Nobody plays against himself: the lists come from a round robin.
Scores == Int \cup {NoScore}
Results == [home : Teams, away : Teams, homeScore : Scores, awayScore : Scores]

ASSUME MatchesAssumption ==
    \A ms \in MatchLists :
        ms \in Seq(Results) /\ \A i \in DOMAIN ms : ms[i].home # ms[i].away

\* The database chooses the ids of teams, and none of them is a placeholder
\* "W(...)" of BuildTop8.
PairsOfTeams == Teams \X Teams
ASSUME PlaceholdersAssumption ==
    Teams \cap (PairsOfTeams \cup PairsOfTeams \X PairsOfTeams) = {}

VARIABLES
    matches,       \* the argument of Compute
    next,          \* the match its loop is at
    rows,          \* map: the row of each team seen so far
    table,         \* out: the teams of the rows sorted so far
    bracket        \* the matches BuildTop8 returned

vars == <<matches, next, rows, table, bracket>>

EmptyRow == [wins |-> 0, pointsFor |-> 0, pointsAgainst |-> 0]

Init ==
    /\ matches \in MatchLists
    /\ next = 1
    /\ rows = <<>>
    /\ table = <<>>
    /\ bracket = NoBracket
------------------------------------------------------------------------------

IsScored(m) == m.homeScore # NoScore /\ m.awayScore # NoScore

ClampScore(v) == IF v < 0 THEN 0 ELSE IF v > 10 THEN 10 ELSE v

\* Mutant of Wins: a draw counts as a win.
WinsOrDraws(f, a) == IF f >= a THEN 1 ELSE 0

Wins(f, a) == IF f > a THEN 1 ELSE 0

\* rs after a team scored f and its opponent a.
Credit(rs, team, f, a) ==
    LET old == IF team \in DOMAIN rs THEN rs[team] ELSE EmptyRow
        new == [wins |-> old.wins + Wins(f, a),
                pointsFor |-> old.pointsFor + f,
                pointsAgainst |-> old.pointsAgainst + a]
    IN  [t \in DOMAIN rs \cup {team} |-> IF t = team THEN new ELSE rs[t]]

CountMatch ==
    /\ next <= Len(matches)
    /\ LET m == matches[next]
           h == ClampScore(m.homeScore)
           a == ClampScore(m.awayScore)
       IN  rows' = IF IsScored(m)
                   THEN Credit(Credit(rows, m.home, h, a), m.away, a, h)
                   ELSE rows
    /\ next' = next + 1
    /\ UNCHANGED <<matches, table, bracket>>

\* Mutant of Before: points count more than wins.
BeforeByPoints(r, o) ==
    \/ r.pointsFor > o.pointsFor
    \/ r.pointsFor = o.pointsFor /\ r.wins > o.wins

\* Row::operator<
Before(r, o) ==
    \/ r.wins > o.wins
    \/ r.wins = o.wins /\ r.pointsFor > o.pointsFor
    \/ /\ r.wins = o.wins
       /\ r.pointsFor = o.pointsFor
       /\ r.pointsAgainst < o.pointsAgainst

\* std::sort, which puts any of the least rows next.
Unsorted == DOMAIN rows \ Range(table)

SortNext ==
    /\ next > Len(matches)
    /\ \E t \in Unsorted :
          /\ \A u \in Unsorted : ~Before(rows[u], rows[t])
          /\ table' = Append(table, t)
    /\ UNCHANGED <<matches, next, rows, bracket>>
------------------------------------------------------------------------------

Match(home, away, round) == [home |-> home, away |-> away, round |-> round]

\* The placeholder "W(home-away)".
W(m) == <<m.home, m.away>>

\* Mutant of FirstRound: neighbours in the list of seeds meet in round 2.
FirstRoundInOrder(s) ==
    <<Match(s[1], s[8], 1), Match(s[2], s[7], 1),
      Match(s[3], s[6], 1), Match(s[4], s[5], 1)>>

FirstRound(s) ==
    <<Match(s[1], s[8], 1), Match(s[4], s[5], 1),
      Match(s[3], s[6], 1), Match(s[2], s[7], 1)>>

BuildTop8FromSeeds(s) ==
    IF Len(s) < 8 THEN <<>>
    ELSE LET first == FirstRound(s)
             left == Match(W(first[1]), W(first[2]), 2)
             right == Match(W(first[3]), W(first[4]), 2)
         IN  first \o <<left, right, Match(W(left), W(right), 3)>>

Seeds == SubSeq(table, 1, Min({8, Len(table)}))

BuildTop8 ==
    /\ next > Len(matches)
    /\ Unsorted = {}
    /\ bracket = NoBracket
    /\ bracket' = BuildTop8FromSeeds(Seeds)
    /\ UNCHANGED <<matches, next, rows, table>>

Next == CountMatch \/ SortNext \/ BuildTop8

Spec == Init /\ [][Next]_vars
------------------------------------------------------------------------------
(* What the results say, without rows and loops.                           *)

\* The team's scored matches among the first k, and its points in one of them.
Played(team, k) ==
    {i \in 1..k : IsScored(matches[i]) /\ team \in {matches[i].home, matches[i].away}}
Capped(v) == Max({0, Min({10, v})})
For(team, i) ==
    Capped(IF matches[i].home = team THEN matches[i].homeScore ELSE matches[i].awayScore)
Against(team, i) ==
    Capped(IF matches[i].home = team THEN matches[i].awayScore ELSE matches[i].homeScore)

\* Each point is counted as one of its match: <<match, 1>>, <<match, 2>>, ...
Won(team, k) == {i \in Played(team, k) : For(team, i) > Against(team, i)}
PointsFor(team, k) ==
    {p \in (1..k) \X (1..10) : p[1] \in Played(team, k) /\ p[2] <= For(team, p[1])}
PointsAgainst(team, k) ==
    {p \in (1..k) \X (1..10) : p[1] \in Played(team, k) /\ p[2] <= Against(team, p[1])}

Record(team, k) ==
    [wins |-> Cardinality(Won(team, k)),
     pointsFor |-> Cardinality(PointsFor(team, k)),
     pointsAgainst |-> Cardinality(PointsAgainst(team, k))]

Ranked(k) ==
    UNION {{matches[i].home, matches[i].away} : i \in {j \in 1..k : IsScored(matches[j])}}

\* One number for wins, points for and points against, in this order; no
\* total of points reaches the base.
Base == 10 * Len(matches) + 1
Merit(r) == (r.wins * Base + r.pointsFor) * Base - r.pointsAgainst

\* After every match the rows are the records of the teams that have played:
\* unscored matches leave no trace, scores are capped before they are compared
\* and summed, and a draw is nobody's win.
RowsMatchResults ==
    rows = [t \in Ranked(next - 1) |-> Record(t, next - 1)]

Built == bracket \notin {NoBracket, <<>>}

\* Nobody is left out of the knockout phase who has a better record than
\* somebody in it, whatever the order in which ties were sorted; with eight
\* ranked teams there is a bracket.
BestQualify ==
    bracket # NoBracket =>
        LET all == Ranked(Len(matches))
            in == {t \in all : \E i \in DOMAIN bracket : t \in {bracket[i].home, bracket[i].away}}
        IN  /\ Cardinality(in) = IF Cardinality(all) < 8 THEN 0 ELSE 8
            /\ \A t \in in, u \in all \ in :
                  Merit(Record(t, Len(matches))) >= Merit(Record(u, Len(matches)))

\* The teams that can come out of each match of the bracket.
Entrants ==
    LET entrants[i \in DOMAIN bracket] ==
            UNION {IF side \in DOMAIN rows THEN {side}
                   ELSE UNION {entrants[j] : j \in {k \in 1..(i - 1) : W(bracket[k]) = side}}
                   : side \in {bracket[i].home, bracket[i].away}}
    IN  entrants

\* Where two teams can meet: the first match that both can come out of.
MeetIn(t, u) == Min({i \in DOMAIN bracket : {t, u} \subseteq Entrants[i]})

\* Any two of the eight meet if both keep winning, and the better both are, the
\* later: no two of the best four in the first round, nor of the best two before
\* the final.
SeedsMeetLate ==
    Built =>
        \A i \in 1..8 : \A j \in (i + 1)..8 :
            LET round == bracket[MeetIn(table[i], table[j])].round
            IN  /\ j <= 4 => round >= 2
                /\ j <= 2 => round >= 3
==============================================================================
