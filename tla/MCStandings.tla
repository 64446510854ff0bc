----------------------------- MODULE MCStandings -----------------------------
(***************************************************************************)
(* Small instances of Standings.                                           *)
(***************************************************************************)
EXTENDS Standings

CONSTANTS t1, t2, t3, t4, t5, t6, t7, t8, t9

Result(home, away, score) ==
    [home |-> home, away |-> away, homeScore |-> score[1], awayScore |-> score[2]]

\* Every list of up to three matches among three teams: wins, a draw, scores
\* beyond both limits, and scores that are missing in whole or in part.
SomeScores == {<<12, -3>>, <<11, 15>>, <<0, 3>>, <<NoScore, NoScore>>, <<4, NoScore>>}
Pairings == {p \in {t1, t2, t3} \X {t1, t2, t3} : p[1] # p[2]}
SomeMatches == {Result(p[1], p[2], s) : p \in Pairings, s \in SomeScores}
ShortLists == UNION {[1..n -> SomeMatches] : n \in 0..3}

\* Nine teams, the first of them with two matches; teams can tie.
NineTeams ==
    {<<Result(t1, t2, s[1]), Result(t3, t4, s[2]), Result(t5, t6, s[3]),
       Result(t7, t8, s[4]), Result(t9, t1, s[5])>> :
        s \in [1..5 -> {<<2, 1>>, <<3, 4>>}]}

\* Eight teams, and seven: the last match was not played.
EightTeams == {SubSeq(m, 1, 4) : m \in NineTeams}
SevenTeams == {<<m[1], m[2], m[3], Result(t7, t1, <<5, 2>>), Result(t8, t9, <<1, NoScore>>)>> : m \in NineTeams}

AllLists == ShortLists \cup NineTeams \cup EightTeams \cup SevenTeams
==============================================================================
