------------------------------- MODULE Fixtures -------------------------------
(***************************************************************************)
(* The three generators of the repository side by side, on the same number *)
(* of teams: RoundRobinMatchGenerator (this module's own CircleMethod),    *)
(* RoundRobinGenerator::Generate and ::GenerateSingleRound.  They share    *)
(* nothing but their input; each takes a turn of its loops in every step   *)
(* until it has returned.                                                  *)
(***************************************************************************)
EXTENDS CircleMethod

VARIABLES
    idx, genRound, genSlot, out,                            \* of Generate
    left, right, listRound, listSlot, games, crashed        \* of the lists

genVars == <<idx, genRound, genSlot, out>>
listVars == <<left, right, listRound, listSlot, games, crashed>>
allVars == <<vars, genVars, listVars>>

Gen == INSTANCE RoundRobinGenerator WITH
    originalN <- size, r <- genRound, i <- genSlot

Lists == INSTANCE SingleRound WITH
    r <- listRound, i <- listSlot

AllInit == Init /\ Gen!Init /\ Lists!Init

Turn(returned, next, own) == IF returned THEN UNCHANGED own ELSE next

AllNext ==
    /\ ~(Returned /\ Gen!Returned /\ Lists!Stopped)
    /\ Turn(Returned, Next, vars)
    /\ Turn(Gen!Returned, Gen!Next, genVars)
    /\ Turn(Lists!Stopped, Lists!Next, listVars)

\* Loops run on.
AllSpec == AllInit /\ [][AllNext]_allVars /\ WF_allVars(AllNext)

------------------------------------------------------------------------------
\* What the modules of the two other generators say of them.

\* In Generate, a team plays at most one match in each round.
OncePerRound == Gen!OncePerRound

\* In Generate, no team is much oftener at home than away, or the reverse.
HomeAwayBalanced == Gen!HomeAwayBalanced

\* Generate and GenerateSingleRound make the pairs of the circle method, step
\* by step, so that no rematch and everyone meets hold for them too.
GenerateFollowsCircle == Gen!FollowsCircle
ListsFollowCircle     == Lists!FollowsCircle

\* GenerateSingleRound returns, for any number of teams and for any but two.
ListsReturn           == Lists!Returns
ListsReturnUnlessPair == Lists!ReturnsUnlessPair
===============================================================================
