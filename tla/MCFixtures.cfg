SPECIFICATION AllSpec
CONSTANTS
    Sizes <- UpToSixteen
INVARIANTS
    NoRematch
    EveryoneMeets
    MatchdaysDisjoint
    OncePerRound
    HomeAwayBalanced
PROPERTIES
    GenerateFollowsCircle
    ListsFollowCircle
    ListsReturnUnlessPair
CHECK_DEADLOCK FALSE
