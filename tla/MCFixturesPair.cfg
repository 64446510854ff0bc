SPECIFICATION AllSpec
CONSTANTS
    Sizes <- JustTwo
PROPERTIES
    ListsReturn
CHECK_DEADLOCK FALSE
