SPECIFICATION ReviewSpec
CONSTANTS
    Hero = {"a", "b"}
    GameEnd = 5
    LastSecond = 7
    BuybackWindow = 4
    DamageWindow = 1
    DeathWindow = 2
    FightHeroes = 2
    Quiet = 2
    MaxInputs = 4
    Eligible = 4
    Labels = {"laning", "", "reset"}
    Streams <- Emitted
INVARIANTS TypeOK MatchIsCovered ResetAfterQuiet NoLookAhead
PROPERTIES EditsTheLine
CHECK_DEADLOCK FALSE
