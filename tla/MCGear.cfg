SPECIFICATION FairSpec
CONSTANTS
    Stored <- MCStored
    ArcLevels = {247, 252}
    Bytes = {240, 255}
    Randoms <- MCRandoms
    Leftovers = {0, 255}
    Scenes = {4, 8, 9}
    GroupNumbers = {1, 8, 9}
    TaskIds = {1, 2}
    MaxCommands = 2
INVARIANTS TypeOK LampShowsLevel OneFade AnswersAsTold GroupsAsTold
PROPERTIES StartRestores FadeEnds
