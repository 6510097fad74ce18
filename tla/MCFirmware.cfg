SPECIFICATION FairSpec
CONSTANTS
    Packages <- AllPackages
    Stored <- Given
INVARIANTS
    TypeOK
    NeverAborts
    SettingsWhole
    LevelKept
    ListShowsAll
PROPERTIES
    SettingsKept
    OnlyItsOwn
    ComesUp
