SPECIFICATION AnalysisSpec
CONSTANTS
    h1 = h1
    h2 = h2
    h3 = h3
    Hero = {h1, h2, h3}
    Radiant = {h1, h2}
    Feeds <- MCFeeds
    Steps <- MCSteps
    FirstTime <- MCStart
    Streams <- MCStreams
    MaxEntries = 4
    MaxPause = 1
    FightGap = 1
    Manifests <- MCManifests
    DemoFeeds <- MCDemos
    PlayerCount = 2
    Tolerance = 2
    NoTeam = "none"
    MaxMessages = 5
INVARIANTS AnalysisTypeOK FactsAreComplete EpisodesTellMatch MetricsReconcile
PROPERTIES OnlyProvenAnalysed
CHECK_DEADLOCK FALSE
