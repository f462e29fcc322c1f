SPECIFICATION Spec
CONSTANTS
    Account <- MCAccount
    Team <- MCTeam
    Role <- MCRole
    Match <- MCMatch
    Plays <- MCPlays
    Registered <- MCRegistered
    Metric <- MCMetric
    Rule <- MCRule
    LowerBetter <- MCLowerBetter
    Official <- MCOfficial
    Experimental <- MCExperimental
    Axis <- MCAxis
    Component <- MCComponent
    AxisWeight <- MCAxisWeight
    Mandatory <- MCMandatory
    V3Component <- MCV3Component
    TeamComponent <- MCTeamComponent
    TeamWeight <- MCTeamWeight
    TeamMandatory <- MCTeamMandatory
    TeamOptional <- MCTeamOptional
    Requests <- MCRequests
    Form <- MCForm
    Measured <- MCMeasured
    Withheld <- MCWithheld
    Reason = {"gates_not_met"}
    MinMatches = 2
    MinAxes = 2
    MinExperimental = 2
    MinCoverage = 6
    Base = 3
    V3Share = 1
    TeamMinMatches = 2
    TeamMinAxes = 3
    Whole = 10
    Scale = 36
    MaxOverrides = 2
    MaxUpgrades = 1
INVARIANTS
    TypeOK
    PublishedIsEarned
    OfficialKnowsNoV3
    RolesApart
    TeamsPoolPlayers
    GraphResolves
