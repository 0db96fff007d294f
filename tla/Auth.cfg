SPECIFICATION AuthSpec
CONSTANTS
    Callers = {push, pull}
    Home = home
    TokenLambdas = {t1, t2}
    SyncLambdas = {s1}
    Unsigned = Unsigned
    NoRow = NoRow
    NoToken = NoToken
    PerSecond = 2
    ChallengeTTL = 2
    TokenTTL = 1
    JwtLifetime = 1
    IatSkew = 0
    RefreshSlack = 1
    Settings <- MCSettings
    MaxChallenges = 2
    MaxTime = 4
SYMMETRY Symmetry
INVARIANTS
    AuthTypeOK
    SingleUse
    FreshRetry
PROPERTIES
    ChallengeWindow
    RefusalsExplained
