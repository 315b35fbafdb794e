CONSTANTS
    x1 = x1
    x2 = x2
    y1 = y1
    y2 = y2
    z1 = z1
    z2 = z2
    x3 = x3
    Parts = {"poll", "link", "plans", "title", "keys", "selection", "checklist"}
    Polls = {x1, x2, x3}
    Floor = 2
    PollTimeout = 1
    LastStage = 1
    PollTime = 4
    AuthStates = {x1, x2}
    Callbacks = {y1, y2}
    Calls = {z1, z2}
    StateTTL = 1
    TokenTTL = 2
    LinkTime = 2
    NoLink = NoLink
    Composes = {x1, x2, y1, y2}
    NoPlan = NoPlan
    TitleTurns = {x1, x2, y1}
    Untitled = Untitled
    KeyIds = {y1, y2}
    Lookups = {x1, x2}
    KeyTTL = 1
    FetchTimeout = 1
    KeyTime = 3
    NoLookup = NoLookup
    Wants <- MCWants
    FirstAnswers <- MCFirstAnswers
    LaterAnswers <- MCLaterAnswers
    Nothing = Nothing
    Lines <- MCLines
    MaxLines = 3
    Marks <- MCMarks
    Stocks = {{}, {"onion", "salt"}}
    Staples = {"salt", "water"}
    Unknown = Unknown
SPECIFICATION Spec
SYMMETRY Symmetry
INVARIANTS
    TypeOK
    LivePlanIsTheLastCommitted
    RejectedTokensRetire
    SelectsTheTightestPacks
    SecondAnswerDecides
    AmountsSurvive
PROPERTIES
    AnswersAreRecent
    OnlyCallbacksLink
    AttemptsEnd
    LookupsAreTrue
CHECK_DEADLOCK FALSE
