SPECIFICATION ServicesSpec
CONSTANTS
    Prefixes <- PrefixSet
    Paths <- PathSet
    GrantChoices <- GrantSet
    NoPath = None
    None = None
    Editors = {a, c1, c2}
    Creator = a
    MaxChanges = 3
    MaxAttempts = 2
    Publishers = {c1, c2}
    Revisions = {r1, r2}
    Links = {p1, p2, d1}
    MaxVersion = 3
    MaxTokens = 3
    MaxIssues = 1
    Scopes = {"wide", "narrow"}
    Callers = {c1, c2}
    MaxTime = 1
    MaxTokenEdits = 1
    FolderIds = {a, b}
    Places = {p1, p2}
    Nowhere = None
    MaxFolderChanges = 2
    PlanCalls = {c1, c2}
    Operations = 3
    MaxCrashes = 2
    Pdfs = {d1, d2}
    PdfPaths = {p1, p2}
    NoPdf = None
    NoPdfPath = None
    Workers = {c1, c2}
    Effects = {a}
    Deciders = {c1, c2}
    YoloAllowed = TRUE
    Proposals = {a}
    Reviewers = {c1, c2}
    Wordings = {r1, r2}
    Unset = None
    MaxDocumentEdits = 2
    Requests = {a, c1, c2}
    MaxActive = 1
    MaxWaiting = 1
    MaxQueued = 1
    BackupKeys = {a, b}
    Turns = {a, b}
    Items = {r1}
    ItemOf <- ItemOfTurn
    Documents = {d1, d2}
    MaxSources = 1
    MaxCalls <- ToolCalls
    Importers = {c1, c2}
    Contents = {r1, r2}
    Nothing = None
    MaxFetches = 3
    BackupCallers = {c1, c2}
    MaxNames = 2
    Retention = 1
    SearchDocuments = {d1, d2}
    Writers = {c1, c2}
    MaxSearchChanges = 2
    RepairBatch = 1
    HitSets <- HitSetChoices
    Terms = {1, 2}
    Window = 2
    Limit = 2
    Messages = {a, b}
    Fields = {r1}
    Summarizers = {r2}
    MaxTexts = 2
    MaxRevisions = 3
    CorrectsTask = TRUE
    Facts = {d1, d2}
    FactMessages = {r1}
    NoMessage = None
    FactKeys = {a, c1, c2}
    SkillDocuments = {d1}
    Resources = {r1}
    References <- SkillReferences
    NoDocument = None
    Activations = {a, c1, c2}
    MaxEdits = 2
    Reviews = {a, b}
    ParentOf <- Delegations
    NoReviewId = None
    MaxSteps = 1
    MaxSteers = 1
    QueueLimit = 2
    AttemptsFail = TRUE
    ResumePolicy <- ResumesAfterRestart
    ProjectDocuments = {d1, d2}
    Threads = {p1}
    Null = None
    Keep = Keep
    Roles = {"draft", "source"}
    MaxVersions = 4
    a = a
    b = b
    c1 = c1
    c2 = c2
    d1 = d1
    d2 = d2
    p1 = p1
    p2 = p2
    r1 = r1
    r2 = r2
INVARIANTS
    TypesOK
    AccessStaysInScope
    TokensKeepFaith
    FoldersAreOnDisk
    PlanRunsOnce
    PdfsSurvive
    HistoryIsWhole
    SearchIsFaithful
    EffectsAreHonest
    ProposalTellsTheTruth
    PoolIsCounted
    RunsAreHonest
    OneLinkOpens
    ImportsKeepFaith
    ProjectsAreWhole
    ContextIsCurrent
    AnsweredIsVerified
PROPERTIES
    DecisionsStay
VIEW ServicesView
SYMMETRY ServiceSymmetry
CHECK_DEADLOCK FALSE
