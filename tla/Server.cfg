SPECIFICATION Spec
CONSTANTS
    Unsigned <- MCUnsigned
    Leading <- MCLeading
    Durations <- MCDurations
    TrimSpace <- MCTrimSpace
    ToLower <- MCToLower
    Urls <- MCUrls
    HttpUrls <- MCHttpUrls
    Environments <- MCEnvironments
    NoEnvironment <- Plainly
    Routes = {"createInvitation", "ssoStart", "assets"}
    Origins = {"same", "dev", "foreign"}
    Grants = {{}, {"auth.invitations.create"}}
    MaxStarts = 2
    MaxAttempts = 2
CHECK_DEADLOCK FALSE
INVARIANTS
    TypeOK
    NothingAfterClose
    CleanExit
    MailKept
    MailerAgrees
    SettingsAsGiven
    HandledOnlyIfAllowed
    ResolutionFailureIsAnError
    InternalsHidden
PROPERTIES
    ExitsUnlessAwaiting
