\* Two requests share two providers in every kind of deployment.
SPECIFICATION Spec
CONSTANTS
    Gemini = Gemini
    OpenRouter = OpenRouter
    Providers = {Gemini, OpenRouter}
    Fallbacks <- TwoFallbacks
    Deployments <- AllDeployments
    Callers = {t1, t2}
    Cooldown = 1
    Wanted = {"none", "foreign", Gemini}
INVARIANTS
    TypeOK
    EarlierProvidersHadTheirTurn
    CredentialsAreNotBlamed
    OneProviderWithoutFallback
PROPERTIES
    RequestsEnd
CHECK_DEADLOCK FALSE
