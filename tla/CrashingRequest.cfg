\* Two requests meet the same expired cooldown in the default deployment.
SPECIFICATION Spec
CONSTANTS
    Gemini = Gemini
    OpenRouter = OpenRouter
    Providers = {Gemini, OpenRouter}
    Fallbacks <- TwoFallbacks
    Deployments <- DefaultDeployment
    Callers = {t1, t2}
    Wanted = {"none"}
    Cooldown = 1
INVARIANTS
    RequestsNeverCrash
CHECK_DEADLOCK FALSE
