--------------------------- MODULE MCProviderChain ---------------------------
(* Model-checking instance of ProviderChain: two cloud providers, and the  *)
(* deployments that take each branch of the order and of the fallback.     *)
EXTENDS ProviderChain

CONSTANTS Gemini, OpenRouter

TwoFallbacks == <<Gemini, OpenRouter>>

Env(provider, fallback, keyed, modelled) ==
    [provider |-> provider, fallback |-> fallback, keyed |-> keyed, modelled |-> modelled]
Both == {Gemini, OpenRouter}

AllDeployments ==
    {Env("auto", TRUE, Both, Both), Env("auto", FALSE, Both, Both),
     Env("auto", TRUE, {OpenRouter}, Both), Env(OpenRouter, TRUE, Both, Both),
     Env(OpenRouter, FALSE, Both, Both), Env("auto", TRUE, Both, {Gemini}),
     Env("auto", TRUE, {}, Both), Env("unknown", TRUE, Both, Both)}

DefaultDeployment == {Env("auto", TRUE, Both, Both)}
=============================================================================
