---------------------------- MODULE ProviderChain ----------------------------
(***************************************************************************)
(* The chain of language-model providers (ai/app/llm/service.py) as the    *)
(* requests of the AI service share it.  A request lists its candidates,   *)
(* skipping the providers that are cooling off after a quota refusal, and  *)
(* then asks them one after another.  FastAPI runs the handlers in a pool  *)
(* of threads, and the table of cooldowns is one dictionary without a      *)
(* lock: _is_cooling reads an entry in one step and deletes it, when it    *)
(* has expired, in another.  with_fallback (ai/app/llm/fallback.py) turns  *)
(* every LLMError into an offline answer and lets anything else through.   *)
(***************************************************************************)
EXTENDS Naturals, Sequences, FiniteSets, SequencesExt

CONSTANTS
    Providers,      \* the providers this service has a config for
    Fallbacks,      \* llm_fallback_providers, in order
    Deployments,    \* the environments considered, a set of Settings
    Callers,        \* threads of the service, each running one request
    Wanted,         \* the models requests and the admin name, some of Models
    Cooldown        \* _COOLDOWN_SECONDS, in ticks

VARIABLES
    settings,       \* the environment of this process; never changes
    entries,        \* the keys of _cooling
    ticks,          \* ticks[p]: what is left of the cooldown of p, 0 once it expired
    req             \* req[t]: the request thread t is running

vars == <<settings, entries, ticks, req>>

(* A model naming a provider that is not implemented goes to litellm as is. *)
Legacy == "legacy"

Settings == [provider : Providers \cup {"auto", "unknown"},
             fallback : BOOLEAN,
             keyed : SUBSET Providers,      \* the API key is set
             modelled : SUBSET Providers]   \* LLM_MODEL or its own default is set

(* The model of a request or of the admin: none, an id without a prefix,   *)
(* one prefixed by a provider, or one prefixed by something else.          *)
Models == Providers \cup {"none", "bare", "foreign"}

ASSUME ChainAssumption ==
    /\ Fallbacks \in Seq(Providers)
    /\ \A i, j \in DOMAIN Fallbacks : Fallbacks[i] = Fallbacks[j] => i = j
    /\ Deployments \subseteq Settings
    /\ Wanted \subseteq Models
    /\ Cooldown \in Nat \ {0}
    /\ Providers \cap {"auto", "unknown", "none", "bare", "foreign", "nobody", Legacy} = {}

Reasons == {"none", "LLM_NOT_CONFIGURED", "MODEL_NOT_CONFIGURED", "PROVIDER_RATE_LIMITED",
            "LLM_TIMEOUT", "LLM_BAD_OUTPUT"}
Outcomes == {"answered", "degraded", "ready", "crashed"}

Requests == [pc : {"idle", "scanning", "expiring", "asking", "waiting", "refused"} \cup Outcomes,
             probe : BOOLEAN,                       \* for_health: a readiness check
             model : Models,
             left : Seq(Providers),                 \* providers not looked at yet
             found : Seq(Providers \cup {Legacy}),  \* candidates not done with yet
             skipped : SUBSET Providers,            \* found cooling
             failed : SUBSET (Providers \cup {Legacy}),
             by : Providers \cup {Legacy, "nobody"},
             reason : Reasons]
Idle == [pc |-> "idle", probe |-> FALSE, model |-> "none", left |-> << >>, found |-> << >>,
         skipped |-> {}, failed |-> {}, by |-> "nobody", reason |-> "none"]

TypeOK ==
    /\ settings \in Settings
    /\ entries \subseteq Providers \cup {Legacy}
    /\ ticks \in [Providers \cup {Legacy} -> 0..Cooldown]
    /\ req \in [Callers -> Requests]

Init ==
    /\ settings \in Deployments
    /\ entries = {}
    /\ ticks = [p \in Providers \cup {Legacy} |-> 0]
    /\ req = [t \in Callers |-> Idle]

----------------------------------------------------------------------------
(* The list of candidates *)

(* _provider_order: the fallback list, or the chosen provider in front.    *)
Others(p) ==
    IF \E i \in DOMAIN Fallbacks : Fallbacks[i] = p
    THEN RemoveAt(Fallbacks, CHOOSE i \in DOMAIN Fallbacks : Fallbacks[i] = p)
    ELSE Fallbacks
Order ==
    IF settings.provider = "auto" THEN Fallbacks
    ELSE IF settings.provider \notin Providers THEN << >>
    ELSE IF settings.fallback THEN <<settings.provider>> \o Others(settings.provider)
    ELSE <<settings.provider>>

(* _provider_config: a provider without a key is passed over; one with a   *)
(* key and no model is an error of the whole request.                      *)
HasModel(p, m) == p \in settings.modelled \/ m = p \/ m = "bare"

Degraded(r, reason) == [r EXCEPT !.pc = "degraded", !.reason = reason]

Begin(t, m, probe) ==
    /\ req[t] = Idle
    /\ req' = [req EXCEPT ![t] =
                 IF m = "foreign"
                 THEN [Idle EXCEPT !.pc = IF probe THEN "ready" ELSE "asking",
                                   !.probe = probe, !.model = m, !.found = <<Legacy>>]
                 ELSE [Idle EXCEPT !.pc = "scanning", !.probe = probe, !.model = m,
                                   !.left = Order]]
    /\ UNCHANGED <<settings, entries, ticks>>

(* Mutant of Keep: the newest candidate is asked first.                    *)
KeepInFront(r, p) ==
    [r EXCEPT !.pc = "scanning",
              !.found = <<p>> \o @,
              !.left = IF r.probe \/ (settings.provider # "auto" /\ ~settings.fallback)
                       THEN << >> ELSE Tail(@)]

(* The provider becomes a candidate; a probe stops there, and so does a    *)
(* request of a deployment with one chosen provider and no fallback.       *)
Keep(r, p) ==
    [r EXCEPT !.pc = "scanning",
              !.found = Append(@, p),
              !.left = IF r.probe \/ (settings.provider # "auto" /\ ~settings.fallback)
                       THEN << >> ELSE Tail(@)]

(* Looking at the next provider t has left, when it satisfies Test.        *)
Scanning(t) == req[t].pc = "scanning" /\ req[t].left # << >>
Usable(p, m) == p \in settings.keyed /\ HasModel(p, m)

PassOver(t) ==
    /\ Scanning(t)
    /\ Head(req[t].left) \notin settings.keyed
    /\ req' = [req EXCEPT ![t].left = Tail(@)]
    /\ UNCHANGED <<settings, entries, ticks>>

NoModel(t) ==
    /\ Scanning(t)
    /\ LET p == Head(req[t].left) IN p \in settings.keyed /\ ~HasModel(p, req[t].model)
    /\ req' = [req EXCEPT ![t] = Degraded(@, "MODEL_NOT_CONFIGURED")]
    /\ UNCHANGED <<settings, entries, ticks>>

Take(t) ==
    /\ Scanning(t)
    /\ LET p == Head(req[t].left) IN
         /\ Usable(p, req[t].model)
         /\ p \notin entries \/ (ticks[p] > 0 /\ req[t].probe)
         /\ req' = [req EXCEPT ![t] = Keep(@, p)]
    /\ UNCHANGED <<settings, entries, ticks>>

(* Mutant of Skipping: what was skipped is not remembered.                 *)
SkippingSilently(r, p) == [r EXCEPT !.left = Tail(@)]

Skipping(r, p) == [r EXCEPT !.left = Tail(@), !.skipped = @ \cup {p}]

Skip(t) ==
    /\ Scanning(t) /\ ~req[t].probe
    /\ LET p == Head(req[t].left) IN
         /\ Usable(p, req[t].model)
         /\ p \in entries /\ ticks[p] > 0
         /\ req' = [req EXCEPT ![t] = Skipping(@, p)]
    /\ UNCHANGED <<settings, entries, ticks>>

(* _is_cooling read an entry that has expired ...                          *)
SeeExpired(t) ==
    /\ Scanning(t)
    /\ LET p == Head(req[t].left) IN
         /\ Usable(p, req[t].model)
         /\ p \in entries /\ ticks[p] = 0
    /\ req' = [req EXCEPT ![t].pc = "expiring"]
    /\ UNCHANGED <<settings, entries, ticks>>

(* ... and deletes it, whatever it is by now: a KeyError when another      *)
(* thread was first.                                                       *)
Expire(t) ==
    /\ req[t].pc = "expiring"
    /\ LET p == Head(req[t].left) IN
         IF p \notin entries
         THEN /\ req' = [req EXCEPT ![t].pc = "crashed"]
              /\ UNCHANGED <<entries, ticks>>
         ELSE /\ req' = [req EXCEPT ![t] = Keep(@, p)]
              /\ entries' = entries \ {p}
              /\ ticks' = [ticks EXCEPT ![p] = 0]
    /\ UNCHANGED settings

(* Mutant of Listed: an error code without an HTTP status.                 *)
ListedUnmapped(r) ==
    IF r.found # << >> THEN [r EXCEPT !.pc = IF r.probe THEN "ready" ELSE "asking"]
    ELSE Degraded(r, "NO_PROVIDER")

(* The list is complete.  Without a candidate the error says whether one   *)
(* was cooling.                                                            *)
Listed(r) ==
    IF r.found # << >> THEN [r EXCEPT !.pc = IF r.probe THEN "ready" ELSE "asking"]
    ELSE Degraded(r, IF r.skipped # {} THEN "PROVIDER_RATE_LIMITED" ELSE "LLM_NOT_CONFIGURED")

EndScan(t) ==
    /\ req[t].pc = "scanning" /\ req[t].left = << >>
    /\ req' = [req EXCEPT ![t] = Listed(@)]
    /\ UNCHANGED <<settings, entries, ticks>>

----------------------------------------------------------------------------
(* generate: the candidates, one after another *)

(* The call to the provider goes out; it can take a minute.                *)
Ask(t) ==
    /\ req[t].pc = "asking"
    /\ req' = [req EXCEPT ![t].pc = "waiting"]
    /\ UNCHANGED <<settings, entries, ticks>>

Answer(t) ==
    /\ req[t].pc = "waiting"
    /\ req' = [req EXCEPT ![t].pc = "answered", ![t].by = Head(req[t].found)]
    /\ UNCHANGED <<settings, entries, ticks>>

(* Mutants of AfterFailure: the flag is not looked at; the loop never ends. *)
AfterFailureAlwaysNext(r, reason) ==
    IF Tail(r.found) # << >>
    THEN [r EXCEPT !.pc = "asking", !.failed = @ \cup {Head(r.found)}, !.found = Tail(@)]
    ELSE [Degraded(r, reason) EXCEPT !.failed = @ \cup {Head(r.found)}, !.found = Tail(@)]
AfterFailureSame(r, reason) == [r EXCEPT !.pc = "asking", !.failed = @ \cup {Head(r.found)}]

(* The candidate failed: the next one, or the last error of the request.   *)
AfterFailure(r, reason) ==
    LET s == [r EXCEPT !.failed = @ \cup {Head(r.found)}, !.found = Tail(@)] IN
    IF settings.fallback /\ s.found # << >> THEN [s EXCEPT !.pc = "asking"]
    ELSE Degraded(s, reason)

(* A timeout, a bad key, no connection, an empty answer.                   *)
Fail(t) ==
    /\ req[t].pc = "waiting"
    /\ req' = [req EXCEPT ![t] = AfterFailure(@, "LLM_TIMEOUT")]
    /\ UNCHANGED <<settings, entries, ticks>>

(* A quota refusal, which also starts a cooldown.                          *)
Refuse(t) ==
    /\ req[t].pc = "waiting"
    /\ req' = [req EXCEPT ![t].pc = "refused"]
    /\ UNCHANGED <<settings, entries, ticks>>

StartCooldown(t) ==
    /\ req[t].pc = "refused"
    /\ LET p == Head(req[t].found) IN
         /\ entries' = entries \cup {p}
         /\ ticks' = [ticks EXCEPT ![p] = Cooldown]
    /\ req' = [req EXCEPT ![t] = AfterFailure(@, "PROVIDER_RATE_LIMITED")]
    /\ UNCHANGED settings

(* The answer breaks the contract of its caller (LLMOutputError).          *)
Reject(t) ==
    /\ req[t].pc = "answered"
    /\ req' = [req EXCEPT ![t] = Degraded(@, "LLM_BAD_OUTPUT")]
    /\ UNCHANGED <<settings, entries, ticks>>

(* The handler returns, and its thread takes another request.              *)
Return(t) ==
    /\ req[t].pc \in Outcomes
    /\ req' = [req EXCEPT ![t] = Idle]
    /\ UNCHANGED <<settings, entries, ticks>>

(* Time passes, as far as a cooldown can tell.                             *)
Tick ==
    /\ \E p \in entries : ticks[p] > 0
    /\ ticks' = [p \in Providers \cup {Legacy} |-> IF ticks[p] > 0 THEN ticks[p] - 1 ELSE 0]
    /\ UNCHANGED <<settings, entries, req>>

----------------------------------------------------------------------------
(* What a thread that has a request does next; every provider call ends,   *)
(* at the latest with its timeout.                                         *)
Step(t) ==
    \/ PassOver(t) \/ NoModel(t) \/ Take(t) \/ Skip(t) \/ SeeExpired(t) \/ Expire(t)
    \/ EndScan(t) \/ Ask(t) \/ Answer(t) \/ Fail(t) \/ Refuse(t) \/ StartCooldown(t)

Next ==
    \/ Tick
    \/ \E t \in Callers :
         \/ \E m \in Wanted, probe \in BOOLEAN : Begin(t, m, probe)
         \/ Step(t) \/ Reject(t) \/ Return(t)

Spec == Init /\ [][Next]_vars /\ \A t \in Callers : WF_vars(Step(t))

----------------------------------------------------------------------------
(* Properties *)

(* Fallback keeps the order: a provider answers only when every provider   *)
(* in front of it that has a key was cooling or failed for this request.   *)
Position(p) == CHOOSE i \in DOMAIN Order : Order[i] = p
EarlierProvidersHadTheirTurn ==
    \A t \in Callers :
        req[t].pc = "answered" /\ req[t].by \in Providers =>
            \A i \in DOMAIN Order :
                i < Position(req[t].by) /\ Order[i] \in settings.keyed =>
                    Order[i] \in req[t].skipped \cup req[t].failed

(* "Not configured" is said only when no provider of the order has a key:  *)
(* it never sends somebody to check credentials that are fine.             *)
CredentialsAreNotBlamed ==
    \A t \in Callers :
        req[t].reason = "LLM_NOT_CONFIGURED" =>
            \A i \in DOMAIN Order : Order[i] \notin settings.keyed

(* With fallback switched off no request asks a second provider, whether   *)
(* the order was chosen or automatic.                                      *)
OneProviderWithoutFallback ==
    \A t \in Callers :
        ~settings.fallback =>
            Cardinality(req[t].failed) + (IF req[t].pc \in {"asking", "waiting", "refused"} THEN 1 ELSE 0) <= 1

(* Every request ends: with an answer, the offline path or an error.       *)
RequestsEnd ==
    \A t \in Callers : req[t].pc = "scanning" ~> req[t].pc \in Outcomes

(* "There is always something better to return than an error": no request  *)
(* leaves with_fallback by an exception that is not an LLMError.           *)
RequestsNeverCrash == \A t \in Callers : req[t].pc # "crashed"
=============================================================================
