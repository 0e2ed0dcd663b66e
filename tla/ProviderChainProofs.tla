------------------------ MODULE ProviderChainProofs --------------------------
(* Theorems about ProviderChain, for any providers, fallback lists,        *)
(* deployments, threads and cooldowns.                                     *)
EXTENDS ProviderChain, SequenceTheorems, FiniteSetTheorems, TLAPS

(* The order of the providers is a sequence of providers.                  *)
LEMMA OrderTyping ==
    ASSUME settings \in Settings
    PROVE  Order \in Seq(Providers)
<1>1. Fallbacks \in Seq(Providers)
  BY ChainAssumption
<1>2. ASSUME NEW i \in DOMAIN Fallbacks
      PROVE  RemoveAt(Fallbacks, i) \in Seq(Providers)
  <2>1. i \in 1..Len(Fallbacks) /\ Len(Fallbacks) \in Nat
    BY <1>1
  <2>2. SubSeq(Fallbacks, 1, i - 1) \in Seq(Providers)
    BY <1>1, <2>1, SubSeqProperties
  <2>3. SubSeq(Fallbacks, i + 1, Len(Fallbacks)) \in Seq(Providers)
    BY <1>1, <2>1, SubSeqProperties
  <2> QED
    BY <2>2, <2>3, ConcatProperties DEF RemoveAt
<1>3. \A p \in Providers : Others(p) \in Seq(Providers)
  BY <1>1, <1>2 DEF Others
<1>4. \A p \in Providers : <<p>> \in Seq(Providers)
  OBVIOUS
<1>5. \A p \in Providers : <<p>> \o Others(p) \in Seq(Providers)
  BY <1>3, <1>4, ConcatProperties
<1>6. << >> \in Seq(Providers)
  OBVIOUS
<1> QED
  BY <1>1, <1>4, <1>5, <1>6 DEF Order

(* What holds of a request at every point: a thread that waits for an      *)
(* answer has a candidate and one that deletes an entry a provider; as     *)
(* long as nothing was found or skipped, every provider with a key is      *)
(* still to be looked at; without fallback the first failure is the last.  *)
Held(q) ==
    /\ q.pc \in {"asking", "waiting", "refused"} => q.found # << >>
    /\ q.pc = "expiring" => q.left # << >>
Remaining(q) ==
    \A i \in DOMAIN Order : Order[i] \in settings.keyed =>
        \E j \in DOMAIN q.left : q.left[j] = Order[i]
Blame(q) ==
    /\ q.pc \in {"scanning", "expiring"} /\ q.found = << >> /\ q.skipped = {} => Remaining(q)
    /\ q.reason = "LLM_NOT_CONFIGURED" => \A i \in DOMAIN Order : Order[i] \notin settings.keyed
Solo(q) ==
    ~settings.fallback =>
        /\ q.pc # "degraded" => q.failed = {}
        /\ q.failed = {} \/ \E p : q.failed = {p}
Good(q) == q \in Requests /\ Held(q) /\ Blame(q) /\ Solo(q)
ChainInv ==
    /\ settings \in Settings
    /\ entries \subseteq Providers \cup {Legacy}
    /\ ticks \in [Providers \cup {Legacy} -> 0..Cooldown]
    /\ req \in [Callers -> Requests]
    /\ \A t \in Callers : Good(req[t])

(* A request stays good while its process has the same environment.        *)
LEMMA SameSettings ==
    ASSUME UNCHANGED settings, NEW t \in Callers, NEW q, req'[t] = q, Good(q)
    PROVE  Good(req[t])'
<1>1. Order' = Order
  BY DEF Order, Others
<1>2. Remaining(req[t])' <=> Remaining(q)
  BY <1>1 DEF Remaining
<1>3. Held(req[t])' /\ Solo(req[t])' /\ req'[t] \in Requests
  BY DEF Good, Held, Solo
<1>4. Blame(req[t])'
  BY <1>1, <1>2 DEF Good, Blame
<1> QED
  BY <1>3, <1>4 DEF Good

(* A step of one thread that leaves a good request behind.                 *)
LEMMA OneRequest ==
    ASSUME ChainInv, NEW t \in Callers, NEW q, Good(q), UNCHANGED settings,
           req' = [req EXCEPT ![t] = q],
           entries' \subseteq Providers \cup {Legacy},
           ticks' \in [Providers \cup {Legacy} -> 0..Cooldown]
    PROVE  ChainInv'
<1>1. req'[t] = q /\ \A s \in Callers \ {t} : req'[s] = req[s]
  BY DEF ChainInv
<1>2. \A s \in Callers : Good(req[s])'
  BY <1>1, SameSettings DEF ChainInv
<1>3. req' \in [Callers -> Requests]
  BY DEF ChainInv, Good
<1> QED
  BY <1>2, <1>3 DEF ChainInv

LEMMA DegradedGood ==
    ASSUME NEW q, Good(q), NEW reason \in Reasons \ {"LLM_NOT_CONFIGURED"}
    PROVE  Good(Degraded(q, reason))
BY DEF Good, Held, Blame, Solo, Degraded, Requests, Outcomes

LEMMA KeepGood ==
    ASSUME NEW q, Good(q), q.pc \in {"scanning", "expiring"}, q.left # << >>
    PROVE  Good(Keep(q, Head(q.left)))
<1>1. /\ q.left \in Seq(Providers) /\ Head(q.left) \in Providers
      /\ Tail(q.left) \in Seq(Providers) /\ << >> \in Seq(Providers)
  BY HeadTailProperties DEF Good, Requests
<1>2. /\ Append(q.found, Head(q.left)) \in Seq(Providers \cup {Legacy})
      /\ Append(q.found, Head(q.left)) # << >>
  BY <1>1, AppendProperties DEF Good, Requests
<1>3. Keep(q, Head(q.left)) \in Requests
  BY <1>1, <1>2 DEF Good, Requests, Keep
<1>4. /\ Keep(q, Head(q.left)).pc = "scanning"
      /\ Keep(q, Head(q.left)).found # << >>
      /\ Keep(q, Head(q.left)).failed = q.failed
      /\ Keep(q, Head(q.left)).reason = q.reason
  BY <1>2 DEF Good, Requests, Keep
<1> QED
  BY <1>3, <1>4 DEF Good, Held, Blame, Solo

LEMMA AfterFailureGood ==
    ASSUME NEW q, Good(q), q.pc \in {"waiting", "refused"},
           NEW reason \in {"LLM_TIMEOUT", "PROVIDER_RATE_LIMITED"}
    PROVE  Good(AfterFailure(q, reason))
<1> DEFINE s == [q EXCEPT !.failed = @ \cup {Head(q.found)}, !.found = Tail(@)]
<1>1. q \in Requests /\ q.found # << >> /\ (~settings.fallback => q.failed = {})
  BY DEF Good, Held, Solo
<1>2. Head(q.found) \in Providers \cup {Legacy} /\ Tail(q.found) \in Seq(Providers \cup {Legacy})
  BY <1>1, HeadTailProperties DEF Requests
<1>3. /\ s \in Requests /\ s.pc = q.pc /\ s.reason = q.reason
      /\ s.failed = q.failed \cup {Head(q.found)}
  BY <1>1, <1>2 DEF Requests
<1> HIDE DEF s
<1>4. ~settings.fallback => s.failed = {Head(q.found)}
  BY <1>1, <1>3
<1>5. CASE settings.fallback /\ s.found # << >>
  <2>1. [s EXCEPT !.pc = "asking"] \in Requests
    BY <1>3 DEF Requests
  <2>2. Good([s EXCEPT !.pc = "asking"])
    BY <1>3, <1>5, <2>1 DEF Good, Held, Blame, Solo, Requests
  <2> QED
    BY <1>5, <2>2 DEF AfterFailure, s
<1>6. CASE ~(settings.fallback /\ s.found # << >>)
  <2>1. Degraded(s, reason) \in Requests
    BY <1>3 DEF Requests, Degraded, Outcomes, Reasons
  <2>2. Degraded(s, reason).pc = "degraded" /\ Degraded(s, reason).reason = reason
        /\ Degraded(s, reason).failed = s.failed
    BY <1>3 DEF Requests, Degraded
  <2>3. Good(Degraded(s, reason))
    BY <1>4, <2>1, <2>2 DEF Good, Held, Blame, Solo
  <2> QED
    BY <1>6, <2>3 DEF AfterFailure, s
<1> QED
  BY <1>5, <1>6

LEMMA ListedGood ==
    ASSUME NEW q, Good(q), q.pc = "scanning", q.left = << >>
    PROVE  Good(Listed(q))
<1>1. CASE q.found # << >>
  BY <1>1 DEF Listed, Good, Held, Blame, Solo, Requests, Outcomes
<1>2. CASE q.found = << >> /\ q.skipped # {}
  BY <1>2, DegradedGood DEF Listed, Reasons
<1>3. CASE q.found = << >> /\ q.skipped = {}
  <2>1. \A i \in DOMAIN Order : Order[i] \notin settings.keyed
    BY <1>3 DEF Good, Blame, Remaining
  <2>2. Listed(q) = [q EXCEPT !.pc = "degraded", !.reason = "LLM_NOT_CONFIGURED"]
    BY <1>3 DEF Listed, Degraded
  <2> QED
    BY <2>1, <2>2 DEF Good, Held, Blame, Solo, Requests, Outcomes, Reasons
<1> QED
  BY <1>1, <1>2, <1>3

LEMMA IdleGood == Good(Idle)
<1>1. << >> \in Seq(Providers) /\ << >> \in Seq(Providers \cup {Legacy})
  OBVIOUS
<1> QED
  BY <1>1 DEF Idle, Good, Held, Blame, Solo, Requests, Models, Reasons

(* Looking at the next provider without keeping it.                        *)
LEMMA PassGood ==
    ASSUME NEW q, Good(q), q.pc = "scanning", q.left # << >>, Head(q.left) \notin settings.keyed
    PROVE  Good([q EXCEPT !.left = Tail(@)])
<1>1. /\ q.left \in Seq(Providers) /\ Tail(q.left) \in Seq(Providers)
      /\ Len(Tail(q.left)) = Len(q.left) - 1
      /\ \A i \in 1..Len(Tail(q.left)) : Tail(q.left)[i] = q.left[i + 1]
  BY HeadTailProperties DEF Good, Requests
<1>2. ASSUME Remaining(q), NEW i \in DOMAIN Order, Order[i] \in settings.keyed
      PROVE  \E j \in DOMAIN Tail(q.left) : Tail(q.left)[j] = Order[i]
  <2>1. PICK j \in DOMAIN q.left : q.left[j] = Order[i]
    BY <1>2 DEF Remaining
  <2>2. j \in 1..Len(q.left) /\ Len(q.left) \in Nat
    BY <1>1
  <2>3. j # 1
    BY <1>1, <1>2, <2>1
  <2>4. j - 1 \in 1..Len(Tail(q.left)) /\ Tail(q.left)[j - 1] = q.left[j]
    BY <1>1, <2>2, <2>3
  <2> QED
    BY <1>1, <2>1, <2>4
<1> DEFINE s == [q EXCEPT !.left = Tail(@)]
<1>3. s \in Requests /\ s.left = Tail(q.left) /\ s.pc = q.pc /\ s.found = q.found
      /\ s.skipped = q.skipped /\ s.failed = q.failed /\ s.reason = q.reason
  BY <1>1 DEF Good, Requests
<1> HIDE DEF s
<1>4. Remaining(q) => Remaining(s)
  BY <1>2, <1>3 DEF Remaining
<1>5. Good(s)
  BY <1>3, <1>4 DEF Good, Held, Blame, Solo
<1> QED
  BY <1>5 DEF s

LEMMA SkippingGood ==
    ASSUME NEW q, Good(q), q.pc = "scanning", q.left # << >>
    PROVE  Good(Skipping(q, Head(q.left)))
<1>1. Head(q.left) \in Providers /\ Tail(q.left) \in Seq(Providers)
  BY HeadTailProperties DEF Good, Requests
<1> DEFINE s == Skipping(q, Head(q.left))
<1>2. s \in Requests /\ s.pc = q.pc /\ s.skipped # {} /\ s.failed = q.failed /\ s.reason = q.reason
  BY <1>1 DEF Good, Requests, Skipping
<1> HIDE DEF s
<1>3. Good(s)
  BY <1>2 DEF Good, Held, Blame, Solo
<1> QED
  BY <1>3 DEF s

(* A new request, with the whole order before it or straight to litellm.   *)
LEMMA BeginGood ==
    ASSUME ChainInv, NEW t \in Callers, NEW m \in Wanted, NEW probe \in BOOLEAN, Begin(t, m, probe)
    PROVE  ChainInv'
<1>1. m \in Models /\ Order \in Seq(Providers) /\ Idle \in Requests
  BY ChainAssumption, OrderTyping, IdleGood DEF ChainInv, Good
<1>2. <<Legacy>> \in Seq(Providers \cup {Legacy}) /\ <<Legacy>> # << >>
  OBVIOUS
<1> DEFINE direct == [Idle EXCEPT !.pc = IF probe THEN "ready" ELSE "asking",
                                  !.probe = probe, !.model = m, !.found = <<Legacy>>]
           scan == [Idle EXCEPT !.pc = "scanning", !.probe = probe, !.model = m, !.left = Order]
<1>3. Good(direct)
  <2>1. direct \in Requests
    BY <1>1, <1>2 DEF Requests, Outcomes
  <2>2. /\ direct.pc \in {"ready", "asking"} /\ direct.found = <<Legacy>>
        /\ direct.reason = "none" /\ direct.failed = {}
    BY DEF Idle
  <2> HIDE DEF direct
  <2> QED
    BY <1>2, <2>1, <2>2 DEF Good, Held, Blame, Solo
<1>4. Good(scan)
  <2>1. scan \in Requests
    BY <1>1 DEF Requests
  <2>2. scan.pc = "scanning" /\ scan.left = Order /\ scan.reason = "none" /\ scan.failed = {}
    BY DEF Idle
  <2> HIDE DEF scan
  <2>3. Remaining(scan)
    BY <2>2 DEF Remaining
  <2> QED
    BY <2>1, <2>2, <2>3 DEF Good, Held, Blame, Solo
<1>5. req' = [req EXCEPT ![t] = IF m = "foreign" THEN direct ELSE scan]
  BY DEF Begin
<1>6. /\ UNCHANGED settings /\ entries' \subseteq Providers \cup {Legacy}
      /\ ticks' \in [Providers \cup {Legacy} -> 0..Cooldown]
  BY DEF Begin, ChainInv
<1> HIDE DEF direct, scan
<1> QED
  BY <1>3, <1>4, <1>5, <1>6, OneRequest

LEMMA ScanGood ==
    ASSUME ChainInv, NEW t \in Callers,
           PassOver(t) \/ NoModel(t) \/ Take(t) \/ Skip(t) \/ SeeExpired(t) \/ Expire(t) \/ EndScan(t)
    PROVE  ChainInv'
<1> DEFINE q == req[t]
<1>1. Good(q) /\ q \in Requests
  BY DEF ChainInv
<1>2. /\ entries \subseteq Providers \cup {Legacy}
      /\ ticks \in [Providers \cup {Legacy} -> 0..Cooldown]
  BY DEF ChainInv
<1>3. ASSUME NEW s, Good(s), req' = [req EXCEPT ![t] = s], UNCHANGED <<settings, entries, ticks>>
      PROVE  ChainInv'
  BY <1>2, <1>3, OneRequest
<1>4. CASE PassOver(t)
  BY <1>1, <1>3, <1>4, PassGood DEF PassOver, Scanning
<1>5. CASE NoModel(t)
  <2>1. "MODEL_NOT_CONFIGURED" \in Reasons \ {"LLM_NOT_CONFIGURED"}
    BY DEF Reasons
  <2> QED
    BY <1>1, <1>3, <1>5, <2>1, DegradedGood DEF NoModel
<1>6. CASE Take(t)
  BY <1>1, <1>3, <1>6, KeepGood DEF Take, Scanning
<1>7. CASE Skip(t)
  BY <1>1, <1>3, <1>7, SkippingGood DEF Skip, Scanning
<1>8. CASE SeeExpired(t)
  <2>1. Good([q EXCEPT !.pc = "expiring"])
    BY <1>1, <1>8 DEF SeeExpired, Scanning, Good, Held, Blame, Remaining, Solo, Requests
  <2> QED
    BY <1>3, <1>8, <2>1 DEF SeeExpired
<1>9. CASE Expire(t)
  <2>1. q.pc = "expiring" /\ q.left # << >> /\ UNCHANGED settings
    BY <1>1, <1>9 DEF Expire, Good, Held
  <2>2. CASE Head(q.left) \notin entries
    <3>1. Good([q EXCEPT !.pc = "crashed"])
      BY <1>1, <2>1 DEF Good, Held, Blame, Solo, Requests, Outcomes
    <3> QED
      BY <1>3, <1>9, <2>2, <3>1 DEF Expire
  <2>3. CASE Head(q.left) \in entries
    <3>1. Good(Keep(q, Head(q.left)))
      BY <1>1, <2>1, KeepGood
    <3>2. /\ req' = [req EXCEPT ![t] = Keep(q, Head(q.left))]
          /\ entries' = entries \ {Head(q.left)}
          /\ ticks' = [ticks EXCEPT ![Head(q.left)] = 0]
      BY <1>9, <2>3 DEF Expire
    <3>3. /\ entries' \subseteq Providers \cup {Legacy}
          /\ ticks' \in [Providers \cup {Legacy} -> 0..Cooldown]
      <4>1. 0 \in 0..Cooldown
        BY ChainAssumption
      <4> HIDE DEF q
      <4> QED
        BY <1>2, <3>2, <4>1
    <3> QED
      BY <2>1, <3>1, <3>2, <3>3, OneRequest
  <2> QED
    BY <2>2, <2>3
<1>10. CASE EndScan(t)
  BY <1>1, <1>3, <1>10, ListedGood DEF EndScan
<1> QED
  BY <1>4, <1>5, <1>6, <1>7, <1>8, <1>9, <1>10

LEMMA AskingGood ==
    ASSUME ChainInv, NEW t \in Callers,
           \/ Ask(t) \/ Answer(t) \/ Fail(t) \/ Refuse(t) \/ StartCooldown(t)
           \/ Reject(t) \/ Return(t)
    PROVE  ChainInv'
<1> DEFINE q == req[t]
<1>1. Good(q) /\ q \in Requests
  BY DEF ChainInv
<1>2. /\ entries \subseteq Providers \cup {Legacy}
      /\ ticks \in [Providers \cup {Legacy} -> 0..Cooldown]
  BY DEF ChainInv
<1>3. ASSUME NEW s, Good(s), req' = [req EXCEPT ![t] = s], UNCHANGED <<settings, entries, ticks>>
      PROVE  ChainInv'
  BY <1>2, <1>3, OneRequest
<1>4. CASE Ask(t)
  <2>1. Good([q EXCEPT !.pc = "waiting"])
    BY <1>1, <1>4 DEF Ask, Good, Held, Blame, Solo, Requests
  <2> QED
    BY <1>3, <1>4, <2>1 DEF Ask
<1>5. CASE Answer(t)
  <2>1. q.pc = "waiting" /\ Head(q.found) \in Providers \cup {Legacy}
    BY <1>1, <1>5, HeadTailProperties DEF Answer, Good, Held, Requests
  <2>2. Good([q EXCEPT !.pc = "answered", !.by = Head(q.found)])
    BY <1>1, <2>1 DEF Good, Held, Blame, Solo, Requests, Outcomes
  <2>3. req' = [req EXCEPT ![t] = [q EXCEPT !.pc = "answered", !.by = Head(q.found)]]
    BY <1>5 DEF Answer, ChainInv
  <2> QED
    BY <1>3, <1>5, <2>2, <2>3 DEF Answer
<1>6. CASE Fail(t)
  BY <1>1, <1>3, <1>6, AfterFailureGood DEF Fail
<1>7. CASE Refuse(t)
  <2>1. Good([q EXCEPT !.pc = "refused"])
    BY <1>1, <1>7 DEF Refuse, Good, Held, Blame, Solo, Requests
  <2> QED
    BY <1>3, <1>7, <2>1 DEF Refuse
<1>8. CASE StartCooldown(t)
  <2>1. q.pc = "refused" /\ q.found # << >>
    BY <1>1, <1>8 DEF StartCooldown, Good, Held
  <2>2. Head(q.found) \in Providers \cup {Legacy}
    BY <1>1, <2>1, HeadTailProperties DEF Requests
  <2>3. Good(AfterFailure(q, "PROVIDER_RATE_LIMITED"))
    BY <1>1, <2>1, AfterFailureGood
  <2>4. /\ entries' \subseteq Providers \cup {Legacy}
        /\ ticks' \in [Providers \cup {Legacy} -> 0..Cooldown]
    BY <1>2, <1>8, <2>2, ChainAssumption DEF StartCooldown
  <2>5. req' = [req EXCEPT ![t] = AfterFailure(q, "PROVIDER_RATE_LIMITED")] /\ UNCHANGED settings
    BY <1>8 DEF StartCooldown
  <2> QED
    BY <2>3, <2>4, <2>5, OneRequest
<1>9. CASE Reject(t)
  <2>1. "LLM_BAD_OUTPUT" \in Reasons \ {"LLM_NOT_CONFIGURED"}
    BY DEF Reasons
  <2> QED
    BY <1>1, <1>3, <1>9, <2>1, DegradedGood DEF Reject
<1>10. CASE Return(t)
  BY <1>3, <1>10, IdleGood DEF Return
<1> QED
  BY <1>4, <1>5, <1>6, <1>7, <1>8, <1>9, <1>10

LEMMA TickGood ==
    ASSUME ChainInv, Tick
    PROVE  ChainInv'
<1>1. ticks' \in [Providers \cup {Legacy} -> 0..Cooldown]
  BY ChainAssumption DEF ChainInv, Tick
<1>2. \A t \in Callers : Good(req[t])'
  BY SameSettings DEF ChainInv, Tick
<1> QED
  BY <1>1, <1>2 DEF ChainInv, Tick

LEMMA ChainInvariant == Spec => []ChainInv
<1>1. ASSUME Init
      PROVE  ChainInv
  <2>1. ticks \in [Providers \cup {Legacy} -> 0..Cooldown] /\ settings \in Settings
    BY <1>1, ChainAssumption DEF Init
  <2> QED
    BY <1>1, <2>1, IdleGood DEF Init, ChainInv, Good
<1>2. ASSUME ChainInv, [Next]_vars
      PROVE  ChainInv'
  <2>1. CASE UNCHANGED vars
    <3>1. \A t \in Callers : Good(req[t])'
      BY <1>2, <2>1, SameSettings DEF vars, ChainInv
    <3> QED
      BY <1>2, <2>1, <3>1 DEF vars, ChainInv
  <2> QED
    BY <1>2, <2>1, TickGood, BeginGood, ScanGood, AskingGood DEF Next, Step
<1> QED
  BY <1>1, <1>2, PTL DEF Spec

(* Every variable keeps its type.                                          *)
THEOREM TypeCorrect == Spec => []TypeOK
<1>1. ChainInv => TypeOK
  BY DEF ChainInv, TypeOK
<1> QED
  BY <1>1, ChainInvariant, PTL

(* A request that says nothing is configured says so of every provider of  *)
(* its order, whatever cooled off or expired while it looked               *)
(* (_candidates_for's final error).                                        *)
THEOREM BlameIsFair == Spec => []CredentialsAreNotBlamed
<1>1. ChainInv => CredentialsAreNotBlamed
  BY DEF ChainInv, Good, Blame, CredentialsAreNotBlamed
<1> QED
  BY <1>1, ChainInvariant, PTL

(* Without fallback a request asks one provider and no other (generate).   *)
THEOREM FallbackIsASwitch == Spec => []OneProviderWithoutFallback
<1>1. ASSUME ChainInv, NEW t \in Callers, ~settings.fallback
      PROVE  Cardinality(req[t].failed)
               + (IF req[t].pc \in {"asking", "waiting", "refused"} THEN 1 ELSE 0) <= 1
  <2>1. /\ req[t].pc # "degraded" => req[t].failed = {}
        /\ req[t].failed = {} \/ \E p : req[t].failed = {p}
    BY <1>1 DEF ChainInv, Good, Solo
  <2>2. Cardinality({}) = 0 /\ \A p : Cardinality({p}) = 1
    BY FS_EmptySet, FS_Singleton
  <2>3. CASE req[t].failed = {}
    BY <2>2, <2>3
  <2>4. CASE req[t].failed # {}
    BY <2>1, <2>2, <2>4
  <2> QED
    BY <2>3, <2>4
<1>2. ChainInv => OneProviderWithoutFallback
  BY <1>1 DEF OneProviderWithoutFallback
<1> QED
  BY <1>2, ChainInvariant, PTL

----------------------------------------------------------------------------
(* The order of the providers, and the turn of each *)

Distinct(s) == \A i, j \in DOMAIN s : s[i] = s[j] => i = j

(* Taking one element out of a sequence without repetitions.               *)
LEMMA RemoveAtDistinct ==
    ASSUME NEW S, NEW s \in Seq(S), Distinct(s), NEW k \in DOMAIN s
    PROVE  /\ RemoveAt(s, k) \in Seq(S)
           /\ Distinct(RemoveAt(s, k))
           /\ \A i \in DOMAIN RemoveAt(s, k) : RemoveAt(s, k)[i] # s[k]
<1> DEFINE a == SubSeq(s, 1, k - 1)
           b == SubSeq(s, k + 1, Len(s))
           n == Len(s)
<1>1. n \in Nat /\ k \in 1..n /\ DOMAIN s = 1..n
  OBVIOUS
<1>2. a \in Seq(S) /\ Len(a) = k - 1 /\ \A i \in 1..(k - 1) : a[i] = s[i]
  BY <1>1, SubSeqProperties
<1>3. b \in Seq(S) /\ Len(b) = n - k /\ \A i \in 1..(n - k) : b[i] = s[k + i]
  <2>1. \A i \in (k + 1)..n : s[i] \in S
    BY <1>1
  <2>2. /\ b \in Seq(S)
        /\ Len(b) = IF k + 1 <= n THEN n - (k + 1) + 1 ELSE 0
        /\ \A i \in 1..(n - (k + 1) + 1) : b[i] = s[k + 1 + i - 1]
    BY <1>1, <2>1, SubSeqProperties
  <2> HIDE DEF b, n
  <2>3. n - (k + 1) + 1 = n - k /\ (k + 1 <= n \/ n - k = 0)
    BY <1>1
  <2>4. \A i \in 1..(n - k) : k + 1 + i - 1 = k + i
    BY <1>1
  <2> QED
    BY <2>2, <2>3, <2>4
<1> HIDE DEF a, b, n
<1>4. /\ a \o b \in Seq(S) /\ Len(a \o b) = n - 1
      /\ \A i \in 1..(n - 1) : (a \o b)[i] = IF i < k THEN s[i] ELSE s[i + 1]
  <2>1. /\ a \o b \in Seq(S) /\ Len(a \o b) = (k - 1) + (n - k)
        /\ \A i \in 1..((k - 1) + (n - k)) :
             (a \o b)[i] = IF i <= k - 1 THEN a[i] ELSE b[i - (k - 1)]
    <3>1. /\ a \o b \in Seq(S) /\ Len(a \o b) = Len(a) + Len(b)
          /\ \A i \in 1..(Len(a) + Len(b)) :
               (a \o b)[i] = IF i <= Len(a) THEN a[i] ELSE b[i - Len(a)]
      BY <1>2, <1>3, ConcatProperties
    <3>2. Len(a) = k - 1 /\ Len(b) = n - k
      BY <1>2, <1>3
    <3> QED
      BY <3>1, <3>2, Zenon
  <2>2. (k - 1) + (n - k) = n - 1
    BY <1>1
  <2>3. ASSUME NEW i \in 1..(n - 1)
        PROVE  (a \o b)[i] = IF i < k THEN s[i] ELSE s[i + 1]
    <3>1. CASE i < k
      BY <1>1, <1>2, <2>1, <2>2, <3>1
    <3>2. CASE ~(i < k)
      <4>1. i - (k - 1) \in 1..(n - k) /\ k + (i - (k - 1)) = i + 1
        BY <1>1, <3>2
      <4>2. (a \o b)[i] = b[i - (k - 1)]
        BY <1>1, <2>1, <2>2, <3>2
      <4> QED
        BY <1>3, <3>2, <4>1, <4>2
    <3> QED
      BY <3>1, <3>2
  <2> QED
    BY <2>1, <2>2, <2>3
<1>5. RemoveAt(s, k) = a \o b
  BY DEF RemoveAt, a, b
<1>6. DOMAIN (a \o b) = 1..(n - 1)
  BY <1>4
<1>7. ASSUME NEW i \in 1..(n - 1)
      PROVE  \E f \in DOMAIN s : /\ (a \o b)[i] = s[f] /\ f # k
                                 /\ f = IF i < k THEN i ELSE i + 1
  <2> DEFINE f == IF i < k THEN i ELSE i + 1
  <2>1. f \in DOMAIN s /\ f # k
    BY <1>1
  <2>2. (a \o b)[i] = s[f]
    BY <1>4
  <2> HIDE DEF f
  <2>3. f = IF i < k THEN i ELSE i + 1
    BY DEF f
  <2> QED
    BY <2>1, <2>2, <2>3
<1>8. ASSUME NEW i \in 1..(n - 1), NEW j \in 1..(n - 1), (a \o b)[i] = (a \o b)[j]
      PROVE  i = j
  <2>1. PICK f \in DOMAIN s : (a \o b)[i] = s[f] /\ f = IF i < k THEN i ELSE i + 1
    BY <1>7
  <2>2. PICK g \in DOMAIN s : (a \o b)[j] = s[g] /\ g = IF j < k THEN j ELSE j + 1
    BY <1>7
  <2>3. f = g
    BY <1>8, <2>1, <2>2 DEF Distinct
  <2> QED
    BY <1>1, <2>1, <2>2, <2>3
<1>9. Distinct(a \o b)
  BY <1>6, <1>8 DEF Distinct
<1>10. \A i \in 1..(n - 1) : (a \o b)[i] # s[k]
  BY <1>7 DEF Distinct
<1> QED
  BY <1>4, <1>5, <1>6, <1>9, <1>10

(* No provider has two places in the order, so Position finds its place.   *)
LEMMA OrderDistinct ==
    ASSUME settings \in Settings
    PROVE  /\ Distinct(Order)
           /\ \A i \in DOMAIN Order : Position(Order[i]) = i
<1>1. Fallbacks \in Seq(Providers) /\ Distinct(Fallbacks)
  BY ChainAssumption DEF Distinct
<1>2. ASSUME NEW p \in Providers
      PROVE  /\ Others(p) \in Seq(Providers) /\ Distinct(Others(p))
             /\ \A i \in DOMAIN Others(p) : Others(p)[i] # p
  <2>1. CASE \E i \in DOMAIN Fallbacks : Fallbacks[i] = p
    <3> DEFINE k == CHOOSE i \in DOMAIN Fallbacks : Fallbacks[i] = p
    <3>1. k \in DOMAIN Fallbacks /\ Fallbacks[k] = p
      BY <2>1
    <3>2. Others(p) = RemoveAt(Fallbacks, k)
      BY <2>1 DEF Others
    <3> HIDE DEF k
    <3> QED
      BY <1>1, <3>1, <3>2, RemoveAtDistinct
  <2>2. CASE ~ \E i \in DOMAIN Fallbacks : Fallbacks[i] = p
    BY <1>1, <2>2 DEF Others
  <2> QED
    BY <2>1, <2>2
<1>3. ASSUME NEW p \in Providers
      PROVE  Distinct(<<p>> \o Others(p))
  <2> DEFINE o == Others(p)
  <2>1. <<p>> \in Seq(Providers) /\ Len(<<p>>) = 1 /\ <<p>>[1] = p
    OBVIOUS
  <2>2. o \in Seq(Providers) /\ Distinct(o) /\ \A i \in DOMAIN o : o[i] # p
    BY <1>2
  <2> HIDE DEF o
  <2>3. Len(o) \in Nat /\ DOMAIN o = 1..Len(o)
    BY <2>2
  <2>4. /\ <<p>> \o o \in Seq(Providers) /\ Len(<<p>> \o o) = 1 + Len(o)
        /\ \A i \in 1..(1 + Len(o)) : (<<p>> \o o)[i] = IF i <= 1 THEN p ELSE o[i - 1]
    BY <2>1, <2>2, ConcatProperties
  <2>5. ASSUME NEW i \in 1..(1 + Len(o)), NEW j \in 1..(1 + Len(o)),
               (<<p>> \o o)[i] = (<<p>> \o o)[j]
        PROVE  i = j
    <3>1. \A h \in 1..(1 + Len(o)) : ~(h <= 1) => h - 1 \in DOMAIN o
      BY <2>3
    <3>2. CASE i <= 1 \/ j <= 1
      BY <2>2, <2>3, <2>4, <2>5, <3>1, <3>2
    <3>3. CASE ~(i <= 1) /\ ~(j <= 1)
      <4>1. o[i - 1] = o[j - 1]
        BY <2>4, <2>5, <3>3
      <4>2. i - 1 = j - 1
        BY <2>2, <3>1, <3>3, <4>1 DEF Distinct
      <4> QED
        BY <2>3, <4>2
    <3> QED
      BY <3>2, <3>3
  <2>6. DOMAIN (<<p>> \o o) = 1..(1 + Len(o))
    BY <2>4
  <2>7. Distinct(<<p>> \o o)
    BY <2>5, <2>6 DEF Distinct
  <2> QED
    BY <2>7 DEF o
<1>4. \A p \in Providers : Distinct(<<p>>)
  BY DEF Distinct
<1>5. Distinct(<< >>)
  BY DEF Distinct
<1>6. Distinct(Order)
  BY <1>1, <1>3, <1>4, <1>5 DEF Order
<1> QED
  BY <1>6 DEF Position, Distinct

(* The providers that were cooling or failed for the request.              *)
Done(q) == q.skipped \cup q.failed

(* Of the first k providers of the order every one with a key is done with *)
(* or a candidate.                                                         *)
Covered(q, k) ==
    \A i \in DOMAIN Order : i <= k /\ Order[i] \in settings.keyed =>
        Order[i] \in Done(q) \/ \E h \in DOMAIN q.found : q.found[h] = Order[i]

(* What is left to look at is the order from its place k + 1 on.           *)
Leaves(q, k) ==
    /\ k \in Nat /\ k + Len(q.left) = Len(Order)
    /\ \A j \in DOMAIN q.left : q.left[j] = Order[k + j]

(* The candidates stand in the order, with nobody of theirs left out.      *)
InTurn(q) ==
    \A j \in DOMAIN q.found, i \in DOMAIN Order :
        q.found[j] \in Providers /\ i < Position(q.found[j]) /\ Order[i] \in settings.keyed =>
            Order[i] \in Done(q) \/ \E h \in DOMAIN q.found : h < j /\ q.found[h] = Order[i]

Scanned(q) ==
    q.pc \in {"scanning", "expiring"} /\ q.left # << >> =>
        \E k \in Nat : Leaves(q, k) /\ Covered(q, k)

Earned(q) ==
    q.pc = "answered" /\ q.by \in Providers =>
        \A i \in DOMAIN Order :
            i < Position(q.by) /\ Order[i] \in settings.keyed => Order[i] \in Done(q)

Turn(q) == InTurn(q) /\ Scanned(q) /\ Earned(q)
TurnInv == \A t \in Callers : Turn(req[t])

LEMMA SameTurn ==
    ASSUME UNCHANGED settings, NEW t \in Callers, NEW q, req'[t] = q, Turn(q)
    PROVE  Turn(req[t])'
<1>1. Order' = Order
  BY DEF Order, Others
<1>2. \A p : Position(p)' = Position(p)
  BY <1>1 DEF Position
<1>3. InTurn(req[t])' /\ Earned(req[t])'
  BY <1>1, <1>2 DEF Turn, InTurn, Earned, Done
<1>4. \A k \in Nat : (Leaves(q, k) => Leaves(req[t], k)') /\ (Covered(q, k) => Covered(req[t], k)')
  BY <1>1 DEF Leaves, Covered, Done
<1>5. Scanned(req[t])'
  BY <1>4 DEF Turn, Scanned
<1> QED
  BY <1>3, <1>5 DEF Turn

(* The next provider is the one at place k + 1.                            *)
LEMMA NextInOrder ==
    ASSUME settings \in Settings, NEW q, q.left \in Seq(Providers), q.left # << >>,
           NEW k \in Nat, Leaves(q, k)
    PROVE  /\ k + 1 \in DOMAIN Order /\ Head(q.left) = Order[k + 1]
           /\ Position(Head(q.left)) = k + 1
           /\ \A s : s.left = Tail(q.left) => Leaves(s, k + 1)
<1>1. Order \in Seq(Providers) /\ Len(Order) \in Nat /\ DOMAIN Order = 1..Len(Order)
  BY OrderTyping
<1>2. /\ Len(q.left) \in Nat \ {0} /\ DOMAIN q.left = 1..Len(q.left)
      /\ Head(q.left) = q.left[1]
  OBVIOUS
<1>0. /\ k + Len(q.left) = Len(Order)
      /\ \A j \in 1..Len(q.left) : q.left[j] = Order[k + j]
  BY <1>2 DEF Leaves
<1>3. k + 1 \in DOMAIN Order /\ Head(q.left) = Order[k + 1]
  <2> DEFINE m == Len(Order)
             n == Len(q.left)
  <2>1. m \in Nat /\ n \in Nat \ {0} /\ k + n = m
    BY <1>0, <1>1, <1>2
  <2> HIDE DEF m, n
  <2>2. k + 1 \in 1..m /\ 1 \in 1..n
    BY <2>1
  <2>3. k + 1 \in DOMAIN Order
    BY <1>1, <2>2 DEF m
  <2>4. q.left[1] = Order[k + 1]
    BY <1>0, <2>2 DEF n
  <2> QED
    BY <1>2, <2>3, <2>4
<1>4. Position(Head(q.left)) = k + 1
  BY <1>3, OrderDistinct
<1>5. /\ Tail(q.left) \in Seq(Providers) /\ Len(Tail(q.left)) = Len(q.left) - 1
      /\ \A i \in 1..Len(Tail(q.left)) : Tail(q.left)[i] = q.left[i + 1]
  BY HeadTailProperties
<1>6. \A i \in 1..Len(Tail(q.left)) : Tail(q.left)[i] = Order[(k + 1) + i]
  <2> TAKE i \in 1..Len(Tail(q.left))
  <2>1. i + 1 \in DOMAIN q.left /\ k + (i + 1) = (k + 1) + i
    BY <1>2, <1>5
  <2>2. q.left[i + 1] = Order[k + (i + 1)]
    BY <2>1 DEF Leaves
  <2> QED
    BY <1>5, <2>1, <2>2
<1>7. (k + 1) + Len(Tail(q.left)) = Len(Order)
  <2> DEFINE m == Len(Order)
             n == Len(q.left)
             l == Len(Tail(q.left))
  <2>1. n \in Nat \ {0} /\ k + n = m /\ l = n - 1
    BY <1>0, <1>2, <1>5
  <2> HIDE DEF m, n, l
  <2>2. (k + 1) + l = m
    BY <2>1
  <2> QED
    BY <2>2 DEF m, l
<1>8. DOMAIN Tail(q.left) = 1..Len(Tail(q.left))
  BY <1>5
<1>9. ASSUME NEW s, s.left = Tail(q.left)
      PROVE  Leaves(s, k + 1)
  <2>1. k + 1 \in Nat
    OBVIOUS
  <2> QED
    BY <1>6, <1>7, <1>8, <1>9, <2>1 DEF Leaves
<1> QED
  BY <1>3, <1>4, <1>9

(* A provider without a key, or one that is cooling, is looked past.       *)
LEMMA LookPast ==
    ASSUME settings \in Settings, NEW q, Good(q), Turn(q), q.pc = "scanning", q.left # << >>,
           NEW s, s.pc = "scanning", s.left = Tail(q.left), s.found = q.found,
           q.skipped \subseteq s.skipped, s.failed = q.failed,
           Head(q.left) \in settings.keyed => Head(q.left) \in s.skipped
    PROVE  Turn(s)
<1>1. q.left \in Seq(Providers) /\ Done(q) \subseteq Done(s)
  BY DEF Good, Requests, Done
<1>2. InTurn(s)
  BY <1>1 DEF Turn, InTurn
<1>3. PICK k \in Nat : Leaves(q, k) /\ Covered(q, k)
  BY DEF Turn, Scanned
<1>4. Head(q.left) = Order[k + 1] /\ Leaves(s, k + 1)
  BY <1>1, <1>3, NextInOrder
<1>5. Covered(s, k + 1)
  <2> SUFFICES ASSUME NEW i \in DOMAIN Order, i <= k + 1, Order[i] \in settings.keyed
               PROVE  Order[i] \in Done(s) \/ \E h \in DOMAIN s.found : s.found[h] = Order[i]
    BY DEF Covered
  <2>1. i \in Nat
    BY OrderTyping
  <2>2. CASE i = k + 1
    BY <1>4, <2>2 DEF Done
  <2>3. CASE i # k + 1
    <3>1. i <= k
      BY <2>1, <2>3
    <3> QED
      BY <1>1, <1>3, <3>1 DEF Covered
  <2> QED
    BY <2>2, <2>3
<1>6. Scanned(s)
  BY <1>4, <1>5 DEF Scanned
<1>7. Earned(s)
  BY DEF Earned
<1> QED
  BY <1>2, <1>6, <1>7 DEF Turn

(* The next provider becomes the last candidate.                           *)
LEMMA KeepTurn ==
    ASSUME settings \in Settings, NEW q, Good(q), Turn(q),
           q.pc \in {"scanning", "expiring"}, q.left # << >>
    PROVE  Turn(Keep(q, Head(q.left)))
<1> DEFINE p == Head(q.left)
           s == Keep(q, p)
<1>1. q.left \in Seq(Providers) /\ q.found \in Seq(Providers \cup {Legacy}) /\ p \in Providers
  BY HeadTailProperties DEF Good, Requests
<1>2. /\ s.pc = "scanning" /\ s.found = Append(q.found, p)
      /\ s.left \in {<< >>, Tail(q.left)} /\ Done(s) = Done(q)
  BY DEF Good, Requests, Keep, Done
<1>3. PICK k \in Nat : Leaves(q, k) /\ Covered(q, k)
  BY DEF Turn, Scanned
<1>4. /\ k + 1 \in DOMAIN Order /\ p = Order[k + 1] /\ Position(p) = k + 1
      /\ s.left = Tail(q.left) => Leaves(s, k + 1)
  BY <1>1, <1>3, NextInOrder
<1> HIDE DEF p, s
<1>5. /\ Len(q.found) \in Nat /\ DOMAIN q.found = 1..Len(q.found)
      /\ DOMAIN s.found = 1..(Len(q.found) + 1)
      /\ \A h \in DOMAIN q.found : s.found[h] = q.found[h]
      /\ s.found[Len(q.found) + 1] = p
  BY <1>1, <1>2, AppendProperties
<1>6. InTurn(s)
  <2> SUFFICES ASSUME NEW j \in DOMAIN s.found, NEW i \in DOMAIN Order, s.found[j] \in Providers,
                      i < Position(s.found[j]), Order[i] \in settings.keyed
               PROVE  Order[i] \in Done(s) \/ \E h \in DOMAIN s.found : h < j /\ s.found[h] = Order[i]
    BY DEF InTurn
  <2>1. CASE j = Len(q.found) + 1
    <3>1. i < k + 1
      BY <1>4, <1>5, <2>1
    <3>2. i <= k
      BY <3>1, OrderTyping
    <3>3. Order[i] \in Done(q) \/ \E h \in DOMAIN q.found : q.found[h] = Order[i]
      BY <1>3, <3>2 DEF Covered
    <3> QED
      BY <1>2, <1>5, <2>1, <3>3
  <2>2. CASE j # Len(q.found) + 1
    <3>1. j \in DOMAIN q.found /\ s.found[j] = q.found[j]
      BY <1>5, <2>2
    <3>2. Order[i] \in Done(q) \/ \E h \in DOMAIN q.found : h < j /\ q.found[h] = Order[i]
      BY <3>1 DEF Turn, InTurn
    <3> QED
      BY <1>2, <1>5, <3>2
  <2> QED
    BY <2>1, <2>2
<1>7. Covered(s, k + 1)
  <2> SUFFICES ASSUME NEW i \in DOMAIN Order, i <= k + 1, Order[i] \in settings.keyed
               PROVE  Order[i] \in Done(s) \/ \E h \in DOMAIN s.found : s.found[h] = Order[i]
    BY DEF Covered
  <2>1. i \in Nat
    BY OrderTyping
  <2>2. CASE i = k + 1
    BY <1>4, <1>5, <2>2
  <2>3. CASE i # k + 1
    <3>1. i <= k
      BY <2>1, <2>3
    <3>2. Order[i] \in Done(q) \/ \E h \in DOMAIN q.found : q.found[h] = Order[i]
      BY <1>3, <3>1 DEF Covered
    <3> QED
      BY <1>2, <1>5, <3>2
  <2> QED
    BY <2>2, <2>3
<1>8. Scanned(s)
  <2>1. k + 1 \in Nat
    OBVIOUS
  <2>2. s.left # << >> => Leaves(s, k + 1) /\ Covered(s, k + 1)
    BY <1>2, <1>4, <1>7
  <2> QED
    BY <2>1, <2>2 DEF Scanned
<1>9. Earned(s)
  BY <1>2 DEF Earned
<1> QED
  BY <1>6, <1>8, <1>9 DEF Turn, s, p

(* Everything but the scan: the candidates and what is done with stay as   *)
(* they are.                                                               *)
LEMMA SameCandidates ==
    ASSUME NEW q, Turn(q), NEW s, s.found = q.found, Done(s) = Done(q),
           s.pc \notin {"scanning", "answered"}, s.pc = "expiring" => q.pc = "scanning",
           s.left = q.left
    PROVE  Turn(s)
<1>1. InTurn(s)
  BY DEF Turn, InTurn
<1>2. \A k \in Nat : Leaves(q, k) /\ Covered(q, k) => Leaves(s, k) /\ Covered(s, k)
  BY DEF Leaves, Covered
<1>3. Scanned(s)
  BY <1>2 DEF Turn, Scanned
<1>4. Earned(s)
  BY DEF Earned
<1> QED
  BY <1>1, <1>3, <1>4 DEF Turn

LEMMA DegradedTurn ==
    ASSUME NEW q, Good(q), Turn(q), NEW reason
    PROVE  Turn(Degraded(q, reason))
<1> DEFINE s == Degraded(q, reason)
<1>1. s.found = q.found /\ s.left = q.left /\ Done(s) = Done(q) /\ s.pc = "degraded"
  BY DEF Good, Requests, Degraded, Done
<1> HIDE DEF s
<1>2. Turn(s)
  BY <1>1, SameCandidates
<1> QED
  BY <1>2 DEF s

(* The candidate asked is the first one: all the others in front of it are *)
(* done with.                                                              *)
LEMMA AnswerTurn ==
    ASSUME NEW q, Good(q), Turn(q), q.pc = "waiting"
    PROVE  Turn([q EXCEPT !.pc = "answered", !.by = Head(q.found)])
<1> DEFINE s == [q EXCEPT !.pc = "answered", !.by = Head(q.found)]
<1>1. /\ s.found = q.found /\ Done(s) = Done(q) /\ s.pc = "answered"
      /\ s.by = Head(q.found)
  BY DEF Good, Requests, Done
<1>2. q.found \in Seq(Providers \cup {Legacy}) /\ q.found # << >>
  BY DEF Good, Held, Requests
<1>3. /\ 1 \in DOMAIN q.found /\ Head(q.found) = q.found[1]
      /\ \A h \in DOMAIN q.found : ~(h < 1)
  BY <1>2
<1> HIDE DEF s
<1>4. InTurn(s)
  BY <1>1 DEF Turn, InTurn
<1>5. Earned(s)
  BY <1>1, <1>3 DEF Turn, InTurn, Earned
<1>6. Scanned(s)
  BY <1>1 DEF Scanned
<1>7. Turn(s)
  BY <1>4, <1>5, <1>6 DEF Turn
<1> QED
  BY <1>7 DEF s

(* The candidate that failed is done with, and the others move up.         *)
LEMMA AfterFailureTurn ==
    ASSUME NEW q, Good(q), Turn(q), q.pc \in {"waiting", "refused"}, NEW reason
    PROVE  Turn(AfterFailure(q, reason))
<1> DEFINE s == [q EXCEPT !.failed = @ \cup {Head(q.found)}, !.found = Tail(@)]
           f == AfterFailure(q, reason)
<1>1. q \in Requests /\ q.found \in Seq(Providers \cup {Legacy}) /\ q.found # << >>
  BY DEF Good, Held, Requests
<1>2. /\ s.found = Tail(q.found) /\ s.pc = q.pc
      /\ s.skipped = q.skipped /\ s.failed = q.failed \cup {Head(q.found)}
  BY <1>1 DEF Requests
<1>3. s = [q EXCEPT !.failed = @ \cup {Head(q.found)}, !.found = Tail(@)]
  OBVIOUS
<1>4. /\ f.found = s.found /\ f.skipped = s.skipped /\ f.failed = s.failed
      /\ f.pc \in {"asking", "degraded"}
  <2>1. f = IF settings.fallback /\ s.found # << >> THEN [s EXCEPT !.pc = "asking"]
            ELSE Degraded(s, reason)
    BY DEF AfterFailure
  <2> HIDE DEF f
  <2>2. "pc" \in DOMAIN s
    BY <1>1 DEF Requests
  <2>3. /\ [s EXCEPT !.pc = "asking"].pc = "asking"
        /\ [s EXCEPT !.pc = "asking"].found = s.found
        /\ [s EXCEPT !.pc = "asking"].skipped = s.skipped
        /\ [s EXCEPT !.pc = "asking"].failed = s.failed
    BY <1>1 DEF Requests
  <2>4. /\ Degraded(s, reason).pc = "degraded" /\ Degraded(s, reason).found = s.found
        /\ Degraded(s, reason).skipped = s.skipped /\ Degraded(s, reason).failed = s.failed
    BY <1>1 DEF Requests, Degraded
  <2> HIDE DEF s
  <2> QED
    BY <2>1, <2>3, <2>4
<1> HIDE DEF s, f
<1>5. /\ f.found = Tail(q.found) /\ Done(f) = Done(q) \cup {q.found[1]}
  BY <1>1, <1>2, <1>4 DEF Done
<1>6. /\ Len(q.found) \in Nat \ {0} /\ DOMAIN q.found = 1..Len(q.found)
      /\ DOMAIN Tail(q.found) = 1..(Len(q.found) - 1)
      /\ \A j \in DOMAIN Tail(q.found) : Tail(q.found)[j] = q.found[j + 1]
  BY <1>1, HeadTailProperties
<1>7. InTurn(f)
  <2> SUFFICES ASSUME NEW j \in DOMAIN f.found, NEW i \in DOMAIN Order, f.found[j] \in Providers,
                      i < Position(f.found[j]), Order[i] \in settings.keyed, Order[i] \notin Done(f)
               PROVE  \E h \in DOMAIN f.found : h < j /\ f.found[h] = Order[i]
    BY DEF InTurn
  <2>1. j + 1 \in DOMAIN q.found /\ f.found[j] = q.found[j + 1]
    BY <1>5, <1>6
  <2>2. PICK h \in DOMAIN q.found : h < j + 1 /\ q.found[h] = Order[i]
    BY <1>5, <2>1 DEF Turn, InTurn
  <2>3. h # 1
    BY <1>5, <2>2
  <2>4. h - 1 \in DOMAIN f.found /\ h - 1 < j /\ (h - 1) + 1 = h
    BY <1>5, <1>6, <2>2, <2>3
  <2>5. f.found[h - 1] = Order[i]
    BY <1>5, <1>6, <2>2, <2>4
  <2> QED
    BY <2>4, <2>5
<1>8. Scanned(f) /\ Earned(f)
  BY <1>4 DEF Scanned, Earned
<1> QED
  BY <1>7, <1>8 DEF Turn, f

LEMMA ListedTurn ==
    ASSUME NEW q, Good(q), Turn(q)
    PROVE  Turn(Listed(q))
<1>1. CASE q.found # << >>
  <2> DEFINE s == Listed(q)
  <2>1. /\ s.found = q.found /\ s.left = q.left /\ Done(s) = Done(q)
        /\ s.pc \in {"ready", "asking"}
    BY <1>1 DEF Listed, Good, Requests, Done
  <2> HIDE DEF s
  <2>2. Turn(s)
    BY <2>1, SameCandidates
  <2> QED
    BY <2>2 DEF s
<1>2. CASE q.found = << >>
  BY <1>2, DegradedTurn DEF Listed
<1> QED
  BY <1>1, <1>2

LEMMA BeginTurn ==
    ASSUME ChainInv, NEW t \in Callers, NEW m \in Wanted, NEW probe \in BOOLEAN, Begin(t, m, probe)
    PROVE  Turn(req'[t])
<1> DEFINE s == req'[t]
<1>1. Order \in Seq(Providers)
  BY OrderTyping DEF ChainInv
<1>2. CASE m = "foreign"
  <2>1. s = [Idle EXCEPT !.pc = IF probe THEN "ready" ELSE "asking",
                         !.probe = probe, !.model = m, !.found = <<Legacy>>]
    BY <1>2 DEF Begin, ChainInv
  <2> HIDE DEF s
  <2>2. s.pc \in {"ready", "asking"} /\ s.found = <<Legacy>>
    BY <2>1 DEF Idle
  <2>3. \A j \in DOMAIN s.found : s.found[j] \notin Providers
    BY <2>2, ChainAssumption
  <2>4. Turn(s)
    BY <2>2, <2>3 DEF Turn, InTurn, Scanned, Earned
  <2> QED
    BY <2>4 DEF s
<1>3. CASE m # "foreign"
  <2>1. s = [Idle EXCEPT !.pc = "scanning", !.probe = probe, !.model = m, !.left = Order]
    BY <1>3 DEF Begin, ChainInv
  <2> HIDE DEF s
  <2>2. s.pc = "scanning" /\ s.found = << >> /\ s.left = Order
    BY <2>1 DEF Idle
  <2>3. Leaves(s, 0)
    BY <1>1, <2>2 DEF Leaves
  <2>4. Covered(s, 0)
    BY <1>1 DEF Covered
  <2>5. Turn(s)
    BY <2>2, <2>3, <2>4 DEF Turn, InTurn, Scanned, Earned
  <2> QED
    BY <2>5 DEF s
<1> QED
  BY <1>2, <1>3

LEMMA StepKeepsTurn ==
    ASSUME ChainInv, TurnInv, NEW t \in Callers, Step(t) \/ Reject(t) \/ Return(t)
    PROVE  Turn(req'[t])
<1> DEFINE q == req[t]
<1>1. /\ Good(q) /\ q \in Requests /\ Turn(q) /\ settings \in Settings
      /\ req \in [Callers -> Requests]
  BY DEF ChainInv, TurnInv
<1>2. CASE PassOver(t)
  <2>1. req'[t] = [q EXCEPT !.left = Tail(@)] /\ q.pc = "scanning" /\ q.left # << >>
        /\ Head(q.left) \notin settings.keyed
    BY <1>1, <1>2 DEF PassOver, Scanning
  <2>2. /\ req'[t].pc = "scanning" /\ req'[t].left = Tail(q.left) /\ req'[t].found = q.found
        /\ req'[t].skipped = q.skipped /\ req'[t].failed = q.failed
    BY <1>1, <2>1 DEF Requests
  <2> QED
    BY <1>1, <2>1, <2>2, LookPast
<1>3. CASE Skip(t)
  <2>1. req'[t] = Skipping(q, Head(q.left)) /\ q.pc = "scanning" /\ q.left # << >>
    BY <1>1, <1>3 DEF Skip, Scanning
  <2>2. /\ req'[t].pc = "scanning" /\ req'[t].left = Tail(q.left) /\ req'[t].found = q.found
        /\ req'[t].skipped = q.skipped \cup {Head(q.left)} /\ req'[t].failed = q.failed
    BY <1>1, <2>1 DEF Requests, Skipping
  <2> QED
    BY <1>1, <2>1, <2>2, LookPast
<1>4. CASE Take(t)
  <2>1. req'[t] = Keep(q, Head(q.left)) /\ q.pc = "scanning" /\ q.left # << >>
    BY <1>1, <1>4 DEF Take, Scanning
  <2> QED
    BY <1>1, <2>1, KeepTurn
<1>5. CASE Expire(t)
  <2>1. q.pc = "expiring" /\ q.left # << >>
    BY <1>1, <1>5 DEF Expire, Good, Held
  <2>2. CASE Head(q.left) \in entries
    <3>1. req'[t] = Keep(q, Head(q.left))
      BY <1>1, <1>5, <2>2 DEF Expire
    <3> QED
      BY <1>1, <2>1, <3>1, KeepTurn
  <2>3. CASE Head(q.left) \notin entries
    <3>1. req'[t] = [q EXCEPT !.pc = "crashed"]
      BY <1>1, <1>5, <2>3 DEF Expire
    <3>2. /\ req'[t].pc = "crashed" /\ req'[t].found = q.found /\ req'[t].left = q.left
          /\ Done(req'[t]) = Done(q)
      BY <1>1, <3>1 DEF Requests, Done
    <3> QED
      BY <1>1, <3>2, SameCandidates
  <2> QED
    BY <2>2, <2>3
<1>6. CASE NoModel(t)
  BY <1>1, <1>6, DegradedTurn DEF NoModel
<1>7. CASE Reject(t)
  BY <1>1, <1>7, DegradedTurn DEF Reject
<1>8. CASE EndScan(t)
  BY <1>1, <1>8, ListedTurn DEF EndScan
<1>9. CASE SeeExpired(t) \/ Ask(t) \/ Refuse(t)
  <2>1. /\ req'[t].pc \in {"expiring", "waiting", "refused"}
        /\ req'[t].pc = "expiring" => q.pc = "scanning"
        /\ req'[t].found = q.found /\ req'[t].left = q.left
        /\ req'[t].skipped = q.skipped /\ req'[t].failed = q.failed
    BY <1>1, <1>9 DEF SeeExpired, Ask, Refuse, Scanning, Requests
  <2> QED
    BY <1>1, <2>1, SameCandidates DEF Done
<1>10. CASE Answer(t)
  <2>1. req'[t] = [q EXCEPT !.pc = "answered", !.by = Head(q.found)] /\ q.pc = "waiting"
    BY <1>1, <1>10 DEF Answer
  <2> QED
    BY <1>1, <2>1, AnswerTurn
<1>11. CASE Fail(t) \/ StartCooldown(t)
  <2>1. /\ q.pc \in {"waiting", "refused"}
        /\ \E reason : req'[t] = AfterFailure(q, reason)
    BY <1>1, <1>11 DEF Fail, StartCooldown
  <2> QED
    BY <1>1, <2>1, AfterFailureTurn
<1>12. CASE Return(t)
  <2>1. req'[t] = Idle
    BY <1>1, <1>12 DEF Return
  <2> QED
    BY <2>1 DEF Idle, Turn, InTurn, Scanned, Earned
<1> QED
  BY <1>2, <1>3, <1>4, <1>5, <1>6, <1>7, <1>8, <1>9, <1>10, <1>11, <1>12 DEF Step

LEMMA TurnInvariant == Spec => []TurnInv
<1>1. Init => TurnInv
  BY DEF Init, TurnInv, Idle, Turn, InTurn, Scanned, Earned
<1>2. ASSUME ChainInv, TurnInv, [Next]_vars
      PROVE  TurnInv'
  <2>1. UNCHANGED settings
    BY <1>2 DEF Next, Tick, Begin, Step, PassOver, NoModel, Take, Skip, SeeExpired, Expire, EndScan,
       Ask, Answer, Fail, Refuse, StartCooldown, Reject, Return, vars
  <2>2. ASSUME NEW t \in Callers, Turn(req'[t]), \A s \in Callers \ {t} : req'[s] = req[s]
        PROVE  TurnInv'
    BY <1>2, <2>1, <2>2, SameTurn DEF TurnInv
  <2>3. CASE UNCHANGED req
    BY <1>2, <2>1, <2>3, SameTurn DEF TurnInv
  <2>4. ASSUME NEW t \in Callers, NEW m \in Wanted, NEW probe \in BOOLEAN, Begin(t, m, probe)
        PROVE  TurnInv'
    <3>1. \A s \in Callers \ {t} : req'[s] = req[s]
      BY <1>2, <2>4 DEF Begin, ChainInv
    <3> QED
      BY <1>2, <2>2, <2>4, <3>1, BeginTurn
  <2>5. ASSUME NEW t \in Callers, Step(t) \/ Reject(t) \/ Return(t)
        PROVE  TurnInv'
    <3>1. \A s \in Callers \ {t} : req'[s] = req[s]
      BY <1>2, <2>5 DEF ChainInv, Step, PassOver, NoModel, Take, Skip, SeeExpired, Expire, EndScan,
         Ask, Answer, Fail, Refuse, StartCooldown, Reject, Return
    <3> QED
      BY <1>2, <2>2, <2>5, <3>1, StepKeepsTurn
  <2> QED
    BY <1>2, <2>3, <2>4, <2>5 DEF Next, Tick, vars
<1> QED
  BY <1>1, <1>2, ChainInvariant, PTL DEF Spec

(* Fallback keeps the order: whoever answers, every provider in front of   *)
(* it that has a key was cooling or failed for this request                *)
(* (_candidates_for and generate).                                         *)
THEOREM OrderIsKept == Spec => []EarlierProvidersHadTheirTurn
<1>1. TurnInv => EarlierProvidersHadTheirTurn
  BY DEF TurnInv, Turn, Earned, Done, EarlierProvidersHadTheirTurn
<1> QED
  BY <1>1, TurnInvariant, PTL
=============================================================================
