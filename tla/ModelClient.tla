---------------------------- MODULE ModelClient ----------------------------
(***************************************************************************)
(* The language-model client of Test-Case-Generation, under the agent that *)
(* generates test cases.  Agents of several workflows run in one event     *)
(* loop, each with a client of its own; all the clients share, for each    *)
(* provider, a semaphore, the time of its last request and the deadline    *)
(* until which it counts as unavailable.  Time passes in ticks.            *)
(***************************************************************************)
EXTENDS Integers, Sequences, FiniteSets

CONSTANTS Agents,
          Providers,
          Listed,        \* sequence: the configured order of the providers
          Work,          \* per agent, the sequence of its batches of scenarios
          Slots,         \* groq_max_concurrent_requests
          Interval,      \* groq_min_request_interval_seconds
          Cooldown,      \* groq_quota_cooldown_seconds
          Retries,       \* llm_provider_retry_count
          Threshold,     \* llm_rate_limit_fallback_threshold_seconds
          RetryAfters    \* what a rate limit asks to wait; 0 for nothing

ASSUME ClientAssumption ==
    /\ IsFiniteSet(Agents)
    /\ Slots \in Nat \ {0}
    /\ {Interval, Cooldown, Retries, Threshold} \subseteq Nat
    /\ RetryAfters \subseteq Nat
    /\ Listed \in Seq(Providers) /\ Listed # <<>>
ASSUME WorkAssumption ==
    \A a \in Agents : Len(Work[a]) \in Nat \ {0} /\ DOMAIN Work[a] = 1..Len(Work[a])
ASSUME BackoffAssumption == \A n \in 0..Retries : 2 ^ n \in Nat

VARIABLES
    agents,   \* per agent, its position, its client and its request
    queue,    \* per provider, the agents that wait for its semaphore
    since,    \* per provider, the time since its last request, up to Interval
    cooling   \* per provider, how long it still counts as unavailable

vars == <<agents, queue, since, cooling>>

Resting == {"idle", "done", "failed"}
Idle == [at |-> "idle", batch |-> 0, have |-> {}, wanted |-> {}, alone |-> FALSE,
         bad |-> {}, order |-> <<>>, i |-> 0, attempt |-> 0, ask |-> "main",
         regenerated |-> FALSE, wait |-> 0]
Init ==
    /\ agents = [a \in Agents |-> Idle]
    /\ queue = [p \in Providers |-> <<>>]
    /\ since = [p \in Providers |-> Interval]
    /\ cooling = [p \in Providers |-> 0]

At(a, places) == agents[a].at \in places
Provider(k) == k.order[k.i]
Holds(a, p) == At(a, {"spacing", "calling"}) /\ Provider(agents[a]) = p
Free(p, a) ==
    /\ Cardinality({b \in Agents \ {a} : Holds(b, p)}) < Slots
    /\ queue[p] = <<>>
Set(a, k) == agents' = [agents EXCEPT ![a] = k]

(* The request leaves: its time is what the next one keeps a distance to.  *)
Send(a, k) ==
    /\ Set(a, [k EXCEPT !.at = "calling"])
    /\ since' = [since EXCEPT ![Provider(k)] = 0]

(* For a mutant: the distance is not kept.                                 *)
HoldSlotUnspaced(a, k) == Send(a, k)

(* With the semaphore in hand: at once, or after the rest of the interval. *)
HoldSlot(a, k) ==
    IF since[Provider(k)] >= Interval THEN Send(a, k)
    ELSE /\ Set(a, [k EXCEPT !.at = "spacing", !.wait = Interval - since[Provider(k)]])
         /\ UNCHANGED since

(* _call: a free semaphore is taken without a suspension.                  *)
Call(a, k) ==
    IF Free(Provider(k), a) THEN HoldSlot(a, k) /\ UNCHANGED queue
    ELSE /\ Set(a, [k EXCEPT !.at = "queued"])
         /\ queue' = [queue EXCEPT ![Provider(k)] = Append(@, a)]
         /\ UNCHANGED since

Failed(a) == Set(a, [Idle EXCEPT !.at = "failed"]) /\ UNCHANGED <<queue, since>>
Done(a, k) == Set(a, [Idle EXCEPT !.at = "done", !.have = k.have]) /\ UNCHANGED <<queue, since>>

(* The first provider from the i-th on that neither this client nor the    *)
(* process counts as unavailable; without one the generation fails.        *)
Later(k, from, cool) ==
    {j \in from..Len(k.order) : k.order[j] \notin k.bad /\ cool[k.order[j]] = 0}
TryFrom(a, k, from, cool) ==
    LET open == Later(k, from, cool)
    IN  \/ open = {} /\ Failed(a)
        \/ \E j \in open :
              /\ \A l \in open : j <= l
              /\ Call(a, [k EXCEPT !.i = j, !.attempt = 0, !.ask = "main",
                                   !.regenerated = FALSE])

(* generate_structured_output: the providers by how soon they may be asked *)
SpacingDelay(p) == Interval - since[p]
Place(p) == CHOOSE j \in DOMAIN Listed : Listed[j] = p
Sooner(p, q) ==
    \/ SpacingDelay(p) < SpacingDelay(q)
    \/ SpacingDelay(p) = SpacingDelay(q) /\ Place(p) <= Place(q)
Ordered ==
    {s \in [1..Len(Listed) -> Providers] :
        \A i, j \in DOMAIN s : i < j => s[i] # s[j] /\ Sooner(s[i], s[j])}
Ask(a, k, wanted, alone) ==
    \E order \in Ordered :
        TryFrom(a, [k EXCEPT !.order = order, !.wanted = wanted, !.alone = alone],
                1, cooling)
-----------------------------------------------------------------------------
(* run: a new client, and the first batch of the scenarios.                *)
Start(a) ==
    /\ At(a, {"idle"})
    /\ Ask(a, [Idle EXCEPT !.batch = 1], Work[a][1], FALSE)
    /\ UNCHANGED cooling

Without(waiting, a) ==
    IF \E i \in DOMAIN waiting : waiting[i] = a
    THEN LET i == CHOOSE i \in DOMAIN waiting : waiting[i] = a
         IN  SubSeq(waiting, 1, i - 1) \o SubSeq(waiting, i + 1, Len(waiting))
    ELSE waiting

(* Cancellation of the workflow reaches the agent where it waits.          *)
Cancel(a) ==
    /\ ~At(a, Resting)
    /\ queue' = [p \in Providers |-> Without(queue[p], a)]
    /\ Set(a, [Idle EXCEPT !.at = "failed"])
    /\ UNCHANGED <<since, cooling>>

Acquire(a) ==
    LET p == Provider(agents[a])
    IN  /\ At(a, {"queued"})
        /\ queue[p] # <<>> /\ Head(queue[p]) = a
        /\ Cardinality({b \in Agents : Holds(b, p)}) < Slots
        /\ queue' = [queue EXCEPT ![p] = Tail(@)]
        /\ HoldSlot(a, agents[a])
        /\ UNCHANGED cooling

Spaced(a) ==
    /\ At(a, {"spacing"}) /\ agents[a].wait = 0
    /\ Send(a, agents[a])
    /\ UNCHANGED <<queue, cooling>>

(* The sleep before a retry is over: the same provider is asked again,     *)
(* whatever happened to it meanwhile.                                      *)
Retry(a) ==
    /\ At(a, {"backoff"}) /\ agents[a].wait = 0
    /\ Call(a, agents[a])
    /\ UNCHANGED cooling
-----------------------------------------------------------------------------
(* An accepted answer holds cases for some of the scenarios it was asked   *)
(* for: a model leaves some out, and malformed items were removed.         *)
Batch(k, a) == Work[a][k.batch]

(* For a mutant: what a batch leaves out is not asked for again.           *)
AcceptedAsIs(a, got) ==
    LET k == [agents[a] EXCEPT !.have = @ \cup got]
    IN  /\ At(a, {"calling"})
        /\ IF k.batch < Len(Work[a])
           THEN Ask(a, [k EXCEPT !.batch = @ + 1], Work[a][k.batch + 1], FALSE)
           ELSE Done(a, k)
        /\ UNCHANGED cooling

Accepted(a, got) ==
    LET k == [agents[a] EXCEPT !.have = @ \cup got]
        missing == Batch(k, a) \ k.have
    IN  /\ At(a, {"calling"})
        /\ got \subseteq k.wanted
        /\ IF k.alone /\ got = {}
           THEN Failed(a)        \* asked for alone, and still missing
           ELSE IF missing # {}
           THEN Ask(a, k, {CHOOSE s \in missing : TRUE}, TRUE)
           ELSE IF k.batch < Len(Work[a])
           THEN Ask(a, [k EXCEPT !.batch = @ + 1], Work[a][k.batch + 1], FALSE)
           ELSE Done(a, k)
        /\ UNCHANGED cooling

(* Mandatory fields are missing: regenerated once.                         *)
Incomplete(a) ==
    /\ At(a, {"calling"})
    /\ IF agents[a].ask = "main" /\ ~agents[a].regenerated
       THEN Call(a, [agents[a] EXCEPT !.ask = "regenerate", !.regenerated = TRUE])
       ELSE Failed(a)
    /\ UNCHANGED cooling

(* No JSON, an empty answer, a timeout or an error nobody retries: the     *)
(* next provider.  (A repair by the model is off by default.)              *)
GiveUp(a) ==
    /\ At(a, {"calling"})
    /\ TryFrom(a, agents[a], agents[a].i + 1, cooling)
    /\ UNCHANGED cooling

(* Another mismatch with the schema, an invalid request: no other provider *)
(* is asked.                                                               *)
Refuse(a) ==
    /\ At(a, {"calling"})
    /\ Failed(a)
    /\ UNCHANGED cooling

(* Credentials, quota or model: unavailable for this client, and for all   *)
(* of them while it cools down.                                            *)
Unavailable(a) ==
    LET p == Provider(agents[a])
        cool == [cooling EXCEPT ![p] = IF Cooldown > 0 THEN Cooldown ELSE @]
    IN  /\ At(a, {"calling"})
        /\ cooling' = cool
        /\ TryFrom(a, [agents[a] EXCEPT !.bad = @ \cup {p}], agents[a].i + 1, cool)

(* For a mutant: a retry is not counted.                                   *)
BackoffUncounted(a, delay) ==
    /\ Set(a, [agents[a] EXCEPT !.at = "backoff", !.ask = "main", !.wait = delay])
    /\ UNCHANGED <<queue, since, cooling>>

Backoff(a, delay) ==
    /\ Set(a, [agents[a] EXCEPT !.at = "backoff", !.attempt = @ + 1, !.ask = "main",
                                !.wait = delay])
    /\ UNCHANGED <<queue, since, cooling>>
Delay(a) == 2 ^ agents[a].attempt

Temporary(a) ==
    /\ At(a, {"calling"})
    /\ IF agents[a].attempt < Retries THEN Backoff(a, Delay(a))
       ELSE TryFrom(a, agents[a], agents[a].i + 1, cooling) /\ UNCHANGED cooling

(* A rate limit: a long one makes way for a later provider, a short one    *)
(* is waited out.                                                          *)
Limited(a, after) ==
    LET k == agents[a]
        p == Provider(k)
    IN  /\ At(a, {"calling"})
        /\ IF k.attempt >= Retries
           THEN TryFrom(a, k, k.i + 1, cooling) /\ UNCHANGED cooling
           ELSE IF after > Threshold /\ Later(k, k.i + 1, cooling) # {}
           THEN /\ cooling' = [cooling EXCEPT ![p] = after]
                /\ TryFrom(a, k, k.i + 1, cooling')
           ELSE Backoff(a, IF after > Delay(a) THEN after ELSE Delay(a))

Tick ==
    /\ since' = [p \in Providers |-> IF since[p] < Interval THEN since[p] + 1 ELSE Interval]
    /\ cooling' = [p \in Providers |-> IF cooling[p] > 0 THEN cooling[p] - 1 ELSE 0]
    /\ agents' = [a \in Agents |-> [agents[a] EXCEPT !.wait = IF @ > 0 THEN @ - 1 ELSE 0]]
    /\ UNCHANGED queue

Answer(a) ==
    \/ \E got \in SUBSET agents[a].wanted : Accepted(a, got)
    \/ Incomplete(a) \/ GiveUp(a) \/ Refuse(a)
    \/ Unavailable(a) \/ Temporary(a)
    \/ \E after \in RetryAfters : Limited(a, after)

AgentStep(a) == Acquire(a) \/ Spaced(a) \/ Retry(a) \/ Answer(a)

Next ==
    \/ \E a \in Agents : Start(a) \/ Cancel(a) \/ AgentStep(a)
    \/ Tick

(* A call is answered or times out; the loop runs what is ready.           *)
Spec == Init /\ [][Next]_vars /\ WF_vars(Tick) /\ WF_vars(\E a \in Agents : AgentStep(a))
-----------------------------------------------------------------------------
(* Types of the generations and of the shared registries.                  *)
Scenarios == UNION {UNION {Work[a][b] : b \in DOMAIN Work[a]} : a \in Agents}
Places == Resting \cup {"queued", "spacing", "calling", "backoff"}
Client == [at : Places, batch : Nat, have : SUBSET Scenarios, wanted : SUBSET Scenarios,
           alone : BOOLEAN, bad : SUBSET Providers, order : Seq(Providers), i : Nat,
           attempt : 0..Retries, ask : {"main", "regenerate"}, regenerated : BOOLEAN,
           wait : Nat]
TypeOK ==
    /\ agents \in [Agents -> Client]
    /\ queue \in [Providers -> Seq(Agents)]
    /\ since \in [Providers -> 0..Interval]
    /\ cooling \in [Providers -> Nat]

(* Two requests to a provider are an interval apart, whichever workflows   *)
(* send them, retry or are cancelled.  (_call)                             *)
Sends(a, p) ==
    /\ agents'[a].at = "calling" /\ agents'[a] # agents[a]
    /\ Provider(agents'[a]) = p
SpacingKept ==
    [][\A a \in Agents, p \in Providers : Sends(a, p) => since[p] >= Interval]_vars

(* One request costs at most Len(Listed) * (Retries + 2) calls, with its    *)
(* retries, regenerations and failovers: each call is further on than the  *)
(* one before.  (generate_structured_output)                               *)
Request(k) == <<k.batch, k.wanted, k.alone>>
Effort(k) ==
    k.i * (Retries + 2) + k.attempt + (IF k.regenerated THEN 1 ELSE 0)
CallsBounded ==
    [][\A a \in Agents :
        /\ At(a, {"calling"})
        /\ Request(agents'[a]) = Request(agents[a]) /\ agents'[a] # agents[a]
        => Effort(agents'[a]) > Effort(agents[a])]_vars

(* A finished generation has a test case for every scenario, whatever the  *)
(* answers left out.  (TestCaseGenerationAgent.run)                        *)
RunsComplete ==
    \A a \in Agents : At(a, {"done"}) =>
        \A b \in DOMAIN Work[a] : Work[a][b] \subseteq agents[a].have

(* Every generation ends: nobody waits for a slot for ever.                *)
RequestsEnd == \A a \in Agents : ~At(a, Resting) ~> At(a, Resting)
=============================================================================
