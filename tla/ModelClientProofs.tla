-------------------------- MODULE ModelClientProofs --------------------------
(***************************************************************************)
(* Proofs about ModelClient, for any agents, providers, batches, retries,  *)
(* intervals and cooldowns: a finished generation is complete, a request   *)
(* costs a bounded number of calls, and, with one slot for each provider,  *)
(* requests keep their distance.                                           *)
(***************************************************************************)
EXTENDS ModelClient, FiniteSetTheorems, TLAPS

(* What a client under way knows: a provider to ask, a batch to work on,   *)
(* all that earlier batches needed, and one scenario when asked alone.     *)
Sound(a, k) ==
    /\ k.i \in 1..Len(k.order)
    /\ k.batch \in 1..Len(Work[a])
    /\ \A b \in 1..(k.batch - 1) : Work[a][b] \subseteq k.have
    /\ k.alone => \E s \in Scenarios : k.wanted = {s}

AgentSound(a) ==
    /\ agents[a].at \notin Resting => Sound(a, agents[a])
    /\ agents[a].at \in {"calling", "queued"} => agents[a].wait = 0
    /\ agents[a].at = "done" =>
          \A b \in DOMAIN Work[a] : Work[a][b] \subseteq agents[a].have

ClientInv == TypeOK /\ \A a \in Agents : AgentSound(a)

(* What a step of agent a leaves true.                                     *)
Moved(a) ==
    /\ agents' \in [Agents -> Client]
    /\ \A b \in Agents \ {a} : agents'[b] = agents[b]
    /\ AgentSound(a)'
    /\ queue' \in [Providers -> Seq(Agents)]
    /\ since' \in [Providers -> 0..Interval]

(* Who takes a slot found it free, and sends late enough or waits.         *)
Others(a, p) == {b \in Agents \ {a} : Holds(b, p)}
Slotted(a) ==
    LET k == agents'[a]
        p == Provider(k)
    IN  \/ k.at \notin {"spacing", "calling"} /\ since' = since
        \/ /\ k.at = "calling" /\ Cardinality(Others(a, p)) < Slots
           /\ since[p] >= Interval
           /\ since' = [since EXCEPT ![p] = 0]
        \/ /\ k.at = "spacing" /\ Cardinality(Others(a, p)) < Slots
           /\ k.wait = Interval - since[p]
           /\ since' = since
Stepped(a) == Moved(a) /\ Slotted(a)

(* The request goes on, at most as it was in k.                            *)
Continues(a, k) ==
    /\ agents'[a].at \in {"queued", "spacing", "calling"}
    /\ Request(agents'[a]) = Request(k)
    /\ agents'[a].i = k.i
    /\ agents'[a].attempt = k.attempt
    /\ agents'[a].regenerated = k.regenerated
-----------------------------------------------------------------------------
LEMMA WorkTypes ==
    ASSUME NEW a \in Agents
    PROVE  /\ Len(Work[a]) \in Nat \ {0}
           /\ DOMAIN Work[a] = 1..Len(Work[a])
           /\ \A b \in 1..Len(Work[a]) : Work[a][b] \in SUBSET Scenarios
BY WorkAssumption DEF Scenarios

LEMMA IdleClient == Idle \in Client /\ [Idle EXCEPT !.at = "failed"] \in Client
<1>1. 0 \in 0..Retries
  BY ClientAssumption
<1>2. Idle \in Client
  BY <1>1 DEF Idle, Client, Places, Resting
<1> QED
  BY <1>2 DEF Client, Places, Resting

(* A provider to ask is one of Providers.                                  *)
LEMMA ProviderType ==
    ASSUME NEW k \in Client, k.i \in 1..Len(k.order)
    PROVE  Provider(k) \in Providers
BY DEF Provider, Client

LEMMA SendStep ==
    ASSUME TypeOK, NEW a \in Agents, NEW k \in Client, Sound(a, k), k.wait = 0,
           Send(a, k)
    PROVE  /\ agents' = [agents EXCEPT ![a] = [k EXCEPT !.at = "calling"]]
           /\ agents' \in [Agents -> Client]
           /\ AgentSound(a)'
           /\ since' \in [Providers -> 0..Interval]
           /\ Continues(a, k) /\ agents'[a].at = "calling"
           /\ Provider(agents'[a]) = Provider(k)
           /\ since' = [since EXCEPT ![Provider(k)] = 0]
<1> DEFINE m == [k EXCEPT !.at = "calling"]
<1>1. m \in Client /\ m.at = "calling"
  BY DEF Client, Places
<1>2. /\ m.i = k.i /\ m.order = k.order /\ m.batch = k.batch /\ m.have = k.have
      /\ m.alone = k.alone /\ m.wanted = k.wanted /\ m.wait = k.wait
      /\ m.attempt = k.attempt /\ m.regenerated = k.regenerated
  BY DEF Client
<1>3. agents' = [agents EXCEPT ![a] = m]
  BY DEF Send, Set
<1>4. agents'[a] = m /\ agents' \in [Agents -> Client]
  BY <1>1, <1>3 DEF TypeOK
<1>5. Sound(a, m)
  BY <1>2 DEF Sound
<1>6. AgentSound(a)'
  BY <1>1, <1>2, <1>4, <1>5 DEF AgentSound, Resting, Sound
<1>7. since' \in [Providers -> 0..Interval]
  BY ProviderType, ClientAssumption DEF Send, TypeOK, Sound
<1>8. Continues(a, k)
  BY <1>1, <1>2, <1>4 DEF Continues, Request
<1>9. Provider(agents'[a]) = Provider(k) /\ since' = [since EXCEPT ![Provider(k)] = 0]
  BY <1>2, <1>4 DEF Provider, Send
<1> QED
  BY <1>1, <1>3, <1>4, <1>6, <1>7, <1>8, <1>9

LEMMA HoldSlotStep ==
    ASSUME TypeOK, NEW a \in Agents, NEW k \in Client, Sound(a, k), k.wait = 0,
           Cardinality(Others(a, Provider(k))) < Slots, HoldSlot(a, k)
    PROVE  /\ agents' \in [Agents -> Client]
           /\ \A b \in Agents \ {a} : agents'[b] = agents[b]
           /\ AgentSound(a)'
           /\ since' \in [Providers -> 0..Interval]
           /\ Continues(a, k)
           /\ Slotted(a)
<1> DEFINE p == Provider(k)
           m == [k EXCEPT !.at = "spacing", !.wait = Interval - since[p]]
<1>1. CASE since[p] >= Interval
  <2>1. Send(a, k)
    BY <1>1 DEF HoldSlot
  <2> QED
    BY <1>1, <2>1, SendStep DEF TypeOK, Slotted
<1>2. CASE ~(since[p] >= Interval)
  <2>1. agents' = [agents EXCEPT ![a] = m] /\ since' = since
    BY <1>2 DEF HoldSlot, Set
  <2>2. p \in Providers
    BY ProviderType DEF Sound
  <2>3. Interval - since[p] \in Nat
    BY <1>2, <2>2, ClientAssumption DEF TypeOK
  <2>4. m \in Client /\ m.at = "spacing"
    BY <2>3 DEF Client, Places
  <2>5. /\ m.i = k.i /\ m.order = k.order /\ m.batch = k.batch /\ m.have = k.have
        /\ m.alone = k.alone /\ m.wanted = k.wanted
        /\ m.attempt = k.attempt /\ m.regenerated = k.regenerated
    BY DEF Client
  <2>6. agents'[a] = m /\ agents' \in [Agents -> Client]
    BY <2>1, <2>4 DEF TypeOK
  <2>7. AgentSound(a)'
    BY <2>4, <2>5, <2>6 DEF AgentSound, Resting, Sound
  <2>8. Continues(a, k)
    BY <2>4, <2>5, <2>6 DEF Continues, Request
  <2>9. Slotted(a)
    <3>1. Provider(m) = p /\ m.wait = Interval - since[p]
      BY <2>5 DEF Provider, Client
    <3> HIDE DEF m, p
    <3> QED
      BY <2>1, <2>4, <2>6, <3>1 DEF Slotted, p
  <2> QED
    BY <2>1, <2>6, <2>7, <2>8, <2>9 DEF TypeOK
<1> QED
  BY <1>1, <1>2

LEMMA CallStep ==
    ASSUME TypeOK, NEW a \in Agents, NEW k \in Client, Sound(a, k), k.wait = 0,
           Call(a, k)
    PROVE  Stepped(a) /\ Continues(a, k)
<1> DEFINE p == Provider(k)
           m == [k EXCEPT !.at = "queued"]
<1>1. CASE Free(p, a)
  <2>1. HoldSlot(a, k) /\ queue' = queue /\ Cardinality(Others(a, p)) < Slots
    BY <1>1 DEF Call, Free, Others
  <2> QED
    BY <2>1, HoldSlotStep DEF TypeOK, Stepped, Moved
<1>2. CASE ~Free(p, a)
  <2>1. /\ agents' = [agents EXCEPT ![a] = m] /\ since' = since
        /\ queue' = [queue EXCEPT ![p] = Append(@, a)]
    BY <1>2 DEF Call, Set
  <2>2. p \in Providers
    BY ProviderType DEF Sound
  <2>3. queue' \in [Providers -> Seq(Agents)]
    BY <2>1, <2>2 DEF TypeOK
  <2>4. m \in Client /\ m.at = "queued"
    BY DEF Client, Places
  <2>5. /\ m.i = k.i /\ m.order = k.order /\ m.batch = k.batch /\ m.have = k.have
        /\ m.alone = k.alone /\ m.wanted = k.wanted /\ m.wait = k.wait
        /\ m.attempt = k.attempt /\ m.regenerated = k.regenerated
    BY DEF Client
  <2>6. agents'[a] = m /\ agents' \in [Agents -> Client]
    BY <2>1, <2>4 DEF TypeOK
  <2>7. AgentSound(a)'
    BY <2>4, <2>5, <2>6 DEF AgentSound, Resting, Sound
  <2>8. Continues(a, k)
    BY <2>4, <2>5, <2>6 DEF Continues, Request
  <2> QED
    BY <2>1, <2>3, <2>4, <2>6, <2>7, <2>8 DEF TypeOK, Stepped, Moved, Slotted
<1> QED
  BY <1>1, <1>2

(* An agent that rests.                                                    *)
LEMMA RestStep ==
    ASSUME TypeOK, NEW a \in Agents, NEW m \in Client,
           m.at \in Resting,
           m.at = "done" => \A b \in DOMAIN Work[a] : Work[a][b] \subseteq m.have,
           Set(a, m), UNCHANGED since, queue' \in [Providers -> Seq(Agents)]
    PROVE  Stepped(a) /\ agents'[a] = m
<1>1. agents'[a] = m /\ agents' \in [Agents -> Client]
  BY DEF TypeOK, Set
<1>2. AgentSound(a)'
  BY <1>1 DEF AgentSound, Resting
<1> QED
  BY <1>1, <1>2 DEF TypeOK, Stepped, Moved, Slotted, Set, Resting

(* The generation fails.                                                   *)
Fails(a) == agents'[a] = [Idle EXCEPT !.at = "failed"]

LEMMA FailedStep ==
    ASSUME TypeOK, NEW a \in Agents, Failed(a)
    PROVE  Stepped(a) /\ Fails(a)
<1> DEFINE m == [Idle EXCEPT !.at = "failed"]
<1>1. m \in Client /\ m.at = "failed"
  BY IdleClient DEF Idle
<1>2. Set(a, m) /\ UNCHANGED since /\ queue' \in [Providers -> Seq(Agents)]
  BY DEF Failed, TypeOK
<1> QED
  BY <1>1, <1>2, RestStep DEF Resting, Fails

(* The next provider starts afresh, and is at least the one asked for.     *)
LEMMA TryFromStep ==
    ASSUME TypeOK, NEW a \in Agents, NEW k \in Client, NEW from \in Nat \ {0},
           NEW cool,
           k.batch \in 1..Len(Work[a]),
           \A b \in 1..(k.batch - 1) : Work[a][b] \subseteq k.have,
           k.alone => \E s \in Scenarios : k.wanted = {s},
           k.wait = 0, TryFrom(a, k, from, cool)
    PROVE  /\ Stepped(a)
           /\ \/ Fails(a)
              \/ \E j \in Nat : /\ j >= from
                               /\ Continues(a, [k EXCEPT !.i = j, !.attempt = 0, !.ask = "main",
                                                        !.regenerated = FALSE])
<1>1. CASE Failed(a)
  BY <1>1, FailedStep
<1>2. CASE ~Failed(a)
  <2>1. PICK j \in Later(k, from, cool) :
            Call(a, [k EXCEPT !.i = j, !.attempt = 0, !.ask = "main", !.regenerated = FALSE])
    BY <1>2 DEF TryFrom
  <2> DEFINE m == [k EXCEPT !.i = j, !.attempt = 0, !.ask = "main", !.regenerated = FALSE]
  <2>2. j \in 1..Len(k.order) /\ j >= from /\ j \in Nat
    BY DEF Later, Client
  <2>3. m \in Client /\ m.i = j
    <3>1. 0 \in 0..Retries
      BY ClientAssumption
    <3> QED
      BY <2>2, <3>1 DEF Client
  <2>4. /\ m.order = k.order /\ m.batch = k.batch /\ m.have = k.have
        /\ m.alone = k.alone /\ m.wanted = k.wanted /\ m.wait = k.wait
    BY DEF Client
  <2>5. Sound(a, m)
    BY <2>2, <2>3, <2>4 DEF Sound
  <2>6. Stepped(a) /\ Continues(a, m)
    BY <2>1, <2>3, <2>4, <2>5, CallStep
  <2> QED
    BY <2>2, <2>6
<1> QED
  BY <1>1, <1>2

(* A request begins.                                                       *)
LEMMA AskStep ==
    ASSUME TypeOK, NEW a \in Agents, NEW k \in Client,
           NEW wanted \in SUBSET Scenarios, NEW alone \in BOOLEAN,
           k.batch \in 1..Len(Work[a]),
           \A b \in 1..(k.batch - 1) : Work[a][b] \subseteq k.have,
           alone => \E s \in Scenarios : wanted = {s},
           k.wait = 0, Ask(a, k, wanted, alone)
    PROVE  /\ Stepped(a)
           /\ Fails(a) \/ Request(agents'[a]) = <<k.batch, wanted, alone>>
<1>1. PICK order \in Ordered :
          TryFrom(a, [k EXCEPT !.order = order, !.wanted = wanted, !.alone = alone], 1, cooling)
  BY DEF Ask
<1> DEFINE m == [k EXCEPT !.order = order, !.wanted = wanted, !.alone = alone]
<1>2. order \in Seq(Providers)
  BY ClientAssumption DEF Ordered
<1>3. m \in Client
  BY <1>2 DEF Client
<1>4. /\ m.batch = k.batch /\ m.have = k.have /\ m.wait = k.wait
      /\ m.alone = alone /\ m.wanted = wanted
  BY DEF Client
<1> HIDE DEF m
<1>5. /\ Stepped(a)
      /\ \/ Fails(a)
         \/ \E j \in Nat : Continues(a, [m EXCEPT !.i = j, !.attempt = 0, !.ask = "main",
                                                 !.regenerated = FALSE])
  <2>1. TryFrom(a, m, 1, cooling)
    BY <1>1 DEF m
  <2>2. m.alone => \E s \in Scenarios : m.wanted = {s}
    BY <1>4
  <2>3. 1 \in Nat \ {0}
    OBVIOUS
  <2>4. m.batch \in 1..Len(Work[a]) /\ \A b \in 1..(m.batch - 1) : Work[a][b] \subseteq m.have
    BY <1>4
  <2> QED
    BY <1>3, <1>4, <2>1, <2>2, <2>3, <2>4, TryFromStep
<1>6. ASSUME NEW j \in Nat,
             Continues(a, [m EXCEPT !.i = j, !.attempt = 0, !.ask = "main", !.regenerated = FALSE])
      PROVE  Request(agents'[a]) = <<k.batch, wanted, alone>>
  BY <1>3, <1>4, <1>6 DEF Continues, Request, Client
<1> QED
  BY <1>5, <1>6
-----------------------------------------------------------------------------
(* What an answer leaves behind: another request, or one that is further on.*)
Progress(a) ==
    \/ Request(agents'[a]) # Request(agents[a])
    \/ Effort(agents'[a]) > Effort(agents[a])

LEMMA FurtherOn ==
    ASSUME NEW i \in Nat, NEW j \in Nat, j >= i + 1, NEW t \in 0..Retries,
           NEW r \in {0, 1}
    PROVE  j * (Retries + 2) + 0 + 0 > i * (Retries + 2) + t + r
<1>1. Retries \in Nat
  BY ClientAssumption
<1>2. PICK d \in Nat : j = i + 1 + d
  <2>1. j - i - 1 \in Nat /\ j = i + 1 + (j - i - 1)
    OBVIOUS
  <2> QED
    BY <2>1
<1> DEFINE n == Retries + 2
<1>3. n \in Nat /\ t + r < n
  BY <1>1
<1> HIDE DEF n
<1>4. j * n = i * n + n + d * n
  BY <1>2, <1>3
<1>5. d * n \in Nat /\ i * n \in Nat /\ j * n \in Nat
  BY <1>3
<1> QED
  BY <1>3, <1>4, <1>5 DEF n

LEMMA FailsIsProgress ==
    ASSUME ClientInv, NEW a \in Agents, At(a, {"calling"}), Fails(a)
    PROVE  Progress(a)
<1>1. agents[a].batch \in Nat \ {0}
  BY WorkTypes DEF ClientInv, AgentSound, Sound, At, Resting
<1>2. agents'[a].batch = 0
  BY IdleClient DEF Fails, Idle
<1> QED
  BY <1>1, <1>2 DEF Progress, Request

(* The same request goes on to a later provider.                           *)
LEMMA NextProvider ==
    ASSUME ClientInv, NEW a \in Agents, At(a, {"calling"}), NEW k \in Client, NEW cool,
           k.batch = agents[a].batch, k.have = agents[a].have, k.wait = agents[a].wait,
           k.alone = agents[a].alone, k.wanted = agents[a].wanted,
           TryFrom(a, k, agents[a].i + 1, cool)
    PROVE  Stepped(a) /\ Progress(a)
<1>1. agents[a] \in Client /\ Sound(a, agents[a]) /\ agents[a].wait = 0
  BY DEF ClientInv, AgentSound, TypeOK, At, Resting
<1>2. agents[a].i \in Nat /\ agents[a].i + 1 \in Nat \ {0}
  BY <1>1 DEF Sound, Client
<1>3. /\ k.batch \in 1..Len(Work[a])
      /\ \A b \in 1..(k.batch - 1) : Work[a][b] \subseteq k.have
      /\ k.alone => \E s \in Scenarios : k.wanted = {s}
  BY <1>1 DEF Sound
<1>4. /\ Stepped(a)
      /\ \/ Fails(a)
         \/ \E j \in Nat : /\ j >= agents[a].i + 1
                          /\ Continues(a, [k EXCEPT !.i = j, !.attempt = 0, !.ask = "main",
                                                   !.regenerated = FALSE])
  BY <1>1, <1>2, <1>3, TryFromStep DEF ClientInv
<1>5. ASSUME NEW j \in Nat, j >= agents[a].i + 1,
             Continues(a, [k EXCEPT !.i = j, !.attempt = 0, !.ask = "main", !.regenerated = FALSE])
      PROVE  Progress(a)
  <2>1. agents'[a].i = j /\ agents'[a].attempt = 0 /\ agents'[a].regenerated = FALSE
    BY <1>5 DEF Continues, Client
  <2>2. agents[a].attempt \in 0..Retries
    BY <1>1 DEF Client
  <2>3. Effort(agents'[a]) = j * (Retries + 2) + 0 + 0
    BY <2>1 DEF Effort
  <2>4. \E r \in {0, 1} :
          Effort(agents[a]) = agents[a].i * (Retries + 2) + agents[a].attempt + r
    BY DEF Effort
  <2> QED
    BY <1>2, <1>5, <2>2, <2>3, <2>4, FurtherOn DEF Progress
<1> QED
  BY <1>4, <1>5, FailsIsProgress

(* The request waits before its provider is asked again.                   *)
LEMMA BackoffStep ==
    ASSUME ClientInv, NEW a \in Agents, At(a, {"calling"}), NEW delay \in Nat,
           agents[a].attempt < Retries, Backoff(a, delay)
    PROVE  Stepped(a) /\ Progress(a)
<1> DEFINE k == agents[a]
           m == [k EXCEPT !.at = "backoff", !.attempt = @ + 1, !.ask = "main", !.wait = delay]
<1>1. k \in Client /\ Sound(a, k)
  BY DEF ClientInv, AgentSound, TypeOK, At, Resting
<1>2. k.attempt + 1 \in 0..Retries /\ k.attempt \in Nat
  BY <1>1, ClientAssumption DEF Client
<1>3. m \in Client /\ m.at = "backoff"
  BY <1>1, <1>2 DEF Client, Places
<1>4. /\ m.i = k.i /\ m.order = k.order /\ m.batch = k.batch /\ m.have = k.have
      /\ m.alone = k.alone /\ m.wanted = k.wanted /\ m.attempt = k.attempt + 1
      /\ m.regenerated = k.regenerated
  BY <1>1 DEF Client
<1>5. agents' = [agents EXCEPT ![a] = m] /\ UNCHANGED <<queue, since>>
  BY DEF Backoff, Set
<1>6. agents'[a] = m /\ agents' \in [Agents -> Client]
  BY <1>3, <1>5 DEF ClientInv, TypeOK
<1>7. AgentSound(a)'
  BY <1>1, <1>3, <1>4, <1>6 DEF AgentSound, Resting, Sound
<1>8. Stepped(a)
  BY <1>3, <1>5, <1>6, <1>7 DEF Stepped, Moved, Slotted, ClientInv, TypeOK
<1>9. Effort(m) > Effort(k)
  <2> DEFINE x == k.i * (Retries + 2)
  <2>1. x \in Nat
    BY <1>1, ClientAssumption DEF Client
  <2>2. Effort(m) = x + (k.attempt + 1) + (IF k.regenerated THEN 1 ELSE 0)
    BY <1>4 DEF Effort
  <2>3. Effort(k) = x + k.attempt + (IF k.regenerated THEN 1 ELSE 0)
    BY DEF Effort
  <2> HIDE DEF x
  <2> QED
    BY <1>2, <2>1, <2>2, <2>3
<1> QED
  BY <1>6, <1>8, <1>9 DEF Progress
-----------------------------------------------------------------------------
(* Each answer is sound, and none lets a request start over.               *)
Cools == cooling' \in [Providers -> Nat]

(* What an agent knows while it waits for an answer.                       *)
LEMMA Calling ==
    ASSUME ClientInv, NEW a \in Agents, At(a, {"calling"})
    PROVE  /\ agents[a] \in Client /\ Sound(a, agents[a]) /\ agents[a].wait = 0
           /\ agents[a].batch \in 1..Len(Work[a])
           /\ agents[a].i \in 1..Len(agents[a].order)
BY DEF ClientInv, AgentSound, TypeOK, At, Resting, Sound

LEMMA AcceptedStep ==
    ASSUME ClientInv, NEW a \in Agents, NEW got \in SUBSET agents[a].wanted, Accepted(a, got)
    PROVE  Stepped(a) /\ Cools /\ Progress(a)
<1> DEFINE c == agents[a]
           k == [c EXCEPT !.have = @ \cup got]
           missing == Batch(k, a) \ k.have
<1>1. At(a, {"calling"}) /\ UNCHANGED cooling
  BY DEF Accepted
<1>2. c \in Client /\ Sound(a, c) /\ c.wait = 0 /\ c.batch \in 1..Len(Work[a])
  BY <1>1, Calling
<1>3. /\ k \in Client /\ k.have = c.have \cup got /\ k.batch = c.batch /\ k.wait = c.wait
      /\ k.alone = c.alone /\ k.wanted = c.wanted
  BY <1>2 DEF Client
<1>4. \A b \in 1..(k.batch - 1) : Work[a][b] \subseteq k.have
  BY <1>2, <1>3 DEF Sound
<1>5. Batch(k, a) = Work[a][k.batch] /\ Batch(k, a) \in SUBSET Scenarios
  BY <1>2, <1>3, WorkTypes DEF Batch
<1>6. Cools
  BY <1>1 DEF Cools, ClientInv, TypeOK
<1>7. CASE k.alone /\ got = {}
  <2>1. Failed(a)
    BY <1>7 DEF Accepted
  <2> QED
    BY <1>1, <1>6, <2>1, FailedStep, FailsIsProgress DEF ClientInv
<1>8. CASE ~(k.alone /\ got = {}) /\ missing # {}
  <2> DEFINE s == CHOOSE s \in missing : TRUE
  <2>1. Ask(a, k, {s}, TRUE)
    BY <1>8 DEF Accepted
  <2>2. s \in missing /\ s \in Scenarios
    BY <1>5, <1>8
  <2>3. Stepped(a) /\ (Fails(a) \/ Request(agents'[a]) = <<k.batch, {s}, TRUE>>)
    <3>1. \E t \in Scenarios : {s} = {t}
      BY <2>2
    <3> HIDE DEF k, s
    <3> QED
      BY <1>2, <1>3, <1>4, <2>1, <2>2, <3>1, AskStep DEF ClientInv
  <2>4. <<k.batch, {s}, TRUE>> # Request(c)
    <3>1. CASE c.alone
      <4>1. PICK t \in Scenarios : c.wanted = {t}
        BY <1>2, <3>1 DEF Sound
      <4>2. got = {t}
        BY <1>3, <1>8, <3>1, <4>1
      <4>3. s # t
        BY <1>3, <2>2, <4>2
      <4> QED
        BY <4>1, <4>3 DEF Request
    <3>2. CASE ~c.alone
      BY <1>2, <3>2 DEF Request, Client
    <3> QED
      BY <3>1, <3>2
  <2> QED
    BY <1>1, <1>6, <2>3, <2>4, FailsIsProgress DEF Progress
<1>9. CASE ~(k.alone /\ got = {}) /\ missing = {} /\ k.batch < Len(Work[a])
  <2> DEFINE m == [k EXCEPT !.batch = @ + 1]
  <2>1. Ask(a, m, Work[a][k.batch + 1], FALSE)
    BY <1>9 DEF Accepted
  <2>2. m \in Client /\ m.batch = k.batch + 1 /\ m.have = k.have /\ m.wait = k.wait
    <3>1. k.batch + 1 \in Nat
      BY <1>2, <1>3
    <3> HIDE DEF k
    <3> QED
      BY <1>3, <3>1 DEF Client
  <2>3. m.batch \in 1..Len(Work[a]) /\ Work[a][k.batch + 1] \in SUBSET Scenarios
    BY <1>2, <1>3, <1>9, <2>2, WorkTypes
  <2>4. \A b \in 1..(m.batch - 1) : Work[a][b] \subseteq m.have
    <3>1. Work[a][k.batch] \subseteq k.have
      BY <1>5, <1>9
    <3>2. \A b \in 1..(m.batch - 1) : b = k.batch \/ b \in 1..(k.batch - 1)
      BY <1>2, <1>3, <2>2
    <3> HIDE DEF k, m
    <3> QED
      BY <1>4, <2>2, <3>1, <3>2
  <2>5. Stepped(a) /\ (Fails(a) \/ Request(agents'[a]) = <<m.batch, Work[a][k.batch + 1], FALSE>>)
    <3> HIDE DEF m, k
    <3> QED
      BY <1>2, <1>3, <2>1, <2>2, <2>3, <2>4, AskStep DEF ClientInv
  <2>6. <<m.batch, Work[a][k.batch + 1], FALSE>> # Request(c)
    <3>1. m.batch # c.batch
      BY <1>2, <1>3, <2>2
    <3> HIDE DEF m, k
    <3> QED
      BY <3>1 DEF Request
  <2> QED
    BY <1>1, <1>6, <2>5, <2>6, FailsIsProgress DEF Progress
<1>10. CASE ~(k.alone /\ got = {}) /\ missing = {} /\ ~(k.batch < Len(Work[a]))
  <2> DEFINE m == [Idle EXCEPT !.at = "done", !.have = k.have]
  <2>1. Done(a, k)
    BY <1>10 DEF Accepted
  <2>2. m \in Client /\ m.at = "done" /\ m.have = k.have /\ m.batch = 0
    BY <1>3, IdleClient DEF Client, Places, Resting, Idle
  <2>3. \A b \in DOMAIN Work[a] : Work[a][b] \subseteq m.have
    <3>1. Work[a][k.batch] \subseteq k.have
      BY <1>5, <1>10
    <3>2. \A b \in DOMAIN Work[a] : b = k.batch \/ b \in 1..(k.batch - 1)
      BY <1>2, <1>3, <1>10, WorkTypes
    <3> HIDE DEF k, m
    <3> QED
      BY <1>4, <2>2, <3>1, <3>2
  <2>4. Stepped(a) /\ agents'[a] = m
    <3>1. Set(a, m) /\ UNCHANGED since /\ queue' \in [Providers -> Seq(Agents)]
      BY <2>1 DEF Done, ClientInv, TypeOK
    <3> HIDE DEF m
    <3> QED
      BY <2>2, <2>3, <3>1, RestStep DEF Resting, ClientInv
  <2>5. Progress(a)
    BY <1>2, <2>2, <2>4 DEF Progress, Request
  <2> QED
    BY <1>6, <2>4, <2>5
<1> QED
  BY <1>7, <1>8, <1>9, <1>10

LEMMA IncompleteStep ==
    ASSUME ClientInv, NEW a \in Agents, Incomplete(a)
    PROVE  Stepped(a) /\ Cools /\ Progress(a)
<1> DEFINE c == agents[a]
           m == [c EXCEPT !.ask = "regenerate", !.regenerated = TRUE]
<1>1. At(a, {"calling"}) /\ UNCHANGED cooling
  BY DEF Incomplete
<1>2. c \in Client /\ Sound(a, c) /\ c.wait = 0
  BY <1>1, Calling
<1>3. Cools
  BY <1>1 DEF Cools, ClientInv, TypeOK
<1>4. CASE c.ask = "main" /\ ~c.regenerated
  <2>1. Call(a, m)
    BY <1>4 DEF Incomplete
  <2>2. /\ m \in Client /\ m.i = c.i /\ m.order = c.order /\ m.batch = c.batch /\ m.have = c.have
        /\ m.alone = c.alone /\ m.wanted = c.wanted /\ m.attempt = c.attempt
        /\ m.regenerated = TRUE /\ m.wait = c.wait
    BY <1>2 DEF Client
  <2>3. Sound(a, m)
    BY <1>2, <2>2 DEF Sound
  <2>4. Stepped(a) /\ Continues(a, m)
    <3> HIDE DEF m
    <3> QED
      BY <1>2, <2>1, <2>2, <2>3, CallStep DEF ClientInv
  <2>5. Effort(agents'[a]) > Effort(c)
    <3> DEFINE x == c.i * (Retries + 2) + c.attempt
    <3>1. x \in Nat
      <4>1. c.i \in Nat /\ c.attempt \in Nat
        BY <1>2, ClientAssumption DEF Client
      <4>2. Retries + 2 \in Nat
        BY ClientAssumption
      <4> HIDE DEF c
      <4> QED
        BY <4>1, <4>2
    <3>2. Effort(agents'[a]) = x + 1 /\ Effort(c) = x + 0
      BY <1>4, <2>2, <2>4 DEF Effort, Continues
    <3> HIDE DEF x
    <3> QED
      BY <3>1, <3>2
  <2> QED
    BY <1>3, <2>4, <2>5 DEF Progress
<1>5. CASE ~(c.ask = "main" /\ ~c.regenerated)
  <2>1. Failed(a)
    BY <1>5 DEF Incomplete
  <2> QED
    BY <1>1, <1>3, <2>1, FailedStep, FailsIsProgress DEF ClientInv
<1> QED
  BY <1>4, <1>5

LEMMA GiveUpStep ==
    ASSUME ClientInv, NEW a \in Agents, GiveUp(a)
    PROVE  Stepped(a) /\ Cools /\ Progress(a)
BY Calling, NextProvider DEF GiveUp, Cools, ClientInv, TypeOK

LEMMA RefuseStep ==
    ASSUME ClientInv, NEW a \in Agents, Refuse(a)
    PROVE  Stepped(a) /\ Cools /\ Progress(a)
BY FailedStep, FailsIsProgress DEF Refuse, Cools, ClientInv, TypeOK

LEMMA UnavailableStep ==
    ASSUME ClientInv, NEW a \in Agents, Unavailable(a)
    PROVE  Stepped(a) /\ Cools /\ Progress(a)
<1> DEFINE c == agents[a]
           p == Provider(c)
           m == [c EXCEPT !.bad = @ \cup {p}]
           cool == [cooling EXCEPT ![p] = IF Cooldown > 0 THEN Cooldown ELSE @]
<1>1. At(a, {"calling"}) /\ cooling' = cool /\ TryFrom(a, m, c.i + 1, cool)
  BY DEF Unavailable
<1>2. c \in Client /\ Sound(a, c) /\ c.wait = 0 /\ p \in Providers
  BY <1>1, Calling, ProviderType
<1>3. /\ m \in Client /\ m.batch = c.batch /\ m.have = c.have /\ m.wait = c.wait
      /\ m.alone = c.alone /\ m.wanted = c.wanted
  BY <1>2 DEF Client
<1>4. Cools
  BY <1>1, <1>2, ClientAssumption DEF Cools, ClientInv, TypeOK
<1>5. Stepped(a) /\ Progress(a)
  <2> HIDE DEF m, cool
  <2> QED
    BY <1>1, <1>3, NextProvider
<1> QED
  BY <1>4, <1>5

LEMMA DelayType ==
    ASSUME NEW a \in Agents, agents[a] \in Client
    PROVE  Delay(a) \in Nat
BY BackoffAssumption DEF Delay, Client

LEMMA TemporaryStep ==
    ASSUME ClientInv, NEW a \in Agents, Temporary(a)
    PROVE  Stepped(a) /\ Cools /\ Progress(a)
<1>1. At(a, {"calling"}) /\ agents[a] \in Client /\ Delay(a) \in Nat
  BY Calling, DelayType DEF Temporary
<1>2. CASE agents[a].attempt < Retries
  <2>1. Backoff(a, Delay(a)) /\ UNCHANGED cooling
    BY <1>2 DEF Temporary, Backoff
  <2> QED
    BY <1>1, <1>2, <2>1, BackoffStep DEF Cools, ClientInv, TypeOK
<1>3. CASE ~(agents[a].attempt < Retries)
  <2>1. TryFrom(a, agents[a], agents[a].i + 1, cooling) /\ UNCHANGED cooling
    BY <1>3 DEF Temporary
  <2> QED
    BY <1>1, <2>1, NextProvider DEF Cools, ClientInv, TypeOK
<1> QED
  BY <1>2, <1>3

LEMMA LimitedStep ==
    ASSUME ClientInv, NEW a \in Agents, NEW after \in RetryAfters, Limited(a, after)
    PROVE  Stepped(a) /\ Cools /\ Progress(a)
<1> DEFINE c == agents[a]
           p == Provider(c)
<1>1. /\ At(a, {"calling"}) /\ c \in Client /\ Sound(a, c) /\ p \in Providers
      /\ Delay(a) \in Nat /\ after \in Nat
  BY Calling, ProviderType, DelayType, ClientAssumption DEF Limited
<1>2. CASE c.attempt >= Retries
  <2>1. TryFrom(a, c, c.i + 1, cooling) /\ UNCHANGED cooling
    BY <1>2 DEF Limited
  <2> QED
    BY <1>1, <2>1, NextProvider DEF Cools, ClientInv, TypeOK
<1>3. CASE ~(c.attempt >= Retries) /\ after > Threshold /\ Later(c, c.i + 1, cooling) # {}
  <2>1. cooling' = [cooling EXCEPT ![p] = after] /\ TryFrom(a, c, c.i + 1, cooling')
    BY <1>3 DEF Limited
  <2>2. Cools
    BY <1>1, <2>1 DEF Cools, ClientInv, TypeOK
  <2> QED
    BY <1>1, <2>1, <2>2, NextProvider
<1>4. CASE /\ ~(c.attempt >= Retries)
           /\ ~(after > Threshold /\ Later(c, c.i + 1, cooling) # {})
  <2> DEFINE delay == IF after > Delay(a) THEN after ELSE Delay(a)
  <2>1. Backoff(a, delay)
    BY <1>4 DEF Limited
  <2>2. delay \in Nat /\ c.attempt < Retries
    BY <1>1, <1>4, ClientAssumption DEF Client
  <2>3. UNCHANGED cooling
    BY <2>1 DEF Backoff
  <2> HIDE DEF delay
  <2> QED
    BY <1>1, <2>1, <2>2, <2>3, BackoffStep DEF Cools, ClientInv, TypeOK
<1> QED
  BY <1>2, <1>3, <1>4
-----------------------------------------------------------------------------
(* The other steps of an agent.                                            *)
LEMMA StartStep ==
    ASSUME ClientInv, NEW a \in Agents, Start(a)
    PROVE  Stepped(a) /\ Cools
<1> DEFINE k == [Idle EXCEPT !.batch = 1]
<1>1. Ask(a, k, Work[a][1], FALSE) /\ UNCHANGED cooling
  BY DEF Start
<1>2. k \in Client /\ k.batch = 1 /\ k.wait = 0
  BY IdleClient DEF Client, Idle
<1>3. Work[a][1] \in SUBSET Scenarios /\ 1 \in 1..Len(Work[a])
  BY WorkTypes
<1>4. 1..(k.batch - 1) = {}
  BY <1>2
<1> HIDE DEF k
<1>5. Stepped(a)
  BY <1>1, <1>2, <1>3, <1>4, AskStep DEF ClientInv
<1> QED
  BY <1>1, <1>5 DEF Cools, ClientInv, TypeOK

LEMMA WithoutType ==
    ASSUME NEW waiting \in Seq(Agents), NEW a
    PROVE  Without(waiting, a) \in Seq(Agents)
<1>1. CASE \E i \in DOMAIN waiting : waiting[i] = a
  <2> DEFINE i == CHOOSE i \in DOMAIN waiting : waiting[i] = a
  <2>1. i \in 1..Len(waiting)
    BY <1>1
  <2> HIDE DEF i
  <2>2. SubSeq(waiting, 1, i - 1) \in Seq(Agents)
    BY <2>1
  <2>3. SubSeq(waiting, i + 1, Len(waiting)) \in Seq(Agents)
    BY <2>1
  <2> QED
    BY <1>1, <2>2, <2>3 DEF Without, i
<1> QED
  BY <1>1 DEF Without

LEMMA CancelStep ==
    ASSUME ClientInv, NEW a \in Agents, Cancel(a)
    PROVE  Stepped(a) /\ Cools /\ Fails(a)
<1> DEFINE m == [Idle EXCEPT !.at = "failed"]
<1>1. m \in Client /\ m.at = "failed"
  BY IdleClient DEF Idle
<1>2. queue' \in [Providers -> Seq(Agents)]
  <2>1. \A p \in Providers : Without(queue[p], a) \in Seq(Agents)
    BY WithoutType DEF ClientInv, TypeOK
  <2> QED
    BY <2>1 DEF Cancel
<1>3. Set(a, m) /\ UNCHANGED <<since, cooling>>
  BY DEF Cancel
<1> HIDE DEF m
<1>4. Stepped(a) /\ agents'[a] = m
  BY <1>1, <1>2, <1>3, RestStep DEF Resting, ClientInv
<1> QED
  BY <1>3, <1>4 DEF m, Fails, Cools, ClientInv, TypeOK

LEMMA AcquireStep ==
    ASSUME ClientInv, NEW a \in Agents, Acquire(a)
    PROVE  Stepped(a) /\ Cools
<1> DEFINE k == agents[a]
           p == Provider(k)
<1>1. /\ At(a, {"queued"}) /\ queue[p] # <<>>
      /\ Cardinality({b \in Agents : Holds(b, p)}) < Slots
      /\ queue' = [queue EXCEPT ![p] = Tail(@)]
      /\ HoldSlot(a, k) /\ UNCHANGED cooling
  BY DEF Acquire
<1>2. k \in Client /\ Sound(a, k) /\ k.wait = 0
  BY <1>1 DEF ClientInv, AgentSound, TypeOK, At, Resting
<1>3. p \in Providers
  BY <1>2, ProviderType DEF Sound
<1>4. queue' \in [Providers -> Seq(Agents)]
  <2>1. queue[p] \in Seq(Agents)
    BY <1>3 DEF ClientInv, TypeOK
  <2>2. Tail(queue[p]) \in Seq(Agents)
    BY <1>1, <2>1
  <2> QED
    BY <1>1, <2>2 DEF ClientInv, TypeOK
<1>5. Cardinality(Others(a, p)) < Slots
  <2>1. Others(a, p) = {b \in Agents : Holds(b, p)}
    BY <1>1 DEF Others, Holds, At
  <2> QED
    BY <1>1, <2>1
<1>6. Moved(a) /\ Slotted(a)
  BY <1>1, <1>2, <1>4, <1>5, HoldSlotStep DEF Moved, ClientInv
<1> QED
  BY <1>1, <1>6 DEF Stepped, Cools, ClientInv, TypeOK

(* Here that nobody else holds the slot, and that the interval is over, is *)
(* known from the step that took it.                                       *)
LEMMA SpacedStep ==
    ASSUME ClientInv, NEW a \in Agents, Spaced(a)
    PROVE  /\ Moved(a) /\ Cools
           /\ At(a, {"spacing"}) /\ agents[a].wait = 0
           /\ Provider(agents[a]) \in Providers
           /\ agents'[a].at = "calling" /\ Provider(agents'[a]) = Provider(agents[a])
           /\ since' = [since EXCEPT ![Provider(agents[a])] = 0]
<1> DEFINE k == agents[a]
<1>1. At(a, {"spacing"}) /\ k.wait = 0 /\ Send(a, k) /\ UNCHANGED <<queue, cooling>>
  BY DEF Spaced
<1>2. k \in Client /\ Sound(a, k)
  BY <1>1 DEF ClientInv, AgentSound, TypeOK, At, Resting
<1>3. Provider(k) \in Providers
  BY <1>2, ProviderType DEF Sound
<1>4. Moved(a) /\ agents'[a].at = "calling" /\ Provider(agents'[a]) = Provider(k)
      /\ since' = [since EXCEPT ![Provider(k)] = 0]
  BY <1>1, <1>2, SendStep DEF Moved, ClientInv, TypeOK
<1> QED
  BY <1>1, <1>3, <1>4 DEF Cools, ClientInv, TypeOK

LEMMA RetryStep ==
    ASSUME ClientInv, NEW a \in Agents, Retry(a)
    PROVE  Stepped(a) /\ Cools
<1>1. At(a, {"backoff"}) /\ agents[a].wait = 0 /\ Call(a, agents[a]) /\ UNCHANGED cooling
  BY DEF Retry
<1>2. agents[a] \in Client /\ Sound(a, agents[a])
  BY <1>1 DEF ClientInv, AgentSound, TypeOK, At, Resting
<1> QED
  BY <1>1, <1>2, CallStep DEF Cools, ClientInv, TypeOK

LEMMA AnswerStep ==
    ASSUME ClientInv, NEW a \in Agents, Answer(a)
    PROVE  Stepped(a) /\ Cools /\ Progress(a)
BY AcceptedStep, IncompleteStep, GiveUpStep, RefuseStep, UnavailableStep, TemporaryStep,
   LimitedStep DEF Answer

(* Time passes: nothing but the clocks changes.                            *)
LEMMA TickStep ==
    ASSUME ClientInv, Tick
    PROVE  /\ ClientInv'
           /\ \A a \in Agents :
                /\ agents'[a] = [agents[a] EXCEPT !.wait = IF @ > 0 THEN @ - 1 ELSE 0]
                /\ agents[a].wait = 0 => agents'[a] = agents[a]
<1>1. ASSUME NEW k \in Client
      PROVE  /\ [k EXCEPT !.wait = IF @ > 0 THEN @ - 1 ELSE 0] \in Client
             /\ k.wait = 0 => [k EXCEPT !.wait = IF @ > 0 THEN @ - 1 ELSE 0] = k
  BY DEF Client
<1>2. \A a \in Agents :
         agents'[a] = [agents[a] EXCEPT !.wait = IF @ > 0 THEN @ - 1 ELSE 0]
  BY DEF Tick
<1>3. TypeOK'
  <2>1. agents' \in [Agents -> Client]
    BY <1>1 DEF Tick, ClientInv, TypeOK
  <2>2. since' \in [Providers -> 0..Interval] /\ cooling' \in [Providers -> Nat]
    <3>1. \A n \in 0..Interval : (IF n < Interval THEN n + 1 ELSE Interval) \in 0..Interval
      BY ClientAssumption
    <3>2. \A n \in Nat : (IF n > 0 THEN n - 1 ELSE 0) \in Nat
      OBVIOUS
    <3> QED
      BY <3>1, <3>2 DEF Tick, ClientInv, TypeOK
  <2> QED
    BY <2>1, <2>2 DEF Tick, ClientInv, TypeOK
<1>4. ASSUME NEW a \in Agents
      PROVE  AgentSound(a)'
  <2> DEFINE k == agents[a]
             m == [k EXCEPT !.wait = IF @ > 0 THEN @ - 1 ELSE 0]
  <2>1. k \in Client /\ agents'[a] = m
    BY <1>2 DEF ClientInv, TypeOK
  <2>2. /\ m.at = k.at /\ m.i = k.i /\ m.order = k.order /\ m.batch = k.batch
        /\ m.have = k.have /\ m.alone = k.alone /\ m.wanted = k.wanted
        /\ k.wait = 0 => m.wait = 0
    BY <2>1 DEF Client
  <2> HIDE DEF m
  <2>3. AgentSound(a)
    BY DEF ClientInv
  <2> QED
    BY <2>1, <2>2, <2>3 DEF AgentSound, Sound
<1>5. \A a \in Agents : agents[a].wait = 0 => agents'[a] = agents[a]
  BY <1>1, <1>2 DEF ClientInv, TypeOK
<1> QED
  BY <1>2, <1>3, <1>4, <1>5 DEF ClientInv
-----------------------------------------------------------------------------
LEMMA MovedInv ==
    ASSUME ClientInv, NEW a \in Agents, Moved(a), Cools
    PROVE  ClientInv'
<1>1. TypeOK'
  BY DEF Moved, Cools, TypeOK
<1>2. \A b \in Agents \ {a} : AgentSound(b)'
  BY DEF Moved, ClientInv, AgentSound, Sound
<1> QED
  BY <1>1, <1>2 DEF Moved, ClientInv

LEMMA InitClientInv == Init => ClientInv
<1> SUFFICES ASSUME Init PROVE ClientInv
  OBVIOUS
<1>1. TypeOK
  BY IdleClient, ClientAssumption DEF Init, TypeOK
<1>2. \A a \in Agents : AgentSound(a)
  BY DEF Init, Idle, AgentSound, Resting
<1> QED
  BY <1>1, <1>2 DEF ClientInv

LEMMA NextClientInv == ClientInv /\ [Next]_vars => ClientInv'
<1> SUFFICES ASSUME ClientInv, [Next]_vars PROVE ClientInv'
  OBVIOUS
<1>1. CASE Tick
  BY <1>1, TickStep
<1>2. ASSUME NEW a \in Agents, Start(a) \/ Cancel(a) \/ AgentStep(a)
      PROVE  ClientInv'
  <2>1. Moved(a) /\ Cools
    BY <1>2, StartStep, CancelStep, AcquireStep, SpacedStep, RetryStep, AnswerStep
       DEF AgentStep, Stepped
  <2> QED
    BY <2>1, MovedInv
<1>3. CASE UNCHANGED vars
  BY <1>3 DEF vars, ClientInv, TypeOK, AgentSound, Sound
<1> QED
  BY <1>1, <1>2, <1>3 DEF Next

THEOREM ClientInvariant == Spec => []ClientInv
BY InitClientInv, NextClientInv, PTL DEF Spec

(* Generations and registries have their types.                            *)
THEOREM ClientTypes == Spec => []TypeOK
<1>1. ClientInv => TypeOK
  BY DEF ClientInv
<1> QED
  BY <1>1, ClientInvariant, PTL

(* A finished generation is complete: every earlier batch was, before the  *)
(* next one was begun.  (TestCaseGenerationAgent.run)                      *)
THEOREM CompleteWhenDone == Spec => []RunsComplete
<1>1. ClientInv => RunsComplete
  BY DEF ClientInv, AgentSound, RunsComplete, At
<1> QED
  BY <1>1, ClientInvariant, PTL

(* A request never starts over: every call of it is further on than the    *)
(* one before.  (generate_structured_output)                               *)
Further(a) ==
    /\ At(a, {"calling"})
    /\ Request(agents'[a]) = Request(agents[a]) /\ agents'[a] # agents[a]
    => Effort(agents'[a]) > Effort(agents[a])

THEOREM RequestsAdvance == Spec => CallsBounded
<1>1. ASSUME ClientInv, [Next]_vars, NEW a \in Agents
      PROVE  Further(a)
  <2>1. CASE Tick
    BY <1>1, <2>1, TickStep, Calling DEF Further
  <2>2. CASE UNCHANGED vars
    BY <2>2 DEF vars, Further
  <2>3. ASSUME NEW b \in Agents, Start(b) \/ Cancel(b) \/ AgentStep(b)
        PROVE  Further(a)
    <3>1. CASE b # a
      <4>1. Moved(b)
        BY <1>1, <2>3, StartStep, CancelStep, AcquireStep, SpacedStep, RetryStep, AnswerStep
           DEF AgentStep, Stepped
      <4> QED
        BY <3>1, <4>1 DEF Moved, Further
    <3>2. CASE b = a /\ At(a, {"calling"})
      <4>1. Answer(a) \/ Cancel(a)
        BY <2>3, <3>2 DEF AgentStep, Start, Acquire, Spaced, Retry, At
      <4>2. Progress(a)
        BY <1>1, <3>2, <4>1, AnswerStep, CancelStep, FailsIsProgress
      <4> QED
        BY <4>2 DEF Progress, Further
    <3> QED
      BY <3>1, <3>2 DEF Further
  <2> QED
    BY <1>1, <2>1, <2>2, <2>3 DEF Next
<1>2. ClientInv /\ [Next]_vars =>
        [\A a \in Agents :
          /\ At(a, {"calling"})
          /\ Request(agents'[a]) = Request(agents[a]) /\ agents'[a] # agents[a]
          => Effort(agents'[a]) > Effort(agents[a])]_vars
  BY <1>1 DEF Further
<1> QED
  BY <1>2, ClientInvariant, PTL DEF Spec, CallsBounded
-----------------------------------------------------------------------------
(* With one slot for each provider, a waiting request waits until the      *)
(* interval is over: nobody can send, and restart it, meanwhile.           *)
OneHolder ==
    \A a, b \in Agents, p \in Providers : Holds(a, p) /\ Holds(b, p) => a = b
WaitsLongEnough ==
    \A a \in Agents : At(a, {"spacing"}) =>
        since[Provider(agents[a])] + agents[a].wait >= Interval
SpacingInv == OneHolder /\ WaitsLongEnough

LEMMA NobodyElse ==
    ASSUME Slots = 1, NEW a \in Agents, NEW p, Cardinality(Others(a, p)) < Slots
    PROVE  \A b \in Agents : b # a => ~Holds(b, p)
<1>1. IsFiniteSet(Others(a, p))
  <2>1. Others(a, p) \subseteq Agents
    BY DEF Others
  <2> QED
    BY <2>1, ClientAssumption, FS_Subset
<1>2. Cardinality(Others(a, p)) = 0
  BY <1>1, FS_CardinalityType
<1>3. Others(a, p) = {}
  BY <1>1, <1>2, FS_EmptySet
<1> QED
  BY <1>3 DEF Others

(* What any step does to the slot of a provider.                           *)
Takes(a) ==
    LET k == agents'[a]
        p == Provider(k)
    IN  \/ k.at \notin {"spacing", "calling"} /\ since' = since
        \/ /\ k.at = "calling" /\ since[p] >= Interval /\ since' = [since EXCEPT ![p] = 0]
           /\ \A b \in Agents : b # a => ~Holds(b, p)
        \/ /\ k.at = "spacing" /\ k.wait = Interval - since[p] /\ since' = since
           /\ \A b \in Agents : b # a => ~Holds(b, p)

LEMMA StepTakes ==
    ASSUME Slots = 1, ClientInv, SpacingInv, NEW a \in Agents,
           Start(a) \/ Cancel(a) \/ AgentStep(a)
    PROVE  Moved(a) /\ Takes(a)
<1>1. CASE Stepped(a)
  <2>1. Moved(a) /\ Slotted(a)
    BY <1>1 DEF Stepped
  <2>2. Cardinality(Others(a, Provider(agents'[a]))) < Slots
            => \A b \in Agents : b # a => ~Holds(b, Provider(agents'[a]))
    BY NobodyElse
  <2> QED
    BY <2>1, <2>2 DEF Slotted, Takes
<1>2. CASE Spaced(a)
  <2> DEFINE p == Provider(agents[a])
  <2>1. /\ Moved(a) /\ At(a, {"spacing"}) /\ agents[a].wait = 0 /\ p \in Providers
        /\ agents'[a].at = "calling" /\ Provider(agents'[a]) = p
        /\ since' = [since EXCEPT ![p] = 0]
    BY <1>2, SpacedStep
  <2>2. since[p] >= Interval
    BY <2>1, ClientAssumption DEF SpacingInv, WaitsLongEnough, ClientInv, TypeOK
  <2>3. \A b \in Agents : b # a => ~Holds(b, p)
    BY <2>1 DEF SpacingInv, OneHolder, Holds, At
  <2> QED
    BY <2>1, <2>2, <2>3 DEF Takes
<1> QED
  BY <1>1, <1>2, StartStep, CancelStep, AcquireStep, RetryStep, AnswerStep DEF AgentStep

LEMMA HolderType ==
    ASSUME ClientInv, NEW b \in Agents, At(b, {"spacing", "calling"})
    PROVE  Provider(agents[b]) \in Providers
<1>1. agents[b] \in Client /\ Sound(b, agents[b])
  BY DEF ClientInv, AgentSound, TypeOK, At, Resting
<1> QED
  BY <1>1, ProviderType DEF Sound

LEMMA TakesSpacing ==
    ASSUME ClientInv, SpacingInv, NEW a \in Agents, Moved(a), Takes(a)
    PROVE  SpacingInv'
<1> DEFINE p == Provider(agents'[a])
<1>1. \A b \in Agents : b # a => agents'[b] = agents[b]
  BY DEF Moved
<1>2. \A b \in Agents, q \in Providers : b # a => (Holds(b, q)' <=> Holds(b, q))
  BY <1>1 DEF Holds, At
<1>3. \A b \in Agents, q \in Providers :
         b # a /\ Holds(b, q)' /\ Holds(a, q)' => FALSE
  BY <1>2 DEF Takes, Holds, At
<1>4. OneHolder'
  BY <1>2, <1>3 DEF OneHolder, SpacingInv
<1>5. ASSUME NEW b \in Agents, At(b, {"spacing"})', b # a
      PROVE  since'[Provider(agents'[b])] + agents'[b].wait >= Interval
  <2> DEFINE q == Provider(agents[b])
  <2>1. At(b, {"spacing"}) /\ agents'[b] = agents[b]
    BY <1>1, <1>5 DEF At
  <2>2. q \in Providers /\ Holds(b, q)
    BY <2>1, HolderType DEF Holds, At
  <2>3. since'[q] = since[q]
    BY <1>5, <2>2 DEF Takes, ClientInv, TypeOK
  <2> QED
    BY <2>1, <2>3 DEF SpacingInv, WaitsLongEnough
<1>6. ASSUME At(a, {"spacing"})'
      PROVE  since'[p] + agents'[a].wait >= Interval
  <2>1. agents'[a].wait = Interval - since[p] /\ since' = since
    BY <1>6 DEF Takes, At
  <2>2. p \in Providers
    <3>1. agents'[a] \in Client /\ Sound(a, agents'[a])
      BY <1>6 DEF Moved, AgentSound, Sound, At, Resting
    <3> QED
      BY <3>1, ProviderType DEF Sound
  <2> QED
    BY <2>1, <2>2, ClientAssumption DEF ClientInv, TypeOK
<1>7. WaitsLongEnough'
  BY <1>5, <1>6 DEF WaitsLongEnough
<1> QED
  BY <1>4, <1>7 DEF SpacingInv

LEMMA TickSpacing ==
    ASSUME ClientInv, SpacingInv, Tick
    PROVE  SpacingInv'
<1>1. ASSUME NEW a \in Agents
      PROVE  /\ agents'[a].at = agents[a].at
             /\ Provider(agents'[a]) = Provider(agents[a])
             /\ agents'[a].wait = IF agents[a].wait > 0 THEN agents[a].wait - 1 ELSE 0
  <2>1. agents[a] \in Client
    BY DEF ClientInv, TypeOK
  <2>2. agents'[a] = [agents[a] EXCEPT !.wait = IF @ > 0 THEN @ - 1 ELSE 0]
    BY TickStep
  <2> QED
    BY <2>1, <2>2 DEF Client, Provider
<1>2. OneHolder'
  BY <1>1 DEF SpacingInv, OneHolder, Holds, At
<1>3. ASSUME NEW a \in Agents, At(a, {"spacing"})'
      PROVE  since'[Provider(agents[a])] + agents'[a].wait >= Interval
  <2> DEFINE p == Provider(agents[a])
  <2>1. At(a, {"spacing"}) /\ p \in Providers
    BY <1>1, <1>3, HolderType DEF At
  <2>2. /\ since'[p] = IF since[p] < Interval THEN since[p] + 1 ELSE Interval
        /\ since[p] \in 0..Interval /\ agents[a].wait \in Nat
    BY <2>1 DEF Tick, ClientInv, TypeOK, Client
  <2>3. since[p] + agents[a].wait >= Interval
    BY <2>1 DEF SpacingInv, WaitsLongEnough
  <2>4. agents'[a].wait = IF agents[a].wait > 0 THEN agents[a].wait - 1 ELSE 0
    BY <1>1
  <2>5. \A s \in 0..Interval, w \in Nat : s + w >= Interval =>
            (IF s < Interval THEN s + 1 ELSE Interval) + (IF w > 0 THEN w - 1 ELSE 0) >= Interval
    BY ClientAssumption
  <2> QED
    BY <2>2, <2>3, <2>4, <2>5
<1>4. WaitsLongEnough'
  BY <1>1, <1>3 DEF WaitsLongEnough
<1> QED
  BY <1>2, <1>4 DEF SpacingInv

(* With one slot, requests to a provider are an interval apart.  (_call)   *)
THEOREM RequestsSpaced == Slots = 1 => (Spec => SpacingKept)
<1> SUFFICES ASSUME Slots = 1 PROVE Spec => SpacingKept
  OBVIOUS
<1> DEFINE Both == ClientInv /\ SpacingInv
           Apart == \A a \in Agents, p \in Providers : Sends(a, p) => since[p] >= Interval
<1>1. Init => Both
  <2>1. Init => SpacingInv
    BY DEF Init, Idle, SpacingInv, OneHolder, WaitsLongEnough, Holds, At
  <2> QED
    BY <2>1, InitClientInv
<1>2. ASSUME Both, [Next]_vars
      PROVE  Both' /\ (Apart \/ UNCHANGED vars)
  <2>1. ClientInv'
    BY <1>2, NextClientInv
  <2>2. CASE Tick
    <3>1. ASSUME NEW a \in Agents, agents'[a].at = "calling"
          PROVE  agents'[a] = agents[a]
      <4>1. agents[a] \in Client
        BY <1>2 DEF ClientInv, TypeOK
      <4>2. agents'[a] = [agents[a] EXCEPT !.wait = IF @ > 0 THEN @ - 1 ELSE 0]
        BY <1>2, <2>2, TickStep
      <4>3. At(a, {"calling"})
        BY <3>1, <4>1, <4>2 DEF Client, At
      <4> QED
        BY <1>2, <2>2, <4>3, TickStep, Calling
    <3> QED
      BY <1>2, <2>1, <2>2, <3>1, TickSpacing DEF Sends
  <2>3. ASSUME NEW a \in Agents, Start(a) \/ Cancel(a) \/ AgentStep(a)
        PROVE  SpacingInv' /\ Apart
    <3>1. Moved(a) /\ Takes(a)
      BY <1>2, <2>3, StepTakes
    <3>2. Apart
      BY <3>1 DEF Moved, Takes, Sends
    <3> QED
      BY <1>2, <3>1, <3>2, TakesSpacing
  <2>4. CASE UNCHANGED vars
    BY <1>2, <2>1, <2>4 DEF vars, SpacingInv, OneHolder, WaitsLongEnough, Holds, At
  <2> QED
    BY <1>2, <2>1, <2>2, <2>3, <2>4 DEF Next
<1> HIDE DEF Both
<1>3. Both /\ [Next]_vars => Both' /\ [Apart]_vars
  BY <1>2
<1>4. Spec => [][Apart]_vars
  BY <1>1, <1>3, PTL DEF Spec
<1> QED
  BY <1>4, PTL DEF SpacingKept
=============================================================================
