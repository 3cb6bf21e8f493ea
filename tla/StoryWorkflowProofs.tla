------------------------- MODULE StoryWorkflowProofs -------------------------
(***************************************************************************)
(* Proofs about StoryWorkflow for any requests, artifacts, verdicts,       *)
(* budgets and faults: what may be cached, what COMPLETED means, how the   *)
(* artifact histories are numbered, and what requests that do not overlap  *)
(* leave behind.  A document is copied from a request to a version, from   *)
(* there to Redis and into the next request, so the invariant speaks of    *)
(* every copy there is, and of what a request holding one does next.       *)
(***************************************************************************)
EXTENDS StoryWorkflow, FiniteSetTheorems, TLAPS

----------------------------------------------------------------------------
(* The documents.                                                          *)

Snapshots(s, i) == {h \in s.history : h.id = i}

\* The snapshots of an artifact are numbered 1 to n, each number given once.
NumberedUpTo(H, n) ==
    /\ {h.version : h \in H} = 1..n
    /\ \A g, h \in H : g.version = h.version => g = h

Numbered(s) ==
    \A i \in Epics \cup Stories : \E n \in Nat : NumberedUpTo(Snapshots(s, i), n)

\* A snapshot of an epic is a wording, one of a story is a story.
StoryTexts == [text : Texts, tries : Nat]
ContentsFit(s) ==
    \A h \in s.history : /\ h.id \in Epics => h.content \in Wordings
                         /\ h.id \in Stories => h.content \in StoryTexts

WellJudged(s) ==
    s.status = "COMPLETED" =>
        \/ s.verdict = "passed" /\ s.stories # None
        \/ s.final /\ ~ShouldRetry(s, s.verdict)

\* The documents that the program makes.
Sound == {s \in Documents : ContentsFit(s) /\ Numbered(s) /\ WellJudged(s)}

----------------------------------------------------------------------------
(* The requests.                                                           *)

Reads  == {"cache", "db", "refresh"}
Writes == {"version", "commit", "publish"}
IOs    == {"none", "plan", "warm", "share"} \cup Reads \cup Writes

\* The stages that start from a document just read, and those that go on with
\* the copy that was just saved.
FreshStages == {"opening", "modify", "merge", "retry", "undo", "approve", "get",
                "regenerate", "closing", "failing"}
HeldStages  == {"node", "finish", "record", "close", "share"}
QuietStages == {"undo", "approve", "get", "regenerate", "share"}
Stages == FreshStages \cup HeldStages \cup {"idle", "done", "epic", "restart"}

Afters == {"none", "cache"}
Errs   == {"done", "fail", "ignore", "restart"}

Requests ==
    [op : Ops, stage : Stages, io : IOs,
     after : Afters, err : Errs,
     mine : Sound \cup {NoState}, base : Sound \cup {NoState},
     view : [Epics -> Wordings] \cup {None}, ver : Nat, node : 0..(Planning + 3),
     again : BOOLEAN, said : Statuses \ {"COMPLETED"}, broken : BOOLEAN]

\* A read, or a write that a read follows, leads to a fresh stage and is not
\* passed over when it fails; after a write there is always more to write.
ReadsFirst(r) ==
    /\ r.io \in Reads => r.stage \in FreshStages /\ r.err \in {"done", "fail"}
    /\ r.io \in Writes /\ r.after = "cache" =>
          r.stage \in {"modify", "merge", "failing"} /\ r.err \in {"done", "fail"}

\* A write that no read follows goes on with the copy it wrote.
GoesOn(r) ==
    (r.io \in Writes /\ r.after = "none") => r.stage \in HeldStages \cup {"done"}

\* What the stages that use a copy rely on.
Holding(r) ==
    /\ r.io \in Writes \cup {"refresh", "plan", "warm"} => r.mine \in Sound
    /\ r.stage \in {"node", "finish"} \/ r.err = "restart" => r.base \in Sound
    /\ r.err = "ignore" /\ r.io \in Writes => r.stage \in {"node", "finish"}
    /\ r.stage = "node" => r.node # End
    /\ r.io = "commit" => r.ver # 0
    /\ r.io \in {"plan", "warm"} => r.stage = "regenerate"
    /\ r.io = "share" => r.stage = "share"
    /\ r.io = "none" => r.stage \in {"idle", "done"}

\* No handler ends on RUNNING: the human review follows a verdict that asks
\* for it, a run that finished has a final status, and so has a response.
Concludes(r) ==
    /\ r.stage = "node" /\ r.node = HumanReview => r.mine.review /\ ~r.mine.final
    /\ r.stage = "finish" /\ r.op = "start" => r.mine.status # "RUNNING"
    /\ r.stage = "closing" => r.said # "RUNNING"

Fit(r) == r \in Requests /\ ReadsFirst(r) /\ GoesOn(r) /\ Holding(r) /\ Concludes(r)

\* The copies in flight that are published next are committed.
Published == {v.state : v \in rows}
FromRows(r) == r.io \in {"refresh", "publish"} => r.mine \in Published

----------------------------------------------------------------------------
(* The inductive invariants.                                               *)

\* If there are versions then there is a newest one, so that the next number
\* is above all of them.
Topped == rows # {} => Newest(rows) # {}

TypeInv ==
    /\ \A v \in rows : v \in [version : Nat \ {0}, state : Sound]
    /\ cache \in Sound \cup {NoState}
    /\ planCache \in [Epics -> Wordings] \cup {None}
    /\ req \in [Agents -> Requests]
    /\ clean \in BOOLEAN
    /\ \A a \in Agents : Fit(req[a])
    /\ Topped

CacheInv == CacheCommitted /\ \A a \in Agents : FromRows(req[a])

\* What a request in flight finds and leaves when requests come one at a time.
Leaves(r) ==
    /\ r.io \in Writes /\ r.stage \in {"done", "share"} => r.mine.status # "RUNNING"
    /\ r.io \in {"plan", "warm"} => r.mine.status # "RUNNING"

Quiet == \A v \in Newest(rows) : v.state.status # "RUNNING"

Finds(r) ==
    /\ r.io \in {"refresh", "publish"} => \A v \in Newest(rows) : v.state = r.mine
    /\ r.io = "commit" => \A v \in rows : v.version < r.ver
    /\ r.io \in Reads \cup {"plan", "warm", "share"} /\ r.stage \in QuietStages => Quiet

CacheLatest == \A v \in Newest(rows) : cache \in {NoState, v.state}

OneAtATime ==
    /\ \A a, b \in Agents : InFlight(a) /\ InFlight(b) => a = b
    /\ \A v, w \in Newest(rows) : v = w
    /\ \A a \in Agents : ~req[a].broken /\ Leaves(req[a]) /\ Finds(req[a])
    /\ (\A a \in Agents : req[a].io # "publish") => CacheLatest
    /\ (\A a \in Agents : ~InFlight(a)) => Quiet

SerialInv == clean => OneAtATime

StoryInv == TypeInv /\ CacheInv /\ SerialInv

----------------------------------------------------------------------------
(* Lemmas: what the operations make of a document.                         *)

LEMMA NoneIsEmpty == DOMAIN None = {}
  BY DEF None

\* The versions of a numbered history count it.
LEMMA NumberedCount ==
  ASSUME NEW H, NEW n \in Nat, NumberedUpTo(H, n)
  PROVE  Cardinality(H) = n
<1> DEFINE f == [k \in 1..n |-> CHOOSE h \in H : h.version = k]
<1>1. \A k \in 1..n : f[k] \in H /\ f[k].version = k
  BY DEF NumberedUpTo
<1>2. \A h \in H : h.version \in 1..n /\ f[h.version] = h
  BY <1>1 DEF NumberedUpTo
<1>3. f \in Bijection(1..n, H)
  <2>1. f \in [1..n -> H]
    BY <1>1
  <2>2. f \in Injection(1..n, H)
    BY <1>1, <2>1 DEF Injection, IsInjective
  <2>3. f \in Surjection(1..n, H)
    BY <1>2, <2>1 DEF Surjection
  <2> QED BY <2>2, <2>3 DEF Bijection
<1> QED BY <1>3, FS_CountingElements DEF ExistsBijection

\* A document that differs from a sound one in other fields than its history
\* is sound if its own status is.
LEMMA SameHistory ==
  ASSUME NEW s \in Sound, NEW t \in Documents, t.history = s.history, WellJudged(t)
  PROVE  t \in Sound
<1>1. ContentsFit(t)
  BY DEF Sound, ContentsFit
<1>2. Numbered(t)
  BY DEF Sound, Numbered, Snapshots
<1> QED BY <1>1, <1>2 DEF Sound

LEMMA SoundFields ==
  ASSUME NEW s \in Sound
  PROVE  /\ s \in Documents
         /\ s.plan \in 0..Planning
         /\ s.epics \in [Epics -> Wordings] \cup {None}
         /\ s.stories \in [Stories -> StoryTexts] \cup {None}
         /\ s.history \subseteq Versions
         /\ s.status \in Statuses /\ s.review \in BOOLEAN
BY DEF Sound, Documents, StoryTexts

LEMMA BlankIsSound == Blank \in Sound
<1>1. Blank \in Documents
  BY StoryAssumption DEF Blank, Documents, Statuses
<1>2. ContentsFit(Blank)
  BY DEF ContentsFit, Blank
<1>3. Numbered(Blank)
  <2>1. \A i : Snapshots(Blank, i) = {}
    BY DEF Snapshots, Blank
  <2>2. NumberedUpTo({}, 0)
    BY DEF NumberedUpTo
  <2> QED BY <2>1, <2>2 DEF Numbered
<1>4. WellJudged(Blank)
  BY DEF WellJudged, Blank
<1> QED BY <1>1, <1>2, <1>3, <1>4 DEF Sound

LEMMA InitialIsSound ==
  ASSUME NEW max \in Budgets \cup {DefaultRetries}, NEW final \in BOOLEAN
  PROVE  Initial(max, final) \in Sound /\ Initial(max, final).history = {}
<1>0. Blank \in Documents /\ Blank.status = "PENDING"
  BY BlankIsSound, SoundFields DEF Blank
<1>1. Initial(max, final) \in Documents
  BY <1>0 DEF Initial, Documents
<1>2. Initial(max, final).history = Blank.history /\ Blank.history = {}
  BY <1>0 DEF Initial, Documents, Blank
<1>3. WellJudged(Initial(max, final))
  BY <1>0 DEF WellJudged, Initial, Documents
<1> QED BY <1>1, <1>2, <1>3, BlankIsSound, SameHistory

\* A status other than COMPLETED may be recorded at any time.
LEMMA Restated ==
  ASSUME NEW s \in Sound, NEW st \in Statuses \ {"COMPLETED"}
  PROVE  /\ [s EXCEPT !.status = st] \in Sound
         /\ [s EXCEPT !.status = st].status = st
<1>1. [s EXCEPT !.status = st] \in Documents
  BY SoundFields DEF Documents
<1>2. [s EXCEPT !.status = st].history = s.history
  BY SoundFields DEF Documents
<1>3. [s EXCEPT !.status = st].status = st
  BY SoundFields DEF Documents
<1>4. WellJudged([s EXCEPT !.status = st])
  BY <1>3 DEF WellJudged
<1> QED BY <1>1, <1>2, <1>3, <1>4, SameHistory

\* A node's output, recorded with the status RUNNING.
LEMMA OutputIsSound ==
  ASSUME NEW s \in Sound, NEW plan \in 0..Planning,
         NEW epics \in [Epics -> Wordings] \cup {None},
         NEW stories \in [Stories -> StoryTexts] \cup {None},
         NEW max \in Budgets \cup {DefaultRetries}
  PROVE  /\ [s EXCEPT !.status = "RUNNING", !.plan = plan, !.epics = epics] \in Sound
         /\ [s EXCEPT !.status = "RUNNING", !.stories = stories] \in Sound
         /\ [s EXCEPT !.status = "RUNNING", !.max = max, !.plan = plan,
                      !.epics = epics, !.stories = stories] \in Sound
<1> DEFINE t == [s EXCEPT !.status = "RUNNING", !.plan = plan, !.epics = epics]
           u == [s EXCEPT !.status = "RUNNING", !.stories = stories]
           v == [s EXCEPT !.status = "RUNNING", !.max = max, !.plan = plan,
                          !.epics = epics, !.stories = stories]
<1>1. t \in Documents /\ u \in Documents /\ v \in Documents
  BY SoundFields DEF Documents, Statuses, StoryTexts
<1>2. t.history = s.history /\ u.history = s.history /\ v.history = s.history
  BY SoundFields DEF Documents
<1>3. t.status = "RUNNING" /\ u.status = "RUNNING" /\ v.status = "RUNNING"
  BY SoundFields DEF Documents
<1>4. WellJudged(t) /\ WellJudged(u) /\ WellJudged(v)
  BY <1>3 DEF WellJudged
<1> QED BY <1>1, <1>2, <1>4, SameHistory

\* The validation completes a workflow only on a verdict that allows it.
LEMMA JudgedIsSound ==
  ASSUME NEW s \in Sound, NEW verdict \in Verdicts,
         verdict = "passed" => s.stories # None
  PROVE  /\ Judged(s, verdict) \in Sound
         /\ AfterValidation(Judged(s, verdict)) \in {StoryGeneration, HumanReview, End}
         /\ AfterValidation(Judged(s, verdict)) = HumanReview =>
               Judged(s, verdict).review /\ ~Judged(s, verdict).final
         /\ AfterValidation(Judged(s, verdict)) = End =>
               Judged(s, verdict).status # "RUNNING"
<1> DEFINE j == [s EXCEPT !.verdict = verdict, !.review = FALSE]
           k == Judged(s, verdict)
<1>0. s \in Documents
  BY DEF Sound
<1>1. k \in Documents /\ k.history = s.history
  <2>1. verdict \in Verdicts \cup {"none"}
    OBVIOUS
  <2>2. j \in Documents
    BY <1>0, <2>1 DEF Documents
  <2>3. j.history = s.history /\ j.retries \in Nat
    BY <1>0 DEF Documents
  <2>4. j.retries + 1 \in Nat
    BY <2>3
  <2>5. ASSUME NEW st \in Statuses
        PROVE  /\ [j EXCEPT !.status = st] \in Documents
               /\ [j EXCEPT !.status = st].history = s.history
    BY <2>2, <2>3 DEF Documents
  <2>6. ASSUME NEW st \in Statuses, NEW b \in BOOLEAN
        PROVE  /\ [j EXCEPT !.status = st, !.review = b] \in Documents
               /\ [j EXCEPT !.status = st, !.review = b].history = s.history
    BY <2>2, <2>3 DEF Documents
  <2>7. ASSUME NEW st \in Statuses
        PROVE  /\ [j EXCEPT !.status = st, !.retries = @ + 1] \in Documents
               /\ [j EXCEPT !.status = st, !.retries = @ + 1].history = s.history
    BY <2>2, <2>3, <2>4 DEF Documents
  <2> QED BY <2>5, <2>6, <2>7 DEF Judged, Statuses
<1>2. WellJudged(k)
  BY <1>0 DEF Judged, WellJudged, ShouldRetry, Documents
<1>3. k.status \in {"COMPLETED", "RETRY_REQUIRED", "REVIEW_REQUIRED"}
  BY <1>0 DEF Judged, Documents
<1>4. k.status = "REVIEW_REQUIRED" => k.review /\ ~k.final
  BY <1>0 DEF Judged, Documents
<1>5. k \in Sound
  BY <1>1, <1>2, SameHistory
<1>6. HumanReview # End /\ StoryGeneration # End /\ HumanReview # StoryGeneration
  BY StoryAssumption DEF HumanReview, StoryGeneration, End
<1>7. AfterValidation(k) \in {StoryGeneration, HumanReview, End}
  BY DEF AfterValidation
<1>8. AfterValidation(k) = HumanReview => k.status = "REVIEW_REQUIRED"
  BY <1>6 DEF AfterValidation
<1> QED BY <1>3, <1>4, <1>5, <1>7, <1>8

LEMMA ReviewedIsSound ==
  ASSUME NEW s \in Sound, s.review, ~s.final
  PROVE  LET t == [s EXCEPT !.status = IF s.review /\ ~s.final THEN "REVIEW_REQUIRED"
                                       ELSE "RUNNING"]
         IN  t \in Sound /\ t.status = "REVIEW_REQUIRED"
BY Restated DEF Statuses

\* Contents that fit the identifiers they are recorded for.
Fitting(contents) ==
    \A i \in DOMAIN contents :
        /\ i \in Epics \cup Stories
        /\ i \in Epics => contents[i] \in Wordings
        /\ i \in Stories => contents[i] \in StoryTexts

\* A record gives every artifact concerned the next number.
LEMMA RecordIsSound ==
  ASSUME NEW s \in Sound, NEW contents, Fitting(contents)
  PROVE  /\ Record(s, contents) \in Sound
         /\ Record(s, contents).status = s.status
         /\ Record(s, contents).epics = s.epics
         /\ Record(s, contents).stories = s.stories
<1> DEFINE next(i) == 1 + Cardinality({v \in s.history : v.id = i})
           entry(i) == [id |-> i, content |-> contents[i], version |-> next(i)]
           added == {entry(i) : i \in DOMAIN contents}
           t == Record(s, contents)
<1>0. s \in Documents
  BY DEF Sound
<1>1. t = [s EXCEPT !.history = s.history \cup added]
  BY DEF Record
<1>2. \A i \in Epics \cup Stories : \E n \in Nat :
          NumberedUpTo(Snapshots(s, i), n) /\ next(i) = n + 1
  <2> SUFFICES ASSUME NEW i \in Epics \cup Stories
               PROVE  \E n \in Nat : NumberedUpTo(Snapshots(s, i), n) /\ next(i) = n + 1
    OBVIOUS
  <2>1. PICK n \in Nat : NumberedUpTo(Snapshots(s, i), n)
    BY DEF Sound, Numbered
  <2>2. Cardinality(Snapshots(s, i)) = n
    BY <2>1, NumberedCount
  <2>3. Snapshots(s, i) = {v \in s.history : v.id = i}
    BY DEF Snapshots
  <2>4. next(i) = 1 + n
    BY <2>2, <2>3
  <2> HIDE DEF next
  <2>5. next(i) = n + 1
    BY <2>4
  <2> QED BY <2>1, <2>5
<1>a. \A i : entry(i).id = i /\ entry(i).content = contents[i] /\ entry(i).version = next(i)
  BY Zenon
<1>3. added \subseteq Versions
  <2> SUFFICES ASSUME NEW i \in DOMAIN contents PROVE entry(i) \in Versions
    OBVIOUS
  <2>1. i \in Epics \cup Stories /\ next(i) \in Nat \ {0}
    BY <1>2 DEF Fitting
  <2>2. contents[i] \in Wordings \cup [text : Texts, tries : Nat]
    BY <2>1 DEF Fitting, StoryTexts
  <2> HIDE DEF next
  <2> QED BY <2>1, <2>2 DEF Versions
<1>4. s.history \cup added \in SUBSET Versions
  BY <1>0, <1>3, SoundFields
<1>5. t \in Documents
  BY <1>0, <1>1, <1>4 DEF Documents
<1>6. /\ t.history = s.history \cup added
      /\ t.status = s.status /\ t.epics = s.epics /\ t.stories = s.stories
      /\ t.verdict = s.verdict /\ t.final = s.final
      /\ t.retries = s.retries /\ t.max = s.max
  BY <1>0, <1>1 DEF Documents
<1>7. ContentsFit(t)
  <2>1. \A h \in added : /\ h.id \in Epics => h.content \in Wordings
                         /\ h.id \in Stories => h.content \in StoryTexts
    <3> HIDE DEF entry
    <3> QED BY <1>a DEF Fitting
  <2> QED BY <1>6, <2>1 DEF ContentsFit, Sound
<1>8. Numbered(t)
  <2> SUFFICES ASSUME NEW i \in Epics \cup Stories
               PROVE  \E n \in Nat : NumberedUpTo(Snapshots(t, i), n)
    BY DEF Numbered
  <2>1. PICK n \in Nat : NumberedUpTo(Snapshots(s, i), n) /\ next(i) = n + 1
    BY <1>2
  <2>2. CASE i \in DOMAIN contents
    <3>1. Snapshots(t, i) = Snapshots(s, i) \cup {entry(i)}
      <4> HIDE DEF entry
      <4> QED BY <1>6, <1>a, <2>2 DEF Snapshots
    <3>2. entry(i).version = n + 1
      BY <2>1
    <3>3. \A h \in Snapshots(s, i) : h.version \in 1..n
      BY <2>1 DEF NumberedUpTo
    <3>4. n + 1 \in Nat /\ 1..(n + 1) = 1..n \cup {n + 1} /\ n + 1 \notin 1..n
      OBVIOUS
    <3>5. {h.version : h \in Snapshots(t, i)} = 1..(n + 1)
      <4>1. {h.version : h \in Snapshots(t, i)}
              = {h.version : h \in Snapshots(s, i)} \cup {entry(i).version}
        BY <3>1
      <4> QED BY <4>1, <2>1, <3>2, <3>4 DEF NumberedUpTo
    <3>6. \A g, h \in Snapshots(t, i) : g.version = h.version => g = h
      <4> HIDE DEF entry
      <4> QED BY <3>1, <3>2, <3>3, <3>4, <2>1 DEF NumberedUpTo
    <3> QED BY <3>4, <3>5, <3>6 DEF NumberedUpTo
  <2>3. CASE i \notin DOMAIN contents
    <3>1. Snapshots(t, i) = Snapshots(s, i)
      <4> HIDE DEF entry
      <4> QED BY <1>6, <1>a, <2>3 DEF Snapshots
    <3> QED BY <2>1, <3>1
  <2> QED BY <2>2, <2>3
<1>9. WellJudged(t)
  BY <1>6 DEF WellJudged, Sound, ShouldRetry
<1> QED BY <1>5, <1>6, <1>7, <1>8, <1>9 DEF Sound

LEMMA PutFits ==
  ASSUME NEW A, NEW B, NEW f \in [A -> B] \cup {None}, NEW i \in DOMAIN f, NEW x \in B
  PROVE  Put(f, i, x) \in [A -> B] /\ f \in [A -> B] /\ i \in A
<1>1. f \in [A -> B] /\ i \in A
  BY NoneIsEmpty
<1>2. DOMAIN f \cup {i} = A
  BY <1>1
<1> QED BY <1>1, <1>2 DEF Put

LEMMA PutIsThere == \A f, i, x : Put(f, i, x) # None
<1> SUFFICES ASSUME NEW f, NEW i, NEW x, Put(f, i, x) = None PROVE FALSE
  OBVIOUS
<1>1. i \in DOMAIN Put(f, i, x)
  BY DEF Put
<1> QED BY <1>1, NoneIsEmpty

\* After an undo the snapshots of the artifact are numbered up to the one put
\* back.
LEMMA UndoneIsSound ==
  ASSUME NEW s \in Sound, NEW v \in s.history
  PROVE  Undone(s, v) \in Sound /\ Undone(s, v).status = s.status
<1> DEFINE t == Undone(s, v)
           epics == IF v.id \in DOMAIN s.epics THEN Put(s.epics, v.id, v.content) ELSE s.epics
           stories == IF v.id \in DOMAIN s.stories
                      THEN Put(s.stories, v.id, v.content) ELSE s.stories
           history == {h \in s.history : h.id = v.id => h.version <= v.version}
<1>0. s \in Documents /\ v \in Versions
  BY SoundFields
<1>1. epics \in [Epics -> Wordings] \cup {None}
  <2>1. CASE v.id \in DOMAIN s.epics
    <3>1. s.epics \in [Epics -> Wordings] \cup {None}
      BY SoundFields
    <3>2. v.id \in Epics
      BY <2>1, <3>1, NoneIsEmpty
    <3>3. v.content \in Wordings
      BY <3>2 DEF Sound, ContentsFit
    <3> QED BY <2>1, <3>1, <3>3, PutFits
  <2> QED BY <2>1, SoundFields
<1>2. /\ stories \in [Stories -> StoryTexts] \cup {None}
      /\ s.stories # None => stories # None
  <2>1. CASE v.id \in DOMAIN s.stories
    <3>1. s.stories \in [Stories -> StoryTexts] \cup {None}
      BY SoundFields
    <3>2. v.id \in Stories
      BY <2>1, <3>1, NoneIsEmpty
    <3>3. v.content \in StoryTexts
      BY <3>2 DEF Sound, ContentsFit
    <3>4. Put(s.stories, v.id, v.content) \in [Stories -> StoryTexts]
      BY <2>1, <3>1, <3>3, PutFits
    <3> QED BY <2>1, <3>4, PutIsThere
  <2> QED BY <2>1, SoundFields
<1>3. history \in SUBSET Versions
  BY SoundFields
<1>4. t = [[[s EXCEPT !.epics = epics] EXCEPT !.stories = stories] EXCEPT !.history = history]
  BY <1>0 DEF Undone, Documents
<1> HIDE DEF epics, stories, history
<1>5. t \in Documents
  BY <1>0, <1>1, <1>2, <1>3, <1>4 DEF Documents, StoryTexts
<1>6. /\ t.history = history /\ t.stories = stories
      /\ t.status = s.status
      /\ t.verdict = s.verdict /\ t.final = s.final
      /\ t.retries = s.retries /\ t.max = s.max
  BY <1>0, <1>4 DEF Documents
<1> USE DEF epics, stories, history
<1>7. ContentsFit(t)
  BY <1>6 DEF ContentsFit, Sound
<1>8. Numbered(t)
  <2> SUFFICES ASSUME NEW i \in Epics \cup Stories
               PROVE  \E n \in Nat : NumberedUpTo(Snapshots(t, i), n)
    BY DEF Numbered
  <2>1. PICK n \in Nat : NumberedUpTo(Snapshots(s, i), n)
    BY DEF Sound, Numbered
  <2>2. CASE i = v.id
    <3> DEFINE k == v.version
    <3>1. Snapshots(t, i) = {h \in Snapshots(s, i) : h.version <= k}
      BY <1>6, <2>2 DEF Snapshots
    <3>2. k \in 1..n
      <4>1. v \in Snapshots(s, i)
        BY <2>2 DEF Snapshots
      <4> QED BY <4>1, <2>1 DEF NumberedUpTo
    <3>3. {h.version : h \in Snapshots(t, i)} = 1..k
      <4>1. \A h \in Snapshots(t, i) : h.version \in 1..k
        BY <3>1, <3>2, <2>1 DEF NumberedUpTo
      <4>2. \A m \in 1..k : \E h \in Snapshots(t, i) : h.version = m
        <5> SUFFICES ASSUME NEW m \in 1..k PROVE \E h \in Snapshots(t, i) : h.version = m
          OBVIOUS
        <5>1. m \in 1..n /\ m <= k
          BY <3>2
        <5>2. PICK h \in Snapshots(s, i) : h.version = m
          BY <5>1, <2>1 DEF NumberedUpTo
        <5> QED BY <3>1, <5>1, <5>2
      <4> QED BY <4>1, <4>2
    <3>4. \A g, h \in Snapshots(t, i) : g.version = h.version => g = h
      BY <3>1, <2>1 DEF NumberedUpTo
    <3> QED BY <3>2, <3>3, <3>4 DEF NumberedUpTo
  <2>3. CASE i # v.id
    <3>1. Snapshots(t, i) = Snapshots(s, i)
      BY <1>6, <2>3 DEF Snapshots
    <3> QED BY <2>1, <3>1
  <2> QED BY <2>2, <2>3
<1>9. WellJudged(t)
  BY <1>2, <1>6 DEF WellJudged, Sound, ShouldRetry
<1> QED BY <1>5, <1>6, <1>7, <1>8, <1>9 DEF Sound

----------------------------------------------------------------------------
(* Lemmas: what a request becomes when a handler goes on.                  *)

\* What the copy of a request that changes no status says; no restart.
Settles(r) ==
    /\ r.stage # "restart"
    /\ r.stage \in QuietStages => r.mine = NoState \/ r.mine.status # "RUNNING"
    /\ r.stage = "epic" => r.mine.status # "RUNNING"

\* x is a record that r may go on with: only a request that has saved nothing,
\* or whose last copy is saved, may end.
Follows(r, x) ==
    /\ Fit(x)
    /\ x.io \in {"none", "cache", "version", "plan", "share"}
    /\ x.broken = r.broken
    /\ x.io = "none" => r.stage \in QuietStages \cup {"epic", "done", "idle"}
    /\ x.io \in {"cache", "plan", "share"} /\ x.stage \in QuietStages =>
          r.stage \in {"regenerate", "share"}
    /\ Settles(r) => Leaves(x)

LEMMA SavingFields ==
  ASSUME NEW r \in Requests, NEW s \in Sound, NEW next \in Stages,
         NEW after \in Afters, NEW err \in Errs
  PROVE  LET x == Saving(r, s, next, after, err)
         IN  /\ x \in Requests
             /\ x.io = "version" /\ x.mine = s /\ x.stage = next
             /\ x.after = after /\ x.err = err
             /\ x.op = r.op /\ x.base = r.base /\ x.view = r.view
             /\ x.node = r.node /\ x.said = r.said /\ x.broken = r.broken
<1> DEFINE x == Saving(r, s, next, after, err)
<1>1. "version" \in IOs /\ s \in Sound \cup {NoState}
  BY DEF IOs, Writes
<1>3. x \in Requests
  BY <1>1 DEF Saving, Requests
<1>4. x.io = "version" /\ x.mine = s /\ x.stage = next /\ x.after = after /\ x.err = err
  BY DEF Saving, Requests
<1>5. /\ x.op = r.op /\ x.base = r.base /\ x.view = r.view
      /\ x.node = r.node /\ x.said = r.said /\ x.broken = r.broken
  BY DEF Saving, Requests
<1> QED BY <1>3, <1>4, <1>5

LEMMA ReadingFits ==
  ASSUME NEW r \in Requests, NEW next \in FreshStages, NEW err \in {"done", "fail"},
         next = "closing" => r.said # "RUNNING"
  PROVE  LET x == Reading(r, next, err)
         IN  /\ Fit(x)
             /\ x.io = "cache" /\ x.stage = next
             /\ x.broken = r.broken /\ Leaves(x)
<1> DEFINE x == Reading(r, next, err)
<1>1. /\ x \in Requests
      /\ x.io = "cache" /\ x.stage = next /\ x.err = err
      /\ x.broken = r.broken /\ x.said = r.said
  BY DEF Reading, Requests, IOs, Reads, Errs, Stages
<1> HIDE DEF x
<1>2. ReadsFirst(x) /\ GoesOn(x)
  BY <1>1 DEF ReadsFirst, GoesOn, Reads, Writes
<1>3. Holding(x) /\ Concludes(x)
  BY <1>1 DEF Holding, Concludes, Writes, FreshStages
<1>4. Leaves(x)
  BY <1>1 DEF Leaves, Writes
<1> QED BY <1>1, <1>2, <1>3, <1>4 DEF Fit, x

LEMMA FailsFollows ==
  ASSUME NEW r \in Requests
  PROVE  Follows(r, Fails(r))
BY ReadingFits DEF Fails, Follows, FreshStages, QuietStages

LEMMA IdleFits ==
  Idle \in Requests /\ Idle.io = "none" /\ Idle.stage = "idle" /\ Idle.err = "done"
  /\ ~Idle.broken
<1>1. /\ "idle" \in Stages /\ "none" \in IOs /\ "PENDING" \in Statuses \ {"COMPLETED"}
      /\ 0 \in 0..(Planning + 3) /\ "get" \in Ops /\ "none" \in Afters /\ "done" \in Errs
  BY StoryAssumption DEF Stages, IOs, Statuses, Ops, Afters, Errs
<1>2. Idle \in Requests
  BY <1>1 DEF Idle, Requests
<1>3. Idle.io = "none" /\ Idle.stage = "idle" /\ Idle.err = "done" /\ ~Idle.broken
  BY DEF Idle
<1> QED BY <1>2, <1>3

LEMMA DoneFits ==
  ASSUME NEW r \in Requests
  PROVE  /\ Fit(Done(r)) /\ Leaves(Done(r))
         /\ Done(r).io = "none" /\ Done(r).stage = "done" /\ Done(r).broken = r.broken
<1> DEFINE x == Done(r)
<1>1. /\ x \in Requests
      /\ x.io = "none" /\ x.stage = "done" /\ x.broken = r.broken /\ x.err = "done"
  BY IdleFits DEF Done, Requests, Stages
<1> HIDE DEF x
<1>2. ReadsFirst(x) /\ GoesOn(x) /\ Leaves(x)
  BY <1>1 DEF ReadsFirst, GoesOn, Reads, Writes, Leaves
<1>3. Holding(x) /\ Concludes(x)
  BY <1>1 DEF Holding, Concludes, Writes
<1> QED BY <1>1, <1>2, <1>3 DEF Fit, x

LEMMA DoneFollows ==
  ASSUME NEW r \in Requests, r.stage \in QuietStages \cup {"epic", "done", "idle"}
  PROVE  Follows(r, Done(r))
BY DoneFits DEF Follows, QuietStages

\* A save after which the document is read again.
LEMMA SaveThenRead ==
  ASSUME NEW r \in Requests, NEW s \in Sound, NEW next \in {"modify", "merge", "failing"},
         NEW err \in {"done", "fail"}
  PROVE  Follows(r, Saving(r, s, next, "cache", err))
<1> DEFINE x == Saving(r, s, next, "cache", err)
<1>1. /\ x \in Requests
      /\ x.io = "version" /\ x.mine = s /\ x.stage = next
      /\ x.after = "cache" /\ x.err = err /\ x.broken = r.broken
  <2>1. next \in Stages /\ "cache" \in Afters /\ err \in Errs
    BY DEF Stages, FreshStages, Afters, Errs
  <2> QED BY <2>1, SavingFields
<1> HIDE DEF x
<1>2. ReadsFirst(x) /\ GoesOn(x)
  BY <1>1 DEF ReadsFirst, GoesOn, Reads
<1>3. Holding(x) /\ Concludes(x) /\ Leaves(x)
  BY <1>1 DEF Holding, Concludes, Leaves, FreshStages
<1> QED BY <1>1, <1>2, <1>3 DEF Fit, Follows, x

\* A save that the handler goes on from: the conditions on its stage.
LEMMA SaveThenGo ==
  ASSUME NEW r \in Requests, NEW x \in Requests,
         x.io = "version", x.mine \in Sound, x.after = "none", x.broken = r.broken,
         x.stage \in HeldStages \cup {"done"},
         x.stage \in {"node", "finish"} \/ x.err = "restart" => x.base \in Sound,
         x.err = "ignore" => x.stage \in {"node", "finish"},
         x.stage = "node" => x.node # End,
         x.stage = "node" /\ x.node = HumanReview => x.mine.review /\ ~x.mine.final,
         x.stage = "finish" /\ x.op = "start" => x.mine.status # "RUNNING",
         Settles(r) /\ x.stage \in {"done", "share"} => x.mine.status # "RUNNING"
  PROVE  Follows(r, x)
<1>1. ReadsFirst(x) /\ GoesOn(x)
  BY DEF ReadsFirst, GoesOn, Reads
<1>2. Holding(x) /\ Concludes(x)
  BY DEF Holding, Concludes, HeldStages
<1>3. Settles(r) => Leaves(x)
  BY DEF Leaves
<1> QED BY <1>1, <1>2, <1>3 DEF Fit, Follows

\* The last save of a handler.
LEMMA SaveLast ==
  ASSUME NEW r \in Requests, NEW s \in Sound, NEW err \in {"done", "fail"},
         Settles(r) => s.status # "RUNNING"
  PROVE  Follows(r, Saving(r, s, "done", "none", err))
<1> DEFINE x == Saving(r, s, "done", "none", err)
<1>1. /\ x \in Requests
      /\ x.io = "version" /\ x.mine = s /\ x.stage = "done"
      /\ x.after = "none" /\ x.err = err /\ x.broken = r.broken
  <2>1. "done" \in Stages /\ "none" \in Afters /\ err \in Errs
    BY DEF Stages, Afters, Errs
  <2> QED BY <2>1, SavingFields
<1> HIDE DEF x
<1>2. Follows(r, x)
  BY <1>1, SaveThenGo
<1> QED BY <1>2 DEF x

LEMMA SaveThenClose ==
  ASSUME NEW r \in Requests, NEW s \in Sound, NEW next \in {"record", "close"}
  PROVE  Follows(r, Saving(r, s, next, "none", "fail"))
<1> DEFINE x == Saving(r, s, next, "none", "fail")
<1>1. /\ x \in Requests
      /\ x.io = "version" /\ x.mine = s /\ x.stage = next
      /\ x.after = "none" /\ x.err = "fail" /\ x.broken = r.broken
  <2>1. next \in Stages /\ "none" \in Afters /\ "fail" \in Errs
    BY DEF Stages, HeldStages, Afters, Errs
  <2> QED BY <2>1, SavingFields
<1> HIDE DEF x
<1>2. Follows(r, x)
  BY <1>1, SaveThenGo DEF HeldStages
<1> QED BY <1>2 DEF x

----------------------------------------------------------------------------
(* The nodes of the graph.                                                 *)

LEMMA Nodes ==
  /\ StoryGeneration \in 1..(Planning + 3) /\ Validation \in 1..(Planning + 3)
  /\ HumanReview \in 1..(Planning + 3) /\ End \in 0..(Planning + 3)
  /\ End \notin {StoryGeneration, Validation, HumanReview}
  /\ HumanReview \notin {StoryGeneration, Validation}
  /\ \A n \in 1..Planning : n + 1 \in 1..(Planning + 3) /\ n + 1 \notin {End, HumanReview}
  /\ 1 \in 1..(Planning + 3) /\ 1 \notin {End, HumanReview}
  /\ \A p \in 0..Planning : p + 1 \in 1..(Planning + 3) /\ p + 1 \notin {End, HumanReview}
BY StoryAssumption DEF StoryGeneration, Validation, HumanReview, End

\* What the graph keeps of a sound document is one, without snapshots.
LEMMA InGraphIsSound ==
  ASSUME NEW s \in Sound
  PROVE  /\ InGraph(s) \in Sound
         /\ InGraph(s).status = s.status
         /\ InGraph(s).review = s.review /\ InGraph(s).final = s.final
<1> DEFINE d == InGraph(s)
<1>1. s \in Documents
  BY SoundFields
<1>2. /\ d \in Documents /\ d.history = {}
      /\ d.status = s.status /\ d.verdict = s.verdict /\ d.stories = s.stories
      /\ d.final = s.final /\ d.retries = s.retries /\ d.max = s.max
      /\ d.review = s.review
  BY <1>1 DEF InGraph, Documents
<1> HIDE DEF d
<1>3. ContentsFit(d)
  BY <1>2 DEF ContentsFit
<1>4. Numbered(d)
  <2>1. \A i : Snapshots(d, i) = {}
    BY <1>2 DEF Snapshots
  <2>2. NumberedUpTo({}, 0)
    BY DEF NumberedUpTo
  <2> QED BY <2>1, <2>2 DEF Numbered
<1>5. WellJudged(d)
  <2>1. WellJudged(s)
    BY DEF Sound
  <2> QED BY <1>2, <2>1 DEF WellJudged, ShouldRetry
<1>6. d \in Sound
  BY <1>2, <1>3, <1>4, <1>5 DEF Sound
<1> QED BY <1>2, <1>6 DEF d

LEMMA NodeDoneFollows ==
  ASSUME NEW r \in Requests, r.stage = "node", r.base \in Sound, NEW s \in Sound,
         NEW n \in 0..(Planning + 3), NEW again \in BOOLEAN,
         n = HumanReview => s.review /\ ~s.final,
         n = End => s.status # "RUNNING"
  PROVE  Follows(r, NodeDone(r, s, n, again))
<1> DEFINE g == InGraph(s)
           next == IF n = End THEN "finish" ELSE "node"
           y == Saving(r, g, next, "none", "ignore")
           x == NodeDone(r, s, n, again)
<1>5. g \in Sound /\ g.status = s.status /\ g.review = s.review /\ g.final = s.final
  BY InGraphIsSound
<1> HIDE DEF g
<1>0. ASSUME NEW stage \in {"finish", "node"}
      PROVE  LET z == Saving(r, g, stage, "none", "ignore")
             IN  /\ z \in Requests
                 /\ z.io = "version" /\ z.mine = g /\ z.stage = stage
                 /\ z.after = "none" /\ z.err = "ignore" /\ z.broken = r.broken
                 /\ z.base = r.base
  <2>1. stage \in Stages /\ "none" \in Afters /\ "ignore" \in Errs
    BY DEF Stages, HeldStages, Afters, Errs
  <2> QED BY <1>5, <2>1, SavingFields
<1>1. /\ y \in Requests
      /\ y.io = "version" /\ y.mine = g /\ y.stage = next
      /\ y.after = "none" /\ y.err = "ignore" /\ y.broken = r.broken /\ y.base = r.base
  <2>1. next \in {"finish", "node"}
    OBVIOUS
  <2> HIDE DEF next
  <2> QED BY <1>0, <2>1
<1>2. x = [y EXCEPT !.node = n, !.again = again]
  BY DEF NodeDone, g
<1> HIDE DEF x, y
<1>3. /\ x \in Requests
      /\ x.io = "version" /\ x.mine = g /\ x.stage = next /\ x.node = n
      /\ x.after = "none" /\ x.err = "ignore" /\ x.broken = r.broken /\ x.base = r.base
  BY <1>1, <1>2 DEF Requests
<1>4. Follows(r, x)
  BY <1>3, <1>5, SaveThenGo DEF HeldStages
<1> QED BY <1>4 DEF x

\* A request at the stage "node".
AtNode(r) ==
    /\ r \in Requests /\ r.stage = "node" /\ r.mine \in Sound /\ r.base \in Sound
    /\ r.node # End
    /\ r.node = HumanReview => r.mine.review /\ ~r.mine.final

LEMMA AtNodeFields ==
  ASSUME NEW r, AtNode(r)
  PROVE  r.node \in 1..(Planning + 3) /\ r.again \in BOOLEAN
<1>1. r.node \in 0..(Planning + 3) /\ r.again \in BOOLEAN /\ r.node # End
  BY DEF AtNode, Requests
<1> QED BY <1>1, StoryAssumption DEF End

LEMMA PlanningNodeFollows ==
  ASSUME NEW r, AtNode(r), r.node <= Planning, NEW x \in PlanningNode(r)
  PROVE  Follows(r, x)
<1> DEFINE plan == IF r.node > r.mine.plan THEN r.node ELSE r.mine.plan
           epics == IF r.node = EpicNode /\ r.mine.plan < EpicNode
                    THEN [e \in Epics |-> FirstWording] ELSE r.mine.epics
           s == [r.mine EXCEPT !.status = "RUNNING", !.plan = plan, !.epics = epics]
<1>1. x = NodeDone(r, s, r.node + 1, r.again)
  BY DEF PlanningNode
<1>2. r.node \in 1..Planning
  BY AtNodeFields, StoryAssumption
<1>3. plan \in 0..Planning /\ epics \in [Epics -> Wordings] \cup {None}
  BY <1>2, SoundFields, StoryAssumption DEF AtNode
<1> HIDE DEF plan, epics
<1>4. s \in Sound
  BY <1>3, OutputIsSound, NoneIsEmpty DEF AtNode
<1>5. r.node + 1 \in 0..(Planning + 3) /\ r.node + 1 \notin {End, HumanReview}
  BY <1>2, Nodes, StoryAssumption
<1>6. r.again \in BOOLEAN
  BY DEF AtNode, Requests
<1> HIDE DEF s
<1> QED BY <1>1, <1>4, <1>5, <1>6, NodeDoneFollows DEF AtNode

LEMMA StoryNodeFollows ==
  ASSUME NEW r, AtNode(r), NEW x \in StoryNode(r)
  PROVE  Follows(r, x)
<1>0. ASSUME NEW stories \in [Stories -> StoryTexts] \cup {None}
      PROVE  [r.mine EXCEPT !.status = "RUNNING", !.stories = stories] \in Sound
  <2>1. r.mine \in Sound /\ r.mine.plan \in 0..Planning
        /\ r.mine.epics \in [Epics -> Wordings] \cup {None}
        /\ DefaultRetries \in Budgets \cup {DefaultRetries}
    BY SoundFields DEF AtNode
  <2> QED BY <2>1, OutputIsSound
<1>1. [r.mine EXCEPT !.status = "RUNNING"] \in Sound
  BY Restated DEF AtNode, Statuses
<1>2. \A t \in Texts : [i \in Stories |-> [text |-> t, tries |-> 0]] \in [Stories -> StoryTexts]
  BY DEF StoryTexts
<1>3. ASSUME NEW s \in Sound, NEW again \in BOOLEAN
      PROVE  Follows(r, NodeDone(r, s, Validation, again))
  BY Nodes, NodeDoneFollows, StoryAssumption DEF AtNode
<1>4. CASE StoriesThere(r)
  <2>1. x = NodeDone(r, [r.mine EXCEPT !.status = "RUNNING"], Validation, FALSE)
    BY <1>4 DEF StoryNode
  <2> QED BY <1>1, <1>3, <2>1
<1>5. CASE ~StoriesThere(r)
  <2>1. PICK t \in Texts, failed \in BOOLEAN :
           x = NodeDone(r, [r.mine EXCEPT !.status = "RUNNING",
                              !.stories = [i \in Stories |-> [text |-> t, tries |-> 0]]],
                        Validation, failed)
    BY <1>5 DEF StoryNode
  <2>2. [i \in Stories |-> [text |-> t, tries |-> 0]] \in [Stories -> StoryTexts] \cup {None}
    BY <1>2
  <2> QED BY <1>0, <1>3, <2>1, <2>2
<1> QED BY <1>4, <1>5

LEMMA ValidationNodeFollows ==
  ASSUME NEW r, AtNode(r), NEW x \in ValidationNode(r)
  PROVE  Follows(r, x)
<1>1. PICK verdict \in Verdicts :
         /\ verdict = "passed" => r.mine.stories # None
         /\ x = NodeDone(r, Judged(r.mine, verdict), AfterValidation(Judged(r.mine, verdict)),
                         r.again)
  BY DEF ValidationNode
<1> DEFINE s == Judged(r.mine, verdict)
<1>2. /\ s \in Sound
      /\ AfterValidation(s) \in {StoryGeneration, HumanReview, End}
      /\ AfterValidation(s) = HumanReview => s.review /\ ~s.final
      /\ AfterValidation(s) = End => s.status # "RUNNING"
  BY <1>1, JudgedIsSound DEF AtNode
<1> HIDE DEF s
<1>3. AfterValidation(s) \in 0..(Planning + 3)
  BY <1>2, Nodes, StoryAssumption
<1>4. r.again \in BOOLEAN
  BY DEF AtNode, Requests
<1>5. Follows(r, NodeDone(r, s, AfterValidation(s), r.again))
  BY <1>2, <1>3, <1>4, NodeDoneFollows DEF AtNode
<1> QED BY <1>1, <1>5 DEF s

LEMMA ReviewHookFollows ==
  ASSUME NEW r, AtNode(r), r.node = HumanReview, NEW x \in ReviewHook(r)
  PROVE  Follows(r, x)
<1> DEFINE s == [r.mine EXCEPT !.status = IF r.mine.review /\ ~r.mine.final
                                          THEN "REVIEW_REQUIRED" ELSE "RUNNING"]
<1>1. x = NodeDone(r, s, End, r.again)
  BY DEF ReviewHook
<1>2. s \in Sound /\ s.status = "REVIEW_REQUIRED"
  BY ReviewedIsSound DEF AtNode
<1>3. r.again \in BOOLEAN
  BY DEF AtNode, Requests
<1> HIDE DEF s
<1> QED BY <1>1, <1>2, <1>3, Nodes, NodeDoneFollows DEF AtNode

LEMMA NodeFailsFollows ==
  ASSUME NEW r, AtNode(r), NEW x \in NodeFails(r)
  PROVE  Follows(r, x)
<1>1. [r.mine EXCEPT !.status = "FAILED"] \in Sound
      /\ [r.mine EXCEPT !.status = "FAILED"].status = "FAILED"
  BY Restated DEF AtNode, Statuses
<1>2. CASE r.op = "start"
  <2> DEFINE s == [r.mine EXCEPT !.status = "FAILED"]
  <2>1. x = Saving(r, InGraph(s), "done", "none", "done")
    BY <1>2 DEF NodeFails
  <2>2. s \in Sound /\ s.status = "FAILED"
    BY <1>1
  <2> HIDE DEF s
  <2>3. InGraph(s) \in Sound /\ InGraph(s).status = "FAILED"
    BY <2>2, InGraphIsSound
  <2> QED BY <2>1, <2>3, SaveLast DEF AtNode
<1>3. CASE r.op # "start"
  <2>1. x = Saving(r, r.base, "failing", "cache", "fail")
    BY <1>3 DEF NodeFails
  <2> QED BY <2>1, SaveThenRead DEF AtNode, FreshStages
<1> QED BY <1>2, <1>3

LEMMA RunNodeFollows ==
  ASSUME NEW r, AtNode(r), NEW x \in RunNode(r)
  PROVE  Follows(r, x)
<1>1. CASE x \in NodeFails(r)
  BY <1>1, NodeFailsFollows
<1>2. CASE r.node <= Planning /\ x \in PlanningNode(r)
  BY <1>2, PlanningNodeFollows
<1>3. CASE x \in StoryNode(r)
  BY <1>3, StoryNodeFollows
<1>4. CASE x \in ValidationNode(r)
  BY <1>4, ValidationNodeFollows
<1>5. CASE r.node = HumanReview /\ x \in ReviewHook(r)
  BY <1>5, ReviewHookFollows
<1>6. /\ r.node \in 1..(Planning + 3)
      /\ r.node <= Planning \/ r.node = StoryGeneration \/ r.node = Validation
            \/ r.node = HumanReview
      /\ ~(StoryGeneration <= Planning) /\ ~(Validation <= Planning)
      /\ ~(HumanReview <= Planning)
      /\ StoryGeneration # Validation /\ HumanReview \notin {StoryGeneration, Validation}
  BY AtNodeFields, StoryAssumption DEF StoryGeneration, Validation, HumanReview
<1>7. \/ x \in NodeFails(r)
      \/ r.node <= Planning /\ x \in PlanningNode(r)
      \/ x \in StoryNode(r)
      \/ x \in ValidationNode(r)
      \/ r.node = HumanReview /\ x \in ReviewHook(r)
  BY <1>6 DEF RunNode
<1> QED BY <1>1, <1>2, <1>3, <1>4, <1>5, <1>7

----------------------------------------------------------------------------
(* The other stages.                                                       *)

\* A request on behalf of which the handler may go on.
Ready(r) ==
    /\ r \in Requests
    /\ r.stage = "node" => AtNode(r)
    /\ r.stage \in {"finish", "record", "close", "epic"} => r.mine \in Sound
    /\ r.stage \in {"finish", "restart"} \/ r.err = "restart" => r.base \in Sound
    /\ r.stage = "finish" /\ r.op = "start" => r.mine.status # "RUNNING"
    /\ r.stage = "closing" => r.said # "RUNNING"

LEMMA DocumentIsSound ==
  ASSUME NEW r \in Requests
  PROVE  Document(r) \in Sound
BY BlankIsSound DEF Document, Requests

\* A document put forward for a review.
LEMMA ForReview ==
  ASSUME NEW s \in Sound, NEW stories \in [Stories -> StoryTexts] \cup {None}
  PROVE  LET d == [s EXCEPT !.stories = stories, !.status = "REVIEW_REQUIRED", !.review = TRUE]
         IN  d \in Sound /\ d.status = "REVIEW_REQUIRED"
<1> DEFINE d == [s EXCEPT !.stories = stories, !.status = "REVIEW_REQUIRED", !.review = TRUE]
<1>1. d \in Documents
  BY SoundFields DEF Documents, Statuses, StoryTexts
<1>2. d.history = s.history /\ d.status = "REVIEW_REQUIRED"
  BY SoundFields DEF Documents
<1>3. WellJudged(d)
  BY <1>2 DEF WellJudged
<1> QED BY <1>1, <1>2, <1>3, SameHistory

LEMMA ForRetryReview ==
  ASSUME NEW s \in Sound, NEW attempt \in Nat,
         NEW stories \in [Stories -> StoryTexts] \cup {None}
  PROVE  LET d == [s EXCEPT !.status = "REVIEW_REQUIRED", !.review = TRUE,
                         !.retries = attempt, !.stories = stories]
         IN  d \in Sound /\ d.status = "REVIEW_REQUIRED"
<1> DEFINE d == [s EXCEPT !.status = "REVIEW_REQUIRED", !.review = TRUE,
                         !.retries = attempt, !.stories = stories]
<1>1. d \in Documents
  BY SoundFields DEF Documents, Statuses, StoryTexts
<1>2. d.history = s.history /\ d.status = "REVIEW_REQUIRED"
  BY SoundFields DEF Documents
<1>3. WellJudged(d)
  BY <1>2 DEF WellJudged
<1> QED BY <1>1, <1>2, <1>3, SameHistory

LEMMA OpeningFollows ==
  ASSUME NEW r \in Requests, NEW x \in Opening(r)
  PROVE  Follows(r, x)
<1> DEFINE s == [Document(r) EXCEPT !.status = "RUNNING"]
<1>1. s \in Sound
  BY DocumentIsSound, Restated DEF Statuses
<1> HIDE DEF s
<1>2. x \in {Saving(r, s, "modify", "cache", "done"), Saving(r, s, "merge", "cache", "done")}
  BY DEF Opening, s
<1> QED BY <1>1, <1>2, SaveThenRead DEF FreshStages

LEMMA MergedIsSound ==
  ASSUME NEW s \in Sound, NEW op, NEW p \in Plans \cup {None}, NEW brought \in 0..Planning,
         NEW t \in Texts, NEW max \in Budgets \cup {DefaultRetries}
  PROVE  Merged(s, op, p, brought, t, max) \in Sound
<1> DEFINE plan == Later(Later(s.plan, brought), IF p # None THEN EpicNode ELSE 0)
           epics == IF p # None THEN p ELSE s.epics
           stories == IF op = "validate"
                      THEN [i \in Stories |-> [text |-> t, tries |-> 0]] ELSE s.stories
<1>1. Merged(s, op, p, brought, t, max) = [s EXCEPT !.status = "RUNNING", !.max = max, !.plan = plan,
                                                    !.epics = epics, !.stories = stories]
  BY DEF Merged
<1>2. plan \in 0..Planning
  <2>1. \A m, n \in 0..Planning : Later(m, n) \in 0..Planning
    BY DEF Later
  <2>2. (IF p # None THEN EpicNode ELSE 0) \in 0..Planning /\ s.plan \in 0..Planning
    BY SoundFields, StoryAssumption
  <2> QED BY <2>1, <2>2
<1>3. epics \in [Epics -> Wordings] \cup {None}
  BY SoundFields, StoryAssumption
<1>4. [i \in Stories |-> [text |-> t, tries |-> 0]] \in [Stories -> StoryTexts]
  BY DEF StoryTexts
<1>5. stories \in [Stories -> StoryTexts] \cup {None}
  BY <1>4, SoundFields
<1> HIDE DEF plan, epics, stories
<1> DEFINE d == Merged(s, op, p, brought, t, max)
<1>0. s \in Documents
  BY SoundFields
<1>6. d \in Documents
  BY <1>0, <1>1, <1>2, <1>3, <1>5 DEF Documents, Statuses, StoryTexts
<1>7. d.history = s.history /\ d.status = "RUNNING"
  BY <1>0, <1>1 DEF Documents
<1> HIDE DEF d
<1>8. WellJudged(d)
  BY <1>7 DEF WellJudged
<1>9. d \in Sound
  BY <1>6, <1>7, <1>8, SameHistory
<1> QED BY <1>9 DEF d

Flags == BOOLEAN

LEMMA BegunFollows ==
  ASSUME NEW r \in Requests, NEW s \in Sound, NEW again \in Flags
  PROVE  Follows(r, Begun(r, s, again))
<1> DEFINE y == Saving(r, s, "node", "none", "fail")
           n == FirstNode(s)
           x == Begun(r, s, again)
<1>1. n \in 0..(Planning + 3) /\ n \notin {End, HumanReview}
  <2>1. s.plan \in 0..Planning
    BY SoundFields
  <2> QED BY <2>1, StoryAssumption DEF FirstNode, End, HumanReview
<1>2. x = [y EXCEPT !.base = s, !.node = n, !.again = again]
  BY DEF Begun
<1>3. /\ y \in Requests
      /\ y.io = "version" /\ y.mine = s /\ y.stage = "node"
      /\ y.after = "none" /\ y.err = "fail" /\ y.broken = r.broken
  <2>1. "node" \in Stages /\ "none" \in Afters /\ "fail" \in Errs
    BY DEF Stages, HeldStages, Afters, Errs
  <2> QED BY <2>1, SavingFields
<1> HIDE DEF y, n, x
<1>4. /\ x \in Requests
      /\ x.io = "version" /\ x.mine = s /\ x.stage = "node" /\ x.base = s
      /\ x.node = n
      /\ x.after = "none" /\ x.err = "fail" /\ x.broken = r.broken
  <2>1. y \in Requests /\ s \in Sound \cup {NoState} /\ n \in 0..(Planning + 3) /\ again \in BOOLEAN
    BY <1>1, <1>3 DEF Flags
  <2>2. x \in Requests
    BY <1>2, <2>1 DEF Requests
  <2>3. x.base = s /\ x.node = n
    BY <1>2, <2>1 DEF Requests
  <2>4. /\ x.io = y.io /\ x.mine = y.mine /\ x.stage = y.stage
        /\ x.after = y.after /\ x.err = y.err /\ x.broken = y.broken
    BY <1>2, <2>1 DEF Requests
  <2> QED BY <1>3, <2>2, <2>3, <2>4
<1>5. Follows(r, x)
  BY <1>1, <1>4, SaveThenGo DEF HeldStages
<1> QED BY <1>5 DEF x

LEMMA MergeFollows ==
  ASSUME NEW r \in Requests, NEW x \in Merge(r)
  PROVE  Follows(r, x)
<1>1. PICK s \in {Merged(Document(r), r.op, p, brought, t, max) :
                     p \in IF r.op = "review" THEN {None} ELSE Plans \cup {None},
                     brought \in IF r.op = "review" THEN {0} ELSE 0..Planning,
                     t \in Texts,
                     max \in IF r.op = "review" THEN {DefaultRetries} ELSE Budgets},
           again \in Flags : x = Begun(r, s, again)
  BY DEF Merge, Flags
<1>2. PICK p \in Plans \cup {None}, brought \in 0..Planning, t \in Texts,
           max \in Budgets \cup {DefaultRetries} :
         s = Merged(Document(r), r.op, p, brought, t, max)
  BY <1>1, StoryAssumption
<1>3. s \in Sound
  BY <1>2, DocumentIsSound, MergedIsSound
<1> QED BY <1>1, <1>3, BegunFollows

\* The epics and the stories of a document fit its identifiers.
LEMMA OwnFit ==
  ASSUME NEW s \in Sound
  PROVE  Fitting(s.epics) /\ Fitting(s.stories)
BY SoundFields, NoneIsEmpty, StoryAssumption DEF Fitting

LEMMA FinishFollows ==
  ASSUME NEW r, Ready(r), r.stage = "finish", NEW x \in Finish(r)
  PROVE  Follows(r, x)
<1>0. r \in Requests /\ r.mine \in Sound /\ r.base \in Sound
  BY DEF Ready
<1>1. CASE r.op = "start"
  <2> DEFINE t == Record(r.mine, r.mine.epics)
             s == Record(t, r.mine.stories)
             y == Saving(r, s, "done", "none", "restart")
  <2>1. x = y
    BY <1>1 DEF Finish
  <2>2. t \in Sound /\ t.status = r.mine.status
    BY <1>0, OwnFit, RecordIsSound
  <2> HIDE DEF t
  <2>3. s \in Sound /\ s.status = r.mine.status
    BY <1>0, <2>2, OwnFit, RecordIsSound
  <2> HIDE DEF s
  <2>4. /\ y \in Requests
        /\ y.io = "version" /\ y.mine = s /\ y.stage = "done" /\ y.base = r.base
        /\ y.after = "none" /\ y.err = "restart" /\ y.broken = r.broken
    <3>1. "done" \in Stages /\ "none" \in Afters /\ "restart" \in Errs
      BY DEF Stages, Afters, Errs
    <3> QED BY <1>0, <2>3, <3>1, SavingFields
  <2> HIDE DEF y
  <2>5. s.status # "RUNNING"
    BY <1>1, <2>3 DEF Ready
  <2> QED BY <1>0, <2>1, <2>3, <2>4, <2>5, SaveThenGo
<1>2. CASE r.op = "generate"
  <2>1. x = Saving(r, r.mine, "record", "none", "fail")
    BY <1>2 DEF Finish
  <2> QED BY <1>0, <2>1, SaveThenClose
<1>3. CASE r.op \notin {"start", "generate"}
  <2>1. x = Saving(r, r.mine, "close", "none", "fail")
    BY <1>3 DEF Finish
  <2> QED BY <1>0, <2>1, SaveThenClose
<1> QED BY <1>1, <1>2, <1>3

LEMMA RecordStoriesFollows ==
  ASSUME NEW r \in Requests, r.mine \in Sound, NEW x \in RecordStories(r)
  PROVE  Follows(r, x)
<1>1. x = Saving(r, Record(r.mine, r.mine.stories), "close", "none", "fail")
  BY DEF RecordStories
<1>2. Record(r.mine, r.mine.stories) \in Sound
  BY OwnFit, RecordIsSound
<1> QED BY <1>1, <1>2, SaveThenClose

\* No response says COMPLETED or RUNNING.
LEMMA ResponseStatus ==
  \A s : {PipelineStatus(s), ValidationStatus(s)} \subseteq
            {"RETRY_REQUIRED", "REVIEW_REQUIRED", "VALIDATION_PASSED", "VALIDATION_FAILED"}
BY DEF PipelineStatus, ValidationStatus

LEMMA CloseFollows ==
  ASSUME NEW r \in Requests, r.stage = "close", NEW x \in Close(r)
  PROVE  Follows(r, x)
<1>1. PICK said \in {"RETRY_REQUIRED", "REVIEW_REQUIRED", "VALIDATION_PASSED",
                     "VALIDATION_FAILED"} :
         x = [Reading(r, "closing", "done") EXCEPT !.said = said]
  BY ResponseStatus DEF Close
<1> DEFINE q == [r EXCEPT !.said = said]
<1>2. q \in Requests /\ q.said = said /\ q.broken = r.broken
  BY DEF Requests, Statuses
<1>3. x = Reading(q, "closing", "done")
  BY <1>1 DEF Reading, Requests
<1> HIDE DEF q
<1>4. Fit(x) /\ x.io = "cache" /\ x.stage = "closing" /\ x.broken = r.broken /\ Leaves(x)
  BY <1>2, <1>3, ReadingFits DEF FreshStages
<1> QED BY <1>4 DEF Follows, QuietStages

LEMMA ClosingFollows ==
  ASSUME NEW r \in Requests, r.said # "RUNNING", NEW x \in Closing(r)
  PROVE  Follows(r, x)
<1>1. x = Saving(r, [Document(r) EXCEPT !.status = r.said], "done", "none", "done")
  BY DEF Closing
<1>2. r.said \in Statuses \ {"COMPLETED"}
  BY DEF Requests
<1>3. /\ [Document(r) EXCEPT !.status = r.said] \in Sound
      /\ [Document(r) EXCEPT !.status = r.said].status = r.said
  BY <1>2, DocumentIsSound, Restated
<1> QED BY <1>1, <1>3, SaveLast

LEMMA FailingFollows ==
  ASSUME NEW r \in Requests, NEW x \in Failing(r)
  PROVE  Follows(r, x)
<1>1. x = Saving(r, [Document(r) EXCEPT !.status = "FAILED"], "done", "none", "done")
  BY DEF Failing
<1>2. /\ [Document(r) EXCEPT !.status = "FAILED"] \in Sound
      /\ [Document(r) EXCEPT !.status = "FAILED"].status = "FAILED"
  BY DocumentIsSound, Restated DEF Statuses
<1> QED BY <1>1, <1>2, SaveLast

LEMMA ModifiedIsSound ==
  ASSUME NEW s \in Sound, NEW i \in DOMAIN s.stories, NEW t \in Texts
  PROVE  Modified(s, i, t) \in Sound
<1> DEFINE new == [text |-> t, tries |-> s.stories[i].tries]
           stories == Put(s.stories, i, new)
           d == [s EXCEPT !.stories = stories, !.status = "REVIEW_REQUIRED", !.review = TRUE]
           contents == [j \in {i} |-> new]
<1>1. Modified(s, i, t) = Record(d, contents)
  BY DEF Modified
<1>2. s.stories \in [Stories -> StoryTexts] /\ i \in Stories
  BY SoundFields, NoneIsEmpty
<1>3. new \in StoryTexts
  BY <1>2 DEF StoryTexts
<1> HIDE DEF new
<1>4. stories \in [Stories -> StoryTexts] \cup {None}
  BY <1>2, <1>3, PutFits
<1> HIDE DEF stories
<1>5. d \in Sound
  BY <1>4, ForReview
<1>6. Fitting(contents)
  BY <1>2, <1>3, StoryAssumption DEF Fitting
<1> HIDE DEF d, contents
<1> QED BY <1>1, <1>5, <1>6, RecordIsSound

LEMMA ModifyFollows ==
  ASSUME NEW r \in Requests, NEW x \in Modify(r)
  PROVE  Follows(r, x)
<1>1. CASE x = Fails(r)
  BY <1>1, FailsFollows
<1>2. CASE x # Fails(r)
  <2> DEFINE there == IF r.mine = NoState THEN {} ELSE DOMAIN r.mine.stories
  <2>1. PICK i \in there, t \in Texts :
           x = Saving(r, Modified(r.mine, i, t), "close", "none", "fail")
    BY <1>2 DEF Modify
  <2>2. r.mine \in Sound /\ i \in DOMAIN r.mine.stories
    BY DEF Requests
  <2>3. Modified(r.mine, i, t) \in Sound
    BY <2>2, ModifiedIsSound
  <2> QED BY <2>1, <2>3, SaveThenClose
<1> QED BY <1>1, <1>2

\* The stored versions are sound documents.
RowsSound == \A v \in rows : v.state \in Sound

LEMMA RetriedIsSound ==
  ASSUME NEW s \in Sound, NEW old \in [Stories -> StoryTexts] \cup {None},
         NEW wanted \in SUBSET DOMAIN old, NEW t \in Texts, NEW max, NEW attempt \in Nat
  PROVE  LET d == Retried(s, Renewed(old, wanted, t, max), wanted, attempt)
         IN  d \in Sound /\ d.status = "REVIEW_REQUIRED"
<1> DEFINE new == Renewed(old, wanted, t, max)
           d == [s EXCEPT !.status = "REVIEW_REQUIRED", !.review = TRUE, !.retries = attempt,
                          !.stories = new]
           contents == [i \in wanted |-> new[i]]
<1>1. Retried(s, new, wanted, attempt) = Record(d, contents)
  BY DEF Retried
<1>2. new \in [Stories -> StoryTexts] \cup {None} /\ Fitting(contents)
  <2>1. CASE old \in [Stories -> StoryTexts]
    <3>1. \A i \in Stories : old[i].tries + 1 \in Nat
      BY <2>1 DEF StoryTexts
    <3>2. new \in [Stories -> StoryTexts]
      BY <2>1, <3>1 DEF Renewed, StoryTexts
    <3> HIDE DEF new
    <3>3. Fitting(contents)
      BY <2>1, <3>2, StoryAssumption DEF Fitting
    <3> QED BY <3>2, <3>3
  <2>2. CASE old = None
    <3>1. wanted = {} /\ DOMAIN new = {}
      BY <2>2, NoneIsEmpty DEF Renewed
    <3>2. new = None
      BY <3>1 DEF Renewed, None
    <3> HIDE DEF new
    <3>3. Fitting(contents)
      BY <3>1 DEF Fitting
    <3> QED BY <3>2, <3>3
  <2> QED BY <2>1, <2>2
<1> HIDE DEF new
<1>3. d \in Sound /\ d.status = "REVIEW_REQUIRED"
  BY <1>2, ForRetryReview
<1> HIDE DEF d, contents
<1>4. Record(d, contents) \in Sound /\ Record(d, contents).status = "REVIEW_REQUIRED"
  BY <1>2, <1>3, RecordIsSound
<1> QED BY <1>1, <1>4 DEF new

LEMMA RetryFollows ==
  ASSUME RowsSound, NEW r \in Requests, NEW x \in Retry(r)
  PROVE  Follows(r, x)
<1>1. CASE x = Fails(r)
  BY <1>1, FailsFollows
<1>2. CASE x # Fails(r)
  <2>1. PICK stored \in Retriable(Document(r)), given \in Given, wanted \in SUBSET Stories,
             t \in Texts, max \in Budgets, attempt \in Attempts :
           x = RetrySaved(r, Previous(stored, given), wanted, t, max, attempt)
    BY <1>2 DEF Retry
  <2> DEFINE old == Previous(stored, given)
  <2>2. old \in [Stories -> StoryTexts] \cup {None}
    <3>1. stored \in [Stories -> StoryTexts] \cup {None}
      BY DocumentIsSound, SoundFields DEF Retriable, RowsSound, Newest, WithStories
    <3>2. given \in [Stories -> StoryTexts] \cup {None}
      BY StoryAssumption DEF Given, StoryTexts
    <3> QED BY <3>1, <3>2 DEF Previous
  <2> HIDE DEF old
  <2> DEFINE found == wanted \cap DOMAIN old
             d == Retried(Document(r), Renewed(old, found, t, max), found, attempt)
  <2>3. d \in Sound /\ d.status = "REVIEW_REQUIRED"
    BY <2>2, DocumentIsSound, RetriedIsSound, StoryAssumption
  <2>4. x = Saving(r, d, "done", "none", "fail")
    BY <2>1 DEF RetrySaved, old
  <2> HIDE DEF d
  <2> QED BY <2>3, <2>4, SaveLast
<1> QED BY <1>1, <1>2

LEMMA UndoFollows ==
  ASSUME NEW r \in Requests, r.stage = "undo", NEW x \in Undo(r)
  PROVE  Follows(r, x)
<1>1. CASE x = Done(r)
  BY <1>1, DoneFollows DEF QuietStages
<1>2. CASE x # Done(r)
  <2>1. r.mine # NoState
    BY <1>2 DEF Undo
  <2>2. PICK v \in r.mine.history : x = Saving(r, Undone(r.mine, v), "done", "none", "done")
    BY <1>2, <2>1 DEF Undo
  <2>3. r.mine \in Sound
    BY <2>1 DEF Requests
  <2>4. Undone(r.mine, v) \in Sound /\ Undone(r.mine, v).status = r.mine.status
    BY <2>3, UndoneIsSound
  <2>5. Settles(r) => Undone(r.mine, v).status # "RUNNING"
    BY <2>1, <2>4 DEF Settles, QuietStages
  <2> QED BY <2>2, <2>4, <2>5, SaveLast
<1> QED BY <1>1, <1>2

LEMMA ApproveFollows ==
  ASSUME NEW r \in Requests, r.stage = "approve", NEW x \in Approve(r)
  PROVE  Follows(r, x)
<1>1. CASE r.mine = NoState
  BY <1>1, DoneFollows DEF QuietStages, Approve
<1>2. CASE r.mine # NoState
  <2>1. x = Saving(r, [r.mine EXCEPT !.status = "OUTLINE_APPROVED"], "done", "none", "done")
    BY <1>2 DEF Approve
  <2>2. r.mine \in Sound
    BY <1>2 DEF Requests
  <2>3. /\ [r.mine EXCEPT !.status = "OUTLINE_APPROVED"] \in Sound
        /\ [r.mine EXCEPT !.status = "OUTLINE_APPROVED"].status = "OUTLINE_APPROVED"
    BY <2>2, Restated DEF Statuses
  <2> QED BY <2>1, <2>3, SaveLast
<1> QED BY <1>1, <1>2

\* The plan of a document may be replaced by one that fits.
LEMMA ReplannedIsSound ==
  ASSUME NEW s \in Sound, NEW epics \in [Epics -> Wordings] \cup {None}
  PROVE  [s EXCEPT !.epics = epics] \in Sound /\ [s EXCEPT !.epics = epics].status = s.status
<1> DEFINE t == [s EXCEPT !.epics = epics]
<1>1. t \in Documents
  BY SoundFields DEF Documents
<1>2. /\ t.history = s.history /\ t.status = s.status /\ t.stories = s.stories
      /\ t.verdict = s.verdict /\ t.final = s.final /\ t.retries = s.retries
      /\ t.max = s.max
  BY SoundFields DEF Documents
<1>3. WellJudged(t)
  BY <1>2 DEF WellJudged, Sound, ShouldRetry
<1> QED BY <1>1, <1>2, <1>3, SameHistory

LEMMA RegenerateEpicFollows ==
  ASSUME NEW r \in Requests, r.stage = "epic", r.mine \in Sound, NEW x \in RegenerateEpic(r)
  PROVE  Follows(r, x)
<1>1. CASE x = Done(r)
  BY <1>1, DoneFollows
<1>2. CASE x # Done(r)
  <2>1. PICK e \in DOMAIN r.view, w \in Wordings :
           x = [Saving(r, Record([r.mine EXCEPT !.epics = Put(r.view, e, w)], [i \in {e} |-> w]),
                       "share", "none", "done") EXCEPT !.view = Put(r.view, e, w)]
    <3>1. \E e \in DOMAIN r.view, w \in Wordings : x = EpicSaved(r, e, w)
      BY <1>2 DEF RegenerateEpic
    <3> QED BY <3>1, Zenon DEF EpicSaved
  <2> DEFINE view == Put(r.view, e, w)
             d == [r.mine EXCEPT !.epics = view]
             contents == [i \in {e} |-> w]
             s == Record(d, contents)
             y == Saving(r, s, "share", "none", "done")
  <2>2. view \in [Epics -> Wordings] \cup {None} /\ e \in Epics
    <3>1. r.view \in [Epics -> Wordings] \cup {None}
      BY DEF Requests
    <3>2. Put(r.view, e, w) \in [Epics -> Wordings] /\ e \in Epics
      BY <3>1, PutFits
    <3> QED BY <3>2
  <2>3. x = [y EXCEPT !.view = view]
    BY <2>1
  <2> HIDE DEF view
  <2>4. d \in Sound /\ d.status = r.mine.status
    BY <2>2, ReplannedIsSound
  <2>5. Fitting(contents)
    BY <2>2, StoryAssumption DEF Fitting
  <2> HIDE DEF d, contents
  <2>6. s \in Sound /\ s.status = r.mine.status
    BY <2>4, <2>5, RecordIsSound
  <2> HIDE DEF s
  <2>7. /\ y \in Requests
        /\ y.io = "version" /\ y.mine = s /\ y.stage = "share"
        /\ y.after = "none" /\ y.err = "done" /\ y.broken = r.broken
    <3>1. "share" \in Stages /\ "none" \in Afters /\ "done" \in Errs
      BY DEF Stages, HeldStages, Afters, Errs
    <3> QED BY <2>6, <3>1, SavingFields
  <2> HIDE DEF y
  <2>8. /\ x \in Requests
        /\ x.io = "version" /\ x.mine = s /\ x.stage = "share"
        /\ x.after = "none" /\ x.err = "done" /\ x.broken = r.broken
    BY <2>2, <2>3, <2>7 DEF Requests
  <2>9. Settles(r) => s.status # "RUNNING"
    BY <2>6 DEF Settles
  <2> QED BY <2>6, <2>8, <2>9, SaveThenGo DEF HeldStages
<1> QED BY <1>1, <1>2

LEMMA RegenerateFollows ==
  ASSUME NEW r, Ready(r), r.stage = "regenerate", NEW x \in Continue(r)
  PROVE  Follows(r, x)
<1>1. x = IF r.mine = NoState THEN Done(r) ELSE [r EXCEPT !.io = "plan"]
  BY DEF Continue
<1>2. CASE r.mine = NoState
  BY <1>1, <1>2, DoneFollows DEF QuietStages, Ready
<1>3. CASE r.mine # NoState
  <2>1. /\ x \in Requests
        /\ x.io = "plan" /\ x.stage = "regenerate" /\ x.mine = r.mine /\ x.mine \in Sound
        /\ x.err = r.err /\ x.base = r.base /\ x.broken = r.broken
    <3>1. r \in Requests /\ "plan" \in IOs /\ x = [r EXCEPT !.io = "plan"]
      BY <1>1, <1>3 DEF Ready, IOs
    <3>2. x \in Requests
      BY <3>1 DEF Requests
    <3> QED BY <1>3, <3>1, <3>2 DEF Requests
  <2>2. ReadsFirst(x) /\ GoesOn(x)
    BY <2>1 DEF ReadsFirst, GoesOn, Reads, Writes
  <2>3. Holding(x) /\ Concludes(x)
    BY <2>1 DEF Holding, Concludes, Writes, Ready
  <2>4. Settles(r) => Leaves(x)
    BY <1>3, <2>1 DEF Settles, Leaves, Writes, QuietStages
  <2> QED BY <2>1, <2>2, <2>3, <2>4 DEF Follows, Fit
<1> QED BY <1>2, <1>3

LEMMA ShareFollows ==
  ASSUME NEW r, Ready(r), r.stage = "share", NEW x \in Continue(r)
  PROVE  Follows(r, x)
<1>1. x = [r EXCEPT !.io = "share"]
  BY DEF Continue
<1>2. /\ x \in Requests
      /\ x.io = "share" /\ x.stage = "share"
      /\ x.err = r.err /\ x.base = r.base /\ x.broken = r.broken
  <2>1. r \in Requests /\ "share" \in IOs
    BY DEF Ready, IOs
  <2>2. x \in Requests
    BY <1>1, <2>1 DEF Requests
  <2> QED BY <1>1, <2>1, <2>2 DEF Requests
<1>3. ReadsFirst(x) /\ GoesOn(x)
  BY <1>2 DEF ReadsFirst, GoesOn, Reads, Writes
<1>4. Holding(x) /\ Concludes(x) /\ Leaves(x)
  BY <1>2 DEF Holding, Concludes, Leaves, Writes, Ready
<1> QED BY <1>2, <1>3, <1>4 DEF Follows, Fit

\* Whatever the stage, the handler goes on with a record that fits.
LEMMA ContinueFollows ==
  ASSUME RowsSound, NEW r, Ready(r), NEW x \in Continue(r)
  PROVE  Follows(r, x)
<1>0. r \in Requests /\ r.stage \in Stages
  BY DEF Ready, Requests
<1>1. CASE r.stage = "opening"
  <2>1. x \in Opening(r)
    BY <1>1 DEF Continue
  <2> QED BY <1>0, <1>1, <2>1, OpeningFollows
<1>2. CASE r.stage = "merge"
  <2>1. x \in Merge(r)
    BY <1>2 DEF Continue
  <2> QED BY <1>0, <1>2, <2>1, MergeFollows
<1>3. CASE r.stage = "node"
  <2>1. x \in RunNode(r)
    BY <1>3 DEF Continue
  <2> QED BY <1>0, <1>3, <2>1, RunNodeFollows DEF Ready
<1>4. CASE r.stage = "finish"
  <2>1. x \in Finish(r)
    BY <1>4 DEF Continue
  <2> QED BY <1>0, <1>4, <2>1, FinishFollows
<1>5. CASE r.stage = "record"
  <2>1. x \in RecordStories(r)
    BY <1>5 DEF Continue
  <2> QED BY <1>0, <1>5, <2>1, RecordStoriesFollows DEF Ready
<1>6. CASE r.stage = "restart"
  <2>1. x \in {Saving(r, r.base, "done", "none", "done")}
    BY <1>6 DEF Continue
  <2> QED BY <1>0, <1>6, <2>1, SaveLast DEF Ready, Settles
<1>7. CASE r.stage = "close"
  <2>1. x \in Close(r)
    BY <1>7 DEF Continue
  <2> QED BY <1>0, <1>7, <2>1, CloseFollows
<1>8. CASE r.stage = "closing"
  <2>1. x \in Closing(r)
    BY <1>8 DEF Continue
  <2> QED BY <1>0, <1>8, <2>1, ClosingFollows DEF Ready
<1>9. CASE r.stage = "failing"
  <2>1. x \in Failing(r)
    BY <1>9 DEF Continue
  <2> QED BY <1>0, <1>9, <2>1, FailingFollows
<1>10. CASE r.stage = "modify"
  <2>1. x \in Modify(r)
    BY <1>10 DEF Continue
  <2> QED BY <1>0, <1>10, <2>1, ModifyFollows
<1>11. CASE r.stage = "retry"
  <2>1. x \in Retry(r)
    BY <1>11 DEF Continue
  <2> QED BY <1>0, <1>11, <2>1, RetryFollows
<1>12. CASE r.stage = "undo"
  <2>1. x \in Undo(r)
    BY <1>12 DEF Continue
  <2> QED BY <1>0, <1>12, <2>1, UndoFollows
<1>13. CASE r.stage = "approve"
  <2>1. x \in Approve(r)
    BY <1>13 DEF Continue
  <2> QED BY <1>0, <1>13, <2>1, ApproveFollows
<1>14. CASE r.stage = "epic"
  <2>1. x \in RegenerateEpic(r)
    BY <1>14 DEF Continue
  <2> QED BY <1>0, <1>14, <2>1, RegenerateEpicFollows DEF Ready
<1>15. CASE r.stage \in {"regenerate", "share"}
  BY <1>15, RegenerateFollows, ShareFollows
<1>16. CASE r.stage \in {"get", "idle", "done"}
  <2>1. x = Done(r)
    BY <1>16 DEF Continue
  <2> QED BY <1>0, <1>16, <2>1, DoneFollows DEF QuietStages
<1> QED BY <1>0, <1>1, <1>2, <1>3, <1>4, <1>5, <1>6, <1>7, <1>8, <1>9, <1>10, <1>11, <1>12, <1>13, <1>14, <1>15, <1>16
       DEF Stages, FreshStages, HeldStages

\* A request that has not begun begins with a read, or with its first save.
LEMMA StartedFits ==
  ASSUME NEW op \in Ops, NEW x \in Started(op)
  PROVE  Fit(x) /\ x.io \in {"cache", "version"} /\ ~x.broken /\ Leaves(x)
<1> DEFINE r == [Idle EXCEPT !.op = op]
<1>1. r \in Requests /\ ~r.broken /\ r.said # "RUNNING"
  <2>1. Idle \in Requests /\ ~Idle.broken /\ Idle.said = "PENDING"
    BY IdleFits DEF Idle
  <2> QED BY <2>1 DEF Requests
<1> HIDE DEF r
<1>2. ASSUME NEW next \in FreshStages, NEW err \in {"done", "fail"}, x = Reading(r, next, err)
      PROVE  Fit(x) /\ x.io \in {"cache", "version"} /\ ~x.broken /\ Leaves(x)
  BY <1>1, <1>2, ReadingFits
<1>3. CASE op = "start"
  <2>1. PICK max \in Budgets, final \in FinalModes :
           x = Launched(r, Initial(max, final))
    BY <1>3 DEF Started, r
  <2> DEFINE s == Initial(max, final)
             y == Saving(r, s, "node", "none", "done")
  <2>2. s \in Sound
    BY InitialIsSound, StoryAssumption
  <2> HIDE DEF s
  <2>3. /\ y \in Requests
        /\ y.io = "version" /\ y.mine = s /\ y.stage = "node"
        /\ y.after = "none" /\ y.err = "done" /\ y.broken = r.broken
    <3>1. "node" \in Stages /\ "none" \in Afters /\ "done" \in Errs
      BY DEF Stages, HeldStages, Afters, Errs
    <3> QED BY <1>1, <2>2, <3>1, SavingFields
  <2>4. x = [y EXCEPT !.node = 1, !.base = s]
    BY <2>1 DEF s, Launched
  <2> HIDE DEF y
  <2>5. 1 \in 0..(Planning + 3) /\ 1 # End /\ 1 # HumanReview
    BY StoryAssumption DEF End, HumanReview
  <2>6. x \in Requests
    BY <2>2, <2>3, <2>4, <2>5 DEF Requests
  <2>7. /\ x.io = "version" /\ x.mine = s /\ x.stage = "node" /\ x.base = s /\ x.node = 1
        /\ x.after = "none" /\ x.err = "done" /\ x.broken = r.broken
    BY <2>3, <2>4 DEF Requests
  <2>8. Follows(r, x)
    BY <1>1, <2>2, <2>5, <2>6, <2>7, SaveThenGo DEF HeldStages
  <2>9. Leaves(x)
    BY <2>7 DEF Leaves
  <2> QED BY <1>1, <2>7, <2>8, <2>9 DEF Follows
<1>4. CASE op \in {"generate", "validate", "review", "modify"}
  <2>1. x = Reading(r, "opening", "done")
    BY <1>4 DEF Started, r
  <2> QED BY <1>2, <2>1 DEF FreshStages
<1>5. CASE op = "retry"
  <2>1. x = Reading(r, "retry", "fail")
    BY <1>5 DEF Started, r
  <2> QED BY <1>2, <2>1 DEF FreshStages
<1>6. CASE op \in {"regenerate", "undo", "approve", "get"}
  <2>0. op \notin {"start", "generate", "validate", "review", "modify", "retry"}
    BY <1>6
  <2>1. x = Reading(r, op, "done")
    BY <2>0 DEF Started, r
  <2> QED BY <1>2, <1>6, <2>1 DEF FreshStages
<1> QED BY <1>3, <1>4, <1>5, <1>6 DEF Ops

\* An exception leaves a record that fits; nothing more is asked of it, for
\* it comes after a failure.
LEMMA RaisedFits ==
  ASSUME RowsSound, NEW r, Fit(r), r.io \in Writes \cup {"db"}, NEW x \in Raised(r)
  PROVE  Fit(x) /\ x.io \in {"none", "cache", "version", "plan", "share"}
<1>0. r \in Requests /\ r.err \in Errs
  BY DEF Fit, Requests
<1>1. CASE r.err = "fail"
  <2>1. x = Fails(r)
    BY <1>1 DEF Raised
  <2> QED BY <1>0, <2>1, FailsFollows DEF Follows
<1>2. CASE r.err = "ignore"
  <2>1. x \in Continue(r)
    BY <1>2 DEF Raised
  <2>2. r.io \in Writes /\ r.after = "none"
    BY <1>0, <1>2 DEF Fit, ReadsFirst, Reads, Writes, Requests, Afters
  <2>3. r.stage \in {"node", "finish"} /\ r.mine \in Sound /\ r.base \in Sound
    BY <1>2, <2>2 DEF Fit, Holding
  <2>4. Ready(r)
    BY <1>0, <1>2, <2>3 DEF Ready, AtNode, Fit, Holding, Concludes
  <2> QED BY <2>1, <2>4, ContinueFollows DEF Follows
<1>3. CASE r.err = "restart"
  <2> DEFINE q == [r EXCEPT !.stage = "restart"]
  <2>1. x \in Continue(q)
    BY <1>3 DEF Raised
  <2>2. q \in Requests /\ q.stage = "restart" /\ q.base = r.base /\ q.base \in Sound
    <3>1. "restart" \in Stages
      BY DEF Stages
    <3>2. r.base \in Sound
      BY <1>3 DEF Fit, Holding
    <3>3. q \in Requests
      BY <1>0, <3>1 DEF Requests
    <3> QED BY <1>0, <3>2, <3>3 DEF Requests
  <2> HIDE DEF q
  <2>3. Ready(q)
    BY <2>2 DEF Ready
  <2> QED BY <2>1, <2>3, ContinueFollows DEF Follows
<1>4. CASE r.err = "done"
  <2>1. x = Done(r)
    BY <1>4 DEF Raised
  <2> QED BY <1>0, <2>1, DoneFits
<1> QED BY <1>0, <1>1, <1>2, <1>3, <1>4 DEF Errs

----------------------------------------------------------------------------
(* Lemmas: the I/O steps.                                                  *)

LEMMA ReadReady ==
  ASSUME NEW r, Fit(r), r.io \in Reads, NEW m \in Sound \cup {NoState}
  PROVE  LET q == [r EXCEPT !.mine = m]
         IN  Ready(q) /\ q.stage = r.stage /\ q.mine = m /\ q.broken = r.broken
<1> DEFINE q == [r EXCEPT !.mine = m]
<1>1. r \in Requests
  BY DEF Fit
<1>2. q \in Requests
  BY <1>1 DEF Requests
<1>3. /\ q.stage = r.stage /\ q.mine = m /\ q.broken = r.broken
      /\ q.err = r.err /\ q.said = r.said
  BY <1>1 DEF Requests
<1> HIDE DEF q
<1>4. r.stage \in FreshStages /\ r.err \in {"done", "fail"} /\ (r.stage = "closing" => r.said # "RUNNING")
  BY DEF Fit, ReadsFirst, Concludes
<1>5. Ready(q)
  BY <1>2, <1>3, <1>4 DEF Ready, FreshStages
<1> QED BY <1>3, <1>5 DEF q

LEMMA HeldReady ==
  ASSUME NEW r, Fit(r), r.io = "refresh" \/ (r.io \in Writes /\ r.after # "cache")
  PROVE  Ready(r)
<1>1. r \in Requests /\ r.mine \in Sound
  BY DEF Fit, Holding, Writes
<1>2. CASE r.io = "refresh"
  BY <1>1, <1>2 DEF Fit, ReadsFirst, Concludes, Ready, Reads, FreshStages
<1>3. CASE r.io \in Writes /\ r.after # "cache"
  <2>1. r.after = "none"
    BY <1>1, <1>3 DEF Requests, Afters
  <2>2. r.stage \in HeldStages \cup {"done"}
    BY <1>3, <2>1 DEF Fit, GoesOn
  <2>3. /\ r.stage \in {"node", "finish"} \/ r.err = "restart" => r.base \in Sound
        /\ r.stage = "node" => r.node # End
    BY DEF Fit, Holding
  <2>4. /\ r.stage = "node" /\ r.node = HumanReview => r.mine.review /\ ~r.mine.final
        /\ r.stage = "finish" /\ r.op = "start" => r.mine.status # "RUNNING"
    BY DEF Fit, Concludes
  <2> QED BY <1>1, <2>2, <2>3, <2>4 DEF Ready, AtNode, HeldStages
<1> QED BY <1>2, <1>3

LEMMA PlanReady ==
  ASSUME NEW r, Fit(r), r.io \in {"plan", "warm"}, NEW view \in [Epics -> Wordings] \cup {None}
  PROVE  LET p == [r EXCEPT !.view = view, !.stage = "epic"]
             q == [r EXCEPT !.stage = "epic"]
         IN  /\ Ready(p) /\ p.stage = "epic" /\ p.mine = r.mine /\ p.broken = r.broken
             /\ Ready(q) /\ q.stage = "epic" /\ q.mine = r.mine /\ q.broken = r.broken
<1> DEFINE p == [r EXCEPT !.view = view, !.stage = "epic"]
           q == [r EXCEPT !.stage = "epic"]
<1>1. r \in Requests /\ r.mine \in Sound /\ (r.err = "restart" => r.base \in Sound)
  BY DEF Fit, Holding
<1>2. "epic" \in Stages
  BY DEF Stages
<1>3. p \in Requests
  BY <1>1, <1>2 DEF Requests
<1>4. q \in Requests
  BY <1>1, <1>2 DEF Requests
<1>5. /\ p.stage = "epic" /\ p.mine = r.mine /\ p.broken = r.broken
      /\ p.err = r.err /\ p.base = r.base
  BY <1>1 DEF Requests
<1>6. /\ q.stage = "epic" /\ q.mine = r.mine /\ q.broken = r.broken
      /\ q.err = r.err /\ q.base = r.base
  BY <1>1 DEF Requests
<1> HIDE DEF p, q
<1>7. Ready(p) /\ Ready(q)
  BY <1>1, <1>3, <1>4, <1>5, <1>6 DEF Ready
<1> QED BY <1>5, <1>6, <1>7 DEF p, q

LEMMA VersionsTyped ==
  ASSUME TypeInv
  PROVE  /\ RowsSound
         /\ \A v \in rows : v.version \in Nat \ {0} /\ v.state \in Sound
         /\ Newest(rows) \subseteq rows
         /\ \A a \in Agents : req[a] \in Requests /\ Fit(req[a])
BY DEF TypeInv, RowsSound, Newest

\* The next number is above all versions.
LEMMA NextNumber ==
  ASSUME TypeInv
  PROVE  LET m == Max({0} \cup {v.version : v \in rows})
         IN  1 + m \in Nat \ {0} /\ \A v \in rows : v.version < 1 + m
<1> DEFINE S == {0} \cup {v.version : v \in rows}
           m == Max(S)
<1>1. \A n \in S : n \in Nat
  BY VersionsTyped
<1>2. \E n \in S : \A k \in S : n >= k
  <2>1. CASE rows = {}
    <3>1. S = {0}
      BY <2>1
    <3> QED BY <3>1
  <2>2. CASE rows # {}
    <3>1. PICK v \in rows : \A w \in rows : w.version <= v.version
      BY <2>2 DEF TypeInv, Topped, Newest
    <3>a. v.version \in Nat
      BY VersionsTyped
    <3>2. v.version \in S /\ \A k \in S : v.version >= k
      BY <3>a, <1>1, <3>1
    <3> QED BY <3>2
  <2> QED BY <2>1, <2>2
<1>3. m \in S /\ \A k \in S : m >= k
  <2> HIDE DEF S
  <2> QED BY <1>2 DEF Max
<1>4. m \in Nat
  BY <1>1, <1>3
<1>5. \A v \in rows : v.version \in S /\ v.version \in Nat
  BY <1>1
<1> HIDE DEF m, S
<1>6. 1 + m \in Nat \ {0} /\ \A v \in rows : v.version < 1 + m
  BY <1>3, <1>4, <1>5
<1> QED BY <1>6 DEF m, S

\* A step of request a that inserts no version.
LEMMA Stepping ==
  ASSUME StoryInv, NEW a \in Agents, NEW x, Fit(x), req' = [req EXCEPT ![a] = x],
         rows' = rows, planCache' \in [Epics -> Wordings] \cup {None},
         cache' \in Sound \cup {NoState}, cache' = NoState \/ cache' \in Published,
         x.io \in {"refresh", "publish"} => x.mine \in Published,
         clean' \in BOOLEAN,
         clean' => /\ clean
                   /\ \A b \in Agents : b # a => ~InFlight(b)
                   /\ ~x.broken /\ Leaves(x) /\ Finds(x)
                   /\ x.io # "publish" => \A v \in Newest(rows) : cache' \in {NoState, v.state}
                   /\ x.io = "none" => Quiet
  PROVE  StoryInv'
<1>1. /\ req' \in [Agents -> Requests]
      /\ req'[a] = x /\ \A b \in Agents : b # a => req'[b] = req[b]
  BY DEF StoryInv, TypeInv, Fit
<1>2. TypeInv'
  <2>1. \A b \in Agents : Fit(req'[b])
    BY <1>1 DEF StoryInv, TypeInv
  <2> QED BY <1>1, <2>1 DEF StoryInv, TypeInv, Topped, Newest
<1>3. CacheInv'
  <2>1. CacheCommitted'
    BY DEF CacheCommitted, Published
  <2>2. \A b \in Agents : FromRows(req[b])'
    BY <1>1 DEF FromRows, Published, StoryInv, CacheInv
  <2> QED BY <2>1, <2>2 DEF CacheInv
<1>4. SerialInv'
  <2> SUFFICES ASSUME clean' PROVE OneAtATime'
    BY DEF SerialInv
  <2>1. OneAtATime /\ \A b \in Agents : b # a => req[b].io = "none"
    BY DEF StoryInv, SerialInv, InFlight
  <2>2. \A b, c \in Agents : InFlight(b)' /\ InFlight(c)' => b = c
    BY <1>1, <2>1 DEF InFlight
  <2>3. \A v, w \in Newest(rows') : v = w
    BY <2>1 DEF OneAtATime
  <2>4. \A b \in Agents : (~req[b].broken)' /\ Leaves(req[b])' /\ Finds(req[b])'
    <3> SUFFICES ASSUME NEW b \in Agents
                 PROVE  (~req[b].broken)' /\ Leaves(req[b])' /\ Finds(req[b])'
      OBVIOUS
    <3>1. CASE b = a
      <4>1. Finds(x)'
        BY DEF Finds, Newest, Quiet
      <4>2. Finds(req[b])'
        BY <1>1, <3>1, <4>1 DEF Finds, Newest, Quiet
      <4>3. (~req[b].broken)' /\ Leaves(req[b])'
        BY <1>1, <3>1 DEF Leaves
      <4> QED BY <4>2, <4>3
    <3>2. CASE b # a
      <4>1. req'[b] = req[b] /\ req[b].io = "none"
        BY <1>1, <2>1, <3>2
      <4>2. ~req[b].broken /\ Leaves(req[b])
        BY <2>1 DEF OneAtATime
      <4>3. Finds(req[b])'
        BY <4>1 DEF Finds, Reads
      <4>4. (~req[b].broken)' /\ Leaves(req[b])'
        BY <4>1, <4>2 DEF Leaves
      <4> QED BY <4>3, <4>4
    <3> QED BY <3>1, <3>2
  <2>5. (\A b \in Agents : req'[b].io # "publish") => CacheLatest'
    BY <1>1 DEF CacheLatest, Newest
  <2>6. (\A b \in Agents : ~InFlight(b)') => Quiet'
    BY <1>1 DEF InFlight, Quiet, Newest
  <2> QED BY <2>2, <2>3, <2>4, <2>5, <2>6 DEF OneAtATime
<1> QED BY <1>2, <1>3, <1>4 DEF StoryInv

\* Requests that come one at a time.
LEMMA Alone ==
  ASSUME StoryInv, clean, NEW a \in Agents, InFlight(a)
  PROVE  /\ OneAtATime
         /\ \A b \in Agents : b # a => ~InFlight(b)
         /\ ~req[a].broken /\ Leaves(req[a]) /\ Finds(req[a])
         /\ req[a].io # "publish" => CacheLatest
<1>1. OneAtATime
  BY DEF StoryInv, SerialInv
<1>2. \A b \in Agents : b # a => ~InFlight(b)
  BY <1>1 DEF OneAtATime
<1>3. req[a].io # "publish" => CacheLatest
  BY <1>1, <1>2 DEF OneAtATime, InFlight
<1> QED BY <1>1, <1>2, <1>3 DEF OneAtATime

----------------------------------------------------------------------------
(* Every step keeps the invariant.                                         *)

\* What every step starts from.
LEMMA Here ==
  ASSUME StoryInv, NEW a \in Agents
  PROVE  /\ TypeInv /\ CacheCommitted /\ FromRows(req[a]) /\ RowsSound
         /\ Fit(req[a]) /\ req[a] \in Requests
         /\ cache \in Sound \cup {NoState} /\ (cache = NoState \/ cache \in Published)
         /\ planCache \in [Epics -> Wordings] \cup {None} /\ clean \in BOOLEAN
         /\ Published \subseteq Sound
         /\ clean => OneAtATime
BY VersionsTyped DEF StoryInv, TypeInv, CacheInv, SerialInv, CacheCommitted, Published, Fit

\* With requests one at a time the document in Redis is the newest version.
LEMMA NewestSettled ==
  ASSUME TypeInv, Quiet, NEW s \in Published, \A v \in Newest(rows) : v.state = s
  PROVE  s.status # "RUNNING"
<1>1. rows # {}
  BY DEF Published
<1>2. PICK v \in Newest(rows) : TRUE
  BY <1>1 DEF TypeInv, Topped
<1> QED BY <1>2 DEF Quiet

LEMMA StoryBegins ==
  ASSUME StoryInv, NEW a \in Agents, Begin(a)
  PROVE  StoryInv'
<1>1. PICK x \in Started(req[a].op) : req' = [req EXCEPT ![a] = x]
  BY DEF Begin, Become
<1>2. req[a].op \in Ops
  BY Here DEF Requests
<1>3. Fit(x) /\ x.io \in {"cache", "version"} /\ ~x.broken /\ Leaves(x)
  BY <1>2, StartedFits
<1>4. clean' => clean /\ \A b \in Agents : ~InFlight(b)
  BY DEF Begin
<1>5. clean' => Quiet /\ CacheLatest
  BY <1>4, Here DEF OneAtATime, InFlight
<1>6. clean' => Finds(x)
  BY <1>3, <1>5 DEF Finds
<1>7. clean' => \A v \in Newest(rows) : cache \in {NoState, v.state}
  BY <1>5 DEF CacheLatest
<1>8. clean' \in BOOLEAN /\ UNCHANGED <<rows, cache, planCache>>
  BY DEF Begin
<1> QED BY <1>1, <1>3, <1>4, <1>5, <1>6, <1>7, <1>8, Here, Stepping

LEMMA CacheIsRead ==
  ASSUME StoryInv, NEW a \in Agents, ReadCache(a)
  PROVE  StoryInv'
<1> DEFINE r == req[a]
           q == [r EXCEPT !.mine = cache]
<1>0. UNCHANGED <<rows, cache, planCache, clean>> /\ r.io = "cache" /\ InFlight(a)
  BY DEF ReadCache, InFlight
<1>a. r.stage \in FreshStages
  BY <1>0, Here DEF Fit, ReadsFirst, Reads
<1>b. clean => /\ \A b \in Agents : b # a => ~InFlight(b)
               /\ ~r.broken /\ Finds(r) /\ CacheLatest
  BY <1>0, Alone
<1>c. clean => \A v \in Newest(rows) : cache' \in {NoState, v.state}
  BY <1>0, <1>b DEF CacheLatest
<1>1. CASE cache # NoState
  <2>1. PICK x \in Continue(q) : req' = [req EXCEPT ![a] = x]
    BY <1>1 DEF ReadCache, Become
  <2>2. Ready(q) /\ q.stage = r.stage /\ q.mine = cache /\ q.broken = r.broken
    BY <1>0, Here, ReadReady DEF Reads
  <2> HIDE DEF q
  <2>3. Follows(q, x)
    BY <2>1, <2>2, Here, ContinueFollows
  <2>4. clean /\ r.stage \in QuietStages => Quiet
    BY <1>0, <1>b DEF Finds, Reads
  <2>5. clean /\ r.stage \in QuietStages => cache.status # "RUNNING"
    <3>1. clean => \A v \in Newest(rows) : v.state = cache
      BY <1>1, <1>b DEF CacheLatest
    <3> QED BY <1>1, <2>4, <3>1, Here, NewestSettled
  <2>6. clean => Settles(q)
    BY <1>a, <2>2, <2>5 DEF Settles, FreshStages
  <2>7. clean => Finds(x)
    BY <2>2, <2>3, <2>4 DEF Follows, Finds, Reads, QuietStages
  <2>8. clean /\ x.io = "none" => Quiet
    BY <1>a, <2>2, <2>3, <2>4 DEF Follows, FreshStages
  <2>9. Fit(x) /\ x.io \notin {"refresh", "publish"} /\ x.broken = r.broken
        /\ (clean => Leaves(x))
    BY <2>2, <2>3, <2>6 DEF Follows
  <2> HIDE DEF r
  <2> QED BY <1>0, <1>b, <1>c, <2>1, <2>7, <2>8, <2>9, Here, Stepping
<1>2. CASE cache = NoState
  <2> DEFINE x == [r EXCEPT !.io = "db"]
  <2>1. req' = [req EXCEPT ![a] = x]
    BY <1>2 DEF ReadCache, Become
  <2>2. /\ x \in Requests /\ x.io = "db" /\ x.stage = r.stage /\ x.err = r.err
        /\ x.base = r.base /\ x.said = r.said /\ x.broken = r.broken
    <3>1. r \in Requests /\ "db" \in IOs
      BY Here DEF IOs, Reads
    <3>2. x \in Requests
      BY <3>1 DEF Requests
    <3> QED BY <3>1, <3>2 DEF Requests
  <2> HIDE DEF x
  <2>3. Fit(x) /\ Leaves(x)
    <3>1. r.err \in {"done", "fail"} /\ (r.stage = "closing" => r.said # "RUNNING")
      BY <1>0, Here DEF Fit, ReadsFirst, Concludes, Reads
    <3>2. ReadsFirst(x) /\ GoesOn(x) /\ Leaves(x)
      BY <1>a, <2>2, <3>1 DEF ReadsFirst, GoesOn, Leaves, Reads, Writes
    <3>3. Holding(x) /\ Concludes(x)
      BY <1>a, <2>2, <3>1 DEF Holding, Concludes, Writes, FreshStages
    <3> QED BY <2>2, <3>2, <3>3 DEF Fit
  <2>4. clean => Finds(x)
    BY <1>0, <1>b, <2>2 DEF Finds, Reads
  <2> HIDE DEF r
  <2> QED BY <1>0, <1>b, <1>c, <2>1, <2>2, <2>3, <2>4, Here, Stepping
<1> QED BY <1>1, <1>2

LEMMA DatabaseIsRead ==
  ASSUME StoryInv, NEW a \in Agents, ReadDatabase(a)
  PROVE  StoryInv'
<1> DEFINE r == req[a]
<1>0. UNCHANGED <<rows, cache, planCache, clean>> /\ r.io = "db" /\ InFlight(a)
  BY DEF ReadDatabase, InFlight
<1>a. r.stage \in FreshStages
  BY <1>0, Here DEF Fit, ReadsFirst, Reads
<1>b. clean => /\ \A b \in Agents : b # a => ~InFlight(b)
               /\ ~r.broken /\ Finds(r) /\ CacheLatest
  BY <1>0, Alone
<1>c. clean => \A v \in Newest(rows) : cache' \in {NoState, v.state}
  BY <1>0, <1>b DEF CacheLatest
<1>1. CASE r.broken
  <2>1. PICK x \in Raised(r) : req' = [req EXCEPT ![a] = x]
    BY <1>1 DEF ReadDatabase, Become
  <2>2. Fit(x) /\ x.io \notin {"refresh", "publish"}
    BY <1>0, Here, RaisedFits
  <2>3. ~clean
    BY <1>1, <1>b
  <2> HIDE DEF r
  <2> QED BY <1>0, <2>1, <2>2, <2>3, Here, Stepping
<1>2. CASE ~r.broken /\ rows = {}
  <2> DEFINE q == [r EXCEPT !.mine = NoState]
  <2>1. PICK x \in Continue(q) : req' = [req EXCEPT ![a] = x]
    BY <1>2 DEF ReadDatabase, Become
  <2>2. Ready(q) /\ q.stage = r.stage /\ q.mine = NoState /\ q.broken = r.broken
    BY <1>0, Here, ReadReady DEF Reads
  <2> HIDE DEF q
  <2>3. Follows(q, x)
    BY <2>1, <2>2, Here, ContinueFollows
  <2>4. Quiet
    BY <1>2 DEF Quiet, Newest
  <2>5. Settles(q)
    BY <1>a, <2>2 DEF Settles, FreshStages
  <2>6. Finds(x)
    BY <2>3, <2>4 DEF Follows, Finds
  <2>7. Fit(x) /\ x.io \notin {"refresh", "publish"} /\ x.broken = r.broken /\ Leaves(x)
    BY <2>2, <2>3, <2>5 DEF Follows
  <2> HIDE DEF r
  <2> QED BY <1>0, <1>b, <1>c, <2>1, <2>4, <2>6, <2>7, Here, Stepping
<1>3. CASE ~r.broken /\ rows # {}
  <2>1. PICK v \in Newest(rows) :
           req' = [req EXCEPT ![a] = [r EXCEPT !.mine = v.state, !.io = "refresh"]]
    BY <1>3 DEF ReadDatabase, Become
  <2> DEFINE x == [r EXCEPT !.mine = v.state, !.io = "refresh"]
  <2>2. v.state \in Sound /\ v.state \in Published
    BY Here, VersionsTyped DEF Published
  <2>3. /\ x \in Requests /\ x.io = "refresh" /\ x.mine = v.state /\ x.stage = r.stage
        /\ x.err = r.err /\ x.base = r.base /\ x.said = r.said /\ x.broken = r.broken
    <3>1. r \in Requests /\ "refresh" \in IOs
      BY Here DEF IOs, Reads
    <3>2. x \in Requests
      BY <2>2, <3>1 DEF Requests
    <3> QED BY <3>1, <3>2 DEF Requests
  <2>a. req' = [req EXCEPT ![a] = x]
    BY <2>1
  <2> HIDE DEF x
  <2>4. Fit(x) /\ Leaves(x)
    <3>1. r.err \in {"done", "fail"} /\ (r.stage = "closing" => r.said # "RUNNING")
      BY <1>0, Here DEF Fit, ReadsFirst, Concludes, Reads
    <3>2. ReadsFirst(x) /\ GoesOn(x) /\ Leaves(x)
      BY <1>a, <2>3, <3>1 DEF ReadsFirst, GoesOn, Leaves, Reads, Writes
    <3>3. Holding(x) /\ Concludes(x)
      BY <1>a, <2>2, <2>3, <3>1 DEF Holding, Concludes, Writes, FreshStages
    <3> QED BY <2>3, <3>2, <3>3 DEF Fit
  <2>5. clean => \A w \in Newest(rows) : w.state = x.mine
    BY <2>3, Here DEF OneAtATime
  <2>6. clean => Finds(x)
    BY <1>0, <1>b, <2>3, <2>5 DEF Finds, Reads
  <2> HIDE DEF r
  <2> QED BY <1>0, <1>b, <1>c, <2>a, <2>2, <2>3, <2>4, <2>6, Here, Stepping
<1> QED BY <1>1, <1>2, <1>3

LEMMA CacheIsRefreshed ==
  ASSUME StoryInv, NEW a \in Agents, RefreshCache(a)
  PROVE  StoryInv'
<1> DEFINE r == req[a]
<1>0. UNCHANGED <<rows, planCache, clean>> /\ r.io = "refresh" /\ InFlight(a) /\ cache' = r.mine
  BY DEF RefreshCache, InFlight
<1>1. PICK x \in Continue(r) : req' = [req EXCEPT ![a] = x]
  BY DEF RefreshCache, Become
<1>2. r.stage \in FreshStages
  BY <1>0, Here DEF Fit, ReadsFirst, Reads
<1>3. clean => /\ \A b \in Agents : b # a => ~InFlight(b)
               /\ ~r.broken /\ Finds(r)
  BY <1>0, Alone
<1>4. r.mine \in Sound /\ r.mine \in Published
  BY <1>0, Here DEF FromRows
<1>5. Follows(r, x)
  BY <1>0, <1>1, Here, HeldReady, ContinueFollows
<1>6. clean => \A v \in Newest(rows) : v.state = r.mine
  BY <1>0, <1>3 DEF Finds
<1>7. clean /\ r.stage \in QuietStages => Quiet
  BY <1>0, <1>3 DEF Finds, Reads
<1>8. clean /\ r.stage \in QuietStages => r.mine.status # "RUNNING"
  BY <1>4, <1>6, <1>7, Here, NewestSettled
<1>9. clean => Settles(r)
  BY <1>2, <1>8 DEF Settles, FreshStages
<1>10. clean => Finds(x)
  BY <1>5, <1>7 DEF Follows, Finds, Reads, QuietStages
<1>11. clean /\ x.io = "none" => Quiet
  BY <1>2, <1>5, <1>7 DEF Follows, FreshStages
<1>12. Fit(x) /\ x.io \notin {"refresh", "publish"} /\ x.broken = r.broken /\ (clean => Leaves(x))
  BY <1>5, <1>9 DEF Follows
<1> HIDE DEF r
<1> QED BY <1>0, <1>1, <1>3, <1>4, <1>6, <1>10, <1>11, <1>12, Here, Stepping

\* A request that keeps its copy and its stage and goes on to another I/O step
\* of the same save.
LEMMA SaveGoesOn ==
  ASSUME NEW r, Fit(r), r.io \in Writes, NEW x \in Requests, x.io \in Writes,
         x.stage = r.stage, x.after = r.after, x.err = r.err, x.mine = r.mine,
         x.base = r.base, x.node = r.node, x.op = r.op, x.said = r.said,
         x.io = "commit" => x.ver # 0
  PROVE  Fit(x) /\ (Leaves(r) => Leaves(x))
<1>1. ReadsFirst(x)
  BY DEF Fit, ReadsFirst, Reads, Writes
<1>2. GoesOn(x)
  BY DEF Fit, GoesOn
<1>3. Holding(x)
  BY DEF Fit, Holding, Writes
<1>4. Concludes(x)
  BY DEF Fit, Concludes
<1>5. Leaves(r) => Leaves(x)
  BY DEF Leaves, Writes
<1> QED BY <1>1, <1>2, <1>3, <1>4, <1>5 DEF Fit

LEMMA VersionIsNumbered ==
  ASSUME StoryInv, NEW a \in Agents, NextVersion(a)
  PROVE  StoryInv'
<1> DEFINE r == req[a]
           n == 1 + Max({0} \cup {v.version : v \in rows})
           x == [r EXCEPT !.ver = n, !.io = "commit"]
<1>0. UNCHANGED <<rows, cache, planCache, clean>> /\ r.io = "version" /\ InFlight(a)
  BY DEF NextVersion, InFlight
<1>b. clean => /\ \A b \in Agents : b # a => ~InFlight(b)
               /\ ~r.broken /\ Leaves(r) /\ CacheLatest
  BY <1>0, Alone
<1>c. clean => \A v \in Newest(rows) : cache' \in {NoState, v.state}
  BY <1>0, <1>b DEF CacheLatest
<1>1. CASE r.broken
  <2>1. PICK y \in Raised(r) : req' = [req EXCEPT ![a] = y]
    BY <1>1 DEF NextVersion, Become
  <2>2. Fit(y) /\ y.io \notin {"refresh", "publish"}
    BY <1>0, Here, RaisedFits DEF Writes
  <2>3. ~clean
    BY <1>1, <1>b
  <2> HIDE DEF r, x
  <2> QED BY <1>0, <2>1, <2>2, <2>3, Here, Stepping
<1>2. CASE ~r.broken
  <2>1. req' = [req EXCEPT ![a] = x]
    BY <1>2 DEF NextVersion, Become
  <2>2. n \in Nat \ {0} /\ \A v \in rows : v.version < n
    BY Here, NextNumber
  <2> HIDE DEF n
  <2>3. x \in Requests
    <3>1. r \in Requests /\ "commit" \in IOs
      BY Here DEF IOs, Writes
    <3> QED BY <2>2, <3>1 DEF Requests
  <2>4. /\ x.io = "commit" /\ x.ver = n /\ x.stage = r.stage /\ x.after = r.after
        /\ x.err = r.err /\ x.mine = r.mine /\ x.base = r.base /\ x.node = r.node
        /\ x.op = r.op /\ x.said = r.said /\ x.broken = r.broken
    BY Here DEF Requests
  <2> HIDE DEF x
  <2>5. Fit(x) /\ (Leaves(r) => Leaves(x))
    BY <1>0, <2>2, <2>3, <2>4, Here, SaveGoesOn DEF Writes
  <2>6. Finds(x)
    BY <2>2, <2>4 DEF Finds, Reads
  <2> HIDE DEF r
  <2> QED BY <1>0, <1>b, <1>c, <2>1, <2>4, <2>5, <2>6, Here, Stepping
<1> QED BY <1>1, <1>2

LEMMA FlushFailed ==
  ASSUME StoryInv, NEW a \in Agents, FlushFails(a)
  PROVE  StoryInv'
<1> DEFINE r == req[a]
           q == [r EXCEPT !.broken = TRUE]
<1>0. UNCHANGED <<rows, cache, planCache>> /\ r.io = "commit" /\ clean' = FALSE
  BY DEF FlushFails
<1>1. PICK x \in Raised(q) : req' = [req EXCEPT ![a] = x]
  BY DEF FlushFails, Become
<1>2. Fit(q) /\ q.io \in Writes
  <2>1. q \in Requests
    BY Here DEF Requests
  <2>2. /\ q.io = r.io /\ q.stage = r.stage /\ q.after = r.after /\ q.err = r.err
        /\ q.mine = r.mine /\ q.base = r.base /\ q.node = r.node /\ q.op = r.op
        /\ q.said = r.said /\ q.ver = r.ver
    BY Here DEF Requests
  <2>3. r.ver # 0
    BY <1>0, Here DEF Fit, Holding
  <2> HIDE DEF q
  <2> QED BY <1>0, <2>1, <2>2, <2>3, Here, SaveGoesOn DEF Writes
<1> HIDE DEF q, r
<1>3. Fit(x) /\ x.io \notin {"refresh", "publish"}
  BY <1>1, <1>2, Here, RaisedFits
<1> QED BY <1>0, <1>1, <1>3, Here, Stepping

LEMMA Committed ==
  ASSUME StoryInv, NEW a \in Agents, Commit(a)
  PROVE  StoryInv'
<1> DEFINE r == req[a]
           x == [r EXCEPT !.io = "publish"]
           new == [version |-> r.ver, state |-> r.mine]
<1>0. /\ UNCHANGED <<cache, planCache, clean>> /\ r.io = "commit" /\ InFlight(a)
      /\ rows' = rows \cup {new} /\ req' = [req EXCEPT ![a] = x]
  BY DEF Commit, Become, InFlight
<1>1. x \in Requests
  <2>1. r \in Requests /\ "publish" \in IOs
    BY Here DEF IOs, Writes
  <2> QED BY <2>1 DEF Requests
<1>2. /\ x.io = "publish" /\ x.stage = r.stage /\ x.after = r.after
      /\ x.err = r.err /\ x.mine = r.mine /\ x.base = r.base /\ x.node = r.node
      /\ x.op = r.op /\ x.said = r.said /\ x.broken = r.broken
  BY Here DEF Requests
<1> HIDE DEF x
<1>3. Fit(x) /\ (Leaves(r) => Leaves(x))
  BY <1>0, <1>1, <1>2, Here, SaveGoesOn DEF Writes
<1>4. r.ver \in Nat \ {0} /\ r.mine \in Sound
  BY <1>0, Here DEF Fit, Holding, Writes, Requests
<1>5. new \in [version : Nat \ {0}, state : Sound] /\ new.version = r.ver /\ new.state = r.mine
  BY <1>4
<1>6. /\ req' \in [Agents -> Requests]
      /\ req'[a] = x /\ \A b \in Agents : b # a => req'[b] = req[b]
  BY <1>0, <1>1, Here DEF TypeInv
<1> HIDE DEF new, r
<1>7. TypeInv'
  <2>1. \A v \in rows' : v \in [version : Nat \ {0}, state : Sound]
    BY <1>0, <1>5, Here DEF TypeInv
  <2>2. Topped'
    <3>1. \E t \in rows' : \A w \in rows' : w.version <= t.version
      <4>1. CASE rows = {}
        BY <1>0, <1>4, <1>5, <4>1
      <4>2. CASE rows # {}
        <5>1. PICK t \in rows : \A w \in rows : w.version <= t.version
          BY <4>2, Here DEF TypeInv, Topped, Newest
        <5>2. t.version \in Nat /\ \A w \in rows : w.version \in Nat
          BY Here, VersionsTyped
        <5>3. CASE t.version <= r.ver
          BY <1>0, <1>4, <1>5, <5>1, <5>2, <5>3
        <5>4. CASE ~(t.version <= r.ver)
          BY <1>0, <1>4, <1>5, <5>1, <5>2, <5>4
        <5> QED BY <5>3, <5>4
      <4> QED BY <4>1, <4>2
    <3> QED BY <3>1 DEF Topped, Newest
  <2>3. \A b \in Agents : Fit(req'[b])
    BY <1>3, <1>6, Here DEF TypeInv
  <2> QED BY <1>0, <1>6, <2>1, <2>2, <2>3, Here DEF TypeInv
<1>8. CacheInv'
  <2>1. CacheCommitted'
    BY <1>0, Here DEF CacheCommitted
  <2>2. \A b \in Agents : FromRows(req[b])'
    <3> SUFFICES ASSUME NEW b \in Agents PROVE FromRows(req[b])'
      OBVIOUS
    <3>1. CASE b = a
      BY <1>0, <1>2, <1>5, <1>6, <3>1 DEF FromRows, Published
    <3>2. CASE b # a
      BY <1>0, <1>6, <3>2, Here DEF FromRows, Published
    <3> QED BY <3>1, <3>2
  <2> QED BY <2>1, <2>2 DEF CacheInv
<1>9. SerialInv'
  <2> SUFFICES ASSUME clean PROVE OneAtATime'
    BY <1>0 DEF SerialInv
  <2>1. /\ OneAtATime /\ \A b \in Agents : b # a => req[b].io = "none"
        /\ ~r.broken /\ Leaves(r) /\ Finds(r)
    BY <1>0, Alone DEF InFlight, r
  <2>2. \A v \in rows : v.version < r.ver
    BY <1>0, <2>1 DEF Finds
  <2>3. Newest(rows') = {new}
    <3>1. \A v \in rows : v.version \in Nat
      BY Here, VersionsTyped
    <3> QED BY <1>0, <1>4, <1>5, <2>2, <3>1 DEF Newest
  <2>4. \A b, c \in Agents : InFlight(b)' /\ InFlight(c)' => b = c
    BY <1>6, <2>1 DEF InFlight
  <2>5. \A b \in Agents : (~req[b].broken)' /\ Leaves(req[b])' /\ Finds(req[b])'
    <3> SUFFICES ASSUME NEW b \in Agents
                 PROVE  (~req[b].broken)' /\ Leaves(req[b])' /\ Finds(req[b])'
      OBVIOUS
    <3>1. CASE b = a
      <4>1. (~req[b].broken)' /\ Leaves(req[b])'
        BY <1>2, <1>3, <1>6, <2>1, <3>1 DEF Leaves
      <4>2. Finds(req[b])'
        BY <1>2, <1>5, <1>6, <2>3, <3>1 DEF Finds, Reads
      <4> QED BY <4>1, <4>2
    <3>2. CASE b # a
      <4>1. req'[b] = req[b] /\ req[b].io = "none"
        BY <1>6, <2>1, <3>2
      <4>2. ~req[b].broken /\ Leaves(req[b])
        BY <2>1 DEF OneAtATime
      <4>3. Finds(req[b])'
        BY <4>1 DEF Finds, Reads
      <4>4. (~req[b].broken)' /\ Leaves(req[b])'
        BY <4>1, <4>2 DEF Leaves
      <4> QED BY <4>3, <4>4
    <3> QED BY <3>1, <3>2
  <2>6. req'[a].io = "publish"
    BY <1>2, <1>6
  <2>7. \A v, w \in Newest(rows') : v = w
    BY <2>3
  <2> QED BY <2>4, <2>5, <2>6, <2>7 DEF OneAtATime, InFlight
<1> QED BY <1>7, <1>8, <1>9 DEF StoryInv

LEMMA CacheIsUpdated ==
  ASSUME StoryInv, NEW a \in Agents, UpdateCache(a)
  PROVE  StoryInv'
<1> DEFINE r == req[a]
<1>0. UNCHANGED <<rows, planCache>> /\ r.io = "publish" /\ InFlight(a)
  BY DEF UpdateCache, InFlight
<1>1. \/ cache' = r.mine /\ clean' = clean
      \/ cache' = cache /\ clean' = FALSE
  BY DEF UpdateCache
<1>2. clean => /\ \A b \in Agents : b # a => ~InFlight(b)
               /\ ~r.broken /\ Leaves(r) /\ Finds(r)
  BY <1>0, Alone
<1>3. r.mine \in Sound /\ r.mine \in Published
  BY <1>0, Here DEF FromRows
<1>4. clean => \A v \in Newest(rows) : v.state = r.mine
  BY <1>0, <1>2 DEF Finds
<1>5. clean' => \A v \in Newest(rows) : cache' \in {NoState, v.state}
  BY <1>1, <1>4
<1>6. /\ cache' \in Sound \cup {NoState} /\ (cache' = NoState \/ cache' \in Published)
      /\ clean' \in BOOLEAN /\ (clean' => clean)
  <2>1. clean \in BOOLEAN
    BY Here
  <2>2. clean' \in BOOLEAN /\ (clean' => clean)
    <3>1. CASE cache' = r.mine /\ clean' = clean
      BY <2>1, <3>1
    <3>2. CASE cache' = cache /\ clean' = FALSE
      BY <3>2
    <3> QED BY <1>1, <3>1, <3>2
  <2>3. cache' \in Sound \cup {NoState} /\ (cache' = NoState \/ cache' \in Published)
    BY <1>1, <1>3, Here
  <2> QED BY <2>2, <2>3
<1>7. CASE r.after = "cache"
  <2> DEFINE x == [r EXCEPT !.io = "cache"]
  <2>1. req' = [req EXCEPT ![a] = x]
    BY <1>7 DEF UpdateCache, Become
  <2>2. x \in Requests
    <3>1. r \in Requests /\ "cache" \in IOs
      BY Here DEF IOs, Reads
    <3> QED BY <3>1 DEF Requests
  <2>3. /\ x.io = "cache" /\ x.stage = r.stage /\ x.err = r.err /\ x.broken = r.broken
    BY Here DEF Requests
  <2>4. r.stage \in {"modify", "merge", "failing"} /\ r.err \in {"done", "fail"}
    BY <1>0, <1>7, Here DEF Fit, ReadsFirst, Writes
  <2> HIDE DEF x
  <2>5. ReadsFirst(x) /\ GoesOn(x) /\ Leaves(x)
    BY <2>3, <2>4 DEF ReadsFirst, GoesOn, Leaves, Reads, Writes, FreshStages
  <2>6. Holding(x) /\ Concludes(x)
    BY <2>3, <2>4 DEF Holding, Concludes, Writes
  <2>7. Finds(x)
    BY <2>3, <2>4 DEF Finds, QuietStages
  <2>8. Fit(x)
    BY <2>2, <2>5, <2>6 DEF Fit
  <2> HIDE DEF r
  <2> QED BY <1>0, <1>2, <1>5, <1>6, <2>1, <2>3, <2>5, <2>7, <2>8, Here, Stepping
<1>8. CASE r.after # "cache"
  <2>1. PICK x \in Continue(r) : req' = [req EXCEPT ![a] = x]
    BY <1>8 DEF UpdateCache, Become
  <2>2. Follows(r, x)
    BY <1>0, <1>8, <2>1, Here, HeldReady, ContinueFollows DEF Writes
  <2>3. r.stage \in HeldStages \cup {"done"}
    BY <1>0, <1>8, Here DEF Fit, GoesOn, Writes, Requests, Afters
  <2>4. clean /\ r.stage \in {"share", "done"} => r.mine.status # "RUNNING"
    BY <1>0, <1>2 DEF Leaves, Writes
  <2>5. clean /\ r.stage \in {"share", "done"} => Quiet
    BY <1>4, <2>4 DEF Quiet
  <2>6. clean => Settles(r)
    BY <2>3, <2>4 DEF Settles, HeldStages, QuietStages
  <2>7. clean => Finds(x)
    BY <2>2, <2>3, <2>5 DEF Follows, Finds, Reads, HeldStages
  <2>8. clean /\ x.io = "none" => Quiet
    BY <2>2, <2>3, <2>5 DEF Follows, HeldStages, QuietStages
  <2>9. Fit(x) /\ x.io \notin {"refresh", "publish"} /\ x.broken = r.broken
        /\ (clean => Leaves(x))
    BY <2>2, <2>6 DEF Follows
  <2> HIDE DEF r
  <2> QED BY <1>0, <1>2, <1>5, <1>6, <2>1, <2>7, <2>8, <2>9, Here, Stepping
<1> QED BY <1>7, <1>8

\* The steps on the plan in Redis change neither the versions nor the document.
LEMMA PlanIsRead ==
  ASSUME StoryInv, NEW a \in Agents, ReadPlan(a) \/ WarmPlan(a)
  PROVE  StoryInv'
<1> DEFINE r == req[a]
<1>0. UNCHANGED <<rows, cache, clean>> /\ r.io \in {"plan", "warm"} /\ InFlight(a)
  BY DEF ReadPlan, WarmPlan, InFlight
<1>1. r.stage = "regenerate" /\ r.mine \in Sound /\ r.view \in [Epics -> Wordings] \cup {None}
  BY <1>0, Here DEF Fit, Holding, Requests
<1>2. clean => /\ \A b \in Agents : b # a => ~InFlight(b)
               /\ ~r.broken /\ Leaves(r) /\ Finds(r) /\ CacheLatest
  BY <1>0, Alone
<1>3. clean => \A v \in Newest(rows) : cache' \in {NoState, v.state}
  BY <1>0, <1>2 DEF CacheLatest
<1>4. clean => Quiet /\ r.mine.status # "RUNNING"
  BY <1>0, <1>1, <1>2 DEF Finds, Leaves, QuietStages
<1>5. planCache' \in [Epics -> Wordings] \cup {None}
  BY <1>1, Here DEF ReadPlan, WarmPlan
<1>6. CASE /\ r.io = "plan" /\ planCache = None
           /\ req' = [req EXCEPT ![a] = [r EXCEPT !.view = r.mine.epics, !.io = "warm"]]
  <2> DEFINE x == [r EXCEPT !.view = r.mine.epics, !.io = "warm"]
  <2>1. x \in Requests
    <3>1. r \in Requests /\ "warm" \in IOs /\ r.mine.epics \in [Epics -> Wordings] \cup {None}
      BY <1>1, Here, SoundFields DEF IOs
    <3> QED BY <3>1 DEF Requests
  <2>2. /\ x.io = "warm" /\ x.stage = r.stage /\ x.mine = r.mine
        /\ x.err = r.err /\ x.base = r.base /\ x.broken = r.broken
    BY Here DEF Requests
  <2>3. r.err = "restart" => r.base \in Sound
    BY Here DEF Fit, Holding
  <2>a. req' = [req EXCEPT ![a] = x]
    BY <1>6
  <2> HIDE DEF x
  <2>4. ReadsFirst(x) /\ GoesOn(x)
    BY <1>1, <2>2 DEF ReadsFirst, GoesOn, Reads, Writes
  <2>5. Holding(x) /\ Concludes(x)
    BY <1>1, <2>2, <2>3 DEF Holding, Concludes, Writes
  <2>6. clean => Leaves(x) /\ Finds(x)
    BY <1>1, <1>4, <2>2 DEF Leaves, Finds, Writes, Reads
  <2>7. Fit(x)
    BY <2>1, <2>4, <2>5 DEF Fit
  <2> HIDE DEF r
  <2> QED BY <1>0, <1>2, <1>3, <1>5, <2>a, <2>2, <2>6, <2>7, Here, Stepping
<1>7. ASSUME NEW q, Ready(q), q.stage = "epic", q.mine = r.mine, q.broken = r.broken,
             NEW x \in Continue(q), req' = [req EXCEPT ![a] = x]
      PROVE  StoryInv'
  <2>1. Follows(q, x)
    BY <1>7, Here, ContinueFollows
  <2>2. clean => Settles(q)
    BY <1>4, <1>7 DEF Settles, QuietStages
  <2>3. clean => Finds(x)
    BY <1>4, <2>1 DEF Follows, Finds
  <2>4. Fit(x) /\ x.io \notin {"refresh", "publish"} /\ x.broken = r.broken
        /\ (clean => Leaves(x))
    BY <1>7, <2>1, <2>2 DEF Follows
  <2> HIDE DEF r
  <2> QED BY <1>0, <1>2, <1>3, <1>4, <1>5, <1>7, <2>3, <2>4, Here, Stepping
<1>8. CASE ReadPlan(a) /\ planCache # None
  <2> DEFINE q == [r EXCEPT !.view = planCache, !.stage = "epic"]
  <2>1. PICK x \in Continue(q) : req' = [req EXCEPT ![a] = x]
    BY <1>8 DEF ReadPlan, Become
  <2>2. Ready(q) /\ q.stage = "epic" /\ q.mine = r.mine /\ q.broken = r.broken
    BY <1>0, Here, PlanReady
  <2> HIDE DEF q, r
  <2> QED BY <1>7, <2>1, <2>2
<1>9. CASE ReadPlan(a) /\ planCache = None
  BY <1>6, <1>9 DEF ReadPlan, Become
<1>10. CASE WarmPlan(a)
  <2> DEFINE q == [r EXCEPT !.stage = "epic"]
  <2>1. PICK x \in Continue(q) : req' = [req EXCEPT ![a] = x]
    BY <1>10 DEF WarmPlan, Become
  <2>2. Ready(q) /\ q.stage = "epic" /\ q.mine = r.mine /\ q.broken = r.broken
    BY <1>0, <1>1, Here, PlanReady
  <2> HIDE DEF q, r
  <2> QED BY <1>7, <2>1, <2>2
<1> QED BY <1>8, <1>9, <1>10

LEMMA PlanIsShared ==
  ASSUME StoryInv, NEW a \in Agents, SharePlan(a)
  PROVE  StoryInv'
<1> DEFINE r == req[a]
           x == Done(r)
<1>0. /\ UNCHANGED <<rows, cache, clean>> /\ r.io = "share" /\ InFlight(a)
      /\ planCache' = r.view /\ req' = [req EXCEPT ![a] = x]
  BY DEF SharePlan, InFlight, Become
<1>1. r.stage = "share" /\ r.view \in [Epics -> Wordings] \cup {None}
  BY <1>0, Here DEF Fit, Holding, Requests
<1>2. clean => /\ \A b \in Agents : b # a => ~InFlight(b)
               /\ ~r.broken /\ Finds(r) /\ CacheLatest
  BY <1>0, Alone
<1>3. clean => \A v \in Newest(rows) : cache' \in {NoState, v.state}
  BY <1>0, <1>2 DEF CacheLatest
<1>4. clean => Quiet
  BY <1>0, <1>1, <1>2 DEF Finds, QuietStages
<1>5. Fit(x) /\ Leaves(x) /\ x.io = "none" /\ x.broken = r.broken
  BY Here, DoneFits
<1> HIDE DEF x, r
<1>6. Finds(x)
  BY <1>5 DEF Finds, Reads
<1> QED BY <1>0, <1>1, <1>2, <1>3, <1>4, <1>5, <1>6, Here, Stepping

LEMMA CacheExpires ==
  ASSUME StoryInv, Expire
  PROVE  StoryInv'
<1>0. UNCHANGED <<rows, planCache, req, clean>> /\ cache' = NoState
  BY DEF Expire
<1>1. TypeInv'
  BY <1>0 DEF StoryInv, TypeInv, Topped, Newest
<1>2. CacheInv'
  BY <1>0 DEF StoryInv, CacheInv, CacheCommitted, FromRows, Published
<1>3. SerialInv'
  BY <1>0 DEF StoryInv, SerialInv, OneAtATime, InFlight, Newest, Leaves, Finds, Quiet, CacheLatest
<1> QED BY <1>1, <1>2, <1>3 DEF StoryInv

----------------------------------------------------------------------------
(* The initial states.                                                     *)

\* The workflow an earlier run delivered is a sound document.
LEMMA DeliveredIsSound == Delivered \in Sound /\ Delivered.status # "RUNNING"
<1> DEFINE t == CHOOSE t \in Texts : TRUE
           epics == [e \in Epics |-> FirstWording]
           stories == [i \in Stories |-> [text |-> t, tries |-> 0]]
           i0 == Initial(DefaultRetries, FALSE)
           s == [i0 EXCEPT !.status = "COMPLETED", !.plan = Planning, !.verdict = "passed",
                           !.epics = epics, !.stories = stories]
<1>0. t \in Texts /\ epics \in [Epics -> Wordings] /\ stories \in [Stories -> StoryTexts]
  BY StoryAssumption DEF StoryTexts
<1>1. Delivered = Record(Record(s, s.epics), s.stories)
  BY DEF Delivered
<1> HIDE DEF t, epics, stories
<1>2. i0 \in Documents /\ i0.history = {}
  BY InitialIsSound, SoundFields
<1> HIDE DEF i0
<1>3. Planning \in 0..Planning /\ "passed" \in Verdicts \cup {"none"} /\ "COMPLETED" \in Statuses
  BY StoryAssumption DEF Statuses
<1>4. s \in Documents
  BY <1>0, <1>2, <1>3 DEF Documents, StoryTexts
<1>5. /\ s.history = {} /\ s.status = "COMPLETED" /\ s.verdict = "passed"
      /\ s.stories = stories
  BY <1>2 DEF Documents
<1> HIDE DEF s
<1>6. s.stories # None
  BY <1>0, <1>5, NoneIsEmpty, StoryAssumption
<1>7. s \in Sound
  <2>1. \A i : Snapshots(s, i) = {}
    BY <1>5 DEF Snapshots
  <2>2. Numbered(s)
    <3>1. NumberedUpTo({}, 0)
      BY DEF NumberedUpTo
    <3> QED BY <2>1, <3>1 DEF Numbered
  <2>3. ContentsFit(s) /\ WellJudged(s)
    BY <1>5, <1>6 DEF ContentsFit, WellJudged
  <2> QED BY <1>4, <2>2, <2>3 DEF Sound
<1> DEFINE d == Record(s, s.epics)
<1>8. d \in Sound /\ d.status = "COMPLETED" /\ d.stories = s.stories
  BY <1>5, <1>7, OwnFit, RecordIsSound
<1> HIDE DEF d
<1>9. Record(d, s.stories) \in Sound /\ Record(d, s.stories).status = "COMPLETED"
  BY <1>8, OwnFit, RecordIsSound
<1>10. Delivered = Record(d, s.stories)
  BY <1>1 DEF d
<1> QED BY <1>9, <1>10

LEMMA StoryInit ==
  ASSUME Init
  PROVE  StoryInv
<1>1. ASSUME NEW a \in Agents
      PROVE  /\ Fit(req[a]) /\ Leaves(req[a]) /\ ~req[a].broken
             /\ req[a].io = "none" /\ req[a] \in Requests
  <2>1. PICK mix \in Mixes : req = [b \in Agents |-> [Idle EXCEPT !.op = mix[b]]]
    BY DEF Init
  <2>2. mix[a] \in Ops
    BY StoryAssumption
  <2> DEFINE x == [Idle EXCEPT !.op = mix[a]]
  <2>3. req[a] = x
    BY <2>1
  <2>4. x \in Requests
    BY <2>2, IdleFits DEF Requests
  <2>5. x.io = "none" /\ x.stage = "idle" /\ x.err = "done" /\ ~x.broken
    BY IdleFits DEF Requests
  <2> HIDE DEF x
  <2>6. ReadsFirst(x) /\ GoesOn(x) /\ Leaves(x)
    BY <2>5 DEF ReadsFirst, GoesOn, Leaves, Reads, Writes
  <2>7. Holding(x) /\ Concludes(x)
    BY <2>5 DEF Holding, Concludes, Writes
  <2> QED BY <2>3, <2>4, <2>5, <2>6, <2>7 DEF Fit
<1>2. rows \in {{}, {[version |-> 1, state |-> Delivered]}} /\ cache = NoState
      /\ planCache = None /\ clean = TRUE
  BY DEF Init
<1>3. /\ \A v \in rows : v \in [version : Nat \ {0}, state : Sound]
      /\ Quiet /\ Topped /\ \A v, w \in Newest(rows) : v = w
  <2>1. CASE rows = {}
    BY <2>1 DEF Quiet, Topped, Newest
  <2>2. CASE rows = {[version |-> 1, state |-> Delivered]}
    <3> DEFINE v == [version |-> 1, state |-> Delivered]
    <3>1. v.version = 1 /\ v.state = Delivered /\ 1 <= 1
      OBVIOUS
    <3>2. v \in [version : Nat \ {0}, state : Sound]
      BY DeliveredIsSound
    <3>3. rows = {v}
      BY <2>2
    <3> HIDE DEF v
    <3>4. Newest(rows) = {v}
      BY <3>1, <3>3 DEF Newest
    <3>5. Quiet
      BY <3>1, <3>4, DeliveredIsSound DEF Quiet
    <3> QED BY <3>2, <3>3, <3>4, <3>5 DEF Topped
  <2> QED BY <1>2, <2>1, <2>2
<1>4. req \in [Agents -> Requests]
  <2>1. PICK mix \in Mixes : req = [b \in Agents |-> [Idle EXCEPT !.op = mix[b]]]
    BY DEF Init
  <2> QED BY <1>1, <2>1
<1>5. TypeInv
  BY <1>1, <1>2, <1>3, <1>4 DEF TypeInv
<1>6. CacheInv
  BY <1>1, <1>2 DEF CacheInv, CacheCommitted, FromRows
<1>7. \A a \in Agents : Finds(req[a])
  BY <1>1 DEF Finds, Reads
<1>8. OneAtATime
  BY <1>1, <1>2, <1>3, <1>7 DEF OneAtATime, InFlight, CacheLatest
<1> QED BY <1>5, <1>6, <1>8 DEF StoryInv, SerialInv

LEMMA StoryStep ==
  ASSUME StoryInv, [Next]_vars
  PROVE  StoryInv'
<1>1. CASE Expire
  BY <1>1, CacheExpires
<1>2. ASSUME NEW a \in Agents, Handle(a) PROVE StoryInv'
  BY <1>2, StoryBegins, CacheIsRead, DatabaseIsRead, CacheIsRefreshed, VersionIsNumbered,
     FlushFailed, Committed, CacheIsUpdated, PlanIsRead, PlanIsShared DEF Handle
<1>3. CASE UNCHANGED vars
  <2>1. UNCHANGED <<rows, cache, planCache, req, clean>>
    BY <1>3 DEF vars
  <2>2. TypeInv'
    BY <2>1 DEF StoryInv, TypeInv, Topped, Newest
  <2>3. CacheInv'
    BY <2>1 DEF StoryInv, CacheInv, CacheCommitted, FromRows, Published
  <2>4. SerialInv'
    BY <2>1 DEF StoryInv, SerialInv, OneAtATime, InFlight, Newest, Leaves, Finds, Quiet,
                CacheLatest
  <2> QED BY <2>2, <2>3, <2>4 DEF StoryInv
<1> QED BY <1>1, <1>2, <1>3 DEF Next

\* The invariant behind all the others holds, whatever the requests do to each
\* other's copies and whichever writes are lost.
THEOREM StoryInvariant == Spec => []StoryInv
BY StoryInit, StoryStep, PTL DEF Spec

----------------------------------------------------------------------------
(* What the invariant says.                                                *)

\* Every stored, cached and held document has the fields of a document.
THEOREM StoryTypes == Spec => []TypeOK
<1>1. StoryInv => TypeOK
  BY VersionsTyped DEF StoryInv, TypeInv, TypeOK, Sound, Requests
<1> QED BY <1>1, StoryInvariant, PTL

\* Redis never holds a document that PostgreSQL does not (WorkflowStateStore's
\* "Update Cache ONLY after successful database commit"), for any requests,
\* failed flushes, lost cache writes and expiries.
THEOREM CacheIsCommitted == Spec => []CacheCommitted
<1>1. StoryInv => CacheCommitted
  BY DEF StoryInv, CacheInv
<1> QED BY <1>1, StoryInvariant, PTL

\* No version claims COMPLETED without a verdict that allows it.
THEOREM CompletedIsJudged == Spec => []CompletedJudged
<1>1. StoryInv => CompletedJudged
  BY DEF StoryInv, TypeInv, CompletedJudged, Sound, WellJudged
<1> QED BY <1>1, StoryInvariant, PTL

\* In every version the snapshots of each artifact are numbered without gaps
\* or repetitions, also after undos.
THEOREM HistoryIsSound == Spec => []HistorySound
<1>1. ASSUME StoryInv PROVE HistorySound
  <2> SUFFICES ASSUME NEW v \in rows, NEW i \in Epics \cup Stories
               PROVE  LET mine == {h \in v.state.history : h.id = i}
                      IN  {h.version : h \in mine} = 1..Cardinality(mine)
    BY DEF HistorySound
  <2>1. PICK n \in Nat : NumberedUpTo(Snapshots(v.state, i), n)
    BY <1>1 DEF StoryInv, TypeInv, Sound, Numbered
  <2>2. Cardinality(Snapshots(v.state, i)) = n
    BY <2>1, NumberedCount
  <2> QED BY <2>1, <2>2 DEF NumberedUpTo, Snapshots
<1> QED BY <1>1, StoryInvariant, PTL

\* Requests handled one at a time, with no failed write, leave the newest
\* version not RUNNING, and Redis with it or with nothing.
THEOREM WorkflowSettles == Spec => []Settled
<1>1. ASSUME StoryInv PROVE Settled
  <2> SUFFICES ASSUME clean, \A a \in Agents : ~InFlight(a), NEW v \in Newest(rows)
               PROVE  v.state.status # "RUNNING" /\ cache \in {NoState, v.state}
    BY DEF Settled
  <2>1. Quiet /\ CacheLatest
    BY <1>1 DEF StoryInv, SerialInv, OneAtATime, InFlight
  <2> QED BY <2>1 DEF Quiet, CacheLatest
<1> QED BY <1>1, StoryInvariant, PTL

=============================================================================
