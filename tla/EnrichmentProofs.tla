---- MODULE EnrichmentProofs ----
(***************************************************************************)
(* Proofs about Enrichment, for any albums, sizes, catalogues, attempts,   *)
(* workers and capacities.                                                 *)
(***************************************************************************)
EXTENDS Enrichment, SequenceTheorems, TLAPS

Busy(t) == tasks[t] # Free

\* A picture a task may report.
Sound(task) ==
    task.verdict # Nothing => task.verdict.album = task.key /\ task.verdict.size > task.over

\* The cache holds a picture under its own album, and so do the reports.
CacheKeyed == \A a \in Albums : cached[a] # Nothing => cached[a].album = a
ReportsKeyed ==
    \A i \in 1 .. Len(reports) :
        reports[i].verdict # Nothing => reports[i].verdict.album = reports[i].key

\* The inductive invariant: the properties, and what makes a late report safe.
EnrichInv ==
    /\ EnrichTypeOK
    /\ OneSearchPerAlbum
    /\ NoRequestAfterAMiss
    /\ UpgradesAreSharper
    /\ OfferedAsShown
    /\ CacheKeyed
    /\ ReportsKeyed

LEMMA InitEnrichInv == EnrichInit => EnrichInv
<1>. SUFFICES ASSUME EnrichInit PROVE EnrichInv
  OBVIOUS
<1>. USE DEF EnrichInit
<1>1. EnrichTypeOK
  <2>1. reports \in Seq(Report) /\ Len(reports) = 0
    BY EmptySeq
  <2>. QED
    BY <2>1, CountsAssumption DEF EnrichTypeOK
<1>2. OneSearchPerAlbum
  BY DEF OneSearchPerAlbum
<1>3. NoRequestAfterAMiss
  BY DEF NoRequestAfterAMiss
<1>4. UpgradesAreSharper
  BY DEF UpgradesAreSharper
<1>5. OfferedAsShown
  BY DEF OfferedAsShown, Eligible
<1>6. CacheKeyed
  BY DEF CacheKeyed
<1>7. ReportsKeyed
  BY EmptySeq DEF ReportsKeyed
<1>. QED
  BY <1>1, <1>2, <1>3, <1>4, <1>5, <1>6, <1>7 DEF EnrichInv

----
(* What a step of a task does *)

\* The task goes on as another record for the same request.
Becomes(t, new) ==
    /\ new \in Task
    /\ new.key = tasks[t].key
    /\ tasks' = [tasks EXCEPT ![t] = new]
    /\ flights' = flights

\* What goes on is sound, and searches only while no miss is remembered.
GoesOn(t) ==
    \E new \in Task :
        /\ Becomes(t, new)
        /\ Sound(new)
        /\ new.phase \in {"checking", "asking"} => new.key \notin negative'

LEMMA TaskFacts ==
    ASSUME EnrichTypeOK, NEW t \in Slots, Busy(t)
    PROVE  /\ tasks[t] \in Task /\ tasks[t].key \in Albums /\ tasks[t].over \in SentSizes
           /\ tasks[t].source \in 1 .. Sources /\ tasks[t].attempt \in 1 .. MaxAttempts
           /\ tasks[t].verdict \in Found \cup {Nothing}
<1>1. tasks[t] \in Task
  BY DEF EnrichTypeOK, Busy
<1>. QED
  BY <1>1 DEF Task

\* A task concludes with a verdict that is sound.
LEMMA ConcludeFacts ==
    ASSUME EnrichTypeOK, NEW t \in Slots, Busy(t),
           NEW verdict \in Found \cup {Nothing}, Conclude(t, verdict),
           verdict # Nothing => verdict.album = tasks[t].key /\ verdict.size > tasks[t].over
    PROVE  End(t) \/ GoesOn(t)
<1>. DEFINE new == [tasks[t] EXCEPT !.phase = "sending", !.verdict = verdict,
                                   !.source = 1, !.attempt = 1]
<1>1. CASE ~ StillCurrent(t)
  BY <1>1 DEF Conclude
<1>2. CASE StillCurrent(t)
  <2>1. /\ new \in Task /\ new.key = tasks[t].key /\ new.over = tasks[t].over
        /\ new.phase = "sending" /\ new.verdict = verdict
    <3>1. tasks[t] \in Task
      BY TaskFacts
    <3>2. 1 \in 1 .. Sources /\ 1 \in 1 .. MaxAttempts
      BY CountsAssumption
    <3>. QED
      BY <3>1, <3>2 DEF Task
  <2>2. tasks' = [tasks EXCEPT ![t] = new] /\ flights' = flights
    BY <1>2 DEF Conclude
  <2>3. Sound(new)
    BY <2>1 DEF Sound
  <2>. HIDE DEF new
  <2>. QED
    BY <2>1, <2>2, <2>3 DEF GoesOn, Becomes
<1>. QED
  BY <1>1, <1>2

\* A task that goes on to another phase of its search.
LEMMA GotoFacts ==
    ASSUME EnrichTypeOK, UpgradesAreSharper, NEW t \in Slots, Busy(t),
           NEW phase \in {"checking", "asking"}, NEW source \in 1 .. Sources,
           NEW attempt \in 1 .. MaxAttempts,
           tasks' = [tasks EXCEPT ![t].phase = phase, ![t].source = source,
                                  ![t].attempt = attempt],
           flights' = flights, tasks[t].key \notin negative'
    PROVE  GoesOn(t)
<1>. DEFINE new == [tasks[t] EXCEPT !.phase = phase, !.source = source, !.attempt = attempt]
<1>1. /\ new \in Task /\ new.key = tasks[t].key /\ new.over = tasks[t].over
      /\ new.verdict = tasks[t].verdict
  <2>1. tasks[t] \in Task
    BY TaskFacts
  <2>. QED
    BY <2>1 DEF Task
<1>2. tasks' = [tasks EXCEPT ![t] = new]
  OBVIOUS
<1>3. Sound(new)
  BY <1>1 DEF Sound, UpgradesAreSharper, Busy
<1>. HIDE DEF new
<1>. QED
  BY <1>1, <1>2, <1>3 DEF GoesOn, Becomes

LEMMA LookupFacts ==
    ASSUME EnrichInv, NEW t \in Slots, Busy(t), Lookup(t), UNCHANGED <<cached, negative>>
    PROVE  End(t) \/ GoesOn(t)
<1>. DEFINE hit == cached[tasks[t].key]
            shown == IF hit.size > tasks[t].over THEN hit ELSE Nothing
<1>. USE DEF EnrichInv
<1>1. tasks[t].key \in Albums /\ hit \in Found \cup {Nothing}
  BY TaskFacts DEF EnrichTypeOK
<1>2. CASE hit # Nothing
  <2>1. Conclude(t, shown)
    BY <1>2 DEF Lookup
  <2>2. /\ shown \in Found \cup {Nothing}
        /\ shown # Nothing => shown.album = tasks[t].key /\ shown.size > tasks[t].over
    BY <1>1, <1>2 DEF CacheKeyed
  <2>. QED
    BY <2>1, <2>2, ConcludeFacts
<1>3. CASE hit = Nothing /\ tasks[t].key \in negative
  <2>1. Conclude(t, Nothing)
    BY <1>3 DEF Lookup
  <2>. QED
    BY <2>1, ConcludeFacts
<1>4. CASE hit = Nothing /\ tasks[t].key \notin negative
  <2>1. Goto(t, "checking")
    BY <1>4 DEF Lookup
  <2>2. tasks' = [tasks EXCEPT ![t].phase = "checking", ![t].source = tasks[t].source,
                               ![t].attempt = tasks[t].attempt]
    <3>1. tasks[t] \in Task
      BY TaskFacts
    <3>2. [tasks[t] EXCEPT !.phase = "checking", !.source = tasks[t].source,
                           !.attempt = tasks[t].attempt] = [tasks[t] EXCEPT !.phase = "checking"]
      BY <3>1 DEF Task
    <3>. QED
      BY <2>1, <3>2 DEF Goto
  <2>3. flights' = flights /\ tasks[t].key \notin negative'
    BY <1>4, <2>1 DEF Goto
  <2>. QED
    BY <2>2, <2>3, TaskFacts, GotoFacts
<1>. QED
  BY <1>2, <1>3, <1>4

LEMMA NextSourceFacts ==
    ASSUME EnrichInv, NEW t \in Slots, tasks[t].phase \in {"checking", "asking"}, Busy(t),
           NextSource(t)
    PROVE  /\ End(t) \/ GoesOn(t)
           /\ negative' \in {negative, negative \cup {tasks[t].key}} /\ cached' = cached
<1>. USE DEF EnrichInv
<1>1. CASE tasks[t].source < Sources
  <2>1. /\ tasks' = [tasks EXCEPT ![t].phase = "checking", ![t].source = tasks[t].source + 1,
                                 ![t].attempt = 1]
        /\ flights' = flights /\ negative' = negative /\ cached' = cached
    <3>1. [tasks[t] EXCEPT !.phase = "checking", !.attempt = 1, !.source = @ + 1]
            = [tasks[t] EXCEPT !.phase = "checking", !.source = tasks[t].source + 1, !.attempt = 1]
      <4>1. tasks[t] \in Task
        BY TaskFacts
      <4>. QED
        BY <4>1 DEF Task
    <3>. QED
      BY <1>1, <3>1 DEF NextSource
  <2>2. tasks[t].source + 1 \in 1 .. Sources /\ 1 \in 1 .. MaxAttempts
    BY <1>1, TaskFacts, CountsAssumption
  <2>3. tasks[t].key \notin negative'
    BY <2>1 DEF NoRequestAfterAMiss
  <2>. QED
    BY <2>1, <2>2, <2>3, GotoFacts
<1>2. CASE ~ (tasks[t].source < Sources)
  <2>1. /\ Conclude(t, Nothing) /\ cached' = cached
        /\ negative' \in {negative, negative \cup {tasks[t].key}}
    BY <1>2 DEF NextSource
  <2>. QED
    BY <2>1, ConcludeFacts
<1>. QED
  BY <1>1, <1>2

\* A step of a task disturbs no other task, and of the cache only its own album.
TaskEffect(t) ==
    /\ Busy(t)
    /\ End(t) \/ GoesOn(t)
    /\ negative' \subseteq negative \cup {tasks[t].key}
    /\ cached' \in [Albums -> Found \cup {Nothing}] /\ CacheKeyed'
    /\ reports' \in Seq(Report) /\ Len(reports') <= MaxReports /\ ReportsKeyed'
    /\ UNCHANGED <<workers, track, artwork, currentKey, lastConsidered>>

LEMMA StartEffect ==
    ASSUME EnrichInv, NEW t \in Slots, Start(t)
    PROVE  TaskEffect(t)
<1>. USE DEF EnrichInv
<1>1. Busy(t)
  BY DEF Start, Busy, Free
<1>2. End(t) \/ GoesOn(t)
  BY <1>1, LookupFacts DEF Start, cache
<1>3. UNCHANGED <<workers, track, artwork, currentKey, lastConsidered, cached, negative, reports>>
  BY DEF Start, cache
<1>4. CacheKeyed' /\ ReportsKeyed'
  BY <1>3 DEF CacheKeyed, ReportsKeyed
<1>. QED
  BY <1>1, <1>2, <1>3, <1>4 DEF TaskEffect, EnrichTypeOK

LEMMA CheckEffect ==
    ASSUME EnrichInv, NEW t \in Slots, Check(t)
    PROVE  TaskEffect(t)
<1>. USE DEF EnrichInv
<1>1. Busy(t) /\ tasks[t].phase = "checking"
  BY DEF Check, Busy, Free
<1>2. UNCHANGED <<workers, track, artwork, currentKey, lastConsidered, reports>>
  BY DEF Check
<1>3. (End(t) \/ GoesOn(t)) /\ cached' = cached
        /\ negative' \in {negative, negative \cup {tasks[t].key}}
  <2>1. CASE ~ StillCurrent(t)
    BY <1>1, <2>1, NextSourceFacts DEF Check
  <2>2. CASE StillCurrent(t)
    <3>1. Goto(t, "asking") /\ cached' = cached /\ negative' = negative
      BY <2>2 DEF Check, cache
    <3>2. tasks' = [tasks EXCEPT ![t].phase = "asking", ![t].source = tasks[t].source,
                                 ![t].attempt = tasks[t].attempt]
      <4>1. tasks[t] \in Task
        BY <1>1, TaskFacts
      <4>2. [tasks[t] EXCEPT !.phase = "asking", !.source = tasks[t].source,
                             !.attempt = tasks[t].attempt] = [tasks[t] EXCEPT !.phase = "asking"]
        BY <4>1 DEF Task
      <4>. QED
        BY <3>1, <4>2 DEF Goto
    <3>3. flights' = flights /\ tasks[t].key \notin negative'
      BY <1>1, <3>1 DEF Goto, NoRequestAfterAMiss
    <3>. QED
      BY <1>1, <3>1, <3>2, <3>3, TaskFacts, GotoFacts
  <2>. QED
    BY <2>1, <2>2
<1>4. CacheKeyed' /\ ReportsKeyed'
  BY <1>2, <1>3 DEF CacheKeyed, ReportsKeyed
<1>. QED
  BY <1>1, <1>2, <1>3, <1>4 DEF TaskEffect, EnrichTypeOK

LEMMA AnswerEffect ==
    ASSUME EnrichInv, NEW t \in Slots, Answer(t)
    PROVE  TaskEffect(t)
<1>. USE DEF EnrichInv
<1>1. Busy(t) /\ tasks[t].phase = "asking" /\ tasks[t].key \notin negative
  BY DEF Answer, Busy, Free, NoRequestAfterAMiss
<1>2. UNCHANGED <<workers, track, artwork, currentKey, lastConsidered, reports>>
  BY DEF Answer
<1>3. /\ End(t) \/ GoesOn(t)
      /\ negative' \subseteq negative \cup {tasks[t].key}
      /\ cached' \in [Albums -> Found \cup {Nothing}] /\ CacheKeyed'
  <2>1. CASE NextSource(t)
    <3>1. CacheKeyed'
      BY <1>1, <2>1, NextSourceFacts DEF CacheKeyed
    <3>. QED
      BY <1>1, <2>1, <3>1, NextSourceFacts DEF EnrichTypeOK
  <2>2. CASE Retry(t)
    <3>1. tasks[t].attempt + 1 \in 1 .. MaxAttempts /\ tasks[t].source \in 1 .. Sources
      BY <1>1, <2>2, TaskFacts, CountsAssumption DEF Retry
    <3>2. tasks' = [tasks EXCEPT ![t].phase = "checking", ![t].source = tasks[t].source,
                                 ![t].attempt = tasks[t].attempt + 1]
      <4>1. tasks[t] \in Task
        BY <1>1, TaskFacts
      <4>2. [tasks[t] EXCEPT !.phase = "checking", !.attempt = @ + 1]
              = [tasks[t] EXCEPT !.phase = "checking", !.source = tasks[t].source,
                                 !.attempt = tasks[t].attempt + 1]
        BY <4>1 DEF Task
      <4>. QED
        BY <2>2, <4>2 DEF Retry
    <3>3. flights' = flights /\ cached' = cached /\ negative' = negative
      BY <2>2 DEF Retry, cache
    <3>4. GoesOn(t)
      BY <1>1, <3>1, <3>2, <3>3, GotoFacts
    <3>. QED
      BY <3>3, <3>4 DEF EnrichTypeOK, CacheKeyed
  <2>3. CASE GiveUp(t)
    <3>1. Conclude(t, Nothing) /\ cached' = cached /\ negative' = negative
      BY <2>3 DEF GiveUp, cache
    <3>. QED
      BY <1>1, <3>1, ConcludeFacts DEF EnrichTypeOK, CacheKeyed
  <2>4. ASSUME NEW picture \in Found, Upgrade(t, picture)
        PROVE  /\ End(t) \/ GoesOn(t)
               /\ negative' \subseteq negative \cup {tasks[t].key}
               /\ cached' \in [Albums -> Found \cup {Nothing}] /\ CacheKeyed'
    <3>1. picture.album = tasks[t].key /\ picture.album \in Albums
      BY <2>4 DEF Upgrade, Found
    <3>2. picture.size > tasks[t].over
      <4>1. 2 * picture.size >= 3 * tasks[t].over
        BY <2>4 DEF Upgrade, SizeGate
      <4>2. picture.size \in Nat \ {0} /\ tasks[t].over \in Nat \ {0}
        BY <1>1, TaskFacts, SizesAssumption DEF Found
      <4>. QED
        BY <4>1, <4>2
    <3>3. Conclude(t, picture)
      BY <2>4 DEF Upgrade
    <3>4. End(t) \/ GoesOn(t)
      BY <1>1, <3>1, <3>2, <3>3, ConcludeFacts
    <3>5. \/ /\ cached' = [cached EXCEPT ![picture.album] = picture]
             /\ negative' = negative \ {picture.album}
          \/ cached' = cached /\ negative' = negative
      BY <2>4 DEF Upgrade, cache
    <3>6. cached \in [Albums -> Found \cup {Nothing}] /\ CacheKeyed
      BY DEF EnrichTypeOK
    <3>7. cached' \in [Albums -> Found \cup {Nothing}] /\ CacheKeyed'
      BY <3>1, <3>5, <3>6 DEF CacheKeyed
    <3>. QED
      BY <3>4, <3>5, <3>7
  <2>. QED
    BY <2>1, <2>2, <2>3, <2>4 DEF Answer
<1>4. ReportsKeyed'
  BY <1>2 DEF ReportsKeyed
<1>. QED
  BY <1>1, <1>2, <1>3, <1>4 DEF TaskEffect, EnrichTypeOK

LEMMA SendEffect ==
    ASSUME EnrichInv, NEW t \in Slots, Send(t)
    PROVE  TaskEffect(t)
<1>. DEFINE report == [key |-> tasks[t].key, verdict |-> tasks[t].verdict]
<1>. USE DEF EnrichInv
<1>1. Busy(t) /\ End(t)
  BY DEF Send, Busy, Free
<1>2. UNCHANGED <<workers, track, artwork, currentKey, lastConsidered, cached, negative>>
  BY DEF Send, cache
<1>3. reports' = Append(reports, report) /\ Len(reports) < MaxReports
  BY DEF Send
<1>4. report \in Report /\ (report.verdict # Nothing => report.verdict.album = report.key)
  BY <1>1, TaskFacts DEF Report, UpgradesAreSharper, Busy
<1>5. /\ reports' \in Seq(Report) /\ Len(reports') = Len(reports) + 1
      /\ \A i \in 1 .. Len(reports) : reports'[i] = reports[i]
      /\ reports'[Len(reports) + 1] = report
  <2>. HIDE DEF report
  <2>. QED
    BY <1>3, <1>4, AppendProperties DEF EnrichTypeOK
<1>6. Len(reports) \in Nat /\ Len(reports') <= MaxReports
  <2>1. Len(reports) \in Nat
    BY LenProperties DEF EnrichTypeOK
  <2>2. MaxReports \in Nat
    BY CountsAssumption
  <2>. HIDE DEF report
  <2>. QED
    BY <1>3, <1>5, <2>1, <2>2
<1>7. ReportsKeyed'
  <2>1. ASSUME NEW i \in 1 .. Len(reports')
        PROVE  reports'[i].verdict # Nothing => reports'[i].verdict.album = reports'[i].key
    <3>. HIDE DEF report
    <3>1. CASE i \in 1 .. Len(reports)
      BY <1>5, <3>1 DEF ReportsKeyed
    <3>2. CASE i = Len(reports) + 1
      BY <1>4, <1>5, <3>2
    <3>. QED
      BY <1>5, <1>6, <2>1, <3>1, <3>2
  <2>. QED
    BY <2>1 DEF ReportsKeyed
<1>8. CacheKeyed'
  BY <1>2 DEF CacheKeyed
<1>. QED
  BY <1>1, <1>2, <1>5, <1>6, <1>7, <1>8 DEF TaskEffect, EnrichTypeOK

\* What one task does leaves every other as it was, and no two have one key.
LEMMA TaskStepKept ==
    ASSUME EnrichInv, NEW t \in Slots, TaskStep(t)
    PROVE  EnrichInv'
<1>1. TaskEffect(t)
  BY StartEffect, CheckEffect, AnswerEffect, SendEffect DEF TaskStep
<1>. USE DEF EnrichInv
<1>2. tasks[t] \in Task /\ tasks[t] # Free /\ tasks[t].key \in Albums
  BY <1>1, TaskFacts DEF TaskEffect, Busy
<1>3. PICK new \in Task \cup {Free} :
          /\ tasks' = [tasks EXCEPT ![t] = new]
          /\ \/ /\ new = Free /\ flights' = flights \ {tasks[t].key}
             \/ /\ new \in Task /\ new.key = tasks[t].key /\ flights' = flights
                /\ Sound(new)
                /\ new.phase \in {"checking", "asking"} => new.key \notin negative'
  BY <1>1 DEF TaskEffect, End, GoesOn, Becomes
<1>4. tasks'[t] = new /\ \A u \in Slots \ {t} : tasks'[u] = tasks[u]
  BY <1>3 DEF EnrichTypeOK
<1>5. \A u \in Slots \ {t} : tasks[u] # Free => tasks[u].key # tasks[t].key
  BY <1>2 DEF OneSearchPerAlbum
<1>6. EnrichTypeOK'
  BY <1>1, <1>2, <1>3 DEF EnrichTypeOK, TaskEffect
<1>7. OneSearchPerAlbum'
  <2>1. \A a \in flights' : \E u \in Slots : tasks'[u] # Free /\ tasks'[u].key = a
    <3>. SUFFICES ASSUME NEW a \in flights'
                  PROVE  \E u \in Slots : tasks'[u] # Free /\ tasks'[u].key = a
      OBVIOUS
    <3>1. PICK u \in Slots : tasks[u] # Free /\ tasks[u].key = a
      BY <1>3 DEF OneSearchPerAlbum
    <3>2. CASE u # t
      BY <1>4, <3>1, <3>2
    <3>3. CASE u = t
      <4>1. new \in Task /\ new.key = tasks[t].key
        BY <1>3, <3>1, <3>3
      <4>2. new # Free
        BY <4>1 DEF Task, Free
      <4>. QED
        BY <1>4, <3>1, <3>3, <4>1, <4>2
    <3>. QED
      BY <3>2, <3>3
  <2>2. ASSUME NEW u \in Slots, tasks'[u] # Free
        PROVE  /\ tasks'[u].key \in flights'
               /\ \A v \in Slots : tasks'[v] # Free /\ tasks'[v].key = tasks'[u].key => v = u
    <3>1. \A v \in Slots : tasks'[v] # Free => tasks[v] # Free /\ tasks'[v].key = tasks[v].key
      BY <1>2, <1>3, <1>4
    <3>2. tasks[u] # Free /\ tasks'[u].key = tasks[u].key /\ tasks[u].key \in flights
      BY <2>2, <3>1 DEF OneSearchPerAlbum
    <3>3. tasks'[u].key \in flights'
      <4>1. CASE u = t
        BY <1>3, <1>4, <2>2, <3>2, <4>1
      <4>2. CASE u # t
        BY <1>3, <1>5, <3>2, <4>2
      <4>. QED
        BY <4>1, <4>2
    <3>4. ASSUME NEW v \in Slots, tasks'[v] # Free, tasks'[v].key = tasks'[u].key
          PROVE  v = u
      <4>1. tasks[v] # Free /\ tasks[v].key = tasks[u].key
        BY <3>1, <3>2, <3>4
      <4>. QED
        BY <3>2, <4>1 DEF OneSearchPerAlbum
    <3>. QED
      BY <3>3, <3>4
  <2>. QED
    BY <2>1, <2>2 DEF OneSearchPerAlbum
<1>8. NoRequestAfterAMiss'
  <2>1. ASSUME NEW u \in Slots, tasks'[u].phase \in {"checking", "asking"}
        PROVE  tasks'[u].key \notin negative'
    <3>1. CASE u = t
      BY <1>3, <1>4, <2>1, <3>1 DEF Free
    <3>2. CASE u # t
      BY <1>1, <1>4, <1>5, <2>1, <3>2 DEF NoRequestAfterAMiss, TaskEffect, Free
    <3>. QED
      BY <3>1, <3>2
  <2>. QED
    BY <2>1 DEF NoRequestAfterAMiss
<1>9. UpgradesAreSharper'
  BY <1>3, <1>4 DEF UpgradesAreSharper, Sound
<1>10. OfferedAsShown' /\ CacheKeyed' /\ ReportsKeyed'
  BY <1>1 DEF TaskEffect, OfferedAsShown, Eligible
<1>. QED
  BY <1>6, <1>7, <1>8, <1>9, <1>10

----
(* What the main loop does *)

Pictures == [revision : Nat \ {0}, image : Sent \cup Found] \cup {Nothing}

\* What set_artwork leaves up is what was up or the new picture.
LEMMA SetArtworkFacts ==
    ASSUME EnrichTypeOK, NEW picture \in Sent \cup Found
    PROVE  /\ SetArtwork(picture) \in Pictures
           /\ SetArtwork(picture) = artwork \/ SetArtwork(picture).image = picture
<1>1. Revision + 1 \in Nat \ {0}
  BY DEF EnrichTypeOK, Revision
<1>. QED
  BY <1>1 DEF SetArtwork, EnrichTypeOK, Pictures

\* An input leaves what it displays offered, and starts a task at most.
LEMMA HandleKept ==
    ASSUME EnrichInv, NEW album \in Albums \cup {NoAlbum}, NEW art \in Pictures,
           Handle(album, art)
    PROVE  EnrichInv'
<1>. USE DEF EnrichInv
<1>1. /\ workers' = workers /\ track' = album /\ artwork' = art
      /\ cached' = cached /\ negative' = negative /\ reports' = reports
  BY DEF Handle, cache
<1>2. CacheKeyed' /\ ReportsKeyed'
  BY <1>1 DEF CacheKeyed, ReportsKeyed
<1>3. CASE UNCHANGED <<flights, tasks>>
  <2>1. OneSearchPerAlbum' /\ NoRequestAfterAMiss' /\ UpgradesAreSharper'
    BY <1>1, <1>3 DEF OneSearchPerAlbum, NoRequestAfterAMiss, UpgradesAreSharper
  <2>2. CASE Eligible(album, art)
    <3>1. /\ album \in Albums /\ art.revision \in Nat
          /\ currentKey' = album /\ lastConsidered' = <<album, art.revision>>
      BY <2>2 DEF Eligible, Pictures, Handle, Consider
    <3>2. EnrichTypeOK'
      BY <1>1, <1>3, <3>1 DEF EnrichTypeOK, Pictures
    <3>. QED
      BY <1>1, <1>2, <2>1, <3>1, <3>2 DEF OfferedAsShown
  <2>3. CASE ~ Eligible(album, art)
    <3>1. UNCHANGED <<currentKey, lastConsidered>>
      BY <2>3 DEF Handle, enricher
    <3>2. EnrichTypeOK'
      BY <1>1, <1>3, <3>1 DEF EnrichTypeOK, Pictures
    <3>3. OfferedAsShown'
      BY <1>1, <2>3 DEF OfferedAsShown, Eligible
    <3>. QED
      BY <1>2, <2>1, <3>2, <3>3
  <2>. QED
    BY <2>2, <2>3
<1>4. CASE Eligible(album, art) /\ ~ Refused(<<album, art.revision>>)
  <2>. DEFINE t == CHOOSE u \in Slots : tasks[u] = Free
              task == [phase |-> "queued", key |-> album, over |-> art.image.size,
                       source |-> 1, attempt |-> 1, verdict |-> Nothing]
  <2>1. /\ album \in Albums /\ art.revision \in Nat
        /\ currentKey' = album /\ lastConsidered' = <<album, art.revision>>
        /\ flights' = flights \cup {album} /\ Spawn(album, art.image.size)
    BY <1>4 DEF Eligible, Pictures, Handle, Consider
  <2>2. t \in Slots /\ tasks[t] = Free /\ tasks' = [tasks EXCEPT ![t] = task]
    BY <2>1 DEF Spawn
  <2>3. task \in Task /\ task # Free /\ task.key = album /\ task.phase = "queued"
          /\ task.verdict = Nothing
    <3>1. art.image.size \in SentSizes
      <4>1. art.image \in Sent
        BY <1>4 DEF Eligible, Pictures, Sent, Found
      <4>. QED
        BY <4>1 DEF Sent
    <3>2. 1 \in 1 .. Sources /\ 1 \in 1 .. MaxAttempts
      BY CountsAssumption
    <3>. QED
      BY <2>1, <3>1, <3>2 DEF Task, Free
  <2>. HIDE DEF t, task
  <2>4. tasks'[t] = task /\ \A u \in Slots \ {t} : tasks'[u] = tasks[u]
    BY <2>2 DEF EnrichTypeOK
  <2>5. album \notin flights
    BY <1>4 DEF Refused
  <2>6. EnrichTypeOK'
    BY <1>1, <2>1, <2>2, <2>3 DEF EnrichTypeOK, Pictures
  <2>7. OneSearchPerAlbum'
    <3>1. \A a \in flights' : \E u \in Slots : tasks'[u] # Free /\ tasks'[u].key = a
      BY <2>1, <2>2, <2>3, <2>4 DEF OneSearchPerAlbum
    <3>2. ASSUME NEW u \in Slots, tasks'[u] # Free
          PROVE  /\ tasks'[u].key \in flights'
                 /\ \A v \in Slots : tasks'[v] # Free /\ tasks'[v].key = tasks'[u].key => v = u
      <4>1. \A v \in Slots \ {t} : tasks'[v] # Free =>
                tasks[v] # Free /\ tasks'[v].key = tasks[v].key /\ tasks[v].key \in flights
        BY <2>4 DEF OneSearchPerAlbum
      <4>2. CASE u = t
        BY <2>1, <2>3, <2>4, <2>5, <4>1, <4>2
      <4>3. CASE u # t
        <5>1. tasks[u] # Free /\ tasks'[u].key = tasks[u].key /\ tasks[u].key \in flights
          BY <3>2, <4>1, <4>3
        <5>2. ASSUME NEW v \in Slots, tasks'[v] # Free, tasks'[v].key = tasks'[u].key
              PROVE  v = u
          <6>1. v # t
            BY <2>3, <2>4, <2>5, <5>1, <5>2
          <6>2. tasks[v] # Free /\ tasks[v].key = tasks[u].key
            BY <4>1, <5>1, <5>2, <6>1
          <6>. QED
            BY <5>1, <6>2 DEF OneSearchPerAlbum
        <5>. QED
          BY <2>1, <5>1, <5>2
      <4>. QED
        BY <4>2, <4>3
    <3>. QED
      BY <3>1, <3>2 DEF OneSearchPerAlbum
  <2>8. NoRequestAfterAMiss'
    BY <1>1, <2>3, <2>4 DEF NoRequestAfterAMiss
  <2>9. UpgradesAreSharper'
    BY <2>3, <2>4 DEF UpgradesAreSharper
  <2>. QED
    BY <1>1, <1>2, <2>1, <2>6, <2>7, <2>8, <2>9 DEF OfferedAsShown
<1>. QED
  BY <1>3, <1>4 DEF Handle, Consider, enricher

LEMMA TakeReportKept ==
    ASSUME EnrichInv, TakeReport
    PROVE  EnrichInv'
<1>. USE DEF EnrichInv
<1>1. UNCHANGED <<workers, track, currentKey, lastConsidered, flights, tasks, cached, negative>>
  BY DEF TakeReport, enricher, cache
<1>2. reports \in Seq(Report) /\ reports # << >> /\ reports' = Tail(reports)
        /\ Len(reports) \in Nat
  BY EmptySeq, LenProperties DEF TakeReport, EnrichTypeOK
<1>3. /\ Head(reports) \in Report /\ reports' \in Seq(Report)
      /\ Len(reports') = Len(reports) - 1
      /\ \A i \in 1 .. Len(reports') : reports'[i] = reports[i + 1]
  BY <1>2, HeadTailProperties
<1>4. \/ artwork' = artwork
      \/ artwork' \in Pictures /\ artwork'.image \in Found
  <2>1. CASE artwork' = artwork
    BY <2>1
  <2>2. CASE Head(reports).verdict # Nothing /\ artwork' = SetArtwork(Head(reports).verdict)
    <3>1. Head(reports).verdict \in Found \cup {Nothing}
      <4>1. Head(reports) \in Report
        BY <1>3
      <4>. QED
        BY <4>1 DEF Report
    <3>2. Head(reports).verdict \in Found
      BY <2>2, <3>1
    <3>. QED
      BY <2>2, <3>2, SetArtworkFacts
  <2>. QED
    BY <2>1, <2>2 DEF TakeReport, Accept
<1>5. EnrichTypeOK'
  <2>1. artwork' \in Pictures
    BY <1>4 DEF EnrichTypeOK, Pictures
  <2>2. Len(reports') <= MaxReports
    <3>1. MaxReports \in Nat /\ Len(reports) <= MaxReports
      BY CountsAssumption DEF EnrichTypeOK
    <3>. QED
      BY <1>2, <1>3, <3>1
  <2>. QED
    BY <1>1, <1>3, <2>1, <2>2 DEF EnrichTypeOK, Pictures
<1>6. OfferedAsShown'
  <2>1. CASE artwork' = artwork
    BY <1>1, <2>1 DEF OfferedAsShown, Eligible
  <2>2. CASE artwork'.image \in Found
    BY <2>2 DEF OfferedAsShown, Eligible, Found
  <2>. QED
    BY <1>4, <2>1, <2>2
<1>7. ReportsKeyed'
  BY <1>2, <1>3 DEF ReportsKeyed
<1>8. OneSearchPerAlbum' /\ NoRequestAfterAMiss' /\ UpgradesAreSharper' /\ CacheKeyed'
  BY <1>1 DEF OneSearchPerAlbum, NoRequestAfterAMiss, UpgradesAreSharper, CacheKeyed
<1>. QED
  BY <1>5, <1>6, <1>7, <1>8

\* The cache forgets, or artd starts again.
LEMMA ForgettingKept ==
    ASSUME EnrichInv, Restart \/ \E a \in Albums : Lose(a) \/ Expire(a)
    PROVE  EnrichInv'
<1>. USE DEF EnrichInv
<1>1. CASE Restart
  <2>1. reports' \in Seq(Report) /\ Len(reports') = 0
    BY <1>1, EmptySeq DEF Restart
  <2>2. EnrichTypeOK'
    BY <1>1, <2>1, CountsAssumption DEF Restart, cache, EnrichTypeOK
  <2>3. OneSearchPerAlbum' /\ NoRequestAfterAMiss' /\ UpgradesAreSharper'
    BY <1>1 DEF Restart, OneSearchPerAlbum, NoRequestAfterAMiss, UpgradesAreSharper, Free
  <2>4. OfferedAsShown' /\ CacheKeyed' /\ ReportsKeyed'
    BY <1>1, <2>1 DEF Restart, cache, OfferedAsShown, Eligible, CacheKeyed, ReportsKeyed
  <2>. QED
    BY <2>2, <2>3, <2>4
<1>2. ASSUME NEW a \in Albums, Lose(a) \/ Expire(a)
      PROVE  EnrichInv'
  <2>1. /\ UNCHANGED <<workers, track, artwork, currentKey, lastConsidered, flights, tasks,
                        reports>>
        /\ cached' \in {cached, [cached EXCEPT ![a] = Nothing]}
        /\ negative' \subseteq negative
    BY <1>2 DEF Lose, Expire, enricher
  <2>2. EnrichTypeOK' /\ CacheKeyed'
    BY <2>1 DEF EnrichTypeOK, CacheKeyed
  <2>3. OneSearchPerAlbum' /\ NoRequestAfterAMiss' /\ UpgradesAreSharper'
    BY <2>1 DEF OneSearchPerAlbum, NoRequestAfterAMiss, UpgradesAreSharper
  <2>4. OfferedAsShown' /\ ReportsKeyed'
    BY <2>1 DEF OfferedAsShown, Eligible, ReportsKeyed
  <2>. QED
    BY <2>2, <2>3, <2>4
<1>. QED
  BY <1>1, <1>2

LEMMA NextEnrichInv == EnrichInv /\ [EnrichNext]_enrichVars => EnrichInv'
<1>. SUFFICES ASSUME EnrichInv, [EnrichNext]_enrichVars PROVE EnrichInv'
  OBVIOUS
<1>. USE DEF EnrichInv
<1>1. CASE \E a \in Albums \cup {NoAlbum} : Bundle(a)
  <2>1. artwork \in Pictures
    BY DEF EnrichTypeOK, Pictures
  <2>. QED
    BY <1>1, <2>1, HandleKept DEF Bundle
<1>2. CASE \E picture \in Sent : PictureArrives(picture)
  BY <1>2, SetArtworkFacts, HandleKept DEF PictureArrives, EnrichTypeOK
<1>3. CASE PictureCleared
  BY <1>3, HandleKept DEF PictureCleared, EnrichTypeOK, Pictures
<1>4. CASE TakeReport
  BY <1>4, TakeReportKept
<1>5. CASE \E t \in Slots : TaskStep(t)
  BY <1>5, TaskStepKept
<1>6. CASE Restart \/ \E a \in Albums : Lose(a) \/ Expire(a)
  BY <1>6, ForgettingKept
<1>7. CASE UNCHANGED enrichVars
  BY <1>7 DEF enrichVars, enricher, cache, EnrichTypeOK, OneSearchPerAlbum, NoRequestAfterAMiss,
              UpgradesAreSharper, OfferedAsShown, Eligible, CacheKeyed, ReportsKeyed
<1>. QED
  BY <1>1, <1>2, <1>3, <1>4, <1>5, <1>6, <1>7 DEF EnrichNext
----
\* The invariant holds of every behaviour, for any albums, sizes, workers and
\* capacities: artd's enricher and main loop never leave it.
THEOREM EnrichInvariance == EnrichSpec => []EnrichInv
<1>. QED
  BY InitEnrichInv, NextEnrichInv, PTL DEF EnrichSpec

\* Every variable keeps its type, and the channel is never over its capacity
\* (artd's mpsc channel of reports).
THEOREM EnrichTypes == EnrichSpec => []EnrichTypeOK
<1>1. EnrichInv => EnrichTypeOK
  BY DEF EnrichInv
<1>. QED
  BY <1>1, EnrichInvariance, PTL

\* An album is searched by one task at a time, and a key in flight has its task:
\* whichever return a task takes, it gives its own key back and no other.
THEOREM SearchedOnce == EnrichSpec => []OneSearchPerAlbum
<1>1. EnrichInv => OneSearchPerAlbum
  BY DEF EnrichInv
<1>. QED
  BY <1>1, EnrichInvariance, PTL

\* A remembered miss keeps requests away, because the only task that could ask
\* about the album is the one that noted the miss.
THEOREM MissesAreRemembered == EnrichSpec => []NoRequestAfterAMiss
<1>1. EnrichInv => NoRequestAfterAMiss
  BY DEF EnrichInv
<1>. QED
  BY <1>1, EnrichInvariance, PTL

\* What is reported is of the album searched and sharper than what was shown
\* when the request was made, from the cache as through the size gate.
THEOREM ReportsAreSharper == EnrichSpec => []UpgradesAreSharper
<1>1. EnrichInv => UpgradesAreSharper
  BY DEF EnrichInv
<1>. QED
  BY <1>1, EnrichInvariance, PTL

\* Whichever of the bundle and the picture comes last, the main loop offers
\* the pair to the enricher.
THEOREM EveryPictureIsOffered == EnrichSpec => []OfferedAsShown
<1>1. EnrichInv => OfferedAsShown
  BY DEF EnrichInv
<1>. QED
  BY <1>1, EnrichInvariance, PTL

\* A catalogue's picture goes up only over the album it was found for.
LEMMA UpgradeStep ==
    ASSUME EnrichInv, [EnrichNext]_enrichVars, artwork' # artwork, artwork' # Nothing,
           artwork'.image.from = "catalogue"
    PROVE  artwork'.image.album = track'
<1>. USE DEF EnrichInv
<1>1. CASE TakeReport
  <2>1. /\ Head(reports).key = track /\ track' = track
        /\ Head(reports).verdict # Nothing /\ artwork' = SetArtwork(Head(reports).verdict)
    BY <1>1 DEF TakeReport, Accept
  <2>2. reports \in Seq(Report) /\ Len(reports) \in Nat /\ Len(reports) > 0
    BY <1>1, LenProperties DEF TakeReport, EnrichTypeOK
  <2>3. Head(reports) = reports[1] /\ 1 \in 1 .. Len(reports)
    BY <2>2
  <2>4. Head(reports).verdict.album = track
    BY <2>1, <2>3 DEF ReportsKeyed
  <2>5. artwork'.image = Head(reports).verdict
    BY <2>1 DEF SetArtwork
  <2>. QED
    BY <2>1, <2>4, <2>5
<1>2. CASE \E picture \in Sent : PictureArrives(picture)
  <2>1. PICK picture \in Sent : artwork' = SetArtwork(picture)
    BY <1>2 DEF PictureArrives, Handle
  <2>2. artwork'.image = picture
    BY <2>1 DEF SetArtwork
  <2>. QED
    BY <2>2 DEF Sent
<1>3. CASE (\E a \in Albums \cup {NoAlbum} : Bundle(a)) \/ PictureCleared \/ Restart
  BY <1>3 DEF Bundle, PictureCleared, Restart, Handle
<1>4. CASE \E t \in Slots : TaskStep(t)
  <2>1. artwork' = artwork
    BY <1>4 DEF TaskStep, Start, Check, Answer, Send
  <2>. QED
    BY <2>1
<1>5. CASE \E a \in Albums : Lose(a) \/ Expire(a)
  BY <1>5 DEF Lose, Expire
<1>6. CASE UNCHANGED enrichVars
  BY <1>6 DEF enrichVars
<1>. QED
  BY <1>1, <1>2, <1>3, <1>4, <1>5, <1>6 DEF EnrichNext

\* However late a report comes, its picture is shown only while its own album
\* plays: the cache, the task and the report all carry the album's key.
THEOREM UpgradesFit == EnrichSpec => UpgradeFitsTheTrack
<1>1. EnrichInv /\ [EnrichNext]_enrichVars =>
        [artwork' # artwork /\ artwork' # Nothing /\ artwork'.image.from = "catalogue"
           => artwork'.image.album = track']_enrichVars
  BY UpgradeStep
<1>. QED
  BY <1>1, EnrichInvariance, PTL DEF EnrichSpec, UpgradeFitsTheTrack
====
