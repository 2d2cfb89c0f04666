---- MODULE WebProofs ----
(***************************************************************************)
(* Theorems about the web interface, with their proofs.  First the         *)
(* settings and the override file, for any keys, bodies of requests,       *)
(* threads and countdowns; then logins and sessions, for any addresses,    *)
(* requests at once and limits.  The two share no state.                   *)
(***************************************************************************)
EXTENDS Settings, WebSessions, SequenceTheorems, FiniteSetTheorems,
        WellFoundedInduction, TLAPS

----
(* The inductive invariant of the settings *)

\* No table that fails validation is ever held, written, handed on or run.
AllValid ==
    /\ ~Refused(local.table) /\ ~Refused(scratch.table)
    /\ \A t \in Threads : ~Refused(jobs[t].table)
    /\ \A i \in 1 .. Len(commands) :
           commands[i] # OtherCommand => commands[i] \notin Invalid
    /\ running \notin Invalid

\* An edit of display settings, to what they were together in a valid configuration.
GoesBack(edits) ==
    /\ DOMAIN edits \subseteq ConfirmKeys
    /\ \E c \in Configs \ Invalid :
          \A k \in DOMAIN edits : c[k] = IF edits[k] = Unset THEN Base[k] ELSE edits[k]

\* What is undone are settings of the display; a countdown has nothing to undo
\* when it is done.
UndoesTheDisplay ==
    /\ pending # NoCountdown => GoesBack(pending.undo)
    /\ \A t \in Threads : GoesBack(jobs[t].undo)
    /\ \A t \in Countdowns : DOMAIN jobs[t].undo = {} /\ GoesBack(jobs[t].edits)

\* How far a thread has come with the two files, as long as it is alone.
Alone(t) ==
    /\ jobs[t].file = IF jobs[t].at \in {"writing", "renaming"} THEN "scratch" ELSE "none"
    /\ jobs[t].at = "writing" => scratch.text = "blank"
    /\ jobs[t].at = "renaming" => scratch = Holding(jobs[t].table)
    /\ jobs[t].at \in {"opening", "writing", "renaming"} =>
           jobs[t].table = Edited(local.table, jobs[t].edits)
    /\ jobs[t].at = "publishing" => local.table = jobs[t].table

OneWriter ==
    /\ \A t, u \in Busy : t = u
    /\ \A t \in Threads : Alone(t)
    /\ local.text \in {"absent", "whole"}

\* The configuration the main loop will run when it has taken every reload.
Reloads ==
    /\ \A i \in 1 .. Len(commands) :
           /\ commands[i] # OtherCommand
           /\ \A j \in i + 1 .. Len(commands) : commands[j] = OtherCommand
           => commands[i] = Merge(local.table)
    /\ (\A i \in 1 .. Len(commands) : commands[i] = OtherCommand) =>
           running = Merge(local.table)

\* The value a display setting goes back to is the one last confirmed, unless
\* its undo was abandoned.
Undoes(k) == pending # NoCountdown /\ k \in DOMAIN pending.undo
Covered(k) ==
    \/ k \in abandoned
    \/ IF Undoes(k) THEN pending.undo[k] = kept[k] ELSE local.table[k] = kept[k]

\* The same while a thread is at work: a request has the undo of its own change,
\* and a countdown that has fired has taken the pending one.
RequestCovers(t) ==
    \A k \in ConfirmKeys :
        IF jobs[t].at \in {"publishing", "arming"}
        THEN IF ~Undoes(k) /\ k \in DOMAIN jobs[t].undo
             THEN k \in abandoned \/ jobs[t].undo[k] = kept[k]
             ELSE Covered(k)
        ELSE Covered(k) /\ (k \in DOMAIN jobs[t].undo => jobs[t].undo[k] = local.table[k])

RevertCovers(t) ==
    /\ pending = NoCountdown /\ jobs[t].at # "arming"
    /\ \A k \in ConfirmKeys \ abandoned :
           IF jobs[t].at # "publishing" /\ k \in DOMAIN jobs[t].edits
           THEN jobs[t].edits[k] = kept[k]
           ELSE local.table[k] = kept[k]

CoverInv ==
    /\ Busy = {} => \A k \in ConfirmKeys : Covered(k)
    /\ \A t \in Busy : IF t \in Handlers THEN RequestCovers(t) ELSE RevertCovers(t)

SettingsInv ==
    /\ SettingsTypeOK
    /\ AllValid
    /\ UndoesTheDisplay
    /\ ~raced => OneWriter /\ CoverInv
    /\ ~raced /\ ~dropped /\ (\A t \in Threads : ~At(t, "publishing")) => Reloads

----
(* Tables, files and threads *)

USE DEF Table, Configs

\* Merging a table with the packaged configuration gives a configuration, and
\* the packaged one when nothing is overridden.
LEMMA TableFacts ==
    /\ NoOverrides \in Table /\ Merge(NoOverrides) = Base /\ ~Refused(NoOverrides)
    /\ \A table \in Table : Merge(table) \in Configs
    /\ Base \in Configs
<1>1. Base \in Configs /\ Base \notin Invalid
  BY BaseAssumption DEF Value
<1>2. NoOverrides \in Table
  BY DEF NoOverrides
<1>3. \A k \in Keys : NoOverrides[k] = Unset
  BY DEF NoOverrides
<1>4. Merge(NoOverrides) = [k \in Keys |-> Base[k]]
  BY <1>3 DEF Merge
<1>5. Merge(NoOverrides) = Base
  BY <1>1, <1>4
<1>6. ASSUME NEW table \in Table
      PROVE  Merge(table) \in Configs
  <2>1. \A k \in Keys : table[k] # Unset => table[k] \in Value
    OBVIOUS
  <2> QED
    BY <1>1, <2>1 DEF Merge
<1> QED
  BY <1>1, <1>2, <1>5, <1>6 DEF Refused

\* An edit is a function on some of the keys.
LEMMA EditFacts ==
    /\ \A e \in Edits : /\ DOMAIN e \subseteq Keys
                        /\ \A k \in DOMAIN e : e[k] \in Value \cup {Unset}
    /\ \A D \in SUBSET Keys : \A e \in [D -> Value \cup {Unset}] : e \in Edits /\ DOMAIN e = D
    /\ Nothing \in Edits /\ DOMAIN Nothing = {}
    /\ \A table \in Table, e \in Edits :
          /\ Edited(table, e) \in Table
          /\ \A k \in Keys : Edited(table, e)[k] = IF k \in DOMAIN e THEN e[k] ELSE table[k]
<1>1. \A D \in SUBSET Keys : \A e \in [D -> Value \cup {Unset}] : e \in Edits /\ DOMAIN e = D
  BY DEF Edits
<1>2. \A e \in Edits : DOMAIN e \subseteq Keys /\ \A k \in DOMAIN e : e[k] \in Value \cup {Unset}
  BY DEF Edits
<1>3. Nothing \in [{} -> Value \cup {Unset}]
  BY DEF Nothing
<1>4. ASSUME NEW table \in Table, NEW e \in Edits
      PROVE  /\ Edited(table, e) \in Table
             /\ \A k \in Keys : Edited(table, e)[k] = IF k \in DOMAIN e THEN e[k] ELSE table[k]
  BY <1>2 DEF Edited
<1> QED
  BY <1>1, <1>2, <1>3, <1>4

LEMMA FileFacts ==
    /\ \A text \in {"absent", "blank", "whole", "torn"} : FileOf(text) \in File
    /\ \A text : FileOf(text).text = text /\ FileOf(text).table = NoOverrides
    /\ \A table \in Table : Holding(table) \in File
    /\ \A table : Holding(table).text = "whole" /\ Holding(table).table = table
    /\ Idle \in Jobs /\ Idle.at = "idle" /\ Idle.edits = Nothing /\ Idle.undo = Nothing
    /\ Idle.table = NoOverrides /\ Idle.file = "none"
BY TableFacts, EditFacts DEF FileOf, Holding, File, Idle, Jobs, Places

\* Configurations that agree with one valid configuration on some settings of
\* the display, and with another elsewhere, are valid.
LEMMA MixIsValid ==
    ASSUME NEW D \in SUBSET ConfirmKeys, NEW c \in Configs \ Invalid,
           NEW d \in Configs \ Invalid, NEW e \in Configs,
           \A k \in Keys : e[k] = IF k \in D THEN c[k] ELSE d[k]
    PROVE  e \notin Invalid
<1>1. e = [k \in Keys |-> IF k \in D THEN c[k] ELSE d[k]]
  OBVIOUS
<1> QED
  BY <1>1, ValidationAssumption

\* What a write leaves behind.
LEMMA OverwrittenFacts ==
    ASSUME NEW file \in File, NEW table \in Table, NEW new \in Overwritten(file, table)
    PROVE  /\ new \in File
           /\ new = Holding(table) \/ new.table = NoOverrides
           /\ file.text = "blank" => new = Holding(table)
BY FileFacts DEF Overwritten

LEMMA ThreadFacts ==
    /\ Countdowns \subseteq Nat /\ Handlers \subseteq Threads /\ Countdowns \subseteq Threads
    /\ Handlers \cap Countdowns = {}
    /\ \A t \in Threads : t \in Countdowns <=> t \notin Handlers
    /\ \A n \in Nat : n \notin Handlers
BY HandlersAssumption, BoundsAssumption DEF Countdowns, Threads

\* A thread keeps its shape whatever field of its job a step sets.
LEMMA JobFacts ==
    /\ \A job \in Jobs :
        /\ \A place \in Places : [job EXCEPT !.at = place] \in Jobs
        /\ \A file \in {"none", "scratch", "local", "gone"} :
              /\ [job EXCEPT !.file = file] \in Jobs
              /\ \A place \in Places : [job EXCEPT !.at = place, !.file = file] \in Jobs
        /\ \A place \in Places, table \in Table :
              [job EXCEPT !.at = place, !.table = table] \in Jobs
        /\ \A place \in Places, e \in Edits : [job EXCEPT !.at = place, !.edits = e] \in Jobs
    /\ {"idle", "editing", "opening", "writing", "renaming", "publishing", "arming",
        "sleeping"} \subseteq Places
<1>1. ASSUME NEW job \in Jobs
      PROVE  /\ \A place \in Places : [job EXCEPT !.at = place] \in Jobs
             /\ \A file \in {"none", "scratch", "local", "gone"} :
                   /\ [job EXCEPT !.file = file] \in Jobs
                   /\ \A place \in Places : [job EXCEPT !.at = place, !.file = file] \in Jobs
             /\ \A place \in Places, table \in Table :
                   [job EXCEPT !.at = place, !.table = table] \in Jobs
             /\ \A place \in Places, e \in Edits :
                   [job EXCEPT !.at = place, !.edits = e] \in Jobs
  <2>1. \A place \in Places : [job EXCEPT !.at = place] \in Jobs
    BY DEF Jobs
  <2>2. ASSUME NEW file \in {"none", "scratch", "local", "gone"}
        PROVE  /\ [job EXCEPT !.file = file] \in Jobs
               /\ \A place \in Places : [job EXCEPT !.at = place, !.file = file] \in Jobs
    <3>1. [job EXCEPT !.file = file] \in Jobs
      BY DEF Jobs
    <3>2. \A place \in Places : [job EXCEPT !.at = place, !.file = file] \in Jobs
      BY DEF Jobs
    <3> QED
      BY <3>1, <3>2
  <2>3. \A place \in Places, table \in Table :
          [job EXCEPT !.at = place, !.table = table] \in Jobs
    BY DEF Jobs
  <2>4. \A place \in Places, e \in Edits : [job EXCEPT !.at = place, !.edits = e] \in Jobs
    BY DEF Jobs
  <2> QED
    BY <2>1, <2>2, <2>3, <2>4
<1>2. {"idle", "editing", "opening", "writing", "renaming", "publishing", "arming",
       "sleeping"} \subseteq Places
  BY DEF Places
<1> QED
  BY <1>1, <1>2

LEMMA JobFields ==
    ASSUME NEW job \in Jobs
    PROVE  /\ \A x : LET new == [job EXCEPT !.at = x]
                     IN  /\ new.at = x /\ new.edits = job.edits /\ new.undo = job.undo
                         /\ new.table = job.table /\ new.file = job.file
           /\ \A x : LET new == [job EXCEPT !.file = x]
                     IN  /\ new.at = job.at /\ new.edits = job.edits /\ new.undo = job.undo
                         /\ new.table = job.table /\ new.file = x
           /\ \A x, y : LET new == [job EXCEPT !.at = x, !.file = y]
                        IN  /\ new.at = x /\ new.edits = job.edits /\ new.undo = job.undo
                            /\ new.table = job.table /\ new.file = y
           /\ \A x, y : LET new == [job EXCEPT !.at = x, !.table = y]
                        IN  /\ new.at = x /\ new.edits = job.edits /\ new.undo = job.undo
                            /\ new.table = y /\ new.file = job.file
           /\ \A x, y : LET new == [job EXCEPT !.at = x, !.edits = y]
                        IN  /\ new.at = x /\ new.edits = y /\ new.undo = job.undo
                            /\ new.table = job.table /\ new.file = job.file
BY DEF Jobs

\* The step of one thread leaves the jobs of the others alone.
OnlyJob(t) == \A u \in Threads : u # t => jobs'[u] = jobs[u]

\* What becomes of the job of a thread that takes a step of an edit.
LEMMA EditJob ==
    ASSUME jobs \in [Threads -> Jobs], NEW t \in Threads, Edit(t)
    PROVE  /\ jobs[t].at = "editing" /\ OnlyJob(t)
           /\ jobs' = [jobs EXCEPT ![t] = jobs'[t]]
           /\ LET table == Edited(local.table, jobs[t].edits)
              IN  IF Readable(local) /\ ~Refused(table)
                  THEN /\ jobs'[t] = [jobs[t] EXCEPT !.at = "opening", !.table = table]
                       /\ jobs'[t].at = "opening" /\ jobs'[t].table = table
                       /\ jobs'[t].edits = jobs[t].edits /\ jobs'[t].undo = jobs[t].undo
                       /\ jobs'[t].file = jobs[t].file
                  ELSE jobs'[t] = Idle
<1>1. jobs[t].at = "editing" /\ OnlyJob(t) /\ jobs' = [jobs EXCEPT ![t] = jobs'[t]]
  BY DEF Edit, Ends, At, OnlyJob
<1> DEFINE table == Edited(local.table, jobs[t].edits)
<1>2. CASE Readable(local) /\ ~Refused(table)
  <2>1. jobs'[t] = [jobs[t] EXCEPT !.at = "opening", !.table = table]
    BY <1>2 DEF Edit
  <2> QED
    BY <1>1, <1>2, <2>1, JobFields
<1>3. CASE ~(Readable(local) /\ ~Refused(table))
  BY <1>1, <1>3 DEF Edit, Ends
<1> QED
  BY <1>2, <1>3

LEMMA OpenJob ==
    ASSUME jobs \in [Threads -> Jobs], NEW t \in Threads, Open(t)
    PROVE  /\ jobs[t].at = "opening" /\ OnlyJob(t)
           /\ jobs' = [jobs EXCEPT ![t] = jobs'[t]]
           /\ jobs'[t] = [jobs[t] EXCEPT !.at = "writing", !.file = "scratch"]
           /\ jobs'[t].at = "writing" /\ jobs'[t].file = "scratch"
           /\ jobs'[t].edits = jobs[t].edits /\ jobs'[t].undo = jobs[t].undo
           /\ jobs'[t].table = jobs[t].table
<1>1. /\ jobs[t].at = "opening" /\ OnlyJob(t) /\ jobs' = [jobs EXCEPT ![t] = jobs'[t]]
      /\ jobs'[t] = [jobs[t] EXCEPT !.at = "writing", !.file = "scratch"]
  BY DEF Open, At, OnlyJob
<1> QED
  BY <1>1, JobFields

LEMMA WriteJob ==
    ASSUME jobs \in [Threads -> Jobs], NEW t \in Threads, Write(t)
    PROVE  /\ jobs[t].at = "writing" /\ OnlyJob(t)
           /\ jobs' = [jobs EXCEPT ![t] = jobs'[t]]
           /\ jobs'[t].at = "renaming" /\ jobs'[t].file = jobs[t].file
           /\ jobs'[t].edits = jobs[t].edits /\ jobs'[t].undo = jobs[t].undo
           /\ jobs'[t].table = jobs[t].table
<1>1. /\ jobs[t].at = "writing" /\ OnlyJob(t) /\ jobs' = [jobs EXCEPT ![t] = jobs'[t]]
      /\ jobs'[t] = [jobs[t] EXCEPT !.at = "renaming"]
  BY DEF Write, Goes, At, OnlyJob
<1> QED
  BY <1>1, JobFields

LEMMA PublishJob ==
    ASSUME jobs \in [Threads -> Jobs], NEW t \in Threads, Publish(t)
    PROVE  /\ jobs[t].at = "publishing" /\ OnlyJob(t)
           /\ jobs' = [jobs EXCEPT ![t] = jobs'[t]]
           /\ IF DOMAIN jobs[t].undo # {}
              THEN /\ jobs'[t] = [jobs[t] EXCEPT !.at = "arming"]
                   /\ jobs'[t].at = "arming" /\ jobs'[t].file = jobs[t].file
                   /\ jobs'[t].edits = jobs[t].edits /\ jobs'[t].undo = jobs[t].undo
                   /\ jobs'[t].table = jobs[t].table
              ELSE jobs'[t] = Idle
<1>1. /\ jobs[t].at = "publishing" /\ OnlyJob(t) /\ jobs' = [jobs EXCEPT ![t] = jobs'[t]]
      /\ jobs'[t] = IF DOMAIN jobs[t].undo # {}
                    THEN [jobs[t] EXCEPT !.at = "arming"] ELSE Idle
  BY DEF Publish, Afterwards, Goes, Ends, At, OnlyJob
<1> QED
  BY <1>1, JobFields

LEMMA FireJob ==
    ASSUME jobs \in [Threads -> Jobs], NEW t \in Countdowns, Fire(t)
    PROVE  /\ jobs[t].at = "sleeping" /\ OnlyJob(t)
           /\ jobs' = [jobs EXCEPT ![t] = jobs'[t]]
           /\ IF Superseded(t)
              THEN jobs'[t] = Idle
              ELSE /\ jobs'[t] = [jobs[t] EXCEPT !.at = "editing", !.edits = pending.undo]
                   /\ jobs'[t].at = "editing" /\ jobs'[t].edits = pending.undo
                   /\ jobs'[t].undo = jobs[t].undo /\ jobs'[t].table = jobs[t].table
                   /\ jobs'[t].file = jobs[t].file
<1>1. /\ jobs[t].at = "sleeping" /\ OnlyJob(t) /\ jobs' = [jobs EXCEPT ![t] = jobs'[t]]
      /\ jobs'[t] = IF Superseded(t) THEN Idle
                    ELSE [jobs[t] EXCEPT !.at = "editing", !.edits = pending.undo]
  BY ThreadFacts DEF Fire, Ends, At, OnlyJob
<1> QED
  BY <1>1, ThreadFacts, JobFields

LEMMA SettingsInitTypes ==
    ASSUME SettingsInit
    PROVE  SettingsTypeOK
<1>1. local \in File /\ scratch \in File /\ jobs \in [Threads -> Jobs]
  BY FileFacts DEF SettingsInit
<1>2. commands \in Seq(Configs \cup {OtherCommand}) /\ running \in Configs
  BY TableFacts DEF SettingsInit
<1>3. kept \in [ConfirmKeys -> Value \cup {Unset}]
  BY DEF SettingsInit
<1> QED
  BY <1>1, <1>2, <1>3 DEF SettingsInit, SettingsTypeOK

\* What is armed is a countdown.
LEMMA ArmedFacts ==
    ASSUME SettingsTypeOK, NEW t \in Handlers, Arm(t)
    PROVE  pending' \in Countdown
<1>1. t \in Threads
  BY ThreadFacts
<1>2. jobs[t].undo \in Edits
  BY <1>1 DEF SettingsTypeOK, Jobs
<1>3. ASSUME pending # NoCountdown
      PROVE  Merged(jobs[t].undo, pending.undo) \in Edits
  <2>1. pending.undo \in Edits
    BY <1>3 DEF SettingsTypeOK, Countdown
  <2> DEFINE D == DOMAIN jobs[t].undo \cup DOMAIN pending.undo
  <2>2. Merged(jobs[t].undo, pending.undo) \in [D -> Value \cup {Unset}] /\ D \subseteq Keys
    BY <1>2, <2>1, EditFacts DEF Merged
  <2> HIDE DEF D
  <2> QED
    BY <2>2, EditFacts
<1> QED
  BY <1>2, <1>3 DEF Arm, SettingsTypeOK, Countdown

\* Types are kept by what a request or a countdown begins with.
LEMMA RequestTypes ==
    ASSUME SettingsTypeOK,
           \/ \E t \in Handlers : Patch(t) \/ Reset(t) \/ Arm(t)
           \/ \E id \in Countdowns : Confirm(id) \/ Fire(id)
    PROVE  SettingsTypeOK'
<1> USE ThreadFacts
<1>1. ASSUME NEW t \in Handlers, Patch(t)
      PROVE  SettingsTypeOK'
  <2>1. PICK body \in Bodies :
           jobs' = [jobs EXCEPT ![t] =
              [Idle EXCEPT !.at = "editing", !.edits = body,
                           !.undo = [k \in Touched(body) |-> local.table[k]]]]
    BY <1>1 DEF Patch
  <2>2. body \in Edits
    BY BodiesAssumption, EditFacts DEF Value
  <2>3. /\ Touched(body) \subseteq Keys
        /\ [k \in Touched(body) |-> local.table[k]] \in [Touched(body) -> Value \cup {Unset}]
    BY <2>2, EditFacts DEF Touched, SettingsTypeOK, File
  <2>4. [k \in Touched(body) |-> local.table[k]] \in Edits
    BY <2>3, EditFacts
  <2>5. jobs' \in [Threads -> Jobs]
    BY <2>1, <2>2, <2>4, FileFacts DEF SettingsTypeOK, Jobs, Places
  <2> QED
    <3>1. raced' \in BOOLEAN
      BY <1>1, Zenon DEF Patch, Races
    <3>2. /\ local' = local /\ scratch' = scratch /\ pending' = pending /\ nextId' = nextId
          /\ commands' = commands /\ running' = running /\ requests' = requests + 1
          /\ faults' = faults /\ kept' = kept /\ abandoned' = abandoned
          /\ dropped' = dropped
      BY <1>1 DEF Patch, disk, daemon
    <3> QED
      BY <2>5, <3>1, <3>2 DEF SettingsTypeOK
<1>2. ASSUME NEW t \in Handlers, Reset(t)
      PROVE  SettingsTypeOK'
  <2>1. PICK keys \in ResetKeys :
           jobs' = [jobs EXCEPT ![t] =
              [Idle EXCEPT !.at = "editing", !.edits = [k \in keys |-> Unset]]]
    BY <1>2 DEF Reset
  <2>2. [k \in keys |-> Unset] \in Edits
    BY BodiesAssumption, EditFacts
  <2>3. jobs' \in [Threads -> Jobs]
    BY <2>1, <2>2, FileFacts DEF SettingsTypeOK, Jobs, Places
  <2> QED
    <3>1. raced' \in BOOLEAN
      BY <1>2, Zenon DEF Reset, Races
    <3>2. /\ local' = local /\ scratch' = scratch /\ pending' = pending /\ nextId' = nextId
          /\ commands' = commands /\ running' = running /\ requests' = requests + 1
          /\ faults' = faults /\ kept' = kept /\ abandoned' = abandoned
          /\ dropped' = dropped
      BY <1>2 DEF Reset, disk, daemon
    <3> QED
      BY <2>3, <3>1, <3>2 DEF SettingsTypeOK
<1>3. ASSUME NEW t \in Handlers, Arm(t)
      PROVE  SettingsTypeOK'
  <2>1. jobs' \in [Threads -> Jobs]
    <3> DEFINE J == [jobs EXCEPT ![t] = Idle]
    <3>1. J \in [Threads -> Jobs]
      BY FileFacts DEF SettingsTypeOK
    <3>2. jobs' = [J EXCEPT ![nextId].at = "sleeping"]
      BY <1>3 DEF Arm
    <3> HIDE DEF J
    <3> QED
      BY <3>1, <3>2, JobFacts DEF Places
  <2>4. pending' \in Countdown
    BY <1>3, ArmedFacts
  <2> QED
    BY <1>3, <2>1, <2>4 DEF Arm, SettingsTypeOK, disk, daemon, history
<1>4. ASSUME NEW id \in Countdowns, Confirm(id)
      PROVE  SettingsTypeOK'
  <2>1. kept' \in [ConfirmKeys -> Value \cup {Unset}] /\ abandoned' \subseteq ConfirmKeys
    BY <1>4, ConfirmAssumption DEF Confirm, SettingsTypeOK, File
  <2> QED
    BY <1>4, <2>1 DEF Confirm, SettingsTypeOK, disk, daemon
<1>5. ASSUME NEW id \in Countdowns, Fire(id)
      PROVE  SettingsTypeOK'
  <2>1. jobs' \in [Threads -> Jobs]
    <3>1. ~Superseded(id) => pending.undo \in Edits
      BY DEF Superseded, SettingsTypeOK, Countdown
    <3>2. ~Superseded(id) => [jobs[id] EXCEPT !.at = "editing", !.edits = pending.undo] \in Jobs
      BY <3>1, JobFacts DEF SettingsTypeOK
    <3>3. jobs'[id] \in Jobs
      BY <1>5, <3>2, FireJob, FileFacts DEF SettingsTypeOK
    <3>4. jobs' = [jobs EXCEPT ![id] = jobs'[id]]
      BY <1>5, FireJob DEF SettingsTypeOK
    <3> QED
      BY <3>3, <3>4 DEF SettingsTypeOK
  <2>2. raced' \in BOOLEAN
    BY <1>5, Zenon DEF Fire, Races, SettingsTypeOK
  <2>3. pending' \in Countdown \cup {NoCountdown}
    BY <1>5 DEF Fire, SettingsTypeOK
  <2> QED
    BY <1>5, <2>1, <2>2, <2>3 DEF Fire, SettingsTypeOK, disk, daemon
<1> QED
  BY <1>1, <1>2, <1>3, <1>4, <1>5

\* And by the steps of an edit.
LEMMA EditTypes ==
    ASSUME SettingsTypeOK, NEW t \in Threads, Proceeds(t) \/ FailToWrite(t)
    PROVE  SettingsTypeOK'
<1> USE ThreadFacts
<1>1. CASE Edit(t)
  <2>1. Edited(local.table, jobs[t].edits) \in Table
    BY EditFacts DEF SettingsTypeOK, Jobs, File
  <2>2. jobs' \in [Threads -> Jobs]
    <3> DEFINE table == Edited(local.table, jobs[t].edits)
    <3>2. [jobs[t] EXCEPT !.at = "opening", !.table = table] \in Jobs
      BY <2>1, JobFacts DEF SettingsTypeOK
    <3>1. jobs'[t] \in Jobs
      BY <1>1, <3>2, EditJob, FileFacts DEF SettingsTypeOK
    <3>3. jobs' = [jobs EXCEPT ![t] = jobs'[t]]
      BY <1>1, EditJob DEF SettingsTypeOK
    <3> QED
      BY <3>1, <3>3 DEF SettingsTypeOK
  <2> QED
    BY <1>1, <2>2 DEF Edit, SettingsTypeOK, disk, daemon, history
<1>2. CASE Open(t)
  <2>1. jobs' \in [Threads -> Jobs] /\ scratch' \in File
    <3>2. [jobs[t] EXCEPT !.at = "writing", !.file = "scratch"] \in Jobs
      BY JobFacts DEF SettingsTypeOK
    <3>1. jobs'[t] \in Jobs
      BY <1>2, <3>2, OpenJob DEF SettingsTypeOK
    <3> QED
      BY <1>2, <3>1, OpenJob, FileFacts DEF Open, SettingsTypeOK
  <2> QED
    BY <1>2, <2>1 DEF Open, SettingsTypeOK, daemon, history
<1>3. CASE Write(t)
  <2>1. jobs' \in [Threads -> Jobs] /\ jobs[t].table \in Table
    BY <1>3 DEF Write, Goes, SettingsTypeOK, Jobs, Places
  <2>2. local' \in File /\ scratch' \in File
    BY <1>3, <2>1, OverwrittenFacts DEF Write, SettingsTypeOK, disk
  <2> QED
    BY <1>3, <2>1, <2>2 DEF Write, SettingsTypeOK, daemon, history
<1>4. CASE FailToWrite(t)
  <2>1. Moved("scratch", "gone") \in [Threads -> Jobs]
    BY JobFacts DEF Moved, SettingsTypeOK
  <2>2. jobs' \in [Threads -> Jobs]
    BY <1>4, <2>1, FileFacts DEF FailToWrite
  <2>3. local' \in File /\ scratch' \in File
    BY <1>4, FileFacts DEF FailToWrite, SettingsTypeOK
  <2>4. kept' = kept /\ abandoned' \subseteq ConfirmKeys
    BY <1>4 DEF FailToWrite, Unconfirmed, SettingsTypeOK
  <2> QED
    BY <1>4, <2>2, <2>3, <2>4 DEF FailToWrite, SettingsTypeOK, daemon
<1>5. CASE Rename(t)
  <2>1. CASE scratch.text = "absent"
    <3>1. jobs' \in [Threads -> Jobs]
      BY <1>5, <2>1, FileFacts DEF Rename, Ends, SettingsTypeOK
    <3> QED
      BY <1>5, <2>1, <3>1 DEF Rename, SettingsTypeOK, disk, daemon
  <2>2. CASE scratch.text # "absent"
    <3>1. jobs' \in [Threads -> Jobs]
      <4>1. ASSUME NEW u \in Threads
            PROVE  /\ [jobs[u] EXCEPT !.at = "publishing", !.file = "none"] \in Jobs
                   /\ [jobs[u] EXCEPT !.file = "local"] \in Jobs
                   /\ [jobs[u] EXCEPT !.file = "gone"] \in Jobs
                   /\ jobs[u] \in Jobs
        BY JobFacts DEF SettingsTypeOK
      <4> QED
        BY <1>5, <2>2, <4>1 DEF Rename
    <3>2. kept' \in [ConfirmKeys -> Value \cup {Unset}]
      <4>1. \A k \in ConfirmKeys : k \in DOMAIN jobs[t].edits =>
                jobs[t].edits[k] \in Value \cup {Unset}
        BY EditFacts DEF SettingsTypeOK, Jobs
      <4> QED
        BY <1>5, <2>2, <4>1 DEF Rename, GivesUp, SettingsTypeOK
    <3>3. abandoned' \subseteq ConfirmKeys
      BY <1>5, <2>2 DEF Rename, SettingsTypeOK
    <3> QED
      BY <1>5, <2>2, <3>1, <3>2, <3>3, FileFacts DEF Rename, SettingsTypeOK, daemon
  <2> QED
    BY <2>1, <2>2
<1>6. CASE Publish(t)
  <2>1. jobs' \in [Threads -> Jobs]
    <3>2. [jobs[t] EXCEPT !.at = "arming"] \in Jobs
      BY JobFacts DEF SettingsTypeOK
    <3>1. jobs'[t] \in Jobs
      BY <1>6, <3>2, PublishJob, FileFacts DEF SettingsTypeOK
    <3>3. jobs' = [jobs EXCEPT ![t] = jobs'[t]]
      BY <1>6, PublishJob DEF SettingsTypeOK
    <3> QED
      BY <3>1, <3>3 DEF SettingsTypeOK
  <2>2. Merge(jobs[t].table) \in Configs
    BY TableFacts DEF SettingsTypeOK, Jobs
  <2>3. commands' \in Seq(Configs \cup {OtherCommand})
    BY <1>6, <2>2, AppendProperties, SMTT(30) DEF Publish, SettingsTypeOK
  <2> QED
    BY <1>6, <2>1, <2>3 DEF Publish, SettingsTypeOK, disk, daemon
<1> QED
  BY <1>1, <1>2, <1>3, <1>4, <1>5, <1>6 DEF Proceeds

\* And by the main loop.
LEMMA DaemonTypes ==
    ASSUME SettingsTypeOK, Order \/ TakeCommand \/ RestartDaemon
    PROVE  SettingsTypeOK'
<1>1. CASE Order
  <2>1. commands' \in Seq(Configs \cup {OtherCommand})
    BY <1>1, AppendProperties DEF Order, SettingsTypeOK
  <2> QED
    BY <1>1, <2>1 DEF Order, SettingsTypeOK, disk, history
<1>2. CASE TakeCommand
  <2>1. /\ commands' \in Seq(Configs \cup {OtherCommand})
        /\ Head(commands) \in Configs \cup {OtherCommand}
    BY <1>2, HeadTailProperties DEF TakeCommand, SettingsTypeOK
  <2>2. running' \in Configs
    BY <1>2, <2>1 DEF TakeCommand, SettingsTypeOK
  <2> QED
    BY <1>2, <2>1, <2>2 DEF TakeCommand, SettingsTypeOK, disk, history
<1>3. CASE RestartDaemon
  <2>1. jobs' \in [Threads -> Jobs] /\ scratch' \in File
    BY <1>3, FileFacts DEF RestartDaemon
  <2>2. running' \in Configs
    BY <1>3, TableFacts DEF RestartDaemon, SettingsTypeOK, File
  <2>3. kept' \in [ConfirmKeys -> Value \cup {Unset}] /\ abandoned' \subseteq ConfirmKeys
    BY <1>3 DEF RestartDaemon, Unconfirmed, SettingsTypeOK
  <2>4. commands' \in Seq(Configs \cup {OtherCommand})
    BY <1>3 DEF RestartDaemon
  <2> QED
    <3>1. nextId' = 1 /\ faults' = faults + 1 /\ dropped' = FALSE /\ raced' = raced
          /\ requests' = requests /\ pending' = NoCountdown /\ local' = local
      BY <1>3 DEF RestartDaemon
    <3>2. nextId' \in Nat /\ faults' \in Nat /\ requests' \in Nat
      BY <3>1 DEF SettingsTypeOK
    <3>3. raced' \in BOOLEAN /\ dropped' \in BOOLEAN /\ local' \in File
      BY <3>1, Zenon DEF SettingsTypeOK
    <3> QED
      BY <2>1, <2>2, <2>3, <2>4, <3>1, <3>2, <3>3, Zenon DEF SettingsTypeOK
<1> QED
  BY <1>1, <1>2, <1>3

\* A request begins with its edit, alone unless the race is noted.
LEMMA PatchJob ==
    ASSUME SettingsTypeOK, NEW t \in Handlers, Patch(t)
    PROVE  /\ jobs[t].at = "idle" /\ OnlyJob(t)
           /\ jobs'[t].at = "editing" /\ jobs'[t].file = "none" /\ jobs'[t].table = NoOverrides
           /\ DOMAIN jobs'[t].undo = DOMAIN jobs'[t].edits \cap ConfirmKeys
           /\ \A k \in DOMAIN jobs'[t].undo : jobs'[t].undo[k] = local.table[k]
           /\ ~raced' => ~raced /\ Busy \subseteq {t}
<1>1. PICK body \in Bodies :
         jobs' = [jobs EXCEPT ![t] =
            [Idle EXCEPT !.at = "editing", !.edits = body,
                         !.undo = [k \in Touched(body) |-> local.table[k]]]]
  BY DEF Patch
<1>2. /\ jobs'[t].edits = body /\ jobs'[t].undo = [k \in Touched(body) |-> local.table[k]]
      /\ jobs'[t].at = "editing" /\ jobs'[t].file = "none" /\ jobs'[t].table = NoOverrides
      /\ OnlyJob(t)
  BY <1>1, ThreadFacts DEF SettingsTypeOK, OnlyJob, Idle
<1>3. ~raced' => ~raced /\ Busy \subseteq {t}
  BY Zenon DEF Patch, Races
<1>4. jobs[t].at = "idle"
  BY DEF Patch, At
<1>5. Touched(body) = DOMAIN body \cap ConfirmKeys
  BY DEF Touched
<1> HIDE DEF Touched
<1> QED
  BY <1>2, <1>3, <1>4, <1>5

LEMMA ResetJob ==
    ASSUME SettingsTypeOK, NEW t \in Handlers, Reset(t)
    PROVE  /\ jobs[t].at = "idle" /\ OnlyJob(t)
           /\ jobs'[t].at = "editing" /\ jobs'[t].file = "none" /\ jobs'[t].table = NoOverrides
           /\ DOMAIN jobs'[t].undo = {}
           /\ ~raced' => ~raced /\ Busy \subseteq {t}
<1>1. PICK keys \in ResetKeys :
         jobs' = [jobs EXCEPT ![t] =
            [Idle EXCEPT !.at = "editing", !.edits = [k \in keys |-> Unset]]]
  BY DEF Reset
<1>2. /\ jobs'[t].undo = Nothing
      /\ jobs'[t].at = "editing" /\ jobs'[t].file = "none" /\ jobs'[t].table = NoOverrides
      /\ OnlyJob(t)
  BY <1>1, ThreadFacts DEF SettingsTypeOK, OnlyJob, Idle
<1>3. ~raced' => ~raced /\ Busy \subseteq {t}
  BY Zenon DEF Reset, Races
<1>4. jobs[t].at = "idle"
  BY DEF Reset, At
<1> QED
  BY <1>2, <1>3, <1>4, EditFacts

\* A countdown that is armed sleeps, whatever it did before.
LEMMA ArmJob ==
    ASSUME SettingsTypeOK, NEW t \in Handlers, Arm(t)
    PROVE  /\ jobs[t].at = "arming" /\ nextId # t /\ jobs'[t] = Idle
           /\ \A u \in Threads : u # t =>
                 /\ jobs'[u].at = IF u = nextId THEN "sleeping" ELSE jobs[u].at
                 /\ jobs'[u].edits = jobs[u].edits /\ jobs'[u].undo = jobs[u].undo
                 /\ jobs'[u].table = jobs[u].table /\ jobs'[u].file = jobs[u].file
<1>1. nextId # t
  BY ThreadFacts DEF SettingsTypeOK
<1>2. jobs[t].at = "arming" /\ t \in Threads
  BY ThreadFacts DEF Arm, At
<1> DEFINE J == [jobs EXCEPT ![t] = Idle]
<1>3. J \in [Threads -> Jobs] /\ J[t] = Idle /\ \A u \in Threads : u # t => J[u] = jobs[u]
  BY <1>2, FileFacts DEF SettingsTypeOK
<1>4. jobs' = [J EXCEPT ![nextId].at = "sleeping"]
  BY DEF Arm
<1> HIDE DEF J
<1>5. jobs'[t] = Idle
  BY <1>1, <1>2, <1>3, <1>4
<1>6. ASSUME NEW u \in Threads, u # t
      PROVE  /\ jobs'[u].at = IF u = nextId THEN "sleeping" ELSE jobs[u].at
             /\ jobs'[u].edits = jobs[u].edits /\ jobs'[u].undo = jobs[u].undo
             /\ jobs'[u].table = jobs[u].table /\ jobs'[u].file = jobs[u].file
  <2>1. CASE u = nextId
    <3>1. jobs'[u] = [jobs[u] EXCEPT !.at = "sleeping"] /\ jobs[u] \in Jobs
      BY <1>3, <1>4, <1>6, <2>1 DEF SettingsTypeOK
    <3> QED
      BY <2>1, <3>1, JobFields
  <2>2. CASE u # nextId
    BY <1>3, <1>4, <1>6, <2>2
  <2> QED
    BY <2>1, <2>2
<1> QED
  BY <1>1, <1>2, <1>5, <1>6

\* The rename moves the descriptors of other threads with the files.
LEMMA RenameJob ==
    ASSUME SettingsTypeOK, NEW t \in Threads, Rename(t)
    PROVE  /\ jobs[t].at = "renaming"
           /\ IF scratch.text = "absent"
              THEN OnlyJob(t) /\ jobs'[t] = Idle /\ UNCHANGED <<local, scratch, kept, abandoned>>
              ELSE /\ local' = scratch /\ scratch' = FileOf("absent")
                   /\ abandoned' = abandoned \ GivesUp(t)
                   /\ \A k \in ConfirmKeys :
                         kept'[k] = IF k \in GivesUp(t) THEN jobs[t].edits[k] ELSE kept[k]
                   /\ jobs'[t].at = "publishing" /\ jobs'[t].file = "none"
                   /\ jobs'[t].edits = jobs[t].edits /\ jobs'[t].undo = jobs[t].undo
                   /\ jobs'[t].table = jobs[t].table
                   /\ \A u \in Threads : u # t =>
                         /\ jobs'[u].at = jobs[u].at /\ jobs'[u].edits = jobs[u].edits
                         /\ jobs'[u].undo = jobs[u].undo /\ jobs'[u].table = jobs[u].table
                         /\ jobs[u].file = "none" => jobs'[u].file = "none"
<1>1. CASE scratch.text = "absent"
  BY <1>1 DEF Rename, Ends, At, OnlyJob, SettingsTypeOK, disk
<1>2. CASE scratch.text # "absent"
  <2>1. /\ jobs[t].at = "renaming" /\ local' = scratch /\ scratch' = FileOf("absent")
        /\ abandoned' = abandoned \ GivesUp(t)
        /\ \A k \in ConfirmKeys :
              kept'[k] = IF k \in GivesUp(t) THEN jobs[t].edits[k] ELSE kept[k]
    BY <1>2 DEF Rename, At
  <2>2. jobs'[t] = [jobs[t] EXCEPT !.at = "publishing", !.file = "none"] /\ jobs[t] \in Jobs
    BY <1>2 DEF Rename, SettingsTypeOK
  <2>3. ASSUME NEW u \in Threads, u # t
        PROVE  /\ jobs'[u].at = jobs[u].at /\ jobs'[u].edits = jobs[u].edits
               /\ jobs'[u].undo = jobs[u].undo /\ jobs'[u].table = jobs[u].table
               /\ jobs[u].file = "none" => jobs'[u].file = "none"
    <3>1. jobs[u] \in Jobs
      BY DEF SettingsTypeOK
    <3>2. CASE jobs[u].file = "scratch"
      <4>1. jobs'[u] = [jobs[u] EXCEPT !.file = "local"]
        BY <1>2, <2>3, <3>2 DEF Rename
      <4> QED
        BY <3>1, <3>2, <4>1, JobFields
    <3>3. CASE jobs[u].file = "local"
      <4>1. jobs'[u] = [jobs[u] EXCEPT !.file = "gone"]
        BY <1>2, <2>3, <3>3 DEF Rename
      <4> QED
        BY <3>1, <3>3, <4>1, JobFields
    <3>4. CASE jobs[u].file \notin {"scratch", "local"}
      <4>1. jobs'[u] = jobs[u]
        BY <1>2, <2>3, <3>4 DEF Rename
      <4> QED
        BY <4>1
    <3> QED
      BY <3>2, <3>3, <3>4
  <2>4. /\ jobs'[t].at = "publishing" /\ jobs'[t].file = "none"
        /\ jobs'[t].edits = jobs[t].edits /\ jobs'[t].undo = jobs[t].undo
        /\ jobs'[t].table = jobs[t].table
    BY <2>2, JobFields
  <2> QED
    BY <1>2, <2>1, <2>3, <2>4
<1> QED
  BY <1>1, <1>2

LEMMA FailJob ==
    ASSUME SettingsTypeOK, NEW t \in Threads, FailToWrite(t)
    PROVE  /\ jobs[t].at = "writing" /\ jobs'[t] = Idle
           /\ \A u \in Threads : u # t =>
                 /\ jobs'[u].at = jobs[u].at /\ jobs'[u].edits = jobs[u].edits
                 /\ jobs'[u].undo = jobs[u].undo /\ jobs'[u].table = jobs[u].table
                 /\ jobs[u].file = "none" => jobs'[u].file = "none"
<1>1. jobs[t].at = "writing" /\ jobs'[t] = Idle
  BY DEF FailToWrite, At, Moved
<1>2. ASSUME NEW u \in Threads, u # t
      PROVE  /\ jobs'[u].at = jobs[u].at /\ jobs'[u].edits = jobs[u].edits
             /\ jobs'[u].undo = jobs[u].undo /\ jobs'[u].table = jobs[u].table
             /\ jobs[u].file = "none" => jobs'[u].file = "none"
  <2>1. /\ jobs[u] \in Jobs
        /\ jobs'[u] = IF jobs[u].file = "scratch" THEN [jobs[u] EXCEPT !.file = "gone"]
                      ELSE jobs[u]
    BY <1>2 DEF FailToWrite, Moved, SettingsTypeOK
  <2> QED
    BY <2>1, JobFields
<1> QED
  BY <1>1, <1>2

----
(* No invalid configuration *)

\* A step of an edit keeps everything valid: only Edit makes a table, and it
\* has validated it.
LEMMA EditKeepsValid ==
    ASSUME SettingsTypeOK, AllValid, NEW t \in Threads, Proceeds(t) \/ FailToWrite(t)
    PROVE  AllValid'
<1>1. CASE Edit(t)
  <2>1. \A u \in Threads : ~Refused(jobs'[u].table)
    <3>1. \A u \in Threads : u # t => jobs'[u] = jobs[u]
      BY <1>1, EditJob DEF OnlyJob, SettingsTypeOK
    <3>2. jobs'[t] = Idle \/ ~Refused(jobs'[t].table)
      BY <1>1, EditJob DEF SettingsTypeOK
    <3>3. ~Refused(Idle.table)
      BY FileFacts, TableFacts
    <3> QED
      BY <3>1, <3>2, <3>3 DEF AllValid
  <2> QED
    BY <1>1, <2>1 DEF Edit, AllValid, disk, daemon
<1>2. CASE Open(t)
  <2>1. \A u \in Threads : ~Refused(jobs'[u].table)
    BY <1>2, OpenJob DEF OnlyJob, AllValid, SettingsTypeOK
  <2> QED
    BY <1>2, <2>1, FileFacts, TableFacts DEF Open, AllValid, daemon
<1>3. CASE Write(t)
  <2>1. \A u \in Threads : ~Refused(jobs'[u].table)
    BY <1>3, WriteJob DEF OnlyJob, AllValid, SettingsTypeOK
  <2>2. jobs[t].table \in Table /\ ~Refused(jobs[t].table)
    BY DEF SettingsTypeOK, Jobs, AllValid
  <2>3. ~Refused(local'.table) /\ ~Refused(scratch'.table)
    BY <1>3, <2>2, OverwrittenFacts, FileFacts, TableFacts DEF Write, SettingsTypeOK, AllValid, disk
  <2> QED
    BY <1>3, <2>1, <2>3 DEF Write, AllValid, daemon
<1>4. CASE FailToWrite(t)
  <2>1. \A u \in Threads : ~Refused(jobs'[u].table)
    BY <1>4, FailJob, FileFacts, TableFacts DEF AllValid
  <2>2. ~Refused(local'.table) /\ ~Refused(scratch'.table)
    BY <1>4, FileFacts, TableFacts DEF FailToWrite, AllValid
  <2> QED
    BY <1>4, <2>1, <2>2 DEF FailToWrite, AllValid, daemon
<1>5. CASE Rename(t)
  <2>1. \A u \in Threads : ~Refused(jobs'[u].table)
    BY <1>5, RenameJob, FileFacts, TableFacts DEF AllValid, OnlyJob
  <2>2. ~Refused(local'.table) /\ ~Refused(scratch'.table)
    BY <1>5, RenameJob, FileFacts, TableFacts DEF AllValid
  <2> QED
    BY <1>5, <2>1, <2>2 DEF Rename, AllValid, daemon
<1>6. CASE Publish(t)
  <2>1. \A u \in Threads : ~Refused(jobs'[u].table)
    BY <1>6, PublishJob, FileFacts, TableFacts DEF OnlyJob, AllValid, SettingsTypeOK
  <2>2. Merge(jobs[t].table) \in Configs /\ Merge(jobs[t].table) \notin Invalid
    BY TableFacts DEF SettingsTypeOK, Jobs, AllValid, Refused
  <2>3. \A i \in 1 .. Len(commands') : commands'[i] # OtherCommand => commands'[i] \notin Invalid
    <3>1. CASE Len(commands) < Capacity
      <4> DEFINE c == Merge(jobs[t].table)
      <4>1. commands' = Append(commands, c)
        BY <1>6, <3>1 DEF Publish
      <4> HIDE DEF c
      <4>2. /\ Len(commands') = Len(commands) + 1 /\ Len(commands) \in Nat
            /\ \A i \in 1 .. Len(commands) : commands'[i] = commands[i]
            /\ commands'[Len(commands) + 1] = c
        BY <2>2, <4>1, AppendProperties, LenProperties DEF SettingsTypeOK, c
      <4>3. c \notin Invalid
        BY <2>2 DEF c
      <4>4. \A i \in 1 .. Len(commands) : commands[i] # OtherCommand => commands[i] \notin Invalid
        BY DEF AllValid
      <4> QED
        BY <4>2, <4>3, <4>4
    <3>2. CASE ~(Len(commands) < Capacity)
      <4>1. commands' = commands
        BY <1>6, <3>2 DEF Publish
      <4> QED
        BY <4>1 DEF AllValid
    <3> QED
      BY <3>1, <3>2
  <2> QED
    BY <1>6, <2>1, <2>3 DEF Publish, AllValid, disk
<1> QED
  BY <1>1, <1>2, <1>3, <1>4, <1>5, <1>6 DEF Proceeds

LEMMA OthersKeepValid ==
    ASSUME SettingsTypeOK, AllValid,
           \/ \E t \in Handlers : Patch(t) \/ Reset(t) \/ Arm(t)
           \/ \E id \in Countdowns : Confirm(id) \/ Fire(id)
           \/ Order \/ TakeCommand \/ RestartDaemon
    PROVE  AllValid'
<1>1. ASSUME NEW t \in Handlers, Patch(t) \/ Reset(t) \/ Arm(t)
      PROVE  AllValid'
  <2>1. \A u \in Threads : ~Refused(jobs'[u].table)
    BY <1>1, PatchJob, ResetJob, ArmJob, FileFacts, TableFacts
       DEF OnlyJob, AllValid, SettingsTypeOK
  <2> QED
    BY <1>1, <2>1 DEF Patch, Reset, Arm, AllValid, disk, daemon
<1>2. ASSUME NEW id \in Countdowns, Confirm(id) \/ Fire(id)
      PROVE  AllValid'
  <2>1. \A u \in Threads : ~Refused(jobs'[u].table)
    BY <1>2, FireJob, ThreadFacts, FileFacts, TableFacts
       DEF Confirm, OnlyJob, AllValid, SettingsTypeOK, Jobs
  <2> QED
    BY <1>2, <2>1 DEF Confirm, Fire, AllValid, disk, daemon
<1>3. CASE Order
  <2>1. \A i \in 1 .. Len(commands') : commands'[i] # OtherCommand => commands'[i] \notin Invalid
    BY <1>3, AppendProperties DEF Order, SettingsTypeOK, AllValid
  <2> QED
    BY <1>3, <2>1 DEF Order, AllValid, disk
<1>4. CASE TakeCommand
  <2>1. /\ Len(commands) \in Nat /\ Len(commands) > 0 /\ Head(commands) = commands[1]
        /\ Len(commands') = Len(commands) - 1
        /\ \A i \in 1 .. Len(commands') : commands'[i] = commands[i + 1]
    BY <1>4, HeadTailProperties, LenProperties, EmptySeq DEF TakeCommand, SettingsTypeOK
  <2>2. \A i \in 1 .. Len(commands') : commands'[i] # OtherCommand => commands'[i] \notin Invalid
    BY <2>1 DEF AllValid
  <2>3. running' \notin Invalid
    BY <1>4, <2>1 DEF TakeCommand, AllValid
  <2> QED
    BY <1>4, <2>2, <2>3 DEF TakeCommand, AllValid, disk
<1>5. CASE RestartDaemon
  <2>1. \A u \in Threads : ~Refused(jobs'[u].table)
    BY <1>5, FileFacts, TableFacts DEF RestartDaemon
  <2>2. running' \notin Invalid /\ Len(commands') = 0
    BY <1>5 DEF RestartDaemon, AllValid, Refused
  <2> QED
    BY <1>5, <2>1, <2>2, FileFacts, TableFacts DEF RestartDaemon, AllValid
<1> QED
  BY <1>1, <1>2, <1>3, <1>4, <1>5

----
(* What is undone, and who writes *)

\* Nothing is put back by the empty edit, and what is put back together with
\* more is put back still.
LEMMA BackFacts ==
    /\ GoesBack(Nothing)
    /\ \A table \in Table, e \in Edits :
          /\ ~Refused(table) /\ DOMAIN e \subseteq ConfirmKeys
          /\ \A k \in DOMAIN e : e[k] = table[k]
          => GoesBack(e)
<1>1. GoesBack(Nothing)
  BY TableFacts, EditFacts, BaseAssumption DEF GoesBack
<1>2. ASSUME NEW table \in Table, NEW e \in Edits, ~Refused(table),
             DOMAIN e \subseteq ConfirmKeys, \A k \in DOMAIN e : e[k] = table[k]
      PROVE  GoesBack(e)
  <2>1. Merge(table) \in Configs \ Invalid
    BY <1>2, TableFacts DEF Refused
  <2>2. \A k \in Keys : Merge(table)[k] = IF table[k] = Unset THEN Base[k] ELSE table[k]
    BY DEF Merge
  <2>3. \A k \in DOMAIN e : Merge(table)[k] = IF e[k] = Unset THEN Base[k] ELSE e[k]
    BY <1>2, <2>2, EditFacts
  <2> DEFINE c == Merge(table)
  <2>4. /\ c \in Configs \ Invalid
        /\ \A k \in DOMAIN e : c[k] = IF e[k] = Unset THEN Base[k] ELSE e[k]
    BY <2>1, <2>3
  <2> HIDE DEF c
  <2> QED
    BY <1>2, <2>4 DEF GoesBack
<1> QED
  BY <1>1, <1>2

\* So is what two changes put back, merged: the settings of one are taken from
\* its configuration, the others from the other's.
LEMMA MergedGoesBack ==
    ASSUME NEW newer \in Edits, NEW older \in Edits, GoesBack(newer), GoesBack(older)
    PROVE  GoesBack(Merged(newer, older))
<1>1. PICK c \in Configs \ Invalid :
         \A k \in DOMAIN older : c[k] = IF older[k] = Unset THEN Base[k] ELSE older[k]
  BY DEF GoesBack
<1>2. PICK d \in Configs \ Invalid :
         \A k \in DOMAIN newer : d[k] = IF newer[k] = Unset THEN Base[k] ELSE newer[k]
  BY DEF GoesBack
<1>3. DOMAIN older \subseteq ConfirmKeys /\ DOMAIN newer \subseteq ConfirmKeys
  BY DEF GoesBack
<1> DEFINE D == DOMAIN older
           e == [k \in Keys |-> IF k \in D THEN c[k] ELSE d[k]]
           m == Merged(newer, older)
<1>4. e \notin Invalid /\ e \in Configs
  BY <1>3, ValidationAssumption
<1>5. /\ DOMAIN m = DOMAIN newer \cup D
      /\ \A k \in DOMAIN m : m[k] = IF k \in D THEN older[k] ELSE newer[k]
  BY DEF Merged
<1>6. \A k \in ConfirmKeys : k \in Keys /\ e[k] = IF k \in D THEN c[k] ELSE d[k]
  BY ConfirmAssumption
<1>7. DOMAIN m \subseteq ConfirmKeys
  BY <1>3, <1>5
<1> HIDE DEF m, e
<1>8. \A k \in DOMAIN m : e[k] = IF m[k] = Unset THEN Base[k] ELSE m[k]
  BY <1>1, <1>2, <1>5, <1>6, <1>7
<1>9. GoesBack(m)
  BY <1>4, <1>7, <1>8 DEF GoesBack
<1> QED
  BY <1>9 DEF m

LEMMA EditKeepsUndoes ==
    ASSUME SettingsTypeOK, UndoesTheDisplay, NEW t \in Threads, Proceeds(t) \/ FailToWrite(t)
    PROVE  UndoesTheDisplay'
<1>1. /\ pending' = pending
      /\ \A u \in Threads : /\ jobs'[u].undo = jobs[u].undo \/ jobs'[u].undo = Nothing
                            /\ jobs'[u].edits = jobs[u].edits \/ jobs'[u].edits = Nothing
  <2> USE FileFacts DEF OnlyJob, SettingsTypeOK
  <2>1. CASE Edit(t)
    BY <2>1, EditJob DEF Edit
  <2>2. CASE Open(t)
    BY <2>2, OpenJob DEF Open
  <2>3. CASE Write(t)
    BY <2>3, WriteJob DEF Write
  <2>4. CASE Rename(t)
    BY <2>4, RenameJob DEF Rename
  <2>5. CASE Publish(t)
    BY <2>5, PublishJob DEF Publish
  <2>6. CASE FailToWrite(t)
    BY <2>6, FailJob DEF FailToWrite
  <2> QED
    BY <2>1, <2>2, <2>3, <2>4, <2>5, <2>6 DEF Proceeds
<1> QED
  BY <1>1, EditFacts, BackFacts, ThreadFacts DEF UndoesTheDisplay

LEMMA OthersKeepUndoes ==
    ASSUME SettingsTypeOK, SettingsTypeOK', AllValid, UndoesTheDisplay,
           \/ \E t \in Handlers : Patch(t) \/ Reset(t) \/ Arm(t)
           \/ \E id \in Countdowns : Confirm(id) \/ Fire(id)
           \/ Order \/ TakeCommand \/ RestartDaemon
    PROVE  UndoesTheDisplay'
<1>1. ASSUME NEW t \in Handlers, Patch(t)
      PROVE  UndoesTheDisplay'
  <2>1. /\ pending' = pending /\ DOMAIN jobs'[t].undo \subseteq ConfirmKeys
        /\ \A k \in DOMAIN jobs'[t].undo : jobs'[t].undo[k] = local.table[k]
        /\ \A u \in Threads : u # t => jobs'[u] = jobs[u]
    BY <1>1, PatchJob DEF Patch, OnlyJob
  <2>2. local.table \in Table /\ ~Refused(local.table) /\ jobs'[t].undo \in Edits
    BY ThreadFacts DEF SettingsTypeOK, File, Jobs, AllValid
  <2>3. GoesBack(jobs'[t].undo)
    BY <2>1, <2>2, BackFacts
  <2> QED
    BY <2>1, <2>3, ThreadFacts DEF UndoesTheDisplay
<1>2. ASSUME NEW t \in Handlers, Reset(t)
      PROVE  UndoesTheDisplay'
  <2>1. /\ pending' = pending /\ DOMAIN jobs'[t].undo = {}
        /\ \A u \in Threads : u # t => jobs'[u] = jobs[u]
    BY <1>2, ResetJob DEF Reset, OnlyJob
  <2>2. local.table \in Table /\ ~Refused(local.table) /\ jobs'[t].undo \in Edits
    BY ThreadFacts DEF SettingsTypeOK, File, Jobs, AllValid
  <2>3. GoesBack(jobs'[t].undo)
    BY <2>1, <2>2, BackFacts
  <2> QED
    BY <2>1, <2>3, ThreadFacts DEF UndoesTheDisplay
<1>3. ASSUME NEW t \in Handlers, Arm(t)
      PROVE  UndoesTheDisplay'
  <2>1. GoesBack(pending'.undo)
    <3>1. CASE pending = NoCountdown
      <4>1. pending'.undo = jobs[t].undo
        BY <1>3, <3>1 DEF Arm
      <4> QED
        BY <4>1, ThreadFacts DEF UndoesTheDisplay
    <3>2. CASE pending # NoCountdown
      <4>1. pending'.undo = Merged(jobs[t].undo, pending.undo)
        BY <1>3, <3>2 DEF Arm
      <4>2. jobs[t].undo \in Edits /\ pending.undo \in Edits
        BY <3>2, ThreadFacts DEF SettingsTypeOK, Jobs, Countdown
      <4>3. GoesBack(jobs[t].undo) /\ GoesBack(pending.undo)
        BY <3>2, ThreadFacts DEF UndoesTheDisplay
      <4> QED
        BY <4>1, <4>2, <4>3, MergedGoesBack
    <3> QED
      BY <3>1, <3>2
  <2>2. \A u \in Threads : /\ jobs'[u].undo = jobs[u].undo \/ jobs'[u].undo = Nothing
                           /\ jobs'[u].edits = jobs[u].edits \/ jobs'[u].edits = Nothing
    BY <1>3, ArmJob, FileFacts, ThreadFacts
  <2> QED
    BY <2>1, <2>2, EditFacts, BackFacts, ThreadFacts DEF UndoesTheDisplay
<1>4. ASSUME NEW id \in Countdowns, Confirm(id)
      PROVE  UndoesTheDisplay'
  BY <1>4 DEF Confirm, UndoesTheDisplay
<1>5. ASSUME NEW id \in Countdowns, Fire(id)
      PROVE  UndoesTheDisplay'
  <2>1. CASE Superseded(id)
    <3>1. OnlyJob(id) /\ jobs'[id] = Idle /\ pending' = pending
      BY <1>5, <2>1, FireJob DEF Fire, SettingsTypeOK
    <3> QED
      BY <3>1, FileFacts, EditFacts, BackFacts, ThreadFacts DEF OnlyJob, UndoesTheDisplay
  <2>2. CASE ~Superseded(id)
    <3>1. /\ OnlyJob(id) /\ jobs'[id].edits = pending.undo /\ jobs'[id].undo = jobs[id].undo
          /\ pending' = NoCountdown /\ pending # NoCountdown
      BY <1>5, <2>2, FireJob DEF Fire, SettingsTypeOK, Superseded
    <3> QED
      BY <3>1, ThreadFacts DEF OnlyJob, UndoesTheDisplay
  <2> QED
    BY <2>1, <2>2
<1>6. CASE Order \/ TakeCommand
  BY <1>6 DEF Order, TakeCommand, UndoesTheDisplay
<1>7. CASE RestartDaemon
  BY <1>7, FileFacts, EditFacts, BackFacts, ThreadFacts DEF RestartDaemon, UndoesTheDisplay
<1> QED
  BY <1>1, <1>2, <1>3, <1>4, <1>5, <1>6, <1>7

\* The thread at work and the others.
Resting(u) == jobs[u].at \in {"idle", "sleeping"} /\ jobs[u].file = "none"

LEMMA OnlyWriter ==
    ASSUME NEW t \in Threads, OneWriter,
           jobs[t].at \notin {"idle", "sleeping"}
    PROVE  /\ t \in Busy /\ \A u \in Threads : u # t => Resting(u)
           /\ Busy = {t}
BY DEF OneWriter, Busy, Resting, Alone

\* A thread that writes alone writes one file, renames it, and is done.
LEMMA EditStaysAlone ==
    ASSUME SettingsTypeOK, OneWriter, NEW t \in Threads, Proceeds(t) \/ FailToWrite(t)
    PROVE  /\ OneWriter' /\ Busy' \subseteq {t} /\ Busy = {t}
           /\ \A u \in Threads : u # t => Resting(u) /\ Resting(u)'
<1>1. /\ t \in Busy /\ Busy = {t} /\ \A u \in Threads : u # t => Resting(u)
      /\ local.text \in {"absent", "whole"} /\ Alone(t) /\ jobs[t] \in Jobs
  <2>1. jobs[t].at \notin {"idle", "sleeping"}
    BY DEF Proceeds, Edit, Open, Write, Rename, Publish, FailToWrite, At
  <2> QED
    BY <2>1, OnlyWriter DEF OneWriter, SettingsTypeOK
<1>2. \A u \in Threads : u # t => jobs'[u].at = jobs[u].at /\ jobs'[u].file = "none"
  <2> USE <1>1 DEF OnlyJob, Resting, SettingsTypeOK
  <2>1. CASE Edit(t)
    BY <2>1, EditJob
  <2>2. CASE Open(t)
    <3>1. jobs \in [Threads -> Jobs] /\ t \in Threads
      OBVIOUS
    <3>2. \A u \in Threads : u # t => jobs'[u] = jobs[u]
      BY ONLY <2>2, <3>1, OpenJob DEF OnlyJob
    <3> QED
      BY <3>2
  <2>3. CASE Write(t)
    BY <2>3, WriteJob
  <2>4. CASE Rename(t)
    BY <2>4, RenameJob
  <2>5. CASE Publish(t)
    BY <2>5, PublishJob
  <2>6. CASE FailToWrite(t)
    BY <2>6, FailJob
  <2> QED
    BY <2>1, <2>2, <2>3, <2>4, <2>5, <2>6 DEF Proceeds
<1>3. \A u \in Threads : u # t => Resting(u)'
  BY <1>1, <1>2 DEF Resting
<1>4. Alone(t)' /\ local'.text \in {"absent", "whole"}
  <2> USE FileFacts, <1>1 DEF Alone, SettingsTypeOK
  <2>1. CASE Edit(t)
    <3>1. jobs[t].at = "editing" /\ jobs[t].file = "none" /\ local' = local
      BY <2>1, EditJob DEF Edit, disk
    <3>2. CASE jobs'[t] = Idle
      BY <2>1, <3>1, <3>2
    <3>3. CASE jobs'[t] # Idle
      <4>1. /\ jobs'[t].at = "opening" /\ jobs'[t].file = "none"
            /\ jobs'[t].table = Edited(local.table, jobs[t].edits)
            /\ jobs'[t].edits = jobs[t].edits
        BY <2>1, <3>1, <3>3, EditJob
      <4> QED
        BY <3>1, <4>1
    <3> QED
      BY <3>2, <3>3
  <2>2. CASE Open(t)
    BY <2>2, OpenJob DEF Open
  <2>3. CASE Write(t)
    <3>1. /\ jobs[t].at = "writing" /\ jobs[t].file = "scratch" /\ scratch.text = "blank"
          /\ jobs'[t].at = "renaming" /\ jobs'[t].file = "scratch"
          /\ jobs'[t].edits = jobs[t].edits /\ jobs'[t].table = jobs[t].table
      BY <2>3, WriteJob
    <3>2. scratch' \in Overwritten(scratch, jobs[t].table) /\ local' = local
      BY <2>3, <3>1 DEF Write
    <3>3. scratch' = Holding(jobs[t].table)
      BY <3>1, <3>2, OverwrittenFacts DEF Jobs
    <3> QED
      BY <3>1, <3>2, <3>3
  <2>4. CASE Rename(t)
    BY <2>4, RenameJob
  <2>5. CASE Publish(t)
    BY <2>5, PublishJob DEF Publish, disk
  <2>6. CASE FailToWrite(t)
    BY <2>6, FailJob DEF FailToWrite
  <2> QED
    BY <2>1, <2>2, <2>3, <2>4, <2>5, <2>6 DEF Proceeds
<1>5. OneWriter' /\ Busy' \subseteq {t}
  <2>1. local'.text \in {"absent", "whole"}
    BY <1>4
  <2>2. ASSUME Alone(t)', (local.text \in {"absent", "whole"})',
               \A u \in Threads : u # t => Resting(u)'
        PROVE  OneWriter' /\ Busy' \subseteq {t}
    <3>1. \A u \in Threads : Alone(u)'
      BY <2>2 DEF Resting, Alone
    <3>2. Busy' \subseteq {t}
      BY <2>2 DEF Busy, Resting
    <3> QED
      BY <2>2, <3>1, <3>2 DEF OneWriter
  <2> QED
    BY <1>3, <1>4, <2>1, <2>2
<1> QED
  BY <1>1, <1>3, <1>5

\* A request that begins, and a countdown that fires, is alone or is noted.
LEMMA OthersStayAlone ==
    ASSUME SettingsTypeOK, ~raced => OneWriter, ~raced',
           \/ \E t \in Handlers : Patch(t) \/ Reset(t) \/ Arm(t)
           \/ \E id \in Countdowns : Confirm(id) \/ Fire(id)
           \/ Order \/ TakeCommand \/ RestartDaemon
    PROVE  OneWriter'
<1>1. ASSUME OneWriter, local' = local,
             \A u \in Threads : Alone(u)', NEW t \in Threads, Busy' \subseteq {t}
      PROVE  OneWriter'
  BY <1>1 DEF OneWriter
<1>2. ASSUME NEW t \in Handlers, Patch(t) \/ Reset(t)
      PROVE  OneWriter'
  <2>1. /\ jobs[t].at = "idle" /\ jobs'[t].at = "editing" /\ jobs'[t].file = "none"
        /\ ~raced /\ Busy \subseteq {t} /\ OneWriter
        /\ \A u \in Threads : u # t => jobs'[u] = jobs[u]
        /\ local' = local /\ scratch' = scratch
    BY <1>2, PatchJob, ResetJob DEF OnlyJob, Patch, Reset, disk
  <2>2. \A u \in Threads : Alone(u)'
    BY <2>1, ThreadFacts DEF OneWriter, Alone
  <2>3. Busy' \subseteq {t}
    BY <2>1, ThreadFacts DEF Busy
  <2> QED
    BY <1>1, <2>1, <2>2, <2>3, ThreadFacts
<1>3. ASSUME NEW t \in Handlers, Arm(t)
      PROVE  OneWriter'
  <2>1. ~raced /\ local' = local /\ scratch' = scratch
    BY <1>3, Zenon DEF Arm, history, disk
  <2>2. \A u \in Threads : u # t => Resting(u)
    BY <1>3, <2>1, ArmJob, OnlyWriter, ThreadFacts
  <2>3. \A u \in Threads : jobs'[u].at \in {"idle", "sleeping"} /\ jobs'[u].file = "none"
    BY <1>3, <2>2, ArmJob, FileFacts DEF Resting
  <2>4. \A u \in Threads : Alone(u)'
    BY <2>3 DEF Alone
  <2>5. Busy' \subseteq {t}
    BY <2>3 DEF Busy
  <2> QED
    BY <1>1, <2>1, <2>4, <2>5, ThreadFacts
<1>4. ASSUME NEW id \in Countdowns, Confirm(id)
      PROVE  OneWriter'
  <2>1. ~raced /\ local' = local /\ scratch' = scratch /\ jobs' = jobs
    BY <1>4, Zenon DEF Confirm, disk
  <2> QED
    BY <2>1 DEF OneWriter, Busy, Alone
<1>5. ASSUME NEW id \in Countdowns, Fire(id)
      PROVE  OneWriter'
  <2>1. ~raced /\ local' = local /\ scratch' = scratch
    BY <1>5, Zenon DEF Fire, Races, disk
  <2>2. jobs[id].at = "sleeping" /\ OnlyJob(id) /\ id \in Threads /\ OneWriter
    BY <1>5, <2>1, FireJob, ThreadFacts DEF SettingsTypeOK
  <2>3. jobs[id].file = "none" /\ id \notin Busy
    BY <2>2 DEF OneWriter, Alone, Busy
  <2>4. CASE Superseded(id)
    <3>1. jobs'[id] = Idle
      BY <1>5, <2>4, FireJob DEF SettingsTypeOK
    <3>2. \A u \in Threads : Alone(u)'
      BY <2>1, <2>2, <3>1, FileFacts DEF OnlyJob, OneWriter, Alone
    <3>3. Busy' \subseteq Busy
      BY <2>2, <3>1, FileFacts DEF OnlyJob, Busy
    <3> QED
      BY <2>1, <2>2, <3>2, <3>3 DEF OneWriter
  <2>5. CASE ~Superseded(id)
    <3>1. jobs'[id].at = "editing" /\ jobs'[id].file = "none"
      BY <1>5, <2>3, <2>5, FireJob DEF SettingsTypeOK
    <3>2. \A u \in Threads : Alone(u)'
      BY <2>1, <2>2, <3>1 DEF OnlyJob, OneWriter, Alone
    <3>3. Busy \subseteq {id}
      BY <1>5, <2>5, Zenon DEF Fire, Races
    <3>4. Busy' \subseteq {id}
      BY <2>2, <3>3 DEF OnlyJob, Busy
    <3> QED
      BY <1>1, <2>1, <2>2, <3>2, <3>4
  <2> QED
    BY <2>4, <2>5
<1>6. CASE Order \/ TakeCommand
  <2>1. ~raced /\ local' = local /\ scratch' = scratch /\ jobs' = jobs
    <3>1. CASE Order
      BY <3>1, Zenon DEF Order, disk, history
    <3>2. CASE TakeCommand
      BY <3>2, Zenon DEF TakeCommand, disk, history
    <3> QED
      BY <1>6, <3>1, <3>2
  <2> QED
    BY <2>1 DEF OneWriter, Busy, Alone
<1>7. CASE RestartDaemon
  <2>1. ~raced /\ local' = local /\ \A u \in Threads : jobs'[u] = Idle
    BY <1>7, Zenon DEF RestartDaemon
  <2>2. \A u \in Threads : Alone(u)'
    BY <2>1, FileFacts DEF Alone
  <2>3. Busy' = {}
    BY <2>1, FileFacts DEF Busy
  <2> QED
    BY <2>1, <2>2, <2>3 DEF OneWriter
<1> QED
  BY <1>2, <1>3, <1>4, <1>5, <1>6, <1>7

----
(* What was last confirmed *)

\* A revert is never refused: what it puts back was valid once.
LEMMA RevertPasses ==
    ASSUME SettingsTypeOK, AllValid, UndoesTheDisplay, NEW t \in Countdowns
    PROVE  ~Refused(Edited(local.table, jobs[t].edits))
<1> DEFINE e == jobs[t].edits
           new == Edited(local.table, e)
<1>1. /\ e \in Edits /\ local.table \in Table /\ new \in Table
      /\ GoesBack(e) /\ ~Refused(local.table)
      /\ \A k \in Keys : new[k] = IF k \in DOMAIN e THEN e[k] ELSE local.table[k]
  BY EditFacts, ThreadFacts DEF SettingsTypeOK, Jobs, File, AllValid, UndoesTheDisplay
<1> HIDE DEF e, new
<1>2. DOMAIN e \subseteq ConfirmKeys
  BY <1>1 DEF GoesBack
<1>3. PICK c \in Configs \ Invalid :
         \A k \in DOMAIN e : c[k] = IF e[k] = Unset THEN Base[k] ELSE e[k]
  BY <1>1 DEF GoesBack
<1>4. Merge(local.table) \in Configs \ Invalid /\ Merge(new) \in Configs
  BY <1>1, TableFacts DEF Refused
<1>5. \A k \in Keys : Merge(new)[k] = IF k \in DOMAIN e THEN c[k] ELSE Merge(local.table)[k]
  BY <1>1, <1>3 DEF Merge
<1>6. Merge(new) \notin Invalid
  BY <1>2, <1>3, <1>4, <1>5, MixIsValid
<1> QED
  BY <1>6 DEF Refused, new, e

----
(* Changes to the display are covered *)

\* A thread that is the only one at work covers every setting, or is done and
\* the pending countdown does.
LEMMA CoverOfOne ==
    ASSUME NEW t \in Threads, Busy' \subseteq {t},
           jobs'[t].at \in {"idle", "sleeping"} => \A k \in ConfirmKeys : Covered(k)',
           jobs'[t].at \notin {"idle", "sleeping"} =>
               IF t \in Handlers THEN RequestCovers(t)' ELSE RevertCovers(t)'
    PROVE  CoverInv'
<1>1. t \in Busy' <=> jobs'[t].at \notin {"idle", "sleeping"}
  BY DEF Busy
<1> QED
  BY <1>1 DEF CoverInv

\* A request carries the undo of its own change from the moment it read the file
\* to the moment the countdown is armed.
LEMMA RequestStepCovers ==
    ASSUME SettingsTypeOK, SettingsTypeOK', AllValid, UndoesTheDisplay,
           NEW t \in Handlers, Alone(t), Busy' \subseteq {t},
           RequestCovers(t), Proceeds(t) \/ FailToWrite(t)
    PROVE  CoverInv'
<1> USE ThreadFacts, FileFacts
<1>1. t \in Threads /\ t \notin Countdowns /\ jobs[t] \in Jobs
  BY DEF SettingsTypeOK
<1>2. CASE Edit(t)
  <2>1. /\ local' = local /\ pending' = pending /\ kept' = kept /\ abandoned' = abandoned
        /\ jobs[t].at = "editing"
        /\ \/ jobs'[t].at = "opening" /\ jobs'[t].undo = jobs[t].undo
           \/ jobs'[t].at = "idle"
    BY <1>1, <1>2, EditJob DEF Edit, disk, history, SettingsTypeOK
  <2>2. jobs'[t].at = "idle" => \A k \in ConfirmKeys : Covered(k)'
    BY <2>1 DEF RequestCovers, Covered, Undoes
  <2>3. jobs'[t].at = "opening" => RequestCovers(t)'
    BY <2>1 DEF RequestCovers, Covered, Undoes
  <2> QED
    BY <1>1, <2>1, <2>2, <2>3, CoverOfOne
<1>3. CASE Open(t) \/ Write(t)
  <2>1. /\ local' = local /\ pending' = pending /\ kept' = kept /\ abandoned' = abandoned
        /\ jobs[t].at \in {"opening", "writing"}
        /\ jobs'[t].at \in {"writing", "renaming"} /\ jobs'[t].undo = jobs[t].undo
    <3>1. CASE Open(t)
      BY <1>1, <3>1, OpenJob DEF Open, history, SettingsTypeOK
    <3>2. CASE Write(t)
      <4>1. jobs[t].at = "writing" /\ jobs[t].file = "scratch"
        BY <1>1, <3>2, WriteJob DEF Alone, SettingsTypeOK
      <4> QED
        BY <1>1, <3>2, <4>1, WriteJob DEF Write, history, SettingsTypeOK
    <3> QED
      BY <1>3, <3>1, <3>2
  <2>2. RequestCovers(t)'
    BY <2>1 DEF RequestCovers, Covered, Undoes
  <2> QED
    BY <1>1, <2>1, <2>2, CoverOfOne
<1>4. CASE FailToWrite(t)
  <2>1. /\ jobs[t].at = "writing" /\ jobs[t].file = "scratch" /\ jobs'[t].at = "idle"
    BY <1>1, <1>4, FailJob DEF Alone
  <2>2. local' = local /\ pending' = pending /\ kept' = kept /\ abandoned' = abandoned
    BY <1>1, <1>4, <2>1 DEF FailToWrite
  <2>3. \A k \in ConfirmKeys : Covered(k)'
    BY <2>1, <2>2 DEF RequestCovers, Covered, Undoes
  <2> QED
    BY <1>1, <2>1, <2>3, CoverOfOne
<1>5. CASE Rename(t)
  <2>1. /\ jobs[t].at = "renaming" /\ scratch = Holding(jobs[t].table)
        /\ jobs[t].table = Edited(local.table, jobs[t].edits)
    BY <1>1, <1>5, RenameJob DEF Alone
  <2>2. /\ local'.table = jobs[t].table /\ abandoned' = abandoned \ GivesUp(t)
        /\ \A k \in ConfirmKeys :
              kept'[k] = IF k \in GivesUp(t) THEN jobs[t].edits[k] ELSE kept[k]
        /\ pending' = pending
        /\ jobs'[t].at = "publishing" /\ jobs'[t].undo = jobs[t].undo
    <3>1. scratch.text # "absent" /\ scratch.table = jobs[t].table
      BY <2>1
    <3>2. pending' = pending
      BY <1>5 DEF Rename
    <3> HIDE FileFacts
    <3> QED
      BY <1>1, <1>5, <3>1, <3>2, RenameJob
  <2>3. ASSUME NEW k \in ConfirmKeys
        PROVE  /\ k \in Keys
               /\ local'.table[k] = IF k \in DOMAIN jobs[t].edits THEN jobs[t].edits[k]
                                    ELSE local.table[k]
               /\ k \in GivesUp(t) <=> /\ k \in DOMAIN jobs[t].edits \ DOMAIN jobs[t].undo
                                      /\ ~Undoes(k)
    <3>1. k \in Keys /\ local.table \in Table /\ jobs[t].edits \in Edits
      BY ConfirmAssumption DEF SettingsTypeOK, Jobs, File
    <3>2. local'.table[k] = IF k \in DOMAIN jobs[t].edits THEN jobs[t].edits[k]
                            ELSE local.table[k]
      BY <2>1, <2>2, <3>1, EditFacts
    <3>3. k \in GivesUp(t) <=> /\ k \in DOMAIN jobs[t].edits \ DOMAIN jobs[t].undo
                              /\ ~Undoes(k)
      BY DEF GivesUp, Undoes
    <3> QED
      BY <3>1, <3>2, <3>3
  <2>4. RequestCovers(t)'
    <3>1. ASSUME NEW k \in ConfirmKeys
          PROVE  IF ~Undoes(k) /\ k \in DOMAIN jobs[t].undo
                 THEN k \in abandoned' \/ jobs[t].undo[k] = kept'[k]
                 ELSE \/ k \in abandoned'
                      \/ IF Undoes(k) THEN pending.undo[k] = kept'[k]
                         ELSE local'.table[k] = kept'[k]
      <4>1. Covered(k) /\ (k \in DOMAIN jobs[t].undo => jobs[t].undo[k] = local.table[k])
        BY <2>1 DEF RequestCovers
      <4>2. CASE k \in GivesUp(t)
        BY <2>2, <2>3, <4>2
      <4>3. CASE k \notin GivesUp(t)
        <5>1. kept'[k] = kept[k] /\ (k \in abandoned' <=> k \in abandoned)
          BY <2>2, <4>3
        <5> QED
          BY <2>3, <4>1, <4>3, <5>1 DEF Covered
      <4> QED
        BY <4>2, <4>3
    <3> QED
      BY <2>2, <3>1 DEF RequestCovers, Covered, Undoes
  <2> QED
    BY <1>1, <2>2, <2>4, CoverOfOne
<1>6. CASE Publish(t)
  <2>1. /\ local' = local /\ pending' = pending /\ kept' = kept /\ abandoned' = abandoned
        /\ jobs[t].at = "publishing"
        /\ IF DOMAIN jobs[t].undo # {}
           THEN jobs'[t].at = "arming" /\ jobs'[t].undo = jobs[t].undo
           ELSE jobs'[t].at = "idle"
    BY <1>1, <1>6, PublishJob DEF Publish, disk, SettingsTypeOK
  <2>2. jobs'[t].at = "idle" => \A k \in ConfirmKeys : Covered(k)'
    BY <2>1 DEF RequestCovers, Covered, Undoes
  <2>3. jobs'[t].at = "arming" => RequestCovers(t)'
    BY <2>1 DEF RequestCovers, Covered, Undoes
  <2> QED
    BY <1>1, <2>1, <2>2, <2>3, CoverOfOne
<1> QED
  BY <1>2, <1>3, <1>4, <1>5, <1>6 DEF Proceeds

\* A countdown that has fired puts back what was last confirmed; when its write
\* fails, what it would have put back is abandoned.
LEMMA RevertStepCovers ==
    ASSUME SettingsTypeOK, SettingsTypeOK', AllValid, UndoesTheDisplay,
           local.text \in {"absent", "whole"},
           NEW t \in Countdowns, Alone(t), Busy' \subseteq {t},
           RevertCovers(t), Proceeds(t) \/ FailToWrite(t)
    PROVE  CoverInv'
<1> USE ThreadFacts, FileFacts
<1>1. t \in Threads /\ t \notin Handlers /\ jobs[t] \in Jobs /\ pending = NoCountdown
  BY DEF SettingsTypeOK, RevertCovers
<1>2. CASE Edit(t) \/ Open(t) \/ Write(t)
  <2>1. /\ local' = local /\ pending' = pending /\ kept' = kept /\ abandoned' = abandoned
        /\ jobs[t].at \in {"editing", "opening", "writing"}
        /\ jobs'[t].at \in {"opening", "writing", "renaming"} /\ jobs'[t].edits = jobs[t].edits
    <3>1. CASE Edit(t)
      <4>1. jobs[t].at = "editing"
        BY <1>1, <3>1, EditJob DEF SettingsTypeOK
      <4>2. Readable(local) /\ ~Refused(Edited(local.table, jobs[t].edits))
        BY <4>1, RevertPasses DEF Readable
      <4> QED
        BY <1>1, <3>1, <4>1, <4>2, EditJob DEF Edit, disk, history, SettingsTypeOK
    <3>2. CASE Open(t)
      BY <1>1, <3>2, OpenJob DEF Open, history, SettingsTypeOK
    <3>3. CASE Write(t)
      <4>1. jobs[t].at = "writing" /\ jobs[t].file = "scratch"
        BY <1>1, <3>3, WriteJob DEF Alone, SettingsTypeOK
      <4> QED
        BY <1>1, <3>3, <4>1, WriteJob DEF Write, history, SettingsTypeOK
    <3> QED
      BY <1>2, <3>1, <3>2, <3>3
  <2>2. RevertCovers(t)'
    BY <1>1, <2>1 DEF RevertCovers
  <2> QED
    BY <1>1, <2>1, <2>2, CoverOfOne
<1>3. CASE FailToWrite(t)
  <2>1. jobs[t].at = "writing" /\ jobs[t].file = "scratch" /\ jobs'[t].at = "idle"
    BY <1>1, <1>3, FailJob DEF Alone
  <2>2. /\ local' = local /\ pending' = NoCountdown /\ kept' = kept
        /\ abandoned' = abandoned \cup (Unconfirmed \cap DOMAIN jobs[t].edits)
    BY <1>1, <1>3, <2>1 DEF FailToWrite
  <2>3. \A k \in ConfirmKeys : Covered(k)'
    BY <2>1, <2>2 DEF RevertCovers, Unconfirmed, Covered, Undoes
  <2> QED
    BY <1>1, <2>1, <2>3, CoverOfOne
<1>4. CASE Rename(t)
  <2>1. /\ jobs[t].at = "renaming" /\ scratch = Holding(jobs[t].table)
        /\ jobs[t].table = Edited(local.table, jobs[t].edits)
    BY <1>1, <1>4, RenameJob DEF Alone
  <2>2. /\ local'.table = jobs[t].table /\ abandoned' = abandoned \ GivesUp(t)
        /\ \A k \in ConfirmKeys :
              kept'[k] = IF k \in GivesUp(t) THEN jobs[t].edits[k] ELSE kept[k]
        /\ pending' = NoCountdown
        /\ jobs'[t].at = "publishing"
    <3>1. scratch.text # "absent" /\ scratch.table = jobs[t].table
      BY <2>1
    <3>2. pending' = pending
      BY <1>4 DEF Rename
    <3> HIDE FileFacts
    <3> QED
      BY <1>1, <1>4, <3>1, <3>2, RenameJob
  <2>3. abandoned' = abandoned /\ \A k \in ConfirmKeys : kept'[k] = kept[k]
    BY <1>1, <2>2 DEF GivesUp
  <2>4. ASSUME NEW k \in ConfirmKeys \ abandoned'
        PROVE  local'.table[k] = kept'[k]
    <3>1. k \in Keys /\ local.table \in Table /\ jobs[t].edits \in Edits
      BY <1>1, ConfirmAssumption DEF SettingsTypeOK, Jobs, File
    <3>2. local'.table[k] = IF k \in DOMAIN jobs[t].edits THEN jobs[t].edits[k]
                            ELSE local.table[k]
      BY <2>1, <2>2, <3>1, EditFacts
    <3> QED
      BY <2>1, <2>3, <3>2 DEF RevertCovers
  <2>5. RevertCovers(t)'
    BY <2>2, <2>4 DEF RevertCovers
  <2> QED
    BY <1>1, <2>2, <2>5, CoverOfOne
<1>5. CASE Publish(t)
  <2>1. /\ local' = local /\ pending' = NoCountdown /\ kept' = kept /\ abandoned' = abandoned
        /\ jobs[t].at = "publishing" /\ jobs'[t].at = "idle"
    BY <1>1, <1>5, PublishJob DEF Publish, disk, SettingsTypeOK, UndoesTheDisplay
  <2>2. \A k \in ConfirmKeys : Covered(k)'
    BY <2>1 DEF RevertCovers, Covered, Undoes
  <2> QED
    BY <1>1, <2>1, <2>2, CoverOfOne
<1> QED
  BY <1>2, <1>3, <1>4, <1>5 DEF Proceeds

LEMMA OthersCover ==
    ASSUME SettingsTypeOK, SettingsTypeOK', AllValid, UndoesTheDisplay, ~raced', ~raced,
           OneWriter, CoverInv,
           \/ \E t \in Handlers : Patch(t) \/ Reset(t) \/ Arm(t)
           \/ \E id \in Countdowns : Confirm(id) \/ Fire(id)
           \/ Order \/ TakeCommand \/ RestartDaemon
    PROVE  CoverInv'
<1>1. ASSUME NEW t \in Handlers, Patch(t) \/ Reset(t)
      PROVE  CoverInv'
  <2>1. /\ jobs[t].at = "idle" /\ jobs'[t].at = "editing" /\ Busy \subseteq {t}
        /\ \A u \in Threads : u # t => jobs'[u] = jobs[u]
        /\ local' = local /\ kept' = kept /\ abandoned' = abandoned /\ pending' = pending
        /\ \A k \in DOMAIN jobs'[t].undo : jobs'[t].undo[k] = local.table[k]
    BY <1>1, PatchJob, ResetJob DEF OnlyJob, Patch, Reset, disk
  <2>2. Busy = {} /\ Busy' \subseteq {t}
    BY <2>1, ThreadFacts DEF Busy
  <2>3. \A k \in ConfirmKeys : Covered(k)
    BY <2>2 DEF CoverInv
  <2>4. RequestCovers(t)'
    BY <2>1, <2>3 DEF RequestCovers, Covered, Undoes
  <2> QED
    BY <2>1, <2>2, <2>4, CoverOfOne, ThreadFacts
<1>2. ASSUME NEW t \in Handlers, Arm(t)
      PROVE  CoverInv'
  <2>1. /\ jobs[t].at = "arming" /\ jobs'[t] = Idle /\ t \in Threads
        /\ \A u \in Threads : u # t => jobs'[u].at = IF u = nextId THEN "sleeping" ELSE jobs[u].at
    BY <1>2, ArmJob, ThreadFacts
  <2>2. t \in Busy /\ \A u \in Threads : u # t => Resting(u)
    BY <2>1, OnlyWriter
  <2>3. Busy' = {}
    BY <2>1, <2>2, FileFacts DEF Busy, Resting
  <2>4. RequestCovers(t)
    BY <2>2 DEF CoverInv
  <2>5. local' = local /\ kept' = kept /\ abandoned' = abandoned
    BY <1>2 DEF Arm, disk, history
  <2>6. pending' # NoCountdown
    BY <1>2, ArmedFacts, SentinelsAssumption
  <2>7. CASE pending = NoCountdown
    <3>1. pending'.undo = jobs[t].undo
      BY <1>2, <2>7 DEF Arm
    <3>2. \A k \in ConfirmKeys : Covered(k)'
      BY <2>1, <2>4, <2>5, <2>6, <2>7, <3>1 DEF RequestCovers, Covered, Undoes
    <3> QED
      BY <2>3, <2>5, <3>2 DEF CoverInv
  <2>8. CASE pending # NoCountdown
    <3>1. pending'.undo = Merged(jobs[t].undo, pending.undo)
      BY <1>2, <2>8 DEF Arm
    <3>2. /\ DOMAIN pending'.undo = DOMAIN jobs[t].undo \cup DOMAIN pending.undo
          /\ \A k \in DOMAIN pending'.undo :
                pending'.undo[k] = IF k \in DOMAIN pending.undo THEN pending.undo[k]
                                   ELSE jobs[t].undo[k]
      BY <3>1 DEF Merged
    <3>3. \A k \in ConfirmKeys : Covered(k)'
      BY <2>1, <2>4, <2>5, <2>6, <2>8, <3>2 DEF RequestCovers, Covered, Undoes
    <3> QED
      BY <2>3, <2>5, <3>3 DEF CoverInv
  <2> QED
    BY <2>7, <2>8
<1>3. ASSUME NEW id \in Countdowns, Confirm(id)
      PROVE  CoverInv'
  <2>1. Busy = {} /\ Busy' = {}
    <3>1. Busy = {} /\ jobs' = jobs
      BY <1>3, Zenon DEF Confirm
    <3> QED
      BY <3>1 DEF Busy
  <2>2. /\ pending # NoCountdown /\ pending' = NoCountdown /\ local' = local
        /\ \A k \in ConfirmKeys :
              kept'[k] = IF k \in DOMAIN pending.undo THEN local.table[k] ELSE kept[k]
        /\ abandoned' = abandoned \ DOMAIN pending.undo
    BY <1>3 DEF Confirm, disk
  <2>3. \A k \in ConfirmKeys : Covered(k)'
    BY <2>1, <2>2 DEF CoverInv, Covered, Undoes
  <2> QED
    BY <2>1, <2>3 DEF CoverInv
<1>4. ASSUME NEW id \in Countdowns, Fire(id)
      PROVE  CoverInv'
  <2>1. /\ id \in Threads /\ id \notin Handlers /\ jobs[id].at = "sleeping"
        /\ \A u \in Threads : u # id => jobs'[u] = jobs[u]
        /\ local' = local /\ kept' = kept /\ abandoned' = abandoned
    BY <1>4, FireJob, ThreadFacts DEF Fire, OnlyJob, SettingsTypeOK, disk
  <2>3. CASE Superseded(id)
    <3>1. jobs'[id] = Idle /\ pending' = pending
      BY <1>4, <2>3, FireJob DEF Fire, SettingsTypeOK
    <3>2. Busy' = Busy
      BY <2>1, <3>1, FileFacts DEF Busy
    <3>3. \A k \in ConfirmKeys : Covered(k)' <=> Covered(k)
      BY <2>1, <3>1 DEF Covered, Undoes
    <3>4. ASSUME NEW u \in Busy
          PROVE  IF u \in Handlers THEN RequestCovers(u)' ELSE RevertCovers(u)'
      <4>1. u \in Threads /\ jobs'[u] = jobs[u]
        BY <2>1 DEF Busy
      <4> QED
        BY <2>1, <3>1, <4>1 DEF CoverInv, RequestCovers, RevertCovers, Covered, Undoes
    <3> QED
      BY <3>2, <3>3, <3>4 DEF CoverInv
  <2>4. CASE ~Superseded(id)
    <3>1. /\ jobs'[id].at = "editing" /\ jobs'[id].edits = pending.undo
          /\ pending # NoCountdown /\ pending' = NoCountdown
      BY <1>4, <2>4, FireJob DEF Fire, SettingsTypeOK, Superseded
    <3>2. Busy \subseteq {id}
      BY <1>4, <2>4, Zenon DEF Fire, Races
    <3>3. Busy = {} /\ Busy' \subseteq {id}
      BY <2>1, <3>2 DEF Busy
    <3>4. RevertCovers(id)'
      BY <2>1, <3>1, <3>3 DEF CoverInv, Covered, Undoes, RevertCovers
    <3> QED
      BY <2>1, <3>1, <3>3, <3>4, CoverOfOne
  <2> QED
    BY <2>3, <2>4
<1>5. CASE Order \/ TakeCommand
  <2>1. local' = local /\ kept' = kept /\ abandoned' = abandoned /\ pending' = pending /\ jobs' = jobs
    BY <1>5 DEF Order, TakeCommand, disk, history
  <2>2. Busy' = Busy
    BY <2>1 DEF Busy
  <2>3. \A k \in ConfirmKeys : Covered(k)' <=> Covered(k)
    BY <2>1 DEF Covered, Undoes
  <2>4. ASSUME NEW u \in Busy
        PROVE  IF u \in Handlers THEN RequestCovers(u)' ELSE RevertCovers(u)'
    BY <2>1 DEF CoverInv, RequestCovers, RevertCovers, Covered, Undoes
  <2> QED
    BY <2>2, <2>3, <2>4 DEF CoverInv
<1>6. CASE RestartDaemon
  <2>1. /\ \A u \in Threads : jobs'[u] = Idle
        /\ local' = local /\ pending' = NoCountdown
        /\ kept' = kept /\ abandoned' = abandoned \cup Unconfirmed
    BY <1>6 DEF RestartDaemon
  <2>2. Busy' = {}
    BY <2>1, FileFacts DEF Busy
  <2>3. \A k \in ConfirmKeys : Covered(k)'
    BY <2>1 DEF Unconfirmed, Covered, Undoes
  <2> QED
    BY <2>2, <2>3 DEF CoverInv
<1> QED
  BY <1>1, <1>2, <1>3, <1>4, <1>5, <1>6

----
(* Every reload is on its way *)

NonePublishing == \A t \in Threads : ~At(t, "publishing")

LEMMA SameReloads ==
    ASSUME Reloads, local' = local, commands' = commands, running' = running
    PROVE  Reloads'
BY DEF Reloads

\* A configuration at the end of the channel is the one that will run.
LEMMA AppendReloads ==
    ASSUME SettingsTypeOK, NEW c, commands' = Append(commands, c), local' = local,
           running' = running,
           \/ c = OtherCommand /\ Reloads
           \/ c = Merge(local.table) /\ c \in Configs
    PROVE  Reloads'
<1>1. /\ Len(commands') = Len(commands) + 1 /\ Len(commands) \in Nat
      /\ \A i \in 1 .. Len(commands) : commands'[i] = commands[i]
      /\ commands'[Len(commands) + 1] = c
  BY AppendProperties, LenProperties DEF SettingsTypeOK
<1>2. CASE c = OtherCommand /\ Reloads
  <2>1. ASSUME NEW i \in 1 .. Len(commands'), commands'[i] # OtherCommand,
               \A j \in i + 1 .. Len(commands') : commands'[j] = OtherCommand
        PROVE  commands'[i] = Merge(local'.table)
    <3>1. i \in 1 .. Len(commands) /\ commands[i] # OtherCommand
      BY <1>1, <1>2, <2>1
    <3>2. \A j \in i + 1 .. Len(commands) : commands[j] = OtherCommand
      BY <1>1, <2>1, <3>1
    <3> QED
      BY <1>1, <1>2, <3>1, <3>2 DEF Reloads
  <2>2. ASSUME \A i \in 1 .. Len(commands') : commands'[i] = OtherCommand
        PROVE  running' = Merge(local'.table)
    <3>1. \A i \in 1 .. Len(commands) : commands[i] = OtherCommand
      BY <1>1, <2>2
    <3> QED
      BY <1>2, <3>1 DEF Reloads
  <2> QED
    BY <2>1, <2>2 DEF Reloads
<1>3. CASE c = Merge(local.table) /\ c \in Configs
  <2>1. c # OtherCommand
    BY <1>3, SentinelsAssumption
  <2>2. ASSUME NEW i \in 1 .. Len(commands'),
               \A j \in i + 1 .. Len(commands') : commands'[j] = OtherCommand
        PROVE  commands'[i] = Merge(local'.table)
    <3>1. i = Len(commands) + 1
      BY <1>1, <2>1, <2>2
    <3> QED
      BY <1>1, <1>3, <3>1
  <2>3. ~(\A i \in 1 .. Len(commands') : commands'[i] = OtherCommand)
    BY <1>1, <2>1
  <2> QED
    BY <2>2, <2>3 DEF Reloads
<1> QED
  BY <1>2, <1>3

LEMMA TakeReloads ==
    ASSUME SettingsTypeOK, Reloads, TakeCommand
    PROVE  Reloads'
<1>1. /\ Len(commands) \in Nat /\ Len(commands) > 0 /\ Head(commands) = commands[1]
      /\ Len(commands') = Len(commands) - 1
      /\ \A i \in 1 .. Len(commands') : commands'[i] = commands[i + 1]
  BY HeadTailProperties, LenProperties, EmptySeq DEF TakeCommand, SettingsTypeOK
<1>2. local' = local /\ running' = IF commands[1] = OtherCommand THEN running ELSE commands[1]
  BY <1>1 DEF TakeCommand, disk
<1>3. ASSUME NEW i \in 1 .. Len(commands'), commands'[i] # OtherCommand,
             \A j \in i + 1 .. Len(commands') : commands'[j] = OtherCommand
      PROVE  commands'[i] = Merge(local'.table)
  <2>1. i + 1 \in 1 .. Len(commands) /\ commands[i + 1] # OtherCommand
    BY <1>1, <1>3
  <2>2. ASSUME NEW j \in (i + 1) + 1 .. Len(commands)
        PROVE  commands[j] = OtherCommand
    <3>1. j - 1 \in i + 1 .. Len(commands') /\ j - 1 \in 1 .. Len(commands') /\ (j - 1) + 1 = j
      BY <1>1
    <3> QED
      BY <1>1, <1>3, <3>1
  <2> QED
    BY <1>1, <1>2, <2>1, <2>2 DEF Reloads
<1>4. ASSUME \A i \in 1 .. Len(commands') : commands'[i] = OtherCommand
      PROVE  running' = Merge(local'.table)
  <2>1. \A i \in 1 + 1 .. Len(commands) : commands[i] = OtherCommand
    <3>1. ASSUME NEW i \in 1 + 1 .. Len(commands)
          PROVE  commands[i] = OtherCommand
      <4>1. i - 1 \in 1 .. Len(commands') /\ (i - 1) + 1 = i
        BY <1>1
      <4> QED
        BY <1>1, <1>4, <4>1
    <3> QED
      BY <3>1
  <2>2. CASE commands[1] = OtherCommand
    <3>1. \A i \in 1 .. Len(commands) : commands[i] = OtherCommand
      BY <1>1, <2>1, <2>2
    <3> QED
      BY <1>2, <2>2, <3>1 DEF Reloads
  <2>3. CASE commands[1] # OtherCommand
    <3>1. 1 \in 1 .. Len(commands)
      BY <1>1
    <3> QED
      BY <1>2, <2>1, <2>3, <3>1 DEF Reloads
  <2> QED
    BY <2>2, <2>3
<1> QED
  BY <1>3, <1>4 DEF Reloads

LEMMA EditReloads ==
    ASSUME SettingsTypeOK, OneWriter, NonePublishing /\ ~dropped => Reloads,
           NEW t \in Threads, Proceeds(t) \/ FailToWrite(t), ~dropped', NonePublishing'
    PROVE  Reloads'
<1>1. Busy = {t} /\ Alone(t) /\ \A u \in Threads : u # t => Resting(u)
  BY EditStaysAlone DEF OneWriter
<1>2. jobs'[t].at # "publishing"
  BY DEF NonePublishing, At
<1>3. jobs[t].at # "publishing" => NonePublishing
  BY <1>1 DEF NonePublishing, At, Resting
<1>4. CASE Edit(t) \/ Open(t)
  <2>1. jobs[t].at # "publishing" /\ local' = local /\ commands' = commands /\ running' = running
        /\ ~dropped
    BY <1>4 DEF Edit, Open, At, disk, daemon, history
  <2> QED
    BY <1>3, <2>1, SameReloads
<1>5. CASE Write(t) \/ FailToWrite(t)
  <2>1. jobs[t].at = "writing" /\ jobs[t].file = "scratch"
    BY <1>1, <1>5 DEF Write, FailToWrite, At, Alone
  <2>2. local' = local /\ commands' = commands /\ running' = running /\ ~dropped
    <3>1. CASE Write(t)
      BY <2>1, <3>1 DEF Write, daemon, history
    <3>2. CASE FailToWrite(t)
      BY <2>1, <3>2 DEF FailToWrite, daemon
    <3> QED
      BY <1>5, <3>1, <3>2
  <2> QED
    BY <1>3, <2>1, <2>2, SameReloads
<1>6. CASE Rename(t)
  <2>1. scratch.text # "absent"
    BY <1>1, <1>6, RenameJob, FileFacts DEF Alone
  <2> QED
    BY <1>2, <1>6, <2>1, RenameJob
<1>7. CASE Publish(t)
  <2>1. jobs[t].at = "publishing" /\ local.table = jobs[t].table /\ jobs[t] \in Jobs
    BY <1>1, <1>7 DEF Publish, At, Alone, SettingsTypeOK
  <2>2. /\ commands' = Append(commands, Merge(jobs[t].table))
        /\ local' = local /\ running' = running
    BY <1>7 DEF Publish, disk
  <2>3. Merge(jobs[t].table) \in Configs
    BY <2>1, TableFacts DEF Jobs
  <2> QED
    BY <2>1, <2>2, <2>3, AppendReloads
<1> QED
  BY <1>4, <1>5, <1>6, <1>7 DEF Proceeds

LEMMA OthersReload ==
    ASSUME SettingsTypeOK, OneWriter, NonePublishing /\ ~dropped => Reloads,
           \/ \E t \in Handlers : Patch(t) \/ Reset(t) \/ Arm(t)
           \/ \E id \in Countdowns : Confirm(id) \/ Fire(id)
           \/ Order \/ TakeCommand \/ RestartDaemon,
           ~dropped', NonePublishing'
    PROVE  Reloads'
<1>1. ASSUME NEW t \in Handlers, Patch(t) \/ Reset(t)
      PROVE  Reloads'
  <2>1. /\ local' = local /\ commands' = commands /\ running' = running /\ ~dropped
        /\ jobs[t].at = "idle" /\ \A u \in Threads : u # t => jobs'[u] = jobs[u]
    <3>1. CASE Patch(t)
      BY <3>1, PatchJob DEF Patch, disk, daemon, OnlyJob
    <3>2. CASE Reset(t)
      BY <3>2, ResetJob DEF Reset, disk, daemon, OnlyJob
    <3> QED
      BY <1>1, <3>1, <3>2
  <2>2. NonePublishing
    BY <2>1 DEF NonePublishing, At
  <2> QED
    BY <2>1, <2>2, SameReloads
<1>2. ASSUME NEW t \in Handlers, Arm(t)
      PROVE  Reloads'
  <2>1. /\ local' = local /\ commands' = commands /\ running' = running /\ ~dropped
        /\ jobs[t].at = "arming" /\ t \in Threads
    BY <1>2, ArmJob, ThreadFacts DEF Arm, disk, daemon, history
  <2>2. NonePublishing
    BY <2>1, OnlyWriter DEF NonePublishing, At, Resting
  <2> QED
    BY <2>1, <2>2, SameReloads
<1>3. ASSUME NEW id \in Countdowns, Confirm(id)
      PROVE  Reloads'
  <2>1. /\ local' = local /\ commands' = commands /\ running' = running /\ ~dropped
        /\ jobs' = jobs
    BY <1>3 DEF Confirm, disk, daemon
  <2>2. NonePublishing
    BY <2>1 DEF NonePublishing, At
  <2> QED
    BY <2>1, <2>2, SameReloads
<1>4. ASSUME NEW id \in Countdowns, Fire(id)
      PROVE  Reloads'
  <2>1. /\ local' = local /\ commands' = commands /\ running' = running /\ ~dropped
        /\ jobs[id].at = "sleeping" /\ \A u \in Threads : u # id => jobs'[u] = jobs[u]
    BY <1>4, FireJob DEF Fire, disk, daemon, OnlyJob, SettingsTypeOK
  <2>2. NonePublishing
    BY <2>1 DEF NonePublishing, At
  <2> QED
    BY <2>1, <2>2, SameReloads
<1>5. CASE Order
  <2>1. /\ local' = local /\ running' = running /\ ~dropped /\ jobs' = jobs
        /\ commands' = Append(commands, OtherCommand)
    BY <1>5 DEF Order, disk, history
  <2>2. NonePublishing
    BY <2>1 DEF NonePublishing, At
  <2> QED
    BY <2>1, <2>2, AppendReloads
<1>6. CASE TakeCommand
  <2>1. jobs' = jobs /\ ~dropped
    BY <1>6 DEF TakeCommand, history
  <2>2. NonePublishing
    BY <2>1 DEF NonePublishing, At
  <2> QED
    BY <1>6, <2>1, <2>2, TakeReloads
<1>7. CASE RestartDaemon
  <2>1. Len(commands') = 0 /\ running' = Merge(local'.table)
    BY <1>7 DEF RestartDaemon
  <2> QED
    BY <2>1 DEF Reloads
<1> QED
  BY <1>1, <1>2, <1>3, <1>4, <1>5, <1>6, <1>7

----
(* Theorems *)

LEMMA SettingsStart ==
    ASSUME SettingsInit
    PROVE  SettingsInv
<1>1. SettingsTypeOK
  BY SettingsInitTypes
<1>2. /\ local = FileOf("absent") /\ scratch = FileOf("absent")
      /\ \A t \in Threads : jobs[t] = Idle
      /\ pending = NoCountdown /\ Len(commands) = 0 /\ running = Base
      /\ \A k \in ConfirmKeys : kept[k] = Unset
  BY DEF SettingsInit
<1>3. AllValid
  BY <1>2, FileFacts, TableFacts, BaseAssumption DEF AllValid
<1>4. UndoesTheDisplay
  BY <1>2, FileFacts, EditFacts, BackFacts, ThreadFacts DEF UndoesTheDisplay
<1>5. Busy = {} /\ OneWriter
  BY <1>2, FileFacts DEF OneWriter, Alone, Busy
<1>6. CoverInv
  <2>1. ASSUME NEW k \in ConfirmKeys
        PROVE  Covered(k)
    BY <1>2, FileFacts, ConfirmAssumption DEF Covered, Undoes, NoOverrides
  <2> QED
    BY <1>5, <2>1 DEF CoverInv
<1>8. Reloads
  BY <1>2, FileFacts, TableFacts DEF Reloads
<1> QED
  BY <1>1, <1>3, <1>4, <1>5, <1>6, <1>8 DEF SettingsInv

\* The steps of an edit and the others.
LEMMA SettingsStep ==
    ASSUME SettingsInv, [SettingsNext]_settingsVars
    PROVE  SettingsInv'
<1>1. ASSUME NEW t \in Threads, Proceeds(t) \/ FailToWrite(t)
      PROVE  SettingsInv'
  <2>1. SettingsTypeOK' /\ AllValid' /\ UndoesTheDisplay'
    BY <1>1, EditTypes, EditKeepsValid, EditKeepsUndoes DEF SettingsInv
  <2>2. raced' = raced
    BY <1>1 DEF Proceeds, Edit, Open, Write, Rename, Publish, FailToWrite, history
  <2>3. ASSUME ~raced'
        PROVE  OneWriter' /\ CoverInv'
    <3>1. OneWriter /\ CoverInv
      BY <2>2, <2>3, Zenon DEF SettingsInv
    <3>2. OneWriter' /\ Busy' \subseteq {t} /\ Busy = {t}
      BY <1>1, <3>1, EditStaysAlone DEF SettingsInv
    <3>3. /\ Alone(t) /\ local.text \in {"absent", "whole"}
          /\ IF t \in Handlers THEN RequestCovers(t) ELSE RevertCovers(t)
      BY <3>1, <3>2 DEF OneWriter, CoverInv
    <3>4. CASE t \in Handlers
      BY <1>1, <2>1, <3>1, <3>2, <3>3, <3>4, RequestStepCovers DEF SettingsInv
    <3>5. CASE t \notin Handlers
      BY <1>1, <2>1, <3>1, <3>2, <3>3, <3>5, RevertStepCovers, ThreadFacts DEF SettingsInv
    <3> QED
      BY <3>2, <3>4, <3>5
  <2>4. ASSUME ~raced', ~dropped', NonePublishing'
        PROVE  Reloads'
    <3>1. OneWriter /\ (NonePublishing /\ ~dropped => Reloads)
      BY <2>2, <2>4, Zenon DEF SettingsInv, NonePublishing
    <3> QED
      BY <1>1, <2>4, <3>1, EditReloads DEF SettingsInv
  <2> QED
    BY <2>1, <2>3, <2>4, Zenon DEF SettingsInv, NonePublishing
<1>2. ASSUME \/ \E t \in Handlers : Patch(t) \/ Reset(t) \/ Arm(t)
             \/ \E id \in Countdowns : Confirm(id) \/ Fire(id)
             \/ Order \/ TakeCommand \/ RestartDaemon
      PROVE  SettingsInv'
  <2>1. SettingsTypeOK'
    BY <1>2, RequestTypes, DaemonTypes DEF SettingsInv
  <2>2. AllValid' /\ UndoesTheDisplay'
    BY <1>2, <2>1, OthersKeepValid, OthersKeepUndoes DEF SettingsInv
  <2>3. ~raced' => ~raced
    BY <1>2, Zenon DEF Patch, Reset, Arm, Confirm, Fire, Races, Order, TakeCommand, RestartDaemon,
       history
  <2>4. ASSUME ~raced'
        PROVE  OneWriter' /\ CoverInv'
    <3>1. ~raced /\ OneWriter /\ CoverInv
      BY <2>3, <2>4, Zenon DEF SettingsInv
    <3>2. OneWriter'
      BY <1>2, <2>4, <3>1, OthersStayAlone DEF SettingsInv
    <3>3. CoverInv'
      BY <1>2, <2>1, <2>4, <3>1, OthersCover DEF SettingsInv
    <3> QED
      BY <3>2, <3>3
  <2>5. ASSUME ~raced', ~dropped', NonePublishing'
        PROVE  Reloads'
    <3>1. OneWriter /\ (NonePublishing /\ ~dropped => Reloads)
      BY <2>3, <2>5, Zenon DEF SettingsInv, NonePublishing
    <3> QED
      BY <1>2, <2>5, <3>1, OthersReload DEF SettingsInv
  <2> QED
    BY <2>1, <2>2, <2>4, <2>5, Zenon DEF SettingsInv, NonePublishing
<1>3. CASE UNCHANGED settingsVars
  <2>1. /\ local' = local /\ scratch' = scratch /\ jobs' = jobs /\ pending' = pending
        /\ nextId' = nextId /\ commands' = commands /\ running' = running
        /\ requests' = requests /\ faults' = faults /\ kept' = kept
        /\ abandoned' = abandoned /\ raced' = raced /\ dropped' = dropped
    BY <1>3 DEF settingsVars, disk, daemon, history
  <2>2. SettingsTypeOK' /\ AllValid' /\ UndoesTheDisplay'
    BY <2>1, Zenon DEF SettingsInv, SettingsTypeOK, AllValid, UndoesTheDisplay
  <2>3. /\ OneWriter' <=> OneWriter
        /\ Reloads' <=> Reloads
    BY <2>1, Zenon DEF OneWriter, Busy, Alone, Reloads
  <2>4. CoverInv' <=> CoverInv
    BY <2>1, ZenonT(30) DEF CoverInv, Busy, RequestCovers, RevertCovers, Covered, Undoes
  <2>5. NonePublishing' <=> NonePublishing
    BY <2>1 DEF NonePublishing, At
  <2> QED
    BY <2>1, <2>2, <2>3, <2>4, <2>5, Zenon DEF SettingsInv, NonePublishing
<1> QED
  BY <1>1, <1>2, <1>3 DEF SettingsNext

\* The inductive invariant of the settings holds in every state: for any keys,
\* bodies of requests, threads and countdowns.  (settings.rs and write.rs.)
THEOREM SettingsInvariance == SettingsSpec => []SettingsInv
<1>1. SettingsInit => SettingsInv
  BY SettingsStart
<1>2. SettingsInv /\ [SettingsNext]_settingsVars => SettingsInv'
  BY SettingsStep
<1> QED
  BY <1>1, <1>2, PTL DEF SettingsSpec

\* Files, threads, the countdown and the channel have their types.  (settings.rs,
\* Settings; write.rs, write_atomic.)
THEOREM SettingsTypes == SettingsSpec => []SettingsTypeOK
<1>1. SettingsInv => SettingsTypeOK
  BY DEF SettingsInv
<1> QED
  BY <1>1, SettingsInvariance, PTL

\* A daemon restarted at any moment finds a file it can start from, unless a
\* second writer was let in; and it never runs an invalid configuration.
\* (write.rs, edit_overrides and write_atomic.)
THEOREM StartsTheorem == SettingsSpec => []AlwaysStarts
<1>1. ASSUME SettingsInv
      PROVE  AlwaysStarts
  <2>1. ~raced => local.text \in {"absent", "whole"}
    BY <1>1, Zenon DEF SettingsInv, OneWriter
  <2>2. ~Refused(local.table) /\ running \notin Invalid
    BY <1>1 DEF SettingsInv, AllValid
  <2>3. raced \/ Starts
    BY <2>1, <2>2 DEF Starts, Readable
  <2>4. raced \/ local.text # "blank"
    BY <2>1
  <2> QED
    BY <2>2, <2>3, <2>4 DEF AlwaysStarts
<1> QED
  BY <1>1, SettingsInvariance, PTL

\* With every reload taken the main loop runs what the file says, unless a reload
\* was dropped or two writers ran at once.  (settings.rs, apply and publish.)
THEOREM RunsTheorem == SettingsSpec => []RunsTheFile
<1>1. ASSUME SettingsInv, Quiet, ~raced, ~dropped
      PROVE  running = Merge(local.table)
  <2>1. NonePublishing
    BY <1>1 DEF Quiet, NonePublishing, At
  <2>2. Reloads
    BY <1>1, <2>1, Zenon DEF SettingsInv, NonePublishing
  <2> QED
    BY <1>1, <2>2 DEF Reloads, Quiet
<1>2. SettingsInv => RunsTheFile
  BY <1>1 DEF RunsTheFile
<1> QED
  BY <1>2, SettingsInvariance, PTL

\* A display setting nobody confirmed has a countdown that puts back the one last
\* confirmed, unless a restart or a failed write gave its undo up.  (settings.rs,
\* snapshot_keys, arm, confirm, revert.)
THEOREM CoverTheorem == SettingsSpec => []ChangesAreCovered
<1>1. ASSUME SettingsInv, Busy = {}, ~raced, NEW k \in ConfirmKeys \ abandoned
      PROVE  IF pending # NoCountdown /\ k \in DOMAIN pending.undo
             THEN pending.undo[k] = kept[k]
             ELSE local.table[k] = kept[k]
  <2>1. CoverInv
    BY <1>1, Zenon DEF SettingsInv
  <2>2. Covered(k)
    BY <1>1, <2>1 DEF CoverInv
  <2> QED
    BY <2>2 DEF Covered, Undoes
<1>2. SettingsInv => ChangesAreCovered
  BY <1>1 DEF ChangesAreCovered
<1> QED
  BY <1>2, SettingsInvariance, PTL

----
(* The inductive invariant of logins and sessions *)

\* The tries of one instant are numbered from one, so that none is taken for
\* another.
Numbered(tries) ==
    \A try \in tries :
        try.nth =< Cardinality({other \in tries : other.time = try.time})

\* The table holds, of every address, all it tried recently.
AttemptInv ==
    /\ IsFiniteSet(DOMAIN attempts) /\ Cardinality(DOMAIN attempts) =< MaxTracked
    /\ \A a \in Addresses :
          /\ IsFiniteSet(accepted[a]) /\ Numbered(accepted[a])
          /\ Recent(accepted[a]) = TriesOf(attempts, a)
          /\ Cardinality(Recent(accepted[a])) =< MaxAttempts

\* Every verification holds a slot.
Holders == {h \in Requests : logins[h].at \in {"verifying", "issuing"}}
SlotInv == IsFiniteSet(Holders) /\ free + Cardinality(Holders) = Slots

\* The list holds, of the tokens that were issued, those that still work and are
\* among the last MaxSessions; and none that was revoked.
ListInv ==
    /\ \A token \in DOMAIN sessions :
          sessions[token] = issued[token].expires /\ ~issued[token].revoked
    /\ Cardinality(DOMAIN sessions) =< MaxSessions
    /\ \A token \in 1 .. Len(issued) :
          Valid(token) /\ Len(issued) - token < MaxSessions => token \in DOMAIN sessions
    /\ passed # NoToken => passed \in 1 .. Len(issued) /\ Valid(passed)

SessionsInv == SessionsTypeOK /\ AttemptInv /\ SlotInv /\ ListInv

----
(* Tables and lists *)

LEMMA LimitFacts ==
    /\ Window \in Nat /\ Window > 0 /\ MaxAttempts \in Nat /\ MaxAttempts > 0 /\ Slots \in Nat
    /\ Lifetime \in Nat /\ MaxSessions \in Nat /\ MaxSessions > 0
    /\ SweepThreshold \in Nat /\ MaxTracked \in Nat /\ SweepThreshold < MaxTracked
BY LimitsAssumption

\* A set of numbers has a least one.
LEMMA Least ==
    ASSUME NEW S, S \subseteq Nat, S # {}
    PROVE  \E x \in S : \A y \in S : x =< y
<1>1. IsWellFoundedOn(OpToRel(<, Nat), Nat)
  BY NatLessThanWellFounded
<1>2. PICK x \in S : \A y \in S : ~(<<y, x>> \in OpToRel(<, Nat))
  BY <1>1, WFMin
<1>3. \A a, b \in Nat : a < b <=> <<a, b>> \in OpToRel(<, Nat)
  BY DEF OpToRel
<1>4. \A y \in S : ~(y < x)
  BY <1>2, <1>3
<1> QED
  BY <1>4

LEMMA WithoutFacts ==
    ASSUME NEW table, NEW keys
    PROVE  /\ DOMAIN Without(table, keys) = DOMAIN table \ keys
           /\ \A k \in DOMAIN table \ keys : Without(table, keys)[k] = table[k]
BY DEF Without

\* Making room leaves at most MaxSessions - 1 sessions, and what goes is the
\* oldest of a full list.
LEMMA RoomFacts ==
    ASSUME NEW list, DOMAIN list \subseteq Nat, IsFiniteSet(DOMAIN list),
           Cardinality(DOMAIN list) =< MaxSessions
    PROVE  /\ DOMAIN Room(list) \subseteq DOMAIN list
           /\ \A token \in DOMAIN Room(list) : Room(list)[token] = list[token]
           /\ Cardinality(DOMAIN Room(list)) < MaxSessions
           /\ \A token \in DOMAIN list \ DOMAIN Room(list) :
                 /\ Cardinality(DOMAIN list) = MaxSessions
                 /\ \A other \in DOMAIN list : token =< other
<1> DEFINE D == DOMAIN list
           oldest == {token \in D : \A other \in D : token =< other}
<1>1. Cardinality(D) \in Nat /\ MaxSessions \in Nat /\ MaxSessions > 0
  BY FS_CardinalityType, LimitFacts
<1>2. CASE Cardinality(D) < MaxSessions
  <2>1. Room(list) = list
    BY <1>1, <1>2 DEF Room
  <2> QED
    BY <1>2, <2>1
<1>3. CASE ~(Cardinality(D) < MaxSessions)
  <2>1. Cardinality(D) = MaxSessions /\ D # {}
    BY <1>1, <1>3, FS_EmptySet
  <2>2. Room(list) = Without(list, oldest)
    BY <2>1 DEF Room
  <2>3. PICK first \in D : \A other \in D : first =< other
    BY <2>1, Least
  <2> HIDE DEF D
  <2>4. first \in oldest
    BY <2>3
  <2>5. /\ DOMAIN Without(list, oldest) = D \ oldest
        /\ \A k \in D \ oldest : Without(list, oldest)[k] = list[k]
    BY WithoutFacts DEF D
  <2>6. Cardinality(D \ oldest) < MaxSessions
    <3>1. D \ oldest \in SUBSET (D \ {first})
      BY <2>4
    <3>2. IsFiniteSet(D \ {first}) /\ Cardinality(D \ {first}) = Cardinality(D) - 1
      BY <2>3, FS_RemoveElement DEF D
    <3>3. /\ Cardinality(D \ oldest) \in Nat
          /\ Cardinality(D \ oldest) =< Cardinality(D \ {first})
      BY <3>1, <3>2, FS_Subset, FS_CardinalityType
    <3> QED
      BY <1>1, <2>1, <3>2, <3>3
  <2> QED
    BY <2>1, <2>2, <2>5, <2>6 DEF D
<1> QED
  BY <1>2, <1>3

----
(* Types of logins and sessions *)

LEMMA RecentFacts ==
    ASSUME clock \in Nat, NEW tries, tries \subseteq Tries
    PROVE  /\ Recent(tries) \subseteq tries /\ Recent(Recent(tries)) = Recent(tries)
           /\ IsFiniteSet(tries) => /\ IsFiniteSet(Recent(tries)) /\ IsFiniteSet(tries)
                                    /\ Again(tries) \in Tries
           /\ Again(tries).time = clock
<1>1. Recent(tries) \subseteq tries /\ Recent(Recent(tries)) = Recent(tries)
  BY DEF Recent
<1>2. Again(tries).time = clock
  BY DEF Again
<1>3. ASSUME IsFiniteSet(tries)
      PROVE  IsFiniteSet(Recent(tries)) /\ Again(tries) \in Tries
  <2> DEFINE now == {try \in tries : try.time = clock}
  <2>1. IsFiniteSet(now) /\ Cardinality(now) \in Nat
    BY <1>3, FS_Subset, FS_CardinalityType
  <2>2. IsFiniteSet(Recent(tries))
    BY <1>1, <1>3, FS_Subset
  <2>3. Again(tries) = [time |-> clock, nth |-> Cardinality(now) + 1]
    BY DEF Again
  <2> HIDE DEF now
  <2> QED
    BY <2>1, <2>2, <2>3 DEF Tries
<1> QED
  BY <1>1, <1>2, <1>3

\* A new try is a new element, and the tries stay numbered.
LEMMA AgainIsNew ==
    ASSUME clock \in Nat, NEW tries, tries \subseteq Tries, IsFiniteSet(tries), Numbered(tries)
    PROVE  /\ Again(tries) \in Tries \ tries
           /\ Numbered(tries \cup {Again(tries)})
           /\ IsFiniteSet(tries \cup {Again(tries)})
           /\ Cardinality(tries \cup {Again(tries)}) = Cardinality(tries) + 1
<1> DEFINE tried(time) == {try \in tries : try.time = time}
           new == Again(tries)
           more == tries \cup {new}
<1>1. \A time : IsFiniteSet(tried(time)) /\ Cardinality(tried(time)) \in Nat
  <2> TAKE time
  <2>1. tried(time) \in SUBSET tries
    OBVIOUS
  <2> HIDE DEF tried
  <2> QED
    BY <2>1, FS_Subset, FS_CardinalityType
<1>2. new = [time |-> clock, nth |-> Cardinality(tried(clock)) + 1]
  BY DEF Again
<1>3. \A try \in tries : try.nth \in Nat /\ try.nth =< Cardinality(tried(try.time))
  BY DEF Numbered, Tries
<1>4. \A time : tried(time) \subseteq {other \in more : other.time = time}
  OBVIOUS
<1>5. clock \in Nat
  OBVIOUS
<1>6. IsFiniteSet(more) /\ (new \notin tries => Cardinality(more) = Cardinality(tries) + 1)
  BY FS_AddElement
<1>7. tried(clock) \cup {new} \subseteq {other \in more : other.time = clock}
  BY <1>2
<1>8. \A time : new \in tried(time) => new \in tries
  OBVIOUS
<1>9. Numbered(more) <=>
         \A try \in more : try.nth =< Cardinality({other \in more : other.time = try.time})
  BY DEF Numbered
<1>10. \A time : IsFiniteSet({other \in more : other.time = time})
                 /\ Cardinality({other \in more : other.time = time}) \in Nat
  <2> TAKE time
  <2>1. {other \in more : other.time = time} \in SUBSET more
    OBVIOUS
  <2> HIDE DEF more
  <2> QED
    BY <1>6, <2>1, FS_Subset, FS_CardinalityType
<1>11. tries \subseteq more /\ more = tries \cup {new}
  OBVIOUS
<1> DEFINE now(time) == {other \in more : other.time = time}
<1>13. \A time : /\ tried(time) \subseteq now(time)
                 /\ IsFiniteSet(now(time)) /\ Cardinality(now(time)) \in Nat
  BY <1>4, <1>10
<1>14. Numbered(more) <=> \A try \in more : try.nth =< Cardinality(now(try.time))
  BY <1>9
<1>15. tried(clock) \cup {new} \subseteq now(clock)
  BY <1>7
<1> HIDE DEF tried, new, more, now
<1>16. Cardinality(tried(clock)) \in Nat
  BY <1>1
<1>17. new.time = clock /\ new.nth = Cardinality(tried(clock)) + 1
  BY <1>2
<1>18. new \in Tries
  BY <1>2, <1>5, <1>16 DEF Tries
<1>19. new \notin tries
  <2> SUFFICES ASSUME new \in tries PROVE FALSE
    OBVIOUS
  <2>1. new.nth =< Cardinality(tried(new.time))
    BY <1>3
  <2> QED
    BY <1>16, <1>17, <2>1
<1>20. Numbered(more)
  <2>1. ASSUME NEW try \in tries PROVE try.nth =< Cardinality(now(try.time))
    <3>1. Cardinality(tried(try.time)) =< Cardinality(now(try.time))
      BY <1>13, FS_Subset
    <3>2. Cardinality(tried(try.time)) \in Nat /\ Cardinality(now(try.time)) \in Nat
      BY <1>1, <1>13
    <3> QED
      BY <1>3, <3>1, <3>2
  <2>2. new.nth =< Cardinality(now(new.time))
    <3>1. new \notin tried(clock)
      BY <1>8, <1>19
    <3>2. Cardinality(tried(clock) \cup {new}) = Cardinality(tried(clock)) + 1
      BY <1>1, <3>1, FS_AddElement
    <3>3. Cardinality(tried(clock) \cup {new}) =< Cardinality(now(clock))
      BY <1>13, <1>15, FS_Subset
    <3> QED
      BY <1>17, <3>2, <3>3
  <2> QED
    BY <1>11, <1>14, <2>1, <2>2
<1>21. new \in Tries \ tries /\ IsFiniteSet(more) /\ Cardinality(more) = Cardinality(tries) + 1
  BY <1>6, <1>18, <1>19
<1> QED
  BY <1>20, <1>21 DEF more, new

\* What has aged out leaves the rest numbered.
LEMMA RecentNumbered ==
    ASSUME clock \in Nat, NEW tries, tries \subseteq Tries, Numbered(tries)
    PROVE  Numbered(Recent(tries))
<1>1. ASSUME NEW try \in Recent(tries)
      PROVE  {other \in Recent(tries) : other.time = try.time}
                 = {other \in tries : other.time = try.time}
  BY DEF Recent
<1>2. Recent(tries) \subseteq tries
  BY DEF Recent
<1> QED
  BY <1>1, <1>2 DEF Numbered

----
(* Attempts *)

\* What the table says of an address after an entry was written.
LEMMA WithTries ==
    ASSUME NEW table, NEW from, NEW value, Recent(value) = value
    PROVE  /\ TriesOf(With(table, from, value), from) = value
           /\ \A a : a # from => TriesOf(With(table, from, value), a) = TriesOf(table, a)
<1> DEFINE new == With(table, from, value)
<1>1. /\ DOMAIN new = DOMAIN table \cup {from} /\ new[from] = value
      /\ \A k \in DOMAIN table : k # from => new[k] = table[k]
  BY DEF With
<1> HIDE DEF new
<1>2. TriesOf(new, from) = value
  BY <1>1 DEF TriesOf
<1>3. \A a : a # from => TriesOf(new, a) = TriesOf(table, a)
  BY <1>1 DEF TriesOf
<1> QED
  BY <1>2, <1>3 DEF new

\* The sweep loses no attempt that still counts.
LEMMA SweptFacts ==
    ASSUME clock \in Nat, \A a \in DOMAIN attempts : attempts[a] \subseteq Tries
    PROVE  /\ DOMAIN Swept \subseteq DOMAIN attempts
           /\ \A a \in DOMAIN Swept : Swept[a] \subseteq Tries
           /\ \A a : TriesOf(Swept, a) = TriesOf(attempts, a)
<1>1. DOMAIN Swept = {b \in DOMAIN attempts : Recent(attempts[b]) # {}}
  BY DEF Swept
<1>2. \A a \in DOMAIN Swept : Swept[a] = Recent(attempts[a])
  BY DEF Swept
<1>3. \A a \in DOMAIN attempts : /\ Recent(attempts[a]) \subseteq attempts[a]
                                 /\ Recent(Recent(attempts[a])) = Recent(attempts[a])
  BY DEF Recent
<1>4. \A a : TriesOf(Swept, a) = TriesOf(attempts, a)
  <2> TAKE a
  <2>1. CASE a \in DOMAIN Swept
    BY <1>1, <1>2, <1>3, <2>1 DEF TriesOf
  <2>2. CASE a \notin DOMAIN Swept
    BY <1>1, <2>2 DEF TriesOf
  <2> QED
    BY <2>1, <2>2
<1>5. \A a \in DOMAIN Swept : Swept[a] \subseteq Tries
  BY <1>1, <1>2, <1>3
<1> QED
  BY <1>1, <1>4, <1>5

\* While the clock stands still, only the table and the tries matter.
LEMMA TableStep ==
    ASSUME SessionsInv, clock' = clock,
           IsFiniteSet(DOMAIN attempts'), Cardinality(DOMAIN attempts') =< MaxTracked,
           \A a \in Addresses :
              /\ IsFiniteSet(accepted'[a]) /\ Numbered(accepted'[a])
              /\ Recent(accepted'[a]) = TriesOf(attempts', a)
              /\ Cardinality(Recent(accepted'[a])) =< MaxAttempts
    PROVE  AttemptInv'
<1>1. \A S : Recent(S)' = Recent(S)
  BY DEF Recent
<1>2. \A a : TriesOf(attempts, a)' = TriesOf(attempts', a)
  BY <1>1 DEF TriesOf, Recent
<1>3. \A a : Recent(accepted[a])' = Recent(accepted'[a])
  BY DEF Recent
<1>4. \A a : Numbered(accepted[a])' = Numbered(accepted'[a])
  BY DEF Numbered
<1> QED
  BY <1>2, <1>3, <1>4 DEF AttemptInv

\* An attempt is refused or counted, and its address is in the table or the
\* table is full.
LEMMA AttemptStep ==
    ASSUME SessionsInv, NEW h \in Requests, Attempt(h)
    PROVE  SessionsTypeOK' /\ AttemptInv'
<1> USE DEF SessionsInv
<1>1. /\ clock' = clock /\ sessions' = sessions /\ free' = free /\ issued' = issued
      /\ orphans' = orphans /\ passed' = passed
  BY DEF Attempt
<1>2. PICK from \in Addresses :
         LET table == IF Crowded(from) THEN Swept ELSE attempts
             tries == TriesOf(table, from)
         IN CASE Full(table, from) ->
                   attempts' = table /\ UNCHANGED <<logins, accepted>>
              [] ~Full(table, from) /\ Cardinality(tries) >= MaxAttempts ->
                   attempts' = With(table, from, tries) /\ UNCHANGED <<logins, accepted>>
              [] OTHER ->
                   /\ attempts' = With(table, from, tries \cup {Again(tries)})
                   /\ logins' = [logins EXCEPT ![h] = [at |-> "waiting", from |-> from]]
                   /\ accepted' = [accepted EXCEPT ![from] = Recent(@) \cup {Again(Recent(@))}]
  BY DEF Attempt
<1> DEFINE table == IF Crowded(from) THEN Swept ELSE attempts
           tries == TriesOf(table, from)
           more == tries \cup {Again(tries)}
<1>3. /\ clock \in Nat /\ Window \in Nat /\ Window > 0 /\ MaxAttempts \in Nat
      /\ MaxTracked \in Nat /\ SweepThreshold \in Nat /\ SweepThreshold < MaxTracked
  <2>1. clock \in Nat
    BY DEF SessionsTypeOK
  <2> QED
    BY <2>1, LimitFacts
<1>4. /\ DOMAIN table \subseteq DOMAIN attempts
      /\ \A a \in DOMAIN table : table[a] \subseteq Tries
      /\ \A a : TriesOf(table, a) = TriesOf(attempts, a)
  <2>1. \A a \in DOMAIN attempts : attempts[a] \subseteq Tries
    BY DEF SessionsTypeOK
  <2> QED
    BY <1>3, <2>1, SweptFacts
<1>5. IsFiniteSet(DOMAIN table) /\ Cardinality(DOMAIN table) \in Nat
      /\ Cardinality(DOMAIN table) =< MaxTracked
  <2>1. IsFiniteSet(DOMAIN attempts) /\ Cardinality(DOMAIN attempts) =< MaxTracked
    BY DEF AttemptInv
  <2>2. IsFiniteSet(DOMAIN table) /\ Cardinality(DOMAIN table) =< Cardinality(DOMAIN attempts)
    BY <1>4, <2>1, FS_Subset
  <2> QED
    BY <1>3, <2>1, <2>2, FS_CardinalityType
<1>6. ~Full(table, from) /\ from \notin DOMAIN table => Cardinality(DOMAIN table) < MaxTracked
  <2>1. CASE Crowded(from)
    BY <1>3, <1>5, <2>1 DEF Full
  <2>2. CASE ~Crowded(from)
    <3>1. table = attempts
      BY <2>2
    <3> QED
      BY <1>3, <1>5, <2>2, <3>1 DEF Crowded
  <2> QED
    BY <2>1, <2>2
<1>7. \A a \in Addresses :
         /\ accepted[a] \subseteq Tries /\ IsFiniteSet(accepted[a]) /\ Numbered(accepted[a])
         /\ Recent(accepted[a]) = TriesOf(table, a)
         /\ Cardinality(Recent(accepted[a])) =< MaxAttempts
  BY <1>4 DEF AttemptInv, SessionsTypeOK
<1>8. /\ tries = Recent(accepted[from]) /\ tries \subseteq Tries /\ IsFiniteSet(tries)
      /\ Numbered(tries) /\ Recent(tries) = tries
  BY <1>3, <1>7, RecentFacts, RecentNumbered
<1>9. \/ attempts' = table /\ logins' = logins /\ accepted' = accepted
      \/ /\ ~Full(table, from)
         /\ attempts' = With(table, from, tries) /\ logins' = logins /\ accepted' = accepted
      \/ /\ ~Full(table, from) /\ ~(Cardinality(tries) >= MaxAttempts)
         /\ attempts' = With(table, from, more)
         /\ logins' = [logins EXCEPT ![h] = [at |-> "waiting", from |-> from]]
         /\ accepted' = [accepted EXCEPT
                            ![from] = Recent(accepted[from]) \cup {Again(Recent(accepted[from]))}]
  BY <1>2
<1> HIDE DEF table, tries, more
<1>10. \A value : /\ DOMAIN With(table, from, value) = DOMAIN table \cup {from}
                  /\ With(table, from, value)[from] = value
                  /\ \A k \in DOMAIN table : k # from => With(table, from, value)[k] = table[k]
  BY DEF With
<1>11. ~Full(table, from) =>
          /\ IsFiniteSet(DOMAIN table \cup {from})
          /\ Cardinality(DOMAIN table \cup {from}) =< MaxTracked
  <2>1. CASE from \in DOMAIN table
    <3>1. DOMAIN table \cup {from} = DOMAIN table
      BY <2>1
    <3> QED
      BY <1>5, <3>1
  <2>2. CASE from \notin DOMAIN table
    <3>1. /\ IsFiniteSet(DOMAIN table \cup {from})
          /\ Cardinality(DOMAIN table \cup {from}) = Cardinality(DOMAIN table) + 1
      BY <1>5, <2>2, FS_AddElement
    <3> QED
      BY <1>3, <1>5, <1>6, <2>2, <3>1
  <2> QED
    BY <2>1, <2>2
<1>12. DOMAIN table \subseteq Addresses
  BY <1>4 DEF SessionsTypeOK
<1>13. CASE attempts' = table /\ logins' = logins /\ accepted' = accepted
  <2>1. AttemptInv'
    BY <1>1, <1>5, <1>7, <1>13, TableStep
  <2>2. SessionsTypeOK'
    BY <1>1, <1>4, <1>12, <1>13 DEF SessionsTypeOK
  <2> QED
    BY <2>1, <2>2
<1>14. CASE /\ ~Full(table, from)
            /\ attempts' = With(table, from, tries)
            /\ logins' = logins /\ accepted' = accepted
  <2>1. \A a \in Addresses : TriesOf(attempts', a) = TriesOf(table, a)
    <3>1. TriesOf(attempts', from) = tries
          /\ \A a : a # from => TriesOf(attempts', a) = TriesOf(table, a)
      BY <1>8, <1>14, WithTries
    <3> QED
      BY <3>1 DEF tries
  <2>2. AttemptInv'
    BY <1>1, <1>7, <1>10, <1>11, <1>14, <2>1, TableStep
  <2>3. \A a \in DOMAIN attempts' : attempts'[a] \subseteq Tries
    BY <1>4, <1>8, <1>10, <1>14
  <2>4. DOMAIN attempts' \subseteq Addresses
    BY <1>10, <1>12, <1>14
  <2>5. SessionsTypeOK'
    BY <1>1, <1>14, <2>3, <2>4 DEF SessionsTypeOK
  <2> QED
    BY <2>2, <2>5
<1>15. CASE /\ ~Full(table, from) /\ ~(Cardinality(tries) >= MaxAttempts)
            /\ attempts' = With(table, from, more)
            /\ logins' = [logins EXCEPT ![h] = [at |-> "waiting", from |-> from]]
            /\ accepted' = [accepted EXCEPT
                  ![from] = Recent(accepted[from]) \cup {Again(Recent(accepted[from]))}]
  <2>1. more = tries \cup {Again(tries)}
    BY DEF more
  <2>2. /\ Again(tries) \in Tries \ tries
        /\ Numbered(more) /\ IsFiniteSet(more) /\ Cardinality(more) = Cardinality(tries) + 1
    BY <1>3, <1>8, <2>1, AgainIsNew
  <2>3. Recent(more) = more
    <3>1. Recent(tries) = tries /\ Again(tries).time = clock
      BY <1>8 DEF Again
    <3>2. clock - clock < Window
      BY <1>3
    <3> QED
      BY <2>1, <3>1, <3>2 DEF Recent
  <2>4. accepted' = [accepted EXCEPT ![from] = more]
    BY <1>8, <1>15, <2>1
  <2>5. accepted \in [Addresses -> SUBSET Tries]
    BY DEF SessionsTypeOK
  <2>6. accepted'[from] = more /\ \A a \in Addresses : a # from => accepted'[a] = accepted[a]
    BY <2>4, <2>5
  <2>7. TriesOf(attempts', from) = more
        /\ \A a : a # from => TriesOf(attempts', a) = TriesOf(table, a)
    BY <1>15, <2>3, WithTries
  <2>8. Cardinality(more) =< MaxAttempts
    <3>1. Cardinality(tries) \in Nat
      BY <1>8, FS_CardinalityType
    <3> QED
      BY <1>3, <1>15, <2>2, <3>1
  <2>9. AttemptInv'
    <3>1. ASSUME NEW a \in Addresses
          PROVE  /\ IsFiniteSet(accepted'[a]) /\ Numbered(accepted'[a])
                 /\ Recent(accepted'[a]) = TriesOf(attempts', a)
                 /\ Cardinality(Recent(accepted'[a])) =< MaxAttempts
      <4>1. CASE a = from
        BY <2>2, <2>3, <2>6, <2>7, <2>8, <4>1
      <4>2. CASE a # from
        BY <1>7, <2>6, <2>7, <4>2
      <4> QED
        BY <4>1, <4>2
    <3>2. IsFiniteSet(DOMAIN attempts') /\ Cardinality(DOMAIN attempts') =< MaxTracked
      BY <1>10, <1>11, <1>15
    <3> QED
      BY <1>1, <3>1, <3>2, TableStep
  <2>10. more \subseteq Tries
    BY <1>8, <2>1, <2>2
  <2>11. \A a \in DOMAIN attempts' : attempts'[a] \subseteq Tries
    BY <1>4, <1>10, <1>15, <2>10
  <2>12. DOMAIN attempts' \subseteq Addresses
    BY <1>10, <1>12, <1>15
  <2>13. accepted' \in [Addresses -> SUBSET Tries]
    BY <2>4, <2>5, <2>10
  <2>14. logins' \in [Requests -> Login \cup {NoLogin}]
    <3>1. [at |-> "waiting", from |-> from] \in Login
      BY DEF Login
    <3>2. logins \in [Requests -> Login \cup {NoLogin}]
      BY DEF SessionsTypeOK
    <3> QED
      BY <1>15, <3>1, <3>2
  <2>15. SessionsTypeOK'
    BY <1>1, <2>11, <2>12, <2>13, <2>14 DEF SessionsTypeOK
  <2> QED
    BY <2>9, <2>15
<1> QED
  BY <1>9, <1>13, <1>14, <1>15

----
(* Slots, and the steps of a login that leave the sessions alone *)

LEMMA LoginTypes ==
    ASSUME SessionsTypeOK, NEW h \in Requests
    PROVE  /\ logins \in [Requests -> Login \cup {NoLogin}]
           /\ logins[h] = NoLogin => logins[h].at = "idle"
           /\ logins[h] # NoLogin =>
                 /\ logins[h] \in Login /\ logins[h].from \in Addresses
                 /\ logins[h].at \in {"waiting", "verifying", "issuing"}
           /\ \A at \in {"waiting", "verifying", "issuing"} :
                 logins[h] \in Login => [logins[h] EXCEPT !.at = at] \in Login
<1>1. logins \in [Requests -> Login \cup {NoLogin}]
  BY DEF SessionsTypeOK
<1>2. logins[h] = NoLogin => logins[h].at = "idle"
  BY DEF NoLogin
<1>3. ASSUME logins[h] \in Login
      PROVE  /\ logins[h].from \in Addresses
             /\ logins[h].at \in {"waiting", "verifying", "issuing"}
             /\ \A at \in {"waiting", "verifying", "issuing"} :
                   [logins[h] EXCEPT !.at = at] \in Login
  BY <1>3 DEF Login
<1> QED
  BY <1>1, <1>2, <1>3

\* Only the request that moved can have come to hold a slot, or to hold none.
LEMMA HoldersMove ==
    ASSUME SessionsTypeOK, NEW h \in Requests, NEW login, logins' = [logins EXCEPT ![h] = login]
    PROVE  /\ login.at \in {"verifying", "issuing"} => Holders' = Holders \cup {h}
           /\ login.at \notin {"verifying", "issuing"} => Holders' = Holders \ {h}
<1>1. logins \in [Requests -> Login \cup {NoLogin}]
  BY DEF SessionsTypeOK
<1>2. logins'[h] = login /\ \A g \in Requests : g # h => logins'[g] = logins[g]
  BY <1>1
<1>3. Holders' = {g \in Requests : logins'[g].at \in {"verifying", "issuing"}}
  BY DEF Holders
<1>4. Holders = {g \in Requests : logins[g].at \in {"verifying", "issuing"}}
  BY DEF Holders
<1> QED
  BY <1>2, <1>3, <1>4

\* What a step needs to keep the slots in order.
LEMMA SlotStep ==
    ASSUME SessionsInv, NEW h \in Requests
    PROVE  /\ Holders' = Holders /\ free' = free => SlotInv'
           /\ free \in Nat
           /\ h \notin Holders /\ Holders' = Holders \cup {h} /\ free' = free - 1 => SlotInv'
           /\ h \in Holders /\ Holders' = Holders \ {h} /\ free' = free + 1 => SlotInv'
<1>1. /\ IsFiniteSet(Holders) /\ Cardinality(Holders) \in Nat
      /\ free + Cardinality(Holders) = Slots
  BY FS_CardinalityType DEF SessionsInv, SlotInv
<1>2. free \in Nat /\ Slots \in Nat
  BY LimitFacts DEF SessionsInv, SessionsTypeOK
<1>3. ASSUME h \notin Holders
      PROVE  /\ IsFiniteSet(Holders \cup {h})
             /\ Cardinality(Holders \cup {h}) = Cardinality(Holders) + 1
  BY <1>1, <1>3, FS_AddElement
<1>4. ASSUME h \in Holders
      PROVE  IsFiniteSet(Holders \ {h}) /\ Cardinality(Holders \ {h}) = Cardinality(Holders) - 1
  BY <1>1, <1>4, FS_RemoveElement
<1>5. SlotInv' <=> IsFiniteSet(Holders') /\ free' + Cardinality(Holders') = Slots
  BY DEF SlotInv
<1>6. Holders' = Holders /\ free' = free => SlotInv'
  BY <1>1, <1>5
<1>7. h \notin Holders /\ Holders' = Holders \cup {h} /\ free' = free - 1 => SlotInv'
  BY <1>1, <1>2, <1>3, <1>5
<1>8. h \in Holders /\ Holders' = Holders \ {h} /\ free' = free + 1 => SlotInv'
  BY <1>1, <1>2, <1>4, <1>5
<1> QED
  BY <1>2, <1>6, <1>7, <1>8

LEMMA ListKept ==
    ASSUME SessionsInv, UNCHANGED <<clock, sessions, issued, passed>>
    PROVE  ListInv'
BY DEF SessionsInv, ListInv, Valid

LEMMA TableKept ==
    ASSUME SessionsInv, UNCHANGED <<clock, attempts, accepted>>
    PROVE  AttemptInv'
<1>1. /\ IsFiniteSet(DOMAIN attempts') /\ Cardinality(DOMAIN attempts') =< MaxTracked
      /\ \A a \in Addresses :
            /\ IsFiniteSet(accepted'[a]) /\ Numbered(accepted'[a])
            /\ Recent(accepted'[a]) = TriesOf(attempts', a)
            /\ Cardinality(Recent(accepted'[a])) =< MaxAttempts
  BY DEF SessionsInv, AttemptInv
<1> QED
  BY <1>1, TableStep

LEMMA AttemptSlots ==
    ASSUME SessionsInv, NEW h \in Requests, Attempt(h)
    PROVE  SlotInv'
<1>1. SessionsTypeOK
  BY DEF SessionsInv
<1>2. logins[h] = NoLogin /\ free' = free
  BY DEF Attempt
<1>3. \/ logins' = logins
      \/ \E from \in Addresses : logins' = [logins EXCEPT ![h] = [at |-> "waiting", from |-> from]]
  BY DEF Attempt
<1>4. h \notin Holders
  BY <1>1, <1>2, LoginTypes DEF Holders
<1>5. CASE logins' = logins
  <2>1. Holders' = Holders
    BY <1>5 DEF Holders
  <2> QED
    BY <1>2, <2>1, SlotStep
<1>6. ASSUME NEW from \in Addresses,
             logins' = [logins EXCEPT ![h] = [at |-> "waiting", from |-> from]]
      PROVE  SlotInv'
  <2> DEFINE login == [at |-> "waiting", from |-> from]
  <2>1. login.at \notin {"verifying", "issuing"}
    OBVIOUS
  <2>2. logins' = [logins EXCEPT ![h] = login]
    BY <1>6
  <2> HIDE DEF login
  <2>3. Holders' = Holders \ {h}
    BY <1>1, <2>1, <2>2, HoldersMove
  <2> QED
    BY <1>2, <1>4, <2>3, SlotStep
<1> QED
  BY <1>3, <1>5, <1>6

LEMMA TakeSlotStep ==
    ASSUME SessionsInv, NEW h \in Requests, TakeSlot(h)
    PROVE  SessionsInv'
<1> DEFINE login == [logins[h] EXCEPT !.at = "verifying"]
<1>1. SessionsTypeOK
  BY DEF SessionsInv
<1>2. /\ UNCHANGED <<clock, attempts, sessions, orphans, issued, accepted, passed>>
      /\ logins[h].at = "waiting" /\ free > 0 /\ free' = free - 1
      /\ logins' = [logins EXCEPT ![h] = login]
  BY DEF TakeSlot
<1>3. logins[h] \in Login /\ logins \in [Requests -> Login \cup {NoLogin}]
  BY <1>1, <1>2, LoginTypes
<1>4. login \in Login /\ login.at = "verifying"
  BY <1>3 DEF Login
<1> HIDE DEF login
<1>5. logins' \in [Requests -> Login \cup {NoLogin}] /\ free' \in Nat
  BY <1>1, <1>2, <1>3, <1>4 DEF SessionsTypeOK
<1>6. SessionsTypeOK'
  BY <1>1, <1>2, <1>5 DEF SessionsTypeOK
<1>7. Holders' = Holders \cup {h} /\ h \notin Holders
  BY <1>1, <1>2, <1>4, HoldersMove DEF Holders
<1>8. SlotInv'
  BY <1>2, <1>7, SlotStep
<1> QED
  BY <1>2, <1>6, <1>8, ListKept, TableKept DEF SessionsInv

\* A login that was given up, refused, left alone or answered.
LEMMA Answered ==
    ASSUME SessionsTypeOK, NEW h \in Requests, logins' = [logins EXCEPT ![h] = NoLogin]
    PROVE  logins' \in [Requests -> Login \cup {NoLogin}] /\ Holders' = Holders \ {h}
<1>1. NoLogin.at \notin {"verifying", "issuing"}
  BY DEF NoLogin
<1>2. Holders' = Holders \ {h}
  BY <1>1, HoldersMove
<1>3. logins \in [Requests -> Login \cup {NoLogin}]
  BY DEF SessionsTypeOK
<1> QED
  BY <1>2, <1>3

LEMMA GiveUpStep ==
    ASSUME SessionsInv, NEW h \in Requests, GiveUp(h) \/ Reject(h) \/ HangUp(h)
    PROVE  SessionsInv'
<1>1. SessionsTypeOK
  BY DEF SessionsInv
<1>2. /\ UNCHANGED <<clock, attempts, sessions, issued, accepted, passed>>
      /\ logins' = [logins EXCEPT ![h] = NoLogin]
      /\ \/ logins[h].at = "waiting" /\ free' = free
         \/ logins[h].at = "verifying" /\ free' = free + 1
      /\ orphans' = orphans \/ orphans' = orphans + 1
  BY DEF GiveUp, Reject, HangUp
<1>3. logins' \in [Requests -> Login \cup {NoLogin}] /\ Holders' = Holders \ {h}
  BY <1>1, <1>2, Answered
<1>4. free' \in Nat /\ orphans' \in Nat
  BY <1>1, <1>2 DEF SessionsTypeOK
<1>5. SessionsTypeOK'
  BY <1>1, <1>2, <1>3, <1>4 DEF SessionsTypeOK
<1>6. SlotInv'
  <2>1. CASE logins[h].at = "waiting" /\ free' = free
    <3>1. h \notin Holders
      BY <2>1 DEF Holders
    <3> QED
      BY <1>3, <2>1, <3>1, SlotStep
  <2>2. CASE logins[h].at = "verifying" /\ free' = free + 1
    <3>1. h \in Holders
      BY <2>2 DEF Holders
    <3> QED
      BY <1>3, <2>2, <3>1, SlotStep
  <2> QED
    BY <1>2, <2>1, <2>2
<1> QED
  BY <1>2, <1>5, <1>6, ListKept, TableKept DEF SessionsInv

\* A login forgets the attempts of its address.
LEMMA AcceptStep ==
    ASSUME SessionsInv, NEW h \in Requests, Accept(h)
    PROVE  SessionsInv'
<1> DEFINE login == [logins[h] EXCEPT !.at = "issuing"]
           from == logins[h].from
<1>1. SessionsTypeOK
  BY DEF SessionsInv
<1>2. /\ UNCHANGED <<clock, sessions, free, orphans, issued, passed>>
      /\ logins[h].at = "verifying"
      /\ logins' = [logins EXCEPT ![h] = login]
      /\ attempts' = Without(attempts, {from}) /\ accepted' = [accepted EXCEPT ![from] = {}]
  BY DEF Accept
<1>3. logins[h] \in Login /\ logins \in [Requests -> Login \cup {NoLogin}] /\ from \in Addresses
  BY <1>1, <1>2, LoginTypes
<1>4. login \in Login /\ login.at = "issuing"
  BY <1>3 DEF Login
<1> HIDE DEF login, from
<1>5. logins' \in [Requests -> Login \cup {NoLogin}]
  BY <1>2, <1>3, <1>4
<1>6. accepted \in [Addresses -> SUBSET Tries] /\ DOMAIN attempts \subseteq Addresses
      /\ \A a \in DOMAIN attempts : attempts[a] \subseteq Tries
  BY <1>1 DEF SessionsTypeOK
<1>7. DOMAIN attempts' = DOMAIN attempts \ {from}
      /\ \A a \in DOMAIN attempts \ {from} : attempts'[a] = attempts[a]
  BY <1>2 DEF Without
<1>8. accepted'[from] = {} /\ \A a \in Addresses : a # from => accepted'[a] = accepted[a]
  BY <1>2, <1>3, <1>6
<1>9. accepted' \in [Addresses -> SUBSET Tries]
  BY <1>2, <1>6
<1>10. SessionsTypeOK'
  BY <1>1, <1>2, <1>5, <1>6, <1>7, <1>9 DEF SessionsTypeOK
<1>11. AttemptInv'
  <2>1. IsFiniteSet(DOMAIN attempts) /\ Cardinality(DOMAIN attempts) =< MaxTracked
        /\ MaxTracked \in Nat
    BY LimitFacts DEF SessionsInv, AttemptInv
  <2>2. IsFiniteSet(DOMAIN attempts') /\ Cardinality(DOMAIN attempts') =< MaxTracked
    <3>1. DOMAIN attempts' \in SUBSET DOMAIN attempts
      BY <1>7
    <3>2. /\ IsFiniteSet(DOMAIN attempts')
          /\ Cardinality(DOMAIN attempts') =< Cardinality(DOMAIN attempts)
          /\ Cardinality(DOMAIN attempts') \in Nat /\ Cardinality(DOMAIN attempts) \in Nat
      BY <2>1, <3>1, FS_Subset, FS_CardinalityType
    <3> QED
      BY <2>1, <3>2
  <2>3. ASSUME NEW a \in Addresses
        PROVE  /\ IsFiniteSet(accepted'[a]) /\ Numbered(accepted'[a])
               /\ Recent(accepted'[a]) = TriesOf(attempts', a)
               /\ Cardinality(Recent(accepted'[a])) =< MaxAttempts
    <3>1. CASE a = from
      <4>1. accepted'[a] = {} /\ a \notin DOMAIN attempts'
        BY <1>7, <1>8, <3>1
      <4>2. Recent({}) = {} /\ Numbered({}) /\ IsFiniteSet({}) /\ Cardinality({}) = 0
        BY FS_EmptySet DEF Recent, Numbered
      <4>3. TriesOf(attempts', a) = {}
        BY <4>1 DEF TriesOf
      <4> QED
        BY <4>1, <4>2, <4>3, LimitFacts
    <3>2. CASE a # from
      <4>1. accepted'[a] = accepted[a]
        BY <1>8, <3>2
      <4>2. TriesOf(attempts', a) = TriesOf(attempts, a)
        BY <1>7, <3>2 DEF TriesOf
      <4> QED
        BY <4>1, <4>2 DEF SessionsInv, AttemptInv
    <3> QED
      BY <3>1, <3>2
  <2> QED
    BY <1>2, <2>2, <2>3, TableStep
<1>12. Holders' = Holders
  <2>1. Holders' = Holders \cup {h} /\ h \in Holders
    BY <1>1, <1>2, <1>4, HoldersMove DEF Holders
  <2> QED
    BY <2>1
<1>13. SlotInv'
  BY <1>2, <1>12, SlotStep
<1> QED
  BY <1>2, <1>10, <1>11, <1>13, ListKept DEF SessionsInv

----
(* The list of sessions *)

\* The list before a step, unpacked.
LEMMA ListFacts ==
    ASSUME SessionsInv
    PROVE  /\ clock \in Nat /\ issued \in Seq(Grants) /\ Len(issued) \in Nat
           /\ \A token \in 1 .. Len(issued) :
                 issued[token].expires \in Nat /\ issued[token].revoked \in BOOLEAN
           /\ DOMAIN sessions \subseteq 1 .. Len(issued)
           /\ \A token \in DOMAIN sessions :
                 /\ sessions[token] \in Nat
                 /\ sessions[token] = issued[token].expires /\ ~issued[token].revoked
           /\ IsFiniteSet(DOMAIN sessions) /\ Cardinality(DOMAIN sessions) =< MaxSessions
           /\ Cardinality(DOMAIN sessions) \in Nat
<1>1. /\ clock \in Nat /\ issued \in Seq(Grants) /\ Len(issued) \in Nat
      /\ DOMAIN sessions \subseteq 1 .. Len(issued)
      /\ \A token \in DOMAIN sessions : sessions[token] \in Nat
  BY LenProperties DEF SessionsInv, SessionsTypeOK
<1>2. \A token \in 1 .. Len(issued) :
         issued[token].expires \in Nat /\ issued[token].revoked \in BOOLEAN
  <2>1. \A token \in 1 .. Len(issued) : issued[token] \in Grants
    BY <1>1, ElementOfSeq
  <2> QED
    BY <2>1 DEF Grants
<1>3. IsFiniteSet(1 .. Len(issued))
  BY <1>1, FS_Interval
<1>4. IsFiniteSet(DOMAIN sessions) /\ Cardinality(DOMAIN sessions) \in Nat
  BY <1>1, <1>3, FS_Subset, FS_CardinalityType
<1> QED
  BY <1>1, <1>2, <1>4 DEF SessionsInv, ListInv

\* Dropping what has expired.
LEMMA LiveFacts ==
    ASSUME SessionsInv
    PROVE  /\ DOMAIN Live(sessions) = {token \in DOMAIN sessions : sessions[token] > clock}
           /\ \A token \in DOMAIN Live(sessions) : Live(sessions)[token] = sessions[token]
           /\ IsFiniteSet(DOMAIN Live(sessions))
           /\ Cardinality(DOMAIN Live(sessions)) =< MaxSessions
<1>1. DOMAIN Live(sessions)
          = DOMAIN sessions \ {token \in DOMAIN sessions : sessions[token] =< clock}
      /\ \A token \in DOMAIN Live(sessions) : Live(sessions)[token] = sessions[token]
  BY DEF Live, Without
<1>2. DOMAIN Live(sessions) = {token \in DOMAIN sessions : sessions[token] > clock}
  BY <1>1, ListFacts
<1>3. DOMAIN Live(sessions) \in SUBSET DOMAIN sessions
  BY <1>1
<1>4. /\ IsFiniteSet(DOMAIN sessions) /\ Cardinality(DOMAIN sessions) =< MaxSessions
      /\ Cardinality(DOMAIN sessions) \in Nat /\ MaxSessions \in Nat
  BY ListFacts, LimitFacts
<1>5. /\ IsFiniteSet(DOMAIN Live(sessions))
      /\ Cardinality(DOMAIN Live(sessions)) =< Cardinality(DOMAIN sessions)
      /\ Cardinality(DOMAIN Live(sessions)) \in Nat
  BY <1>3, <1>4, FS_Subset, FS_CardinalityType
<1>6. Cardinality(DOMAIN Live(sessions)) =< MaxSessions
  BY <1>4, <1>5
<1> QED
  BY <1>1, <1>2, <1>5, <1>6

\* A session that had to make room was followed by MaxSessions logins: the list
\* was full of newer ones.
LEMMA FollowedByMany ==
    ASSUME NEW list, NEW last \in Nat, DOMAIN list \subseteq 1 .. last,
           IsFiniteSet(DOMAIN list), Cardinality(DOMAIN list) =< MaxSessions,
           NEW token \in DOMAIN list, token \notin DOMAIN Room(list)
    PROVE  last + 1 - token >= MaxSessions
<1>1. DOMAIN list \subseteq Nat
  OBVIOUS
<1>2. /\ Cardinality(DOMAIN list) = MaxSessions
      /\ \A other \in DOMAIN list : token =< other
  BY <1>1, RoomFacts
<1>3. DOMAIN list \in SUBSET (token .. last) /\ token \in 1 .. last
  BY <1>2
<1>4. IsFiniteSet(token .. last) /\ Cardinality(token .. last) = last - token + 1
  BY <1>3, FS_Interval
<1>5. Cardinality(DOMAIN list) =< Cardinality(token .. last)
  BY <1>3, <1>4, FS_Subset
<1> QED
  BY <1>2, <1>3, <1>4, <1>5, LimitFacts

LEMMA IssueStep ==
    ASSUME SessionsInv, NEW h \in Requests, Issue(h)
    PROVE  SessionsInv'
<1> DEFINE live == Live(sessions)
           list == Room(live)
           next == Len(issued) + 1
           grant == [expires |-> clock + Lifetime, revoked |-> FALSE]
<1>1. SessionsTypeOK
  BY DEF SessionsInv
<1>2. /\ UNCHANGED <<clock, attempts, orphans, accepted, passed>>
      /\ logins[h].at = "issuing" /\ free' = free + 1
      /\ logins' = [logins EXCEPT ![h] = NoLogin]
      /\ sessions' = With(list, next, clock + Lifetime)
      /\ issued' = Append(issued, grant)
  BY DEF Issue
<1>3. grant \in Grants /\ grant.expires = clock + Lifetime /\ ~grant.revoked
      /\ clock + Lifetime \in Nat
  BY ListFacts, LimitFacts DEF Grants
<1>4. /\ DOMAIN live = {token \in DOMAIN sessions : sessions[token] > clock}
      /\ \A token \in DOMAIN live : live[token] = sessions[token]
      /\ IsFiniteSet(DOMAIN live) /\ Cardinality(DOMAIN live) =< MaxSessions
  BY LiveFacts
<1>5. next \in Nat /\ next - 1 = Len(issued) /\ DOMAIN live \subseteq 1 .. Len(issued)
      /\ DOMAIN live \subseteq Nat
  <2>1. DOMAIN sessions \subseteq 1 .. Len(issued) /\ Len(issued) \in Nat
    BY ListFacts
  <2> QED
    BY <1>4, <2>1
<1>6. /\ DOMAIN list \subseteq DOMAIN live
      /\ \A token \in DOMAIN list : list[token] = live[token]
      /\ Cardinality(DOMAIN list) < MaxSessions
  <2> HIDE DEF live
  <2> QED
    BY <1>4, <1>5, RoomFacts
<1>7. \A token \in DOMAIN live \ DOMAIN list : next - token >= MaxSessions
  <2> HIDE DEF live
  <2>1. Len(issued) \in Nat
    BY ListFacts
  <2> QED
    BY <1>4, <1>5, <2>1, FollowedByMany
<1> HIDE DEF live, list, grant
<1>8. /\ issued' \in Seq(Grants) /\ Len(issued') = next /\ issued'[next] = grant
      /\ \A token \in 1 .. Len(issued) : issued'[token] = issued[token]
  BY <1>2, <1>3, ListFacts, AppendProperties
<1>9. Len(issued) \in Nat /\ 1 .. Len(issued') = 1 .. Len(issued) \cup {next}
      /\ next \notin 1 .. Len(issued)
  BY <1>8, ListFacts
<1> HIDE DEF next
<1>10. /\ DOMAIN sessions' = DOMAIN list \cup {next} /\ sessions'[next] = clock + Lifetime
       /\ \A token \in DOMAIN list : token # next => sessions'[token] = list[token]
  BY <1>2 DEF With
<1>11. \A token \in DOMAIN list :
          /\ token \in 1 .. Len(issued) /\ token # next
          /\ sessions'[token] = sessions[token] /\ issued'[token] = issued[token]
          /\ token \in DOMAIN sessions
  BY <1>4, <1>5, <1>6, <1>8, <1>9, <1>10
<1>12. DOMAIN sessions' \subseteq 1 .. Len(issued')
  BY <1>9, <1>10, <1>11
<1>13. \A token \in DOMAIN sessions' :
          /\ sessions'[token] \in Nat
          /\ sessions'[token] = issued'[token].expires /\ ~issued'[token].revoked
  BY <1>3, <1>8, <1>10, <1>11, ListFacts
<1>14. logins' \in [Requests -> Login \cup {NoLogin}] /\ Holders' = Holders \ {h}
  BY <1>1, <1>2, Answered
<1>15. free' \in Nat
  BY <1>1, <1>2 DEF SessionsTypeOK
<1>16. SessionsTypeOK'
  BY <1>1, <1>2, <1>8, <1>12, <1>13, <1>14, <1>15 DEF SessionsTypeOK
<1>17. SlotInv'
  <2>1. h \in Holders
    BY <1>2 DEF Holders
  <2> QED
    BY <1>2, <1>14, <2>1, SlotStep
<1>18. Cardinality(DOMAIN sessions') =< MaxSessions
  <2>1. IsFiniteSet(DOMAIN list) /\ Cardinality(DOMAIN list) \in Nat
    BY <1>4, <1>6, FS_Subset, FS_CardinalityType
  <2>2. next \notin DOMAIN list
    BY <1>11
  <2>3. Cardinality(DOMAIN sessions') = Cardinality(DOMAIN list) + 1
    BY <1>10, <2>1, <2>2, FS_AddElement
  <2> QED
    BY <1>6, <2>1, <2>3, LimitFacts
<1>19. \A token \in 1 .. Len(issued) : Valid(token)' <=> Valid(token)
  <2>1. clock' = clock
    BY <1>2
  <2> QED
    BY <1>8, <2>1 DEF Valid
<1>20. ASSUME NEW token \in 1 .. Len(issued'), Valid(token)', Len(issued') - token < MaxSessions
       PROVE  token \in DOMAIN sessions'
  <2>1. CASE token = next
    BY <1>10, <2>1
  <2>2. CASE token # next
    <3>1. token \in 1 .. Len(issued) /\ Valid(token)
      BY <1>9, <1>19, <1>20, <2>2
    <3>2. Len(issued) - token < MaxSessions
      BY <1>5, <1>8, <1>9, <1>20, <3>1, LimitFacts
    <3>3. token \in DOMAIN sessions
      BY <3>1, <3>2 DEF SessionsInv, ListInv
    <3>4. sessions[token] > clock
      BY <3>1, <3>3, ListFacts DEF Valid
    <3>5. token \in DOMAIN live
      BY <1>4, <3>3, <3>4
    <3>6. ~(next - token >= MaxSessions)
      BY <1>5, <1>8, <1>20, <3>1, LimitFacts
    <3>7. token \in DOMAIN list
      BY <1>7, <3>5, <3>6
    <3> QED
      BY <1>10, <3>7
  <2> QED
    BY <2>1, <2>2
<1>21. passed' # NoToken => passed' \in 1 .. Len(issued') /\ Valid(passed)'
  <2>1. passed' = passed
    BY <1>2
  <2>2. passed # NoToken => passed \in 1 .. Len(issued) /\ Valid(passed)
    BY DEF SessionsInv, ListInv
  <2>3. passed \in 1 .. Len(issued) /\ Valid(passed) => Valid(passed)'
    <3>1. clock' = clock
      BY <1>2
    <3> QED
      BY <1>8, <2>1, <3>1 DEF Valid
  <2> QED
    BY <1>9, <2>1, <2>2, <2>3
<1>22. ListInv'
  BY <1>13, <1>18, <1>20, <1>21 DEF ListInv
<1> QED
  BY <1>2, <1>16, <1>17, <1>22, TableKept DEF SessionsInv

\* Neither the guard nor a logout touches logins or attempts.
LEMMA LoginsKept ==
    ASSUME SessionsInv, UNCHANGED <<clock, attempts, accepted, logins, free>>
    PROVE  AttemptInv' /\ SlotInv'
<1>1. Holders' = Holders
  BY DEF Holders
<1> QED
  BY <1>1, TableKept DEF SessionsInv, SlotInv

LEMMA GuardStep ==
    ASSUME SessionsInv, NEW token \in 1 .. Len(issued), Guard(token)
    PROVE  SessionsInv'
<1>1. /\ UNCHANGED <<clock, attempts, free, logins, orphans, issued, accepted>>
      /\ sessions' = Live(sessions)
      /\ passed' = IF token \in DOMAIN sessions' THEN token ELSE NoToken
  BY DEF Guard
<1>2. /\ DOMAIN sessions' = {other \in DOMAIN sessions : sessions[other] > clock}
      /\ \A other \in DOMAIN sessions' : sessions'[other] = sessions[other]
      /\ Cardinality(DOMAIN sessions') =< MaxSessions
  BY <1>1, LiveFacts
<1>3. SessionsTypeOK'
  <2>1. passed' \in Nat
    BY <1>1, ListFacts DEF NoToken
  <2> QED
    BY <1>1, <1>2, <2>1 DEF SessionsInv, SessionsTypeOK
<1>4. \A other : Valid(other)' <=> Valid(other)
  BY <1>1 DEF Valid
<1>5. \A other \in DOMAIN sessions' :
         sessions'[other] = issued'[other].expires /\ ~issued'[other].revoked
  BY <1>1, <1>2, ListFacts
<1>6. ASSUME NEW other \in 1 .. Len(issued'), Valid(other)', Len(issued') - other < MaxSessions
      PROVE  other \in DOMAIN sessions'
  <2>1. other \in DOMAIN sessions
    BY <1>1, <1>4, <1>6 DEF SessionsInv, ListInv
  <2>2. sessions[other] > clock
    BY <1>4, <1>6, <2>1, ListFacts DEF Valid
  <2> QED
    BY <1>2, <2>1, <2>2
<1>7. passed' # NoToken => passed' \in 1 .. Len(issued') /\ Valid(passed)'
  <2>1. SUFFICES ASSUME token \in DOMAIN sessions', passed' = token
                 PROVE  passed' \in 1 .. Len(issued') /\ Valid(passed)'
    BY <1>1
  <2>2. issued'[token].expires > clock' /\ ~issued'[token].revoked
    BY <1>1, <1>2, <2>1, ListFacts
  <2> QED
    BY <1>1, <2>1, <2>2 DEF Valid
<1>8. ListInv'
  BY <1>2, <1>5, <1>6, <1>7 DEF ListInv
<1> QED
  BY <1>1, <1>3, <1>8, LoginsKept DEF SessionsInv

LEMMA LogoutStep ==
    ASSUME SessionsInv, NEW token \in 1 .. Len(issued), Logout(token)
    PROVE  SessionsInv'
<1> DEFINE grant == [issued[token] EXCEPT !.revoked = TRUE]
<1>1. /\ UNCHANGED <<clock, attempts, free, logins, orphans, accepted>>
      /\ sessions' = Without(sessions, {token})
      /\ issued' = [issued EXCEPT ![token] = grant] /\ passed' = NoToken
  BY DEF Logout
<1>2. issued[token] \in Grants
  BY ListFacts, ElementOfSeq
<1>3. grant \in Grants /\ grant.revoked
  BY <1>2 DEF Grants
<1> HIDE DEF grant
<1>4. issued' \in Seq(Grants) /\ Len(issued') = Len(issued)
  BY <1>1, <1>3, ListFacts, ExceptSeq
<1>5. issued'[token] = grant /\ \A other \in 1 .. Len(issued) :
                                     other # token => issued'[other] = issued[other]
  BY <1>1, ListFacts, ExceptSeq
<1>6. /\ DOMAIN sessions' = DOMAIN sessions \ {token}
      /\ \A other \in DOMAIN sessions' : sessions'[other] = sessions[other]
  BY <1>1 DEF Without
<1>7. SessionsTypeOK'
  BY <1>1, <1>4, <1>6 DEF SessionsInv, SessionsTypeOK, NoToken
<1>8. \A other \in DOMAIN sessions' :
         sessions'[other] = issued'[other].expires /\ ~issued'[other].revoked
  BY <1>5, <1>6, ListFacts
<1>9. Cardinality(DOMAIN sessions') =< MaxSessions
  <2>1. DOMAIN sessions' \in SUBSET DOMAIN sessions
    BY <1>6
  <2>2. Cardinality(DOMAIN sessions') =< Cardinality(DOMAIN sessions)
        /\ Cardinality(DOMAIN sessions') \in Nat
    BY <2>1, ListFacts, FS_Subset, FS_CardinalityType
  <2> QED
    BY <2>2, ListFacts, LimitFacts
<1>10. ASSUME NEW other \in 1 .. Len(issued'), Valid(other)', Len(issued') - other < MaxSessions
       PROVE  other \in DOMAIN sessions'
  <2>1. other # token
    BY <1>3, <1>5, <1>10 DEF Valid
  <2>2. Valid(other)
    BY <1>1, <1>4, <1>5, <1>10, <2>1 DEF Valid
  <2>3. other \in DOMAIN sessions
    BY <1>4, <1>10, <2>2 DEF SessionsInv, ListInv
  <2> QED
    BY <1>6, <2>1, <2>3
<1>11. ListInv'
  BY <1>1, <1>8, <1>9, <1>10 DEF ListInv
<1> QED
  BY <1>1, <1>7, <1>11, LoginsKept DEF SessionsInv

\* What is recent later is recent now.
LEMMA TickStep ==
    ASSUME SessionsInv, Tick
    PROVE  SessionsInv'
<1>1. /\ UNCHANGED <<attempts, sessions, free, logins, orphans, issued, accepted>>
      /\ clock' = clock + 1 /\ passed' = NoToken
  BY DEF Tick
<1>2. /\ clock \in Nat /\ DOMAIN attempts \subseteq Addresses
      /\ \A a \in DOMAIN attempts : attempts[a] \subseteq Tries
      /\ accepted \in [Addresses -> SUBSET Tries]
  BY DEF SessionsInv, SessionsTypeOK
<1>3. SessionsTypeOK'
  BY <1>1, <1>2 DEF SessionsInv, SessionsTypeOK, NoToken
<1> DEFINE later(tries) == {try \in tries : clock' - try.time < Window}
<1>4. ASSUME NEW tries, tries \subseteq Tries
      PROVE  later(tries) = later(Recent(tries)) /\ later(tries) \subseteq Recent(tries)
  <2>1. \A try \in tries : clock' - try.time < Window => clock - try.time < Window
    BY <1>1, <1>2, <1>4, LimitFacts DEF Tries
  <2> QED
    BY <2>1 DEF Recent
<1>5. \A a \in Addresses : Recent(accepted[a])' = later(accepted[a])
  <2>1. \A a \in Addresses :
           Recent(accepted[a])' = later(accepted'[a])
    BY DEF Recent
  <2> QED
    BY <1>1, <2>1
<1>6. \A a : TriesOf(attempts, a)' = IF a \in DOMAIN attempts THEN later(attempts[a]) ELSE {}
  <2>1. \A a : TriesOf(attempts, a)' =
                  IF a \in DOMAIN attempts'
                  THEN later(attempts'[a]) ELSE {}
    BY DEF TriesOf, Recent
  <2> QED
    BY <1>1, <2>1
<1> HIDE DEF later
<1>7. ASSUME NEW a \in Addresses
      PROVE  /\ Recent(accepted[a])' = TriesOf(attempts, a)'
             /\ Cardinality(Recent(accepted[a])') =< MaxAttempts
  <2>1. /\ Recent(accepted[a]) = TriesOf(attempts, a) /\ IsFiniteSet(accepted[a])
        /\ Cardinality(Recent(accepted[a])) =< MaxAttempts /\ accepted[a] \subseteq Tries
    BY <1>2 DEF SessionsInv, AttemptInv
  <2>2. later(accepted[a]) = later(Recent(accepted[a]))
        /\ later(accepted[a]) \subseteq Recent(accepted[a])
    BY <1>4, <2>1
  <2>3. Recent(accepted[a])' = TriesOf(attempts, a)'
    <3>1. CASE a \in DOMAIN attempts
      <4>1. later(attempts[a]) = later(Recent(attempts[a]))
        BY <1>2, <1>4, <3>1
      <4> QED
        BY <1>5, <1>6, <2>1, <2>2, <3>1, <4>1 DEF TriesOf
    <3>2. CASE a \notin DOMAIN attempts
      BY <1>5, <1>6, <2>1, <2>2, <3>2 DEF TriesOf
    <3> QED
      BY <3>1, <3>2
  <2>4. IsFiniteSet(Recent(accepted[a])) /\ Cardinality(Recent(accepted[a])) \in Nat
    <3>1. Recent(accepted[a]) \in SUBSET accepted[a]
      BY DEF Recent
    <3> QED
      BY <2>1, <3>1, FS_Subset, FS_CardinalityType
  <2>5. Cardinality(later(accepted[a])) =< Cardinality(Recent(accepted[a]))
        /\ Cardinality(later(accepted[a])) \in Nat
    BY <2>2, <2>4, FS_Subset, FS_CardinalityType
  <2>6. Cardinality(later(accepted[a])) =< MaxAttempts
    BY <2>1, <2>4, <2>5, LimitFacts
  <2> QED
    BY <1>5, <2>3, <2>6
<1>8. AttemptInv'
  <2>1. /\ IsFiniteSet(DOMAIN attempts') /\ Cardinality(DOMAIN attempts') =< MaxTracked
        /\ \A a \in Addresses : IsFiniteSet(accepted'[a]) /\ Numbered(accepted'[a])
    BY <1>1 DEF SessionsInv, AttemptInv
  <2>2. \A a : Numbered(accepted[a])' = Numbered(accepted'[a])
    BY DEF Numbered
  <2> QED
    BY <1>7, <2>1, <2>2 DEF AttemptInv
<1>9. SlotInv'
  <2>1. Holders' = Holders
    BY <1>1 DEF Holders
  <2> QED
    BY <1>1, <2>1 DEF SessionsInv, SlotInv
<1>10. ListInv'
  <2>1. /\ \A token \in DOMAIN sessions' :
              sessions'[token] = issued'[token].expires /\ ~issued'[token].revoked
        /\ Cardinality(DOMAIN sessions') =< MaxSessions
    BY <1>1 DEF SessionsInv, ListInv
  <2>2. \A token \in 1 .. Len(issued) : Valid(token)' => Valid(token)
    BY <1>1, ListFacts DEF Valid
  <2>3. \A token \in 1 .. Len(issued') :
           Valid(token)' /\ Len(issued') - token < MaxSessions => token \in DOMAIN sessions'
    BY <1>1, <2>2 DEF SessionsInv, ListInv
  <2> QED
    BY <1>1, <2>1, <2>3 DEF ListInv
<1> QED
  BY <1>3, <1>8, <1>9, <1>10 DEF SessionsInv

----
(* Theorems about logins and sessions *)

LEMMA OrphanStep ==
    ASSUME SessionsInv, OrphanEnds
    PROVE  SessionsInv'
<1>1. /\ UNCHANGED <<clock, attempts, sessions, free, logins, issued, accepted, passed>>
      /\ orphans > 0 /\ orphans' = orphans - 1
  BY DEF OrphanEnds
<1>2. SessionsTypeOK'
  BY <1>1 DEF SessionsInv, SessionsTypeOK
<1> QED
  BY <1>1, <1>2, LoginsKept, ListKept DEF SessionsInv

LEMMA SessionsStart == SessionsInit => SessionsInv
<1> SUFFICES ASSUME SessionsInit PROVE SessionsInv
  OBVIOUS
<1>1. /\ DOMAIN attempts = {} /\ DOMAIN sessions = {} /\ issued = << >>
      /\ free = Slots /\ orphans = 0
      /\ clock = 0 /\ passed = NoToken
      /\ logins = [h \in Requests |-> NoLogin] /\ accepted = [a \in Addresses |-> {}]
  BY DEF SessionsInit
<1>2. issued \in Seq(Grants) /\ Len(issued) = 0 /\ 1 .. Len(issued) = {}
  BY <1>1, EmptySeq
<1>3. IsFiniteSet({}) /\ Cardinality({}) = 0
  BY FS_EmptySet
<1>4. SessionsTypeOK
  BY <1>1, <1>2, LimitFacts DEF SessionsTypeOK, NoToken
<1>5. AttemptInv
  <2>1. \A a \in Addresses : accepted[a] = {} /\ TriesOf(attempts, a) = {}
    BY <1>1 DEF TriesOf
  <2>2. Recent({}) = {} /\ Numbered({})
    BY DEF Recent, Numbered
  <2>3. 0 =< MaxTracked /\ 0 =< MaxAttempts
    BY LimitFacts
  <2>4. ASSUME NEW a \in Addresses
        PROVE  /\ IsFiniteSet(accepted[a]) /\ Numbered(accepted[a])
               /\ Recent(accepted[a]) = TriesOf(attempts, a)
               /\ Cardinality(Recent(accepted[a])) =< MaxAttempts
    BY <1>3, <2>1, <2>2, <2>3
  <2>5. IsFiniteSet(DOMAIN attempts) /\ Cardinality(DOMAIN attempts) =< MaxTracked
    BY <1>1, <1>3, <2>3
  <2> QED
    BY <2>4, <2>5 DEF AttemptInv
<1>6. SlotInv
  <2>1. Holders = {}
    BY <1>1 DEF Holders, NoLogin
  <2> QED
    BY <1>1, <1>3, <2>1, LimitFacts DEF SlotInv
<1>7. ListInv
  BY <1>1, <1>2, <1>3, LimitFacts DEF ListInv
<1> QED
  BY <1>4, <1>5, <1>6, <1>7 DEF SessionsInv

LEMMA SessionsStep == SessionsInv /\ [SessionsNext]_sessionVars => SessionsInv'
<1> SUFFICES ASSUME SessionsInv, [SessionsNext]_sessionVars PROVE SessionsInv'
  OBVIOUS
<1>1. ASSUME NEW h \in Requests, Attempt(h)
      PROVE  SessionsInv'
  <2>1. UNCHANGED <<clock, sessions, issued, passed>>
    BY <1>1 DEF Attempt
  <2> QED
    BY <1>1, <2>1, AttemptStep, AttemptSlots, ListKept DEF SessionsInv
<1>2. ASSUME NEW h \in Requests, TakeSlot(h)
      PROVE  SessionsInv'
  BY <1>2, TakeSlotStep
<1>3. ASSUME NEW h \in Requests, GiveUp(h) \/ Reject(h) \/ HangUp(h)
      PROVE  SessionsInv'
  BY <1>3, GiveUpStep
<1>4. ASSUME NEW h \in Requests, Accept(h)
      PROVE  SessionsInv'
  BY <1>4, AcceptStep
<1>5. ASSUME NEW h \in Requests, Issue(h)
      PROVE  SessionsInv'
  BY <1>5, IssueStep
<1>6. ASSUME NEW token \in 1 .. Len(issued), Guard(token)
      PROVE  SessionsInv'
  BY <1>6, GuardStep
<1>7. ASSUME NEW token \in 1 .. Len(issued), Logout(token)
      PROVE  SessionsInv'
  BY <1>7, LogoutStep
<1>8. CASE Tick
  BY <1>8, TickStep
<1>10. CASE OrphanEnds
  BY <1>10, OrphanStep
<1>9. CASE UNCHANGED sessionVars
  <2>1. UNCHANGED <<clock, attempts, sessions, free, logins, orphans, issued,
                     accepted, passed>>
    BY <1>9 DEF sessionVars
  <2>2. SessionsTypeOK'
    BY <2>1 DEF SessionsInv, SessionsTypeOK
  <2> QED
    BY <2>1, <2>2, LoginsKept, ListKept DEF SessionsInv
<1> QED
  BY <1>1, <1>2, <1>3, <1>4, <1>5, <1>6, <1>7, <1>8, <1>9, <1>10 DEF SessionsNext

\* Of every address the table holds all it tried recently, however often it was
\* pruned, swept and made again; the slots add up; and the list is exactly what
\* the last logins were given and nobody revoked.
THEOREM SessionsInvariance == SessionsSpec => []SessionsInv
BY SessionsStart, SessionsStep, PTL DEF SessionsSpec

\* Types of the table of attempts, of the sessions and of the logins.
THEOREM SessionsTypes == SessionsSpec => []SessionsTypeOK
<1>1. SessionsInv => SessionsTypeOK
  BY DEF SessionsInv
<1> QED
  BY <1>1, SessionsInvariance, PTL

\* An address gets no more than MaxAttempts tries in any window unless it logs in,
\* the table of addresses keeps to its limit, and every slot is free or held by one
\* handler: for any addresses, window and limits, any number of requests at once,
\* and clients that hang up.  (auth.rs, note_attempt, clear_attempts, verify_slot.)
THEOREM LoginsTheorem == SessionsSpec => []AttemptsAreBounded
<1>1. SessionsInv => AttemptsAreBounded
  BY DEF SessionsInv, AttemptInv, SlotInv, Holders, AttemptsAreBounded
<1> QED
  BY <1>1, SessionsInvariance, PTL

\* A token works until it expires, is revoked or MaxSessions logins have followed
\* it, and never again after it expired or was revoked: for any lifetime and any
\* limit, and any number of logins.  (auth.rs, issue, validate, revoke.)
THEOREM SessionsTheorem == SessionsSpec => []SessionsLast
<1>1. SessionsInv => SessionsLast
  BY DEF SessionsInv, ListInv, SessionsLast
<1> QED
  BY <1>1, SessionsInvariance, PTL

====
