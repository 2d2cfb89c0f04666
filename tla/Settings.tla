---- MODULE Settings ----
(***************************************************************************)
(* The settings half of the web interface (crates/artd/src/web) and the    *)
(* override file it writes (crates/lpframe-config/src/write.rs).  A        *)
(* handler runs on its own thread and takes no lock around the file: it    *)
(* reads the overrides, changes a few keys, validates the merged result,   *)
(* writes a scratch file whose name is the same for the whole process,     *)
(* renames it, and hands the configuration to the main loop.  A change to  *)
(* the display then waits for a confirmation, or a countdown undoes it.    *)
(*                                                                         *)
(* Dotted keys are model values; the text of a file is the table it holds. *)
(* The main loop, systemd and the renderer are modelled by what the        *)
(* handlers can see of them.                                               *)
(***************************************************************************)
EXTENDS Naturals, Sequences, FiniteSets

CONSTANTS
    Keys,          \* dotted paths of settings
    ConfirmKeys,   \* CONFIRM_KEYS
    Choices,       \* for each key, the values a browser may send
    Unset,         \* the key is not overridden
    Base,          \* the packaged configuration
    Invalid,       \* the configurations that Config::validate refuses
    Handlers,      \* threads that can serve a request
    Bodies,        \* bodies of PATCH requests: some keys, and their values
    ResetKeys,     \* bodies of reset requests: some keys
    Capacity,      \* capacity of the channel of commands
    MaxCountdowns, \* bound of the model: countdowns between two starts
    MaxRequests,   \* bound of the model: requests
    MaxFaults,     \* bound of the model: writes that fail, and restarts
    NoCountdown,   \* Settings::pending is None
    OtherCommand   \* a command other than Reload

ASSUME ConfirmAssumption == ConfirmKeys \subseteq Keys
ASSUME BaseAssumption ==
    Base \in [Keys -> UNION {Choices[k] : k \in Keys}] /\ Base \notin Invalid
ASSUME BodiesAssumption ==
    /\ \A body \in Bodies : \E D \in SUBSET Keys : body \in [D -> UNION {Choices[k] : k \in Keys}]
    /\ ResetKeys \subseteq SUBSET Keys
ASSUME BoundsAssumption == {Capacity, MaxCountdowns, MaxRequests, MaxFaults} \subseteq Nat
ASSUME HandlersAssumption == \A h \in Handlers : h \notin Nat

VARIABLES
    local,     \* the override file
    scratch,   \* the file it is written to before the rename
    jobs,      \* what each handler and each countdown is doing
    pending,   \* Settings::pending
    nextId,    \* Settings::next_id
    commands,  \* the channel to the main loop
    running,   \* the configuration of the main loop
    requests,  \* the requests so far, and the faults
    faults,
    kept,      \* history: the override last confirmed, of each ConfirmKey
    abandoned, \* history: ConfirmKeys whose change will not be undone any more
    raced,     \* history: two writers ran at once
    dropped    \* history: a configuration found the channel full

disk == <<local, scratch>>
daemon == <<commands, running>>
history == <<kept, abandoned, raced, dropped>>
settingsVars ==
    <<disk, jobs, pending, nextId, daemon, requests, faults, history>>

Countdowns == 1 .. MaxCountdowns
Threads == Handlers \cup Countdowns
Value == UNION {Choices[k] : k \in Keys}
Table == [Keys -> Value \cup {Unset}]
Configs == [Keys -> Value]
Edits == UNION {[D -> Value \cup {Unset}] : D \in SUBSET Keys}
Countdown == [id : Nat, undo : Edits]
NoOverrides == [k \in Keys |-> Unset]

\* Config::validate looks at display.rotation by itself and not at display.mode
\* at all, so these settings can be changed among valid configurations.
ASSUME ValidationAssumption ==
    \A D \in SUBSET ConfirmKeys : \A c, d \in Configs \ Invalid :
        [k \in Keys |-> IF k \in D THEN c[k] ELSE d[k]] \notin Invalid
ASSUME SentinelsAssumption == NoCountdown \notin Countdown /\ OtherCommand \notin Configs

\* A file is absent, has been truncated, holds a table, or is the remains of
\* two writes to the same file.
File == [text : {"absent", "blank", "whole", "torn"}, table : Table]
FileOf(text) == [text |-> text, table |-> NoOverrides]
Holding(table) == [text |-> "whole", table |-> table]

Readable(file) == file.text # "torn"

\* merge: an override replaces the packaged value.
Merge(table) == [k \in Keys |-> IF table[k] = Unset THEN Base[k] ELSE table[k]]

\* insert_path and remove_path, for every key of an edit.
Edited(table, edits) ==
    [k \in Keys |-> IF k \in DOMAIN edits THEN edits[k] ELSE table[k]]

Touched(edits) == DOMAIN edits \cap ConfirmKeys

Nothing == [k \in {} |-> Unset]
Idle == [at |-> "idle", edits |-> Nothing, undo |-> Nothing, table |-> NoOverrides,
         file |-> "none"]

SettingsInit ==
    /\ local = FileOf("absent") /\ scratch = FileOf("absent")
    /\ jobs = [t \in Threads |-> Idle]
    /\ pending = NoCountdown /\ nextId = 1
    /\ commands = << >> /\ running = Base
    /\ requests = 0 /\ faults = 0
    /\ kept = [k \in ConfirmKeys |-> Unset] /\ abandoned = {}
    /\ raced = FALSE /\ dropped = FALSE

At(t, place) == jobs[t].at = place
Busy == {t \in Threads : jobs[t].at \notin {"idle", "sleeping"}}

Goes(t, place) == jobs' = [jobs EXCEPT ![t].at = place]
Ends(t) == jobs' = [jobs EXCEPT ![t] = Idle]

\* Every step that starts or confirms while another thread is in a file.
Races(t) == raced' = (raced \/ Busy \ {t} # {})

----
(* A request arrives *)

\* The countdowns that are armed, and those that will be.
Promised ==
    Cardinality({t \in Handlers : ~At(t, "idle") /\ DOMAIN jobs[t].undo # {}})

\* api_config_patch up to apply; snapshot_keys reads the file for itself.
Patch(t) ==
    /\ At(t, "idle") /\ requests < MaxRequests
    /\ \E body \in Bodies :
         /\ Touched(body) # {} =>
              Readable(local) /\ nextId + Promised <= MaxCountdowns
         /\ jobs' = [jobs EXCEPT ![t] =
              [Idle EXCEPT !.at = "editing", !.edits = body,
                           !.undo = [k \in Touched(body) |-> local.table[k]]]]
    /\ requests' = requests + 1
    /\ Races(t)
    /\ UNCHANGED <<disk, pending, nextId, daemon, faults, kept, abandoned, dropped>>

\* api_config_reset does not look at a countdown.
Reset(t) ==
    /\ At(t, "idle") /\ requests < MaxRequests
    /\ \E keys \in ResetKeys :
         jobs' = [jobs EXCEPT ![t] =
           [Idle EXCEPT !.at = "editing", !.edits = [k \in keys |-> Unset]]]
    /\ requests' = requests + 1
    /\ Races(t)
    /\ UNCHANGED <<disk, pending, nextId, daemon, faults, kept, abandoned, dropped>>

\* Settings::confirm
Confirm(id) ==
    /\ pending # NoCountdown /\ pending.id = id
    /\ pending' = NoCountdown
    /\ kept' = [k \in ConfirmKeys |->
                  IF k \in DOMAIN pending.undo THEN local.table[k] ELSE kept[k]]
    /\ abandoned' = abandoned \ DOMAIN pending.undo
    /\ raced' = (raced \/ Busy # {})
    /\ UNCHANGED <<disk, jobs, nextId, daemon, requests, faults, dropped>>

\* api_action, for the commands that take a place in the channel.
Order ==
    /\ Len(commands) < Capacity
    /\ commands' = Append(commands, OtherCommand)
    /\ UNCHANGED <<disk, jobs, pending, nextId, running, requests, faults, history>>

----
(* Editing the override file *)

Refused(table) == Merge(table) \in Invalid

\* edit_overrides up to the write: any error leaves the file alone.
Edit(t) ==
    /\ At(t, "editing")
    /\ LET table == Edited(local.table, jobs[t].edits)
       IN IF Readable(local) /\ ~Refused(table)
          THEN jobs' = [jobs EXCEPT ![t].at = "opening", ![t].table = table]
          ELSE Ends(t)
    /\ UNCHANGED <<disk, pending, nextId, daemon, requests, faults, history>>

\* Mutant: the override file is opened and truncated itself.
OpenInPlace(t) ==
    /\ At(t, "opening")
    /\ local' = FileOf("blank") /\ scratch' = FileOf("blank")
    /\ jobs' = [jobs EXCEPT ![t].at = "writing", ![t].file = "scratch"]
    /\ UNCHANGED <<pending, nextId, daemon, requests, faults, history>>

\* write_atomic opens and truncates the scratch file.
Open(t) ==
    /\ At(t, "opening")
    /\ scratch' = FileOf("blank")
    /\ jobs' = [jobs EXCEPT ![t].at = "writing", ![t].file = "scratch"]
    /\ UNCHANGED <<local, pending, nextId, daemon, requests, faults, history>>

\* What a file holds after a whole table is written from its start.
Overwritten(file, table) ==
    IF file.text = "blank" \/ file = Holding(table)
    THEN {Holding(table)}
    ELSE {Holding(table), FileOf("torn")}

\* The open file may by now be the override file, or no file at all.
Write(t) ==
    /\ At(t, "writing")
    /\ CASE jobs[t].file = "scratch" ->
              scratch' \in Overwritten(scratch, jobs[t].table) /\ UNCHANGED local
         [] jobs[t].file = "local" ->
              local' \in Overwritten(local, jobs[t].table) /\ UNCHANGED scratch
         [] OTHER -> UNCHANGED disk
    /\ Goes(t, "renaming")
    /\ UNCHANGED <<pending, nextId, daemon, requests, faults, history>>

\* Descriptors follow the file they were opened on.
Moved(from, to) ==
    [t \in Threads |->
       IF jobs[t].file = from THEN [jobs[t] EXCEPT !.file = to] ELSE jobs[t]]

Unconfirmed == {k \in ConfirmKeys : local.table[k] # kept[k]}

\* A write that fails leaves part of itself behind, and removes the scratch file.
\* The revert of a countdown is not tried again.
FailToWrite(t) ==
    /\ At(t, "writing") /\ faults < MaxFaults
    /\ faults' = faults + 1
    /\ local' = IF jobs[t].file = "local" THEN FileOf("torn") ELSE local
    /\ scratch' = FileOf("absent")
    /\ jobs' = [Moved("scratch", "gone") EXCEPT ![t] = Idle]
    /\ abandoned' = abandoned \cup
         (IF t \in Countdowns THEN Unconfirmed \cap DOMAIN jobs[t].edits ELSE {})
    /\ UNCHANGED <<pending, nextId, daemon, requests, kept, raced, dropped>>

\* The display settings a reset gives up, unless a countdown will undo it.
GivesUp(t) ==
    {k \in ConfirmKeys :
       /\ t \in Handlers /\ k \in DOMAIN jobs[t].edits \ DOMAIN jobs[t].undo
       /\ pending = NoCountdown \/ k \notin DOMAIN pending.undo}

\* The rename fails when another thread has renamed the scratch file.
Rename(t) ==
    /\ At(t, "renaming")
    /\ IF scratch.text = "absent"
       THEN Ends(t) /\ UNCHANGED <<disk, kept, abandoned>>
       ELSE /\ local' = scratch /\ scratch' = FileOf("absent")
            /\ jobs' = [u \in Threads |->
                 CASE u = t -> [jobs[t] EXCEPT !.at = "publishing", !.file = "none"]
                   [] u # t /\ jobs[u].file = "scratch" -> [jobs[u] EXCEPT !.file = "local"]
                   [] u # t /\ jobs[u].file = "local" -> [jobs[u] EXCEPT !.file = "gone"]
                   [] OTHER -> jobs[u]]
            /\ kept' = [k \in ConfirmKeys |->
                          IF k \in GivesUp(t) THEN jobs[t].edits[k] ELSE kept[k]]
            /\ abandoned' = abandoned \ GivesUp(t)
    /\ UNCHANGED <<pending, nextId, daemon, requests, faults, raced, dropped>>

\* What follows the reload: a countdown for a change to the display, or nothing.
Afterwards(t) ==
    IF DOMAIN jobs[t].undo # {} THEN Goes(t, "arming") ELSE Ends(t)

\* Mutant: a revert does not tell the main loop.
PublishRequests(t) ==
    /\ At(t, "publishing")
    /\ IF t \in Handlers /\ Len(commands) < Capacity
       THEN commands' = Append(commands, Merge(jobs[t].table)) /\ UNCHANGED dropped
       ELSE dropped' = (dropped \/ t \in Handlers) /\ UNCHANGED commands
    /\ Afterwards(t)
    /\ UNCHANGED <<disk, pending, nextId, running, requests, faults, kept, abandoned, raced>>

\* Settings::publish does not wait for room.
Publish(t) ==
    /\ At(t, "publishing")
    /\ IF Len(commands) < Capacity
       THEN commands' = Append(commands, Merge(jobs[t].table)) /\ UNCHANGED dropped
       ELSE dropped' = TRUE /\ UNCHANGED commands
    /\ Afterwards(t)
    /\ UNCHANGED <<disk, pending, nextId, running, requests, faults, kept, abandoned, raced>>

----
(* Confirm or revert *)

\* Mutant: the newer undo wins.
NewerWins(newer, older) ==
    [k \in DOMAIN newer \cup DOMAIN older |->
       IF k \in DOMAIN newer THEN newer[k] ELSE older[k]]

\* The undo of two changes: the older one wins.
Merged(newer, older) ==
    [k \in DOMAIN newer \cup DOMAIN older |->
       IF k \in DOMAIN older THEN older[k] ELSE newer[k]]

\* Mutant: the number recorded is the one after the number given out.
ArmNextNumber(t) ==
    /\ At(t, "arming")
    /\ pending' = [id |-> nextId + 1,
                   undo |-> IF pending = NoCountdown THEN jobs[t].undo
                            ELSE Merged(jobs[t].undo, pending.undo)]
    /\ nextId' = nextId + 1
    /\ jobs' = [jobs EXCEPT ![t] = Idle, ![nextId].at = "sleeping"]
    /\ UNCHANGED <<disk, daemon, requests, faults, history>>

\* Settings::arm and spawn_countdown
Arm(t) ==
    /\ At(t, "arming")
    /\ pending' = [id |-> nextId,
                   undo |-> IF pending = NoCountdown THEN jobs[t].undo
                            ELSE Merged(jobs[t].undo, pending.undo)]
    /\ nextId' = nextId + 1
    /\ jobs' = [jobs EXCEPT ![t] = Idle, ![nextId].at = "sleeping"]
    /\ UNCHANGED <<disk, daemon, requests, faults, history>>

Superseded(id) == pending = NoCountdown \/ pending.id # id

\* spawn_countdown after its sleep, and Settings::revert up to the edit.
Fire(id) ==
    /\ At(id, "sleeping")
    /\ IF Superseded(id)
       THEN Ends(id) /\ UNCHANGED <<pending, raced>>
       ELSE /\ jobs' = [jobs EXCEPT ![id].at = "editing", ![id].edits = pending.undo]
            /\ pending' = NoCountdown
            /\ Races(id)
    /\ UNCHANGED <<disk, nextId, daemon, requests, faults, kept, abandoned, dropped>>

----
(* The main loop, and a restart of the daemon *)

\* Machine::reload, or any other command.
TakeCommand ==
    /\ commands # << >>
    /\ running' = IF Head(commands) = OtherCommand THEN running ELSE Head(commands)
    /\ commands' = Tail(commands)
    /\ UNCHANGED <<disk, jobs, pending, nextId, requests, faults, history>>

Starts == Readable(local) /\ ~Refused(local.table)

\* A power cut or a restart of the daemon at any point, with a file it can
\* start from.  The countdown is forgotten: what is on disk stays.
RestartDaemon ==
    /\ faults < MaxFaults /\ Starts
    /\ faults' = faults + 1
    /\ jobs' = [t \in Threads |-> Idle]
    /\ pending' = NoCountdown /\ nextId' = 1
    /\ commands' = << >> /\ running' = Merge(local.table)
    /\ scratch' = FileOf("absent")
    /\ abandoned' = abandoned \cup Unconfirmed
    /\ dropped' = FALSE
    /\ UNCHANGED <<local, requests, kept, raced>>

Proceeds(t) ==
    \/ Edit(t)
    \/ Open(t)
    \/ Write(t)
    \/ Rename(t)
    \/ Publish(t)

SettingsNext ==
    \/ \E t \in Handlers : Patch(t) \/ Reset(t) \/ Arm(t)
    \/ \E t \in Threads : Proceeds(t) \/ FailToWrite(t)
    \/ \E id \in Countdowns : Confirm(id) \/ Fire(id)
    \/ Order
    \/ TakeCommand
    \/ RestartDaemon

SettingsSpec == SettingsInit /\ [][SettingsNext]_settingsVars

\* The threads run on, sleeps end, and the main loop takes its commands.
FairSettingsSpec ==
    /\ SettingsSpec
    /\ \A t \in Threads : WF_settingsVars(Proceeds(t))
    /\ \A t \in Handlers : WF_settingsVars(Arm(t))
    /\ \A id \in Countdowns : WF_settingsVars(Fire(id))
    /\ WF_settingsVars(TakeCommand)

----
(* Properties *)

Places == {"idle", "editing", "opening", "writing", "renaming", "publishing", "arming",
           "sleeping"}
Jobs == [at : Places, edits : Edits, undo : Edits, table : Table,
         file : {"none", "scratch", "local", "gone"}]

\* Types of the two files, of the threads and of what they hand to each other.
\* (settings.rs, Settings; write.rs, write_atomic.)
SettingsTypeOK ==
    /\ local \in File /\ scratch \in File
    /\ jobs \in [Threads -> Jobs]
    /\ pending \in Countdown \cup {NoCountdown} /\ nextId \in Nat
    /\ commands \in Seq(Configs \cup {OtherCommand}) /\ running \in Configs
    /\ requests \in Nat /\ faults \in Nat
    /\ kept \in [ConfirmKeys -> Value \cup {Unset}] /\ abandoned \subseteq ConfirmKeys
    /\ raced \in BOOLEAN /\ dropped \in BOOLEAN

\* A daemon that is restarted at any moment finds a file it can start from:
\* only a second writer, let in while the first had the scratch file open, can
\* make the file unreadable or empty.  (write.rs, "Validated before
\* committing" and "Atomic".)
AlwaysStarts ==
    /\ raced \/ Starts
    /\ raced \/ local.text # "blank"
    /\ local.text = "whole" => ~Refused(local.table)
    /\ running \notin Invalid

Quiet ==
    /\ \A t \in Threads : jobs[t].at \notin {"renaming", "publishing"}
    /\ \A i \in 1 .. Len(commands) : commands[i] = OtherCommand

\* Once every reload has been taken, the main loop runs what the file says, if
\* no reload was dropped and no two writers ran at once.  (settings.rs, apply,
\* publish.)
RunsTheFile == Quiet /\ ~raced /\ ~dropped => running = Merge(local.table)

\* A display setting that nobody confirmed has a countdown that puts back the
\* one last confirmed, however many changes were made on top of each other,
\* superseded, reset or confirmed in between: unless the daemon forgot its undo
\* in a restart, or failed to write it.  (settings.rs, snapshot_keys, arm,
\* confirm, revert.)
ChangesAreCovered ==
    Busy = {} /\ ~raced =>
      \A k \in ConfirmKeys \ abandoned :
        IF pending # NoCountdown /\ k \in DOMAIN pending.undo
        THEN pending.undo[k] = kept[k]
        ELSE local.table[k] = kept[k]

\* A display setting that nobody confirms does not stay: it is confirmed, or the
\* override last confirmed comes back, whatever requests, confirmations of other
\* countdowns and failing writes of theirs there are meanwhile.  It does stay when
\* the revert itself cannot be written, which is logged and not tried again, or
\* the daemon restarts before it.  (mod.rs, spawn_countdown; settings.rs, revert.)
Kept == \A k \in ConfirmKeys \ abandoned : local.table[k] = kept[k]
UnconfirmedIsUndone == ~Kept ~> (Kept \/ raced)
====
