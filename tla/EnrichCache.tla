---- MODULE EnrichCache ----
(***************************************************************************)
(* The artwork cache (crates/artd/src/enrich/cache.rs): files named by     *)
(* what they hold, an index in SQLite, a task of the pipeline for each     *)
(* album at most, and a sweeper that evicts and tidies up while they work. *)
(* A step is one locked use of the index or one call that changes a file.  *)
(*                                                                         *)
(* A picture is its own name.  A power cut may take back index writes and  *)
(* spoil files.  SQLite, the file system and the catalogues are external;  *)
(* the negative entries are in Enrichment.                                 *)
(***************************************************************************)
EXTENDS Naturals, FiniteSets, Functions

CONSTANTS
    Keys,      \* album keys
    Images,    \* pictures
    Size,      \* bytes of each picture
    Found,     \* the pictures that a catalogue may have for each key
    MaxBytes,  \* cache.max_bytes
    None,      \* no row, no entry, no answer
    MaxTime,   \* bound of the model: the clock
    MaxCuts    \* bound of the model: power cuts

ASSUME SizeAssumption == Size \in [Images -> Nat \ {0}]
ASSUME FoundAssumption == Found \in [Keys -> SUBSET Images]
ASSUME NoneAssumption == None \notin Images \cup [image : Images, used : Nat]
ASSUME LimitsAssumption == {MaxBytes, MaxTime, MaxCuts} \subseteq Nat

VARIABLES
    clock,      \* unix_now
    rows,       \* the table art
    files,      \* <sha256>.jpg
    parts,      \* the pictures of which there is a <sha256>.part
    jobs,       \* the tasks of the pipeline
    sweeper,
    cuts,
    past,       \* history: the pictures stored under each key
    answer,     \* history: what the last get returned
    alone       \* history: no task has changed anything since the sweep began

storage == <<files, parts>>
ghosts == <<past, answer, alone>>
cacheVars == <<clock, rows, storage, jobs, sweeper, cuts, ghosts>>

Row == [image : Images, used : Nat]
Idle == [at |-> "idle"]
Resting == [at |-> "resting"]

CacheInit ==
    /\ clock = 0
    /\ rows = [k \in Keys |-> None]
    /\ files = [i \in Images |-> "absent"] /\ parts = {}
    /\ jobs = [k \in Keys |-> Idle]
    /\ sweeper = Resting
    /\ cuts = 0
    /\ past = [k \in Keys |-> {}] /\ answer = None /\ alone = TRUE

Stored(index_) == {k \in Keys : index_[k] # None}

\* total_bytes
TotalBytes == SumFunction([k \in Stored(rows) |-> Size[rows[k].image]])

Goes(k, job) == jobs' = [jobs EXCEPT ![k] = job]
Without(k) == [rows EXCEPT ![k] = None]

\* Everything a task does disturbs a sweep, except reading.
Disturbs == alone' = (sweeper = Resting)
Leaves == UNCHANGED alone

----
(* Cache::get *)

\* The row is read under the lock, the file after it.
LookUp(k) ==
    /\ jobs[k] = Idle
    /\ Goes(k, IF rows[k] = None THEN [at |-> "missing"]
               ELSE [at |-> "reading", image |-> rows[k].image])
    /\ answer' = None
    /\ Leaves
    /\ UNCHANGED <<clock, rows, storage, sweeper, cuts, past>>

\* Mutant: whatever file is there is the picture.
AnyFile(image) == files[image] # "absent"

\* The length and the hash of the bytes read must be those of the row.
Verified(image) == files[image] = "whole"

ReadFile(k) ==
    /\ jobs[k].at = "reading"
    /\ IF Verified(jobs[k].image)
       THEN /\ Goes(k, [at |-> "touching"])
            /\ answer' = [key |-> k, image |-> IF files[jobs[k].image] = "whole"
                                               THEN jobs[k].image ELSE "half"]
       ELSE Goes(k, [at |-> "forgetting"]) /\ answer' = None
    /\ Leaves
    /\ UNCHANGED <<clock, rows, storage, sweeper, cuts, past>>

\* UPDATE of last_access: no effect if the row has been evicted.
Touch(k) ==
    /\ jobs[k].at = "touching"
    /\ rows' = IF rows[k] = None THEN rows ELSE [rows EXCEPT ![k].used = clock]
    /\ Goes(k, Idle)
    /\ answer' = None
    /\ Disturbs
    /\ UNCHANGED <<clock, storage, sweeper, cuts, past>>

\* A row without its file is dropped.
ForgetRow(k) ==
    /\ jobs[k].at = "forgetting"
    /\ rows' = Without(k)
    /\ Goes(k, [at |-> "missing"])
    /\ answer' = None
    /\ Disturbs
    /\ UNCHANGED <<clock, storage, sweeper, cuts, past>>

----
(* Inner::run after a miss *)

\* The catalogues have a picture, or the task ends.
Ask(k) ==
    /\ jobs[k].at = "missing"
    /\ \/ \E image \in Found[k] : Goes(k, [at |-> "writing", image |-> image])
       \/ Goes(k, Idle)
    /\ answer' = None
    /\ Leaves
    /\ UNCHANGED <<clock, rows, storage, sweeper, cuts, past>>

----
(* Cache::put *)

WritePart(k) ==
    /\ jobs[k].at = "writing"
    /\ parts' = parts \cup {jobs[k].image}
    /\ Goes(k, [at |-> "renaming", image |-> jobs[k].image])
    /\ answer' = None
    /\ Disturbs
    /\ UNCHANGED <<clock, rows, files, sweeper, cuts, past>>

\* The rename fails if the sweeper, or a task with the same picture, got there first.
RenamePart(k) ==
    /\ jobs[k].at = "renaming"
    /\ LET image == jobs[k].image
       IN IF image \in parts
          THEN /\ files' = [files EXCEPT ![image] = "whole"]
               /\ parts' = parts \ {image}
               /\ Goes(k, [at |-> "inserting", image |-> image])
          ELSE Goes(k, Idle) /\ UNCHANGED storage
    /\ answer' = None
    /\ Disturbs
    /\ UNCHANGED <<clock, rows, sweeper, cuts, past>>

InsertRow(k) ==
    /\ jobs[k].at = "inserting"
    /\ rows' = [rows EXCEPT ![k] = [image |-> jobs[k].image, used |-> clock]]
    /\ past' = [past EXCEPT ![k] = @ \cup {jobs[k].image}]
    /\ Goes(k, Idle)
    /\ answer' = None
    /\ Disturbs
    /\ UNCHANGED <<clock, storage, sweeper, cuts>>

----
(* Cache::sweep *)

Sweeps(to) == sweeper' = to
Sweeping == answer' = None /\ UNCHANGED <<clock, jobs, cuts, past>>

BeginSweep ==
    /\ sweeper = Resting
    /\ Sweeps([at |-> "measuring"])
    /\ alone' = (\A k \in Keys : jobs[k] = Idle)
    /\ Sweeping /\ UNCHANGED <<rows, files, parts>>

Measure ==
    /\ sweeper.at = "measuring"
    /\ Sweeps(IF TotalBytes > MaxBytes
              THEN [at |-> "listing", total |-> TotalBytes] ELSE [at |-> "indexing"])
    /\ Sweeping /\ Leaves /\ UNCHANGED <<rows, files, parts>>

\* The victims are listed once, and the rows may change under the list: it is not
\* asked again before a victim goes.
List ==
    /\ sweeper.at = "listing"
    /\ Sweeps([at |-> "evicting", total |-> sweeper.total, victims |-> rows])
    /\ Sweeping /\ Leaves /\ UNCHANGED <<rows, files, parts>>

\* Mutant: ORDER BY last_access DESC.
LastUsed(victims) ==
    {k \in Stored(victims) : \A j \in Stored(victims) : victims[j].used <= victims[k].used}

\* ORDER BY last_access ASC, in any order within a second.
FirstUsed(victims) ==
    {k \in Stored(victims) : \A j \in Stored(victims) : victims[k].used <= victims[j].used}

\* The file of a victim goes before its row, whoever else it belongs to.
EvictFile ==
    /\ sweeper.at = "evicting"
    /\ IF sweeper.total <= MaxBytes \/ Stored(sweeper.victims) = {}
       THEN Sweeps([at |-> "indexing"]) /\ UNCHANGED files
       ELSE \E k \in FirstUsed(sweeper.victims) :
              /\ files' = [files EXCEPT ![sweeper.victims[k].image] = "absent"]
              /\ Sweeps([at |-> "dropping", total |-> sweeper.total,
                         victims |-> sweeper.victims, key |-> k])
    /\ Sweeping /\ Leaves /\ UNCHANGED <<rows, parts>>

Less(total, bytes) == IF bytes > total THEN 0 ELSE total - bytes

EvictRow ==
    /\ sweeper.at = "dropping"
    /\ rows' = Without(sweeper.key)
    /\ Sweeps([at |-> "evicting",
               total |-> Less(sweeper.total, Size[sweeper.victims[sweeper.key].image]),
               victims |-> [sweeper.victims EXCEPT ![sweeper.key] = None]])
    /\ Sweeping /\ Leaves /\ UNCHANGED <<files, parts>>

\* remove_unreferenced_files: the names in the index, then the directory.
ReadIndex ==
    /\ sweeper.at = "indexing"
    /\ Sweeps([at |-> "tidying", left |-> Images,
               known |-> {rows[k].image : k \in Stored(rows)}])
    /\ Sweeping /\ Leaves /\ UNCHANGED <<rows, files, parts>>

\* Mutant: .part files are left to their writers.
TidyPictures(image) ==
    /\ files' = IF image \in sweeper.known THEN files ELSE [files EXCEPT ![image] = "absent"]
    /\ UNCHANGED parts

Tidy(image) ==
    /\ files' = IF image \in sweeper.known THEN files ELSE [files EXCEPT ![image] = "absent"]
    /\ parts' = parts \ {image}

TidyUp ==
    /\ sweeper.at = "tidying" /\ sweeper.left # {}
    /\ \E image \in sweeper.left :
         /\ Tidy(image)
         /\ Sweeps([sweeper EXCEPT !.left = @ \ {image}])
    /\ Sweeping /\ Leaves /\ UNCHANGED <<rows>>

Swept == sweeper.at = "tidying" /\ sweeper.left = {}

EndSweep ==
    /\ Swept
    /\ Sweeps(Resting)
    /\ alone' = TRUE
    /\ Sweeping /\ UNCHANGED <<rows, files, parts>>

----
(* The clock, the disk and the power *)

Tick ==
    /\ clock < MaxTime
    /\ clock' = clock + 1
    /\ answer' = None
    /\ UNCHANGED <<rows, storage, jobs, sweeper, cuts, past, alone>>

\* The index may lose its last writes and so hold older rows again, and the card
\* may spoil any file.
PowerCut ==
    /\ cuts < MaxCuts
    /\ cuts' = cuts + 1
    /\ \E older \in [Keys -> {None} \cup [image : Images, used : {0}]] :
         /\ \A k \in Keys : older[k] # None => older[k].image \in past[k]
         /\ rows' \in {rows, older}
    /\ \E spoilt \in SUBSET {i \in Images : files[i] # "absent"} :
         \E become \in {"absent", "torn"} :
           files' = [i \in Images |-> IF i \in spoilt THEN become ELSE files[i]]
    /\ jobs' = [k \in Keys |-> Idle] /\ sweeper' = Resting
    /\ answer' = None /\ alone' = TRUE
    /\ UNCHANGED <<clock, parts, past>>

Task(k) ==
    \/ LookUp(k) \/ ReadFile(k) \/ Touch(k) \/ ForgetRow(k)
    \/ Ask(k) \/ WritePart(k) \/ RenamePart(k) \/ InsertRow(k)

Sweep ==
    \/ BeginSweep \/ Measure \/ List \/ EvictFile \/ EvictRow
    \/ ReadIndex \/ TidyUp \/ EndSweep

CacheNext == (\E k \in Keys : Task(k)) \/ Sweep \/ Tick \/ PowerCut

CacheSpec == CacheInit /\ [][CacheNext]_cacheVars

----
(* Properties *)

Tasks == {Idle} \cup [at : {"missing", "touching", "forgetting"}]
               \cup [at : {"reading", "writing", "renaming", "inserting"}, image : Images]
Victims == [Keys -> Row \cup {None}]
Sweepers == {Resting} \cup [at : {"measuring", "indexing"}]
              \cup [at : {"listing"}, total : Nat]
              \cup [at : {"evicting"}, total : Nat, victims : Victims]
              \cup [at : {"dropping"}, total : Nat, victims : Victims, key : Keys]
              \cup [at : {"tidying"}, left : SUBSET Images, known : SUBSET Images]

\* Types of the index, of the files, of the tasks and of the sweeper.  (cache.rs.)
CacheTypeOK ==
    /\ clock \in Nat /\ alone \in BOOLEAN
    /\ rows \in Victims
    /\ files \in [Images -> {"absent", "whole", "torn"}] /\ parts \subseteq Images
    /\ jobs \in [Keys -> Tasks]
    /\ sweeper \in Sweepers
    /\ past \in [Keys -> SUBSET Images]

\* Between looking a row up and answering, a task still holds what it read.
Held == [k \in Keys |-> CASE jobs[k].at = "reading" -> jobs[k].image
                          [] jobs[k].at # "reading" /\ rows[k] # None -> rows[k].image
                          [] OTHER -> None]

Promise == INSTANCE ForgetfulStore WITH latest <- Held

\* A lookup answers with the picture stored last under that key, whole, or with
\* none: evictions, sweeps, pictures shared by two albums and power cuts in
\* between never make it answer anything else.  (cache.rs, get, put.)
KeepsItsPromise == Promise!StoreSpec

\* An album whose row is not the one on the list of victims any more.
UsedSince(k) == rows[k] # sweeper.victims[k]

\* Of all that is stored when a picture is evicted, none was last used before the
\* use that picture had when the victims were listed, however much was stored,
\* looked at or forgotten since: what goes is the least recently used, unless it
\* was itself looked at or stored anew after the list was made.  Then it goes all
\* the same.  (cache.rs, sweep.)
VictimsGoInOrder ==
    [][\A k \in Keys :
         sweeper.at = "dropping" /\ sweeper.key = k /\ sweeper'.at = "evicting" =>
           \A j \in Stored(rows) \ {k} :
             /\ sweeper.victims[k].used <= rows[j].used
             /\ UsedSince(k) \/ rows[k].used <= rows[j].used]_cacheVars

\* A sweep during which no task changes anything leaves the cache within its
\* limit, with no part file and no picture the index does not know.  (cache.rs,
\* sweep, remove_unreferenced_files.)
SweptClean ==
    Swept /\ alone =>
      /\ TotalBytes <= MaxBytes
      /\ parts = {}
      /\ \A i \in Images : files[i] # "absent" => \E k \in Stored(rows) : rows[k].image = i
====
