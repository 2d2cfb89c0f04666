# A TLA+ model of AudioView

AudioView turns a small computer with a screen into an album-cover display for
AirPlay. `shairport-sync` writes metadata to a pipe; the daemon `artd` reads it,
keeps the state of the session, stages the covers, looks for sharper ones,
switches an amplifier and publishes snapshots; `lprender` follows the snapshots
and draws; a web interface in `artd` changes settings. These modules model the
parts of that program in which order, time and failure matter, and the
computations whose corner cases decide what is shown; TLC checks them on small
instances, and TLAPS proves most of the safety properties for every instance. Names in the modules are
the names in the code where TLA+ allows it. `PROJECT.json` maps each definition to
the lines it stands for.

    tlc -config SessionPower.cfg MCSessionPower        one run
    tlapm MachineProofs.tla                            its proofs

## 1. The system

| Component | State it keeps | Operations | Where |
|---|---|---|---|
| Metadata parser and pipe | a buffer, a position and a hint | feed, next item, compaction, end of file | `spmeta/src/parser.rs`, `artd/src/pipe.rs` |
| Session and power policy | playback, session, three power-down deadlines, two overrides, amplifier and panel wishes; the track, its progress, the volume | one handler per metadata event, end of pipe, parse error, tick, two overrides, reload | `spmeta/src/event.rs`, `artd/src/machine.rs` |
| Main loop | the machine, the art store, the enricher, the hub | wait for input, command, report or deadline; perform effects; shutdown | `artd/src/main.rs`, `runtime.rs` |
| Snapshot publication | sequence number, current state, broadcast channel of 64 | publish, subscribe, current message | `artd/src/hub.rs` |
| Socket and event stream | one task and one place in the channel per client | greet, relay, catch up after a lag, commands | `artd/src/ipc.rs`, `web/mod.rs` |
| Artwork staging | the files written, the next number | store, collect, clear, wipe at start | `artd/src/artwork.rs` |
| Renderer source | last snapshot, self-pipe, last revision handled; or the position in a list of files | reader thread, `poll`; next slide | `lprender/src/source/` |
| Renderer application | pending decode, images, scene with two ramps, display power | update, admit, draw, blank, sleep | `lprender/src/app.rs`, `scene.rs`, `decode.rs`, `main.rs` |
| Display and GPU | CRTC, plane, mode, queued flip, two buffers, textures | open, present, wait for the flip, blank, poll the connector | `lprender/src/backend/drm.rs`, `gl/mod.rs` |
| Amplifier trigger | the line, the worker's idea of it, time of the last change | set, drop; the worker's sleep and pulse | `artd/src/gpio.rs` |
| Enrichment | current album, keys in flight, two workers, a bucket per catalogue | consider, job with retries, gates, report, accept | `artd/src/enrich/` |
| Enrichment cache | rows, files, negative entries | get, put, sweep | `artd/src/enrich/cache.rs` |
| Settings | the override file, its scratch copy, the reload queue, one countdown | edit, publish, confirm, revert | `artd/src/web/settings.rs`, `lpframe-config/src/write.rs` |
| Web sessions | tokens, attempt windows, verification slots | login, logout, check | `artd/src/web/auth.rs` |
| Configuration | two files merged into one | load, validate, write out; passphrase and address at the start | `lpframe-config/src/`, `artd/src/web/mod.rs` |
| Image analysis | none | shrink, hash, histogram, compare, palette | `lpframe-image/src/`, `artd/src/enrich/gate.rs` |
| Tools, provisioning, discovery | none that outlives a call | | see `PROJECT.json` |

**How they interact.** The pipe reader is a thread that sends parsed events into
a channel. The main loop takes an event, a command (from a socket task or a web
handler), an enrichment report, or the deadline it sleeps on, runs the machine,
and performs the effects in order: store or forget a cover, order the amplifier,
publish. Publishing records the snapshot under a mutex and then broadcasts it.
Each connection is a task that subscribes, greets and relays. `lprender` has a
reader thread that keeps the last snapshot only and writes a byte to a pipe, a
decode thread, and a loop that sleeps on that pipe, looks at the snapshot, asks
for the file it names to be decoded, admits what has been decoded, draws, and
waits for the kernel to flip. The amplifier worker is a thread with a channel,
because it sleeps. Web handlers run on threads of their own and share the
override file, the table of attempts and the list of sessions. Enrichment jobs
are tasks that share the cache with a sweeper.

**What is hard.** Every timer of the policy is a number compared with a clock, and
the loop sleeps on the least of them: a missed one is a panel lit for an hour, a
stale one is a busy loop. Late wake-ups, commands and reloads meet those timers
in any order. Between publication and screen there are five buffers and four
threads, each of which may lose, delay or repeat; both processes restart on
their own, and the connector may be pulled. Files named by snapshots are unlinked
by later pictures. The worker sleeps while orders pile up. Requests edit one file
at once, and a countdown undoes what a request did. A sweep deletes files by an
index it read before. Bytes arrive in pieces that end anywhere. Titles are
written in many ways. `PROJECT.json` lists these under "hazards", each at its line
with the property that would catch it.

**What makes each part correct**

* Parser: what was written whole is delivered once, in order, and nothing else; the
  buffer is bounded. Machine: a track is made of the fields of one bundle.
* Policy: whatever is powered in idle has a deadline or was forced by hand; no
  deadline during a session; the loop sleeps on a deadline that accounts for
  everything time can do; silence ends dark.
* Publication: a follower with nothing left to read has the current snapshot,
  whatever was lost; it never sees a state that was not published.
* Covers: a published path is there; a sleeping loop has nothing left to decide;
  the renderer at rest does not show another cover.
* Renderer: asleep, no ramp runs, and none was begun without a frame since; the image
  sent last wins; a buffer the kernel reads is not drawn into; dark when it should be.
* Amplifier: it is where the last order wants it; it does not chatter; it is off
  after a stop.
* Enrichment: an album is searched once at a time; a miss is remembered and not
  asked again; what goes up is of the album that plays, sharper, and recognised by
  its text and by the eye; servers are not asked faster than agreed.
* Cache: a lookup answers with what was stored last under that key or with nothing;
  pictures go in the order of their use when the sweep listed them; a sweep leaves
  nothing behind.
* Settings: the file can always be started from; an unconfirmed change is undone and
  a confirmed one is not; the main loop runs what the file says.
* Web sessions: tries and slots of logins are bounded; a token works for as long as it
  was promised and no longer.
* Configuration: what is accepted can be started and means what was written.

## 2. The modules

| Module | Models | Built on |
|---|---|---|
| `SessionPower` | the machine and the loop's wake-ups | |
| `SnapshotStream` | what publication promises a follower, abstractly | |
| `SnapshotFeed` | hub, channel, connections, clients, restarts | implements `SnapshotStream` |
| `SnapshotFeedProofs` | its theorems, and that it implements the stream | `SnapshotFeed`, `TLAPS` |
| `ArtPipeline` | art store, revisions, reader, self-pipe, poll | `SnapshotStream` |
| `RenderLoop` | decode thread, application, scene, the loop, flips, hotplug | |
| `RenderLoopProofs` | its theorems | `RenderLoop`, `TLAPS` |
| `GpioAmp` | the main loop's orders, the worker, the line, the amplifier | |
| `MachineProofs` | theorems of the policy, of the amplifier and of the art pipeline | `SessionPower`, `GpioAmp`, `ArtPipeline`, `TLAPS` |
| `Enrichment` | consideration, the keys in flight, the tasks, cache and misses, reports | |
| `EnrichmentProofs` | its theorems | `Enrichment`, `TLAPS` |
| `ForgetfulStore` | what the cache promises, abstractly | |
| `EnrichCache` | index, files, tasks and the sweeper, power cuts | implements `ForgetfulStore` |
| `EnrichCacheProofs` | its theorems, and that it implements the store | `EnrichCache`, `TLAPS` |
| `Settings` | handlers, the file and its scratch copy, the command channel, the countdown | |
| `WebSessions` | attempts, slots, sessions | |
| `WebProofs` | theorems of settings and of sessions | `Settings`, `WebSessions`, `TLAPS` |
| `MetadataPipe` | the FIFO, its writer, the reader, the scanner | |
| `PipeProofs` | its theorems | `MetadataPipe`, `TLAPS` |
| `Algorithms` | one small machine that tries the parts below on their inputs | the parts below |
| `AlgorithmsProofs` | theorems of the rate limiter, the track, the search and the configuration | `Algorithms`, `TLAPS` |
| `NowPlaying` | items to track, progress and volume | |
| `Matching` | the text gate and the choice of a record | |
| `Lookup` | one search: sources, attempts, sizes, errors, gates, misses | `Matching` |
| `TokenBucket` | the rate limiter | |
| `ImageAnalysis` | shrinking, hash, histogram, the perceptual gate, the palette | |
| `Scanout` | connector, mode, CRTC, plane and format of a display | |
| `Layout` | where the cover goes on the panel | |
| `Configuration` | merging, reading, validating and writing out; the start of the web interface | |
| `MC*` | small instances for TLC | the module of that name |

### SessionPower

`m` is the machine, `cfg` its configuration. Every input in the code runs three
stages: the event's own assignments, `evaluate_timers`, `apply_power`. They are
operators on the record, composed by `Settle`; an action is one call of
`Machine::apply` (`OnMeta`, `PipeEof`, `ParseError`, `Tick`), one override, or one
reload, whole. `Heard` is the refresh of the activity stamp that most events make.

Time is relative. The code stores deadlines in milliseconds since start and
compares them with now; the model stores what is left of them, and the age of the
two "since" stamps up to `Horizon`, an upper bound of the configured delays beyond
which no comparison can change. So time is unbounded and the state space finite.
`Advance` lets time pass whether or not the loop has caught up, so a wake-up may
be late by any amount. `Tick` is enabled only when the loop could wake: a deadline
is due, or there is none and the hour's timeout may end. A reload brings any of
the validated configurations at any time; a restart forgets everything.

### SnapshotStream and SnapshotFeed

`SnapshotStream` gives each follower a stream of states it has yet to be told. The
stream may lose and repeat, never invents, and its last state is the current one.
That is what the comments in `hub.rs` and `DESIGN.md` rely on when they say that
every message is a full snapshot.

`SnapshotFeed` has the code's steps: `Record` and `Broadcast` are the two halves of
`Hub::publish`, between which connections may be accepted; the channel is a queue
per subscriber from which the oldest falls, with the notice of a lag that comes
before the next message; a task blocks when its connection holds `WireCap`
messages; a client leaves, or restarts; `artd` restarts, which empties the channel
and leaves the bytes already sent to be read. The refinement mapping reads the
abstract stream off the buffers in the order their content will arrive: the wire,
the greeting if it is due, the queue, the message being sent.

### ArtPipeline

Uses the abstract stream for the transport, so that it need not repeat the
buffers. Actions are `Picture` (store, collect, `set_artwork`, publish, in one
step of the main loop), `StoreFails` (which may leave the scratch file in the directory:
`scratch`, of which `MaxSpoilt` bounds the number), `PictureCleared`, `Republish` for every other
publication; `TakeSnapshot` and `Signal` of the reader; `Drain`, the three
decisions and `Show` of `poll`, split where the lock is taken and released; and
restarts of either process. `chosen` and `missed` are histories: the artwork `poll` decided on
last, and that its file was gone when it looked. The path in a snapshot is `[number, image]`, since the
file's name has the number and a digest.

### GpioAmp

`Set` is the effect the machine emits; `queue` the channel; the worker waits out the
debounce interval, holds a level or makes a pulse, and records the result. The
amplifier is external: it follows the line, or toggles on a closing contact. `astray`
remembers that a crash left a toggling amplifier on, which the documentation
accepts and the properties exclude. `Shutdown` is `Core::shutdown` and the drop.

### Enrichment

`Bundle`, `PictureArrives` and `PictureCleared` are inputs of the main loop, each
with the `consider_enrichment` that ends it, and with the spawn of a task when
`consider` accepts. A task is a record that says where it waits: `queued` for a
worker's permit, `checking` before an attempt (the back-off and the bucket are waits
of any length), `asking` a catalogue, `sending` into the bounded channel. The code
between two awaits is one action: `Start` (permit, current album, cache), `Check` (the
staleness check), `Answer` (outcome of the request, gates, note or put), `Send` (the
report, and the end of the task, which gives back permit and key). `TakeReport` is
`handle_enrichment`. `Lose` and `Expire` are what sweeps and time take from the cache.

The catalogue, the gates on titles and likeness, and errors are a choice among the
outcomes they can have; the size gate is arithmetic and is kept, because the
comparison with the cache's is what `UpgradesAreSharper` is about. The cache is
modelled by its rows; a picture whose dimensions are unknown is left out. The
constant `Slots` bounds the tasks alive at once: a key in flight is unique, so
there are never more than albums.

### RenderLoop

One iteration of the present loop is the sequence of its `pc`: `update` (the source
is polled, and what it says becomes a request, a clear or a power), `admit` (at
most one batch of decoded images enters the scene and the GPU), `decide` (the frame is
computed from the clock, and the panel is blanked, drawn or left), `flip` (wait for
the kernel for at most two seconds), `probe` (the connector), `asleep`. The
source is `artd`, reduced to what `ArtdSource::poll` can return, or the slide show;
`live` tells which. The decode thread is `Decode`. A ramp is what is left of it and its
length, so time is relative; `Advance` passes it whenever the loop waits or works.
The kernel's side is external: `FlipDone` happens at any time after a flip was queued,
and `Hotplug` changes the panel. `scanned` says what the kernel reads relative to the
two buffers the process believes in. Three histories: `late`, a flip timed out;
`undrawn`, the scene changed without a ramp, for which no frame is due; `begun`, a ramp
began and no frame has been drawn since. Cross-fades may be zero. `Restart` loses everything but the panel.

### Settings

A handler's request is a walk through the points at which another thread can
interfere: read the file, compute and validate the merged table, open the scratch
file (whose name is the same for the whole process), write, rename, publish, arm or
extend the countdown. `Fire` is the thread that sleeps out a countdown; it reverts by
the same walk. `Reload` waits in a channel that may be full; `TakeCommand` is the main
loop. `RestartDaemon` loses the countdown and starts from the file. A write may fail
at its open, write or rename. `kept` remembers, for a display setting, the value last
confirmed; `abandoned` the settings whose undo was lost, because the daemon restarted or
the revert could not be written; `raced` that two writers had the scratch file open at once, `dropped` that a
reload was not sent.

### WebSessions

A login is an attempt, the wait for a slot, a verification, and an issue; each is a
locked section of the code. The client may hang up at any of them (`HangUp`): the handler
is dropped with its slot, and a verification it started goes on by itself (`orphans`,
`OrphanEnds`). The clock is absolute and bounded, because entries age.
A try is `[time, nth]`, so that two of one moment are two; a session is a token, in the
order of issue, and its expiry.
`accepted` and `issued` are histories: every try that was let through since the last
success, and every token with its expiry and its logout.

### EnrichCache

A step is one locked use of the index or one call on a file. `jobs` are tasks by album,
since the pipeline admits one at a time: look-up, reading and verifying the file,
touching or forgetting the row, then (after an answer from a catalogue) the part file,
the rename, the row. `sweeper` walks through its own steps: measure, list by use, evict
file then row until the sum fits, then read the index and remove what it does not
know. `PowerCut` takes back writes of the index that were not yet durable and spoils
files. The refinement maps the abstract memory of one picture per key to what a
task already read, or else to the row.

### MetadataPipe

`NextItem` is `Parser::next_item` whole: search for the opening tag, an attempt at the
item from there, waiting with the hint where to go on, skipping what does not parse,
giving up an item that outgrows the buffer. `Read` is a read and `feed`, with the
compaction before it; `ReadEof` a new decoder after the writer went. Frames are whole,
cut short, or have rubbish in the place of a field or of base64; a symbol stands for a
few bytes, so every tag can be split. `owed` is what was written whole and not yet
delivered.

### Algorithms and its parts

These parts wait for nobody. Each is a set of operators, with what is promised of it
in its last section, stated from the other end: of the whole history of items, not
of the fold over them; of how releases are written, not of how titles are
stripped; of windows of time, not of a balance of tokens. `Algorithms` builds inputs,
longer and longer for the two parts that are folds, and TLC evaluates the promises
on each of them.

* `NowPlaying`: decoding of fields, the pending bundle, commits, identities, clears at
  the end of a session. A text that is blank once trimmed is none.
* `Matching`: characters, brackets, editions, numbers and Roman numerals, and the
  Jaro-Winkler score, in whole ten-thousandths. The alphabet is the letters the
  inputs need.
* `Lookup`: which errors are retried, how often, which sizes are asked for, what the
  gates say, and when a miss may be noted. An attempt may find that the album is no
  longer current, and the picture received need not have the size asked for.
* `TokenBucket`: tokens in units of the time that earns them, so exact.
* `ImageAnalysis`: opaque grey pictures, in integers. Levels are averaged in linear light
  and compared and binned in OKLab lightness, through tables of the two curves
  (`Linear`, `Lightness`). The spans of the averages, the comparisons of the hash, the
  two bins of a lightness, the cosine in
  squares, and k-means with its seeds and its empty clusters are those of the code;
  the sizes (32, 9 by 8, 12 bits) are constants.
* `Scanout`, `Layout`: the choices `Card::open` makes of one card and `Display::open`
  of what it has, and the rectangles, in exact
  fractions of hundredths of a pixel.
* `Configuration`: files as functions from paths to leaves of several kinds; durations
  and sizes with their units and their overflow.

## 3. The runs

| Run | Instance | Shows |
|---|---|---|
| `session_power` | four configurations in which every timer can be first, `Horizon` 4; 4,904 states | the loop never sleeps past a change (`NeverSleepsThroughAChange`); deadlines belong to idle, and idle power has one (`DeadlinesFollowTheSession`); the amplifier is released by time alone after the full delay (`AmpReleasedOnlyAfterTheDelay`); silence ends in the dark (`SilenceEndsInTheDark`) |
| `snapshot_feed` | one socket follower, channel 2, wire 2, five publications; 21,399 states | the feed implements `SnapshotStream` (`FeedIsAStream`), and a follower that stays ends up current (`FollowersCatchUp`) |
| `art_pipeline` | two images, a window of two files, four written, one failed write; 1,621,880 states | a published path is lost to resends only (`PathLostOnlyToResends`); a sleeping renderer has nothing to decide (`NeverSleepsOnNews`) and settles (`RendererSettles`) |
| `stale_cover` | the same with a snapshot waiting behind another; ends with a counterexample | `NoWrongCoverAtRest` does **not** hold, see section 4 |
| `render_loop` | two covers, two slides, ramps of 1 and 2, one hotplug; 2,578,392 states | asleep, the panel is lit or dark as the scene wants it, and no ramp runs or was begun without a frame (`AsleepIsSettled`); what the kernel scans and the scene shows is held (`PicturesAreHeld`); the last image sent wins (`LastShowWins`); rest shows the cover (`RestShowsCover`); dark in the end (`DarkInTheEnd`) |
| `gpio_amp` | level and pulse modes, debounce 2, three orders queued; 1,146 states | `AmpObeys`, `StoppedMeansOff`, `NoChatter`, `OrdersEnd` |
| `enrichment` | two albums, two tasks for one or two workers, two catalogues, two attempts; 980,106 states | `OneSearchPerAlbum`, `NoRequestAfterAMiss`, `UpgradesAreSharper`, `UpgradeFitsTheTrack`, `FlightsLand` |
| `enrich_cache` | two keys, two pictures, room for one, one power cut; 589,083 states | the cache implements `ForgetfulStore` (`KeepsItsPromise`), evicts in the order of use it listed (`VictimsGoInOrder`), and is tidy after an undisturbed sweep (`SweptClean`) |
| `settings` | two handlers and the countdowns, two keys, three requests, one fault; 1,400,132 states | `AlwaysStarts`, `RunsTheFile`, `ChangesAreCovered`, `UnconfirmedIsUndone` |
| `web_sessions` | two requests at once from three addresses, a table for two, two tries a window, one orphan; 3,108,627 states up to symmetry | `AttemptsAreBounded`, `SessionsLast` |
| `metadata_pipe` | three frames, pieces of 1, 3 and 7 symbols, a buffer of 31; 1,374,043 states | whole items come out once and in order (`WholeItemsSurvive`), the buffer is bounded (`BufferIsBounded`) |
| `algorithms` | every input of `MCAlgorithms`; 548,896 states | `TracksAreWhole`, `RatesAreKept`, `RecordsAreRecognised`, `LookupsAreFair`, `PicturesFit`, `ConfigurationHolds` |

**Bounds.** `Horizon` 4 leaves room for the four configurations to order their delays
differently, with zero and absent ones among them; the theorems below remove the
bound. Every connection in `SnapshotFeed` is independent of the others, so one
follower is enough for what is said of each; three publications in a row overtake a
channel of two, and five allow a second lag while the first is being repaired. A
snapshot is one of two values, so a stale one can look like a current one; the
sequence number tells them apart where the properties ask. In `ArtPipeline` two
images and a window of two suffice for a cover to be replaced, resent, and pushed
out. The run has `Slack` 0, a stream of one snapshot at a time, which is what
the reader sees after it has caught up. One failed write leaves one scratch file
(`MaxSpoilt` 1). `stale_cover` needs `Slack` 1, for it is about a
snapshot that arrives while another waits. In `GpioAmp`, pulses shorter than the
interval and as long as it are the cases the arithmetic distinguishes. In
`Enrichment`, a picture of size 2 can be improved by one of size 4 and a picture of
size 4 cannot; two albums are what a change of track needs, one worker makes one
task wait for the other, and a channel of one makes a report wait for the main
loop. `MaxRevision` bounds the pictures between two clears.

In `RenderLoop` the cross-fade is longer than the other ramps, so that one can end
while the other runs; two covers are one that fades out and one that fades in, and an
upgrade is either again; one hotplug takes the panel away or changes it. `Settings` has
two handlers and the countdown's thread, which is every pair of writers, a key that
needs confirmation and one that can be invalid, a channel of one, and two countdowns
between starts, so that one can supersede another; three requests arm, supersede and
confirm. `WebSessions` has one address more than the table holds, one attempt and one
login more than the limits allow, one verification whose client hung up
(`MaxOrphans` 1), and time for a window and a lifetime to end; its
three addresses are interchangeable, and so are its handlers, which the run uses as
a symmetry (it checks invariants only). `EnrichCache` has room for one of two pictures,
one of which two albums share. `MetadataPipe` has three items in a row, each whole or
damaged in every place, pieces shorter and longer than a tag, and a buffer that takes
any whole item and that three truncated ones outgrow. The inputs of `Algorithms` are listed and explained in
`MCAlgorithms`: eight items end, repeat and interrupt a bundle; five calls overrun a
bucket of two and a pause; two releases are offered in every way of writing them;
pictures are of the bytes 0, 64, 128, 191 and 255, whose light and lightness, and those of
their averages, are tabulated; and so on.

**Deadlock** is checked except where the system may really stop, or where the bounds
of the model stop it: `settings`, `web_sessions` and `metadata_pipe` stop when the bound on
requests, logins, time or frames is reached; `algorithms` ends with each input.

**Fairness.**

* `SessionPower`: time passes, and the loop is scheduled once its sleep is over. The
  sender and the user owe nothing.
* `SnapshotFeed`: the publisher finishes `publish`; each connection's task runs, and
  `lprender`'s reader reconnects for as long as it lives (`reader` loops with a
  bounded back-off). `FollowersCatchUp` assumes only that publications and
  disconnections end.
* `ArtPipeline`: the reader thread runs, and the loop runs while it is awake. A
  sleeping loop is promised to wake only when the pipe holds something, which is
  what makes the liveness property say anything about the pipe: the loop may also
  wake by itself, and the property does not rely on it.
* `RenderLoop`: the loop's thread is scheduled, its waits end after at most two
  seconds (`wait_idle` and `wait_for_flip` have timeouts), and time passes. Sender,
  decoder and kernel owe nothing: `DarkInTheEnd` holds through flips that never come.
* `GpioAmp`: the worker thread runs and time passes.
* `Enrichment`: the main loop takes reports, and every task gets its turn, strongly:
  tokio's semaphore and channel serve those who wait in order, and a request has a
  timeout. The sender, the user and the sweep owe nothing.
* `Settings`: threads proceed, and the sleep of a countdown ends. Browsers owe nothing.

## 4. Where the code and what is said of it disagree

One disagreement is a run that TLC ends with a counterexample:

* **A new cover can be ignored** (`stale_cover`). Revisions start at 1 again after a
  clear or a restart. If the renderer does not see the snapshot without artwork in
  between, a new cover whose revision equals the last one handled is not shown.

The rest are behaviours met while modelling. The modules contain them, and their
properties are worded so as to say what does hold; no run asks for what does not.

*Power, publication, covers and enrichment*

* A reload can blank a panel at once: `set_config` (machine.rs:194) counts the new
  delays from when idle began, the comment above it and `DESIGN.md`:721 say from the
  moment of the change. A panel woken by hand late in an idle period goes dark in
  the reload.
* Audio does not end a false idle: after the watchdog ended a session that still
  plays, `FirstFrame`, `PlayResume` and `Progress` do not wake the device
  (machine.rs:374); `DESIGN.md`:274 says any activity does.
* A browser can miss a snapshot: `api_events` (web/mod.rs:478) reads the current state
  and subscribes after it; a publication in between reaches it by neither. The
  socket does it the other way round, on purpose, and `snapshot_feed` shows that
  its order is right.
* The last image does not stay up: the head of source/artd.rs (:15-18) says that with no
  artwork published nothing is sent and the last image stays on the screen; `poll` answers
  such a snapshot with a clear, and `RendererSettles` demands that.
* A write of a cover that fails, or whose rename does, leaves `.name.tmp` in the directory
  (artwork.rs:60-75), and neither the collection, a clear nor the next start removes it.
  `StoreBounded` counts those files apart.
* A published file can go: each resend of the same image writes a file and counts it
  (artwork.rs:91), and the published path stays the first. `PathLostOnlyToResends`
  shows that this is the only way to lose it.
* The wrong record can go up, and stay: a picture that comes before the bundle of its
  record is still under the track before it, and a late upgrade of that track replaces
  it (runtime.rs:240); nothing then searches for the new album. `UpgradeFitsTheTrack`
  shows what does hold.
* An abandoned search is recorded as a miss: a task that finds its album gone passes
  over every catalogue left as if it had asked (enrich/mod.rs:431-433), and the album is not
  searched again until the negative entry expires. The comment (:405-407) says that a miss is
  remembered because asking again gives the same answer. `LookupsAreFair` counts an album
  that went as an answer.
* The size asked for is not what is received: Apple serves the largest it has
  (catalogue.rs:13-16), and the gate looks at the decoded dimensions. What goes up is the
  first size that a server had of those asked for, in falling order, and larger than what
  is up; that it is the largest the server has is not promised.
* The amplifier can be left on or inverted by a crash: after it, a toggling amplifier is
  where it was while the worker starts at off (gpio.rs). `AmpObeys` excepts it (`astray`).
* Within one search: the candidate with the best sum of scores may fail a gate that
  another would pass; a first source that fails ends the search without the second;
  Apple's ladder asks one address twice when `max_dimension` is 1000 or 600; a 429
  on fetching an image pauses no bucket; a volume number inside an edition bracket is
  stripped with it.
* The cache evicts by a list it made before: a picture looked at since goes all the same,
  though it is now the most recently used (cache.rs:283-296; the comment at :280 says least
  recently used first).
* The palette's "at most grid by grid samples" (color.rs:118) is not a bound: a step is
  rounded down, so a side of 63 gives 63 samples.

*Renderer* (`RenderLoop`, `Scanout`)

* A mode change blanks the artwork, which the comment says it does not (main.rs:280-281): the
  pipeline is opened anew, the textures are lost with their context, and nothing is drawn
  until the next image. The last clauses of `RestShowsCover` are this and the next but one.
* A flip that times out leaves its event to end the wait for the next one, and the
  buffer the kernel still reads is given back (`PicturesAreHeld` excepts it).
* A first cover with nothing before it, and any cover when the cross-fade is zero,
  comes up without a ramp, so no frame is due and it is not drawn until something else
  happens (`undrawn` in `RestShowsCover`; scene.rs:271-273 says the panel keeps showing
  the last frame). A clear with a cross-fade of zero likewise leaves the last cover on a
  panel that stays lit (scene.rs:184). The last frame of a ramp is drawn the same way: never, when
  the ramp has settled by the time the loop looks.
* A decode that ends does not wake the loop, which finds it within two seconds; a
  decode that ends after a clear is presented all the same (app.rs:180-183).
* An upgrade that arrives while a cover fades in loses its short fade; the
  placeholder may leave a texture behind; names of textures that OpenGL hands out
  again can leave a stale blur.
* `Card::open("auto")`, the default, ends the process when no card has a panel (main.rs:255,
  drm.rs:114-128), and so does a connector that is named and connected but has no modes
  (drm.rs:170-176). main.rs:252-254 says that a missing panel is waited for; that is so for a
  card given by name, and for a panel that goes later. `PicturesFit` tells the two apart.

*Settings and sessions* (`Settings`, `WebSessions`)

* Two requests at once can leave the main loop with another configuration than the
  file: writes and publications cross, and nothing brings them together again
  (settings.rs:123-125 says they never disagree). They also share the scratch file
  `.name.tmp.<pid>` (write.rs:13-16), which can leave the file unreadable. `AlwaysStarts`
  and `RunsTheFile` hold of writers that do not overlap (`raced`).
* A restart during a countdown leaves the unconfirmed change in the file, and so does a
  revert that cannot be written: it is logged, and not tried again (web/mod.rs:701-714,
  settings.rs:200-215). Both are `abandoned`, and `UnconfirmedIsUndone` excepts them. A reload
  that finds the channel full is dropped, and the main loop goes on with the configuration
  before it until the next (`dropped`, which `RunsTheFile` excepts). A revert that
  races a request can record what nobody confirmed as the value to go back to. A reset
  takes no account of a countdown. Numbers of countdowns start at 1 with the process.
* `tier` (settings.rs:63) calls everything under `power.amp` and `power.display` live, but
  the amplifier's worker copies pulse and debounce when it opens the line
  (gpio.rs:195, 239), the line is opened only if it was enabled at the start, and the
  renderer reads its fade once.
* A client that hangs up during a login frees its slot while the verification still runs:
  the permit lives in the handler's future (web/mod.rs:378-393), the comment there says
  that it is held across the whole blocking call. So more verifications can run than there are
  slots; `AttemptsAreBounded` counts handlers, and tries.
* When the file with the generated passphrase cannot be written, the hash is stored
  all the same, and a crash between the two leaves a password nobody was told;
  `ConfigurationHolds` says what is told in the logs.

*Parser* (`MetadataPipe`)

* A whole item behind a truncated one, whose data has not ended, waits for the next
  end of data or for the buffer to overflow, and is lost at the end of the file.

## 5. What is proved

For all configurations, delays, capacities and images, under the assumptions on
the constants each module names. A theorem about a run's property states it by name.

* `MachineProofs`, the policy. The safety properties are not inductive. `DeadlinesFollowTheSession`
  and `AmpReleasedOnlyAfterTheDelay` hold because of a fact about all reachable
  machines: in idle, the time already spent plus what is left of the off countdown
  is never below the configured delay (`FullDelay`), and without a countdown the
  amplifier is off unless forced (`AmpHeld`). `Held` collects what every stage of an input preserves,
  `Steady` what holds only after the last stage, `apply_power`. `IInv` is types,
  `Held` and `Steady`. The lemmas follow the stages: each stage preserves `Held`,
  `ApplyPower` establishes `Steady`, so `Settle` re-establishes `IInv` from whatever an
  event's own assignments leave (`InputStep`, `CommandStep`), and time passing preserves
  it (`AdvanceKept`). `SleepTheorem` and `TickTheorem` come from `IInv` and the
  idempotence of `Settle` when nothing is due.
* `MachineProofs`, the amplifier. Between orders the invariant says where the worker is heading and
  what the last order in the channel is: while the loop runs, what it asked for;
  after its end, an order to switch off and then the shutdown, so a shutdown
  finds the worker at off. `Spaced` relates the worker's clock to the amplifier's.
* `SnapshotFeedProofs`. `DrainedMeansCurrent` speaks of one moment; the invariant follows
  the current snapshot on its way: what is being sent is current; once it is in the
  channel it is the last thing every subscriber has to take (`QueueFresh`); once taken,
  the last on the wire or the last received (`WireFresh`). `Orderly` says that nobody who is
  away is kept messages for and that whoever was overtaken has something left, which
  is `LagLeavesTheNewest`. `LocalInv` reduces a step of one connection to that connection.
  `FeedImplementsStream` says which states a follower may still be told and which is the last
  of them, and nothing of their order. It maps every step: a receipt to `Tell`, a restart of a client to
  `Forget`, everything else to `Change`: either a follower's stream stays as it is, as when a
  message passes from one buffer to the next, or it becomes one that still ends in the current
  state and has nothing in it but what it had and what is published (`Flows`).
* `MachineProofs`, the art pipeline. First the stream: its invariants are kept by `Change`, `Tell` and
  `Forget` (`StreamTheorem`). Then `CoverHeld`: the published file is at some place of the
  window with copies of the same image behind it, or the window is full of copies;
  a resend moves that place down by one or out (`ResendHeld`). Scratch files are counted by the
  failed writes that left them, so `StoreBounded` bounds the images and not those. `NothingMissed` extends
  `NeverSleepsOnNews` to the moment between a decision and the file, without which it is not
  inductive.
* `RenderLoopProofs`. What a sleeping loop leaves behind depends on where in the iteration
  each promise is made. `SettledInv` says between which two points of `pc` a scene that moves
  is known to be due for a frame; `ScannedInv` what the kernel reads, with the one
  exception of a flip given up (`late`); `PicturesInv` that the two pictures of the scene
  survive the retain, which keeps two; `QueuesInv` that the youngest picture on its way
  through request, result and batch is the one `artd` sent last (`Newest`), which gives
  `LastShowWins` its meaning while decodes are under way; `ShownInv` when the front buffer
  may differ from the scene's picture, which after a picture came in is as long as its ramp has
  not moved (`Fresh`); that nothing `begun` is left undrawn follows the same way. Lemmas state what each operation of a scene does
  (`ClearFacts`, `PresentFacts`, `FrameFacts`), and one lemma per action uses them. Nothing is
  assumed of the fades but that they are numbers, the fixed fade-in excepted, which is 400 ms.
* `EnrichmentProofs`. All five invariants together with types are inductive once it is
  said that cache and reports hold a picture under its own album (`CacheKeyed`,
  `ReportsKeyed`), which is what makes a late report harmless. `TaskEffect` is all that a
  step of a task may do: end, giving back its own key, or go on with the same key.
  That no two tasks share a key is what keeps a miss noted by one of them from
  falling on another that is already asking (`TaskStepKept`). `UpgradesAreSharper` needs that
  the size gate's half more is more, which holds of sizes that are not zero
  (`SizesAssumption`).
* `EnrichCacheProofs`. The sum of sizes is a fold over a finite set; that taking one key
  out takes its size out is `SumWithout`, shown for any order in which the fold may meet
  the keys. `VictimInv` relates the list a sweep read to the rows as they are now: whatever
  tasks did in between, a row was last used when the list says or later, so no picture on
  the list is evicted before one that was used earlier than it at the time of the list; a picture
  used since then goes when its place in the list comes, and `VictimsGoInOrder` says so. `CleanInv` is how far a sweep has come
  that nobody disturbs. `CacheIsAStore` maps every step to the abstract store: the put of a
  row to a store, evictions, expiries and power cuts to forgetting, everything on files to a stutter.
* `WebProofs`, the settings. The properties except writers that overlapped, and `SettingsInv`
  says what a lone writer can rely on: what it has read is still what is in the file, and
  the scratch file is its own (`Alone`, `OneWriter`); the last reload in the channel, or the
  running configuration, is the file's unless one was dropped (`Reloads`); every display
  setting that differs from the confirmed one, and was not `abandoned`, has an undo that goes
  back to that one, also
  while the request that changes it, or the countdown that takes it back, is half way
  (`CoverInv`); an undo puts back settings that were together in a valid configuration
  (`GoesBack`); no table that fails validation is held anywhere (`AllValid`). A revert passes
  validation because of `ValidationAssumption`: display settings can be changed among valid
  configurations (`validate` in lpframe-config/src/lib.rs:500-575 looks at the rotation by
  itself and not at the mode at all). Without it a revert could be refused and the countdown lost.
* `WebProofs`, the sessions. `AttemptInv`: the table holds, of every address, all it tried in
  the last window, although addresses are swept and the oldest tries fall out; `SlotInv`: free slots
  and handlers that hold one add up, and the verifications whose client hung up run beside them; `ListInv`: the list holds every token that is still good and
  among the last issued, and nothing revoked.
* `AlgorithmsProofs`, the rate limiter. `RatesTheorem` is of every input of calls of every
  length. The fold over the calls is a run of states (`BucketRuns`), each step of which keeps
  the bucket sound. `Balance`: what is in the bucket is a full one, or a full one less
  what was granted and more what was earned over a window that begins at a grant, whichever
  is least; so a token is there exactly when no window holds more than burst and rate allow. `Pauses`: the pause in force is the longest that a 429 asked for. `WaitingPays`: who was
  told to wait may go once that time is over, and not before.
* `AlgorithmsProofs`, the track. `BundleTheorem` is of every sequence of items. The fold
  over them is a run of machines (`IsHistory`, by `FoldExists`, which the bucket uses too). The
  machine is in a session exactly when the history says so (`SessionRuns`), hence both agree on
  which items end one (`EndingsAgree`). The pending bundle is what arrived since the last start
  of one that nothing has ended (`OpenSince`, `Gathered`), and when an end item commits it,
  it becomes both the track and the last of the whole bundles (`TrackIs`, `TrackRuns`).
  `ProgressRuns`: a position on display was told in the stream that plays.
* `AlgorithmsProofs`, the search. `LookupsTheorem` is of any number of sources, of answers
  and of records. The attempts at one source are a run of states again (`SearchRuns`), and
  `SearchSays` is what is known after each of them: all answers but the last were
  transient, and a search that ended with an offer or with nothing has the final answer
  (`SearchedFacts`, `Ended`). Of an offer: no record is better than the one tried (`BestFacts`);
  the sizes are tried in falling order (`SizesFall`), so what is received is what the
  server sends for the largest of them that exists (`FetchFacts`), whatever size that has, also when `max_dimension` lies between two of the fallback
  sizes; what the gates let through is larger and recognised (`JudgedFacts`). Together they say how each
  source may end (`TrySourceFacts`), and an album is missed only if all of them ended
  with nothing, or the album was no longer current at an attempt (`SearchIsFair`).
* `AlgorithmsProofs`, the configuration. `ConfigurationTheorem` is of any two files. The
  schema is evaluated once (`Schema`); from then on, a configuration is a
  function on it whose values have the kinds of their settings (`Kinds`, `ReadIsOfKind`). Writing
  out and reading back gives the same value: a duration is written in a unit that
  divides it (`DurationBack`), and so is a size, whose product with the unit fits because the value did
  (`SizeBack`). An accepted configuration is valid, so `check_bind` finds nothing to refuse
  that `validate` let through (`Starting`), also after the passphrase is stored and the
  daemon is started once more (`StartingAnew`).
* `AlgorithmsProofs`, the display. `PicturesTheorem` is of any card, panel and cover. The card
  itself is found unless it is not named and has no panel (`CardFacts`). Where
  the code takes the first that will do, the first of the hits is one, and no hits means that
  nothing would do (`FirstHit`); the mode called `highest` is a fold, whose
  states surpass all modes seen so far (`HighestFacts`). Hence nothing is given up that the
  card could show (`AssembledFacts`), and ten attempts outlast a master who stays for four and
  a half seconds (`MasterFacts`). The layout is four cases, by `cover` and by which of the two
  shapes is the wider, and in each an identity of products (`CoverFacts`,
  `ContainFacts`); a quarter turn swaps the sides twice (`TurnFacts`, `GlassFacts`).
* `PipeProofs`, the buffer. `PipeInv`: whenever the reader waits, what is left unparsed
  fits in the buffer (`Rested`). Every attempt at an item either takes text away or waits,
  and one that would wait with a buffer too full gives up (`AttemptConsumes`), so the buffer holds
  at most its limit, one read, and what the compaction leaves.
* `PipeProofs`, the items. `WholeTheorem` is of every mixture of whole items, truncated
  ones, refused ones and rubbish, and of every way of cutting it into reads. What an attempt
  answers is first said without the scanner, in terms of what stands where (`ItemSays`,
  `ParseIs`). From that: where a whole item begins, the answer is that item once all of it is there,
  and to wait until then (`OwedParses`); where a damaged one begins, it is never an item, even
  with the rest of the stream behind it, in which the data of a truncated item ends with the next
  item's (`SpoiltNever`). The inductive invariant `WholeInv` is of one text, what is
  buffered followed by what is in the FIFO, so that a read changes nothing: the items owed stand
  in it in order, and whatever else in it begins like an item is damaged (`Owes`); no end of the
  data lies before the hint (`Known`), because a wait for one has searched the whole buffer
  (`SearchedAll`); and a parser that waits has no opening tag before it, or an item that is not all
  there (`Waits`). That a whole item is never given up as too large is `FitAssumption`. The proof
  changed the property: an item that has begun its data and is followed by an end of the data that is the last
  thing in the buffer waits too, which an earlier wording excluded and a buffer of fewer
  symbols never showed; the run's buffer is large enough to.

Facts about all numbers are shown with the least counter-example (`LeastNumber`, `Induct`),
since the prover cannot use the library's induction theorems.

**What is assumed of the constants** is named in each module and evaluated in each run.
Beside types and bounds: that sentinels are not data (`NothingAssumption`,
`NoneAssumption`, `SentinelsAssumption`, `NoArtAssumption`), that threads of requests and
numbers of countdowns are different things (`HandlersAssumption`), that what a browser
sends is a setting and a value (`BodiesAssumption`), that numbers of items are numbers
(`ItemsAssumption`), that the bound on scratch files is one (`SpoiltAssumption`), that light and
lightness are tabulated for the levels there are and rise with them (`CurvesAssumption`), that an item written whole fits in the parser's buffer (`FitAssumption`;
`max_buffer_bytes` is twice `max_item_bytes`, parser.rs:71-77, and base64 makes four bytes of
three), that `Absent` is neither a bundle nor a track (`AbsentAssumption`), that answers of
catalogues carry what their kind has, scores are ten-thousandths, and sizes are numbers
(`WorldsAssumption`), that what a file holds under a duration, a size or a flag is one, and a
write succeeds or fails (`FilesAssumption`), that the connectors of a card have
names of their own, and an encoder reaches CRTCs of its card only (`DisplaysAssumption`), that panels and
covers have sides and a panel is turned by quarters, which is validated (`PicturesAssumption`), that the two GiB that are the default size of the
cache fit in a `u64` (`PartsAssumption`), and `ValidationAssumption` above.

**Proved and not among the runs.** The type invariants of the modules that have a
proof module, the inductive invariants, `TickClearsDeadlines`, `DrainedMeansCurrent`,
`LagLeavesTheNewest`, `StoreBounded` and `OfferedAsShown` are theorems
for every instance; the runs check other properties instead. TLC can check the properties
and invariants among them by adding them to a configuration.

**Only model-checked**: the liveness properties (`SilenceEndsInTheDark`,
`FollowersCatchUp`, `RendererSettles`, `OrdersEnd`, `FlightsLand`, `DarkInTheEnd`,
`UnconfirmedIsUndone`), since the prover has neither fairness nor `ENABLED`; and of `Algorithms`
`RecordsAreRecognised`, what is promised of names and of pictures one with another. Names are taken apart
letter by letter, by folds inside folds, and it is not true of all names: how alike two of
them are is a score. Colours are found by k-means, a fold over pictures whose steps choose
among clusters.

## 6. What is not modelled

Shaders, colour conversion, fonts and the windowed development loop are out of reach
or keep no state. Requests to catalogues, mDNS, hashing of passwords, the syntax of TOML
and the shell scripts are external. Within the modelled parts:

* requests and replies on the socket, notes and counters, the `Drop` of the renderer's
  source; errors the kernel returns for the amplifier's line, which the code logs;
  a connection that times out without being closed is a client that has left;
* the moment between the unlink of an old cover and the publication of the new one, which
  are one step of the main loop here;
* pictures in colour or with transparency in `ImageAnalysis`, hence the chroma of the
  histogram; more than one card in `Scanout`;
* Ken Burns, which is off by default and keeps the loop awake;
* the index of the cache may promise bytes that are not there, which `get` verifies;
  statements of SQLite and `fs::write` of a part file are atomic in the model, the
  power cut may spoil what they wrote;
* floating-point rounding, the exact
  lengths of sleeps of the rate limiter, empty tables in configuration files;
* the code tables of metadata items that the machine does not read.

## 7. Plan

What is left, in this order:

1. Proofs: of `Matching`, whose titles are taken apart letter by letter, as far as it goes
   without induction over data.
2. The renderer's running configuration beside that of the main loop, so that the
   labels of `tier` can be asked about.
3. The composition of `ArtPipeline` with `RenderLoop` over what `poll` returns, which
   `RenderLoop` now takes as any order of news.
