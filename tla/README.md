# TLA+ models of FRP_PV

FRP_PV watches and guards an [frp](https://github.com/fatedier/frp) server. frps posts the start and the end of every
user connection to it; it lets the connection through or bans the address, aggregates what it saw, asks
geolocation providers about the address, and shows everything on a globe in the browser over a WebSocket.
This directory holds TLA+ models of the parts where goroutines, a database, the kernel and browsers meet, and of
the browser's own concurrency (React's renders and effects, timers, camera flights, promises), the TLC configurations that check them, and TLAPS proofs of their main theorems.

Paths below are relative to the repository; `services/`, `handlers/`, `ws/`, `config/` and `geo/` are
under `backend/internal/`; `stores/`, `hooks/`, `pages/`, `utils/` and `components/` under `frontend/src/`.

## The system

| Component | State it keeps | Operations | What makes it hard |
|---|---|---|---|
| Ban manager, `services/ban.go` | the map `bans`, sliding windows, a counter | ban, unban, automatic ban, synchronise the firewall, expire | request goroutines and a ticker interleave at the mutex, at SQL statements and at `iptables` commands; the process may stop between any two |
| Configuration, `config/config.go` | settings in memory and in SQLite, table `bans` | `Get`, `Update` (one transaction), `LoadBans`, `UpsertBan`, `ClearBan` | statements fail; memory and table are updated in separate steps |
| iptables, `services/iptables.go` | the kernel's chain `FRP_PV` | `Ensure`, `Block`, `Unblock`, `Flush` | check and append are two commands; a command killed after 2 s may have worked; rules survive the process |
| Settings handler, `handlers/api.go` | none | `UpdateSettings` with mode switch and rollback | several steps, each of which may fail or race with another save |
| Hub, `ws/hub.go` | `clients`, the channels `broadcast`, `register`, `unregister`, one `send` per client | `Run`, `Emit`, `SendJSON`, the two pumps | a channel closed by one goroutine and used by another; slow browsers; bounded channels |
| WebSocket handler, `handlers/ws.go` | none | register, then read and send snapshots | snapshots and live events overlap |
| Connection tracker, `services/tracker.go` | the slice `records`, `index` with pointers into it, `active` | `Record`, `OpenConnection`, `CloseConnection`, `AllRecords`, `ActiveList` | events are emitted after the mutex is released; `append` moves the slice |
| Plugin handler, `handlers/plugin.go` | none | `NewUserConn`, `CloseUserConn` in two modes | iptables mode answers first and works later |
| Browser store and hook, `stores/connectionStore.ts`, `hooks/useWebSocket.ts` | records, active connections, blocked list, log, demo queue | one reducer per event, reconnection after 3 s | events that overtake each other, were missed or come twice |
| Geo service, `geo/service.go`, `cache.go`, `breaker.go` | cache, pending calls, breakers, providers | `Lookup`, `LookupAsync`, reload, persistence | single flight, expiry, late answers, concurrent saves |
| Voting, `geo/voting.go`, `scoring.go`, `enrichment.go` | experience scores | pure functions over answers | ties, empty fields, cascaded filters |
| Lua and MMDB providers | script sets, readers | one lookup each | external I/O |
| Demo tours and idle camera, `components/Globe/CesiumGlobe.tsx` | demo queue (in the store), `demoBusy`, camera generation, idle timer | play, idle, stop | effects see the state of the last render; timers, frames and flights finish after they were superseded |
| Globe scene, same file; `components/Globe/GlobeToolbar.tsx`, `utils/formatDesc.ts` | groups, points, arcs, glows, crosses, visible labels | group, cluster, thin out arcs, update entities, declutter labels | entities are brought up to date one by one; labels are sorted out later by a timer |
| Base layer, same file; `components/Globe/ImageryPicker.tsx`, `utils/presentationParams.ts` | the choice in storage, picker, globe and hash; layers | choose, load, switch | providers answer late, in any order, after other choices |
| Settings dialog, `components/Modal/SettingsModal.tsx`, `stores/settingsStore.ts` | the form; the console's configuration | load, edit, save, detect the place | answers that come after edits, in another dialog, or never |
| Script editor, `components/Modal/LuaModal.tsx`, `stores/luaStore.ts` | the open file, its text, its saved text | open, edit, create, save, delete | the same, and Ctrl+S |
| Event log, sessions, lists, HTTP server | a bounded list; cookies; routes | | mostly I/O |

How they interact: frps calls the plugin handler, which asks the ban manager and calls the tracker;
the tracker and the handlers call `Hub.Emit`, which waits while the hub's channel is full; `Run` copies each
message to the channel of every browser; the write pump sends it; the hook hands it to the store. The ban manager
calls the database and `iptables`. In the browser the store is rendered by React, whose effects keep scene, camera and
layers up to date; the dialogs call the HTTP handlers. What makes each part correct, in one sentence each:

- plugin handler: a ban is for enough connections, each of which counts once; who is banned or whitelisted all along is
  treated as such, whatever is saved meanwhile;
- bans: map, table and chain may disagree for a moment, but never in a way that no later step can repair; strikes are
  never lost; a start restores the chain exactly;
- hub: no browser can stop it or make it use a closed channel; each browser gets a gap-free run of messages;
- tracker: every connection is counted and announced once; in plugin mode `active` is what frps has open;
- dashboard: a newcomer is shown once, and connecting again repairs what was missed;
- geo: one query per address in flight, nothing fresher is overwritten by something older; a query ends in time and
  loses no answer, a source is passed over exactly while it keeps failing; the cache file is a save of the cache;
- demo tours: at most one thing moves the camera, nothing does when the mode is off, no line stays for ever, idle
  comes after silence and only then;
- globe: the scene is always what a new globe would show, clusters and labels keep apart and give way by importance;
- base layer: the layer that was chosen is on the globe once it is loaded;
- dialogs: what counts as saved is what the server keeps.

## Modules

| Module | Models | Role |
|---|---|---|
| `BanManager` | `ban.go`, `iptables.go`, the bans and the mode in `config.go`, `UpdateSettings` in `api.go` | specification |
| `MCBanManager` | | small policies for TLC |
| `BanManagerProofs` | | proofs |
| `AutoBan` | `Handle`, `processAllowedEvent` and `rejectIP` of `plugin.go`, `CheckAutoBan`, `applyBan` and `escalatingMinutes` of `ban.go` | specification |
| `MCAutoBan`, `AutoBanProofs` | | TLC instance with a property of its own, proofs |
| `Feed` | what the hub promises one browser | abstract specification |
| `Hub` | `hub.go`, the channel side of `ws.go` | specification, implements `Feed` |
| `MCHub`, `HubProofs` | | TLC instance, proofs |
| `Tracker` | `tracker.go`, the dispatch of `plugin.go`, `Hub.Emit` as a bounded queue | specification |
| `MCTracker`, `TrackerProofs` | | TLC instance, proofs |
| `Dashboard` | `Tracker` composed with the greeting of `ws.go`, `connectionStore.ts` and `useWebSocket.ts` | composition |
| `MCDashboard` | | TLC instance; its proofs are in `TrackerProofs` |
| `GeoLookup` | `Lookup` and `GetCached` of `geo/service.go`, the cache of `geo/cache.go` in memory | specification |
| `MCGeoLookup`, `GeoLookupProofs` | | TLC instance, proofs |
| `GeoQuery` | `queryAll` and the reload of `geo/service.go`, the goroutines of `enrichment.go`, `breaker.go` | specification |
| `GeoCacheFile` | the saves and the load of `geo/cache.go`, the flush of `main.go` | specification |
| `MCGeoInside`, `GeoInsideProofs` | | TLC instance of the two, proofs about each |
| `DemoTour` | the five effects, `playDemoTour`, flights and idle rotation of `CesiumGlobe.tsx`, the demo queue of `connectionStore.ts` | specification |
| `MCDemoTour`, `DemoTourProofs` | | TLC instance, proofs |
| `Globe` | the scene effect and the label declutter of `CesiumGlobe.tsx`, `formatDesc.ts`, the toolbar's settings | specification |
| `MCGlobe` | | TLC instance |
| `BaseLayer` | the imagery effect of `CesiumGlobe.tsx`, `ImageryPicker.tsx`, `presentationParams.ts` | specification |
| `SettingsDialog` | `SettingsModal.tsx`, `settingsStore.ts`, the settings endpoints of `api.go` | component |
| `LuaEditor` | `LuaModal.tsx`, `luaStore.ts`, the script endpoints of `main.go` | component |
| `Dialogs` | the two in `pages/Dashboard.tsx`: one dialog at a time, hidden by the hash | composition |
| `MCPage` | | TLC instance of `Dialogs` and `BaseLayer` |
| `PageProofs` | | proofs about `Globe`, `BaseLayer` and `Dialogs` |

Operators marked `Bug:` are deliberately wrong variants of the definition that follows them. Nothing uses
them; replacing the definition by its variant must make the named property fail, which shows that the property
depends on that line of the code.

### BanManager

State: `cfg` is `config.Data` as far as mode and AutoBan policy go (memory and disk are one value, because
`Update` changes memory only if its transaction commits), `mem` the map, `db` the table, `rules` how many DROP rules
of each IP the chain holds, `server` whether the process is down, in `NewBanManager` or serving, `job` where each
goroutine is, `tick` where `expiryLoop` is.

A goroutine's program counter `job[t].at` stops before every lock, SQL statement and iptables command:

| Code | Actions |
|---|---|
| `applyBan` | `BanBegin` (whitelist), `BanPolicy` (`cfg.Get`), `BanLock` (critical section with `UpsertBan`), `BanMode`, then `Block` |
| `Unban` | `UnbanBegin` (critical section), `UnbanClear` (`ClearBan`), `UnbanUnblock` |
| `Block` | `BlockCheck` (`-C`), `BlockAppend` (`-A`) |
| `ReconcileFirewall` | `SyncMode`, `SyncFlush`, `SyncList`, `SyncSkip`/`SyncBlock` per IP, `SyncDone` |
| `UpdateSettings` | `SettingsBegin` (old mode), `SettingsSave`, `SettingsRoute`, `Flush` or the synchronisation, `SettingsUndo` |
| `expiryLoop` | `TickMode`, `TickCollect`, `TickUnblock` |
| `NewBanManager` | `Start`, then the synchronisation by the thread `Boot` |
| environment | `Lapse` (time passes a ban's end), `Stop` (process or host) |

Abstractions: time is not counted, a temporary ban may lapse at any moment (duration and escalation are arithmetic on
the strike count and belong to `AutoBan`); a missing row is a row with no strike; module whitelists
do not reach `applyBan`; `Ensure` is part of the command it precedes; a failing iptables command leaves either
outcome.

### AutoBan

How a connection is judged, with a clock that is counted. `bans`, `windows` and `blocked` are the fields of
`BanManager`, `policy` and `mode` the settings, `logged` the number of rejections the event log was given. A
goroutine stops before every reading of the settings or the clock and before every lock:

| Code | Actions |
|---|---|
| `Handle`, `processAllowedEvent` | `NewUserConn` (mode and, in iptables mode, the early answer), `CheckWhitelist`, `CheckBan`, `Locate`, then `CheckAutoBan`, and `RejectIP` or `TrackAllowed` |
| `CheckAutoBan` | `Locate` (reads the settings it works with; `Spared` is `ForeignOnly` and its exceptions), `Judge` (whitelist again, then `time.Now()`), `Slide` (critical section), `applyBan`, `Count` |
| `applyBan` | `BanWhite`, `BanStamp` (clock, settings), `BanLock` (critical section); `ManualBan` starts it too |
| `Unban`, `UpdateSettings` | `Unban` (critical section), `SaveSettings` (any mode and policy) |
| the clock | `Tick` |

`silent` and `unspent` are history variables: automatic bans of iptables mode, of which neither frps nor the log is told, and
connections that were counted and not yet used for a ban. `since[t]` is history too: what has held of a request at
every moment since it came (`Watch` conjoins it to every step).

Abstractions: the country and whether anything is known of an address are any answer; where a ban is stored and
whether that succeeds is `BanManager`; the first and the longest duration are constants, because a save that lowers
them lowers the bans, as it should; a window is a sequence of times, as in the code, although only its front and its
length are used; rejections have no content; `backfillGeo` is left out.

### Hub and Feed

A broadcast is its number. `emitted`, `sent` and `todo` are the channel `broadcast` and the place of `Run` in its
loop over the clients; `send[c]` is the client's channel, `shut` the closed ones, and
`handler`, `writer` and `reader` are the program counters of the three goroutines of a connection. The greeting
messages are all 0. `register` and `unregister` are unbuffered: sender and `Run` meet in one step. `Greet` on a
closed channel panics, as in Go; gin recovers. A browser that connects again is another client.

`Feed` knows only how many messages were emitted, who joined and what each was given last. `Hub!FeedSpec`
instantiates it with `joined` as the clients whose handler has registered: joining may skip messages that were
already broadcast, after that each delivery is the next number. A browser that is dropped just gets nothing more.

### Tracker

`listed` is what is in `ct.records`, `own` what the index points to, `live` the keys for which both are the
same memory; `cap` is the slice's capacity. What `append` reserves for it when it is full is the constant `NextCap`, of
which only what the language promises is assumed: room for one element more. Go's runtime doubles small slices, grows
large ones (above 256 elements) by a quarter and rounds up to a size it can allocate. `opener[c]` and `closer[c]` are the handling of the two events of a
connection, `snap[c]` what `Record` copied under the mutex, `wire` the hub's channel, which makes
`Emit` wait. `frps[c]` is what frps knows: in plugin mode it gets its answer from `OpenConnection` on, in iptables
mode at once. A lookup takes any time and finds coordinates for the connections in `Finds`. `announced` is a history
variable.

Abstractions: a key stands for an address and a service; a record is its count and whether it has a location;
the event log, the texts and the durations are left out; rejected connections do not reach the tracker. Addresses
(`remote_addr`) are not used twice.

### Dashboard

`Dashboard` extends `Tracker` with one browser. `Register`, `ReadRecords`, `SendInit`, `ReadActive`,
`SendActiveInit` are the handler's steps; each of the reducers `setInit`, `addNewIp`, `updateIp`, `setActiveInit`,
`openConnection`, `closeConnection` is an operator on `view` and `viewActive`. `Disconnect` and another `Register` are
the hook's reconnection, which keeps the store. An event is in the store as soon as `Run` hands it out: `Hub` shows
that the browser gets greeting and events in the order in which they entered its channel, and a drop is a
`Disconnect`. A greeting message that is lost because 256 broadcasts overtook it is in `Hub` but not here.

### GeoLookup

Each caller is a goroutine that looks one address up once, by `Lookup` (`LookupAsync` starts one per
connection) or by `GetCached`. Entries, pending calls and answers are named after the caller that made them; an
entry loaded from the cache file is named after its address. `pc[c]` stops at every place where `Get` and `Lookup` take
or release the cache's mutex or touch `pending`:

| Code | Actions |
|---|---|
| `GeoCache.Get` | `Read` (under the read lock), `Check` (`expired`, without a lock), `Evict` or `Hit` (under the lock) |
| `Service.Lookup` | `Begin`, then `Get`, `LoadOrStore`, and as owner `Query`, `Put`, `Publish`, `Leave`, `Close`; as waiter `Wait` |
| the clock | `Tick` |

An entry has its age, the time since its last hit and whether it was hit twice, so `expired` with its two lifetimes is
what it is in the code. `Check` reads `HitCount` and `LastHit` while another caller may be writing them; either
lifetime may then apply. `order`, `asked`, `returned` and `floor` are history: the rank of each query among those of
its address, and what had been returned when a caller began. Abstractions: `queryAll` is one step with or without a
result, ended by its deadlines (`GeoQuery` looks inside); the counter of `Put` and the cache file are in
`GeoCacheFile`; `HitCount` stops at two, the value the code compares it with.

### GeoQuery

A query is in its first round (the providers), in its second (the geocoders) or done (`at`). `todo` are the sources
its loop has yet to come to, `call` its goroutines, `results` what was collected. A breaker goes by its source and the
load that made it: `current` is what the service has now, `load[q]` what the query read at the start of each round.

| Code | Actions |
|---|---|
| `queryAll`, `enrichAll`, the caller | `Begin` (reads sources and breakers), `Ask` (one turn of the loop: `Breaker.Allow`, then a goroutine or not), `RoundEnds` (all done, or the deadline) |
| their goroutines | `Fails` (`RecordFailure`), `Answers` (`RecordSuccess`), `Collect` (the `append` under the mutex of the round) |
| `ReloadProviders`, `SetGeocoders` | `Reload` |
| the clock | `Tick` |

The caller keeps `resMu` to its end, so a provider's goroutine that comes late to its `append` waits (`Locked`), while
its breaker already knows. `late`, `told`, `streak` and `calm` are history. Abstractions: a deadline may pass at any
moment; an answer has no content, so any of the geocoders may be asked about it, each once per query (the code asks
once per distinct input); sources have names of their own (in the code two of one name would share a breaker); a
query's and a load's name are used again when nothing of them is left. The merged answer is computed without another
goroutine and is not modelled.

### GeoCacheFile

A goroutine puts one entry (`PutItem`, `Count`, `Reset`: the critical section and the two atomic operations on
`newOps`), and may start a save; `Flusher` is the save of `main`. `saveToDisk` is `TakeSnapshot`, `OpenTmp` and
`WriteTmp` (the two halves of `os.WriteFile`), `Rename`, `RemoveTmp`, with `WriteFails` and `RenameFails`. A file is an
inode: `tmp` and `disk` say which inode has which name, `fd[s]` which one a save writes to, even after it was renamed.
`Restart` ends the process between any two steps and loads the file. `met`, `last`, `mixed` and `missed` are history:
which saves ran while another did, and what they may have spoilt. Abstractions: an inode is empty, the
complete text of one save, or a mixture, which is taken not to be JSON; a goroutine puts one entry of its own; what
a write does is seen by every later read (no power loss, and the system's caches survive the process).

### DemoTour

React 18 is part of the program here. A change of the zustand store is rendered at once (`useSyncExternalStore` renders
in the synchronous lane); a state that an effect sets, such as `demoBusy`, is rendered with the next such change or
later. So there are two values of it, `busy` as last set and `shownBusy` as last rendered, and `Render(b)` chooses
which it shows. A render marks the effects whose dependencies changed (`Deps`, `Changed`), runs their cleanups, and
then the effects run in their order (`Turn`); timers, frames and messages wait until they are through (`Settled`).

| Code | Actions |
|---|---|
| a render, the cleanups | `Render`, with `RebuildViewer` when the server moved |
| effects of lines 855, 864, 871, 884, 914 | `ModeEffect`, `ServerEffect`, `ActivityEffect`, `ConsumeEffect` (starts a tour with a new `demoGenerationRef`), `IdleEffect` |
| `playDemoTour`, `flyCameraToPoint`, `wait`, `drawDemoConnection` | `Landed`, `WaitOver`, `LookAt`, `DrawEnds`, `RemoveLine`; near tours skip flight and pause |
| the idle timer, `flyCameraToOverview`, `spin` | `IdleTimeout`, `OverviewSettles`; a frame of the rotation is `Spinning` |
| `openConnection`, `setDemoMode`, `patchConfig` | `OpenConnection`, `SetDemoMode`, `MoveServer` |
| the clock | `Tick` |

`current` is the tour whose generation is `demoGenerationRef`; a bare increment is `None`. A flight is one owner
(`flight`), because Cesium cancels the former when another begins. A unit of time is longer than a render. `silence` is
a history variable. Abstractions: durations of flights and of drawing are any time; the `fast` variant only shortens
them; the fallback to a stored record's place is in `placed`.

### Globe

The state is what the store holds (`records`, `active`, `banned`), the toolbar's settings (`options`), the server's
place, and the scene: `groups` (what the popup reads), `points`, `lines`, `glows`, `crosses`, and `visible` labels with
the declutter's `timer`. `dirty` says that the scene effect is to run.

| Code | Definitions |
|---|---|
| places and groups, lines 509-583 | `PlacesOf`, `GroupsOf` (greedy clustering by importance), `Desc` (`formatDesc`) |
| arcs, lines 585-635 | `Representatives`, `ShouldDrawArc` |
| entities, lines 638-802 | `RenderPoints`, `RenderArcs` with `KeptPoint`, `KeptArc`; all of it is the action `Render` |
| labels, lines 804-814, 1230-1327 | `Declutter`, `declutterPointLabels`, `MoveCamera` |
| store, toolbar, configuration | `SetInit`, `AddNewIp`, `SetActive`, `SetBanned`, `SetOptions`, `MoveServer` |

Abstractions: the surface is a line, a place is an integer and a distance a difference (what counts is which distances
are below a setting); the screen is that line scaled by the camera's zoom, of which `InView` is shown and `Faces` is on
this side of the earth (the server's label takes its room there even beside the screen); a label's width does not
depend on its text;
of the seven parts of an address two are kept; street, ISP, colours, heights and the layout of the popup are left out.
Lists are folded where the code loops with early exits, in the same order.

### BaseLayer

`stored`, `picked` and `selected` are the three copies of the choice (storage, picker, globe), `override` the hash's;
`layers` is the stack on the Viewer, `loads` how many answers of each remote provider are to come. `SwitchLayer` is the
imagery effect (remove all, add or ask), `Loaded` and `LoadFails` its promises, which come in any order and do not ask
whether they are still wanted. `gone` is history: the layer that was applied failed, or went with its Viewer.

### SettingsDialog, LuaEditor, Dialogs

Each dialog is a component module with the calls under way in `calls` and `scriptCalls`: a call is sent, served (the
handler runs, with its failures) and answered, or it fails before or after it was served. Calls outlive the dialog that
made them; `mine` says whether its form is still mounted. `Dialogs` composes both: `Hide` and `Show` are the hash
without and with the user interface, `SaveAndClose` closes whatever is open when its answer comes.

| Code | Actions |
|---|---|
| `SettingsModal` | `FetchSettings`, `UpdateField`, `HandleSave`, `DetectLocation`, and `FetchAnswered`, `SaveAnswered`, `DetectAnswered` |
| `api.go` | `GetSettings`, `UpdateSettings` (a mode without a working iptables is taken back, the rest stays saved), `DetectServerLocation` (saves what it found) |
| `LuaModal`, `luaStore` | `HandleOpen`, `HandleCreate`, `HandleDelete`, `SetContent`, `SaveFile`, `Clear`, and their answers |
| `main.go` | `GetScript`, `TruncateScript` and `WriteScript` (the two halves of `os.WriteFile`), `DeleteScript`, `RefuseScript`; together `ServeScript` |

Abstractions: of the settings the firewall mode, the server's place and the home country are kept, which stand for what
a refused save takes back, for what a detection saves too and for what gets a default; a text is a value; confirmations
may be answered either way; the list of scripts and the reload of the providers are left out.

Two conversions of the server are part of the handlers. Every `Update` ends with `applyDefaults`, so a save of an empty
home country keeps the default (config.go:228), while the dialog patches what it sent into the console and the globe
falls back on a default only if there is no value at all (CesiumGlobe.tsx:126, `??`). And `os.WriteFile` (main.go:333)
empties the file before it writes: a save that fails in its second half leaves the file empty or cut (`CutTo`), although
it is answered with an error, and a file that is deleted between the halves is written without a name (`fd`). Such a
save counts as `crossed` from then on: the editor keeps its mark as it was, and a text saved by Ctrl+S without a change
stays unmarked.

## Runs

All runs are exhaustive. `DemoTour` checks for deadlock: a browser can always do something. The others
say `CHECK_DEADLOCK FALSE`, because they may stop for good when their clients do, or when a bounded number of messages,
strikes, records, calls or saves is used up.

Two runs hold two systems that share no state; each behaviour chooses one of them in its initial state, and the other
stays as it began. `MCGeoInside` has `GeoQuery` and `GeoCacheFile` (whose specification is `FileSpec`), `MCPage` has
`Dialogs` (`DialogsSpec`) and `BaseLayer` (`BaseSpec`; a visit
opens the settings, or the editor, or no dialog, and only the last kind is about the layers).

| Run | Instance | Checks |
|---|---|---|
| `BanSafety` | 1 IP, 2 handlers (symmetric), 3 policies (temporary, permanent, whitelisted), 1 strike before a ban, failing iptables, stops | `RulesHaveRecords`, `DiskBanIsLive`, `StrikesNeverForgotten`, `BootEnforcesBans` |
| `BanLive` | 1 IP, 2 handlers, failing SQL, stops, working iptables, fairness | `StaleRuleHeals` |
| `AutoBan` | 1 IP, 1 service, 2 handlers (symmetric), 3 policies (temporary; permanent for foreigners with the service whitelisted; the IP whitelisted), window 1, thresholds 2 and 3, bans of 1 to 3 units, 3 units of time | `CountsSpentOnce`, `ExemptPasses`, `BannedStaysOut`, `BansAreEarned`, `NoShorterBan` |
| `Hub` | 2 browsers, 3 messages, queue 1, buffers 2, 2 greetings, fairness | `ServedChannelsAreOpen`, `FeedSpec`, `EmitIsNeverStuck`, `GoneBrowsersLeave` |
| `TrackerSafety` | 3 connections, 2 keys, both modes, queue 1 | `EveryCountAnnouncedOnce`, `ActiveTracksFrps`, `OnlyOldRecordsLag` |
| `DashboardSafety` | 2 connections, 1 key, both modes, queue 2, any number of reconnections | `NewcomersShownOnce`, `CalmGreetingHeals` |
| `GeoLookup` | 1 address, 2 callers of `Lookup`, 1 of `GetCached`, lifetimes of 1 and 2 ticks, any loaded entry, fairness | `OneQueryPerIP`, `AnswersNeverGoBack`, `WaitersShareAnswer`, `LookupsReturn` |
| `GeoInside` | 2 queries (symmetric), 1 provider that is reloaded, 1 geocoder, 2 loads, 2 failures trip a breaker for 1 tick; 3 entries (symmetric), a save every 2, the flush, 1 restart, failing writes and renames; one of the two per behaviour | `AnswersAreUsed`, `PassedOverIfTripped`, `FileIsLastSave`, `FileLagsLittle` |
| `DemoTour` | 2 events (one far, one near) of 2 clients, queue 2, 1 unit of suppression, 2 units of silence, fairness | `OffMeansStill`, `OneHandOnTheCamera`, `CameraGivenBack`, `IdleOnlyAfterSilence`, `EveryLineGoes`, `QueueIsFreed`, `SilenceBringsOverview` |
| `Globe` | up to 3 of 4 records, 2 connections, 2 suspects, 2 settings, 2 servers, 2 cameras, labels of 3 pixels, 2 labels at most | `SceneIsFresh`, `ClustersApart`, `HiddenForAReason` |
| `Page` | 2 modes, 2 places, a home country that is set or cleared, 2 calls; 2 files, 2 texts and the empty one, failing writes, 2 calls; 4 layers, 2 of them remote, 2 loads of each under way; one kind of visit per behaviour | `ConsoleShowsWhatIsSaved`, `CleanMeansSaved`, `LayersFollowTheChoice` |
| `BanEnforced` | 1 IP, 1 handler, nothing fails | a violation, see below |

What they show:

- `RulesHaveRecords`: a DROP rule is always about an IP with a row in the table, so the expiry loop or the next
  synchronisation can find it, whatever order late blocks, unbans, flushes and stops took.
- `DiskBanIsLive`: the table never bans an IP that the map has freed, except while the unban is on its way to the
  table; a lifted ban does not return with a restart.
- `StrikesNeverForgotten`: no step lowers the strikes that the next ban will count from (README.md:185).
- `BootEnforcesBans`: when start-up succeeds in iptables mode, the chain is exactly the active bans that are not
  whitelisted, each once.
- `StaleRuleHeals`: concurrent blocks may append a rule twice and unbans may overtake blocks, but the expiry loop removes
  what is left once the IP stays unbanned in iptables mode.
- `BansAreEarned`: an automatic ban is for at least as many connections as the threshold, all within the window, give or
  take the wait for the mutex. The allowance is needed: `CheckAutoBan` reads the clock (ban.go:188) before it locks
  (ban.go:190), so a later time may stand before an earlier one, and the loop that trims the list stops at it. If
  nobody waits (`MaxWait = 0`) the window is exact.
- `CountsSpentOnce`: no connection pays for two bans, however many goroutines are inside `CheckAutoBan`.
- `ExemptPasses`, `BannedStaysOut`: one request reads the settings up to five times and the map twice, with saves, bans
  and unbans in between; who is whitelisted, or banned, during the whole request is treated accordingly.
- `NoShorterBan`: no strike cuts a running ban short (README.md:185), except by the wait for the mutex.
- `ServedChannelsAreOpen`: `Run` cannot panic.
- `FeedSpec`: each browser gets a gap-free run of the broadcasts.
- `EmitIsNeverStuck`: no browser blocks `Emit`, and thereby the answer to frps. `GoneBrowsersLeave`: a browser that went
  away leaves the map for good.
- `EveryCountAnnouncedOnce`, `ActiveTracksFrps`: see the comments in `Tracker`. `OnlyOldRecordsLag`: the records a new
  browser may see out of date are those the last growth of the slice copied, all of them and no others.
- `NewcomersShownOnce`: a browser that is fully greeted shows a new key exactly once. `CalmGreetingHeals`: connecting
  again in a quiet moment repairs any store.
- `OneQueryPerIP`, `WaitersShareAnswer`, `LookupsReturn`: the single flight of `Lookup` works: one query at a time per
  address, whoever waited gets its result, and everybody returns. A caller that missed the cache just before the first
  one filled it still asks once more, after the first query; service.go:167 says one IP is asked once.
- `AnswersNeverGoBack`: `Get` decides and acts in separate critical sections, so it may evict an entry that another
  lookup has just refreshed, or return one that was replaced. Nevertheless a caller that starts after another has
  returned never gets an older answer.
- `AnswersAreUsed`: a query that met no deadline has merged every answer that it was given; what a goroutine says after
  the end goes nowhere. It depends on `wg.Done` coming after the `append`.
- `PassedOverIfTripped`: a source is left out if and only if the last reports to its breaker were failures and
  the last one is recent, although the reports come from many queries, some of them long over, and although a reload
  may have replaced the breaker while they were under way (they report to the old one).
- `FileIsLastSave`: after a failed write, a failed rename, a crash or two saves at once, the next save that runs alone
  makes the file complete again, and whatever fails later leaves it so.
- `FileLagsLittle`: a reset of the counter may swallow another's increment, but then the save that follows it takes
  that entry along, so a cache at rest is never `PersistEvery` entries ahead of its file.
- `OffMeansStill`, `OneHandOnTheCamera`, `CameraGivenBack`: promises and frames of superseded tours find out before they
  touch the camera, in every order of mode switches, connections and moves of the server; the local frame that
  `lookAt` sets is always undone.
- `EveryLineGoes`, `QueueIsFreed`: a tour that is superseded, or loses its Viewer, leaves neither a line on the globe nor
  the queue blocked.
- `IdleOnlyAfterSilence`, `SilenceBringsOverview`: the idle camera starts after 30 s without a connection and stops at
  any connection (README.md:416), although the tour itself also sets `lastDemoActivityRef` and the effects run one after
  another. The 30 s count from the last connection or the start of the last tour, while README.md:416 lets them begin
  when the demonstration has ended.
- `SceneIsFresh`: the incremental update (keep what is equal, rebuild what changed, remove what nobody wants) leaves
  what a new globe would show. It depends on the label being part of the comparison, and on the arcs' extras being kept
  and removed with their arc.
- `ClustersApart`: the greedy clustering partitions the records, keeps the distance, and lets an important place
  represent its cluster.
- `HiddenForAReason`: after the timer a hidden label lost to something at least as important.
- `LayersFollowTheChoice`: whatever hashes, answers and failures come, the layer that was chosen is on the globe when its
  last answer is there, and no local layer of before is left.
- `ConsoleShowsWhatIsSaved`, `CleanMeansSaved`: unless calls fail or cross, the server keeps what the console works with,
  but for the default of a cleared field, and a text that is not marked as changed is the file's. A save of a script
  that is refused before the file is opened changes neither; one whose write fails counts as failed.

Also stated in the modules, true on the same instances, not listed by a run, but proved for all of them (see below):
the type invariants named there, `WindowsAreBounded`, `OnlyOverflowPanics`, `PickerAgrees`, `ClickFindsGroup` (any point that can be
clicked has its group, before and after the effect), `LabelsApart` (visible labels do not overlap after the timer),
`RejectionsAddUp` (a rejection is counted once, also when the ban itself was refused) and `ShownConnectionsHappened`
(the store never shows a count or a place that the tracker has not).

Stated, true on the same instances, and neither listed by a run nor proved: `DuplicateRulesBounded` (no more rules of
an IP than requests), `EscalationIsCappedDoubling` (the escalation in closed form; `EscalationDoubles` proves it strike by
strike), `GoneBrowsersAreClosed` (liveness of the connection of a browser that is gone) and, of
`GeoQuery!FairSpec` with one load, `QueriesEnd` (every query ends, even if no source ever answers).

Why the bounds are enough to be interesting: in `BanManager` the actions of different IPs touch different entries, so
one IP shows the races, and two handlers with the ticker and `Boot` are the racing parties (what holds for several
IPs is proved, not only checked). In `AutoBan` a window of one unit with three units of time lets times grow old,
two handlers are the parties at the mutex, and three connections fill the longest window. The hub's queue and buffers fill, overflow and drain within 3 messages, and the
second browser is there to be unharmed. Three connections of two keys make one key be counted twice while the other
makes the slice grow; a channel of one slot makes `Emit` wait. Two connections of one key are the least for
`update_ip` to meet `new_ip`; the browser may come and go at every moment. Addresses
share nothing in `GeoLookup`, so one shows everything TLC can find; an old entry, a caller that replaces it, one that
queries again and one that only reads are the parties of every race there. In `GeoQuery` two
failures trip a breaker instead of three, which two queries can give and take back in any order; a query whose sources
are done begins again, so one from before a reload still reports while the other is asked after it. Two saves at once, one
that comes later and alone, and a restart in between are all that `GeoCacheFile` needs. In `DemoTour` one far and one near event
are enough for one tour to overtake another in each of its stages, and each comes again and again. In `Globe` the four
records hold two at one place, one at a cluster's and one at an arc's distance; three at a time make a cluster, its
neighbour and an outsider. From the near camera one of the two servers is beside the screen and its label still in the
way. In the dialogs two calls are the least that can cross; an empty text, a full one and another tell a file that was
emptied from one that was not. In `BaseLayer` two remote layers with two loads each meet in every order.

Named bounds: `MaxStrikes` (no ban is requested of an IP with more strikes), `MaxMessages` (messages emitted), in
`AutoBan` `MaxTime` (the clock stops), `MaxUnspent` and `MaxBlocked` (no connection comes while more are unspent or
were blocked), `MaxWait` (a goroutine that read the clock, or is about to, goes on within this time), in `Globe`
`MaxRecords`, in `BaseLayer` `MaxLoads`, in `GeoCacheFile` `MaxStarts`, in `GeoQuery` `Reloaded` (which round's
sources are reloaded), in the dialogs `MaxCalls` and `MaxScriptCalls` (calls under way) and `Visits`
(which dialogs one behaviour opens; the two share nothing but `modal`); all
other constants are parameters of the code (`QueueSize`, `BufferSize`, `Greetings`, `WireSize`, `SuppressFor`, `IdleAfter`, `LabelLimit`) or sets of actors.

### Fairness

- `BanManager`: every goroutine that has started runs on (`WF` of its `Work`), the ticker fires again and again, and
  systemd restarts the service (README.md:326, `Restart=on-failure`; a stop by hand is followed by a start by hand).
  Nothing is assumed of requests, of time, or of stops.
- `AutoBan` states no liveness and assumes no fairness.
- `Hub`: `Run`, the handler, and each pump run on unless they wait in a channel, or in a write that the browser does
  not read. `Written` has no fairness, because there is no write deadline: the browser may never read. Go's `select`
  chooses at random among ready cases, so weak fairness of `Run` as a whole would be less than what it gives; it
  suffices here.
- `GeoLookup`: a goroutine that began goes on, its queries included, because `queryAll` and `enrichAll` stop waiting
  after `queryTimeout`. Nobody has to begin, and time need not pass.
- `GeoQuery`: the caller of a query goes on (`WF`; its loops end, and the timers of `time.After` fire). Nothing is
  assumed of the sources. `QueriesEnd` is what `GeoLookup` assumes of its step `Query`.
- `GeoCacheFile` states no liveness and assumes no fairness.
- `DemoTour`: React runs the effects of a render (`WF`) and renders a state that waits long enough although other
  changes keep being rendered (`SF`: its lanes expire); flights, pauses, frames and timers come round although messages
  keep coming (`SF`), which holds while the page is visible; flights and drawings have watchdogs. Nothing is assumed of
  connections, the mode or the server's place.
- `Globe`, `BaseLayer` and `Dialogs` state no liveness and assume no fairness: a service need not answer.

### What the code does not keep

Sentences of the documentation or of a comment that the program does not keep. Each is stated as a definition in its
module. `BanEnforced` has a run of its own; TLC refutes each of the others when it is the only property of the named
configuration.

| Definition | Configuration | Sentence | What happens |
|---|---|---|---|
| `BanEnforced` | `BanEnforced.cfg` | README.md:62, the chain does the blocking in iptables mode | the expiry loop lists an IP as expired, the IP is banned again (its rule is still there or is added), the loop deletes the rule: an active ban without a rule until the next synchronisation |
| `BanDurable` | `BanSafety.cfg` | README.md:19, ban state is kept in SQLite | `Unban` leaves its critical section, another request bans the IP and upserts the row, `ClearBan` clears it: banned until the restart only |
| `LapsedRuleRemoved` | `BanLive.cfg` | README.md:377, the rule of an expired ban is deleted | a ban has read `iptables` as the mode, a save switches to plugin mode and flushes, the ban appends its rule; the expiry loop is idle in plugin mode |
| `AllRecordsAreCurrent` | `TrackerSafety.cfg` | tracker.go:41, `AllRecords` is a snapshot of all records | the slice grows, the index keeps pointing into the old array, later counts and locations never reach the snapshot, so a browser that connects later sees old counts |
| `ActiveChangesArePushed` | `DashboardSafety.cfg` | README.md:10, changes of the active connections are pushed | an event between `Register` and `active_init` is overwritten by the older snapshot; or `connection_opened`, emitted after the mutex is released, follows `connection_closed` and a closed connection stays on the screen |
| `TourPlaysOut` | `DemoTour.cfg` | CesiumGlobe.tsx:883, events are consumed one after another | a connection is rendered after a tour was taken from the queue and before `demoBusy` is: the next tour supersedes the one that has just begun |
| `EveryAreaHasAnArc` | `Globe.cfg` | CesiumGlobe.tsx:585, the most important arc within the distance is kept; 628, sources near the server have none | arcs are thinned out first: a group gives way to one near the server, whose arc is then deleted |
| `ChoiceIsOnTop` | `Page.cfg` | README.md:414, a changed hash takes effect at once | a remote provider that answers late is put on top of the layer that was chosen since |
| `NewFileIsShown` | `Page.cfg` | LuaModal.tsx:63, a new file is created with its template | the server answers 404, `openFile` catches it without opening the file, and the template goes into whatever is open |
| `UnsavedTextIsAskedFor` | `Page.cfg` | LuaModal.tsx:48, unsaved text is given up only after a question | a hash that hides the user interface, or the late answer of a save-and-close in the settings, closes the editor without asking |
| `DefaultIsShown` | `Page.cfg` | README.md:174, China is the default of the home country | a save with the field cleared: the server stores the default, the console goes on with the empty text, for which every client is foreign, until the page is loaded again |
| `FileAlwaysLoads` | `GeoInside.cfg` | README.md:196, the cache is kept in its file; main.go:396, it is saved before the program exits | one save has opened the temporary file when another renames it: the cache file is what the first is about to write, and a stop before that leaves it empty |
| `TripLastsCooldown` | `GeoInside.cfg` | breaker.go:19, a breaker that tripped cools down and is probed | a slow answer of a call from before the trip closes the breaker at once |

Two more came up without being a property: the popup asks the map of connections for an IP, but its keys are remote
addresses (CesiumGlobe.tsx:956, 1377), so no client is ever shown as active there; and a server that moves gets a new
Viewer without a base layer until another is chosen, because the imagery effect does not depend on the position
(CesiumGlobe.tsx:472; `BaseLayer` models it as `RebuildViewer` with `gone`).

## Proofs

TLAPS proves the following for every value of the constants (every number of IPs, handlers, browsers, connections,
keys, events, records, layers, files, sources and savers, every capacity, radius and number of calls). These are all
the invariants and action properties of the passing runs, the refinement of `Feed`, and a few more. The assumptions
are the `ASSUME`s of the modules: names are distinct, sets have the types of their code, capacities are positive, the
keys of the tracker are finitely many and `append` makes room.

| Theorem | Property | Further assumption |
|---|---|---|
| `BanManagerProofs!TypeCorrect` | `TypeOK` | |
| `BanManagerProofs!RulesAreRecorded` | `RulesHaveRecords` | `~DbMayFail` |
| `BanManagerProofs!LiftedBansStayLifted` | `DiskBanIsLive` | `~DbMayFail` |
| `BanManagerProofs!StrikesAreKept` | `StrikesNeverForgotten` | `~DbMayFail` |
| `BanManagerProofs!BootIsEnforced` | `BootEnforcesBans` | |
| `HubProofs!TypeCorrect` | `TypeOK` | |
| `HubProofs!RunNeverMeetsClosedChannels` | `ServedChannelsAreOpen` | |
| `HubProofs!OnlyOverflowMakesPanics` | `OnlyOverflowPanics` | |
| `HubProofs!HubImplementsFeed` | `FeedSpec` | |
| `TrackerProofs!TypeCorrect` | `TypeOK` | |
| `TrackerProofs!ActiveConnectionsAreFrps` | `ActiveTracksFrps` | |
| `TrackerProofs!CountsAreAnnounced` | `EveryCountAnnouncedOnce` | |
| `TrackerProofs!LagIsBounded` | `OnlyOldRecordsLag` | |
| `TrackerProofs!DashboardTypes` | `ScreenTypeOK` | |
| `TrackerProofs!CalmHeals` | `CalmGreetingHeals` | |
| `TrackerProofs!ShownHappened` | `ShownConnectionsHappened` | |
| `TrackerProofs!NewcomersAreShownOnce` | `NewcomersShownOnce` | |
| `GeoLookupProofs!TypeCorrect` | `TypeOK` | |
| `GeoLookupProofs!QueriesAreSingle` | `OneQueryPerIP` | |
| `GeoLookupProofs!NobodyWaitsInVain` | `WaitersHaveOwner` (the safety half of `LookupsReturn`) | |
| `GeoLookupProofs!AnswersAreShared` | `WaitersShareAnswer` | |
| `GeoLookupProofs!MonotonicAnswers` | `AnswersNeverGoBack` | |
| `AutoBanProofs!AutoBansAreEarned` | `BansAreEarned` | |
| `AutoBanProofs!ConnectionsCountOnce` | `CountsSpentOnce` | |
| `AutoBanProofs!WindowsStayShort` | `WindowsAreBounded` | |
| `AutoBanProofs!WhitelistHolds` | `ExemptPasses` | |
| `AutoBanProofs!BansHold` | `BannedStaysOut` | |
| `AutoBanProofs!TypeCorrect` | `TypeOK` | |
| `AutoBanProofs!BansNeverShrink` | `NoShorterBan` | |
| `AutoBanProofs!RejectionsAreLogged` | `RejectionsAddUp` | |
| `AutoBanProofs!EscalationDoubles` | `escalatingMinutes` (each further strike doubles the ban, up to the cap) | |
| `DemoTourProofs!OffStaysStill` | `OffMeansStill` | |
| `DemoTourProofs!OneHandOnly` | `OneHandOnTheCamera` | |
| `DemoTourProofs!IdleNeedsSilence` | `IdleOnlyAfterSilence` | |
| `DemoTourProofs!CameraIsGivenBack` | `CameraGivenBack` | |
| `DemoTourProofs!TypeCorrect` | `TypeOK` | |
| `PageProofs!SceneAlwaysFresh` | `SceneIsFresh` | |
| `PageProofs!ClickAlwaysFinds` | `ClickFindsGroup` | |
| `PageProofs!ClustersAlwaysApart` | `ClustersApart` | |
| `PageProofs!HiddenAlwaysForAReason` | `HiddenForAReason` | |
| `PageProofs!LabelsAlwaysApart` | `LabelsApart` | |
| `PageProofs!TypesHold` | `BaseTypeOK` | |
| `PageProofs!LayersFollow` | `LayersFollowTheChoice` | |
| `PageProofs!ChoiceIsOne` | `PickerAgrees` | |
| `PageProofs!ConsoleIsTold` | `ConsoleShowsWhatIsSaved` | |
| `PageProofs!CleanIsSaved` | `CleanMeansSaved` | |
| `GeoInsideProofs!QueryTypes` | `TypeOK` | |
| `GeoInsideProofs!TrippedArePassedOver` | `PassedOverIfTripped` | |
| `GeoInsideProofs!NoAnswerIsLost` | `AnswersAreUsed` | |
| `GeoInsideProofs!FileIsComplete` | `FileIsLastSave` | |
| `GeoInsideProofs!LagIsBounded` | `FileLagsLittle` | |
| `GeoInsideProofs!FileTypes` | `FileTypeOK` | |

`~DbMayFail` is needed: after a failed statement map and table differ, and a restart forgets the strike that
only the map had.

The arguments:

- `DiskInv` (in `BanManager`) is the invariant behind the three theorems about the table. A rule belongs to a row
  because `Block` runs only after `UpsertBan` and no step deletes a row; to prove it, every goroutine that is about to
  block must be known to work on a counted IP (`BlocksAreCounted`), map and table must have the same strikes
  (`SameStrikes`), and nothing may run while the server is down (`JobsMatchServer`).
- `BootInv` describes the start-up half-way: the chain holds the rules of the bans already visited and none of those
  still to come (`BootProgress`). Nothing else touches the chain meanwhile.
- `Inv` (in `AutoBanProofs`) has the types the arguments need, where each goroutine may be and since when
  (`JobShape`), and `NearlySorted`: no time in a window is later than another behind it by more than `MaxWait`,
  because whoever appends has waited no longer. With that, and `TrimmedFacts` (the loop finds exactly one place to
  stop, the last time is kept), everything behind the first kept time is recent enough. `WatchIsCurrent` ties `since`
  to the present, so that each check of a request must come out as the history says.
- `GreetInv` (in `HubProofs`) says where the pumps and the handler are with respect to a closed channel; until the
  pumps start nobody takes from the channel, so one that was closed by overflow is still full. `FeedInv` says that the
  numbers in a client's channel are consecutive: behind the last one it read, up to the one `Run` is distributing.
- `AnswersFollowTracking` (in `Tracker`) orders answer and bookkeeping; the other theorems about the tracker are
  inductive together with the types. `OnlyOldRecordsLag` is one of them: a growth leaves behind exactly the records that
  were there, so their number is the length from which `NextCap` made the present capacity, whatever that function is.
- `CallsInv` (in `GeoLookupProofs`) says what an owner has done at each of its steps: cached before published,
  published before closed; and that a call somebody waits for is owned or closed. `RankInv` adds the ranks: what is
  cached is the newest that ever was, a query under way is newer still, and whatever a caller holds is at least as new
  as what it must not go back behind. An eviction only takes away, so the late one does no harm.
- `IInv` (in `DemoTourProofs`) says what the effects still to run will see. The store does not change under them
  (`StoreWaits`); effects with a common dependency wait together (`Together`), so while `activity` has not run the
  idle effect has not either, and its timer is off; and `TimerIsLate` bounds the timer from below: what is left of it
  and the age of the last activity make up the silence asked for. `SinceIsRecent` then turns the end of the timer into
  silence. Most steps change nothing these conjuncts speak of but hands of the camera; `QuietIInv` treats them at
  once.
- `CameraInv` (in `DemoTourProofs`) rests on `IInv` and says who has the camera. A tour under way has taken the queue,
  and as long as its busy state is not rendered no time has passed since it began (`TourIsBusy`). So an idle timer
  that is still armed with the old render cannot have run out, and the flight to the overview never takes the camera
  from a tour; the other way round, the consumer runs only with something in the rendered queue, when the idle effect
  has nothing under way. That a new tour overtakes an old one does no harm: the old one's promise and frames find it
  no longer current, and only let go.
- `GivenBackInv` (in `DemoTourProofs`): the queue holds each event once and none that has a tour (`QueueWaits`), and
  as long as the consumer is to run it is the one that was rendered. So the event that is taken is out of the filtered
  queue and no event is taken again while its tour runs; what ends a drawing gives the camera back.
- `SceneInv` (in `PageProofs`): a point that is kept has the wanted state and label, and its priority, which is not
  compared, follows from its state (`PointsAgree`); an arc wears exactly the glow and the crosses of its state
  (`ArcsAreDressed`), so comparing the state and the glow is enough. How groups and representatives are formed is
  irrelevant here: these folds are never expanded.
- `ClusteredFacts` expands them, for a store without duplicates (`StoreOk`). What a fold does to a list is a recursion
  over its length, which SMT does not unfold; `Unfolds` states that a table of its intermediate results exists, and
  each property of the table is a set of lengths that holds 0 and the successor of each of its members, hence all
  (`SetInduction`, from the natural numbers' own induction, with a set where the library has an operator). The
  induction carries that the clusters so far lie apart, hold the places seen so far, each once, and that none of these
  is more important than the centre that took it in (`GatherFacts`); a stable sort by priority in front of it gives
  the last part.
- `LabelInv`: the order of drawing is that of the points (`OrderOk`); the declutter is again a fold over the
  candidates, best first, whose table holds at each length that a label passed over had a reason among those shown
  before it. `RoomInv` carries the same table's other half: those shown do not overlap.
- `LayersFollow` is inductive with the types: the stack holds the applied layer, or one more answer of it is to come.
- `SettingsInv`: unless something failed or crossed, at most one call under way changes anything, and before the
  server has done it the console is where the server is, afterwards the call's answer takes it there. It is carried
  through answers taken off from the middle of the calls (`AnswerTaken`) and through dialogs that are gone. A default is
  applied to what is there, which changes nothing where it has been applied before (`DefaultedTwice`).
- `LuaInv` does the same for the editor: one call at a time unless they crossed, and `original` is the text of the
  open file except from the first half of a save, or a deletion, to its answer; between the halves the file is empty,
  so the second one leaves what was sent.
- `CalmInv` (in `TrackerProofs`): since a greeting began in silence nothing has happened, so each half of it is what
  the tracker still lists; `LagInv`, which holds of `Tracker` alone, says what that is.
- `PastInv`: whatever a record is on its way in (list, held greeting, store, goroutine, wire), its count is one the
  tracker has reached and its place one it has found; the tracker forgets neither (`OwnGrows`).
- `NewcomerInv` counts where the first announcement of a key can be: at one goroutine that is to emit it, in one slot
  of the wire, or in the store, never at two places (`OnceUnderWay`); nobody else can add the key to the list of a
  browser that is greeted, because `update_ip` only changes what is there.
- `BansLast` (in `AutoBanProofs`): a ban ends no later than one of its strikes pronounced now. The next one is dated
  `MaxWait` ago at most (`JobShape`), and lasts at least as long because the escalation grows. `escalatingMinutes` is
  a recursive function with a bound that depends on its argument; `RepeatsOnce` and `RepeatsForever` show that the
  loop of ban.go:112 has a table of values, `EscalationGrows` that it never falls, both by `SetInduction`. That a
  duration is a number gives `TypeOK`.
- `RejectInv`: the goroutines between the counter and the log are what the two differ by; they are finitely many, as
  each step adds one at most.
- `BreakerInv` (in `GeoInsideProofs`): a breaker's counter and clock are its history, and it is open as long as it is
  tripped; `LoopInv`: a source the loop has yet to come to has not been asked yet, so each is asked once. `AnswerInv`:
  what a query was told is in its results or with a goroutine that waits for the mutex, and unless a deadline passed
  no such goroutine is left when a round is over.
- `SavesInv`: every inode has the descriptor, the temporary name or the name of the cache file for a reason; a save
  that met no other is the only one that runs, so the temporary file is its own, and nobody else can still write into
  the file with the cache's name. `LagInv` (in `GeoInsideProofs`): what the next snapshot would add is counted by
  `newOps`, except what goroutines are about to count, unless a save is due or runs. This is where increments
  swallowed by a reset are accounted for.

The invariants were checked with TLC on the instances of the runs as well (with `Seq(S)`, which TLC cannot enumerate,
replaced by the range).

What is model-checked only: liveness under fairness, which the prover does not handle (`StaleRuleHeals`,
`EmitIsNeverStuck`, `GoneBrowsersLeave`, `LookupsReturn`, `EveryLineGoes`, `QueueIsFreed`, `SilenceBringsOverview`);
of the properties no run lists, `DuplicateRulesBounded` (a counting argument over threads) and
`EscalationIsCappedDoubling` (powers of two, of which the provers know nothing). The theorems about the table of bans
need `~DbMayFail`; the runs `BanSafety` and `BanEnforced` have it, `BanLive` does not.

## Not modelled

- Voting, scoring and experience (`voting.go`, `scoring.go`, `experience.go`) and the content of answers:
  floating-point weights over the answers of one query, sequential, within reach of unit tests, of which the repository
  has none for them.
- Which half-open breaker is probed by how many: any number of callers may pass it until one reports; no document
  says otherwise.
- `backfillGeo` and the event log's ring: they change what a list shows of a rejection, nothing reads it back.
- Sessions, passwords, `App.tsx` and the login page: stateless checks around libraries, one flag in the browser.
- HTTP routing, static files, MMDB files and their download, the Lua interpreter and the scripts: I/O and third-party
  code; each provider is an answer or a failure to the rest.
- The firewall dialog, the lists, the side panel and the log: they show what the stores hold; the list of bans is
  polled and replaced as a whole (two answers that cross show the older list until the next poll, firewallStore.ts:18), and the requests behind the buttons are actions of `BanManager`.
- The rest of the demonstration and the globe: colours, easing, heights of arcs, the popup's layout, the help page.

## Running

    tlc -config BanSafety.cfg MCBanManager      # and likewise for the other runs
    tlapm BanManagerProofs.tla                  # and the other modules of proofs
