# mdsmith in TLA+

mdsmith is a Markdown linter written in Go. The same engine runs as a one-shot
command (`mdsmith check`, `mdsmith fix`), as a language server inside an editor
(`mdsmith lsp`), and compiled to WebAssembly. This directory models the parts of
it whose correctness depends on the order in which things happen: the language
server and its hand-over to a newer one, the caches several goroutines share, the
workers of a run, and the loops that must converge.

Each module is a state machine translated from the Go code. TLC checks it on
small instances; for the modules that have a `_proofs` companion, TLAPS proves
the main invariants for every value of the constants.

## The system

| Part | State it keeps | Operations | Works with | What is hard | What makes it correct |
|---|---|---|---|---|---|
| LSP server, diagnostics pipeline (`internal/lsp/server_diagnostics.go`, `documents.go`) | open documents, one pending token and timer per document, cached diagnostics, run mode, shutdown flag | schedule, fire, lint, publish, clear, stop | session, client | timers, lint goroutines and request handlers interleave | nothing stays on screen in off mode; no edit goes unlinted; a closed document shows nothing |
| LSP server, session (`server_session.go`) | current session, config path, settings, pending responses | fetch settings, reload config, rebuild session, deliver response | diagnostics, documents, `pkg/mdsmith` | a session is swapped while handlers hold the old one; a late answer after a timeout | the session a lint uses has the open buffers and the current config |
| LSP server, requests (`internal/lsp/*.go`) | symbol index, open documents | hover, rename, code actions, completion, symbols, watched files | index, session | the index changes under a request | an edit computed from an index is valid for the buffer it is applied to |
| LSP singleton (`singleton.go`, `parentwatch.go`, `editors/vscode`) | an owner record per workspace; in the extension, a client and its restart count | claim, poll, step aside, exit with the parent; restart | other server processes, the editor | processes race, crash and restart; windows leak their host | the newest server stays, the others leave, and leaving starts no new one |
| Session (`pkg/mdsmith/session.go`, `overlay.go`) | overlay of open buffers, check cache, run cache, parse cache | Check, CheckVersion, Fix, Invalidate, Dispose | engine, caches | a check in flight across an Invalidate | a check that starts after an Invalidate sees the new content |
| Run cache (`internal/lint/runcache.go`) | once-slots per path, per scope and per corpus; schema dependency index | lookup, Invalidate | rules that read other files | slots filled while they are being emptied | no lookup after an Invalidate sees the old file |
| Parse cache (`internal/lint/parsecache.go`) | one parse and a watermark per path | Get, Put, Invalidate, InvalidateAll | engine, session | a slow parse lands late | a hit returns the parse of the caller's own text |
| Engine runner (`internal/engine`) | a worker pool's cursor and outcomes, pooled source buffers, configuration caches | Run, RunSource | rules, caches | workers race, one panics | each file has the outcome it has alone |
| Fix loop (`internal/fix`) | the text between passes | order, read, fix, write, check, again | rules | rules undo each other; files copy from each other; reads and writes fail | it stops; what it reports is the tree it leaves; nothing is left to fix |
| Symbol index (`internal/index`, `internal/linkgraph`, `lsp/symbols.go`) | an entry per file: symbols, links, kinds | build, update, remove, drop | LSP | updates from the buffer and from the disk interleave with a build and with reloads | it is what a build from nothing would make |
| Rename (`internal/rename`) | none | plan, apply | index, files | a write fails half-way | all references move, or the failure is reported |
| Build orchestrator (`internal/build`) | target graph, hashes, outputs | plan, run, stage, commit | recipes (external processes) | a recipe fails or is killed; stale outputs | an output is rebuilt exactly when an input changed |
| Config (`internal/config`, `internal/convention`, `internal/rulelayer`) | the merged configuration | load, extends chain, merge, resolve kinds | everything | cycles, precedence | the nearest layer wins |
| Schema (`internal/schema`, `cue/cuelite`) | parsed schema, matcher state | parse, compose, match, compile | rules | recursion, backtracking | a document matches iff some assignment of its headings does |
| Rules (`internal/rules`) | none between files | check, fix | engine | fixes of one rule trigger another | a fixed file has no finding of the rule that fixed it |
| Markdown parser (`pkg/goldmark`, `pkg/markdown`) | the AST | parse | rules | third-party fork | CommonMark |
| Release and repository tooling (`internal/release`, `cmd/mdsmith-release`, `internal/secreview`, `internal/corpus`) | release state on GitHub, files | plan, publish | external services | retries | outside the linter |

The parts meet in three places. In the server, one goroutine reads requests and
every notification handler runs on it, while lints, settings exchanges and timers
run on goroutines of their own and share the documents, the pending tokens and the
session through separate mutexes. In a session, every lint reads other files through
the run cache, which the handlers empty when a file changes. In a run of `check` or
`fix` the workers share a counter, a pool of buffers and the run cache, and the files of
a workspace copy from each other.

## Modules

### `LspDiagnostics`

`internal/lsp/server_diagnostics.go` with the handlers that call it. The state is
the set of open documents with their generation (`documentStore`), the tokens of
`pending` with their timers, the lint goroutines in flight, the diagnostics the
client shows and those the hover cache holds, the run mode, and the settings
exchanges under way. Every lock region of the code is one action, and what runs
between two lock regions is an action boundary: a lint reads its document in
`LintStart`, computes in `LintCheck`, and publishes in `LintPublish`; a close is
`DidClose`, `CloseCancel`, `CloseUncache`, `ClosePublish`. The text of a document is
its generation, a finding is the generation it was computed from.

### `FreshReads` and `RunCache`

`FreshReads` is what a read cache with invalidation promises: a read that begins
after an invalidation returned answers with that version of the file or a newer one,
for each file it looked at. `RunCache` is `internal/lint/runcache.go`: per-file slots
and the corpus index that MDS037 builds from them. An entry is an object with a value,
a done flag and a mutex, and a goroutine keeps the entry it found after `Invalidate`
has taken it out of the map, which is the whole difficulty. `RunCache` implements
`FreshReads` (`ImplementsFreshReads`).

The constant `Snapshots` chooses how a build reads the file. FALSE: as it is when it
is read, which is how every file not open in the editor is read. TRUE: from the overlay
snapshot the Check took when it began, which is how an open buffer is read; then
the promise fails (`MCRunCache_snapshot`).

### `SchemaCache`

The schema slots of the same file, with the include walk of
`internal/rules/requiredstructure/rule.go` that fills them. A check of a document takes
a snapshot (`BeginCheck`), reads the schema's bytes (`ReadRaw`, `cachedRawSchema`), finds or
creates the parsed slot (`Load`, `Hit`, `BeginParse`), expands one include at a time
(`Expand`, `expandSchemaInclude`), and then registers the parse with every fragment it
reached (`StoreIncludes`, `Register`, one `depsMu` region each). `Invalidate`
(`BeginInvalidate`) is recursive over the reverse-include index, so its stack is state:
one frame per path, since the visited set lets a call enter a path once, and each map
operation of a frame is a step. What a version of a file says is a constant (`Content`):
its includes, and whether it parses. A parse remembers which version it read of each
file; that, and the flags `raced` and `overlap`, are history.

### `ParseCache` and `DocumentParses`

`ParseCache` is `internal/lint/parsecache.go`: `Get`, `Put` and `Clear` (Invalidate) as
operators on the slot of one path, since each of them runs under the cache's mutex.
`DocumentParses` is the protocol around it: the handlers of
`internal/lsp/server_documents.go` change the store and then invalidate, in two steps,
while lints read a version, look it up and put a parse of it. A text is a pair of an
opening and a version, because the client starts again at version 1 when it reopens a
document.

### `Session`

`pkg/mdsmith/session.go` with `overlay.go`: the open buffers, the results by content,
the parses by version and the cross-file reads, under checks that overlap the
`Invalidate` of an edit. `Invalidate` is four steps (`SetBuffer`, `DropSlots`,
`DropParse`, `DropChecks`), a check one step per cache it touches. A parsed file carries
the workspace snapshot it was made with, which is what makes a parse-cache hit more than
a parse (`Parse`, `parseForSource` in `internal/engine/runner.go`).

### `LspSession`

`server_session.go` with the document handlers of `server_documents.go`: the
configuration in force, the published session with its overlay, and the goroutines that
rebuild it. A reload is `Resolve`, `Store`, `Build`, one `Seed` per open document,
`Publish` and `Notify` (`reloadConfig`, `rebuildSession`), on the handler goroutine or
on one that fetches settings (`FetchApply`, `FetchReload`). A session is also built on
demand, by a lint or a handler that finds none (`FindSession`, `Lookup`,
`currentSession`). A document handler changes the store (`DidOpen` and the others), is
handed a session, reads the root of the configuration (`ReadRoot`, `snapshotConfig`) and
writes the overlay under the name the document has from there (`Sync`,
`Session.Invalidate`). `Key` is `workspaceRelative`: two documents may have the same name
seen from two roots, which is what a late write can confuse. The flags `crossed` and
`torn` are history, and `dirty` is the client's knowledge of its unsaved buffers.

### `BuildPass`

The build half of `mdsmith fix` (`cmd/mdsmith/buildpass.go`, `buildjobs.go`,
`internal/build/staleness.go`, `builder.go`, `cache.go`). Targets are judged (`Judge`),
run (`Begin`, `RunRecipe`), their outputs committed file by file (`Commit`, `Copy`),
compared when the flag asks for a second run (`Committed`), and recorded (`Record`); the
cache is saved at the end (`EndPass`). People edit files and the process is killed
between any two of these steps (`Edit`, `Crash`). A hash is the content itself, so
hash collisions are left out; a recipe is an unknown function of the contents it reads
(`Make`). With `--build-jobs` above one the targets are judged before any of them runs.
The flags an entry carries besides its hashes are history: whether anything changed
an input or an output while the run it records was under way.

### `FixLoop`

`internal/fix/fix.go` over a tree of files. A file is its own text, given as the set of
issues and facts it holds, and its sections, generated from other files as they are on
disk (`Regenerated`). There are three kinds of them.

- An include is expanded through the includes of its target, up to `maxIncludeDepth`
  (`Chains`, `Expansion`). What it puts down for each file it reaches is a `Copy`: the own
  text without its front matter, the catalogs of that file *as they are on disk*, since
  only includes are expanded (`internal/rules/include/rule.go:524`), and its extracts made
  anew.
- An include with `extract:` puts down one leaf of its target (`Leaf`), taken from what
  the target holds on disk, sections included. It ends the chain: the target is neither
  expanded nor remembered for the check of cycles (`rule.go:354`), so a file may well
  extract from one that extracts from it.
- A catalog puts down the front matter of the files it lists (`Listed`).

A directive may be `Refused`, and then its section keeps what it holds: an include one of
whose chains is too long, comes back or ends nowhere (`Unusable`), an extract, also one
inside an expanded file, that finds no leaf (`Projects`), a catalog of a file whose
includes lead to the catalog's own (`Leads`), and one that lists nothing any more. A run goes over the files in the order
given or leaves first (`DependencyOrder`, Kahn's algorithm with its queue), one file
being `Read`, `Fix` (the check before, the directives, up to ten passes of the rules and
the restoration of foreign regions), `Write` and `Recheck`; `EndPass` decides whether
there is another pass. What a fix leaves behind is a constant (`Spawn`), so that rules
may undo each other for ever. People save files between any two steps (`Save`), reads
and writes fail, and the process may be killed.

### `NewestWins` and `HandOver`

`HandOver` is the life of the servers of one workspace, with the editors that start
them: `internal/lsp/singleton.go` (the claim through a temporary file of one's own and a
rename, the poll, the word to the client and the exit), `parentwatch.go`, and the part of
the VS Code extension that decides whether a closed connection is restarted
(`decideClose`). The registry is the files of the user's cache directory: a temporary
file per server and one owner record. A window closes with its host, or leaks it, and a
leaked host may or may not go on reading (`Close`). Servers crash, claims fail, the
registry is wiped. `NewestWins` is what all that is for: servers claim one after another
and only one that is not the last steps aside. `HandOver` implements it (`NewestStays`).

### `EngineRun`

`engine.Runner.Run` (`internal/engine/runner.go` and `runner_cache.go`, with
`internal/checker`): workers take files off one counter,
each file going through `Take`, `Draw` (`sync.Pool.Get`), `Read`, `LoadEffective`,
`StoreEffective`, `Configure`, a `Start` and a `Finish` per rule, `Walk`, and one of
`Return`, `Fail` and `Recover`. A buffer holds the file it was read from last, and a rule
finds what is in the buffer *now*, so a buffer used by two workers would show. A panic is
caught around a rule when rules run on goroutines and around the file when they do not
(`Finish`, `Walk`, `Recover`); a target several files read through the run cache may be
bad, and then whoever builds or reads it panics. `Merge` is the end of `Run`. A line is a
small number that `AdjustDiagnostics` moves by the front matter.

### `LspIndex`

The symbol index of the server (`internal/lsp/symbols.go`) under the notifications of
`server_documents.go`: the first request builds it, file by file (`ensureIndex`,
`buildIndexFromDisk`), lays the open buffers over it and publishes it (`publishIndex`);
every message then updates the entry of its file, and a changed configuration file drops
the whole (`handleWatchedConfig`, `StoreConfig`). Messages are handled one at a time, but
a build is as many steps as there are files, other programs write files meanwhile, and a
settings reload changes the configuration on a goroutine of its own (`ResolveSettings`,
`StoreSettings`). A file's name depends on the root, which depends on where the
configuration was found, so two files can have one name in turn. An entry is the text it
was made from and the kinds the configuration gives the file.

## Runs

| Run | Instance | What it shows |
|---|---|---|
| `diag_live` | one document, two generations of which the first panics, two lints, one settings exchange, fair | `PendingIsLive`: no path leaves a token whose timer it stopped. `EditCovered`: in `onType` mode the open generation was published or a lint that will read it is on its way. `OffIsLastWord`: in off mode nothing stays on screen. `EditIsAnswered`: when the client rests it is published |
| `runcache_safety` | two files of which one changes, two readers, one invalidating goroutine | `ReadIsFresh`, `OneBuilder`, and the refinement `ImplementsFreshReads` |
| `schema_safety` | two schemas and a fragment, edits that add an include and close a cycle, a fragment that is broken at first, one check | `OnlyRacesAreStale`, `IndexIsExact` |
| `parse_safety` | three lints, three versions, two openings | `WatermarkHolds`, `OnlyLatePutsMislead` |
| `session_mixed` | two documents, two edits each, one caller that mixes both entry points | `QuietInvalidateHeals` |
| `lsp_session` | two documents with two texts, a configuration in a folder that the client may name, one fetching goroutine, one lint; at most two goroutines at work at once | `OnlyCrossedDiffer`: the published session is that of the configuration in force unless rebuilds overlapped. `OnlyTornMislead`: cross-file rules read every document from its newest text unless its last handler overlapped a rebuild |
| `build_pass` | two targets, the second made from the output of the first and with two outputs; passes plain, `--build-verify`, `--build-no-cache`, and `--build-force` with two jobs; one edit | `OnlyDisturbedLie`, `CleanPassIsFresh` |
| `fix_loop` | three files: `a` includes `b`, `c` and a missing target, `b` includes `c` and extracts from it (`MCFan`); or `a` includes itself, extracts from `b` and lists itself, `b` includes `c`, which lists itself and builds from `a` (`MCDraw`); two runs, one save, one failure or crash; four issues that leave each other behind for ever | `ReportIsTheTree`: the diagnostics of the last pass are those of the tree it leaves. `NothingLeftToFix`: once it returns, fixing again changes nothing, unless sections that are copied as they are stand behind one another too often for the passes. `SettlesSoon`: three passes are enough, and one more for each time they do; two are enough leaves first, when the order sees all that is copied. `OnlyRacedSavesAreLost`: a save is lost only between the read and the write of its file. `Ends` |
| `hand_over` | two hosts, three servers, two troubles, one restart by hand and one after a close | `NewestStays` (the refinement of `NewestWins`), `SpawnsAreCalledFor`, and under fairness `OneRemains` and `OrphansEnd` |
| `lsp_index` | two files, one in a directory with its own configuration, one ignored; four events | `BuffersAreLive`: whatever overlaps, the index answers for an open document with its buffer. `OnlyIgnoredLinger`: once the server has been told of every change, the index is what a build from nothing makes, but for closed files that are ignored |
| `engine_run` | calls over three to five of eight files (some missing, too large, refused, ignored, panicking, sharing a bad target), one or two workers, one or two rules at once | `BufferOwned`, `OutcomeIsItsOwn`: each file has the outcome it has alone; `RunEnds` |
| `engine_snippets` | two files linted by one or two workers | **violated**: `SnippetsAreTrue`, see the finding |

Why the bounds are enough to meet the interesting cases:

- Two lint goroutines are what it takes for one to be overtaken by another, and two
  generations for the overtaken one to matter; the first panics, so that an edit can
  follow a panic. One settings exchange is
  enough to race with the request handlers. `EditCovered` assumes that exchanges do not
  overlap; `MCLspDiagnostics_limits` shows what two of them do. That a clear or a reschedule walks
  over several documents is left to the proofs, which are for any number of them.
- In the run cache a read can be stale only through an entry that left the map while
  someone held it: that takes one file with one edit, one goroutine that builds and one
  that waits. One of the two files changes (`OneChanges`); the aggregate is rebuilt from
  both, so from slots of different ages. Seven entries are more than two readers and three slots can hold at once, so a new entry is
  always at hand.
- `schema_safety` has one check at a time, because what is at stake is the walk of
  Invalidate against the registrations of earlier checks.
  `TwoEdits` lets at most two of the three files change, which includes the pair that
  closes the cycle.
- In `lsp_session` the lower document has, from the folder's root, the name the upper
  one has from the top, so that a key made with one root can hit the other session.
  The folder's configuration comes and goes, and so does the setting that names it, so
  the root moves both ways. `TwoAtWork` lets two of the three goroutines be at work at
  once, which is what it takes for one rebuild to overlap a handler or another rebuild.
  The view drops the files and the host, which no property of the run looks at.
- `MaxEdits = 1` in `build_pass`: one edit at any point of any pass, an output
  included. More edits add no new disturbance to a single record, and crashes and
  failures are not bounded at all.
- In `fix_loop` the passes over the workspace are bounded by 5 (the code has 10) and the
  include depth by 2 (10); the longest chain of `MCFan` has that depth, and one of
  `MCDraw` comes back to its file. In `MCDraw` the catalog of `c` is copied into `b`, as
  it is, and from there into `a`, so copies stand behind one another twice, and five
  passes are what the property then allows. The bound on passes is never met unless the rules undo each other,
  and then it is: what matters is that it can be. A run that follows another starts from
  any tree the first can leave. A save and a failed read or write meet in the first run
  only (`MeetOnce`).
- In `hand_over` the first server is started by one and the same host (`OneStarts`), which
  is no restriction because hosts differ in nothing else. A third server is what it takes for a server to be superseded while it
  is superseding, and two troubles for a wipe and a crash, or two failed claims, to meet.
- `MaxEvents = 4` in `lsp_index`: open, change, change on disk and close, or three of
  them and a change of the configuration. The proofs of its two properties have no bound.
- `engine_run` has a buffer more than it has workers, so that a buffer goes to another
  worker than before. Some files share a signature and some do not; each call is one in
  which a hazard arises: a shared miss, a bad target, a panic beside a file that cannot be
  read, early returns of every kind.
- Symmetry is used over goroutines, lints and paths only where the configuration gives
  them no distinct role and no liveness is checked. The views drop the identity of
  entries, which no property mentions: two states that differ only in which entry plays
  which part have the same future.

`CHECK_DEADLOCK FALSE` stands in the configurations of `LspDiagnostics` (the server stops
after shutdown, and a client that has used up its edits may send nothing more),
`FixLoop`, `EngineRun` (a run ends), `HandOver` (windows and servers are used up) and
`LspIndex` (events are used up).

### Configurations outside the list

These ask narrower or longer questions, and most of them show where the properties above
stop: a stronger one that fails, and why. They are run by hand
(`tlc -config MCRunCache_live.cfg MCRunCache`). Where several properties fail, TLC stops
at the first: `-continue` shows the others, or a copy of the file with one of them.

| Configuration | Result | Shows |
|---|---|---|
| `MCLspDiagnostics_limits` | `NeverOlder` fails | the token orders lints that have not started; two that have (a slow one and the next) publish in either order, and the older may be the last word until the next event |
| | `ClosedShowsNothing` fails | a lint that looked at the store before `didClose` publishes after its empty set |
| | `SilentAfterShutdown` fails | a lint past its shutdown check publishes after the answer |
| | `SettingsReachEveryBuffer` fails | of two exchanges the one that turned linting off can clear after the one that turned it on has rescheduled |
| | `HoverAgrees` fails | the hover cache and the client differ between the two steps of a clear |
| `MCRunCache_live` | `ReadsFinish` holds | an aggregate build that holds its mutex while it waits for others never waits for itself |
| `MCRunCache_snapshot` | `ReadIsFresh` fails | a Check reads open buffers through the snapshot it took when it began; one in flight across an edit fills the slot that Invalidate has just emptied with the old bytes, and later Checks read them from there |
| `MCSchemaCache_live` | `InvalidateReturns` holds | the recursion ends on a cyclic include graph |
| `MCSchemaCache_limits` | `FragmentEvicts` fails | a parse is visible in its slot before it is registered with its fragments; an Invalidate of a fragment in between finds no dependent to evict |
| | `NoDependentIsLost` fails | the drained set is deleted with the registration that arrived meanwhile |
| `MCDocumentParses_limits` | `HitIsOwnText` fails | a lint that outlives a close puts the old text at version 1, and the reopened document at version 1 hits it |
| | `SecondCheckHits` fails | after a save the watermark is one above the version, so the unchanged document is parsed anew on every lint until its next edit |
| `MCSession_limits` | `SessionTypeOK`, `QuietInvalidateHeals` hold | with two callers |
| | `CheckIsFresh` fails | a Check in flight stores its result, and its reads, after the Invalidate that should have dropped them |
| | `NextOperationSees` fails | a parse reused for an unchanged version still reads other documents as they were when it was made |
| `MCLspSession_limits` | `HostFollows` fails | two reloads store their configurations in one order and call `OnConfigReload` in the other, although it is there to "keep the include-extract projector pointing at the active config" (`internal/lsp/server.go:204`) |
| | `HostRecovers` fails | a later reload that runs alone does not repair that: the path it finds has not changed, so it does not call at all |
| | `SessionFollows` fails | of two overlapping reloads one has its configuration in force and the other its session published |
| | `ReloadSeesBuffers` fails | an edit between the copy of the buffers and the publication reaches only the old overlay |
| | `BufferIsAuthoritative` fails | after a save the overlay is gone, so an external edit of a document that is still open reaches the cross-file rules, and the handler for watched files skips it because it is open |
| `MCBuildPass_parallel` | `PairsAreSafe` fails | with `--build-jobs 2` a target may read another target's output before it is made anew; the record hashes the input afterwards, so the entry vouches for outputs made from something else, and later passes skip the target |
| `MCFixLoop_cycle` | `CyclesConverge` fails | three files that extract from each other in a ring, whose sections hold three different texts: see below |
| | `FailuresAreOfTheInput` fails, in place of the other | the failures of the first pass are counted file by file, while earlier files of the pass have already been written: a file that copies from one of them is judged against the new text |
| `HandOver_window` | `WindowKeepsItsServer` fails | a server whose window closed while it was starting (its host dead or leaked) may still claim after the server of the window opened next, which steps aside and is not started again |
| `MCEngineRun_front` | `OncePerRepository` fails | a finding about the repository is told once per file with a front matter: its line is moved by the front matter before duplicates are dropped |
| `MCEngineRun_cap` | `SettingsMakeNoDifference` fails | a rule that panics costs its file everything when rules run one after another, and its own findings only when they run on goroutines |
| `MCLspIndex_limits` | `IgnoredStayOut` fails | the build leaves ignored files out, but a watched change, or the close of one, puts its entry in ("Ignored trees stay out of document outlines and symbol search", `internal/lsp/symbols.go:239`) |
| | `FollowsConfig` fails | a settings reload changes the configuration and leaves the index, although callers are to "rebuild the whole index when the configuration changes" (`internal/index/index.go:10`) |

`MCFixLoop_cycle`: the passes of `mdsmith fix` do not converge every cycle. Where the order
leaves a cycle of files, "The fix workspace fixpoint loop converges these"
(`internal/index/index.go:551`), and "once Fix returns, `mdsmith check` on the same tree
finds nothing left to fix" (`internal/fix/fix.go:244`). A cycle of plain includes is
told and leaves its sections alone, but one of extracts is not: each reads its leaf from
the target as it is, and a leaf may be what a section of the target holds. Three files
that extract from each other in a ring, whose sections hold three different texts, hand
these texts on in every pass, and the ten passes end with sections that are out of date.

## Finding

`engine_snippets`: the source lines shown with a finding may be those of another file.
`PopulateSourceContext` (`internal/checker/checker.go:548`) gives each diagnostic strings
that are views of the file's source buffer; `lintFile` returns the buffer to the pool
when it returns, the next file that draws it is read over them, and the diagnostics are
printed when all files are done. The comment that makes the pool safe says that
"diagnostics only carry copied strings and ints" (`internal/engine/runner.go:458`). The
counterexample lints two files with one worker. `BufferOwned` and its proof show what the
pool does guarantee: while a worker reads from a buffer, nobody else has it.

The build model also shows why an entry marked `unstable` is excused in
`OnlyDisturbedLie`: when the second run of `--build-verify` fails, possibly in the
middle of its commit, the entry is recorded all the same, with the outputs as the failure
left them.

## Fairness

`diag_live`, `fix_loop`, `hand_over`, `engine_run`, `MCRunCache_live` and
`MCSchemaCache_live` assume some; the others none.

- Goroutines: the Go scheduler runs every goroutine that can run, and blocked
  mutexes are handed over; so each goroutine's steps are weakly fair, one condition per
  goroutine. In `LspDiagnostics` a timer that is armed fires.
- The client owes nothing. `EditIsAnswered` is conditional on `ClientRests`: each event
  may replace the pending lint, so a client that never rests can postpone it for ever,
  which is what a debounce does. A settings answer or its timeout is a step of the
  fetching goroutine; the timeout in the code makes that fair.
- `FixLoop`: the loop itself goes on (`WF(Step)`); nothing is owed by people or failures.
- `HandOver`: a server's goroutines and a host that is alive go on (one condition per
  server, one per client). Windows need not open or close, hosts need not die, and
  nothing says that a restart ever drops out of the window of time.
- `EngineRun`: each worker goes on, one condition each, which covers the rules it has
  started, and so does the merge.
- In the build nothing is assumed, and no liveness is claimed: a recipe ends or is
  killed by its timeout, and a pass has finitely many steps.

## Proofs

The `_proofs` modules hold, for every value of the constants, what the table says. Three of
them are about two components each: `LspDiagnostics_proofs` about `LspDiagnostics` and
`Session`, `LspServer_proofs` about `HandOver` and `LspSession`, and `Caches_proofs` about
`DocumentParses` and `SchemaCache`. So that the two can be extended together, the
definitions that every module has are called after the component in the second of each
pair (`SessionInit`, `LspNext`, `SchemaSpec`).

| Theorem | States | Argument |
|---|---|---|
| `LspDiagnostics_proofs!TypeCorrect` | `TypeOK` | by action |
| `LspDiagnostics_proofs!OffIsMaster` | `OffIsLastWord` | inductive together with `ClosedIsClear`: a closed document shows nothing, or was published to after its close, or is being closed; a clear visits the open documents only |
| `LspDiagnostics_proofs!TokensHaveTimers` | `PendingIsLive` | inductive with the types: no timer has the tokens of two documents |
| `LspDiagnostics_proofs!EditsAreCovered` | `EditCovered`, with one settings goroutine at most | `RoleInv`: only off mode clears, a document whose timer a close cancels is closed, and only shutdown gives up timers altogether |
| `RunCache_proofs!TypeCorrect` | `TypeOK` | with `Shape`, what a goroutine holds at each place |
| `RunCache_proofs!ReadsAreFresh` | `ReadIsFresh`, when builds read files as they are | see below |
| `RunCache_proofs!BuiltByOne` | `OneBuilder`, whatever builds read | from `Roles`: who builds a value holds its entry's mutex, and an entry serves one path or the aggregate |
| `RunCache_proofs!FreshReadsImplemented` | `ImplementsFreshReads`, when builds read files as they are | `PInv`: to `IInv` it adds that what is stored or carried was written (`Written`) and that a lookup gathers nothing it was not asked for (`AsAsked`); each step that ends a lookup is an `Answer`, `DropAgg` is a `Vouch`, the rest of a lookup stutters |
| `Caches_proofs!TypeCorrect`, `ClearedStaysOut`, `OwnTextUnlessLate` | `TypeOK`, `WatermarkHolds`, `OnlyLatePutsMislead` | `IInv`: a tombstone accepts newer versions only and a parse in the slot is above every cleared version; what a lint is about to put is the parse of the text it read; with no late put, the parse in the slot is of the opening under way, or of one that has just ended and is about to be invalidated |
| `Caches_proofs!SchemaTypeCorrect` | `SchemaTypeOK` | with `ReaderFits`, what a check holds at each place |
| `Caches_proofs!InvalidateReachesReaders`, `IndexStaysExact` | `OnlyRacesAreStale`, `IndexIsExact` | `SchemaInv`, see below |
| `LspDiagnostics_proofs!SessionTypeCorrect` | `SessionTypeOK` | by action |
| `LspDiagnostics_proofs!InvalidateHeals` | `QuietInvalidateHeals` | `SessionHeals`, see below |
| `BuildPass_proofs!TypeCorrect` | `TypeOK` | with the two parts of `IInv` it needs |
| `BuildPass_proofs!FreshIsUpToDate` | `OnlyDisturbedLie` | `IInv`: every undisturbed entry, saved or in memory, pairs outputs with the inputs they are made of; an undisturbed job has read what is on disk, and the outputs it has committed are what its recipe makes of that |
| `BuildPass_proofs!CleanPassesSettle` | `CleanPassIsFresh` | `CleanInv`: in a pass that has been clean so far, a target is judged after the producers of its inputs are done, so that nobody changes the files of one that is done or found fresh; and the cache in memory differs from the saved one only once a target was rebuilt |
| `LspServer_proofs!TypeCorrect` | `TypeOK` | by action |
| `LspServer_proofs!NewestStaysAlways` | `NewestStays`, the refinement | `ClaimInv`, see below |
| `LspServer_proofs!HandOversSpawnNone` | `SpawnsAreCalledFor` | `SpawnInv`, see below |
| `LspServer_proofs!LspTypeCorrect` | `LspTypeOK` | with what a goroutine holds at each place (`LspTyped`) |
| `LspServer_proofs!LoneRebuildRepairs`, `BuffersAreRead` | `OnlyCrossedDiffer`, `OnlyTornMislead` | `LspInv`, see below |
| `EngineRun_proofs!TypeCorrect`, `BuffersAreOwned`, `OutcomesAreTheirOwn` | `TypeOK`, `BufferOwned`, `OutcomeIsItsOwn` | `EngineInv`, see below |
| `FixLoop_proofs!TypeCorrect` | `TypeOK` | with `Ordered`: what a run that is under way, or that ended, says of its passes |
| `FixLoop_proofs!OwnTextIsKept` | `OnlyRacedSavesAreLost` | `Tidy`: an own text that no race has overwritten is its author's, fixed `Limit(f)` times at most |
| `FixLoop_proofs!ReportIsTrue` | `ReportIsTheTree` | `InHand` and `Told`, see below |
| `FixLoop_proofs!NothingLeft` | `NothingLeftToFix` | `Told` and `RankedIdle`, see below |
| `FixLoop_proofs!Settles` | `SettlesSoon` | `RankedIdle` and `SecondIsIdle`, see below |
| `LspIndex_proofs!TypeCorrect`, `BuffersWin`, `OnlyIgnoredStay` | `TypeOK`, `BuffersAreLive`, `OnlyIgnoredLinger` | `IInv`, see below |

`ReadIsFresh` speaks of answers, and an answer is as new as the entry it was read from,
which may have left the map long ago. So the invariant gives each entry the list of
those who will read it: `LeafOK(y, p, v)` says that v is new enough for whoever finds the
entry in the map, for every goroutine that holds it, and, when such a goroutine builds an
aggregate, for everyone who waits for that aggregate (`AggOK`). `FreshLeaf`, `FreshAgg`
and `FreshReader` then say that every value stored or carried is new enough for its
entry. `Roles` is what keeps it inductive: no entry serves two paths, or a path and the
aggregate.

An Invalidate of the schema slots must find every cached parse that read the file, at any
depth, while checks go on putting parses into the cache. Its recursion is a stack of frames
linked by their callers (`Stacked`). A parse is `Good` if no Invalidate overlapped the check
that made it, and the freshness of answers rests on three facts about good parses: the
index names it under each fragment it read, or its schema is already among those whose
frame is yet to drop it, or its check is still to register it (`GoodIsIndexed`); once a
frame has drained the dependents of its file, every schema with a good parse of that file
is to be visited or was (`Drained`); and a frame past its drop leaves none (`Evicted`).
So when the last frame returns, no good parse reads the file that was edited, and the
version every answer must have reached can be raised (`EntryFresh`, `RefFresh`,
`RawFresh`). A check that is overlapped is flagged the moment the Invalidate begins
(`RacedWhileActive`), which is what lets the rest speak of undisturbed ones alone. For
`IndexIsExact` the converse is needed: `PointsBack` says that, if nothing ever overlapped, an
entry of the index names a parse in the cache, or one that the frame of its schema is about
to take off.

A session keeps what it read of a document in four places: its content slot, the parse of
any document that embeds it, the result of any other document, and the calls under way.
`SessionHeals` says of each document whose last Invalidate no check overlapped
(`Healing`): while that Invalidate runs no call is under way, and the caches it is past
are empty; afterwards none of the four is older than the buffer (`Clean`), unless the
Invalidate left a parse in the cache whose snapshot is older (`pinned`).

`LspInv` accounts for the goroutines that may rebuild the session. A rebuild that no other
overlapped is the only one (`Apart`) and works on the configuration in force (`Lone`).
Such a session has, of each document whose handler it did not overlap, the newest text, or
is yet to read it (`Seeded`); a rebuild knows of the document that is being handled
(`Meets`); a handler whose session has been superseded handles a document that is marked
torn, or that will be when the rebuild under way ends (`Late`). With these, a handler that
still has the published session knows its root (`Keyed`), so that the name it writes under
is the one the document is read by.

A server may only leave when it is not the last to claim, and what it goes by is the owner
record. `ClaimInv` says that the record names the last claimant or nobody (`OwnerIsLast`),
which needs that a temporary file holds the id of the server whose it is (`TmpIsOwn`) and
that only those that claimed watch (`WatchersClaimed`). For `SpawnsAreCalledFor`,
counting starts is not inductive: `CalledFor` counts the servers started together with
the restarts that are still owed to clients whose server is gone without a word, and
both together never exceed `due`.

The outcome of a file depends on everything a worker met on the way, so `EngineInv` says
what a worker knows at each place: the buffer it holds is its own (`BufferOwned`) and
holds its file (`ReadsItsFile`); the rules it has are those of its file's signature,
whoever stored them (`CachesAgree`, `KnowsItsRules`); each rule is to start, running or
done, and what the done ones said is in its diagnostics (`RunsEachOnce`, `HasSaid`).
`Accounted` says that each file below the counter has its outcome or exactly one worker,
and `MergedAtEnd` that the result stands for all of them.

In the index the invariant speaks of every file separately: its entry is that of its text
on disk, unless a notice is still to come or the build left it out (`Settled`), and no
entry belongs to no file (`NoStrangers`). It holds of the index under construction for
the files that are no longer to be read (`BuildIsSound`), and of the published one, with
the buffers of open documents in front (`IndexIsSound`). Without `Settled` for the
half-built index, a change of a file that was already read would go unnoticed.

In the fix loop a file is checked before the files after it are written, so its
diagnostics need not be those of the final tree; but the last pass writes nothing. `InHand`
says that the file in hand is as it is on disk, and `Told` that as long as a pass has
written nothing, its diagnostics are those of the tree so far and each file it is done with
is `Settled`: fixing it again changes nothing. What ends a run is either such a pass or
the bound on passes, and that the bound is never what ends it takes a second argument.
Where rules settle, an own text changes in the first pass only (`OwnSettles`). So the
second pass copies final own texts everywhere, and a file whose sections are made of own
texts alone is settled once it has been fixed there. A file that copies sections as they
are on disk (`Late`: the catalogs of the files it expands, and all that is extracted
from) is settled one pass after those files. `Idle(due)` is what both have in common:
each file is settled by its pass `due[f]` and not written in later ones, so at most one
pass follows the last that is due. For any ranks by which a file stands above those it
copies late, `due[f] = rank[f] + 2` will do (`RankedIdle`), and `DepthBounds` reads off
the number of passes. That a settled file stays so takes a lemma about what its sections
see: if two trees are `Alike` for a file, the generators refuse the same of its sections
and make the same of the others (`AlikeSections`).

In dependency order `due[f] = 1` will do (`SecondIsIdle`), because a file is fixed
after all that it copies, extracts included: `DependenciesFirst` says that Kahn's
algorithm puts every file after its dependencies when these have no cycle, by induction
over its steps (`KahnInv`: what is out or in the queue is exactly what has its
dependencies out), and `CopiedBefore` carries that from one include to the whole chain of
them. So a write in the first pass is of a file that those before it do not copy
(`OrderAlike`).

`internal/fix/fix.go` speaks of one productive pass and a confirming one in dependency
order. The proof shows what that rests on besides the absence of cycles (`InOrder`). A
file that is not among those to fix imposes no order: if `b` is not given, `a` includes
`b` and `b` includes `c`, then nothing puts `c` before `a`. Catalogs impose none either,
so no rule may change front matter that a catalog of an earlier file has copied. In both
cases the run takes three passes, and `SettlesSoon` excepts them. In the order given,
a chain of extracts that runs against it takes a pass for each file of the chain:
`a` extracts from `b`, `b` from `c`, `c` from `d`, where each leaf is what a section holds.
`SettlesSoon` counts them, and where there are too many of them for the ten passes, or they
close a cycle, `NothingLeftToFix` claims nothing but what the last pass vouches for.

Functions defined by recursion (`RulePass`, `Passed`, `Tidied`, `DependencyOrder`) unfold to
a choice of a function that satisfies its equation. `RecursionExists` proves that there is
one, for any set of values, start and step, and `Induction` is stated for a set of numbers
rather than for a predicate, so that neither needs an operator as a parameter.

The proofs use the constants' named assumptions (`ConstantsAssumption`,
`SessionAssumption`, `LspAssumption`, `SchemaAssumption`, `DisjointAssumption`,
`MakeAssumption`, `EntryAssumption`, `RunAssumption`, `OutcomeAssumption`, `KeyAssumption`,
`NilAssumption`) and nothing else; TLC evaluates those in the runs of the modules
that extend the same module.
`RunAssumption` says that selecting from a sequence of files gives one and that there is
a number for each worker; the first is a fact about `SelectSeq`, which is recursive and
so closed to the provers. Names are injective under each root (`LspIndex`, and
`KeyAssumption` in `LspSession`): they are relative paths. `NilAssumption` says that
"no session" is not a session. `EntryAssumption` says that "no entry" is not an entry.
In `FixLoop` `ConstantsAssumption` asks that the files to fix are not none and come once
each. Three theorems have a further hypothesis.
`ReadsAreFresh` and `FreshReadsImplemented` need `~Snapshots`: with it gone
`ReadIsFresh` is false (`MCRunCache_snapshot`). `EditsAreCovered` needs `Alone`: with
two settings goroutines an open document can be left without its lint
(`SettingsReachEveryBuffer`, `MCLspDiagnostics_limits`).

Each safety property of a passing run in the list is stated by a theorem. Model-checked only:
liveness (`EditIsAnswered`, `Ends`, `OneRemains`, `OrphansEnd`, `RunEnds` and those of the
configurations outside the list), which is out of the prover's reach.

## Not modelled

Functions of one text (rules, the parser, extraction, metrics, CUE evaluation), wiring
(command line, output, file discovery), and what maintains the repository (release
tooling) have no state whose order could go wrong. Where a modelled part calls them they
are abstracted: a lint's findings are the generation it read, a recipe is an unknown
function, the rules' cross-file reads are reads of files.

Of the parts that are modelled, these are left out:

- Engine: `RunSource` beyond its parse (`Session`, `DocumentParses`), rules about the
  configuration file, the gitignore cache, and the shortcut that skips the parse when no
  rule needs it.
- Diagnostics: a panic that the settings goroutine recovers from
  (`internal/lsp/server_session.go:223`), or that `dispatchRaw` recovers from in a handler
  (`internal/lsp/server.go:332`). It would cut an action short: if a reload panics after the
  settings were applied, neither the clear nor the reschedule that the new mode asks for
  takes place, so `OffIsLastWord` and `EditCovered` hold of exchanges that run to their
  end. `diag_live` has one exchange; that two of them keep `OffIsLastWord` is shown by the
  proof alone.
- Fix: `FixSource` (one text in memory), the counts of a dry run, and which rules are
  enabled; rules about other things than a file's own text and sections are issues like
  any other. Whether a leaf is found, and which, depends on the text of the target, and
  not on schemas that change during the run. A catalog has no `empty:` fallback and its
  files can all be read; an include leaves front matter out (`strip-frontmatter: "false"`
  keeps it). A section holds no directives of its own: in the code a catalog that an
  include has copied is found again, with `source-dir`, and regenerated in the copy.
- Index: what an entry says of its file, and the edges between files, which follow from
  the entries. A configuration file has the name the watcher is registered for, settings
  reloads come one at a time (`LspSession` has them overlap), the watcher loses nothing,
  and a handler reads the configuration once.
- Hand-over: the operating system may give a process id again; a file system whose
  renames are not atomic. A client that refuses to stop is dropped and its server lives on
  (`ManualRestart`), but in the model nobody starts that server again when it crashes.

Parts with state that are still to come are listed in the plan.

## Plan

The next models, the most state and the most interleaving first:

1. `Rename` (`internal/rename`, `internal/linkgraph`): the edits of several files that one
   rename makes, computed from the links as they were read, and a write that fails in
   between. All references move or the failure is told.
2. `ConfigExtends` (`internal/config`): the extends chain with its cycle check, against a
   reference definition of the merge.
3. The schema matcher (`internal/schema`), against a definition by assignment: a document
   matches iff some assignment of its headings does.
4. The scopes of the run cache (`UniqueFieldIndex`), as a third kind of slot in `RunCache`.

The next proofs are those of the next models: of the present ones, every safety property
that holds is proved.
