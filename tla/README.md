# gadget-mcp in TLA+

gadget-mcp keeps a library of prompt fragments ("gadgets") in SQLite and serves
it over MCP. These modules specify the parts of it whose correctness depends on
the order of things: the repository and its tables, paging and export beside
writers, several processes on one database file, tool calls with their roles
and their audit log, reviewer subprocesses, the kickoff wizard, seeding across
restarts, imports, HTTP sessions and the shutdown, the database file with its
migrations, backups and restores, and the metrics histogram. TLC checks small
instances of each (`tlc -config X.cfg M`); eight modules named `...Proofs` hold
theorems that TLAPS proves for every value of the constants (`tlapm M.tla`).

Paths below are relative to the repository: `core` is `packages/core/src`,
`server` is `packages/server/src`.

## The system

| Component | State | Operations | Hard part | What makes it correct |
|---|---|---|---|---|
| Gadget repository, `core/repo/gadget-repo.ts` over `core/db/migrations.ts` | tables `gadgets`, `gadget_revisions`, `aliases`, `gadgets_fts`, tied by cascades and triggers | `put`, `add`, `delete`, `rename`, `rollback`; `resolve`, `search`, `list`, `compose`, `canonicalChain` | names reused through chains of renames and deletes; version numbers taken from `MAX(version)`; the full-text table is keyed by implicit rowids | a name means one gadget, histories are contiguous and only grow, the newest revision is what is served, search is exact |
| Listing and export, `core/repo/cursor.ts`, `core/services/ndjson.ts` | a keyset cursor that the client holds | `list`, `exportNdjson` | the order column changes under the cursor; the export lists, then re-reads | nothing twice, nothing untouched left out, the walk ends |
| Several processes on one file, `core/db/connection.ts` | SQLite's snapshots and its write lock | all write calls | `add` and `delete` check outside their transaction; deferred transactions that both want to write | calls take effect one at a time, and no two block each other |
| Schema migrations, `core/db/migrations.ts`, `connection.ts` | `schema_migrations` and the tables | `openDb`, `runMigrations` | the applied version is read outside the transactions that migrate; two first starts on one file; a kill between two migrations | each migration once, in order, and nobody uses a schema that lacks one |
| Reviewer runners, `core/services/reviewer-runner.ts`, tool in `server/mcp/tools.ts` | rows of `reviewer_runners`; per call a subprocess, its pipes, a timer, an abort listener | `upsert`, `delete`, `executeReviewerRun` | exit, timer and abort race; descendants inherit the pipes | the status tells what happened, nothing is left running or armed unless the call throws, the call ends |
| Seeding, `core/services/seed.ts`, `maybeSeed` in `server/cli.ts` | the library, and what this start still has to look at | `seedFromFiles`, `seedFromContent`, packs | a kill between two seeds; data files of which one is there and one is not; seeds that clients edited, renamed or deleted | seeding only adds, and completes what an earlier start left undone |
| Import, `core/services/ndjson.ts` | the library | `importNdjson` with three conflict policies | a failure in mid-file | what each policy promises of the lines before it |
| Metrics, `core/services/metrics.ts` | counters, gauges, histograms | `observeHistogram`, `incrementCounter`, `render` | buckets are accumulated in two places | what is rendered is what was observed |
| Audit log, `core/services/audit.ts` | table `audit_log` | `record`, `pruneOlderThan`, `tail` | written after the call has committed, best effort | who changed what can be told from it |
| Tool calls, `server/mcp/tools.ts`, `errors.ts`, `auth.ts`, `server.ts` | per session: the role, hence the tools | one handler a tool, inside `wrapHandler` | metric, audit row and notification come after an await; rename and import can fail after they committed | a role reaches no tool beyond it; a change leaves a trace; metrics and log agree |
| Kickoff wizard, `server/mcp/kickoff.ts` | one run of elicitations, the heartbeat timer | `runKickoff`: four questions, `selectChain`, `assemblePrompt`, preview, `dispatch` | every answer may be late, declined or missing, and the library changes meanwhile | what the user approved is what is returned or sampled; the call ends |
| HTTP sessions, `server/transport/http.ts`, `stdio.ts`, `runServe` in `server/cli.ts` | map of sessions, each one's transport and server; the list of stoppers | POST, GET, DELETE, the probes, `close`, the shutdown | requests and a second signal during `close`; a stopper that closes databases others use | no session survives `close`, none is served from a closed database, the process ends |
| Workspaces, `server/workspace.ts` | map of open databases | `get`, `has`, `closeAll` | lazy opening beside closing | a session's connection is the one the registry has open |
| Backup and restore, `server/cli.ts` | the database file, its log, the backup file | `backup`, `restore` | a kill between `unlink` and the new file; a log left beside a restored file | a copy of the data at every moment |
| Resources, prompts, completers; shape guard; `cli-generate.ts`; `forge.ts` | none | reads rendered as text; a text heuristic; configuration files; build scripts | none of it depends on order | - |

How they interact: tool handlers call `GadgetRepo`, `ReviewerRunnerRepo` and
the services directly. All of that is synchronous `bun:sqlite`, so within one
process a repository call is never interleaved with another; what awaits
(subprocesses, elicitations, requests) interleaves with everything. A transport
only creates servers and hands them messages. The database is shared by
whatever processes have the file open: stdio sessions that share a volume
(`docs/docker.md:133`), the CLI beside a server.

PROJECT.json lists these components with what is modelled of each, and the
hazards of the code with the line at which each bites.

## The modules

In the order in which they were written, most important first.

### GadgetStore: the repository, one call a step

`gadgets`, `aliases`, `revisions` and `fts` are the four tables, and `outcome`
is how the last call ended. `Put`, `Add`, `Delete`, `Rename` and `Rollback` are
the methods. Each is split as the code is, into the checks in their order
(`PutVerdict`, `RenameVerdict`, ...) and the writes (`InsertGadget`,
`UpdateGadget`, `DeleteGadget`, `RenameGadget`), and the writes include what the
cascades (`MovedRevisions`, `RenamedAliases`) and the triggers (`IndexInsert`,
`IndexUpdate`, `IndexDelete`) do. A body stands for the columns that a revision
snapshots. `StorageError` is a statement that fails below the checks: the
transaction of the call goes with it.

### GadgetLibrary: what the store promises

No tables: entities with a history, and names bound to them. `GadgetStore`
implements it (`ImplementsLibrary`). The mapping takes an entity to be a rowid,
its names to be what `resolve` finds, and its history to be the revisions by
version; a call that throws is a stuttering step.

### ListPaging: `list` and `exportNdjson` beside writers

Rows here have what the cursor sees: `updated_at`, the id, the category.
`ReadPage` is `list` with its clamp, its lookahead row and its cursor clause;
`FetchOne` is the `getById` that the export makes for each row it listed. All
writes of the repository, reduced to what they do to these columns, may come
between any two reads. `Cancel` is possible before the first page only: the walk
is synchronous and never yields to the event loop that would deliver an abort.

### SharedStore: two processes on one file

The same tables are the committed state. A call is `Begin` (BEGIN, the reads
and the verdict, on a snapshot), `Upgrade` (its first write takes the lock) and
`Commit`; `Check` is what `add` and `delete` read before, outside, and
`DeleteRow` the single statement of `delete`. `Busy` is
SQLite's refusal, `Abort` a failure or a kill at any point. `overtaken` is a
history variable, the processes between whose `Check` and whose next step another
one committed. `AtomicCalls` ties the answer of a call to what it changes: both
are those of the one step that the call is in GadgetStore. Only an overtaken
`add` may write over a gadget, and only an overtaken `delete` may answer ok and
remove nothing. SQLite itself is not
in the repository: its rules (snapshots of a deferred transaction, one write
lock, SQLITE_BUSY on a stale snapshot) are what the module's head states.

### ToolCalls: the tools, and what is wrapped around them

Over GadgetStore and the runner table, in one process. A handler is a step that
calls the repository; tools that await inside (`import-gadgets`,
`list-client-roots`, `project-kickoff`, `run-reviewer`) are `waiting` first. The
`finally` of `wrapHandler` is a step of its own, `Finish`: counter, audit row
(whose insert may fail) and `list_changed`, all after an `await`, so other
sessions' calls come in between. `Restart` ends the process at any point and
prunes the log at the next start. `RequiredRole`, `RoleAllows` and
`IsToolAllowed` are auth.ts, `CodeOf` is `resultCodeOf`. `changes`, `lost`,
`found` and `untold` are history variables: what really happened, to hold the
log against. Log, counters and `changes` are bags, since two calls may leave the
same row; `ChangesLeaveTraces` weighs them row by row. A process starts on tables
that GadgetStore's calls may have made (`IInv`).

### HttpSessions: serving and shutting down

Actions are handlers from one await to the next. `OpenTransport` is a request
without a session up to `await server.connect`, and `Status` what it is checked
for before, in that order; `SessionInitialized` or `NotInitialize` is what its
body turns out to be; `DeleteSession` and `Probe` are DELETE and /readyz,
/metrics. `Get` and `CloseAll` are the workspace registry, whose connections are
numbered so that a session can be seen to hold a closed one. `SignalArrives`
starts a shutdown; each goes through `StoppersOf` the flags by itself:
`CloseSession` for one round of the loop in `close()`, which iterates over the
live map, then `CloseHttp`, `CloseStdio` and `Exit`.

### Kickoff: one call of the wizard

`at` is the await, or the loop, that it is in. `Accepted`, `Declined` and
`IntegrationsAnswered` are the questions; `SelectCategory` and `AssembleItem` are
the rounds of the two loops, one query each; `ShowPreview`, `Picked`, `Sampled`,
`SamplingFails` and `ElicitationFails` are the rest. `Write` is any other client,
at any time: in the same process while the wizard waits, in another one also
between two queries, and `disturbed` notes the latter. `ComposingFails` is a query
that throws. A gadget has what the
selection looks at: category, score, place in the list, and a content. `Page`,
`Scored` and `Picks` are places in the list: the rows that fewer than `PageLimit` of
their category come before, these ranked by score with `Ranked`, and the first or
all of them. `Ranked` is a stable sort without recursion (a row's place is the
number of rows that are not behind it), so that it can be proved about.

### DatabaseFile: migrations, backup, restore

`file`, `wal` and `backup` are files with contents, absent or partial.
`Open`, `BeginMigration`, `CommitMigration`, `MigrationFails` and `Opened` are
`openDb` in any process; `Write`, `Checkpoint` and `Stop` a server's life;
`UnlinkBackup`, `BeginVacuum` and `EndVacuum` the command `backup`;
`CloseForRestore`, `Unlink`, `BeginWrite` and `EndWrite` the command `restore`.
`Crash` is a kill of any of them at any point. The operator is the one of
docs/runbook.md: servers are down during a restore, and what is restored is a
complete backup. SQLite's recovery and its lock are external.

### ReviewerRun: `gadget.run-reviewer` and its subprocess

`pc` is the `await` the handler is at. `Call`, `Spawn`, `SpawnFails`,
`StdoutEnds`, `StderrEnds` and `Finish` are the stretches of code between
awaits. `PromptFails` throws after the spawn, before anything is armed, and
`ReadFails` is a read that rejects: the `finally` clears timer and listener and
the call throws. Both leave the subprocess as it is. `Exit`, `Fork` and `Close`
are the subprocess and what it forks, which hold the ends of `pipes`;
`TimerFires` and `Abort` are the two callbacks; `Upsert` and `DeleteRunner` are
other tools on the runner's row.

### Seeding: starts, kills, edits between

`Start` takes what each of the two data files holds, with either of them there or
not, and the enabled packs; `SkipItem`,
`SeedGadget`, `SeedRunner` and `SeedConflict` look at one item each, since each
commits by itself; `FallBack`, `CatalogDone`, `NextPack` and `Serve` are the
stages of `maybeSeed`; `Stop` may come at any point. The clients' writes
happen while the server serves, reduced to which names are whose.

### Import: NDJSON payloads, line by line

Over GadgetStore. `BeginImport` takes a payload and a policy; `RejectLine`,
`KeepLine`, `PutLine` and `PutFails` are what becomes of a line, and they are
steps of their own since each `put` commits by itself and the process may die
between two (`Kill`). Nothing else comes in between: the loop is synchronous,
so the process's other calls (`Client`) are before or after it. `before` is a
history variable, the tables as the import found them.

### MetricsHistogram: one series of `MetricsRegistry`

`Observe` and `Rendered` are `observeHistogram` and the summing in `render`.

### Variants

A definition whose name extends that of the definition after it
(`MovedRevisionsDropped` before `MovedRevisions`) is the same code with a
plausible slip: a forgotten cascade, a dropped check, an off-by-one. No action
uses it. PROJECT.json names one for each checked property; with it in the place
of the original, TLC finds that property violated, so each property does depend
on that piece of the code.

## What is checked

| Run | Instance | Shows |
|---|---|---|
| `store` | 4 names, 3 rowids, 1 body, cap 2, 4 versions | `NamesUnambiguous`, `AliasesWithinCap`, `VersionsContiguous`, `NamesKeepTheirGadget`, `HistoryGrows`, and the refinement `ImplementsLibrary`: no sequence of calls breaks a history or changes what a name means |
| `paging` | 3 ids, 2 categories, pages of 1 and 2 rows (asked for as 0, 2 and 9), 2 milliseconds | `TypeOK`, `NothingTwice`, `UntouchedExported`, `ExportEnds`: paging is exact for what nobody touches, and writers cannot keep an export going |
| `shared` | 2 processes, 2 names, 2 rowids, 1 body, cap 1, 3 versions | `SharedTypeOK`, `AtomicCalls`, `TransactionsEnd`: a call changes the tables and answers as if it were alone, but for an overtaken `add` or `delete`, and no two calls block each other |
| `tools` | a session of each role, 2 valid names and an invalid one, 2 bodies of which one is misshapen, 2 calls and any restarts, from an empty library and from one with a renamed gadget | `ToolsTypeOK`, `ChangesLeaveTraces`, `CountersMatchLog`, `EffectsAreWarranted`: a change is warranted by a role, told, and found in the log unless the insert failed or the process died |
| `reviewer` | every order of exit, fork, close, timer and abort; exit codes 0, 1, 137, 143; a spawn, a prompt or a read that fails | `TypeOK`, `NothingLeftBehind`, `StatusTellsWhy`, `CallsEnd`: timer and listener never outlive the call, and the subprocess only if the call threw |
| `kickoff` | 3 gadgets in 2 categories, pages of 2, scores 0 to 2, 2 contents, 2 writes | `TypeOK`, `DeliversWhatWasShown`, `ChainContributed`, `WizardEnds`: the call ends, hands over what it showed, and showed the best gadgets of that moment |
| `seeding` | a catalog of two gadgets and a runner, each data file there or not, one pack, one id of the clients' own | `TypeOK`, `SeedingOnlyAdds`, `SeedingCompletes`: a start without an error adds what its files and packs hold, and what is embedded unless the files added something |
| `import` | 2 valid names and an invalid one, 2 rowids, 2 bodies, cap 1, 3 versions, payloads of up to 3 lines | `CountsAreTrue`, `ExistingKept`, `CleanImportIsComplete`, and of the store itself `TypeOK`, `HeadIsNewestRevision`, `SearchIsExact`, which need two bodies |
| `sessions` | 3 sessions at a time, 2 workspaces, SIGINT and SIGTERM, any flags | `DatabasesInUse`, `NothingLeftOpen`, `ShutdownEnds` |
| `database` | 2 servers and a command on a new file, 3 migrations, 2 writes, 1 kill, 3 commands | `SchemaIsComplete`, `CopySurvives`, `SomeServerComesUp` |
| `reviewer_hang`, `histogram` | as `reviewer`; 3 buckets, 3 observations | one sentence of the documentation each, which the code does not keep; see below |

Bounds, and why they are enough:

- `VersionBound` caps a gadget's revisions, since a history is unbounded. Four
  allow a creation, two renames and a rollback of either. In SharedStore it
  guards `Begin`, so that a transaction that has begun can always end.
- A rename needs a gadget, a target and a name that somebody else has: three
  names and two gadgets. `store` has four, so that a gadget at the cap of 2 still
  has a name to be renamed to; MAX_ALIASES_PER_GADGET is 32, and no branch
  depends on it otherwise.
- `import` needs an id that is there, one that is not or is an alias, and one
  that a payload names more than once: two names and three lines.
- `store` and `import` use symmetry over names, rowids and bodies; their
  properties are safety and action properties only.
- `shared` has a single body: its races are about which rows exist, and what
  is in them is settled by `import`. Two processes are what a race takes, and the
  theorems do without the bound.
- `paging` needs a row on each side of a page boundary in one millisecond, and
  one that moves to the front: three rows and two times. The listing starts
  over every table that such rows allow.
- `tools` makes two calls (`CallBound`), so that the second comes between the
  handler and the `finally` of the first; what longer sequences do to the
  library is `store`'s matter, which is why one of the initial libraries has a
  renamed gadget with two revisions.
- `ReviewerRun` and `Kickoff` have one call at a time: calls share nothing but
  the runner's row, and the library, which others write at any time.
- `kickoff` has as many gadgets as fill a page and leave one over, and two
  writes, since a gadget may go and come back.
- `sessions` needs a session that the loop has seen, one it has not and one
  that is being opened; ids are used again once they are closed, so sessions
  come without end.
- `database` needs a migration before and one after the one that two processes
  race for, a write before and one after a backup, and a command between two:
  three migrations, two writes, three commands. More kills are left to the
  theorems.

Deadlock is checked where the system may not stop. `tools`, `kickoff` and
`database` set CHECK_DEADLOCK FALSE since they end at the bounds on calls,
writes and commands, or with the answer of the only call; `sessions` since the
process exits; `histogram` at its bound `Observations`.

Fairness, and why the code justifies it:

- `ListPaging`: `WF(Reader)`. The export is a loop in a running process.
  Nothing is assumed of the writers, so `ExportEnds` says that they cannot keep
  an export going.
- `SharedStore`: `WF(Proceed(p))`. A transaction is synchronous code that runs
  on; its process may still die at any point (`Abort`).
- `ReviewerRun`: `WF(Handler)` and `WF(TimerFires)`. The event loop runs what is
  ready and time passes. Nothing is assumed of the subprocess or of the caller, and
  no call is assumed to end by a read that fails.
- `Kickoff`: `WF(Own)`, and `WF(ElicitationFails \/ SamplingFails)`, which are the
  timeouts of the requests. Nothing is assumed of user and host, nor is a query
  assumed to throw.
- `HttpSessions`: `WF` of each shutdown that has begun. Nothing is assumed of
  clients, so `ShutdownEnds` has a condition: the loop ends if clients do not
  open sessions for ever while it goes on.
- `DatabaseFile`: `WF(Opening(p))` and `WF(Command)`, processes go on with what they
  have begun; `WF(StartServer(p))`, clients start a server that failed again.
- `GadgetStore`, `ToolCalls`, `Seeding`, `Import`: none. They have safety and action
  properties only.

## Where the code and its documents disagree

Two of these are runs that TLC ends with a counterexample.

- `reviewer_hang`: the timer kills the subprocess, not what it forked, and the
  reads wait for whoever has the pipes; and the timer is cleared before the exit
  is awaited. Either way a run can outlast its timeout for ever.
- `histogram`: the counts are cumulative when they are counted and are summed
  up again when they are rendered.

Noticed while modelling, without a run. Of the repository and the tools:

- `add` looks for the id before its transaction (`gadget-repo.ts:320`). If another
  process creates it in between, `put` overwrites that gadget and `add` answers
  ok; the tool "Fails if id already exists" (`tools.ts:479`). Likewise `delete`
  (`gadget-repo.ts:326`) answers ok for a gadget that another process deleted or
  renamed after the check. In SharedStore both are a commit between `Check` and
  the step that follows it, and the two exceptions of `AtomicCalls`.
- `executeReviewerRun` may throw and leave its subprocess running, with no timer
  to kill it: when piping the prompt fails after the spawn
  (`reviewer-runner.ts:142-143`), and when a read rejects (157-158), since the
  `finally` clears the timer. `NothingLeftBehind` says that these are the only ways.
- A subprocess that exits by itself with 137 or 143 is reported as `timeout`;
  `StatusTellsWhy` says only what the status tells of runs that were ended.
- `gadget.rename` describes its `id` as "id or alias to rename" (`tools.ts:568`), but
  `rename` takes live ids only (`gadget-repo.ts:335`); it refuses when the gadget
  has 32 aliases, also to rename it to one of them, which would add none
  (`gadget-repo.ts:348`); and a rename whose reading of the aliases fails after
  the commit (`tools.ts:592`) answers internalError although it took effect.
- Under the import policy `error` a line whose id exists is put down as an error
  and the loop goes on (`ndjson.ts:96`); the description says that it "fails the
  whole import on the first collision" (`tools.ts:941`). The output schema has
  errors as strings (`tools.ts:953`), `importNdjson` answers records, so the
  SDK turns the answer of an import with errors into an error, after it was
  committed and audited as ok. Imports do not pass the shape guard.
- What the schema inside `add` and `put` rejects is not mapped to a code and is
  answered as internalError, where the README has `gadget.invalidGadget` and
  `gadget.invalidGadgetId`. `gadget.cancelled`, `gadget.runnerFailed` and the
  codes of the README for unauthorized and forbidden calls are never produced.
- `compose-prompt` with `useCanonicalOrder` drops unknown ids without a word
  (`tools.ts:755-767`); without it they are an error (718).
- `list_changed` goes to the calling session only, so other sessions do not hear
  of its change.

Of starting, serving and the files:

- The old id of a renamed seed is an alias, `add` throws `AliasConflictError`
  (`seed.ts:31`), and every seed and pack after it is dropped at every start;
  `docs/configuration.md:79-80` says that enabling a pack on an existing database
  "just adds the new ids on the next startup". This is `SeedConflict`.
- The fallback to the embedded seeds asks whether the data files added anything
  (`cli.ts:279`). With only `gadgets.ndjson` there, the start that adds its gadgets
  leaves the embedded runners out, without an error, and the next start that
  finds nothing to add brings them in. `SeedingCompletes` says so.
- `parseCli` always sets `http` to a boolean (`cli.ts:113`, 181), so on a terminal a
  `serve` without flags starts no transport (334); `docs/transports.md` has it
  default to HTTP.
- `docs/transports.md:34-35` says a session is removed when its client drops;
  only DELETE removes one (`http.ts:208`).
- With a session header, `?workspace=` is ignored. A call may still reach a
  session that a shutdown has closed already.
- `restore` opens and migrates the database before it replaces it, so it fails on
  the file that a killed restore has left (`OpenFails` on a partial file). With
  `--in` naming the database itself, it unlinks what it is about to read. A
  backup to the same file after a killed restore removes the only good copy:
  `overwritten` in `CopySurvives` is this exception.
- The wizard's description names an `execute` mode and GADGET_KICKOFF_EXEC
  (`tools.ts:786`), which do not exist. The wizard goes on asking when its call
  was cancelled. "All constraint gadgets" of the enterprise bar
  (`kickoff.ts:99-103`) are those among the first 200 of the category.

## What is proved

Eight modules prove theorems of the specifications, for every value of their
constants, from the assumptions named where the constants are declared (names,
ids and sessions are finitely many, valid names are names, missing values are no
values, bounds are naturals, roles are the three there are) and nothing else.
Two of them say something about the program: `CategoriesAssumption` of Kickoff,
that COMPOSE_ORDER has no category twice (`category.ts:23-33`), and its
`LibrariesAssumption`, that a library a call finds has each id once, which is the
primary key of `gadgets` (`migrations.ts:6`). TLC evaluates all of them in the
runs.

One more is not an ASSUME but in the actions of ListPaging: the clock that
stamps `updated_at` never goes back. The code takes it from `Date.now()`
(`gadget-repo.ts:33`), a wall clock, which an administrator or a time service
may set back. `NothingTwice` and `ExportsNothingTwice` rest on it: a row written
with an earlier time than it had can come behind the cursor and be listed again.
`UntouchedExported` does not need it: an untouched row does not move.
PROJECT.json lists the theorems.

**GadgetStoreProofs**: `TypeCorrect`, `NamesStayUnambiguous`, `AliasesStayWithinCap`,
`VersionsStayContiguous`, `HeadStaysNewestRevision`, `SearchStaysExact`, and the
action properties `NamesAlwaysKeepTheirGadget` and `HistoriesGrow`. None of the
invariants is inductive alone, and `IInv` adds what is missing:
`RowidsDistinct`, since the full-text row of one gadget could be dropped with
another's; `SnapshotsUnique`, since "the newest revision has the body" needs the
newest to be one row; `IndexMirrorsGadgets`, since `SearchIsExact` does not see a
row that no gadget is joined with until its rowid is reused. `StepKinds` reduces
every step to one of the four writes or to none; an `...Effect` lemma says what
each does to `gadgets` and `aliases`, `SnapshotTaken` and `MovedRevisionsFollow`
what it does to the histories, an `...IInv` lemma puts these together, conjunct
by conjunct. `NextVersionContinues` is what makes `MAX(version) + 1` right:
after 1..k comes k + 1.

Its second half is `StoreImplementsLibrary`, the refinement. Each write is one
action of the library under the mapping (`InsertionCreates`, `UpdatingSaves`,
`DeletionDrops`, `RenamingRenames`), and everything else a stutter. The mapping
is read off the tables by operators of the tables alone (`IdIn`, `EntityIn`,
`HistoryIn`), so that the same lemmas serve the state before and after a step.
What it takes of `IInv`: a rowid belongs to one name, so an entity is one gadget;
versions are contiguous, so a history is a sequence.

**StoreUsersProofs** is about the three modules over GadgetStore.

- *SharedStore*: `SharedTypes`, `CallsAreAtomic`, and what follows for the tables:
  `SharedVersionsContiguous`, `SharedNamesUnambiguous`, `SharedAliasesWithinCap` (two
  renames at once cannot both take the last place under the cap),
  `SharedNamesKeepTheirGadget` (with `HistoryGrows`) and
  `SharedStoreImplementsLibrary`. The invariant `SInv` is `IInv`, one writer, and
  `SnapshotsHold`: what a transaction has read is true of the committed
  tables until its snapshot is stale. A commit makes every other reader stale,
  and nobody commits while another one writes, so the verdict that a transaction
  acts on still holds when its write lands (`WriteIsCall`), its commit is a step
  of GadgetStore, and the lemmas of GadgetStoreProofs preserve `IInv`. For
  answers as well as effects, `ChecksHold` (`ChecksHoldUntilOvertaken`) adds the
  checks outside a transaction: what `add` and `delete` saw is true until they are
  overtaken, so that `WriteIsAlone` needs no exception for those that are not. The
  run has two processes; the theorem any number.
- *Import*: `CountsStayTrue`, `ExistingStayKept`, `CleanImportsAreComplete`,
  `StoreStaysSoundDuringImport`, `ImportsKeepNamesAndHistories` and
  `ImportImplementsLibrary`, for payloads of any length. `ImportInv` adds what
  holds in the middle: nothing that was there is gone (`NothingLost`), and as
  long as there was no error each line looked at has its gadget, with the body
  of its last line if lines overwrite, and of its first if the import created it
  (`CleanSoFar`). What was written is counted as revisions that are new: a put
  adds one (`RevisionAdded`), and it is the gadget's first exactly if the line
  was an insertion. At the end, `LeastAndGreatest` finds the last and the first
  line of each gadget.
- *ToolCalls*: `ToolsTypesHold`, `ChangesAlwaysLeaveTraces`, `CountersAlwaysMatchLog`,
  `ToolsKeepNamesAndHistories`, `ToolsStepLikeLibrary` (every step is one of the
  library; the initial tables need not be empty, as the library's are, hence the
  steps only) and the action property `EffectsAreAlwaysWarranted`, for any number of
  sessions, calls and restarts. All the handlers come down to three kinds of steps
  (`ToolsStepKinds`): `HandlerStep`, in which a call commits and owes the log a
  row if it changed something; `Begins`; and `Finish`, which pays. `ToolsInv` keeps
  the account row by row, in bags: changes are covered by rows gained, rows
  lost and calls in flight (`Accounted`); counters by rows gained and lost
  (`Agrees`). `OwingIsWarranted` is what the other two need: a call that owes a row
  was made with a tool that is among MUTATION_TOOLS and answers ok, except the
  two that may fail after their commit. `RolesOfTools` ties that to the roles.

In all three a step changes the tables by a call of the store, if at all; for
SharedStore that is what its invariant is for, for the other two it is read off
the handlers. What GadgetStoreProofs says of single calls (`StepKeepsName`,
`StepKeepsHistory`, `StepRefines`) then holds of their steps too.

**ListPagingProofs**: `Types`, `ExportsNothingTwice` and `ExportsTheUntouched`,
for any ids, categories, page sizes and clocks. An id that is listed is behind
the cursor, or was written since (`ListedIsPassed`), and the clock does not go
back (`NoneFromTheFuture`), so a row that is written goes to the front of the
order, which the cursor has passed; that gives the first. For the second, an
untouched row that is asked for is listed, on the page, or ahead of the cursor
(`UntouchedAhead`): the last row of a page is a maximum, so nothing is skipped
between two pages, rows of one millisecond included.

**ReviewerRunProofs**: `ReviewerTypes`, `NothingStaysBehind`, `StatusAlwaysTellsWhy`,
from what is armed at each await (`Armed`) and what a killed subprocess looks like
(`KilledBy`), for any exit codes. `NothingStaysBehind` covers the ways out by an
exception too; on these it claims nothing of the subprocess, since there it may
be running.

**SeedingProofs**: `SeedingTypes`, `StartsOnlyAdd`, `CleanStartsComplete`, for
any data files, embedded catalog and packs. The type invariant is inductive;
with it, a step before `serving` either adds an item that is not there or leaves
the library alone. For the third, `NothingForgotten`: each seed of the files and
packs of a start is there, or in the rest of the stage, or in a pack to come,
and past the fallback so is each embedded one, so a start can only end early by
an error.

**KickoffProofs** has two arguments. `AlwaysDeliversWhatWasShown` and
`AlwaysOverOnEveryWayOut` are about control: `Agreed` says at each point of the
call what user and call have agreed on; the library does not occur in it, which
is why no write disturbs it.

`AlwaysTypeOK`, `PicksAreWanted` and `AlwaysChainContributed` are about what is
composed, for any library, page limit, scores and order of the categories.
`RanksGrow` and `RankedIs` show that `Ranked` is a sort: ranks are numbers from 1 to
n, different rows have different ranks, so every place has exactly one row
(`FS_Injection`) and they are in order. With `FitsAre`, that the scored rows are the
candidates as the property counts them, `PicksAreWanted` follows. `WithoutIs` and
`PutInFront` keep the ids of the library distinct over puts and deletes, so `Row` is
the row. The invariant is `ComposedRight`: until another process writes between two
queries, the chain after m categories is exactly what is wanted of these
(`ChainIs`), and the prompt the contents of the items up to the next one. `ChainGrows`
and `PromptGrows` are its two loops, `SelectionStays` the steps that do not change
what is selected from, and `OnlyShowsComplete` that nothing but a complete prompt
goes to the preview.

**HttpSessionsProofs**: `DatabasesStayInUse`, which rests on the order of the
stoppers (`PortFirst`: what closes databases comes after the port is closed),
and `NothingStaysOpen`, which rests on `SeenAreClosed`: what a loop of `close()` is
through with stays closed, so the map it clears at its end has nothing open.

**DatabaseFileProofs**: `SchemaStaysComplete`, `CopyAlwaysSurvives`, for any number
of servers, migrations, writes, kills and commands. The invariant says what a
process at each step knows of the file (`InUse`), that a restore has the file to
itself (`RestoreAlone`), and where the data is meanwhile (`Copies`).

The invariants of the newer proofs (`NothingTwiceInv`, `UntouchedInv`,
`ImportInv`, `ToolsInv`, `ComposedRight`) were checked by TLC on the instances
of the runs before they were proved. Where a proof needs a least or a last
element of a finite set (the last row of a page, the first line of a gadget), it
takes a minimal one of a well-founded order (`WFMin` of WellFoundedInduction),
which needs no operator as a parameter.

Every invariant and action property of the passing runs is proved. Model-checked
only are the liveness properties (`ExportEnds`, `TransactionsEnd`, `CallsEnd`,
`WizardEnds`, `ShutdownEnds`, `SomeServerComesUp`), since fairness means ENABLED,
which is beyond the prover.

## What is not modelled, and why

- Text: rendering of resources, prompts and completions, which patterns the
  shape guard objects to, the wording of the wizard's prompt, the generator of
  configuration files, release scripts (`forge.ts`), the parsing of
  GADGET_WORKSPACES. They keep no state.
- The rank order of search and its cursor: ranks are floating-point numbers of
  SQLite that shift with every write.
- Four hazards have no property: this one (`gadget-repo.ts:228`); sessions that no
  DELETE ends (`http.ts:208`), where the code has no limit whose keeping could be
  checked; another process that writes between two queries of the wizard
  (`kickoff.ts:107`), for which the code promises nothing, so `ChainContributed`
  leaves such calls out; and a rename that fails after its commit
  (`tools.ts:592`), which is what the code does.
- A `restore` whose `unlink` of the old log fails: `cli.ts:247` swallows the error,
  and the log would be replayed into the restored file. `Unlink` in DatabaseFile
  always succeeds.
- HTTP requests that carry the id of an open session, except DELETE: they go to
  the SDK's transport and change no session. The two awaits in closing one
  session, of its transport and of its server, are one step (`CloseSession`).
- Clients of another process on the database while one seeds: `Seeding` has one
  process, and each `add` in it is the race that SharedStore has.
- `category` and `source` of a gadget in GadgetStore: revisions do not have
  them, and nothing depends on them but the canonical chain.
- A rename while the wizard composes. In Kickoff it is a delete and a put, so the
  old id is skipped, whereas `resolve` would follow the alias. It takes another
  process, and `ChainContributed` does not speak of calls that one disturbed.
- VACUUM. SQLite may renumber implicit rowids by it according to its
  documentation, while the full-text table keeps them; backups are made with
  `VACUUM INTO`, and the SQLite builds in use keep the numbers.
- The output file of a reviewer run, which the tool never asks for, and
  `aggregateReviewStatus`, a pure function of a few statuses.

## What remains

`compose` and `canonicalChain` as operators over GadgetStore against a reference
definition; search cursors over an abstract order.
