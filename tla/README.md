# A verification development for mihomoDNS

TLA+ modules of the parts of mihomoDNS (the DNS server under `mosdns/` of the
repository) whose correctness depends on the order of steps: goroutines that
share a pool, a cache or a walker, updates that a crash may interrupt, tasks
that overlap, and the pages of the web interface, whose functions wait for the
server while the user goes on. TLC checks each part on small instances, and TLAPS proves the
most important invariants for every value of the constants. Paths below are
relative to `src/mosdns/` unless they begin otherwise.

## 1. Inventory

The program is one Go process. A server (`pkg/server`) reads a query, and the
entry handler runs it through the plugins of the configuration in a goroutine
of its own. The plugins are connected by the sequence interpreter and share
caches, tables of learned names, rule sets and upstream connections. Beside the
queries there are background workers, the HTTP API of the web pages, and the
updates of the configuration and of the binary.

| Component | State it keeps | Operations | What is hard | What makes it correct |
|---|---|---|---|---|
| Entry handler (`pkg/server_handler`) | none between queries | Handle | the deadline of a query against everything it started | one reply for each query: the response, REFUSED without one, SERVFAIL after an error |
| Sequence interpreter (`plugin/executable/sequence`) | compiled rules; for each query its walkers | ExecNext; accept, exit, reject, return, jump, goto, try, exec | nesting; a walker is jumped back to through a pointer that goroutines may share | every rule that should run runs, once |
| `forward` | upstreams | a race of up to three upstreams | results in any order, some never | an address beats an empty answer beats a failure beats an error |
| `fallback` | none between queries | primary, secondary, threshold | order of two results, a timer and a deadline | the primary's response if there is one in time, else the secondary's; nobody waits for ever |
| `prefer_ipv4`, `prefer_ipv6` (`dual_selector`) | names known to have the preferred type | two lookups of the rest of the sequence | the two share what the walker points to | the other type is suppressed when the preferred one exists |
| Reused connections (`pkg/upstream/transport/reuse.go`) | pool, `t.conns`, per connection `waitingResp`, `closeOnce` | ExchangeContext, dial, readLoop, setIdle, Close | late answers, abandoned dials, retries, Close at any time | one exchange on a connection at a time, each answer to its query, only live connections pooled |
| Traditional, pipelined and lazily dialed connections | query ids, queues, reservations | reserve, exchange, resend, read, close | ids that wrap, late duplicates, reservations while a dial runs | an answer to the query of its id, limits respected, no waiter forgotten |
| QUIC, DoH, constructors of upstreams | library objects | thin wrappers | the fallback of UDP to TCP | the answer is that of the server |
| Bootstrap resolver | address of an upstream | refresh, waiters | a failed refresh | waiters are released |
| Cache (`plugin/executable/cache`) on `pkg/cache` and `pkg/concurrent_map` | first level (CLOCK shards), second level, lazy updates, dump file | lookup, promote, store, update, flush, dump, save, load | two levels with lifetimes of their own, background updates, dumps beside a flush, restarts | fresh hits are good, flushes stick, nothing unsaved is forgotten |
| Domain output (`domain_output`) | names learned, channel, stat file | record, count, write, save, flush, switch, close | worker, API, switch and Close write at once | no accepted name is lost, all reach the file, off means empty |
| Requery task (`requery`) | state of the task, schedule, timers | trigger, cancel, task, timers | overlap of an ending task with the next; calls to another plugin over HTTP | one task at a time, its state saved, its names restored |
| Configuration update (`coremain/config_update.go`) | files, state record, backups | check, backup, apply, commit, roll back, recover | crashes and failed writes anywhere | the old or the new configuration, never a mixture; edits survive |
| Update guard and manager (`coremain/update_guard.go`, `update_manager.go`) | transaction file, binaries | stage, install, probe, commit, restore, recover | crashes of guard and candidate together | an update is complete or has left no trace; a server serves |
| Downloaded and static rule sets, domain mapper, AdGuard rules | matchers, sources, files | download, reload, save, subscribe | concurrent reloads, older matcher stored last | the matcher is that of the newest sources |
| Audit | ring of records | collect, worker, clear, stop | collect against stop | no send on a closed channel |
| Lifecycle (`coremain/mosdns.go`, `pkg/safe_close`) | plugins, close signal | load, close, restart | the close signal during the load | every plugin closed once |
| Settings, overrides, switches, special groups | settings files | load, change, save | lost updates between load and save | what was answered is saved |
| Rate limiter, matchers, hosts, small executables | per address counters; rule lists | allow, collect; lookup | collection beside use | the limit; the reference definition |
| Web interface: shell (`webui-log/src/App.vue`, `utils/notice.js`) | page that is open, refresh timer, notice | tabs, automatic refresh, reset of the statistics, jump to the log | timers that replace each other, events to pages that do not listen yet | one interval if it is wanted, none else; what is asked of a page reaches it |
| Web interface: requests and dialog (`api/http.js`, `utils/confirm.js`) | the one dialog and who waits for it | get, post, put, delete; open, answer | a second question takes the dialog | a "no" is a no |
| Web interface: query log (`QueryManager.vue`) | rows, search, detail, captures, aliases | load, page, search, filter, save | loads that overlap | what is selected is there |
| Web interface: local lists (`ListManager.vue`) | a draft of each list, the editor | select, load, type, save | one editor for all lists | no text is saved as another list |
| Web interface: upstreams (`UpstreamManager.vue`) | the groups as last read, the editor | add, change, toggle, remove; special groups | positions in a list that may be stale | no save is doubled, nothing is removed unasked |
| Web interface: data (`DataManagementManager.vue`, `data/`) | caches, learned lists, window of entries; state and form of the requery task | load, clear, flush, view; trigger, cancel, schedule | two paces of polling and three timers | the task is watched while it runs |
| Web interface: rules (`RulesManager.vue`, `rules/`) | rules of each plugin | load, save, rename, move, toggle, remove, update | a rename is two requests, a toggle sends the whole row | a rule is filed under its name and type |
| Web interface: system (`SystemControlManager.vue`, `system/`) | modes, switches, overrides, audit, port, updates, appearance | load, save, switch, back up, update and wait for the restart | flags shared by several functions; saves while still picking | no button stays disabled, no work is doubled |
| Web interface: overview (`OverviewManager.vue`, `dashboard/`, `useRealtimeMetrics.ts`) | rankings, details, statistics, live metrics | load, open an entry, refresh | answers for a window that is closed or another's | a window shows its own entry |
| Older interfaces (`webui-blog`, `webui-log/src-log1`), installers, `src/clash-for-linux` | | | earlier forms of the pages above; other programs | |

Queries call plugins through the interpreter; `cache` and `prefer_ipv4` run the
rest of the sequence and look at its outcome; `domain_output` gets the names of
answered queries through a channel; `requery` drives `domain_output` over HTTP
and sends its queries through the server itself; `forward` calls the upstream
transports; the update guard runs the configuration update inside the process
it starts. The pages of the web interface call the HTTP API and share with each
other only the shell, the dialog and the notice. `PROJECT.json` lists every component with its sources and what is
modelled of it, and every hazard with its line.

## 2. Modules

| Module | Models | Composition |
|---|---|---|
| `QueryPath`, `QueryPath_proofs` | entry handler, interpreter, `forward`, `fallback`, `dual_selector` | |
| `QueryMeaning` | what a configuration means, without walkers, goroutines or channels | reference definition, used by `MCQueryPath` |
| `ReuseConn`, `ReuseConn_proofs` | `reuse.go` | |
| `L1Shard` | one shard of the cache's first level, as operators | used by `CachePlugin` |
| `CachePlugin`, `CachePlugin_proofs`, `CacheCounts_proofs` | `cache.go` on `pkg/cache` and `pkg/concurrent_map` | extends `L1Shard`; the proofs of what is counted extend those of what is kept |
| `LearnedTable` | what a plugin that learns names promises | abstract specification |
| `DomainOutput`, `DomainOutput_proofs` | `domain_output.go`, the switch | implements `LearnedTable` |
| `Requery`, `Requery_proofs` | `requery.go` | extends `LearnedTable`, that is, runs against the promise |
| `ConfigUpdate` | `config_update.go` | extended by `UpdateGuard`, with whose proofs its own are |
| `UpdateGuard`, `UpdateGuard_proofs` | `update_guard.go`, the steps of `update_manager.go` and of the service manager | extends `ConfigUpdate`, adds the crashes |
| `WebPage` | `http.js`, `confirm.js`, `ConfirmBubbleHost.vue`: functions that wait, requests, faults, the dialog | extended by every page |
| `ListPage`, `LogPage`, `UpstreamPage`, `DataTables`, `RequeryPanel`, `RulesPage`, `SwitchPanel`, `SystemPanel`, `AppearancePanel`, `OverviewPage` | the pages of `webui-log/src/components` | extend `WebPage` |
| `AppShell` | `App.vue`, `notice.js`, the settings of the refresh | extends `WebPage` |
| `WebLog`, `WebLog_proofs` | the interface: mounting and leaving of pages, the way from the overview to the log, the properties | extends all pages |
| `MC*` | small instances of each | |

How state and actions correspond to the code:

* **QueryPath.** `go` holds the goroutines: program counter, stack of calls of
  ExecNext, query and response, error. Calls in tail position replace their
  callers, as nothing runs after them. `heap` holds the `ChainWalker` values:
  they are cells because `jumpBack` is a pointer. `w.p++` is two steps, a read
  when the plugin returns and a write at the head of the loop, as another
  goroutine may do the same. `chan` has the channels of a goroutine that waits
  for two others. One action per plugin and per case of each `select`. A
  message is its type and its kind. The fast path of a rule (`isSimple`) takes
  the same steps as the slow one and is not distinguished.
* **ReuseConn.** One step per critical section of `t.m`, per channel operation
  and per system call. `pc`, `conn`, `retry`, `inbox` are the variables of a
  call of ExchangeContext, `dial` and `reader` the goroutines of a connection,
  `once` its `closeOnce` with the goroutine inside. A response is the query it
  answers, or `Stray`. Only Close blocks while it holds `t.m`, so the mutex is
  the position of Close.
* **CachePlugin.** `work` says where each query and each lazy update is between
  the accesses to the levels; `l1` and `l2` are the levels, `task` the dump
  loop, a flush and a save, `file` the dump file. An answer is its kind and its
  smallest TTL, with the times kept beside it. `alive`, `flushed` and the like
  are history variables that only properties read. So is `until`, which goes
  with an answer from the second level to the dump and back: it is set once, when
  the answer is stored, to what the rule for its kind allows (`Lifetime`),
  whatever expiration the code gives it.
* **DomainOutput, LearnedTable.** `recordChan`, `stats`, `signal`, `worker`,
  and for each goroutine that runs `performWrite` where it is and the snapshot
  it writes. The stat file is opened, which may fail (`OpenFails`), and then
  filled line by line (`FillStat`), so a crash leaves a part of it; the bound on
  crashes also bounds files that do not open. `DomainOutput` maps its table to
  the names held or on their way.
* **Requery.** `pc` of each task, `taskState` and `saved` for the state in
  memory and in the file, `taskCancel`, `timers`. A call of a URL is a request
  of the table, and is served also when the task has given it up. Reading the
  rule files may fail before any name is taken from them (`Merge`).
* **ConfigUpdate, UpdateGuard.** The files with their versions, the state
  record, the backups, `txn` for `transaction.json`, `exe` for the installed
  binary, and where server, guard and candidate are. Every write is a rename,
  hence one step that happens or fails. A crash kills all processes and keeps
  the disk.

* **The web interface.** JavaScript runs a handler up to its next `await`, so a
  step is the code between two of them. `page` is the reactive state of the
  component that is open, with `page.busy` the set of flags that are up
  (`loading`, `saving`, ...); `tasks` holds the async functions that wait: which
  await they are at (`fn`), the requests they have sent (`ask`), the replies
  that are back (`got`), the local variables they go on with (`mem`) and the
  flags that their `finally` blocks take down (`lower`). `Begin` is a handler
  that reaches its first await, `Await` one that goes on to its next. Requests
  of one `Promise.all` are sent together and served one at a time in any order,
  beside those of other functions; the first that fails rejects it (`Rejected`),
  and what follows does not wait for the others. What a template disables or hides is the
  guard of the action of that button (`Clickable`, `...Offered`). `server` is
  what the server keeps, by resource; the plugins behind it are modelled in the
  modules above, and here a request reads or replaces one resource. A text is
  the set of its lines, a row of the log the page of the log it came with, a
  rule its name, type and whether it is enabled. Leaving a page unmounts its
  component: what `onBeforeUnmount` stops is stopped, and the functions that
  wait go on with state that nobody sees.

## 3. Runs

Bounds on how often something happens are in the constants (`Max...`,
`Budgets`, `Configs`). A budget is a record, one behaviour stays within one of
them, and the set of budgets is how one run covers scenarios that would be too
large together.

| Run | Instance | What it shows |
|---|---|---|
| `query_path` | 13824 programs of three sequences that call each other with jump, goto, exec and try around accept, exit, reject, return, forward, conditions and a failing matcher, with a working and a broken upstream; 128 races of 2 or 3 of three upstreams with 4 outcomes; 100 fallbacks; 72 times `prefer_ipv4`, with four kinds of names, asked once or twice, and before each way to run a sequence; the two together | each answer is one the configuration means (`AnswerIsMeant`), no walker is shared, every goroutine ends |
| `query_jump` (violation) | `prefer_ipv4` in a jumped-to sequence | an AAAA passes although the name has an A |
| `reuse_pool` | 2 calls, 2 connections, one retry; a cancel, or Close with one stray response | exclusive use, answers match, no two exchanges meet on a connection, the pool holds live connections, nothing enters after Close, calls return |
| `reuse_close_hangs` (violation) | the same with Close | Close and `closeWithErr` wait for each other |
| `cache_levels` | 2 keys in a shard of one slot; 2 queries, 2 updates and 3 exchanges, or 1 query and 3 flushes, dumps, faults or crashes | the second level gives no answer a longer life than its kind allows, ring and map agree, unsaved changes are counted, flushes stick |
| `cache_ttl` (violation) | 2 queries on one answer | a promoted answer has its age subtracted twice |
| `output_learn` | 2 names, 2 records, channel of one, 2 requests, one crash | implements `LearnedTable`; accepted names are kept and written; Close returns |
| `requery_tasks` | 2 tasks, a timer, an update, a failed save and a crash | state is true and saved, an undisturbed run restores its names, the schedule lives |
| `update_crash` | 4 files (replaced, created, deleted); 2 crashes and a stop, with 2 updates and an edit, or with one update, one failed write and a binary installed by hand, or with an edit and a binary installed by hand and no update | complete or without a trace, also after a failed write; edits kept, one whole configuration served, a server serves in the end |
| `web_pages` | every page but the next two, one kind to a behaviour; 3 functions waiting at once, 3 started, one request refused or its reply lost | no flag or timer is left behind, no guarded work is doubled, a "no" is a no, lists keep apart, what is selected exists, a window shows its own entry |
| `web_tasks` | the pages of rules and of the requery task; 2 functions at once, 3 started, one fault, a server that starts and ends runs by itself | the task is polled exactly while it runs or is awaited, rules stay filed under their name and type |
| `web_filter_lost` (violation) | the overview and the log | the filter sent to a log page that was not open is lost |

Why the bounds are enough for what is claimed of them: every hazard in
`PROJECT.json` that names a property is one that the instance reaches, which
the mutants show: each property has a variant of the model with a plausible
bug, and the same run finds it. Two calls and two connections already give an
abandoned dial, a retry and a reuse; a shard of one slot makes every second
store an eviction; a channel of one is full after one name; two crashes allow a
crash during the recovery from one. Three sequences are what jump inside jump
inside exec needs. What larger instances would add is repetition, and for the
invariants listed in section 5 the proofs cover all sizes.

The bounds of the web interface are `MaxTasks` (functions that wait at once),
`MaxCalls` (functions started in a behaviour, those of timers included) and
`MaxFaults`. Two functions that overlap are what each of its hazards is made
of; the third is a poll or a refresh beside them. `MaxUpstreams`, `MaxPages`,
`ViewPages`, `MaxQueries` and the sets of names bound the data: two upstreams
make a position stale, two pages of a log make an append. A visit of a page with
parts that share no state (the aliases and the rows of the log, say) uses one
of them, chosen when it is opened (`Visiting`); a page is opened again when all
that waited has ended. `Ports` and `Capacities` have the values at the limits
of the checks in the forms.

`CHECK_DEADLOCK FALSE` is set for three modules. In `UpdateGuard` the number
of starts, backups and crashes is bounded, and a behaviour that has used its
budget has no step left. In `CachePlugin` the same holds for queries and time, and in
`WebLog` for the functions that may be started.
`QueryPath` and `ReuseConn` state where the system may stop (`Terminating`):
all queries answered and goroutines ended, or, in `ReuseConn`, the hang of
`reuse_close_hangs`. The keys and the queries of `cache_levels` are
interchangeable and are declared symmetric; that run has no liveness property.

### Fairness

* Goroutines that can run are run: weak fairness of the steps of each call, of
  each goroutine, of the worker, the guard and the service manager.
* A read of a connection ends only if the server answers, a deadline is set or
  the connection is closed: that is the guard of the reader's fairness in
  `ReuseConn`. No fairness is assumed of dials that fail, cancels or Close's
  being called.
* In `DomainOutput` the worker's `select` chooses at random among the cases
  that are ready, so a case that is ready again and again is taken: strong
  fairness of its cases.
* The guard waits 90 seconds for the health of the candidate; a candidate that
  has not served by then fails: weak fairness of `CandidateFails`.
* In `QueryPath` it is enough that some goroutine of the query runs as long as
  one can, and that the client asks its next query: weak fairness of `Moves` and
  of `Ask`. This includes that an upstream answers or times out, and that a
  goroutine that can only wait for its timer goes on in the end. Timers may run
  out earlier, and the deadline is not assumed to pass.
* `Requery`, `CachePlugin` and `WebLog` state no liveness and assume no fairness.

## 4. Findings

1. **Close hangs** (`reuse.go:211`). Close waits in `closeOnce.Do` with `t.m`
   held; `closeWithErr` is inside `closeOnce.Do` and waits for `t.m`.
2. **TTLs shrink twice** (`cache.go:440`). The message that is promoted has its
   age subtracted already and keeps the old store time.
3. **An AAAA is not suppressed** (`dual_selector.go:179`). Both lookups copy the
   walker, but not the walker its `jumpBack` points to.
4. **The filter of the overview is lost** (`App.vue`, `QueryManager.vue`). The
   shell sends the event at the tick in which the log page is mounted; the page
   listens only after its first two requests have been answered.

The four are runs that TLC finds violated. The following were met in the same
way, with a property stated for the purpose, and are told here instead of
being kept as runs:

* `cache.go:461`, `:508`: every answer is stored in the first level for the
  smallest TTL of its records, also by a lazy update. `saveRespToCache` allows an
  empty answer 300 s (`cache.go:1105`), NXDOMAIN 30 s and SERVFAIL 5 s, but the
  first level is asked first and serves them as fresh for longer. A promotion
  gives an answer the expiration of the item that a second lookup finds
  (`cache.go:438`), which may be that of a newer answer; `L2WithinLifetime`
  bounds that by the newest answer to the key.
* `update_guard.go:284`: a candidate that fails before its own upgrade begins
  leaves the record of an earlier failed upgrade to the same package, and the
  guard restores that backup over the edits made since.
* `domain_output.go:334`: the switch is read before the mutex is taken, so a
  name is added after the flush of the switch and stays in a table that is off
  (`CHANGELOG.md:120` says that switching off stops additions and clears).
* `requery.go:197`: the clean-up of a failed task runs after the next one has
  started and marks that one idle; a third may then run beside it.
* `SystemControlManager.vue`: of two switches that exclude each other
  (`docs/releases/v0.3.14.md:8`) both end on when they are clicked before the
  first has been answered, as the page decides by what it shows.

Hazards that no property covers, beside those in `PROJECT.json` that say so: a
dial that outlives its caller pools a connection without a deadline
(`reuse.go:154`); a failed write during a rollback is recorded as a rollback
(`config_update.go:588`); a candidate that dies before `NewServer` is never
rolled back (`update_guard.go:327`); the stat file of `domain_output` is
truncated before it is filled (`domain_output.go:444`); a requery task that ends
between the flush and its last query keeps no copy of the names
(`requery.go:239`); a timer that is pending when the schedule changes still
fires (`requery.go:745`); the poll of the requery task overwrites a schedule
that is being edited. The models contain these behaviours; the code promises
nothing about them that a property could hold it to.

## 5. Proofs

The proofs are by inductive invariants: `Init => IInv`, `IInv /\ [Next]_vars =>
IInv'` with a step for every action, and `IInv` implies the property. An
invariant was checked by TLC on a small instance before it was proved.
(`CountInv` was explored to 7.5 million states rather than to the end; the names
of goroutines in the `IInv` of `QueryPath_proofs` are sequences of numbers and
strings, which TLC cannot compare, so that conjunct was checked in parts.)

| Module | Theorem | Says, for every value of the constants |
|---|---|---|
| `ReuseConn_proofs` | `TypeCorrect` | types of all variables |
| | `NoConcurrentExchangeCorrect` | the panic "concurrent exchange calls" is unreachable |
| | `ExclusiveUseCorrect` | no connection is in two hands, or pooled while in one |
| | `AnswersMatchCorrect` | a call returns the answer to its own query |
| | `PoolHoldsLiveConnsCorrect` | the pool and `t.conns` hold no closed connection |
| | `NothingAfterCloseCorrect` | after Close nothing enters them |
| `CachePlugin_proofs` | `RingIsSoundCorrect` | the CLOCK ring and the map agree, for any size of the shard |
| | `L2WithinLifetimeCorrect` | the second level serves no answer as fresh past the lifetime that the rule for its kind gave that answer, a dump and a restart included; a promotion gives the first level none past that of every answer to its key |
| | `FlushSticksCorrect` | what a successful flush removed does not come back, whatever dumps, faults and restarts there are |
| `CacheCounts_proofs` | `TypeCorrect` | types, and the slots and keys in use are those of the updates that run |
| | `UnsavedIsCountedCorrect` | the count of changes covers what the dump file lacks |
| `DomainOutput_proofs` | `OutputTypeCorrect` | types of all variables |
| | `NoLostRecordCorrect` | an accepted name is in the table, the channel or the hands of the worker until it is flushed |
| | `KeepsItsPromiseCorrect` | `DomainOutput` implements `LearnedTable` |
| `Requery_proofs` | `RunningIsPersistedCorrect` | a running task is running in the file |
| | `RunningIsCancellableCorrect` | "running" has a live task behind it that the cancel reaches |
| | `RunRestoresCorrect` | an undisturbed run gives back the names it had read |
| | `ScheduleIsAliveCorrect` | an enabled schedule has a timer |
| `UpdateGuard_proofs` | `InvariantCorrect`, `TypeCorrect` | the invariant; types of all variables, with failed writes too |
| | `ServesWholeConfigCorrect` | no start serves a mixture of two configurations |
| | `OldBinaryOldConfigCorrect` | the old binary never serves with the new configuration |
| | `VerifiedIsCompleteCorrect` | a verified update has its binary, record and files |
| | `EditsSurviveCorrect` | if no write fails, and there is no guarded update where binaries may also be installed by hand, no failed, interrupted or rolled back upgrade loses an edit |
| | `RollbackIsExactCorrect` | if no write fails and no binary is installed by hand, a rolled back update leaves no trace |
| | `VerifiedAfterFaultCorrect` | the only update, with one failed write and no crash, is complete when it is verified |
| `QueryPath_proofs` | `WalkersArePrivateCorrect` | no two goroutines run the same walker, if no rule jumps to a sequence with `prefer_ipv4` |
| `WebLog_proofs` | `InvCorrect` | the invariant of all pages: who has the dialog, and whose flags are up |
| | `OneAtATimeCorrect` | work under a flag that is looked at first is never under way twice |
| | `NoMeansNoCorrect` | a function that was answered "no" only reads after it |
| | `IdleMeansReadyCorrect` | when nothing waits no flag is up |
| | `DetailShowsItsRowsCorrect` | a window of details shows the log of its own entry |
| | `SelectionExistsCorrect` | the open row is in the table, the selected capture was captured |
| | `ListsKeepApartCorrect` | no text is saved as another list |
| | `RulesKeepIdentityCorrect` | each rule is filed under its name, with the plugin of its type |
| | `RequeryIsWatchedCorrect` | the requery task is polled exactly while it runs or is awaited |
| | `RefreshAsSetCorrect` | one refresh interval if it is wanted and none else, one timeout for a notice |

*ReuseConn.* That `exchange` finds no other exchange on its connection does not
follow from itself: a connection may come from the pool, from a dial or from a
retry. `IInv` says in addition that a call that dials or exchanges has a
connection (`HasConn`), that nothing happens on a connection before its dial
has succeeded (`Dialed`), that whoever is about to close a connection has taken
it out of `t.conns` (`Shut`), and the core, `Exclusive`: to be in the pool, to
have an exchange, to be on the way back to the pool in its reader, and to be in
the hands of a call that is about to exchange exclude each other, and two calls
never hold one connection. `ExclusiveUse` and `AnswersMatch` assume in their
statements that no response comes unasked: a second invariant follows the answer
from the query on the wire through the reader to the channel of the call. It
assumes `NamesDistinct` (None and Stray are no calls, attempts or connections)
and `BoundsTyped`.

*CachePlugin.* `IInv` adds to the three properties the types of the levels
(`Typed`), what each query and update knows at each place of its code
(`WorkGood`: what it is about to store or promote expires in time), that everything
that may be loaded or promoted does (`SourcesAlive`), and where a flush has
got to (`FlushReaches`). The lemmas about `L1Shard` say that inserting,
updating and removing keep the ring; that the hand stops is the well-foundedness
of the natural numbers. It assumes `ShardAssumption`, `CacheAssumption` and
`NamesAssumption`.

*CacheCounts.* `CountInv` counts: the slots of the semaphore are the updates
between their start and their release, the keys of the group those of the
updates that have joined it, one for a key (`Semaphores`); and the keys that the file
lacks, or will lack when the dump under way is over (`Behind`), are at most the
count, what the dump loop has taken of it, and the stores that are about to
count (`ChangesCounted`). That holds from the moment a dump or a flush that
has reset the count holds the lock until one fails (`Settled`). What is counted
is finite whatever the sets of keys and updates are.

*DomainOutput.* `IInv` adds the places a writer can be at (`AtModes`) and that,
once the plugin is switched off, no accepted name is left in the channel only
(`OffKeepsNothing`). For `LearnedTable`, whose table is the names in the table
of the plugin, in the channel and with the worker, the initial state maps to an
initial state and each step to a step or a stutter: a record is a `Learn`,
what the worker does with a name a stutter, or a `Drop` once the plugin is off;
the first step of a write for a flush is its `Flush`, a write of the file
a `Dump` or the `Answer` of the request it is for, and a restart a `Reload`. It assumes `OutputBounds`,
`RequestsTyped` (the worker and Close are no requests) and `NamesTyped` (what
stands for no name is no name).

*Requery.* Three of the invariants keep themselves, as state, cancel function
and file change under one mutex. The fourth holds at the end of a run because of
what holds on the way (`Restores`): before the flush each name read is still
to be asked; after it each is to be asked, in flight or in the table; at
the final save all are in the table. It assumes `RequeryBounds` and `TasksAsk` (the
tasks are among the users of the table).

*UpdateGuard.* Nothing that is worth stating here keeps itself: that a mixture
is never served depends on how the record, the transaction, the binary and the
files stand to each other at each place where everything may be killed. `IInv` is
`TypeOK`, `BackupsHeld` (there is a backup where the code reads one) and, as
long as no write has failed, `NoFault` and `BeforeUpdates`. `NoFault` says what a
record and a backup mean wherever they come from (`RecordsMean`), who is alive
and what is written of the transaction by then (`Placed`), how binary, schema
and transaction match (`Matched`) and which files are whole, which restored
and which applied so far (`FilesMatch`). Without a binary installed by hand
only a candidate upgrades, the record goes back to the first one
(`FirstOnly`), and the files are those the update found or are restored from
its backup (`FilesFound`). It assumes `FilesDisjoint` and `BudgetsTyped`.

The properties are stated for behaviours without a failed write, and TLC shows
why: a write that fails while a backup is put back leaves a mixture. Two writes
that fail in one update, or one and a second update, also verify an update that
is not complete. One alone, in the only update and with no crash, does not
(`VerifiedAfterFault`), and that has an invariant of its own, as most of `NoFault`
is false once a write has failed. `FaultInv` keeps what survives any number of
failed writes: what an upgrade has made of the disk, whose record says that
it goes on until it is committed (`Grounded`), and what the guard has written of the
transaction at each of its places, where only a failed write makes it undo an
update that it has verified (`Written`). From these follows `OneFault`: in such an
update, wherever the schema is applied the configuration is whole, unless it is
being undone or is still to be. `EditsSurvive` leaves out the update
that follows a failed upgrade by hand, as the guard may put back the backup of
the earlier one (the first of the observations in section 4).

*QueryPath.* The invariant is about ownership: a cell of the heap is named by the
goroutine that made it and a number, every frame on the stack of a goroutine is
on a cell of its own, and a walker jumps back to an older cell of its own
goroutine. Names of goroutines are not reused, as a goroutine starts others once,
and numbers are not, as cells are counted. A copy of a walker keeps its
`jumpBack`, so `prefer_ipv4`, whose two goroutines each get a copy, keeps the
invariant only if the walker it copies jumps nowhere back. That is what
`NoPreferBehindJump` assumes: a sequence that a rule jumps to has no `prefer` rule.
Without it the theorem is false, which is finding 3; all programs of `query_path`
satisfy it. The walkers that a goroutine may jump back to (`Chain`) are a
recursive function: that it has the value its equation says follows from the
least sets closed under jumping back, and that it stays among the cells of its
goroutine from the order of their numbers. It assumes
`ConfigsTyped`: the tags in a configuration name plugins of the right kind, as
`setupJump`, `setupGoto`, `setupTry` and the constructors of the plugins check.

*WebLog.* There are a hundred and more actions, and what holds of flags and of the
dialog is not about any one of them. So each action is first shown to be one
of a few moves: a handler without an await, the beginning of an async function,
a question, the way to the next await, the second question of a function, an
end, a reply, an answer, a reload of the window. (A function that has asked no
question may end before all its requests are answered: `Over`.) Each move says which flags
may rise and fall, and that a flag of `ExclusiveFlags` that rises was down.
The moves, not the actions, keep `Inv`: the page has the fields of its kind
(`Framed`); whoever asks has asked one question, at most one function waits for
its first answer, and the last to ask has the dialog (`Questions`); a flag that is up is
one that a function that waits takes down, an exclusive flag is in the hands of
one function, is up as long as that function waits and down while another waits
for a "yes" to raise it (`FlagsFall`). `OneAtATime` is part of it, and
`NoMeansNo` holds because what each asker does after a "no" is to end or
to read again. Two flags are outside `FlagsFall`: `detailLoading` of
the overview, which a function whose window was closed leaves to the next
opening, and the wish of the colour picker for another save. `IdleMeansReady`
needs the invariants of these two pages.

What is said of one page has an invariant of that page, which the actions of the
page keep and all other steps leave alone (`StepsOfKind`).

* `OverviewInv`: the log shown is of the entry that the open window is about, and
  the window says that it loads only while a function waits for the log of that entry.
* `AppearanceInv`: a save is wanted again only while a save is under way.
* `LogInv`: the requests that can be selected were captured, and the selected one is
  among them.
* `ShellInv`: an interval or a timeout that runs is the one that the shell knows
  of, so starting another one stops it.
* `RequeryInv`: interval and timeout follow from the state, before and after a
  page is left.
* `ListInv`: the text of each list stays with it at the server, in the drafts,
  in the editor, in each request to save and in each answer to a load.
* `RulesInv`: each row of the table, each answer that holds rules, each rule that
  is to be put after a deletion and each question about one has the
  type of the plugin it came from or goes to; a request that sets a rule sets it
  under its own name at the plugin of its type.

It assumes that the kinds of page are those of the interface (`PagesAssumption`),
that the model's name for nothing is no task, no notice and no status
(`NoneAssumption`, `NoticeAssumption`, `StatusAssumption`), that there is a first list
(`FirstListAssumption`), that the keys under which
the model files the names of special groups and the AdGuard rules, which the server has under
other paths, are no lists and no types of rules (`ListsAssumption`,
`RuleTypesAssumption`), and that a cache or a switch has no flag of another's
name (`FlagsAssumption`: the pages keep these flags by the tag of the cache and
of the switch, apart from the flags of the page). The bounds `MaxTasks`, `MaxCalls`
and `MaxFaults` are any numbers.

Only model-checked:

* everything under fairness: liveness needs ENABLED, which the prover does not
  handle (`EveryoneEnds`, `CallsReturn`, `RecordsReachFile`, `CloseReturns`,
  `UpdateEndsInService`);
* `AnswerIsMeant`: `QueryMeaning` is recursive, so it is outside what can be
  proved about and is used by TLC only.

Every other property of a passing run is a theorem.

## 6. Not modelled, and why

* Parsing and packing of messages, EDNS0, marks and flags of a query: data that
  no step of the models depends on.
* Downloads, archives, checksums, metrics, logs.
* In the cache: the upload of a dump, the listing, the making of keys, domain
  sets of answers, eviction from a full shard of the second level.
* In `domain_output`: rule files, counts and dates, the post to `domain_set`.
* In `dual_selector`: expiry of known names; in `forward`: statistics.
* Two updates requested at once (`PerformUpdate` takes no lock), and a binary
  that cannot run at all: both need actors outside the modelled protocol.
* Of the web interface: layout, formats, the drawing of the chart, the columns
  of tables, export and copy; the colours cached in `localStorage`; the points
  of the trend that are kept across visits; the special groups of the rules
  page, which `UpstreamPage` has in the same form, and the address filled in
  for a name there. In the statistics a group has one upstream. A reload of the
  window drops the requests that are under way. Of the ways between pages only
  the one that carries data, from the overview to the log, is composed; the
  other tabs start the next page anew.
* `webui-blog` and `webui-log/src-log1`, earlier forms of the same pages.
* The components with status `not_modelled` in `PROJECT.json`: downloaded and
  static rule sets, the domain mapper, AdGuard rules, the audit, `aliapi`, the
  lifecycle, the settings files, switches, the rate limiter, matchers, the
  remaining transports and the servers. Their state is their own: the modelled
  parts meet them through calls that the models have as an outcome (an upstream
  answers or fails, a matcher matches or does not, a request to the API is
  served or refused).

## 7. Theorems worth proving next

That the shard of `L1Shard` implements a map that forgets. That a configuration
without `prefer_ipv4` and races runs the rules that `QueryMeaning` runs, with
the meaning written as a function instead of a recursive operator.
