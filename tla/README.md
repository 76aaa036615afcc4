# Verification of mcpplane

mcpplane is a Go library of building blocks for MCP servers that must move
files and hand work to a human outside the model's channel. Its core is
in-memory concurrent bookkeeping: handles, one-time tokens, registries and
their retention, each behind a mutex, with goroutines, timers, HTTP handlers
and callbacks running between the critical sections. That is what this
directory models, model-checks with TLC and, where it can, proves with TLAPS.

Paths below are relative to the repository root (`transfer/...` is
`src/transfer/...`). Nothing is persisted anywhere in the modelled code: after a
crash every table is empty, so there is no recovery to model.

## 1. Inventory

| Component | State | Operations | Depends on |
|---|---|---|---|
| Upload task manager, `transfer/upload_tasks.go` | task table, tombstones and their FIFO, caps; per task a run context, a watchdog timer, an owned reader | `Start`, `Prepare`, `Fulfill`, `Get`, `List`, `Cancel`; worker goroutine; watchdog; prune inside most of them | the upload executor (callback) |
| Presigned upload endpoints, `transfer/upload_http.go` | `tokens`, `byHandle` | `Mint`, `Prepare`, `FindUpload`, `putHandler`/`claim`, prune | upload task manager, `io.Pipe`, loopback |
| One-time downloads, `transfer/download_http.go`, `download_limits.go` | `tokens` with cleanup hooks | `Mint`, `getHandler`/`claim`, deferred response writer, capped writer | serve closure (callback), loopback |
| One-time hand-off endpoint, `handoff/handoff.go` | pending items, spent tombstones and their FIFO, reaper | `Mint`, `Resolve`, `Remove`, `Claim`, `Count`, lookup, `handle`, reaper | `Handler` (callback), loopback |
| Hand-off registry and resume tools, `handoff/handoff_registry.go` | continuations by handle | `Begin`, `Get`, `End`, `Prune`, resume tool handler | async handle store (cleanup callback), continuation (callback) |
| Async handle store, `session/async.go` | items with expiry | `Create`, `CreateWithID`, `Get`, `Set`, `Delete` | - |
| Wizard sessions, `session/session.go` | sessions, steps, expiry | `Create`, `Get`, `Delete`, `Cleanup`, `Touch`, `AdvanceSession` | - |
| Signed requestState, `session/request_state.go` | none | mint, verify | - |
| Loopback server, `transport/loopback/loopback.go` | base URL, or a listener bound on first use; trusted origins | `SetBaseURL`, `EnsureLoopback`, `Stop`, `URLFor`, `Origin`, `AddTrustedOrigins` | net/http |
| App resources and views, `sdk/apps_registry.go`, `apps/*.go` | retained registrations per server and URI; tool registrar; views by tool, view-domain resolver | `RegisterAppView`, `RegisterAppTool`, `RegisterAppResource`, `SetAppResourceConnectDomains`, `UnregisterAppResource`, `SetAppViewInfo` | MCP SDK server, catalog, loopback (origins) |
| File relay and limits, `ieo/*.go` | per reader: bytes left until the cap, bytes read; body and context of a fetch | `OpenFileURL`, `ParseFileDataURI`, their readers, `CheckTreeSize`, `CheckDirectorySize` | network, file system |
| Upload sources and sinks, `transfer/upload_source.go` etc. | none | `OpenBytes`, `MintURL`; choice of a sink | file relay, upload endpoints |
| MCP adapter, `sdk/*.go` | none of its own | conversion to and from the SDK's types | MCP SDK |
| Model types and helpers, `model/`, `toolargs/`, `forgeutil/`, `credctx/` | none | data types, schemas | - |

How they interact. A tool call or an HTTP request is a goroutine. An upload is
either `Start`ed directly, or `Prepare`d: the manager registers a handle, then
the coordinator registers a token for it, and a later PUT claims the token and
hands the read end of a pipe to `Fulfill`. The manager then runs the executor in
a goroutine under a deadline, with a watchdog for executors that ignore it;
clients poll and cancel by handle. Every coordinator that hands out URLs embeds
a loopback server; the assembly asks the upload coordinator for its origin and
bakes it into the list entries of the app views that upload to it. A hand-off goes through a one-time URL served
by the endpoint, and a resume tool that finds the flow's continuation through
its handle in registry and store.

What is hard here:

* *who ends an upload* - completion, watchdog and `Cancel` race, and each also
  closes the reader and ends the context, outside the lock;
* *one-time means once* - tokens are looked up in one critical section and
  consumed in another, with arbitrary handler code between;
* *two tables, two locks* - coordinator and manager, registry and store: every
  call between them leaves a window;
* *retention* - four cutoffs in the manager, FIFO tombstones, caps that evict,
  lazy expiry that only happens when somebody calls;
* *half a body* - a broken PUT or GET, or a fetched file at the cap, must never
  look complete;
* *half a wiring* - a view is registered in many steps, some of which fail, and
  the registry and the server's list are changed one after the other.

What makes each component correct is listed with its module below; the hazards
with their source lines are in `PROJECT.json`.

## 2. Modules

| Module | Models | Kind |
|---|---|---|
| `HandleLifecycle` | what the manager promises the holder of a handle | abstract specification |
| `UploadTasks` | `upload_tasks.go`; refines `HandleLifecycle` | component |
| `MCUploadTasks` | handle symmetry for its runs | TLC instance |
| `UploadProofs` | theorems about `UploadTasks`, its refinement of `HandleLifecycle`, and `UploadEndpoint` | proofs |
| `SequenceLemmas` | FIFOs that list each element once: enumerating, appending, dropping a prefix | lemmas |
| `UploadEndpoint` | `upload_http.go`, EXTENDS `UploadTasks` | composition |
| `MCUploadEndpoint` | symmetry for its runs | TLC instance |
| `DownloadEndpoint` | `download_http.go`, `download_limits.go` | component |
| `DownloadEndpointProofs` | theorems about `DownloadEndpoint` | proofs |
| `OneTimeLinks` | what one-time URLs promise those who open them | abstract specification |
| `HandoffEndpoint` | `handoff.go`; refines `OneTimeLinks` | component |
| `HandoffEndpointProofs` | theorems about `HandoffEndpoint` | proofs |
| `ResumeRegistry` | `handoff_registry.go` together with `session/async.go` | composition |
| `MCResumeRegistry` | symmetry for its runs | TLC instance |
| `ResumeRegistryProofs` | theorems about `ResumeRegistry` | proofs |
| `WizardSessions` | `session.go` | component |
| `WizardSessionsProofs` | theorems about `WizardSessions` | proofs |
| `Loopback` | `loopback.go`: state and operations, used by `AppViews` | component |
| `AppViews` | `apps_registry.go` and `apps_lib.go`, EXTENDS `Loopback` | composition |
| `MCAppViews` | a small set of views and symmetry for its run | TLC instance |
| `AppViewsProofs` | theorems about `AppViews` and `Loopback` | proofs |
| `FileIntake` | `file_relay.go`, `file_data_uri.go`, `tree_size.go`, `OpenBytes` | component |
| `MCFileIntake` | caps for its run | TLC instance |
| `FileIntakeProofs` | theorems about `FileIntake` | proofs |

In every module one action is one critical section of a mutex, or one effect
the code has outside it. A clock the code reads immediately before taking the
lock is read in the action that takes it. Time is a counter that stops at
`MaxTime`; a tick is longer than any wait for a lock. Definitions whose name
says what a bug would do (`KeepTombstone`, `MarkAgain`, `ReleaseNone`, ...) are
used by no specification: each is a mutated form of the definition after it,
and shows, when put in its place, that some property notices.

### UploadTasks

`task[i]` is the `UploadTask` record: state, error class, TTL, and one time
(`CreatedAt` while prepared, `FinishedAt` once terminal; no code reads another).
`tasks`, `tombstones` and `tombstoneOrder` are the manager's maps and FIFO.
`worker`, `watchdog`, `canceller`, `ctx`, `result` and `closes` are the program
counters and the shared effects of the goroutine of `spawn`, of the `AfterFunc`
callback, of `Cancel` after its unlock, of the run context, of `exec`'s return
values, and of the close-once reader.

* `Start`, `Prepare`, `Fulfill` and `Poll` (`Get`, `List`) are whole critical
  sections: prune (`Pruned`, `Settle`), admission (`SlotFree`,
  `PreparedSlotFree`), registration, untombstoning. `Batches` has every order
  the map walk and stable sort can produce.
* `Run`, `Bail`, `ExecReturns`, `StopWatchdog`, `Complete`, `Release` are the
  goroutine; `WatchdogFires`, `WatchdogCancels`, `WatchdogFails` the callback;
  `Cancel`, `CancelContext`, `CancelReader` a cancel; `Deadline` the context's
  own timeout. They interleave freely.
* External: the executor returns when it likes or never, with success, an error
  of its own, or its context's error, the last only of a context that has ended.
  ExecTimeout is any duration: deadline and watchdog may fire at any time.
* Left out: archive and wrap options, names, the order of `List`, the branches
  of a manager built without an executor, and the reader of a refused attempt.
  A terminal tombstone is retired by the very prune that makes it unless it is
  stuck behind a younger head; so the "finished" tombstones the comment at
  `upload_tasks.go:786-787` speaks of are in practice hardly ever reported.

### UploadEndpoint

Adds the coordinator (`tokens`, `byHandle`, and `issued`, the tokens ever
drawn), `minting` (a `Prepare` between its two locks), one program counter per
PUT (`put`), and the state of each pipe (`whole`: the body went through;
`closed`: the writer is closed; `eof`: the executor has read a clean end).
`Claim` is `claim`; `HandOver` the call to `Fulfill` or `Start` and its error
path; `CopyEnds`, `BodyBreaks` and `PipeBreaks` the outcomes of `io.Copy`;
`Abort`, `CancelReturns`, `CloseWriter` the order cancel, close, answer. All of
the manager's other steps stay possible, a `Cancel` by a user included.
Assumed: all uploads come through an endpoint, bodies have at least one byte,
`io.Pipe` behaves as documented, and the executor reports success only of a
stream it has read to a clean end. `FindUpload` changes nothing; it reads the
maps `ReferencesInSync` is about.

### DownloadEndpoint

`tokens` is the table, `file[t]` what a token was minted for (the length of the
file and the size declared, 0 if unknown; nobody compares the two),
`released[t]` how often the cleanup hook ran, `get[r]` a request from claim to
answer with the chunks sent, the committed status, the error of `serve` and how
the response ends. `Mint` sweeps the expired; `Claim` takes or drops; `Write`,
`WriteNothing`, `WriteTooMuch`, `SourceFails`, `Served` are the external serve
closure writing through `SizeLimitedWriter` and the deferred response writer. A
write commits the 200 before it reaches the response, which may refuse it
(beyond the announced length) or find the connection broken. `Answer` runs the
hook, settles the status and ends the response. `Announces` is the
Content-Length branch of `getHandler`, for a declared size only. External:
`net/http` cuts the connection of a 200 that ends short of its Content-Length (`FallsShort`,
`EndOf`); any other response ends in a way that looks complete. `HonestAnswer`
says by name when it may: a file cut off after the first write passes for a
whole one only if its size was not declared, or declared wrong.

### HandoffEndpoint

`items`, `spent`, `spentOrder` are the endpoint's; `request[r]` goes through
`Open` (`Resolve` and dispatch), `Render`, `Forbid`, `Submit` and `Worked` (the
handler's `ConsumePOST`, with `Claim` where it claims), `Consume` (`Remove`).
`Lookup`, `Withdraw`, `Count` are the children's and coordinators' calls; `Reap`
the reaper, which `StartReaper` and `Stop` switch. `handler` is chosen
initially and says whether GETs consume and whether POSTs claim first.

### ResumeRegistry

`items` is the store and `cont` the registry. A start tool is `Start`
(`CreateWithID`), `Begin` (prune, evict, register) and one `Cleanup` per swept
handle, since the cleanup callback runs after the unlock. A resume tool is
`Resume` (store lookup), `Lookup` (registry), the external continuation
(`Continued`), then `Finish` or `GiveUp`. `Prune`, `Update` (`Set`) and
`Discard` (`Delete`) run next to them. The cleanup is always wired, as the
comment at `SetCleanup` asks; several cleanups of one sweep run in any order.

### WizardSessions

`sessions` is the store's map, `session[i]` the `Session` callers hold by
pointer (expiry, step, and who has its advance lock), `call[c]` a call of the
wizard tool. `Get` takes three locks: `Get` looks up, `Check` reads the expiry,
`Discard` deletes, and other calls fit in between. `Create` reclaims and counts
under one lock. `Cleanup` and the reclaim read each expiry and delete at once: a
`Touch` between the two leaves what it would leave after both, because it does
not see the map. `Enter`, `Succeed`, `Fire` and `Stay` are `AdvanceSession`: the
lock is held while the handler runs.
External: the wizard tool (nothing under `src/` calls this store but tests), the
step handlers, and the FSM library, whose event leads out of the step it was
defined for and is refused in any other. A refused session, which `Create`
returns with an error, is assumed not to be used. The signed requestState in
which a client may carry a session's id is a function of id and clock and has
no part in this.

### Loopback and AppViews

`Loopback` has the server's fields (`baseURL`, `listener` for the pair of
`l.listener` and `l.srv`, `trustedOrigins`), and `bound`, what the operating
system has listening. Every method is one critical section; `Stop` takes the
listener in one (`StopTakes`) and shuts it down after the unlock (`Shutdown`),
so that a new one may be bound in between.

`AppViews` adds the callers. `call[c]` is one call of the interface, with its
local variables: `Mint` and `Ask` (`ConnectOrigins`) run `EnsureLoopback`, and
`HandOut` reads the origin under a later lock. `Bake` goes on from an answer of
`Ask`: it changes `record` (an `appResourceReg`) under the registry's lock, and
`AddResource` the server's list (`listed`) after it. `UnregisterAppResource` and
`RemoveResources` are the two halves of an unregistration. `RegisterAppView`
validates, then `RegisterHelper` or `HelperFails` once per helper,
`RegisterResource` and `AddResource`, then `AttachAppMeta` and `Associate` once
per tool. `reachable` is whether the registry has a map for the server at all,
which decides whether an unregistration touches the list. `overlapped` is
history: the URIs whose last change found another under way.

External: the MCP server's tables change atomically, the catalog only grows,
the registrar may fail at any time. The assembly may call everything next to
everything else, and one MCP server stands for all. Left out: the read handler,
which resolves the origin again at each read, and all metadata but the domain
and the connect domains.

`HandedOutReachable` is stated for callers during whose call the base URL did
not change and nobody stopped the server (`steady`), and leaves out an answer
of `ConnectOrigins` whose bind failed (`failed`): that one is the placeholder
`127.0.0.1:0`, by construction.

### FileIntake

One request `source` is chosen initially, with everything that can be wrong with
it: transport, cap, length and declared length, status, form; for a data: URI
also line breaks and a `flaw` (a stray character, superfluous padding, or
padding inside the payload, which Go's streaming decoder may take for the end of
a chunk and read on); for a tree its entries, some of which cannot be read. A
fetch is `RefuseUrl`, `Fetch`, then `RefuseResponse` or `HandOff`, with the
response body and the timeout's context as state. `Deadline` ends the context at
any moment, whoever has the body, and `Cut` is the read that then returns; a
body may break for reasons of its own as well. `NothingLeaks` is about what the
code does: it closes and cancels on every way out, and neither before the
consumer's `Close` once the body is handed over. `HungReadsEnd` is what the
deadline is for: a read of a peer that has fallen silent ends. A data: URI is
`Parse`. `Read` and `Probe` are both capped readers, which are the same but for
the check of the declared size (`Checked`); buffers may be of another length at
each read. `StopAtSize` is a consumer that reads as much as it was told and no
more. `Walk` is one entry of either tree walk. Lengths are computed as the code
does (`DecodedLen`), from the number of characters, not from the payload's
length. Assumed: a relay always has a request timeout, as `OpenBytes` sets one.

## 3. Runs

Passing runs explore the whole state space of their instance.

| Run | Instance | What it shows |
|---|---|---|
| `upload_tasks` | 2 handles, 1 active and 1 prepared slot, TTL 1, clock to 4, handle symmetry | caps, tombstones against FIFO, one close per reader, retention, final outcomes, refinement of `HandleLifecycle`; about 1.6 million states |
| `upload_endpoint` | 1 upload, 2 tokens, 2 PUTs, clock to 2, symmetry | no truncated result, both maps in step |
| `upload_endpoint_live` | 2 uploads for 1 slot, 1 token, 2 PUTs, fair | one upload per endpoint; uploads end, readers are closed, PUTs are answered |
| `download` | 2 tokens, 3 GETs, lengths and declared sizes of 0, 1, 3 chunks, cap 2, clock to 2 | served once, resources released, honest answers; about 3.5 million states |
| `endpoint` | 2 tokens, 2 requests, cap 1, TTL 1, clock to 2, fair reaper | spent map against FIFO, claims, refinement of `OneTimeLinks`, reaping |
| `registry` | 3 handles, 3 starts, 2 resumes, cap 2, clock to 2, symmetry | bounded registry, eviction order, no live-but-dead handle, done flows stay done |
| `sessions` | 3 sessions for 2 places, 2 calls, 2 steps, TTL 1, clock to 3 | refusals only when full of live sessions, no step handled twice over; about 3.9 million states |
| `apps` | 2 views (one with 2 helpers and 2 tools, one without helpers that shares a tool), 3 calls, 2 ports, 1 base URL, symmetry | no leaked listener, reachable URLs, no partial wiring, list and registry agree after a change that ran alone; about 430 000 states |
| `intake` | payloads to 9 bytes, caps -1, 0 (default 4), 2, 6, 8, buffers 1, 2, 5; trees to 3 entries of 0 to 3 bytes; fair deadline | truncated never looks complete, verdicts match the reference sums and lengths, bodies and contexts are not leaked, hung reads end; about 147 000 states |

Three runs end in a violation, each of something a comment of the code says:

| Run | The comment | What happens |
|---|---|---|
| `download_held` | the hook runs after the GET has served the bytes (`download_http.go:44-47`) | a second GET for the used token runs it while the first still streams |
| `endpoint_secret` | a consume-on-GET link shows its secret exactly once (`handoff.go:86-87`) | two GETs resolve before either removes the token |
| `registry_refreshed` | a re-registered handle is never its own victim (`handoff_registry.go:111-115`) | its old entry is past the TTL, so the prune at the top of `Begin` lists it, and the cleanup deletes the handle just refreshed |

Seven more comments do not hold, six of them of the models. They are told here
only, no run checks them:

* A timeout always ends with the timeout message (`upload_tasks.go:504-508`).
  The watchdog fires and closes the reader (`WatchdogFires`,
  `WatchdogCancels`); the executor returns the error of the closed reader, and
  the completion takes the lock first and records that (`Complete`).
* The handler's `Cancel` aborts the read before partial bytes pass for a complete
  stream (`upload_http.go:384-388`). When a user's `Cancel` got there first and
  has not closed the reader yet, the handler's is refused at once, and the pipe
  is closed cleanly (`Abort`, `CloseWriter`). The upload is already cancelled,
  so `NoTruncatedResult` holds, but the executor has taken the truncated body
  for a whole one.
* A PUT can always still fulfill its handle while its endpoint is live
  (`upload_http.go:234-237`). The caps can refuse it: `Fulfill` needs an active
  slot, and the token is spent when none is free (`Claim`, `HandOver`).
* Of two `SetAppResourceConnectDomains` the last write wins
  (`apps_registry.go:230`). It does in the record; the list is changed after the
  unlock, so that two overlapping writes may leave it with the earlier origins
  (`Bake`, `AddResource`). `ListSettles` says when the two agree again.
* A failing download is never a clean 200 with a truncated body, and what comes
  after the first byte shows as a length mismatch (`download_http.go:174-177`);
  an over-limit stream "fails loudly" (`download_limits.go:28-32`). Without a
  declared size no Content-Length is set (`download_http.go:203`), and a source
  that fails, or a cap that is hit, after the first write ends the response in
  the ordinary way: the truncated file looks complete. An empty first write is
  enough to commit the 200 (`WriteNothing`). `HonestAnswer` excludes exactly
  these cases.
* The context of a relay's request timeout "only spans client.Do and returns
  after headers" (`file_relay.go:123-127`). It bounds the reads of the body too,
  as the comment at 213-218 says (`Deadline`, `Cut`).
* A requestState outlives its session, which would otherwise be stranded
  (`request_state.go:36-40`). Its lifetime is a constant 35 minutes, while
  `NewSessionStoreWithTTL` and `NewSessionStoreWithLimits` take any TTL, and a
  `Touch` extends the session but not a state already minted.

Some properties cover less than their names may suggest. `SweptHandlesRetired`
is about a sweeper's own batch: that its late cleanup deletes a handle another
call has refreshed meanwhile is possible, and not excluded. `ListSettles` and
`HandedOutReachable` leave out the overlaps named above and in section 2.

### Why the bounds are enough

* Two handles with one slot of each kind are needed for admission to refuse, and
  for the FIFO to have an order; the manager's steps on one handle touch others
  only through caps and prunes, which do not tell a third handle from a second.
* Clock 4 with TTL 1 lets a task be prepared, lapse, be tombstoned and be
  forgotten while another one finishes; the own window `2` and the default
  window (`0`) are both used.
* In the endpoint runs two PUTs are what a race over a token takes, a second
  token what a sweep needs besides the token that has expired (clock 2 is the
  first strictly after an expiry), and a second upload what a sibling needs.
  Both at once is beyond five minutes, which is why there are two runs.
* Cap 2 with files of 0, 1 and 3 chunks: empty, below the cap, beyond it
  with some bytes already sent; each declared as it is, longer, shorter, and not
  at all.
* One tombstone for two links makes every second spending an eviction.
* Three starts against a registry of two: an eviction, a replacement and an
  expiry in one behaviour.
* Three sessions for two places: a `Create` that must reclaim one of two, or
  refuse. Clock 3 is the first at which a session touched in time has expired
  all the same, while one created in place of an expired one is still live.
* Three calls: two that race over one resource, and one that settles it; or one
  that binds, one that stops and one that hands out. Two ports are what a leak
  takes. Helpers 2 and 0: a failure after the first, and a view that needs no
  registrar. Two tools, one of them shared: an attachment that is half done.
* Payloads to 9 bytes are all remainders modulo 3 three times over, and lie
  below, at and beyond the caps; buffers of 1, 2 and 5 end before, at and after
  each cap. With interior padding a payload is two bytes shorter than its
  characters say; those of 2 to 6 bytes pass the filter, and the reader's check
  has to catch them.
  Three entries are needed for an aggregate that no pair exceeds.
* `CHECK_DEADLOCK FALSE` stands where all requests may have been served and
  nothing is left to do.

### Fairness

`FairEndpointSpec`: spawned goroutines are scheduled and armed timers fire
unless stopped (weak fairness of the manager's unattended steps), HTTP handlers
run on, and a client that goes on sending finds the pipe closed. Nothing makes
an executor return, a context reach its deadline, a client finish, cancel or
poll; that the watchdog suffices is the point of the three liveness properties.
`FairSpec` of `HandoffEndpoint`: the reaper's ticker goes on firing while it
runs. `FairSpec` of `FileIntake`: the deadline of a request passes
(`Deadline`), and a read of a body whose context has ended returns (`Cut`);
the other end may never send another byte, and the consumer need not close. All
other runs are safety only.

## 4. Proofs

Everything below holds for every value of the constants that meets the module's
named assumption; the runs show the same properties on one instance. Each
module proves one inductive invariant per question, `Init => Inv` and
`Inv /\ [Next]_vars => Inv'`, with a lemma per action or group of actions, and
reads the properties off it. Beyond what the code requires of its
configuration, the assumptions only say that the markers used for "nobody" or
"none" are not themselves calls, handles, tokens, ports or views, nor the
registry's `Prune` one of the start tools.

| Module | Theorem | Statement |
|---|---|---|
| `UploadProofs` | `Invariance` | `Spec => []IInv` |
| | `TypeCorrect` | `Spec => []TypeOK` |
| | `TombstonesStaySynced` | `Spec => []TombstonesInSync` |
| | `OutcomesAreFinal` | `Spec => OutcomeIsFinal` |
| | `ResultsAreRetained` | `Spec => []ResultRetained` |
| | `CapsHold` | `Spec => []AdmissionCaps` |
| | `ReadersAreReleasedOnce` | `Spec => []ReaderReleasedOnce` |
| | `StatusesMoveForward` | `Spec => StatusMovesForward`, the refinement of `HandleLifecycle` |
| | `EndpointsDriveTheManager` | `EndpointSpec => Spec` |
| | `EndpointInvariance` | `EndpointSpec => [](LifeInv /\ EndpointInv)` |
| | `MapsAgree` | `EndpointSpec => []ReferencesInSync` |
| | `OneUploadPerEndpoint` | `EndpointSpec => []NoSiblingUploads` |
| | `NoTruncatedUploads` | `EndpointSpec => []NoTruncatedResult` |
| `HandoffEndpointProofs` | `TypeCorrect` | `Spec => []TypeOK` |
| | `SpentStaysInSync` | `Spec => []SpentInSync` |
| | `WorkIsEnteredOnce` | `Spec => []WorkEnteredOnce` |
| | `OldestIsForgottenFirst` | `Spec => OldestForgottenFirst` |
| | `LinksPromiseIsKept` | `Spec => LinksKeepTheirPromise`, the refinement of `OneTimeLinks` |
| `ResumeRegistryProofs` | `Invariance` | `Spec => []IInv` |
| | `TypeCorrect` | `Spec => []TypeOK` |
| | `CapHolds` | `Spec => []RegistryBounded` |
| | `SweptFlowsLeaveNoHandle` | `Spec => []SweptHandlesRetired` |
| | `NewestFlowsWin` | `Spec => NewerFlowsWin` |
| | `DoneFlowsStayDone` | `Spec => DoneFlowNotResumed` |
| `DownloadEndpointProofs` | `TypeCorrect` | `Spec => []TypeOK` |
| | `TokensAreServedOnce` | `Spec => []ServedOnce` |
| | `ResourcesAreReleased` | `Spec => []ResourceReleased` |
| | `AnswersAreHonest` | `Spec => []HonestAnswer` |
| `WizardSessionsProofs` | `TypeCorrect` | `Spec => []TypeOK` |
| | `StepsAreCurrent` | `Spec => []StepIsCurrent` |
| | `RefusalsAreJustified` | `Spec => RefusedOnlyWhenFull` |
| `AppViewsProofs` | `TypeCorrect` | `AppSpec => []TypeOK` |
| | `ListenersAccountedFor` | `AppSpec => []NoOrphanListener` |
| | `HandedOutIsReachable` | `AppSpec => []HandedOutReachable` |
| | `ViewsAreWiredWhole` | `AppSpec => []NoPartialWiring` |
| | `TheListSettles` | `AppSpec => []ListSettles` |
| `FileIntakeProofs` | `ReadFilesAreWhole` | `Spec => []CompleteIsWhole` |
| | `ResponsesAreReleased` | `Spec => []NothingLeaks` |
| | `VerdictsAreRight` | `Spec => []VerdictIsRight` |

The arguments.

*`UploadTasks`.* None of the properties is inductive. `OutcomeIsFinal` needs to
know that a completion that is not overtaken finds its task running, which ties
the state of the worker to that of the task (`WorkerMatches`, `Overtaken`);
`TombstonesInSync` needs that no registered handle is tombstoned and that the
FIFO has one position per tombstone (`RegistrySynced`, `Queued`), through a
prune that tombstones a whole batch and an untombstoning that removes from the
middle. `IInv` is the conjunction of the type invariant with these.
`PruneFacts` says what any outcome of a prune may change, by the lemmas of
`SequenceLemmas` on enumerations of a finite set and on appending one;
`RegisterFacts` does the same for a registration that takes its own tombstone
back (`RemoveAtFacts`). `NextIInv` puts the groups of actions together.
Retention (`RetentionInv`: a task that has ended and is within its TTL is still
registered) and the caps are proved on top of `IInv`, the caps by counting: a
step adds at most one handle to a capped set, and only after the slot check
under the same lock.

That a reader is closed exactly once needs to know who still owes it
(`ReaderOwed`): until it is closed, the worker is on its way to a step that
closes it, or a cancel or a fired watchdog is. The dangerous case is `Bail`,
after which the worker closes nothing: only a cancel can have overtaken it
before the watchdog was armed, so that one owes the close.

The refinement of `HandleLifecycle` rests on `HandleStep`: to any one handle a
step of the manager does one of four things, namely nothing (`LeftAlone`), take
its upload a step on (`Progresses`), admit it (`Admitted`), or prune it
(`PrunedTo`). `TombstonesTell` (a tombstone remembers an outcome) and `IInv`
turn each of them into a step forward of what a poll reports, or none.

*`UploadEndpoint`.* `ManagerMoves` and `EndpointsDriveTheManager`: with coordinator
and handlers around it the manager still takes steps of its own specification
only, so `LifeInv` (all invariants of `UploadTasks` that were proved before)
holds beneath the endpoints and need not be proved again. None of the three
properties is inductive. `ReferencesInSync` needs that a handle gets one
endpoint, after it was prepared (`EndpointsAreNew`): otherwise sweeping one
endpoint of a handle would take the reference of another. `NoSiblingUploads`
needs that a claimed token is spent for good, though its entry may be dropped
from the map by a second PUT or a sweep (`TokensAreSpent`). `NoTruncatedResult`
is about the manager's state and the handler's: `PutsOwnPipes` (one PUT per
pipe, and only an upload that has a worker has one), `PutsAreHonest` (a PUT
that sends has its pipe open, and one that is about to close a broken one has
seen its upload end), and `PipesAreHonest` (whatever has been read to a clean
end was whole, or is of an upload that has ended otherwise). The last step is
the handler's refused `Cancel`: an upload that has a worker, is not cancellable
and is gone from the registry or still there can only have ended, which takes
`WorkerMatches` and the retention invariant of the manager.

*`ResumeRegistry`.* Here `IInv` holds everything: the types, with the registry
finite; the cap; `HandlesNamed` and `FlowsAreBegun` (what is registered under a
handle is the flow of a start tool that has begun it); `ResumesMatch` and
`DoneFlowsAreGone` (a resume runs the flow it looked up, and no flow on record
has delivered its terminal result); `SweepsFollowBegin` (a start has a batch to
clean up only once it has begun), and `SweptHandlesRetired`. The cap is counting: before
it adds one `Begin` has left room for it, or the handle it registers was there.
A resume that finishes removes the flow from the registry before its
call returns, and flows are never registered twice; that is why
`DoneFlowNotResumed` holds, though the store and the registry are looked up
under different locks.

*`HandoffEndpoint`.* `Tombstones` (the set is what the FIFO lists, each once) is
kept by marking, by marking a batch and by dropping a prefix. `PruneFacts` is
about the least number of tombstones whose loss brings the map to its cap
(`LeastNumber`): what is left is the younger part, at most the cap, and
everything if it is less than the cap. All the links can do in one step is
`LinksGoOn`, proved once per operation; from it follow the order of forgetting,
the refinement (a link never comes back, and one is forgotten only while the
cap is used up by others) and `WorkInv`: a handler that claims has not begun the
work of a token that is still pending. That conjunct is the strengthening
`WorkEnteredOnce` needs, since only the step that removes a pending item begins
its work, and no minted token is minted again.

*`DownloadEndpoint`.* `Claimed`: the token of any GET was minted, is used for as
long as it is registered, and belongs to no other GET. `Progress`: what is sent
and what is left add up to the file, whoever has written has its 200, and
nothing but a failed write has ended the response before the handler does.

*`WizardSessions`.* `Advancing`: a handler runs under its session's lock, for the
session's step; so no other call can move the session under it. `StoreInv`:
only stored sessions are in the map, and no more than its capacity;
`ReclaimFacts` adds that a map without room after a reclaim holds live sessions
only.

*`AppViews`.* Four invariants on top of the types (`TypeInv`). `LoopbackInv`
knows that the listener is never one that is being stopped. `HandInv`: a call
that is `steady` and has ensured the listener is still served when it reads the
origin. `WiringInv`: a call shows a view only after its last helper was
registered, and helpers are never lost. `SettleInv`: as long as u's last
change ran alone, at most one call has a change of u's list entry before it, and
it announces what is on record.

*`FileIntake`.* `Accounts`: bytes delivered and room below the cap add up to the
cap, bytes delivered and bytes left to the payload, up to the one byte the probe
may take. `Held` says who has the response: a body that is handed over is open
and its context not cancelled, whether its deadline has passed or not. `Judged`
keeps the reason of a refusal, and `FittingParses` shows by the arithmetic of
padding and line breaks that no file that fits is among them.
What a tree adds up to is stated without recursion, as the number of its bytes
(pairs of a file and an offset): then `WalkInv`, that the walk has counted the
bytes of the entries it has passed, all of which could be read, needs no
induction but the walk's own (`BytesAddUp`), and that an early exit is justified is that a part has no more
bytes than the whole (`SumBounds`).

Only model-checked: the five liveness properties `EveryUploadEnds`,
`EveryReaderReleased`, `EveryPutIsAnswered`, `ExpiredItemsAreReaped` and
`HungReadsEnd`, which take reasoning about fairness and ENABLED that the provers
cannot do. And the three violations of section 3, which are counterexamples and
need no proof. Every other property of a run is a theorem.

## 5. Not modelled

The SDK adapter, the model types, schemas and generated mocks are stateless:
there is nothing for interleavings to break. Neither is there in the signed
requestState (`request_state.go`), in the sinks and file names of uploads
(`download_sink.go`, `wrap_name.go`) or the launcher tool (`open_launcher.go`).
CORS, the JWT carried with a token, the checks of a URL's host and addresses,
and the pages' wording are left out of the modelled components. Eight hazards
have no property, most of them because the code promises nothing there;
`PROJECT.json` gives the reason at each.

## 6. Plan

Done: 1 `UploadTasks` with `HandleLifecycle`; 2 `HandoffEndpoint` with
`OneTimeLinks`; 3 `ResumeRegistry`; 4 `DownloadEndpoint`; 5 `UploadEndpoint`;
6 `WizardSessions`; 7 `Loopback` and `AppViews`; 8 `FileIntake`; 9 the proofs of
section 4: `ResumeRegistry`, `ReaderReleasedOnce` and the refinement of
`HandleLifecycle`, `UploadEndpoint` and the trees of `FileIntake` were the last.

Left:

10. Between the manager and the endpoints: an abstract specification of a
    presigned upload as its client sees it (one answer per PUT, one upload per
    link), which `UploadEndpoint` refines.
11. Between the store and the registry: the same for a hand-off, from the
    start tool's answer to the terminal result.
