# MCP Hub: TLA+ verification project

MCP Hub is a multi-tenant proxy for Model Context Protocol servers, written in Rust. Each
user keeps a set of *server instances*; an MCP client signs in through the hub's own OAuth
server and talks to one endpoint, `/mcp`, behind which the hub runs the user's servers as
child processes (or connects to them over HTTP) and aggregates their tools.

This directory holds TLA+ models of the parts of the hub where state is shared between
concurrent tasks, TLC configurations that check them on small instances, and TLAPS proofs of
their main properties for every size. `PROJECT.json` records, for every definition, the
source lines it models, for every property the mutation of the code that breaks it, and the
hazards the properties are aimed at. Paths below are relative to the repository root.

* [Inventory](#inventory)
* [Plan](#plan)
* [BackendPool and Supervisor](#backendpool-and-supervisor)
* [OAuthTokens](#oauthtokens)
* [Accounts](#accounts)
* [GitServers and Deployment](#gitservers-and-deployment)
* [GroupRouter](#grouprouter)
* [What is proved](#what-is-proved)
* [What is only model-checked, and what is not modelled](#what-is-only-model-checked-and-what-is-not-modelled)
* [Running it](#running-it)

## Inventory

The hub is one process: an axum server, an SQLite database and three background loops. All
state that is not in the database hangs off `AppState` (`src/lib.rs`).

| Component | State it keeps | Operations | What must hold |
|---|---|---|---|
| **Backend pool** `src/proxy/pool.rs` | per user an entry: backends, dirty and initialized flags, applied reload epochs, last attempts, connecting markers, heartbeat strikes; `bind_lock` and the inner mutex; global semaphore of slots | `backends_for`, `reconcile` with its detached spawn tasks, `mark_dirty`, `reap_idle`, `warm_all`, `exercise_all` | no server runs twice in an entry; caps hold; nothing is served that is disabled, outdated or untracked; every caller gets an answer; crashed servers come back |
| **Background loops** `src/main.rs` | timers | warm every minute, heartbeat, reap idle entries, sweep expired sessions | they do not undo what requests do |
| **Reload epochs, notifications** `src/lib.rs` | `reload_epochs`, subscribed peers | `bump_reload`, `restart_backend`, `notify_tools_changed` | a Restart or edit reaches the running child |
| **Backend connection** `src/proxy/backend.rs` | transport, permit | spawn, connect, MCP calls, close on drop | a closed transport is noticed; a slot returns with its backend |
| **Server instances** `src/instances.rs` | rows: definition, environment, enabled flag | create, update, enable, build state, config file, delete | one namespace per user, owner only |
| **Web pages** `src/web.rs`, **hub__ tools** `src/proxy/management.rs` | none of their own | handlers: several database writes, then tell the pool | rows and pool agree in the end |
| **OAuth tokens** `src/oauth/{store,token,authorize}.rs` | pending codes in memory, refresh-token rows | consent, code exchange, rotation, reuse detection, revocation | one live token per family; a dead family stays dead; honest clients are not cut off |
| **OAuth registration, keys, metadata** `src/oauth/{register,keys,metadata}.rs` | client rows, signing key | dynamic registration up to a cap, JWT | the cap |
| **MCP authentication** `src/proxy/mod.rs` | none | bearer token to user, endpoint to group, per request | disabled or deleted users are turned away |
| **Proxy server and router** `src/proxy/server.rs` | per session: the bound user, a registered peer | bind, aggregate and route namespaced names, `hub__` calls | a name reaches the server that offered it, and only if group and denials allow it; a call acts for its caller |
| **Accounts** `src/users.rs`, `src/invites.rs`, `src/auth/*` | users, invites, passkeys, sessions, ceremonies in memory | bootstrap, registration, recovery, login, disable, delete | exactly one administrator, for ever; a code lets in one account; distinct sandbox UIDs; disabled users stay out |
| **Groups, denials, access tokens** `src/groups.rs`, `src/access.rs`, `src/tokens.rs` | rows | create, rename, set members, delete; replace and clear denials; create and revoke | edits take effect on live sessions, and clients with an old list are told |
| **Git-sourced servers** `src/gitsrc.rs`, `src/gitcreds.rs` | environments and scratch directories on disk, build state in the row, build lock | update, build, swap, record, launch, remove | a launch finds the complete build of one commit, the one recorded; removal leaves nothing |
| **Runtime status** `src/status.rs` | last outcome per instance | set, remove, retain | no entry outlives its server |
| **Metrics, audit** `src/metrics.rs`, `src/stats.rs`, `src/audit.rs` | counters | write only | nothing reads them back |
| **Configuration, crypto, sandbox, utilities** | start-up values | | |

How the parts meet. An MCP request authenticates, asks the pool for the user's backends
(`backends_for`), filters them by group and denials and borrows them while it talks to them.
Web and `hub__` handlers write the database first and tell the pool afterwards (`mark_dirty`
when the set of servers changed, `restart_backend` when one server did): two steps that other
requests run between. The pool reads the database again when it reconciles. Spawn tasks are
detached: they finish after the request that started them has answered, and then announce
themselves through `notify_tools_changed`. The warmer calls the pool as a session would.
Account pages delete refresh-token rows while the token endpoint is rotating them.

What is hard here: decisions made from state read before an await; late spawns joining a
pool that has changed meanwhile; a timeout racing the answer it waits for; caps that count
what is on its way; crashes of children at any time; a heartbeat verdict about a backend that
has been replaced; a refresh token consumed by one transaction and replaced by another;
repeated, lost and concurrent refreshes; builds that outlive the request that started them, and a
swap that takes two calls; edits of groups and denials between the queries of one request. The
list, with source lines, is `hazards` in `PROJECT.json`; [further ones](#hazards-without-a-property)
without a property are below.

## Plan

1. **BackendPool** (done): the heart of the hub and the most concurrent part.
2. **OAuthTokens** (done): rotation with its failures, and the clients.
3. **Accounts** (done): users, invites and recovery codes, ceremonies, passkeys, sessions and
   administration.
4. **GitServers** (done): update, build, swap, record, launch and removal of an environment,
   with crashes and failures between any two of them, against the abstract **Deployment**.
5. **GroupRouter** (done): requests, groups, denials, tokens, notifications and names.
6. **Compositions**: accounts with the pool (backends of a deleted user, sandbox UIDs that are
   used again); the router with the pool's entries.
7. **Supervisor** (done): what the pool promises of its children, which BackendPool implements.
8. **SQLite connections**: transactions opened by plain statements on pooled connections; the
   client cap of dynamic registration.

Each component has an `MC...` module with the constants and symmetry sets for TLC and a
`...Proofs` module; the pool has three, each extending the one before (`BackendPoolProofs`,
`PoolServingProofs`, `SupervisorProofs`). No module uses RECURSIVE operators, so that all can be proved about.

## BackendPool and Supervisor

One user's entry, or rather entries: `reap_idle` drops the user's entry from the map while
requests still hold the old one, so `Entries` names the allocations and `users` says which
one the map holds. The variables follow the code.

| TLA+ | Code |
|---|---|
| `row`, `def` | the instance rows: enabled flag, version of the definition |
| `epoch`, `applied` | `AppState.reload_epochs`, `Inner.applied_epochs` (its domain is `tracked`) |
| `backends`, `dirty`, `initialized`, `connecting`, `strikes` | the fields of `Inner` |
| `cooling` | instances whose `last_attempt` is younger than `RESPAWN_BACKOFF` |
| `bindLock`, `innerLock` | `bind_lock`; the inner mutex while the decide section holds it over several steps |
| `pc`, `at`, `todo`, `claimed`, `snap` | the locals of `backends_for` and `reconcile`, and the backends a caller has borrowed |
| `tasks` | the detached spawn tasks with their `late` flag |
| `closed`, `others`, `hb` | closed transports, slots of other users, the heartbeat pass in progress |
| `forgone`, `overlooked`, `outdated` | no code: the lapses below, recorded for the properties |

A backend is named by the permit of the global semaphore it owns (`Backend._permit`): the
permit comes back exactly when the last `Arc` is gone (`DropUnheld`), as in Rust.

Actions. `CallNew`, `CallFresh` and `CallStale` are the entry and fast path of
`backends_for`; `RecheckFresh`, `RecheckStale` the recheck under `bind_lock`; `ListInstances`
(or `ListFails`), `SandboxFails`, `BeginDecide`, one `DecideKeep`, `DecideSkip` or
`DecideClaim` per listed instance, `EndDecide`, `BudgetExpires`, `BindDone` the steps of
`reconcile`; `Connects`, `SpawnFails`, `Settle` a spawn task; `WebStart`, `WebWrite`,
`WriteFails`, `WebFails`, `PublishSet`, `PublishRestart` a handler: it reads the row, writes,
and tells the pool; `HeartbeatStart`, `HeartbeatApply`, `ReapIdle`, `BackoffElapses`, `Crash`,
`OtherTakes`, `OtherReturns` everything else. A step ends where the code awaits, unlocks or
lets another thread in. Environment switches (`Sandboxed`, `Reaping`, `DeepWarm`, `DbFaults`,
`Contended`) correspond to configuration or to the world and are constants, so that a run
can afford the cases its question needs.

Left out as data: definitions are version numbers, capabilities and tools do not exist, the
runtime-status registry (written by these steps, never read by them) and the log.

### Runs

| Run | Question | Bounds | Result |
|---|---|---|---|
| `pool_sessions` | concurrent sessions, a handler, crashes, late spawns, the reaper, contended slots, failing database and sandbox: no duplicate, lost, orphaned or silent backend; restarts and disables are honoured | 1 server (at first enabled or absent), 2 sessions, 1 handler of any kind but edits, 2 slots, 1 restart | holds, 2.8 million states |
| `pool_capacity` | the per-user cap, and that a heartbeat pass drops only what it listed and found failing, with servers enabled and disabled | 2 servers, 1 session, cap 1, 2 slots, `MaxStrikes` 1 | holds, 2.9 million states |
| `pool_live` | every call answered; an enabled server comes back, even at the cap, with heartbeats on; edits are honoured; `ImplementsSupervisor` | 1 server, warmer and session, cap 1, 3 slots, 1 restart or edit | holds, 92 thousand states |
| `pool_stale_def` | the definition that runs is the stored one | 1 server, 1 session, 1 edit | **violated** |
| `pool_lost_dirty` | a disabled server is not served | 1 server, 1 session | **violated** |
| `pool_crash_at_cap` | an enabled server comes back without heartbeats | 1 server, cap 1 | **violated** |

The properties of the passing runs:

* `NoDuplicateBackends`: what `bind_lock` and the `connecting` set are for. Fails if a bind
  respawns an instance that is still connecting.
* `TrackedBackends`: a pooled backend is in `applied_epochs`, the only map `is_fresh` scans.
  Fails if a late spawn joins without looking whether its instance is still wanted.
* `ConnectingIsReal`: each marker has a spawn or a claim that will clear it; a marker left
  over would keep a server down for good.
* `InSnapshotOrAnnounced`: a spawn either makes its binder's snapshot or carries the late flag.
* `RestartHonoured`, `DisableHonoured`, `EditHonoured`: what the hot path serves is no older than
  the last reload, enabled, and launched from the stored definition, as soon as the handler has
  told the pool. The code does not keep this without exception, so each property
  names its exceptions, and says that there are no others:
  * `forgone`: a skip at a cap, or a sandbox failure, stamped the reload epoch though an
    older child was running (`pool.rs:240`, `pool.rs:290`);
  * `overlooked`: a bind that had listed the server wiped a `dirty` mark that came after its
    query, or a sandbox failure wiped it without looking (`pool.rs:258`, `pool.rs:235`);
  * `outdated`: a bind launched a definition it had read before the edit (`pool.rs:212`), or
    the handler of the edit told nobody, because it had seen the server disabled
    (`web.rs:911`) or a later write failed (`web.rs:903`).

  The three are history variables: no guard reads them. An exception ends when the server is
  claimed again (`forgone`, `outdated`) or at the next reconcile (`overlooked`).
  The properties fail when a reload epoch is not compared, a `mark_dirty` is not made, or a reload
  is not counted.
* `ImplementsSupervisor`: see below.
* `WithinUserCap`: backends plus connecting markers, late arrivals included.
* `HeartbeatSparesRespawns`: an action property. It is checked with `MaxStrikes = 1`, because
  with two or more strikes the reset of the count at each claim also protects a respawn and
  would hide a mistake in the comparison of `Arc`s.
* `RequestAnswered`, `EnabledComesBack`: liveness, below.

The three violations are real disagreements between the code and what it says of itself:

* **An edit can be recorded as applied without being applied.** `reconcile` reads the
  definitions at `pool.rs:212` and the reload epoch at `pool.rs:274`. An edit that commits and
  bumps the epoch in between is stamped as applied by a spawn of the old definition.
  `restart_backend` is documented as the cure for exactly this ("without this a healthy child
  keeps serving the old code/config until the hub restarts").
* **A disable can be forgotten.** `dirty` is cleared at `pool.rs:258`, after a list query made
  at 212: a `mark_dirty` in between is lost, and the disabled server keeps being served.
* **A crash at the cap.** The cap test counts the crashed backend, which only its own respawn
  would remove: at the per-user cap a crashed server does not return by itself unless the
  heartbeat is on, while the README says "crashed backends respawn on their own".
  For the same reason a Restart (or edit) at the cap is skipped: its epoch is stamped as applied and
  the old child served from then on, while `restart_backend` promises to "relaunch its pooled
  backend on the next request".

### Supervisor

`Supervisor` is the pool without sessions, locks, spawn tasks, permits and backoffs: per entry and
server a child that is down, starting or up, and the version it was launched at. A launch needs
room under the cap and a server that is not starting, replaces what ran, and takes the version the
server has at that moment; a child that is starting arrives or is given up, nothing else can stop
it; children that are up may be stopped, several at once. The mapping: `starting` is a connecting
marker, `up` a pooled backend, `version` the reload epoch, and `runs` collects the epochs of all
that an entry runs, is starting or has claimed for the server (`Fleet`): in the specification
never more than one.
`ImplementsSupervisor` therefore says in one formula that binds, late spawns, budget expiry,
heartbeats and reaping keep one child per server, within the cap, and never launch one for a
reload that has been superseded. The spec leaves open *when* children are stopped: that is what the
three properties above are about.

### Why these bounds

One server is enough for every property that speaks of one instance: instances interact only
through the cap and the slots, which `pool_capacity` explores with two. Two sessions are the
smallest number that contend for `bind_lock`. Two slots allow an old backend that
is still borrowed beside its replacement, and run out when another user takes one; with four and
nobody else `pool_sessions` holds as well (2.5 million states). `MaxEpoch = 1` gives one Restart or
edit, before, during and after each step of a bind; `MaxStrikes` is small so that strikes run out.
One entry identity (`Entries`) suffices because an identity is reused when nothing refers to
it; the proofs cover any number. `pool_live` needs a database that answers, so an edit whose later
write fails is covered by the proof of `EditHonoured` alone.

### Fairness

`FairSpec` assumes only what the runtime gives. A request that is inside `reconcile` goes on
(weak fairness of `Reconcile`): its database calls return, and the bind budget is a timer that
fires (`HUB_BIND_BUDGET_SECS` is not set to 0, which means: wait for all).
`bind_lock` is tokio's FIFO mutex, so a waiter gets it in the end (strong fairness of `Recheck`). Callers release what they borrowed (`EndUse`), backoffs
elapse, the warmer calls again (`Call`, for `Warmers` only), and its heartbeat gets the inner
mutex, which is held briefly (strong fairness). **Nothing** is assumed of the spawned servers:
a spawn may hang, fail or crash forever.

## OAuthTokens

Authorization codes and refresh tokens of one user and one client application, with the
client at the other end. A *family* is what one consent starts; it is named by its code.

| TLA+ | Code |
|---|---|
| `user`, `revoking` | the user's row; `deactivate_user` between its flag and its deletes |
| `codes`, `oldCodes` | `AppState.auth_codes`, and those past `AUTH_CODE_TTL_SECS` |
| `rows`, `oldToks` | the table `oauth_refresh_tokens`, and tokens past `REFRESH_TTL_SECS` |
| `pc`, `fam`, `arg`, `new` | the handlers of `POST /token`: progress, family, grant presented, token issued |
| `held` | what the client of a family will present next (external) |
| `cut`, `spared` | families that the owner or an administrator cut off, and those of them that had a code or a rotation on its way (recorded for the properties) |

Actions. `Approve` and `ApproveFull` are the consent handler with `insert_code` (evict what has
expired, then the cap). `Send` starts a request. `TakeCode` removes the code *before* the client,
redirect and PKCE checks, as the code does, so that a failed check leaves it used up
(`Checked`). `ConsumeRefresh` and `ConsumeMissing` are the immediate transaction of
`consume_refresh_once`; `RevokeFamily` the reaction to a replay; `FindUser` and `IssueTokens`
the rest, `IssueTokens` in a transaction of its own. `RequestFails` is any early error, a
database error after the retries, or the handler being dropped when its connection closes:
nothing is undone. `Granted`, `Refused`, `Failed`, `LoseAnswer` are the four ways a request
ends for its client. `RevokeConnection`, `DisableUser` followed by `RevokeAllUserTokens` or
`DeactivateFails`, `EnableUser`, `DeleteUser` are the account and admin pages (the owner's
extractor, `AuthUser`, does not look at the disabled flag, so a surviving session can still consent); `CodeExpires`,
`TokenExpires`, `RestartHub` time and restarts.

`Retry` lets a client send again before it has its answer; `Faults` switches on database
errors, lost answers, mistaken requests and restarts. Tokens are random: `Fresh(t)` picks an
identity nobody remembers, so a few identities stand for an endless supply. Expiry compares
seconds with `>` in one place and `>=` in another; the model takes a lifetime to be over at
one instant for all of them.

### Runs

| Run | Question | Bounds | Result |
|---|---|---|---|
| `oauth_rotation` | however requests interleave, repeat and fail: at most one right to a successor per family (`OneLivePerFamily`), none ever returns to a family that lost it (`NoRevival`), and disconnecting, disabling or deleting leaves none, except where a code or a rotation was on its way (`CutIsFinal`) | 2 families, 3 remembered tokens, 2 requests, cap 1, retries and faults | holds, 1.9 million states |
| `oauth_honest` | a client that waits for its answers is never taken for a replay and refused only what has expired (`NoSpuriousRefusal`) | the same, without retries and faults | holds, 41 thousand states |

Two families show that one family's replay does not touch another; two requests race for one
grant; three tokens are a consumed one, its successor and a third being issued. Where all of
them are remembered no further token can be issued until one is forgotten: the proofs, which
have any number, show that this hides nothing. Deadlock is not checked in these runs: after an
account is deleted and its requests have ended the system has nothing left to do.

A weakness beside these properties: `list_user_connections` promises "the OAuth clients a user
has live refresh tokens for" but selects consumed rows too. When the insert of a successor fails,
only the consumed row is left, and the page lists a connection none of whose tokens works.

Two further behaviours bound what the properties can say. The consume and the insert are
separate transactions, so a client whose answer was lost presents a consumed token, which is
taken for a replay: it must be authorized again (this is why `NoSpuriousRefusal` assumes
answered requests). And a rotation in flight while the connection is revoked inserts its
successor after the delete, and a code issued before it can still be exchanged: `NoRevival`
counts both as life, and `CutIsFinal` exempts exactly them (`OnTheWay`). With the exemption
dropped TLC finds the connection back after the owner ended it.

## Accounts

Users, codes, passkeys, sessions, and the ceremonies that create them. A ceremony has two
requests: the first checks and leaves a record in memory, the second takes the record and runs
one database statement after another, relying on what was checked minutes ago.

| TLA+ | Code |
|---|---|
| `acct`, `admin`, `slot` | `users`: no row, enabled or disabled; `is_admin`; `sandbox_uid` |
| `inv` | `invites`: an invite or a recovery code for somebody, used or not, and by whom |
| `owner`, `sess` | `webauthn_credentials` and `web_sessions`: whose |
| `flow` | a ceremony waiting in `reg_states` or `auth_states`, or the handler that has taken it out, at its next statement |
| `removing` | `remove_passkey` between its count and its delete, and whether another removal of the account was under way meanwhile |
| `ending` | `deactivate_user` between the flag and the sessions |
| `walkIn` | accounts that registered without a code (recorded for the properties) |

Actions. `RegisterStart`, `AddPasskeyStart`, `RecoverStart`, `LoginStart` end in
`InsertCeremony` (evict what is too old, then the cap). `TakeCeremony` begins the finish;
then `CreateUser` or `HandleTaken`, `Redeem` or `RedeemFails` and `Rollback`, `InsertCredential`,
`CreateSession`, each one statement, with `FinishFails` for errors and dropped handlers at any of
them. `DeleteRow` is `DELETE FROM users` with its cascades: recovery codes, passkeys and sessions
go, spent invites stay and forget their user; a removal or deactivation under way would find no row
any more and is dropped. `SessionsEnd`, `RemovePasskeyCount` and
`RemovePasskeyDelete` are the owner's pages, `CreateInvite` to `DeleteUser` the administrator's,
which the `hub__` tools share, `RestartHub` loses the ceremonies. What a start reads from the
database and its insert into the map are one step: the record only holds what was read, and
nothing reads the record in between.

Abstractions: the administrator acts at any time (it has a session or a token); sessions may end
at any time, which covers logout, signing out other devices, both deadlines and the sweeper; a
taken handle is a refusal any registration may meet; the WebAuthn exchange succeeds or fails.

| Run | Question | Bounds | Result |
|---|---|---|---|
| `accounts_codes` | one enabled administrator as soon as there is an account (`OneAdministrator`), always the same (`AdminForever`); whoever got in by invite has a spent code of its own (`InvitePaysForOne`); no shared sandbox UID (`DistinctSlots`); an account keeps a passkey (`LastPasskeyKept`) | 3 users, 1 code, 2 passkeys, 1 session, 2 ceremonies, ceremony cap 1, slots up to 2, 2 removals or deactivations at a time, faults | holds, 1.9 million states |
| `accounts_disabled` | a disabled account gains no session (`DisabledStaysOut`) | 2 users, the same otherwise, 1 removal or deactivation | **violated** |

Three users are the administrator and two that race for one code; two ceremonies race, and with
cap 1 a third attempt evicts or is refused. The code can be an invite, revoked, and then a
recovery code. One session is enough, because nothing but its own user depends on it. Open registration is off in the runs; the
proofs cover both. Deadlock is not checked: nobody has to do anything.

**Finding.** `set_disabled` says "A disabled user cannot sign in or use the proxy". The flag is
checked when a sign-in or recovery starts, not when it finishes: a ceremony begun before the
account was disabled creates a session after `deactivate_user` has ended them all, and the pages
do not check the flag. The proxy does, on every request.

Two more statements hold only with a qualification. "Never let a user remove
their last passkey", says `remove_passkey`; it counts and deletes in two
statements, so two removals at once take the last two. `LastPasskeyKept` says that nothing else
does: an account that has a passkey keeps one until it is deleted, unless two of its removals
overlapped.

"Every account after the first must redeem a single-use invite code", says the README; but
registrations begun on an empty table need none however late they finish: `create_admin_if_first`
makes ordinary accounts of the late ones (`walkIn`) instead of refusing them.

## GitServers and Deployment

The git-sourced servers of one user. "Update from repository" and a healing "Test connection"
read the row, queue on the hub's one `build_lock`, resolve the branch, build into
`.<id>.building`, remove the old environment, rename the new one into place, record the
commit and, some awaits later, tell the pool. Deletions, launches, probes and the running server
share the disk and take no lock.

| TLA+ | Code |
|---|---|
| `row`, `status`, `built`, `config`, `cred` | the row's enabled flag, `build_status`, `built_commit`; the config file; the git credential of the host |
| `env`, `src`, `building` | what `env_path`, the checkout `.<id>.src` and the build directory hold: sets of commits, and whether `env` is all there |
| `home`, `workdir` | the HOME and config-file directories of instances |
| `lock`, `op`, `pc`, `inst`, `saw`, `commit` | `build_lock` and the locals of the handlers; `saw` is the row as read before queueing |
| `spawn`, `fit`, `loaded`, `child`, `owed` | launches under way, the `ready` flag and config file they have read, running servers, restarts the pool has been told of |
| `shown` | the status registry |
| `strays` | git, uv and go processes nobody waits for any more, and the directory each writes to |
| `unrecorded`, `missed`, `late`, `mixed` | history: the exceptions of the properties |
| `ops`, `lapses` | no code: how many operations, and how many things that go wrong, there were |

`UpdateStart`, `TestStart`, `Lock`, `ResolveFails`, `UpToDate` and `Resolve` lead to the build
(`git ls-remote` may answer any commit); `BuildBegins`, `BuildFails`, `CloneAgain`,
`ToolTimesOut`, `TakeDown`, `Install`, `InstallFails`, `Record`, `RecordFails`, `RecordError` and
`Announce` are `update_instance` and the end of its caller, step by step: between `Record` and
`Announce` the code awaits `gitcreds::touch` and its own return. `ProbeReads`, `Probe`, `ProbeDone`
are the probe of a test; `DeleteServer` with `CleanUp`, `PurgeFiles` with `PurgeRows`, and
`ClearConfigFile` with `FileCleared` the removals; `SpawnBegins` to `SpawnConnects` a launch;
`ChildWrites` a server using its HOME; `KeepWarm` the pruning of the registry; `Crash` a restart
of the hub.

What goes wrong follows the code. A web handler is dropped at whatever it awaits when the
browser goes away (`RequestDropped`): with it goes what it was about to record, announce or
remove. Tools are spawned without `kill_on_drop`, so a timeout, a dropped request or a crash ends
the wait and not the tool, which goes on writing to its path (`StrayWrites`), be it git in the
checkout or uv and go in the build directory. Removals ignore their errors: they may do
nothing (`Wiped`, `kept`, `files`, `homes`) or stop half way (`torn`), and `delete_server` goes on
to clean although the row could not be deleted. A probe has no timeout on its listings and may
never end.

**Deployment** says what all of this promises: `turn` (whose rebuild it is), `site` (what stands
where launches look) and `record` (what the database vouches for). A site changes in its turn
only, a build is put up only where the old one was taken down, and the record never names a
build other than the one that stands. `Promise` maps the detailed state to it: the instance of
the handler that holds the lock, the one commit a complete environment consists of, and
`built_commit` where the status is `ready`. Removing a site for good needs no turn, as in the
code, and may leave it spoiled. A turn ends with the record; the announcement is not part of it.

| Run | Question | Bounds | Result |
|---|---|---|---|
| `git_updates` | the properties below, under `FairSpec` | 1 server, 2 commits, 2 handlers, 2 operations, 1 lapse | holds, 0.5 million states |

* `ImplementsDeployment`: the refinement. It breaks when a build does not wait for the lock.
* `EnvIsOneBuild`: environments and running servers are of one commit, except where a stray
  tool wrote, or a build began in a directory that could not be removed (`mixed`): `build_env` is
  documented as "swapping it in atomically" and `management.rs` as serialising builds, which the
  strays get around.
* `RecordedIsBuilt`: `ready` vouches for the complete build that stands there, although a failed
  update writes back the commit of a row it read before it queued. Excepted are a crash, a failed
  write or a dropped request between the swap and the record, an environment of which a removal
  took only part (`unrecorded`), and the builds that are `mixed`.
* `RebuildRelaunches`: what runs is what is installed, or a restart is owed, or the build is yet to
  be recorded or announced. Excepted (`missed`): the flag that decides is read before the build,
  so a server enabled meanwhile is not restarted; a healing test restarts nothing; a failed record
  announces nothing, nor does a request dropped before `restart_backend`.
* `NothingLingers`: removal leaves no environment, HOME or config copy, except what a build,
  launch, probe or the running server writes afterwards, what a dropped request or a crash kept
  from being removed, what could not be removed, and what `purge_user` passes over (`late`).
* `BuildTurnEnds`: whoever queues for the lock gets it and gives it back: an update is answered, a
  test goes on to its probe. That a test is answered cannot be claimed, since a probe may hang;
  it does so without the lock. `StatusForgotten`: entries of deleted servers do not stay,
  although a launch may write one after the removal.

The exceptions are recorded by history variables exactly where the code has the gap, so each
property says that there is no other.

One server is enough, since nothing but the lock, taken by handlers, is shared between servers;
two handlers race for it, two commits tell builds apart, and two operations are a build beside
another one, beside a removal, an enable or a config edit. `MaxLapses` bounds what goes
wrong by itself (a crash, a failing query, tool or removal, a timeout, a dropped request): one at any
place, since each property has to survive every single one of them, and the theorems, which
leave both bounds open, cover any number. The branch moves, and launches, strays and the
server's own writes happen any number of times. Deadlock is not checked: a removed server needs
nothing more. Fairness: every command of a build has a timeout and database calls and removals
return, so a handler goes on (`Works`), but not `ProbeDone`; the build lock is tokio's FIFO mutex
(`Lock`, strong); and the keep-warm loop goes on pruning. Nothing is assumed of users, tools,
strays, launches, probes or the branch.

## GroupRouter

Requests on `/mcp` and `/mcp/<group>` beside everything that decides what they may reach. A
request reads, one query after another, the token and the account, the group, the members, the
pool's backends and the denials; edits commit in between, and an answer is granted from pieces of
different ages.

| TLA+ | Code |
|---|---|
| `disabled`, `pat`, `group`, `members`, `denials`, `exists` | the tables of users, access tokens, groups, memberships, denials and instances; `spent` are group ids in use or used |
| `bound`, `peer` | `HubProxy.bound`; `AppState.client_peers` |
| `task` | a request (`sess`, `user`, `cred`, `gid`, what it has `got`) or a handler (`who` it acts for) and its next step |
| `listed`, `unread` | the client's side: the list it has, a `list_changed` it has not acted upon |
| `sending` | notifications on their way |
| `may`, `outdated`, `stale`, `untold`, `rebound` | history, for the properties |

`Request` is `require_bearer` and `authorize` (a refusal changes nothing; their three lookups are
one step, and accounts are not deleted here); `Bind`,
`ReadMembers`, `ReadDenials` or `Forward`, `AnswerList` or `AnswerCall` the group endpoint;
`Act` the management endpoint, which goes on as an operation of the user the session is bound
to by then. `WebStart` begins the same operations for a signed-in user: `CreateGroup`,
`RenameGroup`, `ReadGroup` and `SetMembers`, `DeleteGroup`, `RemoveServer`, each followed by
`Notify` (or `NotifyLost`), and, without notification as in the code, `ReadAccess` and
`SetDenials`, `CreateToken`, `RevokeToken`. `Deliver` and `Prune` are the notification task,
`SessionEnds` the drop of `HubProxy`, `DisableUser` (the flag) with `RevokeAllForUser` (the access
tokens) and `EnableUser` the administrator. Lookups that fail follow the code: no members, but
also no denials (`blind`); so do the pages that drop the error of a write. Of the client it is
assumed that it has one list request at a time per session, as `StaleListIsTold` compares what it
was told with its last list. The expiry of access tokens and their last-used times are left out.

Names are sequences of characters, joined and split as in the code (`Namespaced`, `SplitAt`):
`split_once` takes the first `__`.

| Run | Question | Bounds | Result |
|---|---|---|---|
| `router_requests` | the properties below | 2 users, 2 servers of one of them with the namespaces `a` and `a_`, a tool name with `__`, 1 token, 1 client, 1 session, 2 requests or handlers at a time, 2 operations | holds, 2.0 million states |

* `GrantedDuringRequest`: whatever is listed or called was the user's, in the group, and not
  denied, and the account enabled, at some moment of the request (each for itself: the queries
  are separate). Denials fail open, as the code has it.
* `RoutedAsListed`: a listed name leads back to its server and tool, unless the namespace ends in
  `_` or contains `__`, which `validate_namespace` allows.
* `StaleListIsTold`: a client whose list was overtaken by an edit has been told, is being told or
  is listing again, because `bind` registers a session before it reads. Not reached are sessions
  whose peer a failed send pruned, a rebound session, and edits whose web handler was dropped
  between commit and notification (`untold`).
* `ManagesAsCaller`: a `hub__` tool acts for its caller, unless another user's request on the same
  session rebinds it between `bind` and the second reading of `bound` (`rebound`).

One session is enough for what happens within a session, and sessions meet only in the tables,
which web handlers change as well; two tasks are a request beside an edit or another request.
Two operations make an edit beside another one, an edit followed by its reversal, or a
management call beside an edit. Two group ids allow a group to be deleted and created again under
its slug. Deadlock is not checked: group ids and operations run out.

## What is proved

All theorems hold for arbitrary values of the constants under the named assumptions
`PoolAssumption`, `TokenAssumption`, `AccountsAssumption`, `GitAssumption` and `RouterAssumption`,
which TLC evaluates in the runs as well: the constants have their types, the special values are
not members of the sets they stand beside; for the pool `Inst` and `Slots` are finite
(cardinalities are counted), and for the router a user's namespaces differ, as the database's
UNIQUE constraint has it.

**BackendPoolProofs.** `Inductive` shows `Spec => []IInv`; from it `PoolTypes`,
`NoDuplicates`, `MarkersAreReal`, `AllTracked`, `NoneSilent`, `CapHolds` and, for the action
property, `RespawnsSpared`. None of these is inductive alone:

* the locks (`AtEntry`, `HoldsLocks`): a session in the middle of a bind holds `bind_lock`, one in
  the decide section holds the inner mutex. Without this two binds could both claim;
* `ClaimsMarked`, `TasksMarked`: a claim or spawn has its connecting marker, which makes the
  decide section pass over it; with `ConnectingIsReal` and `NoDuplicateBackends` they form
  `SpawnInv`, proved together;
* `FiniteBackends`, so that cardinalities can be compared in `CapStep`.

The step lemmas (`TypeStep`, `LockStep`, `SpawnStep`, `TrackedStep`, `AnnouncedStep`, `CapStep`)
each take only the parts of `IInv` they need, and split `Next` into the session's own steps and
the ones that touch none of their variables (`Outside`, `OutsideFrame`, `WalksFrame`).

**PoolServingProofs.** `ServingInductive` shows `Spec => []ServingInv`; with `IInv` it gives
`RestartsHonoured`, `DisablesHonoured` and `EditsHonoured`. The properties speak of what is served;
`ServingInv` speaks of the whole fleet, since today's claim is tomorrow's backend:

* `FleetEpochs` (no child is ahead of its server) and `RestartInv`: a tracked child was launched at
  the epoch that `applied_epochs` records, or its reload was forgone. `is_fresh` compares that map
  with the current epochs, so this is what makes the comparison mean something;
* `EditInv`: a child has the stored definition, or the handler has yet to tell, or its epoch is
  behind (so `is_fresh` will see it), or the edit is recorded as missed;
* `DisableInv`: in the entry that the map holds, a child whose row is not enabled is covered by a
  `dirty` mark, a handler that has yet to tell, or a recorded lapse. It has to hold of what a bind
  has listed and not yet decided as well (`ListedWanted`), and across the entries that come and
  go.

`FleetStep` says how each step changes a fleet (only a claim adds to it); `EpochStep`,
`RestartStep`, `EditStep` and `DisableStep` are the four parts.

**SupervisorProofs.** `Supervised` shows `Spec => ImplementsSupervisor`, from `RefinesInit` and
`RefinesStep`. `FleetStages` ties the mapped stage to the fleet (what is in it is pooled or
marked, never both, from `SpawnInv`). Then each step is one of four: unseen (`QuietSteps`), a stop
(`DropsStop`, for retain, heartbeat and reaping; `NewStops` for a new entry under an old
identity), an arrival or a child given up (`SettleSeen`), or a launch (`ClaimLaunches`). The last
is the interesting one: `OccupiedCounted` shows that the sum `reconcile` compares with the cap is
at least the number of servers that are not down.

**OAuthTokensProofs.** `Inductive`, then `TypesKept`, `OneLive`, `SpentStaysSpent` (`NoRevival`),
`CutsAreFinal` (`CutIsFinal`) and `HonestNeverRefused` (`NoSpuriousRefusal`).

* `HandOns` shows that four actions hand a right on (consent, taking a code, consuming a
  token, issuing one) and every other step only shrinks what exists. That makes
  `OneLivePerFamily` inductive with the types and blank slots alone, and `StepSpent` short.
* `CutSteps` shows that only a deletion of rows cuts a family off, leaving codes and requests
  alone, and only a consent takes one back. `CutIsFinal` is then inductive given `StepSpent`: what
  was neither pending nor rotating has lost its rows, hence is spent, and stays so (`StepCut`).
* `NoSpuriousRefusal` needs the link between three records of a token: `TokUnique` (a hash is
  the table's key), `Provenance` (client, request and row agree on the family) and `HonestInv`:
  a connection nobody cut off has at most one request, what it presents is in the tables or
  has expired, and what it is about to be given is too. `GoneIsCut` excludes that a deleted
  user makes `FindUser` refuse. `OthersKept` shows that serving one family leaves every other
  one's grants in place, `ServedStays` follows the one being served.

**AccountsProofs.** `Inductive`, then `SoleAdministrator` (with the types), `AdministratorStays`,
`OneAccountPerCode`, `SlotsDiffer` and `PasskeysKept`. The invariant says what a ceremony can rely on while
others act:

* `NewFlows`: a registration that has not created its account owns its id, and if it does not
  think it is the bootstrap then there is an account. With `OneAdministrator` and `References`
  (administrators exist) this is why `create_admin_if_first` is enough, and why a late one
  adds nobody;
* `RollbackSafe`: what a rollback deletes is not the administrator; `Protected` says the same of
  the administrator's own actions;
* `PaidInv` extends `InvitePaysForOne` to ceremonies that have nothing left to pay (`Inside`):
  a session or passkey of today is a ceremony of tomorrow. Deletions cascade to recovery codes,
  so it also needs that a recovery code was spent on the account it was made for (`RecoveryOwn`),
  which follows from a ceremony's code being the one it was started with (`FlowCodes`).

The step lemmas follow the handlers: `Starting` and `StartStep`, one lemma per statement of the
finish, `DeleteStep` for rollback and deletion alike, `OwnStep` for everything that only takes
passkeys and sessions away, `FlowsVanish` for evictions, errors and restarts.

`PasskeysKept` rests on an invariant of its own, `LoneRemoval`: while a removal has met no other
one of its account, it is the only one, its passkey is still there, and so is another. `Spare` gets
the other passkey out of the count.

**GitServersProofs.** `Inductive`, then `Types`, `OneBuild`, `RecordTrue`, `Relaunched`,
`NothingLeft` and `Refinement` (`Spec => ImplementsDeployment`).

* `HanInv` says that `build_lock` is held by exactly the handler that is in a building step, and
  that such a handler has its instance and, once resolved, its commit. Everything else rests on it.
* `ScratchInv` and `SwapInv` follow a build: what the holder of the lock has put into the checkout
  and the build directory, and that nothing usable stands when it renames. With them `EnvIsOneBuild` is
  inductive, and so is `RecordedIsBuilt`: `SteadyOrRecords` shows that every step but the writes
  of `set_build_state` leaves row and environment as they are, takes the environment away, or is
  part of a swap.
* `RelaunchInv` and `LingerInv` extend their properties over the steps in between: a build
  recorded and not yet announced, a row gone or a config file cleared while its files are still to
  be removed.
* For the refinement `RefinesInit` and `RefinesStep` show that initial states map to initial
  states and steps to steps, with `Turn`, `Site` and `Ledger` for the mapped variables; the swap,
  the record and the removals are lemmas of their own, everything else is `Unseen` or ends a turn.

**GroupRouterProofs.** `Inductive`, then `Types`, `GrantedInTime`, `Routed`, `ToldOfEdits` and
`Manages`, one for each property of the run.

* `TaskInv` (`Knows`) says which fields a request or handler has at each of its steps. `StepKinds`
  divides the steps into those that start a task, take one on, end one, or leave all alone, and
  most lemmas split by it.
* `GrantedDuringRequest`: `MayInv` says that what the state grants now is in the history, `GotInv`
  that what a request has taken so far is. `Observed` and `MayGrows` show that the history grows.
* `StaleListIsTold` is the deep one. `GroupInv` (ids are never given out twice, members belong to
  the group's owner) and `EndpointInv` make whoever edits the group of a request its user;
  `BoundInv`, `PeerInv` and `ListInv` make the session registered under that user from before it
  reads until it ends, unless it is `untold`; `OutdatedInv` says of lists in the making what the
  property says of lists delivered, without the excuse of listing again. `ToldStays` shows that a
  message to a session is not lost before its client lists.
* `RoutedAsListed` needs what splitting does to a name: `FirstDoubled` places the first `__` of a
  name right after a separable namespace, whatever the tool's name holds, and `CutsBack` shows
  that the two parts are the namespace and the tool. `GotInv` and the uniqueness of namespaces
  do the rest.

## What is only model-checked, and what is not modelled

*Only TLC:* `RequestAnswered`, `EnabledComesBack`, `BuildTurnEnds` and `StatusForgotten` (liveness
under fairness is out of the prover's reach) and the four violations. Every other property of the
runs is the statement of a theorem.

*Not modelled yet:* steps 6 and 8 of the plan. *Not meant to be modelled:* HTML
and form layout, JSON and MCP encodings, cryptography (passkeys, JWT, encryption of secrets,
hashing), operating-system calls of the sandbox, metrics, statistics and the audit log, which
nothing reads back, and start-up configuration, whose values are the constants of the modules.
Access tokens are short-lived signed values that no state of the hub refers to; they are
checked on use and not part of rotation.

### Hazards without a property

Besides those marked in `PROJECT.json`, the code has these, at lines the models reach or could:
a server disabled and enabled again while its spawn connects is passed over until
the next change (`pool.rs:271`); strikes are keyed by instance, so a heartbeat pass charges a
respawned backend (`pool.rs:691`); a handler that created a server and whose later write fails
returns before it tells the pool (`web.rs:487`); the client cap of dynamic registration is read before the insert
(`oauth/register.rs:41`); transactions begun by plain statements stay open when their handler is
dropped (`oauth/store.rs:240`); an account exists before its passkey is stored
(`auth/webauthn.rs:464`); `hub__revoke_token` leaves the token's denials behind; `.<id>.building`
and `.<id>.src` directories are not removed with their server.

## Running it

    tlc -workers 2 -config pool_sessions.cfg MCBackendPool
    tlc -workers 2 -config oauth_rotation.cfg MCOAuthTokens
    tlc -workers 2 -config accounts_codes.cfg MCAccounts
    tlc -workers 2 -config git_updates.cfg MCGitServers
    tlc -workers 2 -config router_requests.cfg MCGroupRouter
    tlapm BackendPoolProofs.tla
    tlapm PoolServingProofs.tla
    tlapm SupervisorProofs.tla
    tlapm OAuthTokensProofs.tla
    tlapm AccountsProofs.tla
    tlapm GitServersProofs.tla
    tlapm GroupRouterProofs.tla

The `pool_*` configurations belong to `MCBackendPool`, the `oauth_*` ones to `MCOAuthTokens`,
the `accounts_*` ones to `MCAccounts`, `git_updates` to `MCGitServers` and `router_requests` to
`MCGroupRouter`.
