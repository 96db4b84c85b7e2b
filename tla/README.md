# Big Red Button: a TLA+ model of the launcher

Big Red Button brings up a WireGuard tunnel inside a WSTunnel (wstunnel)
connection, either for the whole machine (*system tunnel*) or for one
application in a network namespace of its own (*isolated session*). This
directory models the parts of it that change the host, the desktop application
and the daemon that start them, and the text that enters from outside; it checks
the models with TLC and proves the safety properties of nearly all of them with
TLAPS: the plan engine, the system tunnel, isolated sessions with their monitors
and recoveries, the desktop application, profiles, command lines and addresses.

Run from this directory: `tlc -config X.cfg M` for a model (the table under
*Runs* names the pairs), `tlapm M.tla` for a module of proofs. PROJECT.json maps
every definition to the lines it models.

## 1. Inventory of the system

All paths are below `src/`.

| component | state it keeps | operations |
|---|---|---|
| plan engine, `internal/engine/engine.go` | the lists of one run: applied, failed, rolled back; the Result's State | `Run`: a connect applies in order and rolls back newest first at the first error; a disconnect goes on after errors |
| system tunnel commands, `cmd/big-red-button/main.go` | none | `linux-connect` (looks at the status, resolves the WSTunnel host, runs the plan), `linux-disconnect` |
| connect/disconnect planner, `internal/planner/planner.go` | none | builds both step lists |
| lifecycle executor, `internal/platform/linux/lifecycle_executor.go` | the executors below | dispatches `Apply`/`Rollback` by step identifier; skips steps without a record |
| route executor, `.../route_executor.go` | discovered exclusions, the record it read | snapshot and exclusion per endpoint, record read/remove/clear |
| WireGuard executor, `.../wireguard_executor.go` | temporary config file | interface, addresses, peer, client routes |
| DNS executor, `.../dns_executor.go` | none | `resolvectl` apply, restore, rollback |
| wstunnel supervisor, `internal/supervisor/` | handle of the process it started | start, stop by handle, stop by recorded PID if its arguments match |
| runtime record, `internal/runtime/state.go` | `state.json` (system) and one per session directory | Save (in place), Load, Clear, list sessions |
| status, `internal/status/status.go` | none | state from a record plus a look at `/proc` |
| isolated planner, `internal/planner/isolated.go` | none | start, stop and cleanup step lists; names and addresses derived from the session identifier |
| isolated executor, `.../isolated_executor.go` | handles of wstunnel and application, the record it read | `Apply`/`Rollback` of all steps of the three plans |
| isolated commands, `cmd/big-red-button/main.go` | none | start, stop, cleanup, background monitor, recovery |
| privileged daemon, `internal/daemon/`, `cmd/big-red-buttond` | the CLI runs in progress | runs the CLI as a child for each request, kills it when its client goes or after five minutes |
| desktop application, `internal/desktop/app.go` | `gui-state.json`, `profiles/current.json` | one handler per request: load, change, daemon first and a run of its own as fallback, save; upload of a profile; recovery at startup |
| desktop page, `internal/desktop/ui.go` | the session identifier in its input field | one request at a time, three-minute limit, a refresh after each |
| profile parser, `internal/profile`, `internal/wireguard` | none | two formats of text to one `Config`; later checks of that `Config` |
| dry run, discovery, prerequisites | none | read only |

How they interact. Every command is a process of its own. Two processes share
the host (routes, interfaces, namespaces, resolver settings, processes) and the
files under the runtime root, and *nothing else*: there is no lock, and no
process waits for another. Within a process the engine calls an executor step by
step. The background monitor of a session and the recovery at startup are
further processes on the same files.

What is hard, and what correctness means:

* **engine** - order, completeness of rollback, and a State in the Result that is
  true of what happened, with any step or rollback failing and the process dying.
* **system tunnel** - the WSTunnel endpoint must never be routed into the tunnel,
  during connect, rollback and disconnect; the record and the host must agree;
  a claim of Idle or FailedRecoverable must be true; a reused PID must not be
  signalled. Crashes leave a host without a record or a torn record; disconnects
  are repeated over a half-removed tunnel; two launchers race.
* **isolated session** - the application must fail closed: never in a namespace
  with a way out and without the kill switch. It may fork while it is being
  stopped, start late, or die. Cleanup works without a record.
* **monitor and recovery** - the monitor adds itself to the record with a load
  and a save, against a stop that clears it; monitor and user stop the same
  session at once; recovery decides from a listing and acts later.
* **daemon and desktop** - the client of the daemon gives up after ten seconds
  and the application repeats what still runs; a child is killed with its client
  or with the daemon; a run under pkexec cannot be killed at all; handlers load,
  change and save one file without a lock; application, daemon and page restart
  at any moment. An OK must be true, the file must not forget what it should
  keep, and every request must come to an answer.
* **what enters from outside** - the addresses of a session are derived from a
  few bits of its identifier; a profile states each field in up to five places of
  two formats, and is parsed again later and checked again in the middle of a
  connect; a command line is split by hand.

PROJECT.json lists each hazard at its line.

## 2. Plan

Done, in this order:

1. `StepEngine` with proofs; 2. `SystemTunnel` on the engine, with proofs;
3. `IsolatedSession` on the engine, with proofs; 4. `SessionMonitor`, which
extends it with the monitor and the recovery; 5. `Desktop`, the application with
its page and the daemon; 6. `DesktopTunnel`, the composition of `Desktop` with
`SystemTunnel`, proved to refine both; 7. `Profile`, `SessionAddresses` and
`CommandLine`, what enters from outside.

Worth doing next:

* a session identifier used again while a monitor still stops the earlier session
  (`Reused = TRUE`, where `FailClosed` fails: the monitor reads the record by
  name), a wait of the monitor with `-wait-timeout`, several sessions in one
  recovery;
* `Desktop` composed with `IsolatedSession` as it is with the tunnel.

## 3. Modules

### StepEngine

One launcher's run is the eight variables `mode plan attempted applied failed
undone stuck outcome`. `Begin` is `Engine.Run`; `Skip`, `ApplyOk`, `ApplyFail` are
the loop bodies of `runConnect`/`runDisconnect`; `UndoOk`, `UndoFail` those of
`rollbackApplied`; `Return` the Result with its `Verdict`; `Kill` the death of the
process. A plan is a *set* with `Rank` for the order of the slice, so that steps
whose order does not matter may share a rank. What a step does is left to the
module that instantiates the engine: each of its actions conjoins an engine
action with an effect on the host.

### SystemTunnel

Host: `route` (per endpoint: none, the host's own, the launcher's past the tunnel,
the launcher's into it), `process` (per PID), `link`, `clientRoutes`, `dns`,
`store` (state.json). Memory: `handle`, `seen`. Each action is one `Apply` or one
`Rollback` together with its error path; `StepFails` is a step whose command
fails, with what the commands before it in the same step have done
(`ApplyInterrupted`), and `Kill` may strike inside a step in the same way, or inside
the one rollback of several commands (`DiesInside`). What a command needs and does is an operator of its own (`LinkAdded` to `DNSReverted`),
used by Apply, Rollback and the partial effects alike.

Abstractions:

* a connect that is refused (already connected, another profile, dirty) changes
  nothing: it is the guard of `StartConnect`; so is a failed resolution. The look at
  the status, the resolution and the beginning of `Run` are one step. Between them
  the process only reads and resolves, so another launcher's steps in between could
  only make the status it read an older one; that is the race of two launchers, which
  the steps of the runs have already, and `DesktopTunnel` shows with a launcher that is
  *due*. A single launcher cannot see the difference;
* steps without an effect are left out of the plans (validate-profile,
  resolve-endpoints, skip-dns, verify-connected);
* snapshot-route and add-route-exclusion of one endpoint are one action: the
  snapshot only reads, and the pairs of different endpoints have equal rank;
* what the snapshot finds (`Found`) is the host's route if there is one, possibly
  the tunnel itself when client routes are up, else the gateway;
* the WireGuard config file is not modelled; SIGKILL always kills;
* comparing arguments, SIGTERM, the grace period and a SIGKILL are one step, so a PID
  that changes hands between them is not covered;
* routes and resolver settings of a link vanish with it (kernel, resolved).

`disclosed` is an observation, not program state: a run died, or said FailedDirty,
since the host was last clean. Properties about claims of Idle or Recoverable
hold "unless that was disclosed".

### IsolatedSession

One session identifier; sessions share none of this state, because every name is
derived from the identifier. Host: `session` (a record of namespace, veth pair,
DNS file, interface, routes, kill switch), `process` (per PID: wstunnel, the
command `ip netns exec` that is *starting*, the application, its child, or a
*stray* in a namespace that lost its name), `root` and `store` (the session's
directory and state.json). The three plans are the sequences `StartPlan`,
`StopPlan`, `CleanupPlan`, in the order of the source, without the steps that do
nothing (validate-profile, validate-app-command, monitor-process-tree).

`Works` says when the commands of a step can succeed: what exists already or is
missing makes them fail. `Breaks` is the set of steps whose commands can also
fail for a reason of their own, a parameter of the run. Details that matter and
are kept:

* deletion of the same object by several rollbacks (veth twice, interface three
  times): from configure-host-veth on, every failed start says FailedDirty;
* stopping the namespace works from one listing: what was forked after it
  survives (`NamespaceStopped`);
* `ip netns exec` becomes the application in place, with other arguments than the
  record has, so its PID is stopped by the listing and never by the record;
* rollback of the launch stops one process; its children go on as strays;
* a cleanup ignores the errors of its commands, but not those on files;
* deleting a namespace removes the name; the namespace, with its veth end, lives
  until its last process exits;
* a process dies between two calls or inside one (`DiesInside`): with what the
  commands of a step have done so far (`Interrupted`), with some routes of a rollback
  gone, or with the record removed and the session's directory left
  (`RootPartlyRemoved`, which an `os.RemoveAll` that fails leaves too).

`abandoned` and `disclosed` are observations: a launcher turned to ending the
application since it was launched; a run died, said FailedDirty, or was a
best-effort cleanup since the host was last clear. `abandoned` is set by a
stop-isolated-app that fails as well: from there the code goes on and takes the kill
switch away in front of an application that runs. `FailClosed` names that exemption;
`ClosedAtRest` (SessionMonitor) has none, and asks what the stop leaves in the end.

### SessionMonitor

Extends IsolatedSession with `-cleanup-on-exit`. A monitor is a launcher whose
`watch` goes through spawned, loaded, saving, waiting, stopping: Load, the
truncation and the write of Save are separate steps, because others may look in
between. `SignalMonitor` is the signal of a stop that found a recorded monitor; it
meets the monitor between two calls or inside one, as a kill does.
The monitor polls the record and the application's PID (`AppIsGone`) and runs
`StopPlan`. Recovery takes its decision (`Dirty`, `NeedsMonitor`) and begins its
run in one step; the steps of that run then interleave with everything.

`Starters`, `Stoppers`, `Recoverers` say which processes may be asked for what;
`Reused` whether a start may have the identifier of an earlier one. Without
`-session-id` a fresh one is drawn, so the passing runs take `FALSE`.

### Desktop

One handler per request goes through `phase`: *call* (it asks the daemon), *wait*
(the daemon runs the CLI for it), *cli* (a run of the application's own), *save*,
*write* (the file is truncated). `FallBack` is `daemonAction` returning an error
for whatever reason; `Accept`, `ChildExits`, `CancelChild`, `ChildDiesWithDaemon`
are the daemon's handler and its child. `child` and `cli` may hold the same
handler: that is the run that was given up and the one that repeats it. What a
run leaves behind is one of three states of the session's directory (`Ends`); the
runs themselves are the other modules' subject.

* A request has a slot of `Handlers`; a slot is free again when its handler has
  returned and none of its runs is left.
* The page sends one request at a time per tab; `Rendered` is what a refresh puts
  into the input. The page keeps an identifier that the server has cleared
  (`ui.go:518`), so the next start reuses it: `Merged`.
* A stop without a record skips every step, succeeds, and clears the session.
* A run of the application's that is told to end may still succeed, and the
  handler reports a failure: an ordinary user cannot kill a child of pkexec.
* `diagnostics` stands for the five handlers that run an unprivileged command.

`saved`, `mixed` and `crossed` are observations: the last complete save; handlers
whose load-to-save span met another's (or began with a torn file); handlers whose
runs met another run. `KeepsWhatWasSaved` is about the handlers that are not
`mixed`, since two that have the file in hand at once do overwrite each other;
`OkMeansDone` about those that are not `crossed`.

### DesktopTunnel

`SystemTunnel` and an instance of `Desktop` side by side: `Accept` starts the
launcher `Helper`, `FallBack` the launcher `Own`; a launcher that is *due* has
started and not come to its engine yet. The exit status is the outcome of the
engine's run; the launcher dies when the daemon's run does. Every step is a step or
a stutter of `SystemTunnel`, whose `Spec` is in its scope, and of `D!Spec`: both
refinements are theorems of `DesktopTunnelProofs`. Two properties relate the two
parts: `RunsAreAsked`, from the processes on the books to the launchers on the host,
and `OkIsTrueOfHost`, from the host to the answer. The second holds as long as the
application does not fall back beside a run of the daemon's (`NoFallbackBesideRun`),
and desktop_slow shows what happens when it does.

### Profile, SessionAddresses, CommandLine

`Profile` is the upload: a document states each field in a sequence of places, the
winning place first; values are classes ("v4-bare" is an IPv4 address without a
prefix length). `Raw` is `parseSingBoxWGWS` or the native merge, `ProblemFields`
is `normalize`, `ToSave` and `Accepts` the handler with its pasted URL, and
`CanBeConnected` and `CanBeIsolated` what a command asks of the profile later: the
DNS list when it makes its plan (`DNSTaken`, `IsolatedDNSTaken`), `Config.Validate`
and the address command when the interface is set up (`InterfaceTaken`), and
`ip route replace` (`RoutesTaken`: IPv4 routes with host bits are handed on as they
are written and refused). `SessionAddresses` is
`defaultVethAddressPair` and `normalizeVethAddresses`; an address is its last two
bytes. `CommandLine` is `splitCommandLine`, rune by rune, and the trimming of the
words after it. `MCInputs` puts the three side by side, one of them moving per
behaviour.

What their properties except, and why: a document that states another path than
the pasted URL is refused with the advice to paste one, since the text of that
problem contains the words looked for (`AdviceIsOfUse`); the parser takes profiles
that are refused later, and `AcceptedCanBeApplied` says exactly which: in the middle of
a connect an address without a prefix length or a route with host bits, before there
is any effect a DNS list that cannot be read (for an isolated session also one with
semicolons, or none); an empty quoted word is dropped, words lose blanks at
their ends, and an escaped blank at the end becomes a backslash
(`WordsSurvive`, `BlanksSeparate`); addresses that a request *gives* are not
compared with those of other sessions, and derived ones collide for one pair of
sessions in 4032 (`LinksApart`).

## 4. Runs

| run | module / cfg | bounds | shows |
|---|---|---|---|
| engine | MCStepEngine / engine.cfg | 1 launcher, 6 steps (one deferred, one without rollback, two of equal rank), every plan | order, bookkeeping, rollback order, honest verdict, nothing applied after an error, every run ends |
| tunnel_serial | MCSystemTunnel / tunnel_serial.cfg | 1 launcher, 2 endpoints, 2 client routes, 2 PIDs, kills | no route loop; status, Connected, Idle and Recoverable are true; only own processes are stopped; no run is ever stuck |
| tunnel_idle | MCSystemTunnel / tunnel_idle.cfg | 1 launcher, 1 endpoint, no kill, no step fails but a disconnect's | **violation** of IdleMeansClean |
| session_serial | MCIsolatedSession / session_serial.cfg | 1 launcher, 3 PIDs, ten steps that can break by themselves, kills | fail closed until a launcher turns to ending the application; Connected, Idle, Recoverable are true; a refused start spares the session; cleanup clears every name |
| session_orphan | MCIsolatedSession / session_orphan.cfg | nothing fails | **violation** of CleanupMeansClear |
| monitor | MCSessionMonitor / monitor.cfg | 1 user, 1 monitor, 2 PIDs; of the commands, only those that stop the application break by themselves | closed at rest, with monitor and user stopping at once, one signalling the other inside a step, or unable to stop the application; nothing is forgotten; exit ends the session |
| monitor_crash | MCSessionMonitor / monitor_crash.cfg | 1 launcher that starts and recovers, 1 monitor, 2 PIDs, kills, no command breaks by itself | fail closed until one of them turns to ending the application; what is left keeps its directory |
| monitor_recovery | MCSessionMonitor / monitor_recovery.cfg | recovery after the start | **violation** of RecoverySparesHealthy |
| monitor_race | MCSessionMonitor / monitor_race.cfg | recovery during the start | **violation** of FailClosed |
| desktop | Desktop / desktop.cfg | 1 tab, 1 request at a time beside the recovery (and what it left running), 1 session, 5 operations | an OK is true; the state file keeps what it should; every request is answered; abandoned runs end |
| desktop_slow | DesktopTunnel / desktop_slow.cfg | 1 endpoint, 1 client route, a click at a time; runs die only as the daemon kills them | **violation** of NoLoop |
| inputs | MCInputs / inputs.cfg | documents one or two places away from a usual one, 3 URLs; 49 pairs of hash bytes, 2 links; texts of 5 runes | the properties of what enters from outside |

Why the bounds are enough. A launcher runs again and again, so one launcher covers
every sequence of connects, disconnects, failures and kills. Two endpoints
distinguish "this one" from "another one" in every rule about exclusions; two
client routes distinguish none, some and all. Two PIDs let the PID of a dead
wstunnel be taken while a new one runs; three let wstunnel, the application and a
child live at once. In session_serial `Breaks` holds one step of each kind
(before, at and after the launch, in a rollback, at the kill switch, at the
namespace, at the record); all others still fail when something is missing. The
monitor runs take `Breaks = {}`, the subject being interleaving, and commands still
fail there on what the other process removed; `monitor` adds stop-isolated-app,
the failure after which a stop takes the kill switch away all the same. `tunnel_idle`
has a constraint: no step but a disconnect's fails. Without it TLC finds a shorter way
to an Idle that is not true, a connect whose rollback fails and which never stored a
record. `CHECK_DEADLOCK FALSE` in
monitor_crash and monitor_race: when the only session is gone, nobody has anything
left to do.

In desktop, one tab with one slot for its requests and the slot of the recovery
give every overlap of two handlers and of up to three runs (a child given up, its
repetition, the recovery's); the
five operations are one of each kind: start, stop, cleanup, unprivileged, and one
that only saves. `connect` and `disconnect` go the same way as `start` without a
session and are what desktop_slow has. Two bytes of the hash at their boundaries
(0, 62, 63, 64, 127, 255) are all that the derivation of addresses can be wrong
about; documents that differ in *two* places cover each rule of `normalize` that
relates two fields; five runes hold an open quote, an escape and a blank on both
sides. The PIDs of the serial runs are symmetric; runs with liveness properties
use no symmetry.

Fairness. `FairSpec` of the engine: weak fairness of a launcher's turn of the loop,
since `Run` never waits for a person and the commands it calls return;
`NeverStuck` adds that in the tunnel there always is such a turn.
`FairMonitorSpec`: the same for runs and for the monitor's loop (its poll never
gives up without `-wait-timeout`), and for `ip netns exec` becoming the
application. The application itself need never exit. `FairSpec` of the desktop:
handlers and daemon go on running, the daemon's client has a time limit, and a run
of the application's own ends (every run of the engine does, and one under pkexec
cannot be killed). Nothing is assumed of the daemon's runs, which may hang until
they are killed, nor of the user.

What the violations say:

* `desktop_slow` - the page asks to connect; the daemon's run is slow, the client
  gives up after ten seconds, and the application starts a run of its own, which
  reads "Idle" too. The first run brings the tunnel up; the second fails, and its
  rollback deletes the route exclusion that the first needs: the endpoint is
  routed into the tunnel.
* `tunnel_idle` - a connect ends Connected; a disconnect cannot remove the route
  exclusion, clears the record all the same and says FailedDirty; the next one finds
  no record, skips every step and says Idle, with the route still there.
* `session_orphan` - cleanup stops processes in the namespace only; the session's
  wstunnel runs outside it, and its PID is removed with the record.
* `monitor_recovery` - the recorded arguments never match the running
  application, so startup recovery takes every running session for a stale one.
* `monitor_race` - a session that is starting has a directory and no record, is
  taken for dirty, and loses its kill switch while the application is launched.

One more disagreement is an exception inside a property: of the two commands of
create-veth-pair the second can fail, the pair then stays, and the Result says
FailedRecoverable (`ClearButHostVeth` in `QuietMeansClear`).

## 5. Proofs

| module | theorems |
|---|---|
| StepEngineProofs | `TypeCorrect`, `BookkeepingHolds`, `InPlanOrderHolds`, `NewestUndoneFirstHolds`, `VerdictHolds`, `NoApplyAfterErrorHolds` - for any launchers, steps, ranks and plans |
| SystemTunnelProofs | `ImplementsEngine`, `TypeCorrect`, `StopsOnlyItsOwnHolds` - for any launchers, also racing, endpoints, routes and PIDs |
| | `NoLoopHolds`, `StatusIsTruthfulHolds`, `ReturnsAreTrue` - for any of them, as long as two launchers are never in a run at once (`OneAtATime`) |
| | `ConnectedMeansUpHolds`, `IdleMeansRecordGoneHolds`, `QuietMeansCleanHolds` - for one launcher and any endpoints, routes and PIDs |
| DesktopTunnelProofs | `ImplementsTunnel`, `ImplementsDesktop`, `RunsAreAskedHolds`, `CompositionTyped`, `RacingRunsStopOnlyTheirOwn`, `RunsLoseNothingSaved` - for any tabs, handlers, endpoints, routes and PIDs |
| | `OkIsTrueHolds`, `NoLoopWithoutRace`, `TruthWithoutRace` - likewise, as long as the application does not fall back beside a run of the daemon's (`NoFallbackBesideRun`) |
| IsolatedSessionProofs | `ImplementsEngine`, `TypeCorrect` - for any launchers and PIDs, also racing |
| | `FailClosedHolds` - for any PIDs and any steps that break, with launchers one at a time |
| SessionOutcomeProofs | `ConnectedMeansIsolatedHolds`, `IdleMeansSessionGoneHolds`, `StartSparesSessionHolds`, `QuietMeansClearHolds` - likewise; `CleanupMeansClearOfNamesHolds` - if no cleanup step breaks by itself |
| SessionMonitorProofs | `MonitorImplementsEngine`, `MonitorTypeCorrect` - for any launchers, monitors, recoveries and PIDs |
| | `MonitorFailClosedHolds` - for any number of them, killed or failing at any point, if the instance is `Undisturbed` |
| | `NothingForgottenHolds` - likewise, if the two commands of create-veth-pair fail together |
| | `LeftoversAreListedHolds` - likewise, if nobody stops the session by hand and the commands of cleanup-netns work (`Unattended`) |
| DesktopProofs | `TypeCorrect`, `OkMeansDoneHolds`, `KeepsWhatWasSavedHolds` - for any tabs, handlers, sessions and operations |
| InputsProofs | `SavedParsesHolds`, `AdviceIsOfUseHolds`, `AcceptedCanBeAppliedHolds`, `ConfigIsFaithfulHolds` - for documents with any number of places per field |
| | `BlanksSeparateHolds`, `WordsSurviveHolds` - for a text and a word of any length |
| | `LinksTypeCorrect`, `DerivedEndsCanTalk`, `DerivedLinksStayApart` - for any sessions and any hash |

**Engine.** `Bookkeeping` says how the sets of one run relate; it is inductive with
`TypeOK` and strengthens the engine's order and verdict properties. Every step of
the tunnel and of a session is a step or a stutter of the engine (`StepOfEngine`),
so the engine's invariants hold of both (`EngineInvHolds`).

**Tunnel.** `NoLoop` is not inductive: it needs to know which routes a run in
progress has set (`RunInv`: an applied exclusion that is not undone is in place;
client routes are applied after all of them) and what holds between runs and
inside a disconnect (`LoopInv`: no client routes, or the record lists the
exclusions and they are in place). `ConnectInv` does the same for
`ConnectedMeansUp`. For what an end claims, `EndInv` says what each applied step of
a disconnect has removed of what the record lists, and `Accounted` says at every
moment what accounts for each route, process and link on an undisclosed host: the
record between runs, the applied and not undone steps (`Standing`) during a
connect and its rollback, the record that was read during a disconnect. A run that
returns Idle or FailedRecoverable has removed all that was accounted for, which is
all there was. Each of these invariants speaks of every launcher, and the
hypothesis is a property of the behaviour, `[]OneAtATime`: the one that acts is in
a run before or after, so the others are in none (`ActsAlone`), and each lemma about
a step has to consider one launcher only (`RunInvActs` and the like). `Claims` is what
a Result promises. That it is true when a run returns holds for any number of
launchers (`ReturnsAreTrue`); that it stays true until the next run begins, as
`ConnectedMeansUp` and its like say of every launcher's last outcome, is so only if
there is no other launcher to begin one (`ClaimsStand`).

**Desktop and tunnel.** `Wired` says how the constants of the two parts fit together.
The step simulations (`StepOfTunnel`, `StepOfDesktop`) go action by action; the one
that is not immediate is the death of the daemon's run, which is a kill of its
launcher or, when that has not begun or has just returned, no step of the tunnel.
`RunsAreAsked` joins the two states: a launcher is due or in a run only while the
daemon (`child`) or the application (`cli`) has the process on its books. So two
launchers are in a run at once only if the application has fallen back while the
daemon's run goes on, and `NoLoop`, `StatusIsTruthful` and the truth of the Results
follow from the tunnel's theorems for every behaviour without that
(`OneRunPerClick`). desktop_slow shows the other side: with it, `NoLoop` fails.
`AnswerInv` carries the truth from the host to the page: the launcher behind a click
`Serves` it - it runs the plan the click asked for, and once it has returned, its
`Claims` hold until its process exits, because no other launcher is in a run. A
connect that was refused over a matching record needs `StatusIsTruthful` instead.
Then no process of the click is left, so the host stays as it was answered for. That
an error is never taken for an OK needs two facts of Desktop: no result is OK before
its run has exited, and a daemon that dies leaves no handler waiting for it. Both
`RunsAreAsked` and `OkIsTrueOfHost` were checked by TLC before they were proved: on
one endpoint, one client route and one PID, without a fallback beside a run, the two
launchers not both with a history (a million states), where an exit status that took
FailedRecoverable for success, and a daemon that gave up its run without killing it,
are found out. No run repeats it: the proofs have none of those bounds.

**Session.** `SafeInv`: a launcher has turned to ending the application, or there is
none, or the kill switch is up. What keeps it so is the order of the plans: in a
start the namespace comes before the kill switch and that before the launch, and a
rollback ends the application first (`StartInv`); a stop and a cleanup turn to the
application before they take the kill switch away (`StopInv`). `OutcomeInv` names the effect of each start
step while it stands (`Connecting`), and what each stop or cleanup step has removed
(`Ending`), with nothing put back later in the plan; the order of the plan and
`VerdictIsHonest` of the engine give the claims. Errors of cleanup commands are
noted and ignored by the code, so a cleanup can return Idle after one of them
failed: hence the extra assumption `Breaks \cap CleanupSteps = {}` of one theorem.
For `QuietMeansClear`, `Accounted` says what an undisclosed session is made of: on
record, or nothing, or the host end of a pair between runs (`Settled`); what a start
has applied and not undone as long as it has not configured the host end of the
pair (`Bare`); nothing but the recorded wstunnel during a stop. From the host end
on nothing more need be known of a rollback: it deletes that end twice, the second
time fails, and the start says FailedDirty.

**Monitors: fail closed.** Here launchers are many and interleave, so what a start
knows of the host can be undone by anybody. `MonitorSafe` is the invariant, and its
argument is about who can do what *when*. There is one start ever (`OneStart`), and
before it nothing (`NothingYet`). Until that start stores its record, every other
run was asked for by a person, found no record, and skips all its steps (`Alone`);
a monitor is spawned only later. So until then the start is by itself, and the
reasoning of a lone launcher applies: no application before the launch, and the kill
switch up by then (`Preparation`). Afterwards others may take the kill switch
away, but each of them turned to the application first, which sets `abandoned`, and
nobody resets that without a start. `Undisturbed` says what this takes, and TLC finds
`FailClosed` violated without any of its parts:

* an identifier is drawn once: with `Reused`, a monitor that is late for an earlier
  session reads the record of the next one;
* no recovery beside a start: that is the run monitor_race;
* no other process stops the session if reading the record can break by itself: that
  stop goes on after the error, skips nothing, and removes what the start is making,
  the kill switch included.

**Monitors: nothing forgotten.** `Ledger` strengthens `NothingForgotten`, which says
something only when all is quiet, to every moment. An undisclosed session is clear,
or on record (a torn file counts while the monitor that tears it is there to write
it), or somebody `Answers`: a start before its record, a rollback, a cleanup, a stop
that has failed, or a stop that goes by the record it read (`Settled`). The other
parts are why whoever answers ends up clear or says FailedDirty. A start that has
not configured the host end of its pair has made what it applied and did not undo
(`Bares`), so its rollback removes all of it; from there on a rollback deletes the
pair twice and cannot be clean (`Twice`). A stop works from its first read
(`Reads`), and what it removed stays away (`Removed`), since all steps but those of
a start only remove (`Shrinks`); the one wstunnel is named by every record there is
or was read (`OneWSTunnel`). When a stop kills a monitor that is writing, the stop
itself answers. The theorem excludes `create-veth-pair` from `Breaks`: that its
second command can fail alone is the disagreement named above, and the half-made
pair is forgotten as `ClearButHostVeth` says. Both invariants were checked by TLC on
five small instances before they were proved.

**Monitors: leftovers are listed.** `LeftoversAreListed` says something only when all
is quiet; `Listing` says at every moment that there is nothing of the session, or its
runtime root is there, or somebody `Accuses`: a step of its plan failed, and it is not
a monitor that waits, whose stop is still to come and would begin with no failures.
The runtime root is the last thing a stop and a cleanup remove (`RootIsLast`), so who
removes it has attempted all that comes before. Either one of those steps failed, and
it accuses, or all were applied, and what they removed has stayed away (`Gone`),
because nothing makes names beside a stop: a start is by itself (`ByItself`), and once
it makes names its root is there (`Rooted`), so it can be killed or fail at any
point. A rollback has a failed step to show by the time it removes the root, whatever
else it could not undo. A killed stop leaves the root, since killing inside its last
step does (`InterruptedRoot`). `Unattended` has two parts. Nobody stops the session by
hand: a stop beside a monitor that saves late can read the torn file, fail, and clear
the directory all the same; the next stop by the same process finds no record, skips
its steps and has no failure to show. And the two commands of cleanup-netns work:
the code ignores their errors, so a cleanup would remove the directory and leave the
namespace without a word. The invariant was checked by TLC with a start, a recovery and
a monitor that may be killed, ten steps that can break by themselves among them, before
it was proved.

**Desktop.** The invariant of `OkMeansDone` follows one request: the run that counts
for it is the daemon's or the application's own; what it left of the session stays
so until the handler answers, unless a run of another handler went on, which makes
both `crossed`. That of `KeepsWhatWasSaved` follows the file: a handler has in hand
whatever is saved now, or another save came between, which makes it `mixed`. Slots
are used again, so both need to know what a free slot keeps: nothing.

**Profiles.** `FirstStated` takes the least place that states something; that there is
one is proved from the well-foundedness of the naturals, as a fact about a set, so
no induction theorem with an operator as parameter is needed. `UploadInv` says
that what is saved parses and what the advice to paste a URL was given for; the rest
is an analysis of the classes of values.

**Command line.** `BlanksSeparate` and `WordsSurvive` are about every text, so they
need induction on its length; the argument is the one above, that a set of numbers
has a least one: if a set holds 0 and every successor it holds all (`UpTo`), so a
loop has a trace and has one only (`Trace`, `OneTrace`), and a scan goes on from
where it was (`ScanSteps`). A blank between closed words brings the loop back to
`Fresh` but for the words it has (`FreshAfter`), and from there a scan adds the words
of the rest behind them, whatever the rest is (`ScanAfter`). What trimming takes is
blanks at both ends (`Trim`). For a word between quotes, the loop is `InQuotes` of
what it has read (`ScanInside`), an escaped rune taking it through
`AfterBackslash` and back.

**Addresses.** Arithmetic on two bytes: the blocks of four addresses are disjoint
and inside 169.254.64.0/18, and two links meet exactly if the bits that are kept
agree (`SameBits`).

That launchers come one at a time is a hypothesis because nothing in the code keeps
them apart, and desktop_slow and monitor_race show that `NoLoop` and `FailClosed` are
false without it. For the tunnel it is `[]OneAtATime`, or `Launchers = {only}` where a
claim is to outlast its run; for a session it is `Launchers = {only}`. `Wired` is met
by the constants of desktop_slow. The other assumptions are those the modules
name (`EngineAssumption`, `TunnelAssumption`, `SessionAssumption`,
`MonitorAssumption`, `DesktopAssumption`, `ProfileAssumption`,
`AddressAssumption`, `RuneAssumption`: the blank, the quotes and the backslash are
told apart), which TLC evaluates in the runs.

Model-checked only: `ClosedAtRest`, which takes the interplay of two stops after the
kill switch is gone; liveness (`EveryRunEnds`, `ExitEndsSession`,
`EveryRequestAnswered`, `AbandonedRunsEnd`) and `NeverStuck`, which is about ENABLED:
out of reach of the prover.

## 6. Not modelled

The dry run and the discovery (they change nothing); build information and peer
credentials; health, status, plan, validation and diagnostics of the daemon (they
only read) and its files under `daemon-profiles`, which stay if it dies; the search
for the CLI, the opening of a browser and the texts of the page; names, server, SNI
and TLS name of a profile and repeated entries of its lists; the contents of
WireGuard and nft files; launch identity, environment and DNS options of a session;
recovery without `-startup` and with `-all`, which clean up more sessions by the
same plan; `-wait-timeout` of the monitor; the grace period before SIGKILL and a
process that survives it; another program that gets the PID a monitor waits on.
