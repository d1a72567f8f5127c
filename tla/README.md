# doqd in TLA+

`doqd` (the Go program in `src/`, repository keenetic-doq) is a DNS forwarder
for routers: it takes plain DNS queries from the router's own DNS, answers a list
of protected names from a hosts file, and sends everything else to DNS-over-QUIC
servers. This directory holds TLA+ models of its parts, the TLC
configurations that check them on small instances, and TLAPS proofs.

- [The system](#the-system): inventory of components, state, interactions.
- [Modules](#modules): which module models which code, and how.
- [Runs](#runs): what each run shows, its bounds, and why they are enough.
- [Fairness](#fairness)
- [Proofs](#proofs)
- [Disagreements found](#disagreements-found)
- [What is not modelled](#what-is-not-modelled)
- [Plan](#plan)

To reproduce: `tlc -config MCDoQ.cfg MCDoQ.tla` for a run (the table below names
module and configuration), `tlapm DoQ_proof.tla` (and so on) for the proofs.

## The system

`cmd/doqd/main.go` wires the daemon:

```
client ── server.handle ── smartdns.Resolve ── resolver.Resolve ── Picker.Exchange ──┬─ DoQ (URL 1) ── Bootstrap
                               │  ▲                │     │              ▲            ├─ DoQ (URL 2) ──┘
                          table│  │SIGHUP        cache  inflight   health check,     └─ ...
                               ▼  │                                startup probes
                          hosts file
doqd add / remove ── doqd.conf ── SIGTERM, new process ── (the daemon)
```

| Component | Code | State | Operations | What makes it correct |
|---|---|---|---|---|
| DoQ connection | `internal/upstream/doq.go` | current connection, dial under way, fail-hold, per connection: last sign of life and liveness check | `ExchangeTimed`, `getConn`, `dial`, `connect`, `suspect`, `dropConn`, `Close` | one dial at a time; no connection is forgotten; one slow query does not cost the others their connection, a silent one is replaced; nothing is installed after `Close` |
| Upstream pool | `internal/upstream/picker.go` | per upstream: cooldown, failure mark, averaged round trip; per query: the round | `Exchange`, `round`, `markSuccess/Slow/Down`, `StartHealthCheck`, `startupProbe`, `probe` | a reserve is asked only when the primaries are not; a query gives up only after all; losers are not blamed; an upstream that is back is found; one that hangs does not stay first |
| Bootstrap | `internal/upstream/bootstrap.go` | addresses with expiry, names being refreshed | `Resolve`, `refreshInBackground`, `query` | stale addresses at once, one refresh per name, no goroutine left behind |
| Answer cache | `internal/cache/cache.go` | LRU list and map | `Put`, `Get`, `GetStale`, `DeleteIf` | list and map agree; only the least recently used is evicted; TTLs are honest |
| Caching resolver | `internal/resolver/resolver.go` | calls in flight, time of the last failure | `Resolve`, `shared` | identical queries share one call and nobody is forgotten; stale data rather than an error; the cache goes forward |
| SmartDNS | `internal/smartdns/smartdns.go` | published table | `Resolve`, `sanitize`, `Reload` | an answer obeys one table that was in force after the reply |
| Daemon | `cmd/doqd/main.go` | signals | `main`, `reloadHosts` | the last SIGHUP takes effect |
| DNS server | `internal/server/server.go` | sockets | `handle`, `StartWait`, `Shutdown` | every query is answered; the port is waited for only when its address is missing |
| Commands | `internal/cli/*.go` | `doqd.conf`, the daemon process | `add`, `remove`, restart, `hosts reload`; `list`, `status`, `test` only read | the file always parses; the daemon that is left serves what the file says |
| OpenWRT installers | `install-openwrt.sh`, `uninstall-openwrt.sh` | dnsmasq's settings (pending, committed, in use), `$SAVED`, doqd | install, uninstall | a script that ends by itself leaves the router with DNS; what was changed is undone exactly, also after cuts (the exceptions are under [Installer](#installer)) |
| Keenetic installers | `install.sh`, `uninstall.sh` | files, a name-server entry in the router's configuration | install, uninstall | not modelled |

How they interact: calls go down the chain above. All queries of the process share
one `DoQ` per URL and one `Picker`, so the goroutines of different queries meet on
their mutexes; a query reads under the mutex, waits for the network without it,
and comes back to a state that others have changed. `dial`, `suspect`, the shared
call of `resolver` and the background probes are goroutines of their own that
outlive the query that started them. The commands are other processes that meet
the daemon through the file and through signals. On OpenWRT the installer makes dnsmasq send
every query to doqd, and the uninstaller undoes it.

The hard parts are the places where this goes wrong in ways tests hardly reach:
verdicts applied after the state has changed, waiters woken too early, results
that arrive after somebody has won, orders of three steps that only one
interleaving exposes, and everything that must happen *eventually*. They are
listed with their lines under "hazards" in `PROJECT.json`.

## Modules

Common conventions. A goroutine is a record with a `pc`; what it does under one
mutex is one action, and the steps between unlock and lock are actions of their
own. A timer that may fire is an action that is always enabled while it
runs: deadlines appear as "may happen", never as clock values, except where the
arithmetic of time is the point (`Cache`, the averages of `Picker`). Definitions
marked *Mutant* in comments are plausible bugs of the code, none of them
reachable from `Next`; every checked property is violated by one of them.

Each module has one invariant that says what its state always satisfies, called
`Consistent` where it joins `TypeOK` with named parts (`CacheConsistent` in `Cache`,
`IInv` in `DoQ`, plain `TypeOK` in `SmartDNS`). The parts stay definitions of their own, to
be proved about one by one.

### DoQ

One upstream (`doq.go`). `Queries`, `Calls` (dials) and `Conns` are the goroutines
and objects that may exist; a dial or connection that is finished and
unreferenced becomes free again, so histories are unbounded although the sets
are finite.

| Variable | Code |
|---|---|
| `conn`, `dialing` | `u.conn` and `u.dialing` |
| `holding` | whether now is before `u.dialErrUntil` |
| `closing` | how far `Close` has come: not called, `closeCtx` cancelled, returned |
| `live` | what a QUIC connection really does: answers, is silent (path lost), is dead |
| `check`, `okDuring` | `liveConn.check` with the step its goroutine is at, and whether `lastOK` is after the start of the check |
| `phase`, `res` | the goroutine of each `dialCall` up to `close(call.done)`, and the connection it holds |
| `query` | each caller of `ExchangeTimed`: its step, its connection or dial, `attempt`, `fresh`, whether its context is done, whether `lastOK` is after its start |

`getConn` is `ReuseConn` … `GiveUp`, one per way out of its critical section and
of its two selects; `dial` is `ConnectOk` … `Publish` with the gap between `Unlock`
and `close(call.done)`; `exchangeOnConn` and the retry in `ExchangeTimed` are
`Answered` … `LeaveConn`; `suspect` is `SuspectConn`, `ProbeAnswered`,
`ProbeOutvoted`, `Condemn`, `Unlink`, `CloseCondemned`, `FinishCheck`; `Close` has two
steps because it cancels before it locks. The environment (`PathLost`,
`PeerCloses`) may break any connection at any time.

### Bootstrap, DialRace, Connect

What happens inside one dial, from the name of the upstream to a connection.
`ConnectOk` and `ConnectFail` of `DoQ` abstract it.

`Bootstrap` is `PlainDNS` (`bootstrap.go`) for one name: what is kept of it and
whether it is stale (`kept`, `ips`), the mark of the refresh (`marked`), and one
record per goroutine that runs `query`, be it the caller's (`Callers`) or a refresher
(`Refreshers`), with the state of each attempt (server and protocol), the buffered channel
`out` and the number of results still to be received. `Resolve` is `BeginLookup`,
one action per way it goes on (`LookFresh`, `LookStale`, `LookUnknown`),
`AlreadyRefreshing` and `Refresh`; `askServer` and `exchangePlain` are `TcpStarts`, `Answers`, `Fails`; the loop of
`query` is `Receives`, `ReceivesFailure`, `NoneAnswered`; `store` and the end of the refresh are `Store`, `Unmark`.
The addresses of the name change under it (`ZoneChanges`).

`DialRace` is the loop of `connect` over these addresses, with the handshakes as goroutines
that send into a channel (`hand`), the winner, and `drainDials` closing what still comes.

`Connect` extends both and adds `dialTargets` (the last successful address
first) and what is outside: dials follow one another for ever, as queries make them, and the world
is stormy (everything may fail, and the addresses change) until, perhaps, it becomes calm:
from then on one server of the bootstrap answers, over TCP only, and one of the name's
addresses is alive.

### Picker

The pool (`picker.go`) with `Exchange`/`round` per query: the snapshot `order`,
`running`, `pending`, `next`, `softs`, `winner`. Winning takes several steps (`Useful`,
then `SlowLoser` for each loser, `BlameSoft` for each useless answer, `Win`) since
`p.mu` is taken anew for each. The context of the query is `running` or `done`, and `timedOut` says whether there is reason and time
for a second round. Upstreams answer usefully, uselessly (by code
or by a broken chain), fail, or never answer. The health check and the startup
probes run beside the queries: `Probing` names the upstreams whose startup probe is still
under way at first, and `Init` allows every outcome of the others. Averages are the code's, in small integers.

### Cache, MCCache

`Put` (`Store`), `Get`/`GetStale` (`Hit`, `FreshHit`, `Remaining`, and `Lookup` for
what they change), `DeleteIf`, and the passing of time as the ages of entries. A
message is the version of the data and the set of its TTLs. The ages and lifetimes of entries are
counted in ticks of a clock, `Second` of them to a second, and TTLs in seconds: `Get` cuts the
age down to whole seconds before it takes it off a TTL (`Remaining`, `cache.go:134-140`). So an answer
stored 0.9 seconds ago is told its whole TTL again, and what a client is told is right to
less than a second, which is what `HonestTtl` says. `MCCache` adds the
history that defines "least recently used".

### Resolver, MCResolver, Forwarder

Extends `Cache` with `Resolve` step by step (`Get`, `GetStale`, `Join`/`StartCall`,
`FailedRecently`, the select) and the goroutine of the shared call (`Exchanged`, `Put`
or `NoteFailure`, `Remove`, `Close`). The pool below is any exchange that returns
the zone's present data, SERVFAIL, another code, or an error. `zone` counts versions of
what the upstreams know, so that an older answer in the cache is visible.

`Forwarder` is what all this promises, without lists, calls and timers: the memory
of a name goes forward or is lost, a client is answered from memory or with something the upstreams
had that is not older than what the memory held when it looked, and it fails only when
there was nothing. The refinement `Forwarded` in `Resolver` maps the cache's usable entry to the memory and the
client's steps to `asked`, `looked` and `done`; the goroutines of the calls, `inflight`
and the hold after a failure map to stuttering. `Forwards` says that every behaviour of
`Resolver` is one of `Forwarder`. It is no property of shape: storing the answer
after leaving `inflight`, or returning an error with a stale answer at hand, violates it.

### SmartDNS, MCSmartDNS

`Resolve` with the first look, the call below and the second look; `sanitize` over
abstract responses: the CNAME of each name, who has direct addresses, whose
records stand in the other sections, and whether the answer claims to be signed.
The hosts file, SIGHUP with its one-place channel and `reloadHosts`.

### Reconfigure, MCReconfigure

`doqd add` and `doqd remove` run by several users at once, on the sequence of
server lines; the restart by SIGTERM and a new process; the daemon as far as it
reads the file and takes the port. The port is two sockets (`udp`, `tcp`):
`Server.Start` is `BindUdp` and `BindTcp`, `StartWait` is `Retry` and `GiveUpWaiting`, `Shutdown`
closes the sockets in two steps. The listen address may go away (`AddressGoes`) while a daemon is starting: a missing
address is waited for, a busy port is not. Process ids are interchangeable, so a
new one is the `CHOOSE`n free one.

A command may stop at each of its steps (`Interrupted`: its session is closed, a step of
`restartDaemon` fails, the wait for the old daemon is over), and the state it ends in says what it
leaves undone. `"unstopped"` is between its write and its SIGTERM: the old daemon goes on with the old
file, and `LatestServed` says nothing from then on. `"unstarted"` is between its SIGTERM and the new
process: the router may be left without a daemon, and `DaemonReturns` says nothing; `LatestServed` still
holds. Everywhere else a command that was interrupted is simply over. `WriteConf`
is one step: `rename` is atomic, each command has a temporary file of its own, and nobody else looks at it.

### Installer

`install-openwrt.sh` and `uninstall-openwrt.sh`, one action per command that changes
something. The settings of dnsmasq exist three times: `pending` (uci, in
RAM), `flash` (committed) and `running` (read by dnsmasq at its restart). `saved`
is `$SAVED`, the record by which the changes are undone; `doqd` is whether it is installed, runs
and where it listens. `restore_dnsmasq`, which both scripts contain, is
`UndoTarget` … `Undone`, and `script.then` says what follows it. `Killed` stops a script between any two
commands, `Reboot` also forgets what was not committed; the user edits `doqd.conf` and
dnsmasq between runs. `user` is a history variable: the settings as they would be without
the installer. `Report` is the verdict of `doqd status` (`internal/cli/dnsmasq.go`).

A listen address is one of `Targets`, of which the scripts can make an entry for dnsmasq, or `Unreadable`.
With that one the installer dies where it reads it (`CannotRead`, line 363), without restoring
dnsmasq. By then it may have stopped doqd to replace the binary in place (287-292), or doqd may not have
been running, and dnsmasq is left pointing to it. This end is the exception that `NeverCutOff` makes among the scripts'
own ends; after every other one dnsmasq, if it runs, has some server for every name. The uninstaller with an
unreadable address finds no entry that is equal to it (`Guess`).

The variable `torn` records a limit of the script that the model brought out: the record and
the settings are not changed together. An entry is in the settings before
it is on record (`add_list` at line 447, `echo` at 448). An entry that is replaced is struck off the record,
at once and for good, before it leaves the settings (`sed -i` at 453 and `del_list` at 455), and
long before it leaves the flash (the NTP entries go off the record at 464, all changes are committed at 473). `torn` is set by a cut after which
an entry of the installer's stays that is not on record:

- a script killed between 447 and 448, or between 453 and 455: the entry stays pending,
  and whoever commits next writes it to flash. A script killed later, even before the commit, is no exception: the pending
  settings are those the record speaks of;
- the power lost between 453 (an old doqd entry) or 464 (old NTP entries) and 473, when the listen
  address or the NTP entries have changed since the last run: the flash still
  has the old entry, and the record has not.

Such an entry stays when doqd is uninstalled, although line 20 speaks of undoing "exactly that" (the next
install does not put it back on record either, since an entry that is there is taken for the
user's). `UndoneExactly` holds for every history without such a cut, and `UsersSettingsKept` for those with one, too.

`Init` has the user's settings in every form but one: with an entry that leads to doqd already
(lines 441-442 leave such an entry to the user). It would be taken for the installer's by an uninstaller that has no record; that is under
[Disagreements found](#disagreements-found).

## Runs

| Run | Module, configuration | Question | Bounds |
|---|---|---|---|
| `doq` | MCDoQ, MCDoQ.cfg | safety of the shared connection, and the inductive invariant of the proofs | 2 queries, 2 dials, 2 connections, no `Close`. A second connection is what it takes to replace, overwrite or leak the first; symmetric sets |
| `doq_live` | MCDoQ, MCDoQLive.cfg | `Close` against dials and checks; queries return; a silent connection is replaced | 1 query, 2 dials, 2 connections, `Close` at any moment, no symmetry (it is unsound for liveness) |
| `connect` | MCConnect, MCConnect.cfg | goroutines and connections left behind; giving up early; does a dial end; is an upstream that moved found again | 1 bootstrap server (2 protocols, so 2 results), 1 refresher, 2 lists of 2 addresses with one address in common, in different places: the old list may hold the living address or not. Dials without end |
| `picker` | Picker, MCPicker.cfg | books of a round, reserve, giving up, blame, startup probes | 1 query at a time, repeated for ever, 2 primaries and 1 reserve, the first of them still being probed; health changes by its results, by cooldowns and by probes at any moment |
| `picker_live` | Picker, MCPickerLive.cfg | queries end, recovery, a hung primary moves back | 2 primaries; a round trip of 1 against 9 waited, so that the average `(7·old + new) / 8` moves in integers |
| `cache` | MCCache, MCCache.cfg | list and map, eviction, TTLs | 3 keys for 2 places; TTLs below, in and above the clamp; 2 ticks to a second, so that ages are whole and half seconds |
| `resolver` | MCResolver, MCResolver.cfg | single flight; the refinement of `Forwarder` | 2 clients, 1 key, 2 calls, 2 versions of the zone: what a late answer would need to overwrite a newer one |
| `resolver_live` | MCResolver, MCResolverLive.cfg | nobody waits for ever, refreshes end | 1 client, whose calls outlive it; 2 keys for 1 place |
| `smartdns` | MCSmartDNS, MCSmartDNS.cfg | which table an answer obeys; SIGHUP is not lost | chains over 3 names with loops, 2 tables that each protect what the other does not, 1 query (queries do not touch each other's state) |
| `reconfigure` | MCReconfigure, MCReconfigure.cfg | the file and the daemon; the daemon comes back | 2 commands, 3 URLs, 3 processes, interruptions at every step, 1 outage of the address |
| `reconfigure_last` | MCReconfigure, MCReconfigureLast.cfg | expected to fail: see [below](#disagreements-found) | 1 command, 1 URL in both roles, 2 processes |
| `installer` | Installer, MCInstaller.cfg | is the user's DNS kept, undone exactly, never cut off by a script's own end; does success mean what `doqd status` says | 2 listen addresses (the entry changes) and an unreadable one, 2 NTP entries, 2 cuts (one during the repair of another) and 1 edit (the listen address with the NTP servers, or dnsmasq); installs and uninstalls without bound |

The two `Reconfigure` runs switch the deadlock check off: the
commands are run once and the system comes to rest. Everywhere else it is on.
On two cores most runs take between half a minute and three minutes.

Bounds that cut histories short: the versions of the zone in `Resolver` (the
set `Versions`), the length of an address list (`MaxTargets`), the length of the
list of servers (by `Urls`), the numbers given to `remove`, one use of each
command, `MaxOutages`, `MaxCuts` and `MaxEdits`. Ages in `Cache` stop at the age at which an entry is dropped, which
loses nothing. In `Bootstrap` a record of `query` is used again only when every goroutine of the
last query in it has ended; the two would share nothing. No state constraint is used.

Properties about what happens again and again (`QueriesEnd`, `ConnectEnds`, `MovedServerFound`) have the form
`[]<>`: of each slot of the model, that it is free again infinitely often.

## Fairness

Only goroutines of the program, and limits the code sets, are fair. Nothing is
assumed of the network: not that a lost path comes back, nor that a connection
stays alive.

- `DoQ`, weak: the exchange, the dial (its handshake has a timeout), the steps of
  a check (its probe has one too), the locked part of `Close`. Strong: `getConn`, because its
  mutex and its selects are left and entered again as other goroutines dial and
  check, and Go's mutex does not starve a waiter nor a select neglect a ready channel for
  ever; the end of the query's context, which has a deadline that runs
  through all its attempts; and the return on that end.
- `Connect`, weak: clients keep asking, so another dial begins; the goroutines run; an exchange
  with a bootstrap server or a handshake ends (both have timeouts); what is kept grows old. Not
  assumed: that calm ever comes, that a timer fires before a result is there. `MovedServerFound`
  has the calm as its hypothesis.
- `Picker`, weak: an attempt has `attemptTimeout`, so some result of a running attempt
  comes; the health check ticks and its probes have a timeout. That an upstream
  answers is a hypothesis inside `Recovers` and `HungLosesItsPlace`, stated about
  what it does (`Misbehaves`, `Silent`).
- `Resolver`, weak: `Exchange` returns within `sharedTimeout`, the goroutine of a call runs, a
  client takes a reply that is there. Strong: the steps of a client up to its
  select, because `StartCall` may find the finite set `Calls` exhausted for a moment where the
  code makes a new object. No client's timer or context is counted upon.
- `SmartDNS`, weak: the goroutine `reloadHosts` runs.
- `Reconfigure`, weak: commands that have begun go on unless interrupted, processes
  are scheduled, a daemon that got SIGTERM stops, and an address that went away comes back
  (without it no daemon can serve). Nothing makes a user run another command.
- `Installer` has no liveness property: every step is the shell's.

## Proofs

The theorems hold for every value of the constants that the modules' `ASSUME`s allow. They cover
every invariant and every action property of the runs, and the refinement of `Forwarder`; TLC has
checked each inductive invariant on the run's instance too. Each module `X_proof` has the same form:
the inductive invariant in named parts, lemmas on the operators, one lemma or step per
action, the theorems last.

| Module | Theorem | Property | |
|---|---|---|---|
| `DoQ_proof` | `Invariance`, `TypeCorrect` | `IInv`, `TypeOK` | the inductive invariant, and types; that `attempt` stays below 2 is what needs an argument |
| | `OneDial` | `SingleFlight` | a dial under way is the only one, and no connection is installed meanwhile |
| | `NothingLeaks` | `NoLeak` | an open connection is installed, in a dial's hands or about to be closed |
| | `VerdictFirst` | `WokenAfterVerdict` | waiters find the verdict applied |
| | `ClosedForGood` | `ClosedStaysEmpty` | nothing is installed after `Close` |
| | `NoCutByQuery` | `OneBadQueryKeepsConn` | no step of a query closes a connection |
| `Connect_proof` | `StaysConsistent` | `Consistent` | the mark stands as long as the refresh |
| | `NoneStaysBehind`, `FailsLast` | `NoneLeftBehind`, `FailsOnlyAfterAll` | losers are closed; giving up comes last |
| | `LookupFailsLast` | `LookupFailsOnlyAfterAll` | a lookup waits for every server |
| `Picker_proof` | `BooksAreKept`, `ReservesWait` | `Consistent`, `FallbackAfterPrimaries` | the books of a round; the turn of the reserves |
| | `EverybodyIsHeard` | `GivesUpOnlyAfterAll` | a query with time left hears everybody |
| | `NobodyIsBlamed`, `LosersAreSlowed` | `LosersNotBlamed`, `LosersMeasured` | what a query leaves behind |
| `Cache_proof` | `CacheStaysConsistent`, `TtlStaysHonest` | `CacheConsistent`, `HonestTtl` | list and map; TTLs right to less than a second |
| | `OldestGoes` | `OnlyTheOldestGoes` | eviction goes by the last use |
| `Resolver_proof` | `ResolverConsistent` | `Consistent` | one call per question, nobody forgotten |
| | `ResolverForwards` | `Forwards` | the resolver implements `Forwarder` |
| `SmartDNS_proof` | `AnswersAreResponses`, `OneTableRules` | `TypeOK`, `CurrentPolicy` | an answer obeys one table in force after the reply |
| `Reconfigure_proof` | `FileStaysServable`, `PortIsHeld` | `Consistent`, its parts | the file parses, the port belongs to one daemon |
| | `LatestIsServed` | `LatestServed` | two commands leave no daemon with a replaced file, unless interrupted between write and SIGTERM |
| | `UpstreamStays` | `LastUpstreamStays` | holds where the violating run's file is excluded |
| `Installer_proof` | `ConsistentAlways`, `UndoneInTheEnd` | `Consistent`, `UndoneExactly` | nothing of the user's is lost; all is undone, unless a cut left an entry that is not on record |
| | `ServedAtTheEnd`, `SuccessIsTrue` | `NeverCutOff`, `SuccessForwards` | dnsmasq has a server, but for an unreadable listen address; success means it forwards |

The assumptions are those of the modules: sentinels are no members of their sets, sets that a
`CHOOSE` draws from are not empty, servers and names are finite sets, numbers are numbers. Three say a
little more: the addresses of a name are at most `MaxTargets` and never none
(`Bootstrap`, `Connect`), the first version of the zone is 0 (`Resolver`), and upstreams send no
answers that already contain local overrides (`SmartDNS`). No proof module assumes more; two theorems have a hypothesis
that is written out in them, `MadeByCommands` and `TwoCommands` (below).

### The arguments

**DoQ.** `IInv` joins `TypeOK`, `SingleFlight` and `NoLeak` with two facts
they do not follow without. `DialedUnshared`: a dial holds no connection before its
handshake succeeds, and the one it then holds is neither installed, nor
checked, nor held by a query or another dial. Without it, installing could
put a connection into circulation twice, and the closing of one dial could cut another's.
`VerdictStands`: a check that is about to end has seen its connection alive, or
the connection is dead or no longer installed. Without it nothing is known when
the waiters wake, and `VerdictFirst` is just that moment.

**Connect.** `RaceInv`: `pending`, and after a win `left`, is the number of handshakes
whose result has not been received. So counting down to zero means that all of them have ended,
which is all that `NoneLeftBehind` and `FailsOnlyAfterAll` say. `QueryInv` is the same for `query`
of the bootstrap: what it still waits for is being worked on or stands in the channel. `MarkInv` has the mark in a form
that a step can keep: some refresher is the only one that runs.

**Picker.** `Books`: nobody is asked twice, who runs was asked and has not answered, `pending`
is their number. `GivesUpOnlyAfterAll` follows since a round that has asked nobody twice and everybody
at the end of the order has asked all. `Settling` carries `LosersMeasured` through the steps in
which the losers are slowed one by one: whoever stood before the winner has a measurement
or is still to be slowed, and no other query takes a measurement away. `BootInv`
counts the startup probes that can still slow an upstream, which bounds the counter.

**Cache.** Every key stands once in the list, so the place that `Place` chooses is the
place. `UsedAfter` is what orders the list: a key that stands before another was used
after the other's last use. The evicted one stands behind all others, which are as many as the cache
has places. `Without` and `DeleteIf` are written as functions on the indices, since the provers know nothing
of `SelectSeq`. `HonestTtl` is arithmetic on one entry: what the division by `Second` loses is less than a
second (`WholeSeconds`).

**Resolver.** The invariant says for each call and each client what it may hold, in terms of the
zone and of what the cache holds: no message is newer than the zone, and a call that is about to
store or has stored holds nothing older than what the cache has. `OneCallPerKey` is what makes that
inductive: were there two calls for a key, the older answer could be stored last. The refinement
maps each step of `Resolver` to one of `Forwarder` or to a stutter, action by action; the initial states map to initial states.

**SmartDNS.** Along a chain the code goes on until it meets a name again; the model walks
`Cardinality(Names)` steps. Both reach the same names (`WalkStops`, `ChainReached`): a walk that has
seen nothing new once never does. The bounded recursions are shown to exist first, by induction over a
set of numbers (`AllAlong`, `Takes`), since the library's induction theorem cannot be instantiated. Then
`SecondReady`, that the table of the second look is among those in force since the reply, is all that `CurrentPolicy` needs.

**Reconfigure.** `Inv(G)` says that the file and every copy a command is about to write belong to a
set `G` of lists that editing does not leave. The copies are what makes it inductive: one may be written
long after the file it was taken from has been replaced. With the lists in which an upstream exists,
upstreams stand before fallbacks and no URL stands twice it yields `Consistent` and `LastUpstreamStays`; hence the
hypothesis `MadeByCommands` on the files there may be at first. Files edited by hand may break it, and then
the last upstream can go ([below](#disagreements-found)). With all lists it yields the types and the sockets without any hypothesis.

`LatestServed` is about two commands. `Ordered` is its invariant: as long as one of the commands may still
start a daemon there is at most one (`OneUntilPast`); a daemon other than the one a
command stops is the work of the other command, which starts no more (`OtherIsPast`); and a
daemon that has read a replaced file is going to be stopped by somebody, or has got its SIGTERM (`StaleIsStopped`), as
long as nobody was interrupted before sending it. With three commands the property is false: two
commands find the old daemon, wait for it together and start one daemon each. While these compete for the port the third command
writes, finds the one that does not get the port, and ends when that one has gone (`Kill` of a process that is not there); the
other serves the older file. TLC finds this in 27 steps.

**Installer.** `CoverInv` is the heart: what stands in the settings and is not the user's is on record or in the
hands of the running script, except after a cut that `torn` names; and without a record the flash, too, has nothing but
the user's. With a record the flash may still hold an old entry that the record has lost, until the commit; that is why
the invariant speaks of the pending settings, and a power failure that brings the flash back must ask again. `ProgressInv` and `UndoInv` say what a script has achieved
at each of its commands, which a cut forgets and a repetition achieves again; `RecordInv`, that without a record
nothing is left to be undone.

### What stays with TLC

The liveness properties, `QueryEnds`, `SilentIsReplaced` and `CloseReleases` (`DoQ`), `QueriesEnd`, `ConnectEnds` and
`MovedServerFound` (`Connect`), `QueryEnds`, `Recovers` and `HungLosesItsPlace` (`Picker`), `AllEnd` (`Resolver`),
`ReloadTakesEffect` (`SmartDNS`) and `DaemonReturns` (`Reconfigure`): fairness and `ENABLED` are out of
the prover's reach. The violation of `LastUpstreamStays` is TLC's by nature. No module declares a RECURSIVE operator.

## Disagreements found

The run `reconfigure_last` is expected to violate `LastUpstreamStays`: "refusing to
remove the last upstream server" (`confedit.go:182`). The count that guards this
goes by the role of the line the number selects, the deletion by its URL. With one
URL in the file as upstream and as fallback, `remove 2` checks the fallback and deletes
the upstream, and the daemon does not start again.

Seen while modelling, and written into the models as the code does them, without a run:

- `fallbackMaxTTL` limits reserve answers according to `picker.go:22-24`; a reserve's
  answer with a broken CNAME chain is kept uncapped (`picker.go:350`) and, if nothing
  better comes, returned.
- "Identical simultaneous queries go out once" (`resolver.go:97-98`): between `Get` and
  `shared` an identical call can store its answer and leave, and the query goes out
  again. Harmless, but not once.
- "A dead one must be at the end of the queue before the first client's query"
  (`picker.go:428-429`); `startupProbe` starts its probes and does not wait for them.
- `add --fallback` to a file without server lines writes a file that does not parse.
- Of two commands that edit at the same time one may undo the other's edit.
- Of three commands that restart the daemon at the same time the last may leave one serving an older file: see
  `LatestServed` under [Proofs](#proofs).
- The installer's record of what it changed is not written together with the change
  (`install-openwrt.sh:447-448, 453-473`): see `torn` under [Installer](#installer).
- An installer that has replaced the binary in place (doqd is stopped then) and finds a listen address it
  cannot read (`install-openwrt.sh:363`) ends without starting doqd and without restoring dnsmasq: `CannotRead`.
- Without `$SAVED` the uninstaller removes the entry that leads to doqd whoever made it. The models do it too (`Guess`), but `Init`
  gives the user no such entry.
- A response between the verdict and `dropConn` does not save a condemned connection.
- The success of a probe may clear a failure that is newer than the probe.

## What is not modelled

- Upstreams given as literal IP addresses, which skip the bootstrap: `Connect` without its lookup.
- `list`, `status`, `test`, `hosts check/export`, platform detection, logging: they read
  and print. Of the dnsmasq check only its verdict is.
- Parsing of DNS messages, QUIC streams and framing, TLS: libraries. Parsing of
  the hosts file and of the other configuration keys succeeds or fails.
- The lifetime cap on a reserve's answers (`capTTL`), truncation for UDP: they change
  a message, not what happens to it.
- Questions in another class than IN, messages with several questions (beyond their being passed
  through).
- `restartViaInit` on OpenWRT, where procd restarts the daemon.
- The installers for Keenetic, which copy files and register one more name-server with the router's
  command line, without a record of what was there; of the OpenWRT one the download,
  the migration of an old configuration and the sysupgrade list. A user's own entry that leads to doqd before
  the first install (lines 441-442).
- The errors of a query's cancelled attempts, which come into the channel when nobody receives any more (`Picker`).
- A hosts file that is read half-written and parses nevertheless: it is published like any other (`SmartDNS`).
- A configuration without server lines (it runs on the built-in list) edited by `add` or `remove`.

## Plan

1. *(done)* `DoQ`, `DialRace`, `Picker`, `Cache`, `Resolver`, `SmartDNS`, `Reconfigure`; the
   proofs about `DoQ`.
2. *(done)* `Bootstrap` and its composition with `DialRace` in `Connect`; the sockets and
   `StartWait` in `Reconfigure`; startup probes and all outcomes of them in `Picker`; `Installer`; the abstract
   `Forwarder` and the refinement.
3. *(done)* Proofs of every safety property of the runs, and of the refinement of `Forwarder`.
4. Models that would still add something: an upstream as "a connection or none", as an abstract
   specification of `DoQ`; two concurrent queries in `Picker`; `restartViaInit`.
