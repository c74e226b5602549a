# A TLA+ model of pgvpn

pgvpn routes a small group of WireGuard clients by *name*.  Its server runs a
DNS proxy: a request whose name contains a pattern of the "nl" or the "usa"
list is resolved through that country's tunnel, and every address of the
answer is put in a kernel ipset (`nl_proxy`, `usa_proxy`) before the client
learns it.  The firewall marks packets by ipset, policy routing sends marked
packets into the tunnel.  A Telegram bot in the same process edits the lists
and moves addresses between the sets.

This directory models the DNS proxy (`src/dnsproxy/`): how its goroutines
share lists, sets and history, what it writes to disk, and what a crash, a
failed read or write and a full set do to it; its bot, whom it obeys and what
it shows; the firewall's marks; and the programs beside the service: the script
that makes a new client (`pg.louso.ru/root/wg`), the watchdog of the tunnels,
the copy of the sets to two MikroTik routers, and `log_parser`, which rebuilds
the history from the service's log.

## 1. Inventory

| component | code | state | operations | partners |
|---|---|---|---|---|
| DNS handlers | `dnsproxy/main.go` `handle`, `forward`, `processAnswers`, `processAdditionalRecords`, `addIPToNL/USA`, `addDomainIP` | per request: the route decided, the answer | one goroutine per request | read the lists, write the ipsets and `ipMap`, signal the saver |
| pattern lists | `main.go` `reloadPatterns`, `loadPatternFile`, `matchesPattern` | `patternsNL`, `patternsUSA` under `mu`; the two files | reread every 5 s, swap | files edited by the bot and by hand |
| history and saver | `main.go` `loadIPMap`, `addDomainIP`, `backgroundSaver`, `doSaveJSON`, `doSaveIPSet` | `ipMap` under `mapMu`, channel `saveSignal`, two flags, `map.json`, `ipset.conf` | signal, receive, tick (10 s), save | handlers signal; bot reads `map.json`; reboot reads `ipset.conf` |
| bot, pattern commands | `dnsproxy/bot.go` `/add_nl`, `/add_usa`, `/remove_nl`, `/remove_usa` | none but the command under way | edit the files, look up `map.json`, change the ipsets | everything above |
| bot, authorization | `bot.go` `NewBot`, `Start`, `/pass`, `authorize`; `main.go` `logDNS` | `authorizedChats` in memory, `authorized_chats` and `dns_logs` in SQLite, the library's channel of messages | take a message, authorize, insert a row | Telegram, the handlers (one database) |
| bot, display | `bot.go` `/site`, `/nl`, `/usa`, `/ru`, `getIPRouteStatus` | the lookup under way | look up, ask for the status, pack and send messages | `map.json`, ipsets, pattern files |
| packet marking | `pg.louso.ru/etc/iptables/rules.v4` | connection marks | mark, save and restore | ipsets |
| policy routing | `proxy-route.service` | two `ip rule`s, two tables | set up once | tunnels |
| wg-monitor | `wg-monitor.sh`, `.timer` | the interfaces, their last handshakes | check an interface, restart it, report | policy routing |
| client provisioning | `pg.louso.ru/root/wg`, `bot.go` `/wg` | index, server config, client files, the interface's peers | add a client | bot and shells run it |
| MikroTik sync | `scripts/sync-mikrotik-address-lists.sh` | lists on the routers | fetch the sets, upload, import | ipsets |
| log_parser | `log_parser/log_parser.go` | entries, the merged map | parse the log, fetch and merge `map.json` | the service's log, `map.json` |
| the rest | configuration and deployment scripts, exit gateways, `ct-failed.go`, vendored libraries | - | - | - |

What makes the DNS proxy hard to test:

* **Three kinds of goroutines, no common lock.**  A handler decides the route
  of a request, waits up to tens of seconds for the upstream, and then installs
  the addresses; meanwhile the lists, the files and the sets may be changed by
  the bot.  The bot moves the addresses that `map.json` holds, which the saver
  wrote a while ago.
* **Asynchronous saving.**  Signals go through a bounded channel, are dropped
  when it is full, are accumulated in flags, and the flags are cleared after a
  save that other changes overlap.  `addDomainIP` sends while holding the lock
  the receiver needs.
* **Files rewritten in place.**  `map.json`, `ipset.conf` and the pattern files
  are truncated and written again; a crash, a reader or an error in between
  finds a torn file, and every reader takes that for an empty one.
* **Ignored errors.**  A move goes on when the pattern could not be taken out
  of the old list and when the new set has no room.
* **No lock around the index** of client addresses, which is read, truncated and
  written by separate commands of a script that may run twice at a time.
* **One database, no busy timeout.**  All handlers and the bot insert into one
  SQLite file; who finds it locked fails at once, for the driver does not know
  the parameter main.go:73 asks for a timeout by.  Messages are confirmed to
  Telegram before they are handled, so a crash loses them, and with them the
  one whose handler is under way.
* **State asked for twice.**  The bot asks for the status of an address once to
  choose it and again to label it, while handlers install addresses.
* **One log for concurrent requests**, from which `log_parser` must guess which
  address belongs to which name, by two copies of the text of a line, one in the
  service and one in the parser; and a second writer of `map.json`.
* **State nobody puts back.**  The routes of the tunnels are set once, by a unit
  that does not run again; the watchdog removes the interfaces they are over.
* **Imports that break off** after they have emptied a router's lists.
* **Marks kept with connections**, restored by rules between those that look at
  the sets.

What would make each part correct:

* saver: no request for a save gets lost, a write never drops what the process
  loaded or wrote before, callers return, everything recorded is saved;
* lists: a command acts on the lists as a whole, the loaded lists become those
  of the files;
* sets: an address is in a set only for a reason, is there before the client
  learns it, and is never out of both sets while it moves;
* clients: every peer has an address of its own, and a configuration that is
  shown belongs to a peer the interface has;
* bot: it obeys only who has sent the password, keeps what it told of, loses no
  more than one channel of messages and the one under way per crash; it shows each address once, with
  a label that was true during the command, in messages Telegram accepts;
* marks: a packet of a client follows the sets while its address is in one, a
  connection changes its tunnel only because its address has moved;
* tunnels: one whose peer answers works again whatever becomes of the other;
* routers: a complete import has what the sets had, and no more; a router that
  answers gets one, whatever becomes of the other;
* log: what is rebuilt is near what was logged and drops nothing logged in time,
  and merging it into `map.json` loses nothing.

`PROJECT.json` lists under `hazards` every such place at its line, with the
properties that are about it.

## 2. The modules

```
HistoryStore  <== refinement ==  Saver      <- MCSaver, SaverProofs
     |- DnsProxy  == refinement ==>  HistoryStore, PatternLists, KernelSets
     |      ^- MCDnsProxy, DnsProxyProofs
     |- MapRecovery
LogRecovery   =  LogParser + MapRecovery    <- MCLogParser, LogParserProofs
TelegramBot   =  BotAuth + BotDisplay       <- MCTelegramBot,
                                 BotAuthProofs, BotDisplayProofs
WgProvision   <- MCWgProvision,  WgProvisionProofs
KernelSets    (INSTANCE: the sets as seen by those who only read them)
     |- BotDisplay
     |- MarkPipeline  <- MCMarkPipeline, MarkPipelineProofs
     |- MikrotikSync
HostTimers    =  MikrotikSync + WgMonitor   <- MCHostTimers, HostTimersProofs
```

**HistoryStore** is what `map.json` promises its two readers: a reader gets the
last complete write, or nothing while the file is torn; a write holds all this
process loaded or wrote before and nothing it did not record; a restart begins
from what a reader gets, or from nothing.

**Saver** is the persistence in detail.  `AddDomainIP`/`SignalJSON` are the two
halves of `addDomainIP` (`mapMu` is held in between), `AddIP`/`SignalIPSet`
those of `addIPToNL` and `addIPToUSA`; `ReceiveSignal` and `Tick` the branches
of the select; `ConfOpen`, `ConfWrite`, `ConfFail` are `doSaveIPSet` with the
truncation by the shell apart from the write; `JsonMarshal`, `JsonOpen`,
`JsonWrite`, `JsonFail` are `doSaveJSON`.  `BotAdd` and `BotDel` change the sets
without a signal, as the bot does.  `Crash` is a death of the process and its
restart by systemd, `Reboot` one of the machine, which loads `ipset.conf`.  The
ghosts `abandoned` and `unsignalled` hold exactly what the *code* gives up: a
request dropped at the full channel or by a failed save, a change of the bot,
a change whose request a crash lost.  `saved` is what this process has loaded
or written of `map.json`.

**PatternLists** is what the two pattern files promise: whole-command edits of
two lists which share a pattern only when it could not be taken out of one.

**KernelSets** is what `nl_proxy` and `usa_proxy` promise to their readers: they
change by one address of one set at a time, in any order.  DnsProxy implements
it; BotDisplay, MarkPipeline and MikrotikSync take their environment from it, so
that what is shown of them holds beside the service that is modelled in detail.

**DnsProxy** composes handlers, reload loop, bot, sets and files; the saver
appears as the `Tear` and `Publish` steps of HistoryStore, which Saver is shown
to implement, so the bot of DnsProxy meets `map.json` as the real saver leaves
it.  A request goes `Request` (route decided), `Answer`/`NoAnswer`, then for
each record `ProcessAnswer` or `ProcessExtra` and `Install`, and `Reply`.  The
loop is `ReloadNL`, `ReloadUSA`, `ReloadSwap`, with `ReloadFails` for a file
that cannot be read.  A command is `Command`, then for an add `BotUnlist`
(truncation of the other file), `BotRewrite`, `BotAppend`, `BotHistory`, and
per address `BotMoveIn`, `BotMoveOut`; for a remove `BotHistory`, `BotUnlist`,
`BotRewrite` and `BotDelete`s.  Each file operation has the failing variant
the code handles.  `Mark` is the order of the set rules in `rules.v4`,
`RouteStatus` that of `getIPRouteStatus`.  The ghost `excused` holds the
addresses of a request that are not in their set for a reason the code gives:
the set refused them, or the bot took them out after they had been installed.
An excuse ends when a request installs the address again, which is how an
address that a `/remove` took although another pattern still covers its name
comes back.

**BotAuth** is the bot's loop.  `Send` is a chat's message, `Poll` the library's
`getUpdates`, which confirms what it fetched before and fills the channel.
`Take` is the step of `Start` that reads the next one, and its cases follow as
steps of their own: `Skip`, `CommandRefused`, `Command` until `CommandDone`,
`WrongPassword`, and `Authorize`, which sets the flag in memory and is followed
by the insert (`InsertBegin`, `InsertBusy`, `InsertCommit`).  So a crash finds a
message taken and not yet looked at, a command under way, or an insert.
`LogBegin`, `LogCommit` and `LogBusy` are the inserts of `logDNS` in the handlers,
with one `lock` for the file.  `NewBot` reads the table at the start, or fails
(`NewBotFails`), and the service then runs without a bot until it is restarted.
`Crash` loses the memory, the channel, the message with `Start` and inserts that
are not committed.  The ghosts are `ran` (chats that had a command carried out),
`told` (those told of their success), `handled` (messages whose handler has
returned), `lost` (messages confirmed that a crash left unhandled) and `logged`.

**BotDisplay** is one of `/site`, `/nl`, `/usa`, `/ru`.  `ShowPatterns` lists
the file; `Lookup` reads `map.json`; `TestNL` and `TestUSA` are the two
`ipset test`s of a status, run for the choice and, after `FilterDone`, for the
label of each address in a `Block`; `Put` packs a block, `BlockDone` and
`LastMessage` send.  `Install` is a handler adding an address at any moment.

**TelegramBot** puts the two together: they share no variable, since what a
command does is, for the loop, a command under way.

**LogParser** has the service's handlers write their lines to one log: `Query`
that of a request, `Answer` and `Additional` those of the records of its answer,
`Reply` none.  The service is this commit's, or a former release until `Upgrade`.
The lines of this commit are those of main.go:364, 436 and 472; of the former
release the repository has only what the parser looks for (log_parser.go:83-84)
and what it made of it (`log_parser/recovered_map.json`), so its lines are
modelled as those patterns say and marked external.  The journal goes one month
back, and may hold both.  `GetLogs` takes a stretch of it, and `ParseLine` goes
through that as `parseLogs` does: `domainRegex` and `ipRegex` say which texts the
two patterns match, `Domain` and `Address` what they take from them.

**MapRecovery** is what follows: `LoadExisting` fetches `map.json` (or fails),
`Merge` is `mergeData` and the save of `recovered_map.json`, `CopyOpen` and
`CopyWrite` the copy the operator is told to make.  The service beside it is
HistoryStore.

**LogRecovery** puts the two together: they share no variable, since what the
parser finds is any set of pairs for what follows.

**WgMonitor** is the boot (`BootInterfaces`), the unit `proxy-route`, one
`RouteReplace` per interface, and the monitor: `Timer`, then per interface
`Show`, `RestartMissing`, `ShowAgain` or `LatestHandshakes`, `RestartStale`,
`Revived`.  `Recreate` is a stop and start of an interface, which drops the
route over it.  `Handshake`, `Expire` and `PeerChanges` are the tunnel,
`Remove` an interface that is lost.

**MikrotikSync** is one run of the script after the other: `Timer`, `FetchNL`,
`FetchUSA`, then per router `Upload` or `Skip`, the lines of the import
(`RemoveNL` ... `AddRoute`) and `Done`, or `Cut` at any of them.  `SetsChange`
is a change of KernelSets.  The ghost `kept` loses what neither file will have
of a deleted address, `Dropped`: one that moves is not lost, if it is added
before it is deleted and not against the order of the fetches.

**HostTimers** puts the two timers together, which share no variable either.

**MarkPipeline** is the mangle table in the order of its rules: `SetMarks` are
the two rules that look at the sets, `Restore` and `DnsproxyPrerouting` those
that restore the connection mark, `Packet` a packet's way through them up to
the rules that save it.  `Answered` and `Close` are conntrack.

**WgProvision** is `/root/wg`, one action per command that reads or changes a
file: `Start` (the name has no file), `Ensure`, `CreateIndex`, `WriteFirst`
(wg:26), `ReadIndex` (wg:29), `TruncateIndex`, `WriteIndex` (wg:31),
`AppendPeer` (wg:40), `TruncateClient`, `WriteClient` (wg:50), `Reload` or
`ReloadFails` (wg:71), `Show` (wg:74 and the bot's messages).  `Die` is a
command that fails under `set -e`, or a run that is killed.  The ghost
`disturbed` says that a run read the index while another was at it, or died
while the file was truncated; `overlapped` names the users two runs were under
way for; `shown` keeps the files that were sent.

### Abstractions

* Names, patterns and addresses are model values.  How patterns match is given
  by two relations: `Matches` (requests, case ignored) and `Mentions` (history
  lookup and removal, as typed).  Patterns that end in a dot, which a request's
  name has lost by then, are left out.
* A pattern file is a set of patterns and a flag that it exists: order,
  duplicates and comments, and edits by hand, are abstracted.
* `ipset` commands fail only where the kernel refuses: a set at its size.  A
  missing set behaves as one of size 0.
* The two `addDomainIP` calls for one record of an answer are one step in
  DnsProxy; Saver has each of them on its own.
* The timeouts of the exchange, UDP then TCP, are `NoAnswer`.
* After a crash DnsProxy's lists are loaded at once; the read that fails is
  `ReloadFails`.
* `Tick` with nothing pending is a stuttering step and not an action.
* `backgroundSaver`'s shutdown branch is unreachable (nothing closes
  `shutdownCh`), so it is not modelled: a stop is a crash.
* In WgProvision a peer is a number for its keys (that of the run) and one for
  the last part of its address.  Peers that were in `wg200.conf` before the
  script was first used have addresses among the reserved numbers, up to
  `FirstIndex`.  An empty index file reads as 0, as bash evaluates it.  The text
  of a peer is appended by one write.  Reloads come one after the other, as
  systemd runs them, and `wg` refuses the whole file for one bad address.
* BotAuth: a message is its chat and what `Start` does with it; what a command
  does meanwhile is in DnsProxy, BotDisplay and WgProvision.  Telegram and
  the library (`Send`, `Poll`) are modelled from how `bot.go:848` uses them.  A
  handler's insert is kept apart from its exchange, which it follows.  `/log`
  reads one table by one query, `/conn` formats the result of a stub that is
  always empty, `/help` is a constant: none of them changes state.
* BotDisplay: a text is its size.  Telegram's limit of 4096 characters is
  external; no other reason to refuse a message is modelled.
* LogParser: the text of a line is a sequence of words, enough of them to tell
  whether a pattern matches and what it captures; a record's name that begins with
  four numbers, which `ipRegex` takes for an address, is one of `Leading`.  All
  requests are for type A; the parser would recognise no other type either.  The
  query a record answers is kept beside its line, for the properties.  The name of
  the unit whose journal is read (`dnspoxy.service`, log_parser.go:69, which
  nothing else in the repository is called) is outside the model.
* MapRecovery: of two writers of `map.json` at a time, the one that completes
  last prevails; nobody keeps them from it.  The operator copies the file as
  log_parser.go:61 tells him to.
* WgMonitor: the ExecStart command of `proxy-route.service` is read as it is
  meant, its quoting over several lines aside.  Its `ip rule`s are
  unconditional and nothing removes them; they are left out.
* MikrotikSync: systemd runs one instance at a time.  A set that does not exist
  ends a run before any router is touched, as does a failed fetch; neither
  leaves anything behind, so such a run is none.
* MarkPipeline: packets in the direction a connection was opened.  Replies leave
  by the client's interface and not by a tunnel.
* Edits of the pattern files by hand (README.md:84) are left out everywhere.

## 3. The runs

| run | properties | states | shows |
|---|---|---|---|
| `Saver` | `TypeOK`, `JSONCovered`, `IPSetCovered`, `HistoryKept`, `CallsReturn`, `EventuallySaved` | 216 thousand | no request is lost by the channel, the flags or the overlap of a save with new changes; the saver implements HistoryStore; sending under the lock the receiver needs does not deadlock; what is recorded reaches the file |
| `SaverDurability` | `HistorySurvivesRestart` | violated | finding 1 |
| `DnsProxy` | `TypeOK`, `Provenance`, `InstalledBeforeReply`, `LeavesOnlyByRemove`, `ListsImplemented`, `ListsConverge` | 617 thousand | routing is right at every moment of requests, reloads, commands, failures and a crash; file edits implement PatternLists; the loaded lists become the files' |
| `StatusTellsRoute` | `StatusTellsRoute` | violated | finding 2 |
| `MoveTakesEffect` | `MoveTakesEffect` | violated | finding 3 |
| `WgProvision` | `TypeOK`, `OneAddressEach`, `ShownWorks` | 1.2 million | undisturbed, no address is given twice; a file that is shown works, whatever dies or overlaps |
| `LogParser` | `TypeOK`, `EntriesNear`, `AddressesCredited`, `LeavesMapOnlyBy` | 4.0 million | what is credited to a name was logged near it, by the former release; nothing that release logged in time is dropped, whatever this commit logs after it; an entry leaves `map.json` only by what the service or a failed fetch explains |
| `RecordsFound` | `RecordsFound` | violated | finding 5 |
| `TelegramBot` | `TypeOK`, `OnlyWithPassword`, `SuccessLasts`, `LossBounded`, `MessagesHandled`, `DisplayTypeOK`, `ShownOnce`, `MessagesFit`, `LabelsJustified`, `NLShowsNL` | 458 thousand | authorization is right in every interleaving of messages, inserts and crashes; the handler of a message returns, or a crash has lost the message, of which there are no more than the channel holds and one; what is shown is complete, fits, and was true during the command |
| `HostTimers` | `TypeOK`, `NoneForgotten`, `OnlyTheBots`, `RouterSynced`, `ActiveMeansRouted`, `Recovers` | 822 thousand | a complete import is what the sets were, although they were fetched one after the other and earlier imports broke off; broken imports are repaired, and one router does not hold up the other; `proxy-route` is active only when it has set both routes; a tunnel whose peer answers works again, whatever the other does |
| `WgRestored` | `RestoredMeansRouted` | violated | finding 4 |
| `MarkPipeline` | `TypeOK`, `LANSticky`, `FollowsSets`, `OneExit` | 841 thousand | marks and connection marks under every change of the sets: clients follow them while their address is in one, and a connection that is open at a `/remove` stays in its tunnel |

Three of them run two modules each, composed by LogRecovery, TelegramBot and
HostTimers.  The two share no variable, so a step of one commutes with every step
of the other, and each is explored while the other rests.  The composition adds up
their states instead of multiplying them; that each half behaves as its own
module says is proved (`HalvesIndependent`, `SidesIndependent`,
`TimersIndependent`).

### Bounds

* `Saver`: two entries, so that one can be in the save under way while the other
  is recorded; a channel of two, so that it can be empty, hold both kinds of
  request, and overflow; two handlers, so that one can wait for `mapMu`; one
  crash, after which the second life meets everything the first left.  Members
  are saved all together, so one shows what two would.  No symmetry is declared,
  for it is not sound for liveness.
* `DnsProxy`: one domain answers with an address of its own and an additional
  record of another name; one pattern matches the first name as typed and the
  other one when case is ignored, the second pattern the first name when case is
  ignored.  A set has room for one address (`MaxElem = 1`), and either address
  may be the one that fills it, so that handlers and moves are refused.  The
  constraint `Bounded` allows beside
  requests one command and a fault (a failed read or write, or a crash) at any
  point, or two commands on files that list one pattern or none, which suffice
  to add and then move, or to move and remove; and while nothing has been
  resolved three commands and a fault, with both patterns listed, so that a move
  can be made, failed and repaired.  What the constraint cuts off are steps no
  fairness asks for (a request, a command, a fault), and the addition of a second
  pattern by a second command after something was resolved: its edit of the files
  and the reload that follows are explored where nothing was resolved, which
  neither of them looks at.  One handler: handlers do not read what others
  wrote but through the shared sets and map, which the bot changes too; the
  theorems below hold for any number of handlers.
* `StatusTellsRoute` and `MoveTakesEffect` have no faults: what they show needs
  neither a failure nor a crash.
* `WgProvision`: two runs at a time, four in all, so that a third meets what two
  overlapping ones left and a fourth what a killed one did; two names, so that
  runs for one name overlap and runs for another are beside them.  Two reserved
  addresses and a highest one of four put the overflow within reach: the third
  client's address is refused.  Deadlock is not checked: once the bound on
  starts is reached and every run has ended, nothing is left to happen.
* `LogParser`: two names and the root, two addresses and two handlers, so that
  requests overlap; a record's name like any other and one that begins with an
  address; a window of one and a clock up to two, so that an address can come in
  time and too late; four lines, the least for a request between another's query
  and its answer and one more line to be misread.  Two constraints: what the
  service logs after the journal was read is not followed up, since the parser
  does not see it, and behind the arrow of this commit's lines, where the parser
  does not look, there is one address.  Deadlock is not checked here and in
  `TelegramBot`: the bounds on the log and on the messages end what happens.
* `MapRecovery`: two entries, so that one can be the service's and one the log's.
* `BotAuth`: two chats, one of which may have the password; a channel of one, so
  that it is full at once; three messages, so that one can be with `Start`, one in
  the channel and one with Telegram when the process dies; one handler with one
  name for the lock.  Chats are alike, so the first to write is `c1`, and an update
  that is not a message counts as its (`FirstIsC1`).  Once a row of `dns_logs` was
  inserted, which the bot does not look at, no third message is sent (`RowsFew`).
  Neither cuts off a step that fairness asks for.
* `BotDisplay`: two domains with two addresses; every size is one, an address
  more than are listed is within reach, a heading and one block fit in a message
  but two full blocks do not, and a list of patterns may exceed what Telegram
  takes.
* `WgMonitor`: the two interfaces of the code; two starts that fail, so that one
  may fail at boot and one at a restart, or one for each interface.
* `MikrotikSync`: the two routers of the code and two addresses, the first to be
  added being `a1`; three changes, so that an address that was added moves during
  the fetches, by an add and a delete.
* `MarkPipeline`: one connection of each origin (a client, a LAN, the host) to one
  address, and one to an address rules 38-40 return for.  Connections share
  only the sets.

### Fairness

`Saver`: weak fairness of the handlers' steps inside a call, of the saver's steps
and of the tick; `DnsProxy`: of the reload loop and of the bot's steps:
goroutines that can run do run, and tickers tick.  Of the handlers nothing is
asked in `DnsProxy`; its liveness property does not depend on them.  Strong
fairness of `JsonMarshal`: `mapMu` may be taken again and again, but Go's
`RWMutex` lets a reader that waits in when the writer leaves.  `Tick` has a
fairness of its own because Go's select chooses at random among its ready
branches, so a stream of signals cannot shut the tick out.  Requests, commands,
failures, crashes and saves by HistoryStore are never forced.

`TelegramBot`: weak fairness of `Poll` (the library asks again and again) and of the
bot's steps, a command's return among them: what it calls are local commands, which
end, and Telegram, over a client whose requests fail when the connection does.  `WgMonitor`: of the boot, the unit and the monitor, which systemd
starts, and of `Handshake`, which WireGuard makes with a peer that answers.  The
bound on failed starts makes them end; an interface that never starts is beyond
any watchdog.  `MikrotikSync`: of the script, whose every ssh has a
`ConnectTimeout` and whose timer fires again; the bound on changes makes the sets
quiet in the end.  Messages, lost peers and connections, removed interfaces and
changes of the sets are never forced.

## 4. The proofs

The eight `...Proofs` modules prove every safety property of the passing runs
for every value of the constants: any number of handlers, entries, patterns,
addresses, chats and connections, any channel capacity, set and message size,
any number of commands, runs of the scripts, restarts and faults.  They use only
the `ASSUME`s of the modules.

* `TypeCorrect` (all eight): `TypeOK` is inductive, in BotAuth and LogParser with
  what it says of the counters that index messages and lines.
* `SavesGrow`, `MapJsonKeepsPromise`: Saver implements HistoryStore.  The step
  that matters is `JsonWrite`, which must publish at least `saved`.  That needs
  `SaveShape`: what is loaded or written stays in `ipMap`, and a marshalled copy
  lies between the two.
* `NoJSONRequestLost`: `JSONCovered` is strengthened to `JSONInv`, which says the
  same of what the file *will* be when the save under way completes: a failed
  save must not uncover an entry that only the older file lacked.
* `SavedKept`: what is left of the durability that finding 1 refutes.  Proved of
  HistoryStore and carried over by the refinement: what this process has loaded
  or written is in memory and in the file (`SavedStays`), so a pair can leave the
  file only under a process that began without it.
* `NoIPSetRequestLost`: `IPSetCovered` is inductive beside `SaveShape`, which
  ties the saver's program counter to its flags.
* `ListsRefined`: DnsProxy implements PatternLists under the mapping `ListsNow`,
  where a truncated file stands for the lines about to be written back; so
  `BotUnlist` is the removal and `BotRewrite` a stutter.  `FilesInStep` says that
  a file that does not exist has no lines, that during a rewrite the file is
  empty and the lines about to be written lack the pattern, and that a pattern
  about to be appended is not in the other file unless it is stuck there.
* `NeverOnBothLists`: two lists share no pattern but a stuck one.  It is an
  invariant of PatternLists, and ListsRefined carries it over.
* `SetsRefined`, `HistoryRefined`: DnsProxy implements KernelSets and
  HistoryStore.  So the modules that stand on these two stand on the service.
* `ReloadsSettle`: the safety half of `ListsConverge`.  Once a file is not
  changed, what is read of it is what it holds (`Coherent`, true of every reload
  that begins then), and a coherent reload makes the lists those of the files.
* `MakeBeforeBreak`: `LeavesOnlyByRemove`, from `HalfMoved`: an address about to
  be taken out of the old set is in the new one, unless the new one is full.
* `NoneIsLeftBehind`, from `HalfMoved` too: no address that a command has looked up
  is dropped before it is out of the old set and in the new one, unless that is
  full, something fails, or a remove finds no file.  What finding 3 leaves behind
  are addresses the history did not hold, or that handlers have put back.
* `RestartsCostLittle` (Saver): a restart drops of the
  history, and drops or brings back of the kernel's sets, only what was waiting
  to be saved or had been given up, unless `map.json` cannot be read.
* `ProvenanceHolds`: `Provenance` is not inductive, for it does not say why a
  request carries its route or a command its addresses.  `Known` adds this:
  lists loaded or read were once in the files, the history holds only what was
  seen, requests and commands carry only what has a reason.
* `RoutedBeforeKnown`: `InstalledBeforeReply`, from `RequestsSettled`: what a
  request has processed of its answer is in the set of its route or excused, and
  what is still to be processed is left in its record list.  Other actors keep
  this, since only the bot takes an address out, and that is an excuse; an
  address that is added again loses its excuse and is in the set.
* `NoAddressTwice`: `OneAddressEach` is about peers only; `Allotted` adds the
  runs.  Undisturbed, at most one run is between reading and writing the index
  and has read what is in it; the index, or that run's number, is ahead of every
  address given to a peer or to a run that has yet to append its own; such a run
  has a number nobody else has.  Before the file exists nobody has a number.
* `ShownFilesWork`: `ShownWorks`, from `Delivered`: a run that has appended its
  peer finds it in the file, and in the interface once it has reloaded it; and
  the client's file is the run's own unless another run for the name overlapped.
* `AddressesSuffice`: every client is loaded as long as no more runs were started
  than there are addresses, however they overlap and die.  `Within` says that a
  number, read or given, is paid for: it is at most the first index and the runs
  that are past writing theirs; `RoomLeft` says so of the index, of the runs'
  copies of it and of the peers.  `FullIsForGood` is the other side: from the
  first address out of range on, no run loads a client any more.
* `PasswordNeeded`, `SuccessIsKept`, `NoneDisappears`, `LossIsBounded` (BotAuth): a chat is in
  memory or in the table only after a message with the password of its own was
  sent, which messages, never withdrawn, keep true; whoever was told of success
  has its row committed, and whoever has a row is in the memory of every process
  whose start could read it.  `NoneDisappears` is the account of the messages: what
  Telegram takes for confirmed was handled, was lost in a crash, is with `Start`, or
  is in the channel; the last two are at most `Cap` and one, which is what a crash
  adds to `lost`.
* `EntriesAreNear`, `AddressesAreCredited` (LogParser): the invariant has a part on
  the log (times do not decrease, a record of the former release has the query it
  answers before it, a handler of that release points at its query) and one on the
  parser (what it remembers is the last query line of the former release it has
  read, what it has credited is what the lines up to `next` demand).  Under both
  are lemmas on the words of the lines: the five kinds differ, `domainRegex`
  matches one of them, `ipRegex` one and a part of another.
* `NothingIsFound`: from the same lemmas and `EntriesNear`; when all the lines given
  are of this commit the parser finds nothing, whatever was asked and answered.
  Finding 5 is so for every log, and not only for that of its run.
* `PairsLeaveMapOnlyBy` (MapRecovery, through LogRecovery): from `NothingForgotten`,
  as long as what was fetched is what the file holds, what is merged, and then
  what is copied, is at least the file it is to replace.
* `LabelsAreJustified`, `NLIsNL`, `MessagesAlwaysFit`, `EachShownOnce`
  (BotDisplay): a test's answer was true when it was made, and addresses only
  enter sets during a command; the message under construction fits because a
  block is put beside others only if it fits, and alone it does by
  `BlockAssumption`; kept domains are in exactly one of the messages sent, the
  one under construction and the rest still to do.
* `ImportsForgetNone`, `ImportsAddNone` (MikrotikSync): per phase of the import,
  the lists of the router at work are bounded from both sides by the two files,
  and these by the ghosts `kept` and `seen`.  `ImportsAreExact`: the lists of a
  complete import are the two files, with nothing of earlier imports.
* `RunsEnd`, `RoutersApart`: the safety half of `RouterSynced`.  `StepsLeft` falls
  with every step of a run, also one that skips a router or loses it, so every
  router has its turn; and what a router has been given is not undone by the turn
  of the other.
* `RoutesAreSet` (WgMonitor): `ActiveMeansRouted`, from `PassedRouted`, which
  speaks of the interfaces the unit has passed by now.  `NobodyRestoresRoutes`:
  after that no step gives a table its route back; this is why finding 4 lasts
  until the next boot.  `WatchesEnd`: `ChecksLeft` falls with every step of the
  monitor, also after restarts that fail, the safety half of `Recovers`.
* `OneExitHolds`, `LANStickyHolds`, `FollowsSetsHolds` (MarkPipeline): the
  invariant ties the saved connection mark to the mark of the last packet, and
  that one to the sets, unless the address has moved since or the rules pin the
  connection; a connection that is not open has no mark (`Cleared`).
  `FollowsSetsHolds` so gives the mark of every packet of a client or of the host:
  that of the sets, and with the address in none that of the last packet, or no
  mark for the first.

Left to TLC are the liveness properties `CallsReturn`, `EventuallySaved`,
`ListsConverge`, `MessagesHandled`, `Recovers` and `RouterSynced`: their proofs
need fairness and ENABLED, which are out of the proof system's reach.  What each
needs besides is proved: that nothing asked for is forgotten (`NoJSONRequestLost`
for `EventuallySaved`, `NoneDisappears` for `MessagesHandled`), that runs get
nearer to their end and keep what they have reached (`RunsEnd`, `RoutersApart`,
`WatchesEnd`, `ReloadsSettle`).  The five properties of section 5 and those that
follow them there are refuted by TLC; `SavedKept`, `NeverOnBothLists`,
`NobodyRestoresRoutes` and `NothingIsFound` say what holds in their place, or why
nothing does.

## 5. Findings

1. *History is not durable* (`SaverDurability`).  README.md:86 says `map.json`
   "keeps historic domain→IP mappings".  A process that starts while the file is
   torn, or cannot read it, starts with an empty map and writes that over the
   file at its next save.
2. *The bot's label is not the route* (`StatusTellsRoute`).  `[nl🇳🇱]` means
   "через Амстердам" (bot.go:452); `getIPRouteStatus` tests `nl_proxy` first,
   while `rules.v4` lets `usa_proxy` override it.  An address gets into both
   sets when a request that was under way during a move installs it.
3. *A move does not take effect on all addresses* (`MoveTakesEffect`).
   README.md:84 says the commands "apply ipset changes immediately".  Addresses
   not yet in `map.json`, or installed by requests under way, stay behind.
4. *Restored without a route* (`WgRestored`).  The restart that "restores" a
   tunnel (wg-monitor.sh:68) removes the default route of its table, which only
   the oneshot unit sets; README.md:52 says marked traffic goes through it.
5. *Nothing is found in this commit's log* (`RecordsFound`).  log_parser.go:94 and
   107 say it looks for a DNS query and for an A record.  Its patterns (83, 84) want
   the name right behind "для домена", with no type before it, and an address right
   behind "A запись"; main.go:364 writes the type, main.go:436 the record's name
   first.  The parser finds nothing and reports success.

`PROJECT.json` quotes for each the line the code disagrees with.

The modules define more properties of this kind, which no standing run checks.
Each names the sentence it is about, and TLC refutes it when it is put in a
configuration:

* `AutoIncrement` (WgProvision): two runs at a time read one index, and one that
  finds the file truncated starts again after 0.
* `RecordOfDomain` (LogParser): an address is credited to the name logged last.
* `CopyTakesHold` (MapRecovery): the running service, which reads `map.json` only
  when it starts, writes its own memory over the copied file.
* `ErrorMeansNot` (BotAuth): the flag is set before the insert that fails.
* `EveryNameLogged` (BotAuth, with two handlers): a handler that finds the
  database locked drops its row.
* `RUShowsRU` (BotDisplay): an address installed between choice and label is shown
  by `/ru` with a tunnel's label.
* `CommandAnswered` (BotDisplay): a list of patterns is sent in one message, which
  Telegram refuses when it is too long.
* `MarkFollowsSet` (MarkPipeline): a LAN's connection keeps the mark it was opened
  with, which is restored after the rules that look at the sets.

One more behaviour is worth knowing and contradicts no sentence: a client's
connection that is open when `/remove_*` takes its address out of the sets keeps its
tunnel until it closes, for rules 10, 13 and 30 restore its mark and none clears it.
`FollowsSets` states it as what the rules do.

## 6. Not modelled

* `ct-failed.go`: nothing calls it; `/conn` uses a stub in `bot.go` instead.
* Replies, and the static `nat` and `filter` tables of `rules.v4`: they keep no
  state that anything here changes.
* `/help`, `/conn`, `/log`: see the abstractions.
* The configuration and deployment scripts, which are straight-line copies run by
  hand, the gateways' static configuration, and the vendored libraries.

What could be added: edits of the pattern files by hand beside those of the bot.
