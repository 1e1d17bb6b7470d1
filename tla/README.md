# Verification of the Mango IoT gateway agent

TLA+ models of the gateway agent (a single Go process on a Raspberry Pi that
talks to a cloud platform), the TLC configurations that check them on small
instances, and TLAPS proofs of their safety properties. Everything is
translated from the Go source; the lines each definition stands for are in
`PROJECT.json` under `map`.

## The system

The agent has two connections to the platform that know nothing of each other:

- an **MQTT session** (paho) for telemetry, a retained status, and commands;
- a **terminal link**, a websocket the agent opens itself, over which the
  platform runs shells and moves files.

| Component | Source | State | Operations | Talks to |
|---|---|---|---|---|
| Terminal link | `terminal.go` | `conn`, `connected`, `seq`, `lastSeq` under `a.mu` | dial, read, handshake, heartbeat, send, reconnect | backend; all goroutines that send |
| Terminal sessions | `terminal.go` | `sessions`, one PTY, shell and pump goroutine each | START, DATA, RESIZE, END, pump, `closeAll` | the Reader of the link, the kernel's PTYs |
| File transfer | `terminal.go` | `uploads`, open files, download goroutines | INIT, DATA, END, download, `closeAll` | the Reader of the link, the disk |
| MQTT session and process | `main.go`, `mqtt.go`, `telemetry.go` | `mqttClient` under `mqttMu`, `state.Connected` | connect, `OnConnect`, `OnConnectionLost`, publish with retries, shutdown | paho's goroutines, broker |
| Watchdog | `watchdog.go`, `helpers.go` | `missed` | tick, ask, report, act | `mqttClient`, `state` |
| Configuration and secrets | `main.go`, `config.go`, `secrets.go` | the file, the key, the global `cfg` | start, SIGHUP, `update_config` | every component reads `cfg` |
| OTA update | `commands.go`, `firmware.go` | the binary, its backup, the downloaded file | `update_firmware`, `restart_agent`, end and start of the process | MQTT session, process, systemd |
| Other commands | `commands.go` | none of their own | handlers in paho's goroutine, one after the other | configuration, Modbus, GPIO |
| Modbus | `modbus.go` | `modbusPools`, `modbusCol`, a ticker per device | connect once, poll, decode, collect | telemetry loop, `read_register`, devices |
| Telemetry buffer | `state.go` | a queue and its file | push, pop, persist | nobody: it is never constructed |
| Telemetry | `telemetry.go` | none of its own | a loop that collects and publishes | `modbusCol`, MQTT |
| Health, GPIO, provisioning, signing, scripts | the files of these names | none of their own | serve, write sysfs, register, sign, install | MQTT, disk |

What is hard, by kind (all hazards with their lines are in `PROJECT.json`):

- **Interleaving.** `writeFrame` and `isConnected` use shared pointers outside
  the lock that protects them; handlers look a session up under the lock and
  use it after; pumps delete table entries the Reader may have replaced.
- **Reconnects.** A goroutine may sleep through the end of one connection and
  the beginning of the next (heartbeat loops, downloads), flags and counters of
  one connection meet the next one.
- **Liveness.** One goroutine reads, handles, cleans up and reconnects: what it
  waits for decides whether the agent ever comes back.
- **Outages and shutdown.** paho retries by itself and counts as connected
  while it does; statuses are retried, stored and sent late; a shutdown runs
  beside callbacks that report ONLINE.
- **Crashes.** The configuration, the key file and the binary are replaced in
  several steps, and the process may end between any two; what is started next
  reads what is there.
- **One loop for all devices.** A device that times out holds back the others,
  and values it once gave are still in the collector.

## Modules

`LossyChannel` — the abstract specification of what the link promises of its
messages: numbers are issued one after the other, and a message, once issued,
arrives once or is lost for good. Nothing about goroutines, connections, locks.
`FateIsFinal` is what its user may rely on.

`TerminalLink` — the Reader goroutine (`startTerminalAgent`, `connect`,
`readLoop`, `onConnected`), the heartbeat loops it spawns, and workers (pumps
and downloads, as far as they send). `loop` is where the Reader is; `out[g]` is
the frame goroutine `g` is sending: *ready* after `sendMessage`'s unlock,
*writing* after `writeFrame` has read `a.conn` and before `WriteMessage` has
returned. One action is one critical section, or the stretch between two. The
loop's `BeatChecks` and `BeatSends` are apart because the code unlocks between
its test and `sendMessage`, and a handler's `Reply` is apart from `ReadMessage`
because the pump that the handler has started may send before it. `todo` is what
the Reader's handler has still to do. The socket (arrival, loss, a broken
transport, the panic of gorilla/websocket on concurrent writers) is external. It
implements `LossyChannel` with the refinement mapping `Status`: a number is
*unsent* above `seq`, in *flight* when some goroutine carries it, *arrived* when
it is on a connection's `wire`, and otherwise *lost*.

`TerminalSessions` — `a.sessions`, the shells, the PTY files and the pumps,
beside the Reader. `handleSessionStart`, `handleSessionData` and
`handleSessionEnd` are split where they give up `a.mu`: `Start`/`Spawn`,
`Data`/`WriteReturns`, `End`/`Kill`. `full` says that a PTY takes no more
input, which only the program in the shell can change. `Reused` names the ids
the backend may start again after they have ended; an id outside it is started
once.

`FileTransfer` — `a.uploads` with its open files, the disk as chunks per place,
and download goroutines that outlive the connection they began on. Offsets are
in the handle, so two handles on one file overwrite each other as the operating
system makes them. `spoilt`, `begun`, `cut` and `complete` are history
variables which no action's guard reads.

`GatewayAgent` — the process: `main` from `mqttConnect` to its exit, OnConnect
and OnConnectionLost as goroutines of paho's, the watchdog, and the status
topic with its retained message. `Attempt` is one of `publishStatus`'s three
tries. `isConnected` is two actions (`DogTicks`, `DogAsks` or `DogCrashes`),
one per read of `mqttClient`.

`ConfigStore` — `config.yml`, `.encryption_key` and the two secrets over any
number of lives of the process. `main` is where the start is; `at`, `draft` and
`left` are the three places that rewrite the file (the start, the SIGHUP
reloader, `update_config`), each from its own `Config`. `processConfig` is one
operator, `Process`, with its early returns: the password comes before the
token, and turning is not undone when the second fails. `os.WriteFile` is
`Truncate` and `Write`, so that a crash, a failed write or another writer can
come between them. `newSecretsManager` is three steps for the same reason; it
generates a key whenever the old one cannot be read, also when there is one. The
text of a secret is its value and the key it is sealed with; a secret sealed
and opened with the same key is what it was. `wanted` and `spoilt` are history
variables.

`Installation` — the abstract specification of an update: the binary is replaced
as a whole by an image that was asked for, and the agent runs what is installed.

`FirmwareUpdate` — `execFirmwareUpdate` and `downloadFile` over the ends and
starts of the process. `pc` is where the handler is and `proc` whether the
process is *up*, *leaving* (a SIGTERM is on its way, or main is shutting down)
or *down*. The steps are the code's calls that touch a file: the old backup is
removed, the new one is created and written (`os.WriteFile`, two steps), the
image is renamed. Where the code ignores an error (no backup, a full disk) the
action has a disjunct that goes on. A `Crash` may come between any two. It
implements `Installation`; the mapping is the identity on `installed`,
`running` and `asked`. `asked`, `proven` and `spoilt` are history variables.

`ModbusDecode` — what `readRegister` makes of the bytes of a register, for bytes
of `Base` values, beside what a register means in two's complement. The
conversions are modelled as Go makes them: `int16(b) << 8` puts `b` in the
highest byte, where its highest bit is the sign.

`ModbusPolling` — `runModbusLoop`, the collector, the telemetry loop that reads
it, and `read_register`. `at` is the poller the loop is at and `reg` the
register it reads; `tick` are the tickers that have fired. `Setup` is the
configuration: the registers of each device, with the type and the quantity of
each. It EXTENDS `ModbusDecode` for the answers of `read_register`; what a poll
reads is abstracted to whether there is anything. `Asked` tells the registers
for which there is a request from the coils for which there is none, as their
quantity is not 1 (0 where the configuration has none): these read as a byte 0,
whether the device is there or not.

`MC*` — the instances of these for TLC. `*Proofs` — the theorems.

The modules do not share variables. The link's state enters `TerminalSessions`
and `FileTransfer` as three values (*up*, *broken*, *off*), which is all their
handlers can tell of it: `sendMessage` drops or sends, the Reader reads or
fails. `ConfigStore` and `GatewayAgent` meet in `Connect`: the broker accepts
the configured password, and an agent that presents another ends. What sessions
and files assume of the link (the Reader handles one message at a time,
`closeAll` runs in the Reader between two connections) is what `TerminalLink`
models in full. `FirmwareUpdate`'s `Exit` stands for the shutdown that
`GatewayAgent` models step by step, and its `Start` for the start that
`ConfigStore` does.

## Runs

| Run | Configuration | Question |
|---|---|---|
| `terminal_link` | `TerminalLink.cfg` | Do flags, counters, replay window and heartbeats stay consistent across a reconnect, does what one goroutine sends arrive in its order, and does the link implement `LossyChannel`? |
| `terminal_no_crash` | `TerminalNoCrash.cfg` | Can two goroutines write to a websocket at once? (violated) |
| `terminal_sessions` | `TerminalSessions.cfg` | Do table, shells and pumps agree, do dead sessions leave and closed shells die, and is a lost link noticed unless a PTY is full? |
| `file_transfer` | `FileTransfer.cfg` | Is what is reported as done whole, as far as the code can tell? |
| `download_done` | `DownloadDone.cfg` | Is a download that is done whole? (violated) |
| `gateway_agent` | `GatewayAgent.cfg` | Does a reconnect resubscribe, does the status get to ONLINE and stay so until the signal, does a shutdown end? |
| `first_subscription` | `FirstSubscription.cfg` | Is a settled agent subscribed to its commands? (violated) |
| `watchdog_outage` | `WatchdogOutage.cfg` | Does the watchdog act on an outage? (violated) |
| `config_store` | `ConfigStore.cfg` | Does a secret survive crashes, failed writes, reloads and updates, does something stay sealed, does a start open it, and does the gateway get connected? |
| `firmware_update` | `FirmwareUpdate.cfg` | Is the binary always an image that was asked for, is there a way back, and does a new image get to run? |
| `no_rollback` | `NoRollback.cfg` | Is an image that does not run replaced again? (violated) |
| `modbus_polling` | `ModbusPolling.cfg` | Is every device polled, does a dead one whose registers are all asked for leave the telemetry, do the loops end, is `read_register`'s number right? |

What the violated runs show, each a disagreement between the code and what its
documentation says (quoted in `PROJECT.json`, `findings`):

- `NoCrash`: `writeFrame` unlocks before `WriteMessage`, so a heartbeat and a
  pump can be inside it together; gorilla/websocket panics. The other
  properties of `TerminalLink` are about the runs up to that panic.
- `CompleteMeansWhole`: a download's chunks are dropped while the link is down,
  and its END is sent with "done" when the link is back.
- `SettledMeansSubscribed`: OnConnect of the first connection can run before
  `mqttClient` is set, and then subscribes to nothing.
- `WatchdogCatchesOutage`: paho's `IsConnected` is true while it reconnects.
- `RollsBack`: nothing reads the backup, `auto_rollback` or `rollback_timeout`;
  an image that does not start is started again for ever.

Other behaviour that the models have and a reader may not expect. It is allowed
for in the properties, which say what holds in spite of it:

- A heartbeat loop that sleeps through a reconnect finds `a.connected` true again
  and goes on beside the new one. `HeartbeatsEnd` says that all end with the
  link, not that there is one.
- The frames of two goroutines may change places between the drawing of their
  numbers and the writing, also when both send for one session: the pump is
  started before the Reader sends SESSION_READY, which may so arrive after the
  first output, or with a higher number before it. `SenderOrder` is about one
  goroutine's frames (output and SESSION_END; a download's chunks and END); the
  order of two goroutines' is covered by no property, and what the backend makes
  of it is not in this repository.
- A write to a PTY whose program does not read holds the Reader: while it does,
  a lost link is not noticed (`NoticesUnlessBlocked`).
- A file with one plain secret and one sealed is rewritten with the two swapped,
  at every start (`NeverAllPlain` says that no more than one is opened so).
- A key file that is there but cannot be read is overwritten with a new key, and
  what the old one sealed is lost (`spoilt` in `SecretsAreKept`).
- A dead device with a coil that is not asked for stays in the telemetry for ever
  (`DeadDeviceDropsOut` is about devices without one, `Probed`; `MadeUpIsKept`
  proves that those with one stay).
- A `bool` register of value 1 is reported false, as the code looks at the first,
  high, byte (`DecodedRight`).
- An `update_firmware` before the restart of the one before it makes a backup of
  an image that never ran (`spoilt` in `AWayBack`).

And where the repository's README says something else than the code, without a
run: it speaks of an MD5 checksum (README.md:59, 400; the code computes SHA-256)
and of concurrent polling (README.md:45; one loop polls one device after the
other), and its examples of `set_relay` and `read_register` have the parameters
`pin` and `register` where the code reads `name`.

### Bounds

| Bound | Module | Why it is enough |
|---|---|---|
| `MaxConns` = 2 | link, files | every hazard of a reconnect is between one connection and the next |
| `Beats` = 2, `Workers` = 1 | link | a stale loop beside a new one, and one sender that is no loop; at most as many loops as connections can be started |
| `MaxSeq` = 3 | link | two messages in flight and one that has arrived; at the bound a message is dropped as without a connection |
| `MaxInbound` = 1 | link | a number that is heard on one connection and again on the next |
| `MaxPtys` = 2, two ids | sessions | an id's old pump beside its new shell, or two ids |
| `MaxHandles` = 2, `Length` = 2, two names | files | an id opened again, or two ids in one file; a first and a last chunk |
| `Handlers` = 2 | agent | the first OnConnect, which may find no client, and one of a reconnect that does |
| `MaxFaults` = 2, `MaxKeys` = 3 | configuration | a crash while another crash's, failed read's or failed write's remains are on the disk; each fault costs one key at most, so one can always be made |
| `MaxEdits` = 1, one value or none | configuration | one edit makes a plain secret beside a sealed one; that a secret is lost or of another key shows with one value |
| `MaxMissed` = 1 | agent | one `false` of `isConnected` is enough for the watchdog to act; the counter's bound for every value is proved |
| `MaxCommands` = 3, `MaxFaults` = 2; two images that run, one that does not | update | an update, one that meets its restart, and one by the process after; a failed backup and a crash |
| `SmallSetup`: two devices, `Base` = 2 | Modbus | one device that starves another; a poll in which one register fails; a device with a coil that is not asked for beside one without; every answer of up to four bytes, with and without the sign. The decoding of 8 bit bytes is proved |

Deadlock is checked in all runs but those of four modules: `FileTransfer`, where
the system stops when both connections have been used up; `ConfigStore`, which
stops for good at a file that does not parse; `FirmwareUpdate`, when its
commands are used up or the image does not start; and `ModbusPolling`, when both
loops have ended and no device is there. The other modules have an `Ended` step
for the states in which process or agent has ended.

### Fairness

`Spec` is used for safety alone; `FairSpec` adds weak fairness of the steps that
the Go scheduler, the runtime's timers and the operating system take by
themselves: a runnable goroutine runs, a write and a dial return (there is a
handshake timeout, and a broken TCP connection fails in the end), a sleep ends,
a mutex is handed on. It is weak because each of these stays enabled until it is
taken. There is none on what the environment does as it likes: that the backend
sends, the broker accepts, a link breaks, a shell exits by itself, a program
reads its terminal, or a signal comes. A killed shell dies (SIGKILL), which is
fairness of `ShellExits` restricted to `killed`. In `ConfigStore` the start is
fair because systemd restarts the agent (`Restart=always` in the unit `setup.sh`
writes; its start limit, five in five minutes, is above the starts a connection
needs and is left out), and so are the goroutines that write.

In `FirmwareUpdate` the handler's own steps are fair but the download is not:
`http.Get` has no timeout. The process that is leaving ends once the handler is
idle, since paho's `Disconnect` may wait for a handler. In `ModbusPolling` the
loop is fair (the library's timeout ends a read) and so is each ticker. The end
of the telemetry loop has strong fairness: when the tick and the cancellation
are both ready Go's `select` chooses at random, so the cancellation is not
passed over for ever.

## Proofs

For every value of the constants, from the assumptions named in the modules
(`LinkAssumption`, `SessionAssumption`, `TransferAssumption`,
`AgentAssumption`, `StoreAssumption`, `UpdateAssumption`, `BaseAssumption`,
`PollingAssumption`: bounds are naturals, sets of goroutines are disjoint, the
image first installed runs, a byte has an even number of values, a register has
a type and a quantity, which may be 0):

- `TerminalLinkProofs`: types, `ConnectedMeansAcked`,
  `WindowIsOfThisConnection`, `HeartbeatKeptUp`, `NumbersAreUnique`,
  `SenderOrder`, and `LinkImplementsChannel`, the refinement.
  `ConnectedMeansAcked` is not inductive: it needs that the acknowledgement can
  only be read when the Reader serves the newest connection, that no CONNECT of
  an earlier one is in hand, and that the flag is down outside `readLoop`
  (`LinkInv`). Uniqueness needs that numbers in use have been drawn
  (`NumberInv`) and that a goroutine stamps a message only with none in hand.
  The refinement sorts the steps by what they do to frames (stamp, arrive, lose,
  nothing), each of which is one step of `LossyChannel` or a stutter.
  `SenderOrder` needs the frame in hand: its number is above all that its
  goroutine has delivered, and it is bound for a connection no older than theirs
  (`OrderInv`). `FatesAreFinal` uses the refinement: what `LossyChannel`
  promises its user (`FateIsFinal`: what arrived does not arrive again, what was
  lost is not sent again) holds of the link.
- `TerminalSessionsProofs`: types, `EntriesAreServed` and `ShellsStayReachable`,
  from a strengthening that says what is true of PTYs outside the table: a pump
  past its read has a dead shell or a closed file, a closed file a killed shell,
  an id used once at most one PTY, and nobody else registers an id between
  START's test and its spawn. `NoShellOutlivesTheLink` follows from
  `ShellsStayReachable` and the table being empty between two connections
  (`Emptied`).
- `FileTransferProofs`: types, `UploadsAreOpen`, `CompleteOnItsConnection` and
  `DoneMeansStored`. The strengthening relates a handle's offset to the chunks
  sent (which bounds it by the length), and, while the link of its beginning is
  up, what a download has read to what has arrived. `DoneMeansStored` needs
  `Stored`: while the link is up, an upload whose file no other upload has
  touched has written every chunk the backend has sent, at its place; an upload
  that was cut off has left the table before the link is back.
- `GatewayAgentProofs`: types, which rest on the watchdog acting at its count;
  `CrashesOnlyInShutdown`, which rests on the client being set from
  `mqttConnect`'s return until main's cleanup; `KnownAreSubscribed`, which needs
  that main gives the client up on a closed connection only (`SubscribeInv`);
  and `OnlineWhileWaiting`, which needs that until the signal nothing but ONLINE
  is published or stored, and that nothing stays stored on an open connection
  (`OnlineInv`).
- `ConfigStoreProofs`: types, `SecretsAreKept`, `NeverAllPlain` and
  `SealedIsOpened`. What is in the file is good because what is about to be
  written to it is (`Drafts`, `Loaded`), and what is written there was sealed
  with the key that is in the key file, for nothing is sealed before that file
  is complete (`KeyInv`). `OneWriter` and `Emptied` say that without a `spoilt`
  change the file is half written in one writer's hands only. What
  `processConfig` does to a secret is a lemma (`ProcessForms`). `NeverAllPlain`
  needs that a command's secrets come plain, so that with a key all are sealed,
  and that the start and the reloader write only what they have sealed a secret
  of (`SealInv`, `ProcessSeals`). `SealedIsOpened` needs of `KeyInv` that a
  process without a key is one whose key file holds none, since then nothing in
  the file is sealed; one that could not read the key it has is `spoilt`.
  `TurningIsUndone` is about `processConfig` alone: applied to its own result it
  gives back what it was applied to, which is why a file with one plain secret
  and one sealed never settles.
- `FirmwareUpdateProofs`: types, `AWayBack`, `RestartIsPending` and
  `ImplementsInstallation`. What is about to be renamed is the image of the
  checksum (`Verified`), which was asked for (`Underway`). While the handler is
  at work the binary is the image that runs, and when it comes to the rename the
  backup is of that image, unless that is noted in `spoilt` (`Covered`); what
  runs has run (`RunsProven`). `RestartIsPending` is inductive with the types.
- `ModbusProofs`: types, `DecodedRight` for bytes of any even number of values,
  256 among them, and `GoneStaysGone`. The sign of a register is the sign of its
  first byte (`SignOfTop`), whatever the bytes below it. `DecodingLosesNothing`:
  two full answers decoded to the same integer are the same bytes, for a
  quotient and its remainder are unique (`DigitsUnique`) and so is a signed byte
  (`TopUnique`). `GoneStaysGone`, of devices whose registers are all asked for,
  needs that between two polls the loop holds no answer (`AnswerInv`).
  `MadeUpStays`, of the others, needs that a poll past such a register has a
  value (`MadeUpInv`); it shows why `DeadDeviceDropsOut` leaves them out.

Only model-checked: everything temporal under fairness (`RedialsAfterBreak`,
`HeartbeatsEnd`, `DeadSessionsLeave`, `ClosedShellsDie`, `NoticesUnlessBlocked`,
`DownloadsEnd`, `ReconnectSubscribes`, `GetsOnline`, `ShutdownCompletes`,
`GetsConnected`, `RestartsIntoIt`, `EveryTickIsServed`, `DeadDeviceDropsOut`,
`LoopsEnd`), which the prover does not treat. Every invariant and every
action property of a passing run is proved. `KnownAreSubscribed`,
`NoShellOutlivesTheLink`, `RestartIsPending`, `GoneStaysGone` and `MadeUpStays`
are stated beside their proofs and no run checks them.

## Not modelled

- Cryptography (`protocol.go`, AES in `secrets.go`): a message is genuine or
  ignored.
- The lengths of delays: a timer is a step that may come at any time, so a
  backoff that is never reset is out of sight.
- Descriptors: a socket that is never closed and a PTY master left open are
  listed as hazards and covered by no property.
- The other settings of the configuration: a reload also changes the log level,
  the log file and the interval, and replaces `cfg` while others read it.
- A power loss that undoes what the file system had been told to write: nothing
  in the code calls `fsync`, so which of the writes survive is the file system's
  choice.
- `run_shell` and `set_relay`: they run a command and write a sysfs file, and
  keep no state.
- `TelemetryBuffer`: `newTelemetryBuffer` is called by nothing in the repository,
  so its queue has no states to check.
- What telemetry consists of: the figures of the operating system, and a float
  that is NaN, of which `json.Marshal` makes no telemetry at all (a hazard without
  a property, for a poll's values are abstracted).
- Health, GPIO, provisioning, the scripts: input and output without a state of
  their own.

## Plan

1. `ConfigStore`: the other settings a reload changes, and the goroutines that read
   `cfg` while it is replaced.
2. `ModbusPolling`: a value that cannot be put into JSON, and what is published then.
3. Proofs: an abstract specification of the configuration file, as `Installation`
   is one of the binary.
