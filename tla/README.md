# Verification of the Ridolfi gateway

The program is the firmware of an ESP32 gateway (`src/main`, ESP-IDF 4.4): it
joins a network, recovers the time by SNTP, reads the registers of a controller
over Modbus and publishes them to Google IoT Core over MQTT, with a signed JWT as
the password. This directory holds TLA+ models of its control, the
configurations TLC checks them with, and proofs for TLAPS.

## Inventory

| Part | Source | State | Operations | Talks to |
|---|---|---|---|---|
| Boot | `app_main.c` 535-576 | none of its own | network, time (retried for ever), create `ctrl_tsk` | all |
| Network | `WifiConnect.c` | `s_semph_get_ip_addrs`, `s_active_interfaces`, `wifi_connect` | `fisi_example_connect` (main task); `on_wifi_connect`, `on_wifi_disconnect`, `on_got_ip`, `on_got_ipv6`, `on_eth_event` (event task); `stop` (inside `esp_restart`) | drivers, DHCP and the tcpip thread by events; `ctrl_tsk` and the MQTT handler by `wifi_connect` |
| Time | `fsntp.c` | `time_sync_flag`, the system clock | `sntp_init_time` (main task), `time_sync_notification_cb` (tcpip thread) | SNTP client of lwIP |
| Control task | `app_main.c` 257-441 | `payload_char`, `mqttc` | wait for WiFi, start the session once, then read, publish, sleep | Modbus, MQTT |
| Session start | `mqtt.c`, `gcpjwt.c` | `jwt`, `oBuf`, `mqtt_service_state`, `*mqtt_client`, heap | `mqtt_app_start`, `xgiotc_gen_JWT`, get and set of the state | esp-mqtt, mbedtls, heap |
| Event handler | `app_main.c` 160-237 | none of its own | CONNECTED, DISCONNECTED, ERROR, in the task of a client | session start, `esp_restart` |
| Modbus master | `modbus.c` | `array_modbus` | `master_init`, `request_modbus_info` | esp-modbus |
| base64url | `base64url.c` | none | encode (3 calls in the generator), decode (not called) | |
| Helpers | `utility.c` | none | clock, interval checks, MAC, NVS, GPIO; most are not called | |

What is hard here. The firmware has no lock. `mqtt_app_start` runs in `ctrl_tsk`
and, after every disconnection, in the task of the client that lost its
connection, so several threads may be in it at a time and share `jwt`, `oBuf` and
`mqttc`. Old clients are never destroyed: they reconnect by themselves and go on
writing the one service state. Every allocation and nearly every library call may
fail, and the error paths free by hand. `wifi_connect` is written by the event
task, read by `ctrl_tsk` and by the handler that decides between a new client and
a reboot. The network handlers are live before the semaphore they give exists.
The clock, the flag of the SNTP callback and the timeout are read one after the
other while another thread writes them, and a retry inherits what the last call
left behind. A reboot runs `stop` in the task of whichever client asked for it,
beside the event task that still delivers to the handlers `stop` unregisters, and
beside a second client that may have asked, too.

What makes each part correct:

- session start: each block freed once, on every path; a client is made with the
  token its own start signed; a client that is made gets started;
- service state: it says what the clients are; without WiFi the device reboots;
- network: the boot goes on when every address is there; the flag follows the
  link; a lost link is joined again; no address is lost to the count; `ctrl_tsk` gets
  out of its wait;
- time: the boot goes on only with a set clock, gets out of its loop, and a call
  ends within its timeout;
- telemetry: a payload is one read of the registers, never a mixture; it goes out
  on a client; it goes on while the session is up, whatever Modbus does;
- the device: no token is dated before the clock is set; `esp_restart` always ends
  in a reset, however many tasks call it and whatever events arrive; telemetry
  returns after failures, unless a start that failed left the device silent;
- base64url: the encoding is the standard's bit for bit, and decoding gives
  the bytes back; how much room both need beyond what the header announces is known.

## Modules

| Module | Extends | What it is |
|---|---|---|
| `MqttSession` | | `mqtt_app_start`, `xgiotc_gen_JWT`, `mqtt_event_handler`, the start of `ctrl_tsk`; clients, heap and broker are external |
| `MCMqttSession` | `MqttSession` | the symmetry sets for TLC |
| `MqttSession_proofs` | `MqttSession` | type correctness, the invariant of a serial start, the service state, the refinement |
| `Session` | | abstract: what the session promises to the rest of the device |
| `Fsntp` | | `sntp_init_time`, its callback, the retry loop of `app_main` |
| `Fsntp_proofs` | `Fsntp` | type correctness, the invariant of the time recovery, the refinement |
| `TimeService` | | abstract: what the recovery of the time promises |
| `WifiConnect` | | `start`, `fisi_example_connect`, the handlers and their queue, the wait of `ctrl_tsk` |
| `WifiConnect_proofs` | `WifiConnect` | type correctness, the flag, the joins, the addresses, the refinement |
| `Network` | | abstract: what the network side promises |
| `Shutdown` | | `stop`, `wifi_stop` and `get_example_netif_from_desc`, in every task that calls `esp_restart` |
| `Gateway` | | the device: `app_main`, the event task, `ctrl_tsk` and the clients, over `Network`, `TimeService`, `Control` and `Shutdown` |
| `Gateway_proofs` | `Gateway` | the order of the boot, the teardown |
| `Control` | | abstract: what `ctrl_tsk` does to the rest of the device, over `Session` |
| `Telemetry` | | `ctrl_tsk` from its creation on, `master_init`, `request_modbus_info`, over `Session` |
| `Telemetry_proofs` | `Telemetry` | type correctness, the invariants of the register array and of the handle, the refinement |
| `Base64url` | | `base64url_encode` and `base64url_decode`, by turns of their loops, and the reference by bits |
| `Base64url_proofs` | `Base64url` | the indices and lengths of the encoder, the types and bytes begun of the decoder |
| `Base64url_bits_proofs` | `Base64url_proofs` | what the encoder and the decoder compute, for inputs of every length |

### MqttSession

A step is what a thread does up to its next use of the shared state. Two steps hold
two uses, and their comments say why nothing can tell: `ClientStart` (the test of
`*mqtt_client` and the use behind it) and `HandleDisconnected` (the state is written,
the flag read). A test of `jwt` that only chooses whether to `free` it is part of the
`free`. `pc[t]` is the
place of thread `t`: `ctrl_tsk` (`Ctrl`) or the task of a client. `frame[t]`
holds the locals that outlive a step: the argument `jwtstr`, the key, the
signature read from `oBuf`, the copied password pointer. The heap is a set of
blocks with an owner and a content. A double free and a write through NULL bring
the device down (`Panics`); a use after free goes on with an arbitrary content
and may crash it later (`CorruptionCrash`).

| Action | Code |
|---|---|
| `CtrlStart` | the wait of `ctrl_tsk` and its call of `mqtt_app_start_main` |
| `MallocJwt`, `TestJwt`, `CopyPassword`, `PrintJwt`, `ClientInit`, `ClientStart`, `ReleaseJwt` | `mqtt_app_start`, in order |
| `GenEnter`, `MallocObuf`, `TestObuf`, `Sign`, `Encode`, `WriteJwt`, `FreePk`, `FreeObuf`, `FreeObufOnError` | `xgiotc_gen_JWT`, in order, and its error returns |
| `HandleConnected`, `HandleError`, `HandleDisconnected` | the branches of `mqtt_event_handler` that change state |
| `ConnectSucceeds`, `ConnectFails`, `LoseConnection` | external: the life of an esp-mqtt client and the order of its events |
| `WifiChange`, `Restart`, `CorruptionCrash` | external: the WiFi handlers, the resets |

`overlapped` is a history variable: two threads have been in `mqtt_app_start` at
a time. The properties named `Serial...` are about histories without an overlap;
what an overlap breaks is what the two violation runs show. The service state
properties hold in all histories.

`Session` is what is left when tokens, heap and buffers are hidden. The refinement
mapping reads `life` off the client tasks and `starting` off the program counters.
A client counts as `waiting` from the moment its task runs until the handler hears
CONNECTED, so several steps of the library are stutters. Its `Reset` may come while
a start is under way (a write through NULL), after an overlap (a corrupted heap) or
out of `esp_restart`, and never otherwise.

### Fsntp

One action per shared access of `sntp_init_time`: `ResetClock`, `InitSntp`,
`Delay`, `ReadTime`, `TestFlag`, `TestElapsed` (with the return -2 and the next
call by `app_main`), `TestYear`. `Answer` sets the clock and `Notify` the flag, two
steps, as `settimeofday` and the callback are; an answer taken up before
`sntp_stop` may still notify after it. The clock counts delays of 2 s.
`TimeService` hides all but whether the clock is set and whether the loop is over.

### WifiConnect

The main task runs `StartWifi`, `StartEthernet`, `CreateSemaphore`,
`RegisterShutdown`, `TakeSemaphore`, `Connected`, `CreateCtrl`; `ctrl_tsk` runs
`CtrlStart`; the event task runs `OnWifiConnect`, `OnWifiDisconnect`, `OnEthEvent`
and `HandleAddress` in the order of the queue. `EthernetDown`, `LinkUp`, `LinkDown`,
`JoinFails` and `Address` are the default handlers, the drivers and the tcpip
thread. The interfaces are chosen in `Init` among the constant `Configurations`, and
IPv6 is a constant, as both are settings in the code.

`OnWifiDisconnect` has the three outcomes of its `esp_wifi_connect`: the driver joins;
it has an error, and `ESP_ERROR_CHECK` panics; or it says that it is not started, and the
handler returns without a word. Nothing in this program stops the driver while the handler
is registered, but what the driver answers is not this program's to say, so the third is a
behaviour. The result of the first `esp_wifi_connect`, in `wifi_start`, is ignored. After
either the link stays down, and before the boot is over the main task waits for an address
for ever; that is the one state where the system stops, and why the two runs do not check
deadlock. `refused` is a history variable that remembers it, and `RejoinsUnlessRefused` says
that these are the only link losses nobody answers.

A handler that is given an address before the semaphore is made (they are registered first)
fails the assertion of `xSemaphoreGive`, and the device resets. `EveryAddressCounts` is what
the main task relies on otherwise: what it has taken and can still take covers every
address that was handled.

`Network` hides the queue, the semaphore and the drivers: the call returns once and
only after an address, a panic may come from the call or from a handler, and the
flag moves with the link before and after.

### Shutdown and Gateway

`Shutdown` follows a task through `stop`: the search for the netif (`Look`,
`Compare`), the four handlers (`Unregister`), the driver (`StopDriver`, `Deinit`) and
the netif (`Clear`, `Destroy`); any failed check ends in `Abort`, and all ends in the
place `reset`. The event task is `Begin` and `End` of a handler. External, from
ESP-IDF: the event task holds the mutex of the event loop while a handler runs and
`esp_event_handler_unregister` takes it, unregistering twice is no error, and
`esp_wifi_deinit` fails when it was done before. `Compare` may read a netif that the
other task destroyed meanwhile; every outcome is allowed then.

`Gateway` composes the parts. The state of the device is its own (`boot`) and that of
the four modules it instantiates; the flag `wifi_connect` is shared by `Network`, the
session and the guard of `ctrl_tsk`, and `at` of `Shutdown` begins where the DISCONNECTED
handler of the session enters `esp_restart`. `Control` holds `ctrl_tsk` and, as an
instance of its own, `Session`.

| Action | Code |
|---|---|
| `StartNetwork`, `Connect`, `Recover`, `TimeDone`, `CreateCtrl` | `app_main`, in order; `CreateCtrl` may leave no task, its result is ignored |
| `Panic` | a failed `ESP_ERROR_CHECK` of `app_main` or of `on_wifi_disconnect` |
| `OnWifiConnect`, `OnWifiDisconnect`, `OnGotIp`, `EndHandler` | the handlers, which run only while registered |
| `MasterInit`, `CtrlStart`, `Publish`, `Delay` | `ctrl_tsk`, as `Control` has it; the inside of a round is in `Telemetry` |
| `InStart` | `mqtt_app_start` in any thread, as `Session` has it |
| `ClientConnected`, `ClientLost`, `ClientError`, `ClientDisconnected` | `mqtt_event_handler` in the task of a client |
| `Shutdown` | a step of a client task in `stop` |
| `Reset` | the end of `esp_restart`, of a panic, or of a corrupted heap; all but the clock starts anew, and the clock may be kept or lost |

A start under way may crash the device (a write through NULL), and one that overlapped
another may crash it at any later moment; a publication on a NULL handle may, too. These
are `Crash` of `Control`.

### Telemetry

`pc` is the place of `ctrl_tsk`. A register is reduced to the read it comes from:
none since the boot (`zeros`), an earlier cycle (`old`) or this one (`new`). The
indices are those of the code: `Published` is the list of arguments of the
`sprintf`, `NUM_REG` what the characteristic asks for, `Registers` the array.

Around the task is the session, an instance of `Session`: `WaitWifi` enters its start,
`InStart` are the steps of a start in `ctrl_tsk` or in the task of a client, and
`OnEvent` the events of a client. They come between any two steps of the task. Since
`MqttSession` implements `Session`, what holds here of the state and the handle holds
with every start, overlap and failure it has. `refused` is a history variable: the
handle became NULL while a client had a task. `Publish` on a null handle may bring
the device down, as the library tests nothing.

`Control` is what is left of the task when Modbus, the payload and the place within a
round are hidden: `ctrl` is `publish` from the test of the state to the end of the
publication. It says that there is one start, after WiFi, that a publication follows
a test that found CONNECTED, though the state may have changed meanwhile, and that of
itself the task brings the device down only by `master_init` and by a NULL handle.

That a payload of stale registers, or of zeros before the first good read, is
published with the current time is what the code does, and `PayloadIsOneRead` says
so; nothing in the repository promises otherwise.

### Base64url

A step is a turn of a loop. Characters are their six bits, with `NUL` and `PAD`
beside them. `in[i]` of the code is `in[i+1]` here. Shifts and masks are products
and remainders, and a byte is kept modulo 256. After the encoder the decoder is
given its output, with and without padding. The tables are reduced to the
characters they disagree on: the encode table has '-' and '_' at 62 and 63, for
which the decode table has no value.

Both size macros of `base64url.h` are too small. `BASE64_ENCODE_OUT_SIZE` (line 13) has no
room for the NUL of `base64url.c`:95 if the length is divisible by 3, and
`BASE64_DECODE_OUT_SIZE` (14) is for padded text, while the encoder writes none with padding.
`OnlyNulExceeds` and `DecodesBytes` say exactly when and by how much. Nothing in the
program uses the macros: the locals of the generator that take the encodings are larger
(100 and 600 bytes), and the decoder is not called.

## Runs

| Run | Shows | Bounds |
|---|---|---|
| `session_safety` | a start nobody overlaps is right on all its paths; CONNECTED is never shown without a reason; `Session` is implemented | 2 clients and `ctrl_tsk`: three threads that can meet in the start, all pairs of roles; 3 blocks: one start needs three (a second start beside it then also meets an exhausted heap) |
| `session_live` | WiFi that stays away ends in a reboot | 1 client, no symmetry |
| `session_state` | violation: the state is not the state of the connected client (`mqtt.h`:41) | as `session_safety` |
| `session_token` | violation: the generator succeeds with a buffer that holds no token (`gcpjwt.h`:106, 122) | as `session_safety` |
| `sntp` | clock, flag and timeout in all interleavings; the boot gets out of its loop; `TimeService` is implemented | timeout of 3 polls: a timeout has polls before it, at it and after it; two server times |
| `sntp_timeout` | violation: a call that blocks beyond its timeout (`fsntp.h`:32) | as `sntp` |
| `wifi` | no address is lost to the main task, the flag follows the link, a lost link is joined again unless a join was refused silently, the count of addresses is right, `ctrl_tsk` starts; `Network` is implemented | WiFi alone, as shipped, and both interfaces, with IPv6; queue of 4 events: the two addresses, a loss and a return fit |
| `wifi_ethernet` | violation: with Ethernet `ctrl_tsk` waits for ever (`README.md`:19 of the repository) | Ethernet alone, otherwise as `wifi` |
| `base64` | encoder and decoder against the reference; the room both need, which is more than announced | inputs of 1 to 5 bytes: each remainder of 3, with and without a full group before it; bytes with no bit, all bits and both alternations set |
| `base64_decode` | violation: encoded text that does not decode (`base64url.c`:28) | as `base64` |
| `telemetry` | whole payloads, a handle to publish on, telemetry that goes on; `Control` is implemented | 2 clients: one is replaced, a second replacement finds no room, and both may be in a start, or in `esp_restart`, at a time |
| `gateway` | no token before the clock is set; `stop` takes the netif apart once, with no handler running; `esp_restart` ends in a reset; telemetry returns | 2 clients: both may be in a start, or in `stop`, at a time; any number of resets; no symmetry, because of liveness |

A client that was made is never destroyed, as in the code, so a
run of two clients covers: the first start, a restart beside the old client, and
starts in both client tasks at once. The constant `ClockCap` holds a clock that
was never set, which would otherwise count for ever after a callback has disabled
the timeout.

The violation runs show state shared between clients (`session_state`,
`session_token`), a flag that outlives its call (`sntp_timeout`), a setting the code
forgot (`wifi_ethernet`) and two tables that disagree (`base64_decode`). In `wifi_ethernet` the
specification has fairness, so the counterexample is a device that runs and
waits, not one that stopped.

## Fairness

- `MqttSession`: every thread that can run runs (FreeRTOS, priorities permitting:
  no thread here runs without blocking); a client tries again after its
  reconnection timer and notices a dead link by its keep-alive
  (`~wifi_connect /\ LoseConnection`); a requested reset happens. Nothing is
  assumed of WiFi, of the broker, or that a connection succeeds.
- `Fsntp`: the tasks run, a due callback comes (weak fairness); a server that is
  asked again and again answers some time (strong fairness, because `sntp_stop`
  interrupts the asking).
- `WifiConnect`: the tasks and the event task run, an address that is asked for on
  a link that stays up is given. Links are free; the liveness property assumes
  them to stay up.

- `Telemetry`: `ctrl_tsk` runs, leaves its start of the session, and a reset that was
  asked for happens. A Modbus request times out, and a publish waits only for the lock
  of a client, so each call returns. Nothing is
  assumed of the clients; that the session is up is the hypothesis of
  `TelemetryGoesOn`.
- `Gateway`: `app_main`, the handlers, `ctrl_tsk`, a thread in a start and a due reset go
  on (weak fairness). A start ends: `InStart(t) /\ t \notin starting'` asks that a
  thread leaves it, with or without a client. A client tries its connection until
  the handler hears how it went; that it succeeds is not assumed, and neither is the
  loss of a connection. `TimeDone` is strongly fair, because another attempt may set
  the clock back in between: `BootGetsTime` of `Fsntp` is where it is shown that the
  loop ends. The steps of `stop` are strongly fair, because the mutex it waits for is
  taken and given back with every event. The abstract modules state safety only; what
  `Gateway` assumes to happen in them is argued from the liveness of the detailed
  modules, not checked by the refinements.

The premise of `TelemetryReturns` is that from some time on WiFi stays and no
connection fails or gets lost. Its conclusion has two cases, and each does occur: telemetry
goes out again and again on a connected client, or the device stays `Silent`, with
no `ctrl_tsk`, or with a handle whose client never got a task. The second is what the
ignored results of `mqtt_app_start` (`app_main.c`:248, 182) and of
`xTaskCreatePinnedToCore` (575) cost, and the only way to it.

`Base64url` is sequential and its calls return; its runs check no deadlock.

## Proofs

For every value of the constants, under the assumptions named in the modules:

- `MqttSession_proofs`: `TypeCorrect`, then `Invariance` of `IInv`. The serial
  properties are not inductive: that `FreeObuf` frees an allocated block follows
  only from what the thread did five steps ago. `IInv` therefore says, as long as
  no two starts have overlapped, that at most one thread is in the start
  (`OneStarter`), which blocks that thread owns at each of its places
  (`StartFacts`), and that every allocated block but lost keys is one of them
  (`BlocksOwned`). `HeapSafety`, `NoLeak`, `TokenIsSigned` and `NoOrphan` follow.
  `ConnectedReal` and `SoleClient` rest on a second invariant, `StateInv`, about
  the service state and the place of each client's handler, which needs no
  seriality. `SessionTheorem` is the refinement of `Session`, in all interleavings,
  overlapping starts included. It needs `PromiseInv` beside the two: a write through
  NULL happens inside a start, so that the reset it leads to is one `Session` allows.
- `Fsntp_proofs`: `Invariance` of `IInv`, which ties the locals, the clock and the
  delays waited to each place and bounds the spurious timeouts by the answers
  left to be notified; `TimeIsSet`, `FewSpurious` and `TimeoutUnsynced` follow.
  `ServiceTheorem` is the refinement of `TimeService`; its one real step is that the
  test of the year passes only with a set clock.

- `Telemetry_proofs`: `Invariance` of `IInv`. `ArrayInv` says that the published
  registers of the array come from the latest read at every step, which rests on
  `PublishedCovered` (every index of the payload is below `NUM_REG`) and `FillFacts`
  (what a read does to the array); `HandleInv` follows who may assign the handle: CONNECTED
  is the work of a client with a task, tasks never end, and beside one the handle becomes
  NULL only by a refusal, whichever threads are in a start.
  `OneRead` and `NullOnlyIfRefused` follow. `ControlTheorem` is the refinement of `Control`:
  the steps of a round but two are stutters, those of the session map to themselves.
- `WifiConnect_proofs`: `Invariance` of `IInv`, for every set of configurations and
  every length of the queue. `LinkInv` relates the queue to the link: the last link
  event of the queue, or the flag if there is none, tells the state of the link, and
  a link that is down is being joined, or will be when its event is handled, exactly
  unless a join was refused silently (`RejoinTheorem`).
  `FlagFollowsLink` alone is not inductive, since an event in the middle of the queue
  becomes the last one. `AddressInv` says that whoever counted an address had one, which the
  refinement of `Network` (`NetworkTheorem`) rests on. `AddressTheorem` rests on
  `CountInv`: without a lost link no address comes twice, so the times the semaphore
  was given and taken are different addresses whose events were handled
  (`taken + sem <= Cardinality(Counted)`). `CoverTheorem` is the other direction, with
  links that are lost as well: only the handler of an address adds to `Counted`, and a
  semaphore that refuses it is full, so that it covers all addresses there are.
- `Gateway_proofs`: `Invariance` of `IInv`, for any number of clients. `BootOrder` and
  `NoSessionEarly` give `TokensTheorem`. `TeardownTheorem` needs what a task has done
  at each place of `stop` (`Past`: the handlers it unregistered are gone for good) and
  what it holds (`HolderInv`: while the driver is on, whoever is past the search has found
  the netif; only one task gets past `esp_wifi_deinit`).
- `Base64url_proofs`: `Invariance` ties the number of characters to the turn of the
  encoder; `EncoderRoom` follows for inputs of every length. `TypeCorrect` rests on
  `DecodeInv`: the byte the decoder adds to has been begun, or a padding comes next, at
  which it returns.
- `Base64url_bits_proofs` shows what both functions compute, for inputs of every length.
  The loop of the code is the induction: `EncodeInv` says that after each turn every
  character written is the reference's (`Sextet`, by bits), which `TurnWrites` and
  `RestWrites` show of a full group and of the remainder, over the arithmetic of one group
  (`SextetsOfGroup`). `EncodesTheorem` follows. In the decoder `BytesInv` ties the byte it
  stands at and the bytes begun to the turn, and `ContentInv` says that the bytes before it
  are the input's and that the one begun has the bits of the characters read so far.
  `DecodesTheorem` follows; `RefusesTheorem` adds that an encoding is refused only where it
  has one of the two characters of `base64_decode`, so that all others are given back.

TLC checks the consequences of every `IInv` on the small instances. Only
model-checked: all liveness (`WifiLossReboots`, `BootGetsTime`, `StartsWhenLinksStay`,
`TelemetryGoesOn`, `RestartCompletes`, `TelemetryReturns`), which is out of the prover's
reach.

## Not modelled

- The text of messages, topics, payload and token; logging.
- mbedtls, esp-mqtt, lwIP, drivers: external, by what the code relies on. The
  broker accepts no token that is not well signed; any attempt may fail, that of an expired
  token too.
- `eth_stop`: a device with Ethernet alone never starts a session (`wifi_ethernet`),
  so nothing calls `esp_restart`. With both interfaces it would follow `wifi_stop`;
  that configuration is checked up to the start, and does not ship.
- `example_disconnect`, `master_operation_func`, most of `utility.c`: not called.
- The exhaustion of heap, sockets and tasks by clients that are never destroyed: the
  bound `Client` stands for it, and `Session!Assign` finds no room then.
- An empty input of base64url, for which `i - 1` would wrap: no caller has one.
- Data races on the flags are at the grain of a whole read or write, which the
  32-bit CPU does.

## Plan

Done: the five components with their proofs, the abstract `Network`, `TimeService`,
`Session` and `Control` with the refinements checked and proved, and `Gateway`, which is
composed of them, with its proofs.
