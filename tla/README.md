# A verification project for IoT-Sample

TLA+ specifications of the firmware in `src/` (an STM32L475 board with an
eS-WiFi module, FreeRTOS, a USB console and an MQTT client), the TLC
configurations that check them on small instances, and TLAPS proofs of their
safety properties for every value of their constants.

| module | models | checked by | proofs |
| --- | --- | --- | --- |
| `UsbConsole` | the console device `dvUsb1.c` and the CDC interrupts | `MCUsbConsole`, `UsbMutexRace`, `UsbBufferReleased` | `UsbConsoleProofs` |
| `ConfigRegister` | what a configuration store promises (abstract) | implemented by `ConfigStore` | `ConfigStoreProofs` |
| `ConfigStore` | the record in flash: `UserConfig.cpp`, `dvStorage.c` | `MCConfigStore`, `ConfigTornRecord` | `ConfigStoreProofs` |
| `I2cBus` | the bus arbiter `busArbitrator-I2C.c` | `MCI2cBus`, `I2cUnrequestedRead` | `I2cBusProofs` |
| `SecureSockets` | the socket pool and the WiFi semaphore | `MCSecureSockets`, `SocketCallsReturn`, `SocketMemoryLost` | `SecureSocketsProofs`, `SocketPoolProofs` |
| `SocketPool` | what the socket calls promise (abstract) | implemented by `SecureSockets`, by proof | `SocketPoolProofs` |
| `MqttClient` | the MQTT library and its buffer pool, as the agent drives them | extended by `MqttAgent` | `MqttAgentProofs` |
| `MqttAgent` | callers, queue, agent task and notifications of `aws_mqtt_agent.c` | `MCMqttAgent` | `MqttAgentProofs`, `MqttCapacityProofs` |
| `MqttCalls` | what the agent promises its callers (abstract) | implemented by `MqttAgent` | `MqttAgentProofs` |
| `WifiStation` | the station object, its lazy initialisation, the `WIFI_*` calls | extended by `Application` | `ApplicationProofs` |
| `Dialog` | the command thread and the host that types and sends texts | extended by `Application` | `ApplicationProofs` |
| `Application` | the threads around station and dialog | `MCApplication` | `ApplicationProofs` |

An `MC...` module only extends its specification and gives the small instance;
the `.cfg` files of a component share it. A definition commented "Mutant" is a
wrong variant of the action next to it. No specification uses one: each is a
plausible bug that a named property is able to catch, listed in `PROJECT.json`.

To check: `tlc -config MCI2cBus.cfg MCI2cBus`; to prove: `tlapm I2cBusProofs.tla`.

## 1. The system

Threads and interrupts that exist in the firmware (preemptive scheduling, no
time slicing, ticks of 1 ms, `configASSERT` disables interrupts and loops):

| task | priority | what it does |
| --- | --- | --- |
| CommandInterface | 4 | reads the console, parses commands, stores the configuration |
| ResponseInterface | 3 | answers commands, prints status and sensor values |
| CloudInterface | 3 | connects WiFi and MQTT, reads the sensors, publishes |
| Logging task | 6 | prints queued log messages |
| MQTT agent | idle | the only user of sockets in the shipped firmware |
| interrupts | - | USB (14), I2C and its DMA (14), SPI and data-ready of the WiFi module (13) |

### Inventory

State, operations, interactions, what is hard, what makes it correct.

* **USB console** (`HAL-Extension/Src/dvUsb1.c`, `usbd_cdc_if.c`,
  `usbd_cdc.c`, `stm32l4xx_it.c`). State: a lazily created mutex, the task the
  transmit interrupt notifies, the one receive buffer. Operations: `write`
  (zero copy, blocks for the transfer), `read`, the completion interrupts, bus
  reset and enumeration. Called through stdio by three tasks. Hard: the lazy
  initialisation, a timeout racing the completion, enumeration at any moment.
  Correct: writers exclude each other, success means sent, no completion and no
  line is lost, every write returns.
* **Configuration store** (`Application/Src/UserConfig.cpp`,
  `HAL-Extension/Src/dvStorage.c`). State: one record in flash, the device's
  position, a copy in RAM made at boot. Operations: seven setters, each load,
  edit, erase, program. Written through stdio, which cuts the record into device
  writes. Hard: resets and failures between any two steps. Correct: a setter
  changes its field and nothing else, or reports failure; no row is programmed
  twice; what is loaded is a record.
* **I2C arbiter** (`HAL-Extension/Src/busArbitrator-I2C.c`). State: a mutex, a
  task to notify for each direction. Operations: `BA_I2C_read`, `BA_I2C_write`,
  the completion callbacks. Clients: the sensor drivers. Hard: late completions
  after a timeout. Correct: a wait ends with its own transfer, the callbacks'
  assertions hold, what is read was asked for.
* **Secure sockets and the WiFi semaphore** (`Network/Src/aws_secure_sockets.c`,
  parts of `aws_wifi.c`, `es_wifi.c`, `aws/tls/aws_tls.c`). State: the pool
  `xSockets`, TLS contexts, one semaphore, the module's selected socket and
  connections. Operations: the `SOCKETS_*` calls, TLS over them, and
  `SOCKETS_Init` with `WIFI_Reset` when the module fails. Callers: MQTT agent,
  `WiFiClient`. Hard: select-then-act commands, a reset under other tasks'
  sockets, memory ownership. Correct: a command acts on its caller's socket,
  sockets and connections are not shared, memory is freed once, calls return.
* **Command interface** (`Application/Src/CommandInterface.cpp`). State: a line
  buffer and PEM buffers. Operations: parse a line, execute it (store a value,
  read a PEM text, reset), send the answer's number to a queue of 5. Hard: stale
  line after a failed read, full queue, texts that do not fit. Correct: no line of a
  text is executed, a stored text is the one received.
* **Response interface** (`Application/Src/ResponseInterface.cpp`). State: the
  queue it serves. Operations: one printed answer per message. Reads the WiFi
  station of the cloud thread and the configuration. Correct: no use of the
  network before it exists.
* **Cloud interface** (`Application/Src/CloudInterface.cpp`). State: the MQTT
  handle. Runs once: connect WiFi and MQTT, publish the sensor values ten times,
  disconnect. Calls WiFi station, MQTT agent and sensor drivers. Hard: partial
  failure of the chain WiFi - credentials - MQTT. Correct: no step over one that
  failed.
* **Start-up** (`Startup/Src/StartApplication.cpp`,
  `Network/aws/utils/aws_system_init.c`). Creates the threads in order; the
  middleware is started later, by the station's first `init`.
* **Logging task** (`HAL-Extension/Src/aws_logging_task_dynamic_buffers.c`). State: a
  queue of 15 pointers. Operations: format and queue, dequeue, print, free. Hard:
  full queue, exhausted heap. Correct: each message freed once.
* **System calls** (`HAL-Extension/Src/syscalls.c`, `sysdbg.c`). A device
  table; sequential.
* **Sensor drivers** (`hts221.cpp`, `lps22hb.cpp`). Clients of the arbiter;
  16-bit interpolation of calibration values.
* **WiFi station and client** (`Network/enl/*.cpp`). State: status, lazy
  initialisation, an object shared by two tasks. Hard: initialising twice.
* **SPI transport** (`Network/Src/es_wifi_io.c`, `wifi.c`). State: semaphores
  given by interrupts. Operations: command and response phases paced by the
  data-ready line. Hard: timeouts racing callbacks.
* **MQTT agent, library and buffer pool** (`Network/aws/mqtt/*`,
  `Network/Src/aws_bufferpool_static_thread_safe.c`). State: a command queue, the
  connections, the operations waiting for an acknowledgement, a pool of buffers.
  Hard: callers that give up, a broken connection with commands waiting.
* **PKCS#11 and its storage, crypto helpers, provisioning demo, hello-world
  demo** (`Network/aws/pkcs11`, `aws_pkcs11_pal.c`, `aws_crypto.c`, ...). Adapted
  from Amazon FreeRTOS.
* **Heap wrapper, on-target tests.** Thin or tests.
* **Third party and generated**: FreeRTOS, mbedTLS, STM32 HAL and USB
  middleware, STM32CubeMX start-up code.

What is hard to test in each of these is listed with its line in
`PROJECT.json` under "hazards", with the property that covers it or the reason
why none does yet. Smaller ones, not listed there: the message number
that several tasks increment (`aws_logging_task_dynamic_buffers.c:180`), the status
a scan leaves without WiFi (`WiFiStation.cpp:447`), the limit of 30000 ms that the
comment allows and the test refuses (`aws_secure_sockets.c:1097`), the query that
reports success without settings (`aws_secure_sockets.c:1220`), and the unprotected
test in `BA_I2C_init` (`busArbitrator-I2C.c:76`), whose two callers run one after
the other.

## 2. The models

Conventions of all modules. A task's position in the code is `pc`; each action
runs from one point where another task or an interrupt may intervene to the
next; a critical section is one action. Time is not counted: a wait with a limit
may end, by its timeout, in any state in which what it waits for is not there,
which covers every value of the timeout. Variables marked "history" record the past
for the properties and guard no action.

### UsbConsole

`CallWrite` ... `Give` are the steps of `usb1_write_r`: the test of
`initWrite`, its setting, the creation of the mutex, reading the handle, the take,
the critical section with `CDC_Transmit_FS` (`Arm`, `Transmit`), the wait, the
give. A mutex is named by the task that created it, so that two creations can be
told apart, and `lockRef` keeps the handle a task passed to the kernel while the
global may change. `Runs` is the scheduler: a writer steps only while no ready
writer has a higher priority (without it the race could happen in orders the
board does not produce). `BeginRead` and `EndRead` are `usb1_read_r`. `TxComplete`,
`RxMessage`, `UsbReset` and `Configure` are what the interrupt may see. `Give`
models the kernel's checks: a mutex that does not exist or belongs to another task
fails an assertion and sets `halted`; a free one is refused.

### ConfigStore and ConfigRegister

The record is a sequence of rows (64-bit double words). Row 1 holds the table size
and version, each other row bytes of one field. `StartSet` is a setter's load and
edit, `Open` ... `Close` follow `SetConfig` through `fopen`, stdio's device writes, the
erase and program loops of `storage_write_r`, `ferror` and `fclose`. `ChunkEnd` says
how stdio cuts the record. `EraseFails`, `ProgramFails` and `OpenFails` are the
error paths. `Restart` is a reset or a loss of power in any state: the row or page
the controller was working on is left in any state, and `GetConfig` of the next
boot loads what it finds. A row that is erased or half programmed reads as `Garbage`, which is none of the values a
setter writes (`StoreAssumption`): whether a content is known then depends on what
was stored and not on what the damage happens to look like.

`ConfigRegister` states the promise without rows, pages and stdio: a content, an
update in progress, the copy loaded at boot. `ConfigStore` implements it under
`content <- Loaded(flash)`, `pending <- {modify}` while a store runs,
`loaded <- config`.

### I2cBus

`Call`, `Acquire`, `TakeTimeout`, `ArmTx`, the two ends of the transmit wait, for a
read `ArmRx` and the two ends of the receive wait, `Give`. `Start` is the HAL's
acceptance or refusal of a transfer. `TxCpltCallback` and `RxCpltCallback` assert
that there is a task to notify, as the code does. `TransferError` is the end of a
transfer without a callback (the firmware defines no error callback). A notification
from elsewhere (`OtherNotification`) may be pending when a call starts, because the
MQTT agent leaves its answers in the same notification value.

### SecureSockets

`Socket`, `Claim`, `Skip`, `NoneFree`, `Prepare` are `SOCKETS_Socket` with the search of
`prvGetFreeSocket`, one critical section per socket. `Connect`, `Transfer`, `RequireTls`,
`Shutdown`, `Close` begin with `prvIsValidSocket` (`Accept`). A call takes the semaphore
(`Acquire`, `TakeTimeout`), selects the socket on the module (`Select`, which may
fail) and acts on *the selected one* (`ActConnect`, `ActTransfer`, `ActStop`). After a
failed command of kind "io", `GiveTransfer` goes on to `WIFI_Reset` (`ActReset`), then
`SOCKETS_Init` (`Clear`, `Mark` for each socket, which are not atomic in the
code). `Done` returns a network call to its caller, TLS included: `TlsInit`,
`Flight`, `FinishHandshake`, and the goodbye of `TLS_Cleanup` on close. The state of
a TLS context is "null", "live", "ready" (handshake done) or "freed"; the code
keeps a pointer after freeing, and so does `ctx`.

History: `up` (its connect succeeded and no reset since), `stale` (a reset freed the
socket behind the handle), `past` ("none", then "reset" after the first reset, then
"crossed" as soon as a stale handle is used on a socket that another task owns now).
The properties about ownership hold until "crossed": no code checks for stale
handles after that, because an index has no generation.

`SocketPool` is the promise without handles, semaphore, commands and failures: of
each socket its owner, whether its owner was told of a connection, and whether it
owns a TLS context. `SecureSockets` implements it under `owner <- PoolOwner` (the
tasks that hold the socket and from which no reset took it), `connected <-
PoolConnected`, `memory <- PoolMemory` (`SocketPoolProofs`).

### MqttClient, MqttAgent and MqttCalls

`MqttClient` is the context of a connection as the library keeps it: its state, the
packets that wait for an answer (`tx`), the packet being received and the buffers of
the pool. `ResetMQTTContext`, `SendKept`, `ReceiveHeader`, `ReceiveAnswer`,
`ReturnExpired` are the functions that take and return buffers.

`MqttAgent` adds both sides of the agent. A call is `Begin` (an identifier), `ClearState`,
`Enqueue` or `QueueTimeout`, and `Take`, the wait for a notification with its own
identifier, which has no time limit. The agent's task takes a command (`Expired`, `Fail`
and the `Initiate...` actions), then reads each connection (`Receive...`, `Parse...`) and
lets packets expire (`Periodic`). `Notify` is `prvNotifyRequestingTask`: nothing is
written over a pending notification. `Disconnected` is the callback that closes the socket
and tells all waiting tasks; `Lose` and `Hangup` are the library's ways to it. The
agent's task has the idle priority and each caller a higher one, so a handler of it is
one action that runs while every caller is blocked (`Ready`). The broker is outside: it
sends any packet at any time, in any number of pieces.

A task's notification is also what I2C transfers arrive in. A transfer that outlived
its call (`due`) may notify a task at any time (`LateTransfer`). Over an
answer that is not read yet it changes the status bit of that answer: this is a defect of
the design that the model records (`misled`) and stops at. Identifiers are reused, but not
while a call with the same one is open (they have 16 bits). Callers keep the contract
of `aws_mqtt_agent.h:219-221`: the owner deletes a connection after it was closed. The
firmware's `cloudDisconnect` ignores the result of the disconnect and deletes anyway
(`CloudInterface.cpp:234-235`), which the model does not follow.

`MqttCalls` is the promise without queue, identifiers, buffers and notifications: a call
is asked, sent, answered once with yes or no, and returns; a sent request is answered no
when its link goes down; yes is the broker's answer. `MqttAgent` implements it under
`call <- calls`, `for <- at`, `link <- xConnectionState`, where `calls` says in which of the
places (queue, waiting tasks, notification) a call is.

### WifiStation, Dialog and Application

`WifiStation` is `WiFiStation.cpp` step by step for each thread: the unguarded test in
`init` (`TestStatus`), `SYSTEM_Init` (`InitPools`, `CreateAgent`), `WIFI_On` (the test of the
flag, the reset of the module's structure, the creation of the semaphore, its give,
the flag and the registration of the bus functions, `TestInitDone` to `RegisterBusIO`,
with other threads free to come between any two; then `StartModule`, without the
semaphore), then the operation's `WIFI_*` calls, each with the semaphore around the module
(`TakeSemaphore`, `GiveUp` after 60 s, `GiveSemaphore`). Three things set `halted`:
the kernel's assertion on a semaphore that does not exist (`NoSemaphore`), its assertion
that who gives a mutex holds it (`GiveNew`, when another thread has taken the new one), and a
command while the bus functions are NULL (`CommandFaults`; `WIFI_GetNetworkSettings` and
`WIFI_GetFirmwareVersion` only copy memory). The five pointers of
`ES_WIFI_RegisterBusIO` are one step: a command that finds some of them faults, or finds
all in time, like one before or after that step. `WriteStatus` follows the code:
`disconnect` reports "disconnected" although `WIFI_Disconnect` failed. History: `suspect`
(`WIFI_On` has failed, or an init began during another one).

`Dialog` is the command thread with the host at the other end. The host types commands
and, after `cert` (the code for the key is the same), a text of lines and an empty line,
without waiting for answers. `TakeLine`, `ReadLongLine` and `ReadEndOfText` are the loop of
`RxPEMObject`. A line that does not fit drops the text, and what follows is read as
commands. Lines that fill the buffer exactly end the loop: the text is stored without its
terminator, and what follows, an empty line or the rest of a longer text, is read as
commands. History: `kept`, of the text stored last, its terminator, whether it fills the
buffer, and whether it is as long as what the host had sent. After a read of no bytes the C library's stream reports the end of the file
for good (`eof`) and the old line is executed again. The thread's priority is above that of
the two others: executing a line and queueing the answer is one step unless the
queue is full (`Enqueue`, which drops the answer).

`Application` adds the response thread (`Dequeue`, `AskStation`, `Prompt`), the cloud thread
(`Join` ... `Left`, each over a call that may fail) and the agent's socket calls
(`AgentUsesSocket`), which hold the same semaphore. `Restart` is the command `reset`.

## 3. The runs

| run | states | shows |
| --- | --- | --- |
| `usb_console` | 182,578 | `Exclusive`, `HangsOnlyIfRaced`: only the race through the lazy initialisation breaks the exclusion of the writers. `SuccessMeansSent`, `CompletionWakes`: timeouts and completions do not get mixed up. `RxWakes`, `LostOnlyByEnumeration`: the reader. `WriteReturns`: liveness |
| `usb_mutex_race` | violation of `GivenByHolder` | finding 1 |
| `usb_buffer_released` | violation of `BufferHeldInFlight` | finding 2 |
| `config_store` | 336,833 | `NoOverwrite`, `SuccessStored`, the refinement `ImplementsRegister`, `SetReturns` |
| `config_torn_record` | violation of `KnownState` | finding 3 |
| `i2c_bus` | 22,304 | `NoAssertFails`, `NotifiedMeansDone`, `DoneMeansNotified`, `CallReturns` |
| `i2c_unrequested_read` | violation of `ReadsWhatItAsked` | finding 4 |
| `secure_sockets` | 7,443,246 | `ActsOnItsSocket`, `OneOwner`, `OwnConnection`, `NoDanglingPointer`, `FreeOwnsNothing` |
| `socket_calls_return` | 46,914 | `CallReturns` |
| `socket_memory_lost` | violation of `CloseFrees` | finding 5 |
| `mqtt_agent` | 266,037 | `EveryCallIsOwedOneAnswer`: a caller that waits without limit is in exactly one of the places its answer comes from. `SuccessIsTheBrokersGrant`: late, doubled and unasked packets never become a false answer. `WaitingTasksFitPackets`, `BuffersConserved`, `ConnectFindsNoSocket`: the agent's and the library's lists, the pool and the sockets stay in step on every path of failure. The refinement `ImplementsCalls`, `EveryCallReturns` |
| `application` | 729,648 | `ModuleIsSerialised`: only `WIFI_On` meets another user of the module, although nothing guards the creation of the semaphore: a task that could create it again must have given a command before, and one given too early stops the board. `CloudFindsItsServices`: nobody looks at the result of `networkInit`, yet the assertions on agent and semaphore hold. `PoolsResetOnlyIdle`: pools are reset under an open MQTT handle only after a failed or overlapping init. `TextIsTakenAsText`, `StoredTextIsWhole`: what the host sends without waiting; a text that fills its buffer exactly is the exception (section 4). `ThreadsComeBack`: liveness |

### Bounds, and why they are enough

* Console: the two writers the firmware has, at their priorities (6 over 3, where
  the lower one can be preempted anywhere), and the one reader.
* Configuration: four rows on three pages, two fields, two values, a stdio buffer
  of three rows. A field spans a page boundary, a device write ends within the
  record, a short write within a field, and the first device write covers several
  rows: these are the cases the code distinguishes.
* I2C: two tasks, one more than the firmware has, since the arbiter is written for
  several; a third would only wait for the same mutex.
* Sockets: two tasks (the MQTT agent with TLS, a `WiFiClient` without), two
  sockets, one network call per handshake. Two sockets are needed for one task to
  hold the wrong one; with four the search only takes more steps.
  `socket_calls_return` checks liveness with one socket and no TLS, for the
  contention and the time it takes; TLS adds only network calls of the same kind,
  `MaxFlights` of them at most. `socket_memory_lost` needs one task only.
* Agent: two tasks, one that owns the connection and has I2C transfers, one
  connection, a queue of one (full with a single command), two buffers (the pool is
  exhausted by one waiting packet and one being received), two slots, three
  identifiers (they are reused), two pieces per read (a packet, or a part, after one
  that loses the connection). A second connection would have a context of its own and
  share only queue and pool, which the proofs cover for any number.
* Application: the two threads that use the station, a text of at most 2 with lines of
  1 and 2: partial, exactly filling, overflowing and too long texts all occur; a queue of
  one; one publish.

### Fairness, and why the code justifies it

* Console: strong fairness of each writer's steps. A ready task is run once the
  tasks above it block, and those block for the host or for a tick in every
  write. Nothing is assumed of the host, nor of the reader.
* Configuration: weak fairness of the store: the task is never blocked in it.
* I2C: weak fairness of each task's steps; nothing of the devices.
* Sockets: weak fairness of each task's steps, strong fairness of `Expire` (the clock
  ends a `Recv` that keeps polling; time is not in the model) and of the semaphore's
  take before `SOCKETS_Init`, which waits with `portMAX_DELAY`: the semaphore becomes
  free again and again, since other tasks yield after a send and sleep between polls,
  and the kernel gives it to a task that waits. Every other take has a timeout
  and needs no such assumption. Nothing is assumed of the module.
* Agent: weak fairness of each caller's steps. Strong fairness of the agent's steps, since it
  has the idle priority and is ready again and again: callers block in every call. Strong
  fairness of the expiry of all packets of a connection, the passing of time: it excludes only
  runs in which the library looks at the clock for ever and no packet grows old. Nothing
  is assumed of the broker. The socket calls inside a handler are taken to return, which
  `socket_calls_return` checks.
* Application: weak fairness of each of the two threads (equal priority, both ready or
  waiting with a limit) and of the agent's release of the semaphore. Waits for the
  semaphore end after 60 s. Calls of the agent return (`EveryCallReturns`), writes to the
  console return (`WriteReturns`), sensor transfers return (`CallReturns` of the bus).

Deadlock is checked in `MCConfigStore` and the socket runs. The console stops after a
failed assertion, as does the application, the bus does nothing without a mutex, and
the agent's model ends with a changed answer: their configurations say
`CHECK_DEADLOCK FALSE`.

## 4. Findings

1. *Lazy mutex* (`dvUsb1.c:121`). A preempted first writer replaces the mutex that
   a higher writer holds or waits for; the kernel's assertion on the give
   then stops the system. The comment promises support of multiple threads.
2. *Zero copy* (`dvUsb1.c:144`). A write that times out gives its buffer back while
   the driver still sends from it, against lines 109-110.
3. *Torn record* (`UserConfig.cpp:70`). The validity of the record is in the first row
   programmed and its checksum is not used: a store cut off is loaded as valid,
   against lines 57-58.
4. *Unrequested read* (`busArbitrator-I2C.c:132`). The receive phase starts also when
   the request was refused or timed out.
5. *Memory lost* (`aws_secure_sockets.c:1193`). After a reset of the module
   `SOCKETS_Close` refuses the handle and the TLS context is never freed.

Three disagreements without a run of their own:

* The comment near `aws_mqtt_agent.c:600` counts on a wait "bounded by a certain timeout"
  where line 1710 waits with `portMAX_DELAY` (`EveryCallReturns` shows that the wait ends
  all the same).
* A status request (`ResponseInterface.cpp:239`) while the cloud thread is still on its way
  through `WIFI_On` stops the board in three ways: before `aws_wifi.c:184` in the assertion on a
  semaphore that is NULL, between 184 and 187 in the assertion on the owner of the mutex
  that is given, and before 194 in a call of a bus function that is NULL.
* A certificate or key whose lines fill the buffer exactly ends the loop of `RxPEMObject`
  (`CommandInterface.cpp:378`) and is stored without the terminator that line 393 demands
  ("PEM format must be null terminated"). It is stored even if it goes on, as the
  beginning of a longer text, where lines 399 and 415 say "Message is to large, discard".
  `StoredTextIsWhole` has this one exception.

## 5. The proofs

All theorems hold for every value of the constants that satisfies the `ASSUME` of the
module. Each follows the same argument: an inductive invariant `IInv` (in
the sockets' proofs `Inv`) holds initially, every action preserves it, and it implies the
property; temporal logic does the rest. Every invariant and action property that a
run checks, and both refinements, are theorems. Four questions go beyond the runs:

* *How far does a finding reach?* A run refutes a claim with one behaviour; a theorem
  says which behaviours are spared. `FirstWriteAloneSuffices` (finding 1): once the
  first write has created the mutex undisturbed, writers exclude each other and no assertion
  fails, for ever. `OnlyATimeoutReleases` (2): only the timeout gives a buffer back
  in flight. `KnownUnlessCutOff` (3): if no store is cut off, or gives up after it
  began to erase, the record is always one of the known ones. `OnlyRefusedOrLate` (4): only a
  request that was refused or timed out is not sent before the receive phase.
  `CloseFreesUntilAReset` (5): until the module is reset for the first time nothing is lost.
  `HaltsOnlyAtStart`: the status request that stops the board can do so only until the
  cloud thread has registered the bus functions, by its question for the signal strength.
* *Is a lock ever lost?* Each mutex and the WiFi semaphore are given on every path, those of
  the timeouts and refusals included: `MutexNotLost` of console (without the race) and bus,
  `SemaphoreNotLost` of sockets and application.
* *Can a call go round in circles?* Liveness is out of the prover's reach, but the part of it
  that does not need fairness is not: `WritesAdvance`, `CallsAdvance`, `OperationsAdvance` and
  `StoresAdvance` show that every step of a call lowers a measure that nobody else raises,
  so that a call ends if only its task is run. With the fairness of section 3 that is what
  the liveness runs check on their instance.
* *Are the configured sizes enough?* `QueueSuffices` and `PoolSuffices` below.

* **UsbConsoleProofs** (any writers, any priorities): `TypeCorrect`, `WritersExclude`,
  `NoHangWithoutRace`, `NoFalseSuccess`, `NoLostCompletion`, `ReaderNotStuck`,
  `NoLostLine`. `Exclusive` says nothing of mutexes and is not inductive: `InitInv`
  (who may create one) and `MutexInv` (without a race, whoever is in the section holds
  *the* mutex) are what it rests on; `TransferInv` ties the buffer in flight to its
  owner's fate; `RxInv` says when the endpoint is armed.
  `LineIsStable`: the endpoint is armed under a reader at work on its line only after an
  enumeration. `Settled` says that the mutex exists, is the one all writers use, and that
  nobody is on the way to create another; it is stable, which is the whole of
  `FirstWriteAloneSuffices`.
* **ConfigStoreProofs** (any record, pages, values, way of buffering): `TypeCorrect`,
  `RowsProgrammedOnce`, `SuccessIsComplete`, and `StoreIsRegister`, the refinement of
  `ConfigRegister`. `StoreInv` says that stdio and the device agree on how much is
  written and that the rest is erased but for one row a failure may have torn; with
  it each step is shown to be a step of the register or a stutter. `OldAndNewNeverMix`:
  a step that changes the flash only destroys rows, or leaves rows of the record being
  stored and of no other. `KnownUnlessCutOff` has its condition in the formula
  (`Spec /\ [][~CutOff]_vars`): a reset while the flash is touched, or a store closed
  with an error, is what `CutOff` excludes; streams that do not open, writes cut short and
  resets before the erase remain. `StoresAdvance` orders a store by
  the rows written, then by the steps left until more are.
* **I2cBusProofs** (any tasks): `TypeCorrect`, `AssertionsHold`, `NoForeignCompletion`,
  `NoLostCompletion`. A late completion is the danger: `TransferInv` says that a
  transfer in progress always has a handle to notify, and that in its owner's wait
  owner and handle are the same task; `MutexInv` that nobody else is in the section.
  `MutexNotLost`, `OnlyRefusedOrLate` and `CallsAdvance` rest on the same invariant.
* **SecureSocketsProofs** (any tasks, sockets, handshake lengths): `TypeCorrect`,
  `RightSocket`, `SocketsAreNotShared`, `ConnectionsAreKept`, `NothingIsFreedTwice`,
  `MemoryIsReturned`. `Inv` adds to the
  properties `Control` (which operation belongs to which position, where a task has a
  socket), `Exclusion` (between take and give it holds the semaphore),
  `Connected` (a task with a connection has a socket and is past its connect) and, for
  the memory, `ContextKept` (until "crossed", a socket whose context is freed is being
  closed or not yet prepared), `NeverReset` (while the module was never reset no handle is
  stale) and `Secured` (until then a prepared socket that owns a context requires TLS, so
  that `SOCKETS_Close`, which cleans up only then, has freed it before the stop).
* **SocketPoolProofs** (the same constants): `SemaphoreNotLost`, `SocketsAreNotLost` (while the
  module was never reset an entry in use has a task with its handle), `CloseFreesUntilAReset`, and
  `CallsAreAPool`, the refinement of `SocketPool`. `OwnerAlone` (a task that holds a
  socket no reset took from it is its one owner) is what each step of the pool is traced to; the
  steps that take the semaphore, select, fail or poll are stutters, a pass of `Clear` over a
  socket is `TakeAway`, and the first use of a stale handle on another task's socket is `Cross`,
  after which the pool promises nothing. Being a theorem about every instance the refinement is
  not repeated as a property of a run.
* **MqttAgentProofs** (any tasks, connections, buffers, identifiers, lengths of queue and
  list): `TypeCorrect`, `OwedOneAnswer`, `PacketsFitTasks`, `NoBufferLost`, `NoSocketYet`,
  `SuccessIsGranted`, and `AgentIsTheCall`, the refinement of `MqttCalls`. `CallInv` says
  that open calls have identifiers of their own, that queue, waiting tasks and
  notifications speak of open calls only, and that a waiting call is in one place;
  `PacketInv` that a packet is what its waiting task asked for; `LinkInv` that a
  connection which is up belongs to an owner that knows of it or is about to read so (this is
  why a CONNECT finds no socket); `EarnedInv` that what the broker granted is answered. The
  agent has many handlers, but each step of it has one of six shapes (looking, refusing,
  sending, closing, answering, expiring: `AgentShapes`), and the invariant and the
  refinement are proved shape by shape.
* **MqttCapacityProofs** (the same constants) draws on that invariant. `PacketsAreCalls`: a
  packet without an answer is one waiting call's, of the same operation, connection and
  identifier, so that an acknowledgement always finds whom to tell, and the right one.
  `NothingIsLeftBehind`: a connection without an owner has no socket, packet, waiting task
  or buffer, on every way of losing it; `MQTT_AGENT_Create` hands it out without looking.
  `OwnerInv` says which connections may be open. `QueueSuffices`: each command
  in the queue is a different task's, so a queue with a place for each task is never full
  for one that wants to send. Its hypothesis is met: five places
  (`mqttCOMMAND_QUEUE_LENGTH`, `aws_mqtt_agent.c:61`) and one task that calls the agent. `PoolSuffices`:
  with a buffer for each call that waits and one for each connection to receive in, every
  allocation finds one and only a packet longer than a buffer is dropped; `SlotsInv` counts the packets of a connection. The firmware has
  exactly that number (6 = 1 * (5 + 1), `aws_bufferpool_config.h:37`,
  `aws_mqtt_agent_config_defaults.h:127,134`), which a callback that keeps a received buffer,
  or a keep alive, would exceed: neither is modelled. `MCMqttAgent` takes sizes below both
  bounds on purpose, so that its run meets the failures.
* **ApplicationProofs** (any size of text, queue and session): `TypeCorrect`, `Serialised`,
  `ServicesFound`, `PoolsKept`, `TextTaken`, `TextStoredWhole`. `BeforeWifiOn` and `AfterWifiOn`
  are the two phases of the board: until the bus functions are registered nobody but the
  cloud thread gets past its first command, afterwards nobody creates anything. `InitOnce` says that without a
  failure or an overlap the station stays initialised, `InStep` that host and command
  thread agree on whether a line is text. `HaltsOnlyAtStart` and `SemaphoreNotLost` follow from
  the two phases; `OperationsAdvance` counts the steps left of a station operation, at
  most eighteen.

Only model-checked: liveness (`WriteReturns`, `SetReturns`, `CallReturns` of the bus
and of the sockets, `EveryCallReturns`, `ThreadsComeBack`), which is out of the prover's
reach. Sockets and agent have no measure like the others: a `Recv` polls until the clock ends
it, and an answer of the agent waits for packets to expire,
so that their ends rest on fairness alone.

## 6. What is left out

* Console: the error for a buffer longer than the endpoint's (line 209), ticks, the
  zero-length packet that ends a transfer (part of the completion). A transmission
  without class data is taken to fail without effect.
* Configuration: a stream that could not be opened for reading, the interrupt for
  an ECC error, the controller's lock and error flags (opened and closed within a
  device write).
* I2C: the contents of buffers, and a receive buffer on the stack of a caller that
  timed out; `BA_I2C_init`, after which the model starts; the HAL is external.
* Sockets: server name and certificate (owned and freed with the context),
  `SO_RCVTIMEO` and the other options without effect on the control flow, results
  given to the caller, `GetTransportSettings`. A TLS record is one network call.
* Agent: topics, payloads and lengths (a packet may be longer than a buffer: it is then
  dropped, `ReceiveHeader`), the table of subscription callbacks, callbacks that keep
  a received buffer (`MQTT_AGENT_ReturnBuffer`), the keep alive (its timeout is ignored by
  the agent), a socket error inside `SO_SNDTIMEO`, which cannot fail after the connect.
* Application: the words of a line and the values of settings (their storing is
  `ConfigStore`), copies of the network settings, the operations nobody calls
  (`scanNetworks`, `status`), what is printed.
* The SPI transport, the logging task's queue and the sensors' arithmetic: planned, see
  section 7. `SecureSockets` sees the transport's failures as outcomes of a command.
* The components without a module of section 1. The third-party ones appear through
  what the modelled code sees of them.

## 7. Plan

Done: console, configuration, I2C, sockets, MQTT agent, application, in this order: each is
shared by several tasks, or with interrupts, or with the next boot.

Next, in this order:

1. `EsWifiIo`, the SPI transport of the WiFi module: command and response phases, the
   data-ready line, waits that time out while a transfer goes on.
2. `LoggingTask`: one owner per message. The sensors' arithmetic as operators against
   exact values over bounded inputs.
3. Composition of `MqttAgent` with `SocketPool` (proved of `SecureSockets`), in place
   of handlers that simply succeed or fail: `NothingIsLeftBehind` then speaks of the pool's
   sockets as well.
4. Proofs still wanted: measures for the calls of sockets and agent between two polls, and
   abstract specifications of console and bus (a lock with transfers under it) in the
   manner of `SocketPool`.
