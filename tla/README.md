# A specification of the gateway SDK

TLA+ modules, TLC configurations and TLAPS proofs for the gateway of this
repository: a process in which modules (sensors, filters, cloud connectors)
exchange messages through a broker, configured by a JSON document and updated
over the air through an IoT Hub device twin.

Line numbers are those of the files under `src/`. File names without a directory
are `src/core/src/*.c` and `src/modules/<module>/src/*.c`.

## The system

| Part | State | Operations | Interacts with |
|---|---|---|---|
| Message broker (`broker.c`) | `modules` list and `modules_lock`; per module a SUB socket, `socket_lock`, a worker thread; for thread links the lists `senderThMsg->receivers` and `receiverThMsg->senders`, a queue per link, a lock, a condition and a thread per receiver | `Broker_AddModule`, `RemoveModule`, `AddLink`, `RemoveLink`, `Publish`, `IncRef`, `DecRef`; threads `module_worker` and the receiver thread | called by the gateway and by modules on any thread; calls `Module_Receive` |
| Gateway (`gateway.c`, `gateway_internal.c`) | `modules`, `links`, broker reference count, `runtime_status` | create, start, destroy, add and remove of modules and links, list of modules | the broker, module loaders |
| Creation and update (`gateway_createfromjson.c`) | `deployConfig` and the versions file, library files on disk | `Gateway_CreateFromJson`, `Gateway_UpdateFromJson`, twin callback | the gateway, HTTP downloads, the IoT Hub client's thread |
| BLE module (`ble.c`) and its I/O sequencer (`bleio_seq_linux.c`) | module handle, event thread and GLib loop; the sequencer's state, reference count and instruction vector | `BLE_Create`, `BLE_Receive`, `BLE_Destroy`; connect, read, write and destroy callbacks | the broker (publishes what it reads), GLib, the GATT layer |
| IoT Hub module (`iothub.c`) | a vector of personalities, each a device's name, key, client, broker and module handle | `IotHub_Create`, `Receive`, `Destroy`; message, twin and method callbacks | the broker, the threads of the IoT Hub client library |
| Identity map (`identitymap.c`) | two sorted tables, which do not change | `IdentityMap_Create`, `Start`, `Receive`, `Destroy` | the broker, both sides of the device path |
| SensorTag resolvers (`ticc2541.c`, `ticc2650.c`) | a list of tags; for each the last values and a flag of those held | `Create`, `Receive` | BLE readings in, reports out over the broker |
| Filter module (`filter.c`) and sample filters | a list of filters, a list of tags with a context like the resolvers' | `FILTER_Create`, `FILTER_Receive` | the same; filters are libraries it loads |
| HTTP REST module and server | a listener | start, receive, destroy | the broker, an HTTP library |
| Dynamic library adapter | none | load, find, unload | the loaders |

The hard part is in the first five rows: threads that share lists without a
lock, blocking calls made under a lock, handles freed on one thread and used on
another, updates that fail half-way, waits with and without a time-out. In the
modules on the devices' side it is order: readings of several sensors and tags
mix with each other, with registrations and with what the hub sends. There is
no persistence but the versions file, so crash recovery is not a subject.
`PROJECT.json` lists each such place under "hazards" with the properties that
are about it.

What makes each part correct:

- *broker, default transport*: no worker outlives its data or reads another's
  socket; every call returns and gives the lock back; what is linked stays
  subscribed; one order of messages for everybody, nothing twice;
- *broker, thread transport*: the lists are never walked through a dead pointer;
  no wake-up is lost; every link is a FIFO queue;
- *gateway*: names are unique, links join modules that are there, the broker
  and the registry agree after every call, a failed one included; an update
  that fails leaves things as they were;
- *runtime status*: one update at a time, none when the gateway is freed,
  destruction ends;
- *BLE*: nothing is freed under its users, exit writes come before the end,
  every configured instruction runs, destruction ends;
- *device path*: one client for each device, with a key configured for it; what
  a device says reaches the hub as that device, what the hub says reaches that
  device and nothing else; callbacks and destruction do not meet;
- *reports of readings*: each has every configured sensor once since the last
  report, and they go on as long as the readings do.

## The modules

    MessageBus <--- Broker <-------- Broker_proofs
    LinkQueues <--- ThreadLinks <--- ThreadLinks_proofs
    GatewayGraph <- Gateway <------- Gateway_proofs
                    RuntimeStatus <- RuntimeStatus_proofs
                    BleModule <----- BleModule_proofs
    IdentityMap <-- IotHubModule <-- DevicePath <------ DevicePath_proofs
                    SensorReadings <- SensorReadings_proofs

In the first three lines the arrow on the left is refinement (`INSTANCE ...
WITH`, checked by TLC and proved); the other arrows are `EXTENDS`.
`NumberLemmas` has the facts about numbers that
`Gateway_proofs`, `DevicePath_proofs` and `SensorReadings_proofs` share. `MCx`
gives TLC's instances of `x`.

The parts are specified separately and meet in named assumptions. `Gateway`
carries the routing state that its calls change in the broker (subscriptions,
nodes of thread links, attachment), but no messages: `Broker` and `ThreadLinks`
say what happens to those. An attached module's `Module_Receive` is external to
the broker, except that modules in `Republishers` may publish from it.
`Detach` in `BleModule` and `IotHubModule` is the moment when
`Broker_RemoveModule` has returned. In the modules on the broker's clients'
side the broker is reduced to what `Broker` shows of it: queues in the order of
publication, and a `modules_lock` that a publish for an unknown handle keeps.

### Broker

`modules`, `modulesLock`, `fd`, `socketLock`, `sock`, `subs` and `rcvq` are the
fields named in their comments; `wpc[m]` is the position of m's `module_worker`,
`cpc[c]` that of a caller in `Broker_RemoveModule`. A step is a stretch of code
between two points at which another thread can see something. A call that holds
`modules_lock` from its first to its last access of shared data is one step
(`AddModule`, `AddLink`, `RemoveLink`, `Publish`). `Broker_RemoveModule` blocks
twice with the lock held, on the socket lock and on the join, and is three:
`RemoveModule`, `StopModule`, `JoinModule`. The worker takes its socket lock
(`WorkerLock`), receives, and hands over (`WorkerReceive`, perhaps
`WorkerCallPublish` and `WorkerPublish`, then `WorkerReturn`).
nanomsg is external: PUB sends to every SUB socket and drops what a full one
(`RcvBuf`) cannot take; SUB skips what it is not subscribed to.
With `Faults` the quit message cannot be sent, and the socket is closed at once,
or a message cannot be decoded. With `StrayPublish` somebody publishes for a
module that is not attached. With `JoinFails` `ThreadAPI_Join` fails
(`JoinModuleFails`): `deinit_module` is left out, but the module leaves the list
and its data is freed (605), and a worker that still ran then is "freed". After
that it is followed no further, since what it does is undefined. All three occur
in the code's error paths; the theorems and runs that exclude one of them say so.

`MessageBus` is the promise: one queue per attached module, deliveries one at a
time and in the order of publication, no delivery to a module that is being
removed, no detachment while its `Module_Receive` runs. A queue of `MessageBus`
is a set of messages numbered by publication, of which the first is the one with
the least number: what waits for a module is always in that order, and a set
says so without a recursive operator on sequences.

### ThreadLinks

The walk of the receiver thread over `senders` and over each source's
`receivers` is modelled pointer by pointer (`walk`, `cur`, `lostTail` for
`pre_receive_msg`), since the lists change under it. The calls are split where
they take or release a lock or make a list visible (`call.op`). A thread that
follows a NULL, freed or uninitialised pointer sets `crashed`, and nothing
happens after that. `Init` has the links `InitLinks`, in lists of any order.

The gateway may link a pair twice: `link_data_find` (`gateway_internal.c:895`)
compares '*' with '*' only, so '*' -> k and s -> k, both of the thread type, are
two calls of `Broker_AddLink`, two entries in k's `senders` and two nodes in s's
`receivers` (broker.c:903-971). `Twice` has the pairs for which it may. The walk
stops at the first node that points to its receiver (772), for either entry: what is
put on the second node stays there until the first is removed.
Each allocation of `Broker_AddLink` can fail (`Fails`): the receiver
(`AddLinkNoReceiver`, after which line 903 goes through NULL), the entry in `senders`
(`AddLinkNoSender`: the call goes on and returns `BROKER_OK`), `senderThMsg` or its
lock (`AddLinkUnmade`) and the node (`AddLinkNoNode`), both of which leave the
entry. `Broker_RemoveLink` then finds one end only. Three history variables
tell these cases apart: `linked` counts for each pair the calls that succeeded, as
the gateway does, `doubled` has the pairs added while they were there and
`failed` those of which a call failed part-way.
A removal that finds a node and no entry does not free the node; a walk that
stands on it goes on as if it were still listed, and the model lets it pass
before the removal (`call.at = 0` in `RemoveLinkReceiver`). A publish for
a source that is not attached keeps `modules_lock` (`PublishUnknown`, `call.op =
"kept"`).

`LinkQueues` is the promise: a FIFO queue per node, again as a set of numbers,
so that a pair that is linked twice has two queues. `number` is that of the
message being published, `due` the links it has still to be put on, as
`Broker_Publish` goes from link to link.

### Gateway

`gw` is `GATEWAY_HANDLE_DATA` with the broker's routing state. A call of the API
is one step, with every broker call it makes; the code has no lock for the
registry and calls are taken not to overlap. `Gateway_UpdateFromJson` is one
step per entry, and undoes itself (`UpdateUndone`) when an entry fails.
A module entry may be refused before anything is done (`ModuleEntryRefused`, 431-454) or
fail after its name has been cleared and its version recorded (`ModuleEntryFails`).
A `Broker_AddLink` that fails may leave a `senderThMsg` behind (`BrokerAddFails`), after
which the source publishes to nodes only. Creation from a document downloads
libraries as updates do (`Parse`).
`recorded` and `disk` are the version file and the library files; `deploy` is
whether `gw->deployConfig` still points to a document. `GatewayGraph` is the
promise of `gateway.h`: a graph of named modules and links.
`ListedSources` is what `Gateway_GetModuleList` returns for a module: a fold
over the links to it, for each order they may be in, which the registry does
not keep.

### RuntimeStatus

`runtime_status` is both the turn of the updates and the signal by which
`gateway_destroy_internal` learns that IoT Hub was told. `pc[t]` is the position
of a thread that updates, `main` that of the destruction, `report` the reported
state on its way.

### BleModule

Three threads without a lock: the gateway's (`main`), the worker (`Receive`,
`ReceiveExit`) and the event thread (`loop`), on which callbacks run.
`BLEIO_Seq_Run` is one step per instruction (`run`). `ops` are the operations
below the sequencer, by the instruction they carry out; `refs` is the reference
count. `stale` holds the instructions whose vector element has been moved
by `VECTOR_push_back`. A use of freed or uninitialised memory may or may not set
`crashed`: the build decides. `schedule_read`, `schedule_periodic` and
`schedule_write` are not in the repository and are external: they take a
reference for each operation and give it back at the end.

### IdentityMap, IotHubModule, DevicePath

`IdentityMap` has no variables, since the tables never change: the parsing and
validation of the configuration, the sorted table (entries that compare equal
may be in any order), and `Republished`, the messages `IdentityMap_Receive` may
publish for one. A message is the record of the properties somebody looks at;
its content says who wrote it, so that the ends can be compared.

`IotHubModule` is the sharing of a personality by three kinds of threads.
`receiving` is the worker inside `IotHub_Receive`; making a personality is one
step per call of the client library (`PersonalityCreate`, `SetMessageCallback`,
`SetTwinCallbacks`, `SetContext`, `PushBack`, or `PersonalityDestroy`), since
callbacks run in between. A callback is two steps, the reading of the
personality's strings and the publish (`CallbackProperties`, `CallbackPublish`).
`main` is the gateway's thread, which detaches the module and destroys the
personalities one by one, strings first. Callbacks of the twin and of methods
differ from each other in a property's text only and are one kind.

`DevicePath` links the two both ways, as the samples do, with the devices'
modules on the other side of the map: `Register` is `IdentityMap_Start`,
`Telemetry` a device's module, `MapReceive` the map's worker.

### SensorReadings

One module of a configured kind (a resolver for either chip, or the filter
module with the sample filters) from its creation on. `configured` are the tags
of the configuration, `inUse` those the parsed list still has; `flag` is the
code's flag by sensor, `since` what has been read since the last report, which
the code does not know. `Reading` is one message of the BLE module, handled
completely. `turn` flips with each report, to say "again and again".

## What is checked

`TypeOK` and safety are invariants; action properties are written `[][A]_vars`.
Invariants that belong together are conjoined under a name of their own
(`LinksInv`, `RegistryInv`, `NodesInv`, `LifetimeInv`, `PathInv`,
`ReadingsInv`); the parts stay defined. All passing runs explore their state
space completely, in about three minutes at most.

| Run | Question | Instance |
|---|---|---|
| `broker_safety` | lifetimes, locks, subscriptions, order; the broker implements `MessageBus` | 2 modules linked both ways, 2 callers, one module that republishes, 2 messages, 2 removals, 2 sockets so that a closed number is taken again; no joins that fail |
| `broker_delivery` | do removals end and messages arrive? | as above with 1 caller, stray publishes, faults and joins that fail, nobody that republishes; buffers that hold the quit message |
| `broker_removal_deadlock` | *violated*: `Broker_RemoveModule` against a republishing module | 1 removal, buffers that hold the quit message |
| `thread_links` | pointers, wake-ups, FIFO; do calls return and messages arrive? implements `LinkQueues` | A linked to B and B to itself, B publishing what it receives; 2 messages, links removed and added, A -> B also twice or failing at any step (`Twice`, `Fragile`: that pair only, one failure), 2 additions (`MaxAdd`), 1 module removal, publishes for the removed module |
| `thread_unlink_fanout` | *violated*: a removed link against another sink's walk | 2 sinks of 1 source |
| `gateway_registry` | registry, broker, links and module list after any sequence of calls, failures at every step; implements `GatewayGraph` | 3 names, 3 handles that are used again, 1 update in between |
| `gateway_update` | thread and '*' links, updates that fail at any entry | 4 documents, failing downloads, an out-of-process module |
| `status_updates` | turns of updates, destruction | twin and 2 application threads, 7 updates |
| `ble_module` | lifetimes, exit writes, instructions, destruction | one instruction of each kind of handling, 2 received, another BLE module's loop |
| `device_path` | one client per device, messages to whom they are meant, destruction against callbacks, registration | 2 devices, AMQP and MQTT, a doubled address and a doubled name, 2 callbacks or readings, a removal at any time |
| `iothub_amqp_c2d` | *violated*: what a callback publishes with over AMQP | 1 callback |
| `sensor_readings` | reports complete, fresh and again and again | up to 3 tags in 6 configurations of the three kinds, also unknown characteristics |

Why these bounds suffice to be interesting. A socket number or a handle must be
reused: there are as many of them as modules, and removals allow a second use.
A race of the walk needs two sources or two sinks. Order needs two messages and
two publishers. A queue must be able to be full (`RcvBuf`) and to hold more than
one batch. A device path needs two devices to confuse, and either a second
callback or a reading beside the first callback (`MaxBegun` 2); a client for
each (`MaxPersonalities` 2). In a list of filters the third replaces the second, so
there are three tags. The registry needs a third module for a '*' link to reach, and a
handle that was freed. Every bound is a CONSTANT in a guard (`MaxPublish`,
`MaxAdd`, `MaxRemove`, `MaxUpdates`, `MaxReceived`, `MaxBegun`, `MaxPersonalities`), and nothing else stops the system.
In `thread_links` a source always has its first link from the start, so
`AddLinkNoReceiver`, `AddLinkMake`, `AddLinkReady` and `AddLinkUnmade` are not
reached there: the first link of a source, while a receiver runs, is the race of
`thread_first_link`. The proofs cover them all.
Deadlock checking is off since behaviours end at the bounds; that calls end is
stated as liveness instead. Symmetry is used in safety runs only, over callers,
socket numbers and handles, none of which the code compares but for equality.

### Fairness

Weak fairness of what a scheduler guarantees: a thread that can go on does. In
`Broker` that is each step of a worker and the two blocking steps of a removal;
in `ThreadLinks` the call in progress and each receiver thread, provided the
application does not add and remove links for ever and the condition is not
woken spuriously for ever; in
`RuntimeStatus` each updating thread, the destruction, and the answer of the hub
when it does answer; in `BleModule` the event thread, the loop of
`BLEIO_Seq_Run`, the destruction, and the end of each operation begun below the
sequencer while somebody dispatches; in `DevicePath` the two workers, a callback
that has begun, `Gateway_Start` and `IotHub_Destroy`; in `SensorReadings` the
creation and the periodic readings of each configured sensor, which the BLE
module schedules again after every answer. Elsewhere nobody is obliged to call an API, the
device is not obliged to connect, and locks are not fair: no property needs it.

### Properties with an exception

Where the code does not keep a promise in one case, a property says what holds
besides that case. `EventuallyReceived` excepts a sink that is being
removed and messages that cannot be decoded. `CallsReturnUnlessKept` and
`EventuallyHandled` except the removal of a module whose `Module_Receive` waits
in `Broker_Publish` (`thread_removal_deadlock`), and a `modules_lock` kept by a
publish for a source that is not attached (1191). `EventuallyHandled` also
excepts pairs that were linked twice, whose second node the walk never gets to,
and those of which a call failed part-way. `NoLostWakeup` and `InOrder` except
for a doubled pair what relates its two nodes, and `EndsAgree` for a failed one
the count of entries at the sink. `NoCrashUnless` allows a crash only after a
pair was linked twice or in part (`NoCrash` in `thread_links` shows such crashes).
When one link of a doubled pair is removed, the other's entry still leads the
sink's walk to the node that is freed (1102, after the receiver's lock has been given
back at 1070); two entries splice the one node twice, the second time an empty
queue, and lose the tail; and an entry that a failed call left may outlive
its source. `ListShowsGraph` lets the list fail for a module that has a
link from '*' and one of its own. `RollsBackTheRest`
excepts the modules an update replaced. `DestroyReturnsUnlessOverwritten`
excepts an update that writes over TERMINATED. `OnlyKnownCrashes`,
`ModuleOutlivesUsers` and `SequencerOutlivesUsers` except the wait that is given
up after five seconds, a failed `BLE_Create`, an exit write that a message
brings, and (`early`) a removal before the connection attempt has ended;
`DestroyReturnsUnlessQuitLost` excepts a `g_main_loop_quit` that comes before
`g_main_loop_run`. `OnlyKnownWindows` excepts callbacks over a transport other
than MQTT, callbacks before the personality is complete, and callbacks that
`IotHub_Destroy` or a failed `VECTOR_push_back` waits for; `DestroyReturns` of
`DevicePath` a callback that published for the detached module;
`EventuallyRegistered` a refusal by the client library, and a removal.
`KeepsReporting` lists under `Silent` why a tag may fall silent: a report that
drops the calibration, a filter that reports raw values only, a module that
never reports, a tag that is not in the list, a lock that is kept, a crash.

## Known departures

Each configuration below ends in a counterexample: the code does something other
than a comment or document of the repository says. Those marked *violated* in the table above are
findings of `PROJECT.json`; the others are kept for whoever changes the code.

| Configuration | Property | What the code does |
|---|---|---|
| `broker_removal_deadlock` | `RemovalReturns` | joins the worker (542) with `modules_lock` held, while its `Module_Receive` waits for that lock in `Broker_Publish` (1178); 532 says "thread will eventually stop and be joined" |
| `broker_quit_dropped` | `RemovalReturns` | `nn_send` succeeds (505) though PUB drops the quit message for a full subscriber; the worker stays in `nn_recv` |
| `broker_publish_unknown` | `ModulesLockReleased` | `Broker_Publish` returns at 1191 without `Unlock`, although 1304 says it unlocks |
| `broker_remove_link` | `OnlyLinkedReceived` | the unsubscription announced at 1038 is commented out |
| `broker_self_delivery` | `NoSelfDelivery` | a module linked to itself receives its own messages (`broker.h:102` says it does not) |
| `thread_unlink_fanout` | `NoCrash` | frees (1102) the node another sink's thread stands on: the source's lock at 748 is commented out |
| `thread_three_sources` | `NoCrash` | `pre_receive_msg` becomes NULL (761) behind an empty source and is written through at 760 |
| `thread_first_link` | `NoCrash` | the source is on the receiver's list (919) before its `senderThMsg` exists (927) |
| `thread_removal_deadlock` | `RemovalReturns` | joins the receiver thread (419) with `modules_lock` held, while its `Module_Receive` waits for that lock in `Broker_Publish` |
| `gateway_module_list` | `ListOfAnySource` | a '*' link destroys the vector of sources (119), and pushing another source on it fails the list (107); SRS_GATEWAY_26_014 says NULL is what a '*' gives |
| `gateway_rollback` | `RollsBack` | the replaced module and its links are not brought back (`gateway_createfromjson.c:480` says they are) |
| `gateway_mixed_delivery` | `LinksDeliver` | a '*' link always becomes a default link (770), over which a module with thread links does not publish |
| `gateway_versions` | `InstallsVersions` | the new version is recorded (469) although its download failed, so it is never fetched again |
| `gateway_unstarted` | `StartsModules` | an update never calls `Gateway_StartModule` |
| `gateway_taken_name` | `RefusesTakenNames` | a module of that name is removed and the call goes on (458 says it fails) |
| `gateway_freed_config` | `NoMisread` | `deployConfig` points into a document freed at 580 |
| `status_overwritten` | `DestroyReturns` | an update that ends between the answer and the next look overwrites TERMINATED (588) |
| `status_overwritten` with `Answers = {FALSE}`, `LateChanges = FALSE` | `DestroyReturns` | the wait at 310 has no time-out |
| `ble_sequences` | `SequencesRun` | `nextInst` is set to NULL in the conversion (`ble.c:474`): only the first step runs |
| `ble_destroy` | `DestroyReturns` | a quit before the loop runs is lost, and the join at `ble.c:914` waits for ever |
| `ble_late_read` | `PublishesAttached` | a read that completes after `Broker_RemoveModule` publishes for a module that is not attached, which is the case of `broker_publish_unknown` |
| `iothub_amqp_c2d` | `PublishesWithBroker` | `broker` and `module` are set for MQTT only (611, 632-633), so `iothub.c:424` publishes with uninitialised handles over AMQP and HTTP |
| `sensor_calibration_lost` | `EveryTagReports` | a report clears the calibration too (`resolver/ticc2541/src/ticc2541.c:523`), which is read once: a tag with a pressure sensor reports once |
| the same with `Configurations <- BigTag` | `EveryTagReports` | the loop is left (`resolver/ticc2650/src/ticc2650.c:525`) before the code that publishes, which is inside it |
| the same with `Configurations <- ThreeFilters` | `EveryTagReports` | the walk to the end of the list tests the new element (`filter.c:295`), so a third filter replaces the second |

The last three rows disagree with
`samples/ble_json_gateway/src/readme.md:8, 10, 44`, where both chips' sensors
are read and sent to the hub.

## What is proved

For every value of the constants, by TLAPS. The third column is a
property that a run checks on its instance (the runs' other safety properties
are parts of these) or, for five theorems, what it says in words.

| Module | Theorem | States |
|---|---|---|
| `Broker_proofs` | `TypeCorrect` | `TypeOK` |
| | `NoUseAfterFree` | `InfoOutlivesWorker`, if joins do not fail |
| | `SocketOwnership` | `WorkerOwnsSocket` |
| | `LockReleased` | `ModulesLockReleased`, if nobody publishes for a module that is not attached |
| | `CloseRecvExclusion` | `NoCloseDuringRecv`, if the quit message can be sent |
| | `LinksSubscribed` | `LinkedIsSubscribed` |
| | `ReceivedInOrder` | `OneOrder` |
| | `ImplementsBus` | `BusSpec`: `Broker` refines `MessageBus`, if joins do not fail |
| `ThreadLinks_proofs` | `ListsConsistent` | `LinksInv` |
| | `TakenIsHanded` | `NothingTakenIsDropped` |
| | `NeverCrashes` | `NoCrashUnless`, if the links are a `SafeTopology` |
| | `ImplementsQueues` | `QueueSpec`: `ThreadLinks` refines `LinkQueues` |
| `Gateway_proofs` | `RegistryConsistent` | `RegistryInv` |
| | `NodesFollowLinks` | `NodesInv` |
| | `ImplementsGraph` | `GraphSpec`: `Gateway` refines `GatewayGraph` |
| | `FailedUpdateUndone` | `RollsBackTheRest` |
| | `UnmixedLinksDeliver` | `LinksDeliver`, if links are `UnmixedLinks` |
| | `ListsShowGraph` | `ListShowsGraph` |
| `RuntimeStatus_proofs` | `TypeCorrect`, `UpdatesTakeTurns`, `GatewayFreedAlone` | `TypeOK`, `OneUpdate`, `FreedAlone` |
| | `AnswerSeenUnlessOverwritten` | a wait with the hub's answer there ends at the next look, or `Overwritten` |
| | `OnlyLateChangesOverwrite` | never `Overwritten`, if the twin does not change during the destruction |
| `BleModule_proofs` | `Lifetimes` | `LifetimeInv` |
| | `ExitsBeforeDestroyed` | `ExitWritesFirst` |
| | `CrashesAreKnown` | `OnlyKnownCrashes` |
| `DevicePath_proofs` | `ClientsAreOnePerDevice` | `PathInv` |
| | `MessagesReachTheirDevice` | `RoutesAgree` |
| | `WindowsAreKnown` | `OnlyKnownWindows` |
| | `CreateRefuses` | `Create` fails for the empty table and for incomplete or invalid entries, and for no other |
| | `TablesAreSorted` | a table has the configured entries, in capitals, in the order of their addresses |
| `SensorReadings_proofs` | `ReportsAreFresh` | `ReportsFresh` |
| | `LockKeptAsKnown` | `ReadingsInv` |
| | `FiltersLost` | of any list of filters `Parsed` keeps the first and the last |

Nothing is assumed but the named ASSUMEs of the modules, which TLC evaluates in
the runs: threads, handles and null values differ, bounds are numbers, and what
enumerates inputs has the form the parsers give it (`GatewayAssumption`,
`PathAssumption`, `ConfigurationAssumption`). `LinkAssumption` has each link of
`InitLinks` once; pairs are linked a second time by `Broker_AddLink`, after that.
One says something about the code: `ConfigurationAssumption` has no tag ask for
the calibration, since the parsers set flags for the sensors' names only, and the
calibration has none.

Some theorems have a hypothesis. Seven exclude something that the code does not
survive, and the property fails without it: a `ThreadAPI_Join` that fails for
`NoUseAfterFree` and `ImplementsBus`; stray publishes
for `LockReleased` (`broker_publish_unknown`); for `CloseRecvExclusion` the harsh
close of `stop_module` after a failed send; late changes of the twin for
`OnlyLateChangesOverwrite` (`status_overwritten`); a module with links of both
kinds for `UnmixedLinksDeliver` (`gateway_mixed_delivery`); and for `NeverCrashes`
the races of a walk, by the three parts of `SafeTopology`: two sinks of a source
of which one link comes or goes (`thread_unlink_fanout`), three sources of a sink
(`thread_three_sources`), a source that gets its first link while a receiver
runs (`thread_first_link`).

`UnmixedLinks(S)` lets every name of S be the source of thread links only and
every other name of default links only (a link with an out-of-process end
may be of any type: the code makes it a default one), '*' links to be of the
default type and only where S is empty; that is each module choosing one transport, and a
gateway may have modules of both. In `SafeTopology` a source may have any number
of sinks as long as its links stay as they were at the start; a link that is
added or removed is the only one of its source. A pipeline, a cycle, a sink of
two sources and a fan-out that nobody changes, linked from the start, satisfy it.
`IsConfiguration`, of `CreateRefuses` and `TablesAreSorted`, is the form the
parser of the JSON gives its vector. `ListsConsistent`, `TakenIsHanded` and
`ImplementsQueues` have no hypothesis: pairs that are linked twice, calls that fail
part-way and the races are included, where a crash ends a behaviour, and
until then no list is wrong.

### The invariants

The invariants of whole components were TLC invariants of their runs before they
were proved. In every
module there is a lemma for each action, `NextInv` or its like for all, and a
theorem or lemma that the specification keeps the invariant; the theorems above
follow from that one.

*Broker.* `IInv` joins to typing and `InfoOutlivesWorker` three facts.
`LockInv`: no worker holds `modules_lock`, and a caller inside
`Broker_RemoveModule` does, its module still being in the list; so there
is one removal at a time. `SocketInv`: a closed socket belongs to the module
being joined, and attached modules have different sockets; so a number that
`nn_socket` gives out again belongs to nobody. `RecvInv`: a worker in `nn_recv`
holds its socket lock; so a close under that lock cannot meet it.
`InfoOutlivesWorker` alone is not inductive: that the join is the
only way out needs the lock, and that the worker's socket is its own needs the
other two. `BusInv` adds what the modules see: what is in a socket is in the
order of publication and later than what its module has received (`Ordered`,
`Unseen`), a socket has the quit guid of its own module only (`OwnGuid`), and
every link the callers see is subscribed (`SubscribedInv`). The refinement has
a lemma for each action: `AddModule` is `BusAttach`, a publish or the quit
message a step of the queues, a lock a stutter.

*ThreadLinks.* `ListsInv`: a source has as many nodes for a sink as `linked` says,
all different and none in two lists. `EntriesInv`: the sink has as many entries, but for
the one that the call in progress has made or taken before it comes to the node
(`CallInv`), unless a call for the pair failed part-way. `WalkInv`: a
walk has emptied the queues of the sources it has passed, up to the node it
stands on, which is what `NoLostWakeup` needs when it ends. `NumbersInv` and
`DueInv`: what is on a link not yet reached by the publish in progress is
older than its message, which is what keeps `InOrder` when it is. `BatchInv`:
who sleeps or has ended has nothing in hand. `JoinedIsAwake`, a part of
`LinksInv`: the wake-up for its stop has reached the thread that
`Broker_RemoveModule` joins, which is what the return of the call rests on.
In the refinement a link is a node, and its queue what the node and the sink's
batch hold; a walk's splice is a stutter.
`SafeInv` adds, under `SafeTopology` and while nothing is linked twice or in
part, that the node a walk stands on is still in
its source's list, since nobody removes links of another sink, and that a lost
tail is never written through, since that takes a third source.

*Gateway.* `Sound(g)` is a predicate of a value of the registry: typing, unique
names and handles, link ends, the broker's knowledge, `NodesCovered`. Every call
made inside a step is shown to keep it, with what it does to the names and the
links; the steps are put together from these. `GatewayInv` says that the
registry is sound between steps, `WorkInv` what is known of an update in
progress, `RollInv` that its undo lists name whatever is not in the graph it
found; `RollsBackTheRest` is an action property that follows from `RollInv` at the last
step of the undoing. `DeliverInv` is
the invariant for `UnmixedLinksDeliver`: a module publishes to nodes only if its
name is in S, and each link has the routes of its kind. A link that fails half-way,
in an update or its undoing, leaves routes but no link, which does no harm as
long as its source has no links of the other kind.
`ListsShowGraph` needs no state beyond `Sound`, but the links to a module in
every order: `WalkIs` says that any walk has each link once, and `FoldListed`
what the fold makes of a prefix of it, by induction on the prefix.

*RuntimeStatus.* `TurnInv`: a thread that updates is the one that set UPDATING,
unless the destruction has set TERMINATED meanwhile; `CallersGone` and
`ReportInv` follow the destruction, during which only the hub's thread is left;
its callbacks come one at a time and `IoTHubClient_Destroy` joins it.
`AnswerKept` and `AnswerFinal` are what is left of `DestroyReturns` without
fairness.

*BleModule.* `RefInv` is the heart: the sequencer's count is the number of
operations under way plus one until the module gives its reference back. That
needs `OpsInv` (no instruction is under way twice, and the exit writes only once
`BLE_Destroy` schedules them) and `LifeInv` (which thread can still do what at
each point of the removal). `ExitInv`: an exit write is under way or done.

*DevicePath.* `MakingInv`: the device for which a client is being made has none
among the first `size`; `VectorInv`: nor does any other position beyond. The
worker alone makes clients, and the destruction begins when it has ended, so two
of a device cannot arise although callbacks run in between. For `RoutesAgree`
the messages in the queues are characterised by who can have written them
(`HubMsg`, `MapMsg`): the map drops what it has sent itself. `WindowInv` ties
an unset broker and deleted strings to the steps during which they may be seen.

*SensorReadings.* `HeldInv`: what is held for the next report was read since
the last one, the pressure only together with the calibration, and that only if
it was read. With `TargetIs`, that a message goes to an entry of its tag's
address, each case of `Receive` keeps it.

### Folds and induction

The induction theorems of the library take an operator as a parameter, which the
provers cannot instantiate. `NumberLemmas` has what replaces them:
`InductionOnNat` states induction for the *set* of the numbers that have a
property, and follows from the well-foundedness of `<` alone. A fold of the
community modules chooses a function that satisfies an equation; a proof
about one gives such a function explicitly, so that the choice has a value, and
then shows by induction that the chosen one agrees with it (`FoldListed`,
`FiltersLost`). `OrderExists` shows in the same way that a sorted order exists, so
that `SortedByMac`, the set of them, is never empty and `bsearch` of a sorted
table may be modelled as finding an entry of its key.

### Only model-checked

Every liveness property: fairness and ENABLED are beyond the prover. The
proofs give safety parts of two: `JoinedIsAwake` of `CallsReturnUnlessKept`,
`AnswerSeenUnlessOverwritten` of `DestroyReturnsUnlessOverwritten`. And single inputs
of `IdentityMap`'s `Create` with doubled tables (`MCDevicePath`).

## What is not modelled

- Formats: JSON text, URLs and HTTP, message encoding and properties, the MAC
  and source filters of `BLE_Receive`. They appear as the outcomes they have.
- `gateway_createfromjson.c:409-422`, failures to create the two vectors of the
  undo lists, and allocation failures inside the loop of `Broker_Publish`, which
  spin with the lock held (1202) as long as they last.
- Failures of `ThreadAPI_Create`, of `Lock` and of `Condition_Post`. In `ThreadLinks`
  also a nanomsg worker whose join fails: the receiver thread would go on with
  a freed `BROKER_MODULEINFO`, as `Broker` shows for the worker.
- `Gateway_CreateFromJson` of a document that cannot be parsed: nothing is created.
- The event system (`Gateway_AddEventCallback`): its source is not here.
- Calls of the gateway API that overlap each other or an update: a data race on
  the vectors, without an outcome the code defines.
- The HTTP REST module: `HTTPRESTAPI_Create` opens a listener of an external C++
  library and `Start` opens it again; what that does, and what a request finds
  before the callback is set, is the library's affair. (`httpServer_Create` is
  given the broker, `httprestapi.c:87`, where `httprestserver.cpp:5` declares
  the module's handle.)
- HTTP and AMQP are one transport in `IotHubModule`: both share a transport and
  leave the personality's broker unset.
- The arithmetic of the sensors' values and the text of reports, among it the
  buffer of the sample filters that is one byte short (`ticc2650.c:558`).
- Documents whose modules have no version, the dynamic library adapter, the
  programs of the samples (their filters are modelled).

## Plan

The order is that of importance: what every module depends on first.

1. Done: `Broker`, `ThreadLinks`, `Gateway`, `RuntimeStatus`, `BleModule`, the
   three abstract specifications, and the first theorems.
2. Done: `IdentityMap`, `IotHubModule` and their composition `DevicePath`,
   `SensorReadings`, the module list, and the harder instance of `ThreadLinks`.
   Left: documents without versions, `FILTER_Destroy`.
3. Done: proofs of every invariant and action property of the runs, of the three
   refinements, and of what the folds and the sort of the configuration compute.
   Left: the weakest hypotheses under which `LinksDeliver` and `NoCrash` hold
   (`UnmixedLinks` and `SafeTopology` are sufficient, not necessary).
