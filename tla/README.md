# TuyaOpen: a TLA+ verification of the runtime core and of the IoT client

TuyaOpen is a C SDK for connected devices. An application calls
`tuya_iot_init`/`tuya_iot_start` and then `tuya_iot_yield` in a loop; below it
the *cloud service* pairs the device, activates it, and keeps an MQTT session;
below that the *TAL* (Tuya abstraction layer) provides threads, work queues,
software timers, events and a key-value store over each platform's port.

This directory models the parts whose correctness depends on the order in which
threads, callbacks, failures and power cuts happen. Every definition is
translated from the C source; `PROJECT.json` gives the lines.

## 1. Inventory

| Component | State | Operations | Works with | What is hard | What makes it correct |
|---|---|---|---|---|---|
| Work queue `tal_workqueue.c` over `tuya_queue.c` | bounded list of (cb, data), counting semaphore, worker thread | schedule, schedule_instant, cancel, release, the worker's loop | threads, semaphore; callbacks call it again | a caller stops between the insertion and the post; cancel leaves items in place; release against a running worker | one wake-up per job; nothing lost, doubled or run after cancel; nothing freed under the worker |
| Delayed works `tal_workqueue.c:310-444`, `tal_workq_service.c` | a timer, a work and a queue per DELAYED_WORK_T | init, start, stop, cancel, the timer's callback | timers and work queue | a timer that has fired when cancel is called; cancel matches by callback or data | a cancelled work does not run; a one-shot work runs once; every start comes to something |
| Threads `tal_thread.c` | THRD_MANAGE per thread, a run state, lists of all threads and of threads to delete | create_and_start, delete, the wrapper around a thread's function | every service | a thread frees its own record and those of others | a record is in one place, only finished threads are released, records are reclaimed |
| Software timers `tal_sw_timer.c` | lists of running (sorted) and idle timers, two counters, semaphore, the dispatcher's locals | create, start, stop, trigger, delete, dispatch | clock, callbacks on the timer thread | clock read and post outside the mutex, callbacks outside the mutex, semaphore limited to 2 | lists, flags and counters agree; sorted; the thread never oversleeps |
| Event manager `tal_event.c` | event nodes, each with subscribers and a mutex; free list | publish, subscribe, unsubscribe | every service | lookups without a lock, nodes created by the first publication | subscribers are found, one-time ones called once, emergencies first, lists stable during dispatch |
| IoT client `tuya_iot.c` | state, nextstate, is_activated, binding, token semaphore and result | yield (17 states), start, stop, reconnect, reset, token event, init; `ble_unbind_req` | MQTT, KV store, events, HTTP, BLE | API calls write nextstate from other threads without a lock, the unbinding writes is_activated; each external call can fail; power cuts | activation is durable; no session without activation; no NULL pointer; serving is reached |
| MQTT service `mqtt_service.c`, `mqtt_client_wrapper.c` | is_inited, mqtt_client, is_connected, manual_disconnect; publish_list | init, start, stop, loop, destory, publish_common, PUBACK | IoT client, MATOP, coreMQTT | reports from any thread on an unlocked list; publication at once or by the loop; packet ids, records and the buffer of coreMQTT unlocked as well; lost connections; destory keeps is_inited and leaves no client | a report is published once, told once and told the truth; a freed client is never used |
| MATOP `matop_service.c` | message_list, id_cnt | init, request_async, yield, receivers, destory | MQTT, upgrade timer's thread | ids restart at each connection; unlocked list; callbacks that make requests | an answer reaches its own request; every request settles |
| Network manager `netmgr.c` | connections ordered by priority, active one, status | init, registration, event callback, conn_set | events, drivers' threads | unlocked read-modify-write; a list that is cut while a node is linked; the status that is published | the manager settles on the right connection; subscribers know the current status |
| Wi-Fi connection `netconn_wifi.c` | stat, count, wifi_conn_info, timer, status | open, close, set (SSID, close, reset), work, timer and driver callbacks | network manager, system work queue, timers, driver | four threads move one automaton without a lock | an attempt is watched; close is final; the link comes back |
| OTA, device timers, BLE transfer, LAN, KV store, health, HTTP | see section 6 | | | | |

Left aside: vendored libraries (lvgl, u8g2, lwIP, mbedTLS, micropython, cJSON,
coreHTTP), drivers and boards, applications and examples, build tools.

How they interact. Delayed works are timers whose callbacks schedule on a work
queue: `DelayedWork` composes them, with the queue and the timers each replaced by the
service they are shown to implement. The IoT client opens and closes the MQTT and MATOP services
with its session, which those modules take as steps of the yielding thread. The
Wi-Fi connection runs on the system work queue and on timers and reports to the
network manager, which picks the connection in use and publishes its status.

## 2. Modules

| Module | Models | Abstracts |
|---|---|---|
| `WorkQueue` | the work queue, the bounded queue, one thread's life | a work item is a job; a job's `cb` and `data` are constants |
| `WorkQueueProofs` | theorems about `WorkQueue`, `WorkQueueService`, `Threads` and `DelayedWork` | |
| `JobService` | what a work queue promises its users | thread, semaphore and list |
| `Lines` | what is kept of a line when some leave it (`Kept`), for `JobService`, `WorkQueueService`, `DelayedWork` and `Threads` | |
| `WorkQueueService` | the refinement: `WorkQueue` implements `JobService` | |
| `TimerService` | what the software timers promise their users | clock, list and thread |
| `DelayedWorks`, `DelayedWork` | delayed works, over `JobService` and `TimerService`: state and claims, steps | |
| `ThreadRecords`, `Threads` | thread records and their two lists: state and claims, steps | what a thread's function does |
| `SwTimer` | the timers and their dispatcher, which implement `TimerService` | memory of a timer is `none`, `live`, `freed`; ms are naturals |
| `SwTimerProofs` | theorems about `SwTimer` | |
| `EventBus` | the event manager | name, description and callback are one subscription |
| `EventBusProofs` | theorems about `EventBus` | |
| `IotClient` | `tuya_iot_yield`, the API, the unbinding over BLE, activation, pairing, the MQTT context | an external call succeeds or fails; the store is a set of entries |
| `DeviceLife` | what the client promises of a device's life: pairing, activation, sessions, forgetting | states and threads |
| `IotClientProofs` | theorems about `IotClient` | |
| `PendingList` | the unlocked list of pending requests that the next two components share | |
| `MatopService` | requests over MQTT and their answers | JSON, signatures; time |
| `MqttHandles`, `MqttPublish` | reports, their publication through coreMQTT, acknowledgement and timeout, the loop: state and claims, steps | payloads, topics; time |
| `PendingListProofs` | theorems about `MatopService` and `MqttPublish` over the list they share | |
| `NetMgr` | the network manager | events other than the two link events |
| `NetMgrProofs` | theorems about `NetMgr` | |
| `NetconnWifi` | the Wi-Fi connection | the radio; the intervals of the retry table |
| `NetconnWifiProofs` | theorems about `NetconnWifi` | |
| `ListLemmas` | lemmas about sequences (insertion, removal, `Kept`), used by the proofs | |
| `MC*` | instances for TLC | |

Three components come in two modules: the constants, variables and claims in one (`DelayedWorks`,
`ThreadRecords`, `MqttHandles`), the steps in the one that extends it. The proofs extend the first and
instantiate the second next to another component's specification, so that a theorem and a run
speak of the same definition.

**WorkQueue.** `Schedule` is `tuya_queue_input[_instant]`, which holds the
queue's mutex throughout, and `Post` the `tal_semaphore_post` that follows it;
`posting` holds the callers in between. Both also happen on the worker while a
callback runs (`wpc = "run"`). `Cancel` traverses the queue under its mutex and
sets `src->cb` to NULL (`nulled`) in place. The worker's steps follow
`__WrapRunFunc` and `__work_thread_cb`. `Release*` is `tal_workqueue_release`.
A post at the maximum is refused by RTOS ports and counted by the POSIX port:
both are allowed. `fate` and `cancelled` are history. Environment: producers no
longer use a handle that is being released, as any owner must arrange. When
`thrd = "FREED"` the release poll reads freed memory: it may see any value, so
it may end or go on. The worker's record is freed by the worker only; that another
thread may free it is part of `Threads`.

**JobService, WorkQueueService.** The abstract service has a line of waiting
jobs, the one being served, and a phase. The refinement mapping takes the line to be
the queue without the items whose callback was cancelled, the job served to be the
worker's local, and the phase from the release. A job may join at the back or at
the front, some may be revoked, the front is served next, and while the service is open it
goes on serving: `ImplementsJobService` is the fair specification as a property.
Cancelled items still count against the capacity, which is why the service may
refuse a job although its line is short.

**DelayedWork.** `Queue == INSTANCE JobService` supplies the queue (its actions are
conjuncts of the actions here) and `Timing == INSTANCE TimerService` the timers, in the same way. The service
has no clock: the dispatcher takes an armed timer at any time (`Expire`), unlocks, and calls back later. The
callback first reads the work's fields, then schedules. `cancel_delayed` deletes the timer, then
searches the queue, then frees the work. Environment (`Usable`): nobody uses a work
that somebody is cancelling; the timer thread is not restrained, so it
can read a freed work: it finds the old values or its call is refused. The queue is
never released. `outcome` (what a start came to), `late` (works cancelled while their
callback was due) and `during` (jobs that ran while their work was cancelled) are history.

**Threads.** Sections under `s_del_thrd_mag->mutex` are single steps; a walk of the
deletion list frees the records of the finished threads and leaves the walking
thread's to itself. `is_self` is the code's: it holds the answer for the last
finished node of the list, not for any of them.

**SwTimer.** The sections under `s_timer_mgr.mutex` are single steps. `op[c]`
holds what a caller has still to do after or before its section: a `start` that
has read the clock, a `post`, the `free` of a deleted timer. Callbacks are
calls made by `TimerThread` while `tpc = "cb"`. Environment: nobody uses a timer
that another caller is deleting (`Usable`, `Unused`). The dispatcher itself is
not restrained, which is how it meets a deleted timer.

**TimerService.** A timer does not exist, is idle, or runs once or in cycles; at most one timer
is due, which means that its callback is about to be called or is under way. `SwTimer` implements it with
`Status`, read off the lists and the `cyclic` flags, as the mapping: create, stop and delete take effect in their
locked parts, start in the part after its reading of the clock, an expiry is the dispatcher's
locked part, and the callback's return ends it; trigger, the posts, the release of the memory and the clock do not
show. `DueInOrder` adds the order by expiry, which the service leaves open.

**EventBus.** Each call is a lookup without a lock, then work under the
manager's or the node's mutex. `Deliver` is one callback of a dispatch.
`PublishCreate` moves the early subscribers one after another, which comes to the emergency
ones in reverse order followed by the others in theirs (`AddedInTurn`, with `Picked` for
the entries of a list that are in a set).
Environment: the component that owns a subscription subscribes and unsubscribes
it in sequence (`OwnerFree`), and callbacks do not call the event manager.
Callbacks of one-time subscribers are gone after they ran. `on` and `off` are
history: subscriptions in force since a subscribe call returned, and withdrawn
since an unsubscribe call returned; `raced` are those with a call that was overtaken
by the creation of the event's node.

**IotClient.** `Enter` is `client->state = client->nextstate`; the next step is
the body of the `case`, split where the thread waits (`token`) or where a power
cut matters (`schema`, `activation`, `load`, `remove`, `erase`). `Stay` is a
`break` without a write of nextstate. API calls are split between their test of
`state` and their write of `nextstate`; `tuya_iot_reconnect` is also what the SDK itself calls for
EVENT_LINK_TYPE_CHG (`tuya_iot.c:867`). A reset may be `ble_unbind_req`'s, which goes on to
clear `is_activated` (`Clear`). The deletions of a reset may fail, without notice (`Deleted`). A failing `tuya_mqtt_init` leaves the
context without a client, or with one that is not initialised. A NULL pointer that is used stops the
device (`Fault`), which restarts (`Reboot`). Environment: the application does
not start a client that is starting already. History: `unbound` (the unbinding ended the activation,
and the MQTT context was not initialised since) and `untimely` (since the boot a call wrote to a client
that was not in STATE_MQTT_YIELD; a start of an idle client is no such call). Left out: the saved device id
(only for display), the reporting of data points (see `MqttPublish`), the upgrade.

**DeviceLife.** A device is paired (it holds a user's token), activated, has some of its two entries stored,
has a session or none, and may have been unbound or disturbed. The mapping takes these from `binding`, `is_activated`, `kv`,
`mqctx.is_connected`, `unbound` and `untimely`. A token is taken when none is held and the device is not activated, an entry is saved and the device activated with a
token only, activation uses the token up, whole data is touched only as the activation ends and
without a session, and a boot finds the device activated exactly if both entries are there. An unbinding ends the activation
at once and leaves session and data; setting the device up again drops that session. From a call at the wrong time on (`Disturbed`) the service promises
no more than that an active device has its data and that a boot starts afresh: the code does no better, see the deviations.

**PendingList, MatopService.** An append reads the head, walks to the
tail and writes one pointer, in separate steps, while the yielding thread removes
nodes. A freed node keeps its content for whoever still walks over it. `AppendRead` is the test of the
head and the read that follows it (`matop_service.c:429` and `:435`, `mqtt_service.c:680` and `:685`): no call lies between
them, so that a compiler loads the head once; a build that loads it twice could also meet NULL there. `excused`
are the requests that were pending when another thread wrote the list under an
append (or took the same id): the code has no lock, and the properties name
exactly these requests as the exception. In `MatopService` answers survive the session
their request was made in, and ids start again with each session; callbacks may make
requests while the list is walked. A session opens in two steps, `Connect` (is_connected is set,
`mqtt_service.c:303`, and requests are accepted) and `Open` (`matop_serice_init` clears the context), with other threads' requests
in between. `matop_serice_yield` runs in STATE_MQTT_YIELD only, where the connection may have just been lost: `Yield` may
happen without a connection but is fair only with one. Time is abstract in both lists: a pending request may time out at
any visit of the walk.

**MqttPublish.** A report is published at once or by the loop, through `mqtt_client_publish`, in three steps:
`Take` (MQTT_GetPacketId), `Send` (MQTT_ReserveState and the transport) and `Update` (MQTT_UpdateStatePublish). `reserved`
and `awaiting` are the publish records of coreMQTT by state. A publication
fails before the packet is out (`NotSent`: the id has a record, the transport fails; the record stays) or after it (`Update`
finds no record in state PublishSend), and both return 0, so that the handle has no message id and the loop
publishes it again. A publication is *crossed* when another thread's publication, a reconnection
or the end of the client overlaps it; what the unlocked counter, records and buffer then do is left open: the id may be the other's, the counter
may fall back, records may be lost or duplicated, the packet may carry the other's id. A publication that is not crossed runs
through the code's own tests. The client is renewed in three steps, `Stop`, `Destory` and `Renew`; a publication
that meets the gap without a client (`mqtt_service.c:904`) goes astray: it faults (`dead`) or returns anything.
A PUBACK is accepted only when its record awaits it; one that is not makes MQTT_ProcessLoop fail (`Broken`).
Abstracted: coreMQTT's one network buffer is modelled by the header that is sent in place of another and by the broken connection, not byte by
byte, and a buffer that the receiving side overwrites under a publication is a broken connection;
the record table has ten entries, and a full one is one of the failures before
sending; subscriptions take ids from the same counter on the yielding thread while it connects, which only makes ids skip;
ids do not come around to 1 within the bounds.

**NetMgr.** `netmgr_init` links each connection in two steps: `RegisterLink` (`s_netmgr.conn` or the predecessor's
`next`, `netmgr.c:269`, `:273`) and `RegisterNext` (the node's own `next`, and its open). In between a walk ends at the new
node: `reach` is the number of nodes of `list` that a walk gets to. The callback is split into its reads and writes of `s_netmgr`, the look-up of the active
connection for its network card, which dereferences NULL when the walk misses the connection (`CbCard`, "fault"), and the two
publications; each walk is one step. The card itself is not modelled. Each connection reports on a
thread of its own; `NETCONN_CMD_PRI` runs the callback on the application's.
`told` is what the subscribers read when they were called; `overlapped` is history: a callback ran together
with another, across an insertion that cut the list, or across the end of `netmgr_init`, and none has run alone since.

**NetconnWifi.** A step reads or writes `conn.stat` at most once. Works wait in
`wq`, driver events in `events`; the radio joins, fails, loses the link or never answers.
The shortest timer interval is one second, so a timer does not fire between its
start and the assignment that follows. `missed` (an attempt whose work was refused or whose
timer a late event stopped) and `quit` (how the last close or reset met the other threads)
are history.

**Mutants.** Definitions preceded by "mutant of X" are plausible faults of X. They
are in no specification; replacing X by one of them must break the property
that `PROJECT.json` names, which shows the property depends on that code.

## 3. Runs

| Run | Question | Bounds |
|---|---|---|
| `workqueue` | accounting, conservation, teardown; is each accepted job served; is it a job service (order included) | 2 producers, worker, 4 jobs, queue of 3, 2 callbacks, one data pointer and NULL |
| `delayedwork` | what a cancellation silences; does a one-shot work run once; what does a start come to | 1 client and callbacks, 2 works with one callback (data NULL and not NULL), queue of 2, 3 starts, 1 cyclic expiry |
| `threads` | where is a record; who is released; what leaks; is a deleted thread reclaimed | 3 threads and main, which create and delete one another |
| `swtimer` | lists, order, sleeping; is it a timer service, with callbacks in order | 1 client and callbacks, 2 timers, times 0 and 1, clock to 2 |
| `eventbus` | who is served, silenced, called once, called first; stable lists; do calls return | 3 threads, 3 subscribers (normal, emergency, one-time), 5 calls, no node at first |
| `iotclient` | is a session reached, whatever fails | a client that is started and reconnected, 3 failures or power cuts; 2,705 states |
| `iotclient_api` | activation, session and pointers when two threads call everything, the unbinding included; is it a device's life | 2 threads, 2 failures, all five calls; 1.6 million states |
| `iotclient_reset` (violation) | what the comment promises of reset | 1 thread, 1 failure |
| `matop` | one callback per request, the right answer, nothing lost; does every request settle | 3 requests of 2 threads, 2 sessions |
| `mqttpublish` | published once, told once, told the truth; is every report told | 2 reports of 2 threads, 1 of break, failed send, report without a callback or renewal; 1.1 million states |
| `netmgr` | the list while it is built, the settled connection, what subscribers know | wired, cellular and Wi-Fi, 2 link changes, 1 priority change; 0.4 million states |
| `netconn` | is an attempt watched, is close final, does the link come back | 1 network, retry table of 2, 1 fault, 1 call, 2 works, 1 driver event |

`Consistent` (in `ThreadRecords` `RecordsConsistent`, in `DelayedWorks` `WorksConsistent`, in `MqttHandles`
`HandlesConsistent`) is the type invariant together with the
module's structural invariant (one wake-up per queued job, lists and counters that agree, a record in one place,
emergency subscribers first, a list that never reaches a freed node, one job for a one-shot start,
an activation that the store can prove).
`CallsTakeEffect`, `PointersSound`, `OnlyOnce` and `LifeCycle` are each the
conjunction of two named properties defined beside them.

Why the bounds are enough: the queue is full with a fourth job still to be
scheduled and with both producers between insertion and post; two timers are
the least with an order, and a clock of three instants has earlier, equal and
later expiries; a time of 0 keeps the old interval. Five calls contain a
subscription, two racing publications, an unsubscription and a publication after
it. Three failures allow a failed retry within a power cut's recovery. `Forever`
in SwTimer (an unbounded wait) is a value that is no number. Two works that share a
callback are what it takes for one cancellation to rob the other; three starts
allow one work to be started again and a queue of two to be full with the third
still to come. Three threads are two that finish together and one whose walk meets both. Three
requests give a list with a first, a middle and a last node, and a third
request that reuses an id of the first session. In `mqttpublish` two reports are the least whose publications
cross and share an id, and one failure suffices because each kind (break, failed send, renewal, a publication without
a handle) can meet every position of the reports and of the loop; longer lists are the business of `matop`, whose appends and removals are the same, and of the proofs. Two
link changes and a change of priority let two callbacks overlap each other or an insertion, and a third, alone, repair the result; with the
priorities of the code Wi-Fi is inserted in front of cellular, and the list is cut. A table of two wraps its
retry counter; one fault and one call can meet each other at every pair of steps.

Runs do not check deadlock: every model may stop when its bounded calls are used
up, and a queue without jobs, or a device without a token, waits by design.
Symmetry is used in safety runs only, over sets whose members no definition
tells apart.

Fairness.
- `WorkQueue!FairSpec`: threads are scheduled and callbacks return; the
  release poll is fair only while the thread's record can be read, because
  afterwards the code gives no guarantee. Jobs are finitely many, so instant jobs
  cannot starve the others for ever.
- `DelayedWork!FairSpec`: the timer thread and the worker run, calls of cancel end, and an armed
  one-shot timer expires although others expire too (strong fairness): `SwTimer` takes
  the timers in the order of their expiry.
- `Threads!FairSpec`: threads are scheduled, and a thread's function returns once the
  thread was told to stop; nothing is assumed of others.
- `EventBus!FairSpec`: a thread inside the API
  goes on; a mutex is weakly fair because calls are bounded.
- `IotClient!FairSpec`: the main loop keeps yielding, the application starts the client after each boot
  and the user pairs it, failures are finitely many; nothing else is assumed. Reconnections of a serving client may go on
  for ever.
- `MatopService!FairSpec`: threads run, and a request that stays on the list of a connected service is
  timed out in the end (`Yield` is fair while connected, because `matop_serice_yield` is called in STATE_MQTT_YIELD
  only), because deadlines pass.
- `MqttPublish!FairSpec`: the loop goes on, a lost connection comes back, a client that was stopped is set up again, and a
  handle that is visited again and again is timed out in the end (strong, because a visit is
  one step of the walk). Nothing is assumed of the broker.
- `NetconnWifi!FairSpec`: threads run, an armed timer fires, and a join that is tried
  again and again succeeds in the end (strong, because each attempt is cut off by the timer).

### What the violation shows

`iotclient_reset`: the write of nextstate by `tuya_iot_reset` is overwritten when
the case under way ends with its own write, so the reset never happens.

### Known deviations

Behaviours met while modelling that the models contain. No property claims that they
are absent; where a property would be touched by one, the property names it as
its exception.

- `tal_workqueue.c:297`: the worker sets DELETE and frees its own THRD_MANAGE; release, asleep
  for 10 ms, then reads freed memory.
- `tal_sw_timer.c:165`: a timer can be deleted between the dispatcher's unlock and
  `timer_cb(timer->timer_id, timer->data)`. `SilentAfterCancel` shows that for delayed works this is the
  only window in which a cancelled work still runs.
- `tal_workqueue.c:439`: the cancellation of a delayed work takes every queued work
  with the same callback or data with it (`robbed` in `EveryStartSettles`).
- `tal_event.c:435`: the lookup is not under the lock that covers what it decides, so the first
  publication of an event can leave a subscriber behind on the free list, or an
  unsubscription without effect. `raced` records exactly these calls;
  `CallsTakeEffect` (`SubscribersReachable` and `UnsubscribedSilent`) holds for all others.
- `tal_thread.c:146`: `is_self` keeps the answer for the last finished node: when another
  finished thread follows the caller in the list, the caller's record is unlinked and never
  freed. `DeletedIsReclaimed` shows that a record is lost in no other way.
- `mqtt_service.c:904` and `:495`: a second stop passes `is_inited` and disconnects a NULL client. A report made
  between destory and the next init publishes through the NULL client (`mqclient` is not its first member, so what it reads is not even at NULL).
- `tuya_iot.c:1134`: a reset of a device that saved its activation but could not load it
  deletes nothing.
- `ble_mgr.c:692`: the unbinding clears `is_activated` right after `tuya_iot_reset`. When that comes before `run_state_reset` has read it
  (`tuya_iot.c:547`), the session is not stopped but its client is freed, the context keeps saying connected, and the stored data is not deleted: the next boot finds the
  device activated. `ConnectedIsActivated` names this as its exception (`unbound`).
- `tuya_iot.c:1148-1149`: the answers of `tal_kv_del` are not looked at; a reset whose deletions fail leaves the data, and the next boot finds the
  device activated (`DeviceLife!Forget`).
- `tuya_iot.c:926`: DATA_LOAD allocates a binding without freeing the one an earlier pairing may have left, which is lost. No property
  is about this leak.
- `tuya_iot.c:709`, `:691`, `:743`: a reconnect that was tested in time and written late, a stop after a reset, or a reset while the token is
  awaited leads a client to a state whose binding or MQTT client is NULL, or has `tuya_mqtt_init` drop a live client. `PointersSound` and `ImplementsDeviceLife` except a client
  that was called while it was not serving (`untimely`).
- `tuya_iot.c:1044`: after a failed `tuya_mqtt_init` the client stays in STATE_MQTT_CONNECT_START for ever
  (`EventuallyServing`), and an MQTT client that was allocated stays allocated.
- `tuya_iot.c:943`: a wake-up that an earlier `tuya_iot_reset` left in the token semaphore answers
  the next wait with an error; STATE_TOKEN_PENDING frees the binding and waits again
  without one, and the next token is copied to NULL. A wake-up left by a token that came after a stop
  ends the wait of the next start without a token, and the activation is tried with an empty one.
- `matop_service.c:193`: an answer of an earlier session can be given to a request of
  this one, because ids start again (`AnswerMatches`).
- `matop_service.c:193`, `mqtt_service.c:303`: a request that a thread makes after the session ended, or between is_connected and the clearing of
  the context, is forgotten without a call (`EveryRequestSettles`).
- `core_mqtt.c:2247`: two threads that publish at the same time may take one packet id. One of the two may be refused (a record with this id exists) and is published again by the loop,
  both may be sent under one id, and an acknowledgement then settles the first handle with that id, which may be the other's.
- `core_mqtt.c:1921-1938`: MQTT_Publish may fail after the packet went out, when a crossing publication or a reconnection removed the
  record; the report is listed without a message id and published a second time. `OnlyOnce`, `OkMeansAcked` and `TimeoutMeansUnacked` except the reports whose publication was
  crossed; that no other report is concerned is what they show.
- `mqtt_service.c:676`: an acknowledgement that arrives before the handle of a synchronous report is on
  the list is lost, and the report is told TIMEOUT.
- `mqtt_service.c:660` adds milliseconds to a POSIX time in seconds; `matop_service.c:249` keeps a
  deadline in 32 bits. Time is abstract in both models.
- `netmgr.c:269` and `:273`: while a node is linked the rest of the list is out of reach, and nothing is locked: the callback of a connection that is already open can
  miss a connection that is up and store DOWN, which `netmgr_init` does not mend (it stores only the active connection), or dereference NULL at `:208` and `:223`.
  `SettledUnlessOverlapped` and `Consistent` show that only callbacks that overlap do so, and that the next callback alone repairs the status.
- `netmgr.c:263`: a change of priority does not move the connection in the list, although
  `netconn_wifi.c:388` expects the active connection to change; and reading
  NETCONN_CMD_PRI (`netconn_wifi.c:450-454`) sets the priority.
- `netconn_wifi.c:97-99`: a new SSID is ignored while the link is up, against the comment
  at 399-400.

## 4. Proofs

All theorems hold for every value of the constants that satisfies the named
assumptions of the modules.

`WorkQueueProofs` (any finite set of producers, any jobs, any queue length):
- `ConsistentInvariant`: `Consistent`, that is `TypeOK` and `SemAccounting`. The inductive invariant is `TypeOK`, `Phases`
  (which positions of worker, release and thread record go together; the release
  proceeds only in step with the record, without which the last step of
  release could meet a worker that still waits) and `SemAccounting` itself.
  Each step moves one unit between the semaphore, the callers about to post and
  the worker.
- `PostAlwaysFits`, `TeardownIsSafe`: consequences of the same invariant. `PostFits` (the post of an accepted job
  never meets a full semaphore) is proved only; it follows from `SemAccounting`, which the run checks.
- `JobsAreConserved`: `JobConservation`, by the invariant `Conserved` over the elements
  of the queue (`EnqueueElems`, `TailElems`): the queue holds accepted jobs only,
  each once, and a job without a callback was cancelled.
- `ImplementsService`: every behaviour of the work queue is one of the job service, `Service!Spec`
  (`ImplementsJobService` without its fairness). The initial state maps to the service's, and `ServiceStep` takes the
  actions one by one: schedule is `Accept` or `Refuse`, cancel `Revoke`, the output of a live item `Serve`, the
  callback's return `Done`, the first and the last step of release `Close`; all others, the output of a cancelled item
  included, leave the service's state alone. It uses `Conserved` (a job is in the queue once, and was accepted), `Phases` and
  `Serving` (the worker holds a job exactly while it runs a callback). `Kept`, by which the mapping forgets the
  cancelled items, is a recursive function: its lemmas in `ListLemmas` (`KeptAppend`, `KeptCons`, `KeptTwice`...) rest on
  `KeptRecursion`, which shows that the recursion has a solution.

The same module extends `ThreadRecords` and `DelayedWorks` and instantiates the steps, `Threads` (as `Thr`) and
`DelayedWork` (as `Dly`). It uses that the null pointer is no thread (`OwnerAssumption`) and no work
(`WorksAssumption`) and that the bounds are naturals (`BoundsAssumption`).
- `ThreadsConsistent`: `RecordsConsistent`. `Records` says, for each value of a record's state, on which list it is, whether a
  caller holds it and where its thread is (`Placed`), that the deletion list holds no record twice and that two
  callers never hold one record. `WalkFacts` says what one walk of that list does to every thread.
- `LifeGoesOneWay`: the action property `LifeCycle`, from `Records`: each step moves a thread's state along the edges of
  `Advances` (`AdvancesStep`). The unlocked write of RUNNING is safe because a record that is still EMPTY is
  with the caller that creates it or has a thread that has not entered its function.
- `DelayedConsistent`: `WorksConsistent`. A start has at most one job only together with `Arms` (a timer that runs
  belongs to the last start of its work), `Traced` (a job comes from a start that was made) and `Single` (the one
  job is queued, due or yet to come).
- `DelayedSilent`: `SilentAfterCancel`. `Cancels` (one caller cancels a work, whose timer is gone) and `Silence`, which
  follows the cancellation through its three steps: after the first nothing is due, after the second nothing of the work is
  in the queue or starts, and this lasts.

`IotClientProofs` (any set of application threads, any calls, any number of failures):
- `ConsistentInvariant`: `Consistent`, that is `TypeOK` and `ActivatedDurable`, with the fact that the data is erased
  only when `is_activated` was cleared before.
- `SessionIsActivated`: `ConnectedIsActivated`. The session flag alone is not
  inductive: the invariant `Session` says which states imply activation or an unbinding, that an
  MQTT client exists only with one of the two, that the states which connect never meet a freed
  client, and `Underway` that while a case is under way nextstate is the state itself or a
  value that an API call wrote.
- `PointersAreSound`: `PointersSound`, for any calls. The invariant `Sound` holds until a call writes to a client that is not serving: `Started` says what a call may have written
  while a case is under way, `Pairing` which states have a binding and that the token semaphore holds a wake-up only for a token that was
  copied, `Kept` which states a live MQTT client goes with, a session, a request that stops it, or an initialisation that failed.
- `LeadsDeviceLife`: `ImplementsDeviceLife`, for any calls and failing deletions. `Sound` says that a binding is there; the refinement needs that it holds the
  token, which `Held` follows from the callback's copy through the semaphore to the activation. `LifeYield` and `LifeApp` then take the actions one by one: most do not show, the
  callback's copy is `Pair`, the load after the two saves `Activate` or `Drop`, the clearing by `ble_unbind_req` `Unbind`, `tuya_mqtt_init` after it `SetUp`, a power cut `Boot`. Steps of
  a client that was called at the wrong time are `Disturbed`, for which `ActivatedDurable` is what has to be shown.

`SwTimerProofs` (any clients, any finite set of timers, any intervals and clock):
- `ConsistentInvariant`: `Consistent`. The invariant says that a timer is on exactly one list from
  its creation until a caller is past the locked part of delete, that `is_running` says on which,
  that the counters are the lengths, and that the running list is ascending. What callers hold
  (`InUse`) is needed because a start reads the clock before it takes the mutex.
- `OversleepInvariant`: `NoOversleep`, on top of it: whoever puts a timer in front of the others
  is about to post until he has posted.
- `TimersServe`: `ImplementsTimerService`, the refinement and `DueInOrder`. `Seen` is the mapping by the flags instead of the lists, which
  the invariant makes equal (`StatusSeen`); with it each action changes what one timer is (`OneSeen`) or
  none (`NoneSeen`). `Turn` adds that a timer is due exactly between the dispatcher's locked part and the return, and
  that the dispatcher's clock is not ahead of the time; the order comes from the sorted list. `DelayedWork`, whose timers are this service, is
  thereby proved on top of what `SwTimer` and `WorkQueue` are proved to provide.

`EventBusProofs` (any threads, events, subscriptions and number of calls):
- `ConsistentInvariant`: `Consistent`. Emergency subscribers first is the order of a rank
  (`Urgency`), which the insertion, the removal and the move of the early subscribers keep;
  that no list holds a subscription twice (`Ordered`) is needed with it.
- `OneTimeInvariant`: `OneTimeOnce`. The callbacks alone are no invariant: `Budget` adds the entries that
  are on some list (`Where`), each of which is one more call to come. The creation of a node moves an entry and
  makes none.
- `EffectInvariant`: `CallsTakeEffect`. `Effects` says of a subscription whose calls no creation
  overtook that it is at most where the lookup finds it and that a call under way for it
  works there; `InSequence` that there is one such call at a time.
- `DispatchIsStable`: the action property `DispatchStable`, from `Locking` (whoever dispatches a node
  is the one holder of its mutex).

`PendingListProofs` (any threads, any number of requests, lost connections and renewals). It extends
`MatopService` and `MqttHandles` and instantiates `MqttPublish` (`Mqtt`) on the same list variables; the MQTT part uses that
`MaxBreaks` is a natural (`BreaksAssumption`).
- `ConsistentInvariant`, `ReportsConsistent`: `Consistent` and `HandlesConsistent`. `Chain` alone is no invariant, because an overtaken
  append cuts nodes off that threads and the pending removal still use. The invariant `Sound` is about a set `L`
  that holds the chain and what was cut off: no two pointers lead to one node of `L`, a rank grows along the pointers, and
  `L` has no freed and no fresh node (`Fresh`: not appended yet, nothing points to it). `CanCut` says that the node whose
  callback runs is led to by the pointer found before the callback and by no other; every append keeps it
  (`HeadAppended`, `TailAppended`), and with it `CutOut` unlinks the node whatever was appended meanwhile. That
  the chain ends within `MaxReqs` nodes (`ListEnds`) is a pigeonhole argument over `L`.
- `CallbackInvariant`, `ReportsOnce`: `CallbackOnce`, `OnlyOnce`. Only the node whose callback runs was called among `L` and `Fresh`.
  For the reports the invariant `PubInv` follows the publications: those that meet are marked and their reports excused (`CrossedOK`); one that is not marked took an
  id of its own, and its record is there when it looks for it (`AloneOK`), so it does not fail after it sent; each publishes the report its thread
  makes or the handle the walk stands on (`HeldOK`); without a client or a connection nothing is under way (`LinkOK`). So a report that was not crossed was sent once if
  it has a message id or is between send and update, and not at all otherwise (`PublishedOK`).
- `AnswersInvariant`: `AnswerMatches`. `IdsOK`: among the requests of one session, those that no other thread's
  numbering overtook have different ids.
- `ReportsAcked`: `OkMeansAcked`. `Distinct`: the packet ids of the reports that were not crossed and are on the list or under way (`Now`)
  are different, below the next one, and below every id that is being published, also when crossing publications set the counter back; a renewal starts again at 1 and leaves `Now` empty.
- `ReportsTimedOut`: `TimeoutMeansUnacked`. `Track` says that a report which was listed and has no result is on the chain
  unless it is excused or was forgotten (`FindableOK`). That needs, for every thread inside an append, that what it has
  read of the list is still true or everything it could cut off is excused already (`AppendsOK`), and that the chain
  is the least set closed under the pointers (`ChainLeast`), so that a valid append adds one node and a removal takes one.

`NetMgrProofs` (any connections, any order of registration, any distinct priorities, any number of link changes):
- `ListConsistent`: `Consistent`, with `Registration`: no priority changes before all
  connections are registered, without which the insertion would not keep the order. That a fault takes an overlap comes from `Settling`.
- `SettledInvariant`: `SettledUnlessOverlapped`. A callback is alone only while the list is whole and no other runs (`Alone`); it works with exact values at each of
  its steps (`Exact`), so what it stores is right when it ends (`Settling`). A node that is linked at the end of the list cuts nothing,
  and no connection that is not open yet is up, so that a walk across such an insertion is still exact.
- `SubscribersInvariant`: `SubscribersCurrent`, from `Pending`: if the subscribers read something else,
  whoever stored the status has still to publish.

`NetconnWifiProofs` (any retry table, queue lengths, numbers of faults and calls):
- `ConsistentInvariant`: `Consistent`, with `LinkKnown`: the last event that was reported, handled or not,
  says whether the radio is up.
- `QuitInvariant`: `QuitIsFinal`. `AtRest` says that after a close at rest no thread holds a state in which
  it would connect.
- `AttemptInvariant`: `AttemptWatched`. `Watched` says, for each of the four threads inside its read and
  write of `conn.stat`, who will arm the timer or end the attempt.

Lemmas that several of these need are in `ListLemmas`: the least element of a set of numbers, what an
insertion or removal at a position does to the elements, to their being distinct and to an order, and what
`Kept` makes of a sequence. Inductions over sequences are written with the least number of a set (`NatMin`, `UpTo`).

Only model-checked:
- liveness (`EveryJobServed`, `EveryStartSettles`, `DeletedIsReclaimed`, `CallsReturn`, `EventuallyServing`,
  `EveryRequestSettles`, `EveryReportSettles`, `Reconnects`) and the fairness in `ImplementsJobService`,
  which need fairness and ENABLED and stay with TLC. Every invariant and every action property of the
  passing runs is proved.

The library's induction theorems have an operator parameter, which the provers do not instantiate, and no
module declares RECURSIVE operators (`PendingList!Node` and `Kept` are recursive functions). `SelectSeq` and the folds are
opaque to the provers, which is why `EventBus` says what a list keeps with `Picked`, and the job service, the delayed works and the threads with `Kept`.

## 5. Plan

Order of work, most important behaviour first. Done: `WorkQueue` and its proofs, `SwTimer`,
`EventBus`, `IotClient`, `MatopService`, `MqttPublish`, `NetMgr`, `NetconnWifi`,
`DelayedWork`, `Threads`, the job service, the timer service and the device's life with their
refinements; the proofs of section 4. Left: OTA progress, device timers, BLE reassembly, ring buffer and KV store.

## 6. Not modelled

- **OTA, device timers, BLE reassembly, ring buffer**: planned; each is mostly
  sequential and of less weight than what is modelled.
- **Key-value store**: encryption over littlefs, which is vendored; `IotClient` uses it
  as entries whose writes and deletions are atomic and may fail.
- **Start-up of the two system queues** (`tal_workq_service.c`): two creations in sequence, the rest forwards.
- **Nested event calls**: a callback that calls the event manager again (its mutexes are recursive).
- **`tuya_iot_destroy`, subscription and protocol tables of the MQTT service**: used by one thread
  only; **country code, IP and MAC commands** of the connections: reads and pass-through.
- **HTTP services, TLS, transport, protocol, schema, weather, authorize**: encoding, cryptography
  and synchronous I/O; the models take them as calls that succeed or fail.
- **LAN service, network configuration, health monitor, media (AI, audio, P2P), peripherals**: sockets,
  radios, drivers and statistics.
- **Vendored libraries, applications, boards, examples, build tools**: by far most of the
  repository's lines; not part of the SDK's own logic.
