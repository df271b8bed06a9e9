# Smart washing machine: TLA+ models and proofs

The repository is the firmware of a washing machine demo on an i.MX RT1050
board: FreeRTOS, an Alibaba cloud client (linkkit), an Embedded Wizard panel
and a key-value store on hyper flash. Most of its files are vendored. The
product's own logic is `source/demo_wm/washing_machine.c`, the panel driver
`emgui/DeviceDriver.c`, the start-up code `source/wiced_iperf.c`, the store
`component/kv/` and the light demos. The modules here model that logic, and the
parts of linkkit that carry its messages to the cloud and bring answers back.
Paths below are relative to `src/`.

## The system

| Part | State | Operations | Talks to |
|---|---|---|---|
| timer service (`washing_machine.c`, `wm_s_timer_*`) | list of named events, mutex, one FreeRTOS timer | start, stop, period callback | called by all tasks; runs callbacks in the timer daemon |
| controller (`washing_machine.c`) | `wm_ib`, `g_wm_ctx.time_set_triggered` | work switch, washing mode, drying, times, reservation, local timer, finish | panel, cloud, shell, timer service |
| reporting (`washing_machine.c`) | `report_pro_current`, `report_started`, `report_error_to_cloud` | round of posts, reply, button | cloud; called by all tasks |
| panel (`DeviceDriver.c`, `GeneratedCode/Washer.c`) | what is shown | setters that clamp; callbacks to the controller | GuiThread |
| key-value store (`component/kv`) | blocks, items, write position, `gc_trigger` | init, set, get, delete, delete by prefix, collection | flash; used for the wifi pair |
| wifi configuration, shell (`wiced_iperf.c`) | ssid, key | join, commands | store, controller |
| linkkit `dev_model` | mutex of posts, cache of messages, queue between threads | post, reply, timeout, dispatch | cloud, demo_task, the tasks that post |
| linkkit MQTT client (`linkkit/mqtt`) | state of the client, pings without answer, list of messages to be acknowledged | yield (ping, reconnect, read, send again), publish, subscribe | broker; yielded by demo_task, called by all tasks |
| light demos (`demo_dim`, `demo_rgb`) | level, target, ramp timer; colour | switch, brightness, ramp | cloud |

The processes: the FreeRTOS timer daemon (priority 4) runs the period callback,
demo_task (3) receives from the cloud, GuiThread (2) runs the panel, ShellTask
(1) the shell; the collection task of the store has priority 4. The scheduler
preempts, without time slicing. The hardware button is an interrupt.

What is hard here:

* the three users of the timer list, a daemon that preempts them and a mutex
  that is held across network calls;
* globals of the report chain that four tasks write without a lock;
* a controller whose state lives in three places (`wm_ib`, the timer events,
  the panel) that inputs from three tasks change in any order;
* a store that must survive a loss of power between any two flash operations,
  the ones of its own recovery included;
* its collection task, started, waited for and finished with flags that are
  read outside the lock; two values that belong together in two keys of it;
* posts whose replies overtake them, get lost, come twice or after their
  timeout, from callbacks that run in the task that receives;
* a connection that breaks, noticed or not, while other tasks publish: they look
  at its state, send, and report a failure at three different times;
* a ramp timer that shares level, target and its own handle with the handler
  it interrupts.

## Modules

| Module | Models | Abstraction |
|---|---|---|
| `EventTable` | what the timer service promises: an atomic table of events that fire once, when their time is over | |
| `WmTimer` | the timer service, step by step | the code between two kernel calls is one step |
| `WmTimerProofs`, `WashMachineProofs`, `WmReportProofs`, `LightingProofs`, `LinkkitProofs`, `WifiConfigProofs`, `MqttProofs`, `KvFlashProofs` | theorems about the module of the name | |
| `WashMachine` | controller and panel, on top of `EventTable` | what a handler computes on `wm_ib` is one step; it comes apart at calls of the timer service, posts and sleeps |
| `WmReport` | the report chain and the button | one access of a shared variable is one step |
| `KvStore` | what the store promises: a map in which a call takes effect at once or, if the power fails, perhaps not at all | |
| `KvFlash` | blocks, items, collection and recovery; implements `KvStore` | one flash operation is one step |
| `KvCalls` | gets and sets as their callers see them: the lock and the handshake with the collection task | what a call does on the flash is one step |
| `WifiConfig` | ShellTask and demo_task, the callers of `KvCalls` in this product, and losses of power | one call of the store between two steps |
| `Answers` | what linkkit promises to a program that posts: each message is answered once, or given up | |
| `Linkkit` | posts, message cache, inter-thread queue and dispatch; implements `Answers` | the code between two locks or kernel calls is one step |
| `MqttClient` | the MQTT client with its connection and the broker | the code under one lock, or between two reads of the state, is one step |
| `Lighting` | the dimmable light and its ramp timer | one access of a shared variable is one step |
| `MCWmTimer`, `MCWashMachine`, `MCWmReport`, `MCKvFlash`, `MCWifiConfig`, `MCLinkkit`, `MCMqttClient`, `MCLighting` | values of the constants for TLC | |

### The timer service: `WmTimer`, `EventTable`

`list` is `wm_timer_event_head`, `left` the `time_left` fields, `owner` the
holder of `wm_timer_event_mutex`; `active` and `cmdq` are the FreeRTOS timer
and the command queue of its daemon. A start is `CallStart`, `StartCheck` (the
`list_empty` before the mutex), `TakeMutex`, `StartFind`, `StartAdd`,
`GiveMutex`; a stop and the period callback (`CbEmpty`, `CbCountDown`,
`CbFunction`, `CbDelete`, `CbEnd`) are cut up the same way. `Runs(p)` is the
scheduler: the ready process of the highest priority runs, and the mutex hands
its owner the priority of the one it blocks. Callbacks may wait for the network
(`blocked`), which lets the tasks run in the middle of the walk. There is no
clock: a period may end between any two steps, once the daemon has emptied its
command queue. `wte->next` is read from the freed event at once, before anybody
else can run, so that it is part of `CbDelete`. The command queue has its real
length of 10, which these runs do not fill.

`EventTable` has one action per visible effect: `Set`, `Clear`, `CountDown`,
`Fire`, `Fired`. `KeepsTable` says that `WmTimer` implements it, with the events
that are linked as the table. A restart is a `Clear` and a `Set`; what the
table excludes is an
event that fires early, twice, or after its stop.

### Controller and panel: `WashMachine`

`wm` holds the fields of `wm_ib` that the wash depends on and
`time_set_triggered`; the soak, wash, rinse and spin times are added up in
`phases`. `table` and `firing` are the variables of `EventTable`, whose actions
the callbacks of the daemon are built from; `ticking` is the FreeRTOS timer, and
`leaked` the mutex that a period callback has kept. `panel` is the state of
`WasherDeviceClass`, with the clamping of its generated setters.

`pc` and `arg` are the place of each task in its handler and the arguments of
its call of `wm_s_timer_start`. A handler computes on `wm_ib` in one step, since
it waits for nothing there, and then comes apart. `wm_work_switch_changed`, for
instance, is `Switch` (the writes of `left_time` and `work_state`, and the time
that is passed on), `Check` (`list_empty`, before the mutex), `StartEvent` (which
waits for the mutex, that is, for a callback that runs), `SwitchShown`; a pause is
`Switch`, `StopLocal`, `StopFinish`, `SwitchShown`. What is shown after a post
(`AllShown`, `DryShown`, `TimeShown`), or after the 100 ms that a rejected input of
the panel sleeps (`RestoreMode`, `RestoreDry`), is what `wm_ib` holds by then.
Other tasks and the daemon run between any two of these steps, and no priorities
hold anybody back, so that a theorem about it needs no scheduler. The callback of
the end of the wash reports, and may wait, before it updates the panel
(`FinishTimeout`, `FinishReturns`).

The timer service is its promise with both of its flaws: a start that saw an
event which then goes adds its own to a list whose timer has been stopped, and
a period that finds no event (`EmptyPeriod`, or the choice in `StopEvent`) keeps
the mutex. `asked` and `raced` are auxiliary: that the user has set a time since
a wash began anew, and that the last start or stop of a wash was interfered
with. `work_switch` is not kept: only the handler that has just written it reads
it. Memory for an event is always there (that it may not be is in `WmTimer`).

The lists of the panel are disabled while it shows a wash, but a list that was
in motion comes to rest, and calls, afterwards: so a mode change during a wash
does happen. `left_time` counts integers: the code keeps floating point values
with integral contents. The machine starts after `wm_init`.

Left out, since they are only stored and echoed: spin speed, water
temperature, water level, detergent, child lock, and the service example.

### Reporting: `WmReport`

`report_pro_current` is `current`, `report_started` is `started`. A handler that
changes a property marks it in the auxiliary set `stale`, asks for a round
(`Request`) and calls `wm_report_all_pro_to_cloud` (`Check` ... `Reset`), whose
increment of the index is a `Read` and an `Advance`. Handlers that post only
their own property (`PostOne`) cause replies as well. A sender waits for the
network (`send`) and lets the others run; otherwise priorities hold. While the
connection is down nothing is sent. A reply that is lost is made up for by the
timeout of linkkit, which calls the same handler: that every post comes back is
what `Linkkit` shows (`EveryPostAnswered`) and `WmReport` relies on.

### Key-value store: `KvFlash`, `KvStore`

A block is its header state and the items written to it. A set is `Set` (with
`kv_calc_position`), `Write`, `Unlink` (the state of the old item), `MarkDirty`
(the state of its block); a deletion is the last two for each item. `Collect`,
`Copy`, `Erase`, `Header`, `Collected` are `kv_gc_task`; `ScanFormat`,
`ScanItem`, `ScanNext`, `Settle`, `SettleClean`, `Initialized` are `kv_init`.
`PowerFailure` can come between any two steps, also during recovery, and in the
middle of writing an item, which leaves nothing, a dead slot, or an item whose
checksum is wrong; the byte of a state is written or not. A torn erase leaves
a block without a header, which is what `Erase` without `Header` is.

All items have one size, and `C` fit in a block, with some space left: so the
case of an item that ends exactly at the end of a block does not occur. The
content of a deleted item is never looked at and not kept. Not modelled:
checksum collisions, failing flash operations and allocations, and an
`origin_off` that points into the middle of a later item. `KvFlash` has one
caller at a time, and a collection that nobody gets into: that is `CollectFirst`
of `KvCalls`, proved for all callers below the priority of the collection task.

`store` and `req` are auxiliary: what the store held when the lock was last
free, and the call that is under way. They are variables of `KvStore`, whose
third, `down`, holds while `pc` is in `kv_init`. `KeepsStore` says that a call
that returns has taken effect, that collection and recovery change nothing a get
returns, and that the call the power cut short has happened entirely or not at
all.

### Calls of the store and the wifi pair: `KvCalls`, `WifiConfig`

`lock` is `g_kv_mgr.lock` with priority inheritance; `trigger`, `waiter` and
`sem` are `gc_trigger`, `gc_waiter` and `gc_sem`. A set is `Check`, `Count`,
`Wait` (without the lock), `Lock`, `Set`, and, if it wants a collection, `Reset`,
`Trigger` and `Create` before `Unlock`. `Create` may fail: nobody looks. Whether
there is room, and whether a collection is wanted, is left open: the geometry is
the matter of `KvFlash`. The collection task is `Lock`, `Collect`, `Unlock`,
`PostAll`.

`WifiConfig` puts the callers on top: `shell` and `demo` are the places in
`app_process_recive_cmd` and `app_wait_wifi_connect` to which the present call
returns; `ssid`, `ssid_len`, `key`, `key_len` are the buffers of the latter,
which live as long as the task, and whose lengths go into the next get
(`Copied`, `Fits`, `Length`). `tried` is the pair handed to `wwd_wifi_join`.
Names and keys are short sequences, since their lengths and common beginnings
decide what the code does. A loss of power keeps the store and restarts the
rest. Once it has joined, demo_task stores sessions (`Session`), as linkkit
does, so that both tasks set and the handshake has two users.

### Linkkit: `Linkkit`, `Answers`

`mutex` is the mutex of `IOT_Linkkit_Report` and `IOT_Linkkit_TriggerEvent` (the
one of `dm_api.c` is taken under it and adds nothing). A post is `Take`,
`Publish`, `Published`, `Room`, `Insert`, `Give`: the message leaves before it is
noted, and the limit is looked at before the lock of the cache. demo_task is
`Receive`, `Search`, `Enqueue`, `Uncache` for each reply, and after its yield
`Timeout` for each message that is too old, then `Deliver` for each
entry of the queue. `cache` and `wire` are sets of message ids; a reply may stay
on the wire when it is received, which is a duplicate, and may never get there,
which is a loss. `Age` lets ten seconds pass. The device stays open and
connected, which `is_connected` of linkkit does once it is set. Allocations
succeed.

`noted` and `answers` are auxiliary, and `lost` collects the messages that found
the cache or the queue full. `KeepsPromise` maps `noted` and the messages in
cache and queue to the variables of `Answers`.

### The MQTT client: `MqttClient`

`client_state`, `keepalive_probes`, `packet_id` are fields of
`iotx_mc_client_t`; `list_pub` is `list_pub_wait_ack` with the packet ids of its
nodes, `invalid` those masked by an acknowledgement. `yielder` is the place in
`wrapper_mqtt_yield`, which one task at a time runs: `Ping` or `NoPing`
(`iotx_mc_keepalive_sub`), `Look` with `Close`, or with `Reconnect`, `Open`,
`Hello`, `Connack` or `NoConnack`, `Again`, `Tell` (`iotx_mc_keepalive`), then
`Cycle` and one of `ReadFails`, `ReadNothing`, `Read` (`iotx_mc_cycle`), and
`Unlist`, `Republish`, `Skip`, `Walked` (`MQTTPubInfoProc`). Any other task is
`Call` (it looks at the state), `Send` (under the locks of list and buffer) and
`Failed` (it writes the state, with no lock held in between).

`link` is the connection. One that is `silent` takes packets and loses them,
until TCP gives up; one that is only `tcp` has no session yet, and a packet that
a task sends there, ahead of the CONNECT packet, makes the broker close it.
`upstream` and `downstream` count the copies on their way, in any order, and are
lost with the connection. A send can time out on a live one in two ways. Its
time, which began before it waited for the locks, is over when it gets them: it
fails with nothing written (`NotSent`). Or the write of TLS times out, which
mbedtls reports to `HAL_SSL_Write` as success, since the record is kept for the
next write, and that one returns without having taken its own packet: a success
whose packet is lost (`Transmit`). `breaks` counts these too. The CONNECT
packet is spared both: nothing is ahead of it, and its time begins with the lock
held. There is no clock: a ping is due, and a message has
waited too long, whenever that makes a difference. Packets without a place in
the list (QoS 0, subscriptions, pings, their answers, commands) are all `Other`:
what counts of them is that they come. `accepted` and `delivered` are auxiliary:
what a publication returned, and what the broker received.

### The dimmable light: `Lighting`

`level`, `target`, `on`, `timer` are the globals of `lighting.c`; `duty` and
`lit` are what the PWM was told. A handler is cut at each access that
`lightness_timeout_cb` can change; the callback runs in the timer daemon and is
one step. A ramp takes 200 ms whatever its length, with a period of two
milliseconds at least: so it does not end in the few instructions between the
start of the timer and the end of the handler (the guard of `Timeout`). That a
handler finds the handle cleared between its test and its use ends in
`configASSERT` and is the state `halted`. The echo of the message to the cloud
has no effect on this state and is left out.

## Runs

| Run | Bounds | Shows |
|---|---|---|
| `wm_timer` | 2 tasks, 2 names, times -1 and 1, 4 calls | the mutex protects the list; the walk stays on it; the service implements `EventTable`; every call returns, unless the daemon has kept the mutex |
| `wm_timer_untimed` (violated) | same | an event is linked and no timer runs |
| `wash_machine` | GuiThread and one task for cloud and shell, minute of 2, hour of 4 minutes, 2 modes, 4 inputs of any kind | after an undisturbed start or stop, state, event, left time and running display agree; left time stays below the hour; reservations are timed; a wash started anew takes its program's time, or what the panel was told; only a rejected drying switch makes the panel show a wrong program; a wash ends, unless the timer service stops timing |
| `wm_report` | 2 processes, 2 properties, 3 changes, 1 press | rounds end; a change made at rest is sent; presses are reported |
| `kv_flash` | 2 keys, 2 values, 3 blocks of 3 items | the store implements `KvStore`; one item per key; a clean block is kept |
| `kv_flash_full` | 2 keys, 2 values, 3 blocks of 2 items, power lost at any step | without a clean block, and with block 0 formatted, no replaced or deleted value comes back |
| `kv_flash_power` (violated) | 1 key, 2 values, 3 blocks of 2 items | a loss of power during one kind of copy loses an item |
| `wifi` | 2 tasks, 2 pairs of which one accepted, 2 sessions, 2 commands, 1 loss of power | nobody gets into a collection; what is tried is what the store holds; sets return, unless a collection could not be started; a pair that stays is tried |
| `linkkit` | 2 tasks, 3 messages, cache of 2, queue of 1 | every message is answered once or lost for want of room; the cache keeps its limit; posts return |
| `mqtt` | 1 task beside the yielder, 2 messages at QoS 1 and any others, list of 2, 1 probe, 2 breaks or sends that time out | publications return the truth; the program knows of the connection; accepted messages are acknowledged once a connection lasts; a dead one is left |
| `lighting` | full brightness 4, 6 messages | a light at rest has the brightness it was told, give or take a step; ramps end |
| `lighting_duty` (violated) | same | a ramp sets the duty cycle to one percent more than full |

Why the bounds are enough. Timer: two names make a walk with a successor, a
time of -1 and 1 an event that fires at once and one that is counted down (a
negative `time_s` is what a negative left time becomes), and four
calls let two tasks start, stop and restart across a period. Controller: the
small minute and hour keep every boundary (59 minutes, zero, negative), and
four inputs of two tasks allow a start, a pause, a change of mode or drying and
another start, with the steps of one in the middle of the other's; the theorems
hold for any number of both. Report: with two properties the index wraps, and a
second process is what it takes to overrun the end. How far it is overrun
depends on the number of processes, so no run checks a bound: it is
proved for the four of this product (`IndexWithinThirteen`). Store: with three blocks one is
clean, one is written, one is collected; two keys in blocks of three items
leave room for several generations of an item. `kv_flash` is symmetric in keys
and values. In the real geometry (16 blocks of 256 KB and two wifi keys) space
is never short; `kv_flash_full` is about a store that is used to its capacity:
two keys and the remains of lost sets are enough to fill blocks of two. Wifi: the second name begins like the first and is longer, the
keys differ, so that a get is refused for its length, a buffer keeps an old end,
and a new value passes for the old one. Linkkit: three messages fill the cache
and leave one over, and a queue of one is full at the second answer. MQTT: a second break comes on
a connection that was made after the first, whose late reports it meets; two
messages fill the list, and one of them goes from its middle; with one probe
and one copy on its way a broker that is slow, and alive, is given up too. Lighting:
four steps have a middle, both ends and a target one step away. Deadlock checking is off because the bounded inputs run out
and because the machine may really idle for ever.

What the passing runs leave out, because the code fails there:

* `WashIsTimed` names what may come into a start or stop of a wash (`raced`).
  `wm_work_switch_changed` writes `work_state` and reads the left time
  (`washing_machine.c:657`, `:658`) before `wm_s_timer_start` waits for the mutex
  (`:195`). If it is a wash under way that is switched on once more, the callback of
  its end can run in between and leave a machine that has finished with an event
  that is timed, or a period, and leave the left time one second behind the event.
  Two tasks can start and stop at once. And a `WorkState` from the
  cloud, or the washing mode that `wm_localtimer_timeout_cb` stores in `work_state`
  (`:266`), begins or ends a wash without its timer. The next start or stop that
  nothing comes into puts all of it right, and the property holds from there.
* `WashEnds` leaves out such a wash too, and ends where the timer service stops
  timing (`Stalled`): the mutex is kept by a period callback (`LeakPermanent`), or
  an event waits in a list whose timer does not run (`wm_timer_untimed`). No fairness
  brings either back, and the wash then goes on for ever.
* `RemoteMinutes` holds no value of an hour: `wm_lefttime_set_handle` stores any
  number of minutes, against "left time shouldn't excet 60 minutes"
  (`washing_machine.c:92`), and `LeftTimeBelowHour` would fail at once.
* `ReservationIsTimed` says nothing of a reservation that is taken back: a
  `ReservationTimer` of 0 stops no event (`washing_machine.c:840`), which fires later.
* `OnlyDrySpoilsProgram` names its exception: after a rejected drying switch
  the panel shows `dry_switch` as the program (`washing_machine.c:1354`).
* `CallsReturn` ends where the daemon has kept the mutex: a period that expires
  while a stop holds the mutex and has just unlinked the last event finds the
  list empty and returns without giving the mutex back ("Error state, no items
  in the timer event list", `washing_machine.c:132`). It stays taken
  from then on (`LeakIsForEver`, proved as `LeakPermanent`).
* `FreshStartIsWhole` leaves out a time set on the panel in a pause: the wash
  goes on without consuming `time_set_triggered` (`washing_machine.c:105`,
  `:651`), and the next one, started anew, takes for its time what is left of the
  old wash ("No need to update time, as time set by GUI").
* `QuietChangeIsSent` starts when nothing is being reported. A change during a
  round, behind its index, only sets `report_started`, which the end of the
  round clears (`washing_machine.c:1267`): it is not sent.
* `SetsReturn` excludes a collection whose task could not be created
  (`kv.c:61`): `gc_trigger` stays set, and every later set waits for ever. It is
  for two callers: `kv_sem_post_all` posts once, so a second waiter would stay.
* The names and keys of `WifiConfig` are shorter than the buffers of the shell
  (`WifiConfigAssumption`; `wiced_iperf.c:263`), which copies them without a look
  at their length: what a longer one does is undefined.
* `SettledIsTried` excludes pairs shorter than what the buffers held before
  (`wiced_iperf.c:192`), the rest of which stays behind them.
* `TriedTogether` is about the store at that moment. A loss of power between the
  two sets, or one that is refused, leaves a mixed pair there, which is tried.
  A pair that only appends to the stored one is taken for the same
  (`wiced_iperf.c:232`) and not stored.
* `EveryPostAnswered` counts a message that finds the cache or the queue full as
  lost; the code drops it.
* The duty cycle of `Lighting` may pass full brightness: a ramp whose level has met
  its target in the first step, which the handler takes, counts on upwards (a
  target one step away, or one that is repeated), to 101 percent, against
  `assert(dutyCyclePercent <= 100);` (`drivers/fsl_pwm.c:447`). `lighting_duty` shows
  it, and `DutyOneAbove` that it goes no further.
* `AcceptedIsAcknowledged` asks for a connection that lasts. A task that failed
  to send writes `DISCONNECTED` late (`iotx_mqtt_client.c:3119`), and so tears
  down the next connection, on which another task fails meanwhile; two tasks
  can keep this up for ever, without the network failing once more.
* `RampEnds` and `Settled` say nothing of a handler that has halted at
  `configASSERT` (`lighting.c:237`, `:278`).
* A store that is full, with the write position in block 0, searches for a block
  for ever, with the lock held (`kv.c:180`): in `KvFlash` such a set has no
  step.
* `PressReported` leaves out a press during the sending of an earlier one's
  event, which the main loop forgets (`washing_machine.c:1498`).
* `kv_flash` excludes a loss of power while an item that stands at its own
  origin is copied. `kv_flash_power` shows that very case. Everything else,
  the other steps of such a collection included, is in.
* `ReserveKept` holds, for any number of blocks, when there are fewer keys than
  items in a block (proved). With two keys in blocks of two and losses of power,
  or with three keys in blocks of one and none, sets
  take the last clean block ("the reserved block for garbage collection",
  `kv_types.h:137`), after which no collection is possible and the next
  `kv_init` formats block 0.

### Fairness

`WmTimer`: weak fairness for the daemon, which has the highest priority and
whose waits for the network have timeouts; strong fairness for the tasks, which
run between two rounds of the daemon (a round is far shorter than the period).
`WashMachine`: weak fairness of the daemon's steps, which are enabled only while
its timer runs and the mutex is not kept, and of each task's handler once it has
begun (the post and the mutex it waits for come back); none of the inputs: users
and cloud owe nothing. `WmReport`: weak fairness of every process and the main
loop, and strong fairness of `Reply` (the cloud answers, and demo_task gets to
see the answer); `RoundEnds` asks for it only while the connection holds.
`Linkkit`: strong fairness of a post (the mutex comes back to each waiter, since
FreeRTOS wakes them by priority and posts are bounded) and of demo_task's turn
from yield to dispatch, weak fairness of handling a reply and of time; none of
`Receive`: replies may never come. `KvCalls` and `WifiConfig`: weak fairness of
the collection task, strong fairness of the callers' steps, which those of higher
priority interrupt, of demo_task's sleep and of a join, which has an end; none
of the commands. `MqttClient`: weak fairness of the yielder, which the main loop
calls for ever, and of the broker's acknowledgements; strong fairness of a ping
and of sending again (their time comes, though not in every round), of a
connection and a session (a network that is tried again and again is there at
last) and of reading acknowledgements (other packets may come first); none of
the calls and none of breaks. `Lighting`: weak fairness of the timer and of the handler.

## Proofs

`WmTimerProofs` proves for any tasks, priorities, names and times:

* `Safety`: `Spec => [](TypeOK /\ MutexProtectsList /\ WalkStaysOnList)`;
* `LeakPermanent`: a mutex that the daemon has kept stays taken;
* `Implements`: the service implements `EventTable`.

The argument is one inductive invariant. Mutual exclusion is inductive together
with types: a process enters the critical labels only by `TakeMutex`, and
`CbEmpty` leaves them without `GiveMutex`, which keeps `owner` and so harms
nobody's exclusion. That the list is injective needs that no start links
a name that is linked, which needs that nobody links between `StartFind` and
`StartAdd`, which is the mutual exclusion. That the walk stays on the list needs
that no task changes it while the daemon is in a callback: the mutex again.
The refinement maps each step to a step of the table or a stutter, under that
invariant. The assumptions are those of `WmTimerAssumption`; the list operations
come from lemmas about `RemoveAt` and injective sequences.

`WashMachineProofs` proves for any programs, times, size of a minute and an
hour, and any number of tasks and inputs:

* `TypeCorrect`: `Spec => []TypeOK`;
* `WashTimed`: `Spec => []WashIsTimed`;
* `LeftTimeLimited`: `Spec => []LeftTimeBelowHour`, if each value in
  `RemoteMinutes` is below the hour;
* `ReservationTimed`: `Spec => []ReservationIsTimed`;
* `FreshStartWhole`: `Spec => FreshStartIsWhole`;
* `OnlyDrySpoils`: `Spec => OnlyDrySpoilsProgram`.

`WashIsTimed` speaks of the moments at which no start or stop is under way.
`TimedInv` says what stands in between: for each place of the one task that is
switching, what of state, event, argument and display has been brought up to date
(`Stands`), and what they are while the callback of the end of the wash runs
(`Settled`), as long as nothing has come in between. `ReservedInv` adds that the
callback of the reservation, which takes the note back, is not the one that
runs. `LeftTimeBelowHour` is inductive beside
`TypeOK`: each handler that lengthens the time passes through `Valid`, and the time
of a fresh program does. `AskedInv` says that a time kept for the next start was
set on the panel since the last one; only a switch that does not end a pause uses
it up, and it forgets it. `OnlyDrySpoilsProgram` needs types only: a handler
either keeps the program of machine and panel, or is about to show it.

`WmReportProofs` proves, from `WmReportAssumption`, `TypeCorrect` for any
processes, and `IndexWithinThirteen` for the four of this product: timer
daemon, demo_task, GuiThread and ShellTask, of descending priority. What they
read is never further than thirteen entries behind the end, and less would be
wrong: TLC finds thirteen in an instance with one property, which is not among
the runs. The invariant `Pushed` gives each process that has written the index
and not returned yet a weight (1, 2, 4, 8, from the highest priority down), and
the index passes the end by less than their sum: a process that is preempted
between its read and its write writes an index that all those above it may have
pushed, and then they can push it as far once more. It rests on the scheduler:
when a process reads, those above it wait for work or for the network.

`LightingProofs` proves, for any full brightness that a byte holds, any requests
and any number of messages, `TypeCorrect` (no byte wraps), `DutyOneAbove` (level
and duty cycle pass full brightness by one at most) and `ComesToRest` (`Settled`). The
invariant says for each place of the handler how the level, the duty cycle and
the timer stand to the target, since the callback may run at each of them.

`LinkkitProofs` proves, for any tasks, priorities, limits and numbers of
messages:

* `TypeCorrect`: `Spec => []TypeOK`;
* `CacheBounded`: `Spec => []CacheWithinLimit`. `Serial` says that whoever is
  between taking and giving the mutex is alone there, and `HasRoom` that room
  that was found is still there at the insertion, since demo_task only removes;
* `Implements`: `Spec => KeepsPromise`. `Once` says that a message waits in
  cache or queue, but not in both, except between `Enqueue` and `Uncache`: so
  none is answered twice.

`WifiConfigProofs` proves `CollectionComesFirst`: `Spec => CollectFirst`, for any
callers of lower priority than the collection task; the collection task is ready
whenever the lock is free, so nobody below it takes the lock. And, whatever the
names and keys that the buffers hold, the commands and the losses of power:

* `TypeCorrect`: `Spec => []TypeOK`, whatever the priorities. The lengths stay
  within the buffers because what is stored under the two keys, and what is about
  to be, does (`ShortInv`);
* `PairTogether`: `Spec => TriedTogether`, if demo_task has a higher priority than
  ShellTask. `PairInv` says who holds the lock (`Held`), that ShellTask does not
  from the first read of the pair to the second, so the store does not change in
  between, and that what was read is what is stored.

`MqttProofs` proves, for any number of tasks, messages and breaks, and any
limits:

* `TypeCorrect`: `Spec => []TypeOK`. That pings do not pass their limit by more
  than one needs `Probed`: beyond the limit the client is not connected, or the
  yielder is on its way to `Cycle`, which resets them;
* `PublishTruthful`: `Spec => []PublishTellsTruth`. `Truthful` adds that only
  accepted messages are in the list and on their way, and that only delivered
  ones are acknowledged: so a node goes only when the broker has its message;
* `ToldTruthful`: `Spec => []ToldTruth`. `Told` adds what holds in between: the
  program was told of the loss when the connection is closed, and while it
  connects again no task takes the client back to waiting.

`KvFlashProofs` proves, for any keys, values and prefixes, any number of blocks
above two and of items in a block:

* `TypeCorrect`: `Spec => []TypeOK`;
* `OneItem`: `Spec => []OneItemPerKey`;
* `NothingReturns`: `Spec => NothingComesBack`;
* `Reserve`: `Spec => []ReserveKept`, if there are fewer keys than items in a
  block (`FewKeys`);
* `Implements`: `Spec => KeepsStore`, if there are fewer keys than items in a
  block, and the power does not fail in the middle of copying an item that stands
  where its original stood (`CopyHome \notin PowerFails`).

The first four hold wherever the power fails, in the middle of `kv_init` and of
a copied item included. The last does not: `kv_flash_power` shows what is lost.
 `Inv` says for each phase which two items of a key may
stand side by side, and what will remove one. In `kv_init` (`StartInv`): the scan
has yet to come to one that is torn or names the other as its origin
(`Doomed`), or one of them is in the block that a collection was filling, and
that block is formatted in the end, since no other is left to collect into
(`Spared`). During a set (`SteadyInv`, `TodoInv`): the old one, which is about to
be deleted and which the new one names. During a collection (`CollectInv`): an
item and its copy. Two items whose blocks are lost or scanned in any order are
never both kept and never the wrong one is: `Truthful` says that a sound item
has the value of its key at the last return or the one being set, which is all
that `NothingReturns` needs.

`ReserveInv` adds that a block with a deleted item is dirty (`Marked`), or will be
when the scan or the call has come to it. So when the last item is put into the
write block with one clean block left, some block is dirty: a full block without
deleted items would hold as many keys as it has items (`FullBlock`). `kv_init`
never has to format block 0 then (`NoSettleClean`).

For `Implements`, `Inv` leaves open that a value is lost, and `KeepInv` excludes
it. `Present`: a key that has a value, and that no call is deleting, has a sound
item in a block that `kv_init` is not going to format (`Lasting`). That block is
one that is in use, or the one a collection was filling, if no other clean one
is left (`Spared`). `CopiesLost`: if `kv_init` formats the block that was being
filled, none of the copies in it makes the scan delete another item first. A copy
has the header of its original, `origin_off` included (`kv.c:371`), and the
scan deletes what stands at that offset if it has the same key (`kv.c:227`);
while a collection copies, the only such item is the original itself, and it
stands there only in the case the hypothesis names (`AtHome`). The refinement is
then step by step: the first step of a call is `Call`; the one that gives up the
lock is `Return`, and its lemma (`CallReturns`) says that a get of each key gives
the value set, or nothing for a deleted one; the loss of power is `Fail`; the end
of `kv_init` is `Restart`; the others change none of the three variables.

Inductions over natural numbers (`Min`, `First`, the traversal) are arguments with
a least element, which the library states for sets (`Least`).

Only model-checked is liveness, since fairness and ENABLED are out of the
prover's reach: `WashEnds`, `RoundEnds`, `QuietChangeIsSent`, `PressReported`,
`RampEnds`, `EveryPostAnswered`, `PostsReturn`, `SetsReturn`, `CallsReturn`,
`SettledIsTried`, `AcceptedIsAcknowledged` and `DeadLinkIsLeft`. Every invariant
and every action property of a passing run is the subject of a theorem.

## Plan

1. Done: timer service, controller, reporting, light, linkkit's answers and
   MQTT client, store with loss of power, collection handshake and wifi pair, each
   with proofs.
2. Proofs: done for every safety property of the runs. New models bring their own.
3. Further models: the boot sequence, in which panel and shell
   can call the controller before `wm_init`; device binding, with its timers and
   its token; the synchronous subscription, composed with `MqttClient`.

## Not modelled

lwip, mbedtls, wifi driver, FreeRTOS itself, USB, SD and board support are
vendored; what the models need of them is external. The generated panel code is
a drawing runtime beyond its setters. The colour light stores and writes three
values. Of linkkit, what is not on the way of a post and its answer: open,
connect and close, services and queries, firmware updates, device binding and
the CoAP server it starts. Of the MQTT client: the synchronous
subscription, which looks at the first node of its list only
(`iotx_mqtt_client.c:2992`) and lists a node after its packet was sent; the
delivery of messages to handlers; a packet larger than the buffer, after which
the type that `iotx_mc_cycle` looks at was never written
(`iotx_mqtt_client.c:641`); a packet that comes in part; release; and ids that
wrap after 65535 messages. The
serial manager's list (`component/lists`) is not used by the product's logic.
Allocations that fail are modelled only for the collection task.
