# A TLA+ model of the OHS gateway

OHS_2-gateway is the firmware of a home alarm and automation gateway: an STM32
with ChibiOS/RT, some twenty threads, wired zones, remote nodes on RS485 and
radio, a modem, MQTT and a web server. This directory models its core in TLA+,
checks it with TLC on small instances, and proves what matters most with TLAPS.

## The system

| Part | State | Operations |
|---|---|---|
| Zone thread (`ohs_th_zone.h`) | `group[].armDelay`, `zone[].lastEvent`, its ALARM bit, the local `val` | every 250 ms: count the arm delays down, convert, decode each zone, post alarm events |
| Alarm event threads (`ohs_th_alarm.h`), three | the event each holds, `wait`, `count` | fetch, wait for a key for up to three periods, raise the alarm, relays, sirens, free |
| Groups and keys (`ohs_functions.h`) | `group[].setting`, its copy in the RTC registers | `checkKey`, `armGroup`, `disarmGroup`, with chains of groups |
| Bus readers (`ohs_th_rs485.h`, `ohs_th_radio.h`) | the frame read | registration, keys, sensors, zones |
| Registration, sensors | `node[]`, `conf.zoneAddress` | register, update, remove nodes |
| Service thread (`ohs_th_service.h`) | timers, zombies, power flags | automatic arming, timers, trigger-off, battery |
| Triggers, scripts (`ohs_th_trigger.h`, `ohs_th_tcl.h`) | script events, semaphores | evaluate, run, call back or time out |
| Logger, alerts (`ohs_th_logger.h`, `ohs_th_alert.h`) | FRAM ring, alert queue | write, decode, route to contacts |
| Block store (`source/uBS.c`) | FRAM blocks, free counters | write, read, rename, delete |
| Radio driver (`source/rfm69.c`) | mode, shared frame, semaphores | send, acknowledge, retry, receive |
| MQTT (`ohs_mqtt_functions.h`, `ohs_th_mqtt_*.h`) | connection, semaphore, queues | connect, publish, subscribe |
| Modem (`source/gprs.c`, `ohs_th_modem.h`) | receive ring | command and answer, SMS |
| Web, shell, commands | - | pages and settings |

The threads share the arrays `group[]`, `zone[]`, `node[]` and `conf` without
locks; they talk through pairs of a pool and a mailbox of equal size, and wait
for each other with semaphores. The kernel is built with
`CH_CFG_TIME_QUANTUM = 0`: a thread keeps the processor until it blocks or one
of higher priority is ready. What is hard, then, is where a thread blocks (a
command sent to nodes takes retries of many milliseconds), what the others do in
that time, and what the threads of low priority (MQTT, http) leave half done
when the zone thread preempts them. `PROJECT.json` lists the hazards, each at
its line.

## Modules

| Module | Models |
|---|---|
| `Alarm` | zone thread, alarm event threads, `checkKey`, `armGroup`, `disarmGroup` and their callers, restart |
| `AlarmPanel` | abstract: what a group promises, after `docs/alarm_state_machine.d2` |
| `UBS` | block store: save, delete, rename, format, block write by block write, with resets |
| `ScriptStore` | abstract: what the block store promises its callers |
| `Scripts` | evaluation of scripts by the trigger and service threads, the tcl thread, the list of scripts and the script page |
| `Heap` | `umm_malloc`: best fit, splitting, merging, the six ways of `realloc`, statistics and check |
| `Radio` | radio driver, radio thread and other senders: modes, lock, acknowledgement, retry, the shared frame |
| `Mqtt` | publisher, subscriber, callbacks, the alert thread's posts, connection, discovery |
| `Nodes` | node table, both buses, registration, sensors, zombies, queues of sleeping nodes, node page |
| `Switching` | on top of `Nodes`: triggers, off-times, timers with `setTimer`, the subscriber's sensor command |
| `Commands` | the table of SMS commands and its dispatcher |
| `Modem` | AT commands and the receive ring by lines, modem thread, commands by SMS |
| `Messages` | on top of `Modem`: logger, alerts by SMS, call, e-mail and MQTT, the wait on a low battery |
| `MC*` | instances for TLC |
| `AlarmProofs`, `UBSProofs`, `ScriptsProofs`, `RadioProofs`, `MqttProofs`, `SwitchingProofs`, `MessagesProofs`, `HeapProofs` | theorems about the modules of these names, each after the lemmas on sequences, numbers and recursion that it needs |

### Alarm

One action is what a thread does between two points where it blocks or where a
thread of higher priority can act on what it has done so far. `zt`, `ae` and
`caller` are the program counters, with the locals that live across a blocking
point. `ZoneMayRun` and `CallerMayRun` are the scheduler: the alarm event threads
run first (NORMALPRIO + 1), threads of equal priority exclude each other between
blocking points, a thread of lower priority is preempted anywhere.

`group` and `bkpGroup` are the array and its copy in the RTC registers;
`enabled` and `saved` the enable bits of `conf` and of its copy in the backup
SRAM. `Reset` is possible between any two steps: what `main()` restores comes
back, the rest starts anew. Bits of one byte are modelled as separate fields; the
read-modify-write of a byte is one step, which is what the compiled bit operations
do except when an interrupt falls into them.

Sensor readings are the letters O, P and T (the ADC bands, `ALARM_OK_LOW` and
so on). A zone that is not read keeps `val` of the zone before it, as the code
does. Time is abstract: sleeps and conversions end at any moment, so the model
has every relation of the threads' speeds, those the clock excludes too.

A mutant (`ZoneTickUntested`, `DisarmUnsaved`...) stands before the definition it
changes; it is what a plausible bug in that code would be, and shows that the
property it is listed with can fail.

### AlarmPanel

Each group has a mode (disarmed, arming, armed, away or home), waits for
authentication or not, and is in alarm or not. `Alarm!ImplementsPanel` maps the
threads' state to it: every step of the threads is one step of one group, or
none. A group comes to wait only when it is armed, and to an alarm from there,
or by a tamper.

### UBS and ScriptStore

A block is its master flag, pointer, name and text; a header of zero, that is
neither master nor text, is a free block. A step of a call is one block write (one
SPI transaction) with the reads and counting that lead to it: `Write` is
`uBSWrite` up to its first write, `PutBlock` and `Trim` are the rounds of its two
loops, `EraseBlock` a round of `uBSEraseBlocks`, `FormatBlock` of `uBSFormat`.
`Reset` may come between any two and ends in `uBSInit`, which counts the free
blocks. `want` and `was` in a call are not in the code: the text to be saved and
what the file held. Texts are units that tell their place, so a text read from
the wrong blocks differs from all that were saved; `DataSize` and `NameSize` are
measured in these units, and lengths are chosen to end at and off a block's end.

Two constants keep apart what the code gets right and what it does not.
`CutGrowth` lets a reset fall between reserving a block and writing it (and into
a format), `OnlyWhileFree = FALSE` lets a new name be saved when the counter is 0.
The run `ubs` has `CutGrowth = FALSE` and `OnlyWhileFree = TRUE`; `MCUBSCut.cfg` and
`MCUBSFull.cfg` lift one of them each.

`ScriptStore` has, of each place, a name and a text or nothing. A call changes the
one script it names at once, or refuses and changes nothing; a reset spoils at
most the script of the call it cuts. `UBS!ImplementsStore` maps blocks to it: a
file is what it was until the call returns.

Calls are serial: the page and the loader use the store one after the other
(no lock is held over a whole call, `uBS.c:83`). The free map and the master map are disabled in
the build (`uBS.h:21`); `uBSFreeSpace` has no effect on the state.

### Scripts

A thread that evaluates a script (the code in `ohs_th_trigger.h` and
`ohs_th_service.h` is the same) takes a script event, looks its script up by
name, resets its semaphore, posts, and waits for the callback or 300 ms. The
tcl thread, of lower priority, loads the list from the store and serves the
events: `TclEval` writes the result through the caller's pointer, `TclCallback`
signals, `TclFree` gives the event back. A request to the page is a text, a name
and a button; its steps end where the block store blocks, which lets the tcl
thread run, and where a waiting thread could find the list half changed (a name
erased before the new one is copied). `late` and `errors` are not in the code.

What a script computes is left out, and so are addresses: an event holds only
the thread it calls back. That a saved text may move while an event points to
it is listed as a hazard.

### Heap

A block is eight bytes; a chunk is a run of them. The fields are those of the
source (`next` with its free mark, `prev`, and the free list's `nf`, `pf` in the body),
and the operators are its functions: `umm_malloc_core`, `umm_assimilate_up`,
`umm_split_block` and so on work on the record `heap` and return it. `data` is what
an owner wrote into its chunk, lost where the allocator writes a header or a link.
`umm_integrity_check` is the source's own. The critical sections are empty in the
build; `Preempt` lets another thread in while `malloc` walks the free list.
`Walk` is the loop that follows a link from block 0 back to 0, along `next` in
`umm_info` (`Chain`) and along the free list in `umm_malloc_core` (`FreeList`); `BestFit`
says which block that scan ends with, the smallest that fits and the first of those.
`umm_info` sums the free blocks and the squares of their sizes, and `iSqrt` is the source's
digit by digit root, one `Digit` at a time.

### Radio

`rfm69Lock` covers one frame. `Listen`, `Busy`, `Transmit`, `PacketSent` are
`rfm69SendFrame`; `Reset`, `Answered`, `Timeout`, `Judge` are what `rfm69Send` does
after its frame; `Look` and `Read` are `rfm69GetData`, which sends an acknowledgement
by the same four steps. `SetMode` empties the FIFO when it enters a receiving mode, as
the chip does. Nodes send data and acknowledge, and whatever comes while the chip does not listen
is lost. `alone`, `got`, `origin` and `handled` are history for the properties. `LateAcks`,
`Overlap` and `Polite` tell apart what the code gets right: no late answers,
overlapping calls, and no time-out while another thread transmits.

### Mqtt

The queue holds what to publish, not its content, which is read when it is
published. `link` and `flight` stand for lwIP's client and the broker: a connection is
refused, made or lost at any time, a request called back or timed out. `counterMQTT`
and `setting.addressError` are the retry logic of `tcpip` and publisher; `lost` and
`unsaid` are history: what the code dropped, and what it never sends.

### Nodes and Switching

`Nodes` has one step for each stretch of code between two blocking calls, so that an
index into `node[]` is held across a send exactly where the code holds it, while
another thread may free the slot or give it away. What a node has in its own memory is `dev`;
a send is delivered or not, and its acknowledgement comes back or not.
`Switching` adds the trigger thread, the service loop and the clock. `setTimer` is
translated with its day masks, and `NextStartIsSet` compares it with a reference (the first
start after now, over every set of days). Days are shortened to `Day` ticks.

### Commands, Modem, Messages

A text is its tokens. The modem's line discipline is modelled by lines: a command
empties the ring, waits for an answer, and may eat an announcement that came in
between. `Messages` adds the log's way to a person: logger, alert thread, the
contacts that want it, and `modemSmsText`, the one buffer that all of them write. `wrong` records
whose text was used for whose purpose.

Both safety properties depend on how many SMS the modem can hold. `gprsGetSMS` does
not compare the number in the echo, so when the reading of one SMS was given up and
its answer comes late, the reading of the next takes that answer for its own: an SMS
is obeyed, and answered, under another's number, and obeyed again when it is
read itself. With two slots, three SMS and two faults TLC finds this in a few minutes; `TextsMix` and
`SmsAccounted` therefore say of several slots only what is true of them, and more of one
(`OneSlot`).

## Runs

| Run | Instance | Shows |
|---|---|---|
| `alarm_panel` | 1 group, 2 PIR zones (one with authentication time), 2 alarm event threads, 2 events, 2 readers | no event is lost or doubled (`EventsConserved`), no zone goes deaf (`ZoneNotDeaf`), no alarm is silent (`AlarmSounds`); the threads implement the panel (`ImplementsPanel`) |
| `alarm_core` | 2 groups chained both ways, a balanced remote zone, 1 reader, automatic arming, resets | what is restored is what was armed (`ArmedIsSaved`); no group is armed and arming (`ArmedIsNotArming`) |
| `alarm_net` | 1 group, MQTT and http threads below the zone thread, enabling, saving, resets | delays, chains and the threads' events stay in range under preemption (`TypeOK`) |
| `alarm_live` | 1 group, 1 zone with tamper, 2 events, 1 alarm event thread, 1 reader, needed zone | a report ends in an alarm or a disarm (`ReportLeadsToAlarm`); arming ends (`ArmingEnds`) |
| `ubs` | 4 blocks of 2 units (the name is 1), texts of 0, 2 and 5 units, that is one to three blocks, 2 names | one chain per block (`OneChainPerBlock`), OK means stored (`OkMeansStored`), only resets lose blocks (`OnlyResetsLose`), the free counter never promises too much (`NeverOverstated`), a call harms no other script (`ImplementsStore`) |
| `scripts` | 1 waiting thread, 2 events, 2 names, 2 texts, 2 places, 1 error | only a late callback spoils a result (`OwnResult`), only a missing name loses an event (`EventsConserved`, `LostWithTheName`), what runs is what is stored (`ListIsStored`) |
| `heap` | 9 blocks, 3 owners, sizes of 4, 5, 13 and 28 bytes: one to four blocks, at both sides of a boundary | the source's check holds (`Integrity`), free chunks are merged (`NoFreeNeighbours`), bytes stay with their owner (`ContentKept`), nothing leaks (`NothingLost`), a call fails only when no run of free blocks is long enough (`FailsOnlyWhenFull`), the fragmentation shown is zero exactly for one piece (`ZeroMeansOnePiece`) |
| `radio` | radio thread and 1 sender, 2 nodes, 2 attempts, 1 data frame, 3 calls | OK means that the node got the frame (`OkMeansReceived`), a frame is handled whole and once (`FrameIntact`), the idle chip listens (`NotDeaf`), every call returns (`CallsEnd`) |
| `mqtt` | 1 group in discovery, 1 zone, a pool of 2, reconnection at every 2nd tick, 2 outer events | objects are conserved (`Conserved`), the semaphore comes back (`SemComesBack`), the broker knows or the loss is known (`BrokerIsTold`), the client reconnects (`Reconnects`) |
| `switching` | 11 kinds of configuration of one to three nodes: off-time, off by value, script, key, page, a slot that changes hands, every set of days with 2 start times, period timer | a node has one slot (`OneSlotPerNode`), the table tells the truth about outputs (`Agree`), none is left on (`OnIsArmed`), a timer is set to its next start (`NextStartIsSet`) |
| `messages` | 6 scenarios of log entries, an SMS, a fault, e-mail, MQTT's SMS, low battery; 2 contacts | whose text may be in the shared buffer (`TextsMix`), no SMS is lost unexplained, or, with the one slot of the run, obeyed twice (`SmsAccounted`), the modem recovers (`Recovers`), the wait ends (`BatteryWaitEnds`) |
| `alarm_reject` | as `alarm_live` | a disagreement between code and comment, below (`CannotArm`) |

Bounds. Two groups suffice for a chain that comes back to its master, and for a
save by one thread while another changes a different group. Two events and two
threads suffice for the hazards between events of one group (a second event
while the first waits, a stale one after a disarm). `ArmDelay`, `TicksPerUnit`
and `HomeTicks` are 1 or 2, so that a delay is counted, ends, and is
interrupted; `MCAlarmDelay.cfg` takes the real numbers. `AlarmSounds` and
`ImplementsPanel` are checked where there are as many alarm event threads as
zones: with fewer, `MCAlarmStale.cfg` shows what happens. `alarm_panel` uses symmetry of
events and of threads, `heap` of owners; neither has a liveness property.

In `ubs` four blocks hold one script of three blocks and another, so that chains
grow, shrink and compete for the last block; a longer chain repeats the middle
block. `scripts` has one waiting thread: two threads share the pool and the
mailbox only, and the page's Run button is the second user of both; with two
threads and `MaxErrors = 0` the same properties hold. Two scripts suffice for a
name given twice and for an index into the list that moves. `MaxErrors` bounds
how long the page is used after it has shown an error.

In `heap` three owners hold two neighbours and one beyond, so that a free or a
`realloc` meets a free chunk below, above, on both sides and on neither. In `radio` three
calls let one follow two that overlapped, and its answer meet what they left; one data
frame at a time is all the FIFO holds. `mqtt`'s pool is smaller than what discovery
sends, so that it overflows; `MaxEvents` bounds outer events so that the client may come
to rest. In `switching` a table of two slots makes a node lose its slot to another, and `maxTime` is a whole
week of days for the calendar timers. `messages` names in each scenario the few events
that meet in it; all of them at once adds no new pair.

Fairness. In `alarm_live` the alarm event threads have the highest priority and
block only in sends and sleeps that end: weak fairness. The zone thread and an
open call share the processor with threads of their priority, each of which
blocks again and again, so each is served in turn: strong fairness. Nothing is
assumed of people, nodes or zones. A reset may come at any time, so liveness is
stated without resets. In `radio` every thread's step is weakly fair; taking `rfm69Lock` is strongly
fair, as ChibiOS queues the waiters of a semaphore in order; nothing is assumed of nodes. In `mqtt` the
threads run, and lwIP either opens a connection or fails and calls back every request of
an open one; lookups, losses and refusals are free. In `messages` the threads run,
the modem's lines arrive, e-mails end, and the alert thread's turn at `gprsSem`
comes (strong, by its queue), all while the battery has not stopped the system (`Fair`); faults are
bounded, which is what "recovers" means.

## Findings

* `alarm_reject`: `checkKey` arms after it has rejected: the `break` leaves only
  the loop over the zones.

Other deviations were met while modelling. Each has a configuration that reproduces
it; they are not among the runs, and the hazards in `PROJECT.json` refer to them.

| Configuration | Module | Violated | What it shows |
|---|---|---|---|
| `MCAlarmDelay.cfg` | `MCAlarmLive` | `ArmDelayHonoured` | `conf.armDelay` is in quarters of a second, and so are the passes of the zone thread, but `armGroup` multiplies by four into a `uint8_t`: 80 (20 s) becomes 64 passes (16 s); 64, 128 and 192 become none, and the group never arms |
| `MCAlarmSiren.cfg` | `MCAlarmLive` | `SirenMeansAlarm` | a disarm while the alarm is being sent to the key nodes leaves the relays on and no group in alarm |
| `MCAlarmStale.cfg` | `MCAlarmPanel` | `PirAlarmOnlyWhenArmed` | an event that waited in the mailbox brings a disarmed group to an alarm, when more zones trigger than alarm event threads are free |
| `MCAlarmDeaf.cfg` | `MCAlarmNet` | `ZoneNotDeaf` | an MQTT disarm preempted between the zones and the group's bits: the zone reports, waits, and is disarmed with its ALARM bit still set, so it never reports again |
| `MCUBSFull.cfg` | `MCUBS` | `OkMeansStored` | a refused save has already taken a block off the free counter; it wraps, and the next save writes outside the store and returns OK |
| `MCUBSCut.cfg` | `MCUBS` | `FreeMeansUnused` | a reset between two block writes leaves a pointer to a free block, which another script then gets |
| `MCHeapRace.cfg` | `MCHeap` | `NoSharedMemory` | with empty critical sections, two threads in `malloc` may take the same chunk |
| `MCRadioHang.cfg` | `MCRadio` | `SendEnds` | a time-out sets the receiving mode while another thread, with the lock, waits for PACKETSENT, which then never comes |
| `MCSwitchingRace.cfg` | `MCSwitching` | `OffTimeEndsIt` | an event that meets the switching off by time leaves an output on |
| `MCSwitchingScript.cfg` | `MCSwitching` | `ScriptOffTimeEndsIt` | a script that says no to a later event, or has not answered it yet, when the off-time ends: the output stays on and the mark is cleared |

Others that the models have and no property forbids: a late callback gives its
result to the thread's next script (`OwnResult` says when), an event whose script
is not in the list is lost for ever, so that renaming a script that a timer uses
ends all scripts after five firings (`LostWithTheName`); `disarmGroup` clears the
relays of other groups in alarm too; an enabled remote zone that is not
connected is judged by the value of the zone before it; a node that gets a slot while a
send for its former owner is under way shows the value that was sent to the other (`Agree`
says when the table is right); and what is published while
MQTT is down is not sent again, but for the zones' states.

## Proofs

Every theorem rests on the named assumption of its module's constants
(`AlarmAssumption`, `UBSAssumption`, `ScriptsAssumption`, `MqttAssumption`,
`RadioAssumption`, `NodesAssumption`, `SwitchingAssumption`, `ModemAssumption`,
`MessagesAssumption`, `HeapAssumption`), which TLC evaluates in
the runs, and on what its statement says. They hold for any number of zones, threads,
events, blocks, scripts, nodes, topics, contacts, SMS and owners of memory. A lemma that two
proof modules need, on injective sequences, least numbers, recursion or division, is
stated in both.

`AlarmProofs`:

* `TypeCorrect == Spec => []TypeOK`, by one lemma per thread. It says more than
  types: a chain of calls makes at most as many hops as there are groups and one, the delay is a
  byte, an event thread past `fetch` holds an event.
* `ArmedNotArming == EqualPriorities => (Spec => []ArmedIsNotArming)`. The property
  is not inductive: `armGroup` tests the bit and sets the delay in two steps. The
  strengthening `ArmingInv` adds that a caller between the two has a group that is
  not armed, that the saved array has the property as well (for resets), and
  that at most one of the zone thread and the callers is between blocking points
  (`OneRunner`), which is where the equal priorities come in. For callers of lower
  priority it is false: the zone thread can arm the group between test and assignment.

* `EventsAreConserved == Spec => []EventsConserved`: each object of
  `alarmEvent_pool` is in the pool, in the mailbox or with one event thread.
  `TypeOK /\ EventsConserved` is inductive. The step that needs an argument is the
  zone thread's post: it would lose the object if the mailbox were full.
  `PostSucceeds` counts: the mailbox holds each event at most once and not the
  one just taken, an injective sequence is no longer than its range is large
  (`InjectiveLength`), so it holds fewer than there are objects, and it has as many
  slots as there are objects.
* `PostNeverFails`: while an object is free, the mailbox has room.
* `ResetFindsWhatWasArmed == Spec => []ArmedIsSaved`, for callers of any priority.
  It is inductive with the types: whoever changes a group is then, until its own
  save, between the two, and a save writes the whole array.
* `NoSilentAlarm == NGroups = 1 => (RunningSpec => []AlarmSounds)`. One group, because
  `disarmGroup` of one clears the relays of all; without resets, which clear the
  relays and restore no alarm.
* `ReportIsHeard == Webs = {} /\ EqualPriorities => (Spec => []ZoneNotDeaf)`, by
  `DeafInv`: a zone's ALARM bit has an event, an event thread or a disarm that answers
  for it (`Heard`), waiting events are of enabled groups, and a caller about to clear a
  group's bits has cleared its zones, none of which has reported since. The last
  part is what an MQTT caller, preempted there, breaks (`MCAlarmDeaf.cfg`), and the
  group page disables groups under waiting events; hence the two hypotheses.
* `PanelIsImplemented == EqualPriorities /\ ThreadsEnough /\ Delays => (RunningSpec =>
  ImplementsPanel)`, the refinement. `GroupMoves` says which changes of one group are
  steps of the panel, and there is one lemma per thread that it makes no others.
  `PanelInv` says that an event in the mailbox still has its cause (`Lawful`), that it is
  fetched before anything else runs, and that only an armed group, or one of a zone with a
  tamper, waits for a key.
  The three hypotheses are needed: with fewer event threads than events an event waits in the
  mailbox while its group is disarmed (`MCAlarmStale.cfg`; the code has three
  threads and ten events), a caller of lower priority can be preempted between its
  test and its write, and a delay that wraps to 0 arms a group in no time.

`UBSProofs`, for `Careful == OnlyWhileFree /\ ~CutGrowth`: no new name is saved while
the counter is 0, and no reset comes while a block is reserved and not yet written.
Without the first the counter wraps (`MCUBSFull.cfg`), without the second a chain leads
to a free block (`MCUBSCut.cfg`); the theorems are false there.

* `ChainsAreApart == Careful => (Spec => []OneChainPerBlock)`. What is said of chains is
  not inductive; what is said of single pointers is. `Graph`: no two pointers are the
  same, each leads into the store and none to a master block, and a free block has none.
  A path from a block that nothing points to then meets no block twice, so that it ends, as
  there are only so many blocks (`RootPath`), and meets no other such path (`RootsApart`).
  That a round of `uBSWrite` keeps this rests on what it has still to do:
  `PutInv` says that the old chain goes on for as many blocks as it will reuse (`Run`),
  that the next block is free once it is used up, and how much text is left (`Needs`,
  `Left`), `OnlyReservedFree` that only the call that has reserved a block points at a free one.
* `CounterIsHonest == Careful => (Spec => []NeverOverstated)`, by `Counted`: the counter
  is at most the number of free blocks but for the one that the call has been given.
* `BlocksAreKept == Careful => (Spec => OnlyResetsLose)`, an action property. The blocks that
  are free, in a script or still to be erased are the least set that holds those the store
  knows and is closed under the pointers (`ReachedIsClosed`, `ReachedIn`); so a step
  loses no block if it changes one pointer and what that led to is known after it.
* `SavedIsRead == Careful => (Spec => OkMeansStored)`, an action property, by `WrittenInv`:
  the blocks written so far lead from the script's first block to the next one, and what they
  hold and what is left make up the text (`Stored`); and by `NamedInv`: the script is the first of its
  name. The recursive functions `Path` and `Joined` exist by `Recursion`.
* `StoreIsImplemented == Careful => (Spec => ImplementsStore)`, the refinement of
  `ScriptStore`: there is one lemma per action, and `OthersStay` says that writing a block of one chain
  changes what no other chain holds. A call shows what was until it ends.

`ScriptsProofs`: `IInv` says where each event is (`OnePlace`) and that of a thread that
waits, with nothing given up before, only the event it waits for is under way
(`OnlyItsOwn`).

* `EventsAreConserved == Spec => []EventsConserved`
* `ResultIsOwn == Spec => []OwnResult`
* `OnlyMissingNamesLose == Spec => []LostWithTheName`: a post never fails, by counting.
* `ListAndStoreAgree == Spec => []ListIsStored`, by `ListInv`: within a command the list and
  the store differ in the script that it names and in no other, and while scripts are
  loaded the list is what the store holds up to the place reached.

`MqttProofs`: `ObjectsConserved == Spec => []Conserved` and `SemaphoreComesBack ==
Spec => []SemComesBack`; and `NewsReachesBroker == Spec => []BrokerIsTold`, whose
invariant (`Told`) says of each topic that the last message queued for it, in the
mailbox, in hand or in flight, will tell what is true when it is published; what a
message carries from the time of its queueing must then still be so.

`RadioProofs`, for `~LateAcks` and whatever `Overlap` and `Polite` are:

* `OkIsTrue == ~LateAcks => (Spec => []OkMeansReceived)`
* `FrameIsWhole == ~LateAcks => (Spec => []FrameIntact)`

Neither is inductive. `IInv` adds that the thread that sends has the lock and the chip
in its mode (`Locked`), that a call not joined is alone (`Alone`), that a node owes an
acknowledgement only to a call that it got a frame of (`OwesGot`), that the chip waits for
and holds one only while some call does (`AckAwaited`), so the reader never takes one
for data, that a call alone finds the frame it was signalled (`Answer`), and that data
frames are read in their order (`Numbered`).

* `NeverDeaf == ~LateAcks => (Spec => []NotDeaf)`: by `HeardInv`, a chip in standby
  or transmitting has a thread that waits for it, and the radio thread has been told of a
  frame held.

`SwitchingProofs`, about `Nodes` and `Switching` together:

* `OneSlot == Spec => []OneSlotPerNode`. All threads but one keep a slot's name or clear it
  (`NamesKept`). The registration thread writes a name that is in the table where it is, and
  a new one where there is none (`RegistrationKeeps`), as 255, for "not found", is no
  index: the build refuses a `NODE_SIZE` of 255, and `NodesAssumption` says so.
* `TableIsTrue == Spec => []Agree`. A step is `Calm`, in that it keeps the values in the slots
  of outputs, or is the end of a send (`Sent`), or the registration thread's. Calm is what needs
  an argument. `checkKey()` sends for seconds and then writes into the slot it looked
  up before: that slot is still the key's, for it was heard of in this second
  (`KeyHeld`), so no clean-up took it, and no registration takes a slot in use.
  The clock of the model waits for open calls, so that a call ends in the second it
  begins in; in the code it takes seconds, and a node is forgotten after an hour.
* `NothingStaysOn == NumbersAgree => (Spec => []OnIsArmed)`, by `OnInv`: what a trigger or a
  timer has on is its own output (`AimInv`), which is marked for switching off
  (`OnTrigger`, `OnTimer`) at most the run away (`TimesInv`), also while the service
  thread looks at it or waits for its script (`StartInv`). `NumbersAgree`: the off-time of
  a trigger looks the output up in the timers by the trigger's number, and finds it only when
  a timer of that number has the same output.
* `SetToNextStart == RunsFit => (Spec => NextStartIsSet)`, an action property, by
  `PeriodInv` (a period timer that has started is never more than a period late), by
  `Division` and `Times`, and by `DaysAheadFound` (the search through the week finds the first
  day that is on). A run longer than its period makes the code set a start in the past,
  which `RunsFit` excludes.

`MessagesProofs`, for any number of slots, faults, resets, contacts and entries:

* `SmsAreAccountedFor == Spec => []SmsAccounted`. What is announced and still to come
  is `Pending`: the announcements on the line and in the ring, where each SMS has at most one
  (`Apart`, which needs lemmas on announcements in concatenated, cut and shortened
  sequences of lines). Nearly every step is `Ordinary`: it loses a set of announcements,
  maybe none, marks just those as missed, and deletes an SMS only when it has been read.
  `SlotInv` and `ObeyInv` survive every ordinary step by one argument each; what remains is
  that a command, a read line, an emptied ring and a reset are ordinary, and the three steps that
  are not or that count: `SmsArrives`, the announcement taken by `ModemReads`, and
  `ModemObeys`. `ObeyInv` adds that an SMS being read has not been obeyed yet.
* `TextsMixAsSaid == Spec => []TextsMix`, by `TextInv`: while the modem's thread reads
  an SMS only its command is under way (`Owned`: who uses the modem has it), so by the end of
  the answer the number of a call is no longer in the buffer (`GetInv`); the SMS of an alert
  come before its calls (`SmsFirst`, of the recursive `Recipients` by induction in `RecipientsType`),
  so until the first call only a line or an SMS can have replaced the alert's text (`AlertInv`).
* `MessagesTypes == Spec => []TypeInv`. More than types: no more lines are counted than the
  ring has, a text called an SMS is one of a slot, the alert thread uses the modem
  only with something left to do.

`HeapProofs`, for any number of blocks, sizes and owners, when no thread runs inside the
call of another (`~Preempt`; with `Preempt`, `MCHeapRace.cfg` shows that memory is shared).
Sizes asked for are below 512 KB (`HeapAssumption`), where `umm_blocks` wraps; the
controller has less memory.

* `HeapInvariant == Spec => []HeapInv`. `HeapInv` says that there are a set `S` of
  blocks and a set `F` of free ones among them for which the heap is good (`Good`): the
  blocks of `S` are linked both ways in ascending order from 0 to the last; those
  of `F` are linked both ways in a ring through 0, on which some number grows, and are just
  those marked free; no two neighbours are free. Further, each used block is held by
  one owner and has the size asked for (`Held`), owners' bytes are in their memory
  (`Contents`), and who is between scan and change has found a free block (`Scanning`). None of
  what the runs check is inductive: the source's check walks the chain, and the walk
  says nothing of the sets a call changes.
* Each function of `umm_malloc.c` gets a lemma, from a good heap to a good heap with other sets:
  `DisconnectGood`, `PushFreeGood`, `SplitGood`, `MergeGood`, `AssimilateUpGood`,
  `AssimilateDownGood`, `TakeGood`, `FreeCoreGood`, and for the six ways of `realloc`
  `ReallocFitGood`, `DownGood` and `TrimGood`. They rest on what a doubly linked ring is after
  one block has left it, come to its front or been replaced (`RingRemove`, `RingPush`, `RingReplace`),
  and the same for the chain (`ChainMerge`, `ChainSplit`). `Writes` says what a call may have
  written, headers of blocks of `S` and links of free ones; so memory in use
  is untouched (`UntouchedBy`).
* `WalkIs`: a walk along such links meets every block once, in order of the number that
  grows, and ends within as many steps as there are blocks. It ties the loops of the
  code to the sets: `ChainWalked`, `FreeWalked`, `BestFitFits`, `GoodIsSound`.
* `HeapIntegrity`, `FreeIsMerged`, `BytesAreKept`, `NoLeaks`, `MemoryIsNotShared`,
  `OnlyFullHeapsFail` and `HeapTypeOK` follow from the invariant; `BytesAreKept` is about bytes a `realloc`
  moves, down into the free block before or to a new one, as well as about the others'.
* `FragmentationIsTrue`: `InfoIs` shows that the sum of squares is at most the square of the
  sum, and equal to it just when there is at most one free block (`Summed`, along the chain);
  `RootIsRoot` that the loop of `iSqrt` finds the whole root of any 32-bit number but 0, with the
  invariant `Reached` of its digits; and `RatioIsFull` that the truncated percentage is 100
  just when the root is the sum.

Only model-checked: the liveness properties, which are out of the prover's reach.

## Not modelled

The shell; date, peripherals and heartbeat (the watchdog is the reset); the Tcl
interpreter, but for its commands' place in `Scripts` and its memory in `Heap`; page
generation and form parsing, and the pages of settings, log, contacts, keys, triggers and
home; the texts of messages and the second command table, of MQTT; the FRAM's log
ring; register values, power control and encryption of the radio; the RS485 driver, which is a
send that succeeds or not; HTTP over the modem. The check of key hashes is left out:
`KeyPress` is the press of a known, enabled key. `PROJECT.json` says of each component
what of it is left out.

The components are checked one by one, and composed where they share state (`Switching`
over `Nodes`, `Messages` over `Modem` and `Commands`). A composition of all would have
no more shared state than the log, whose entries the modules take as given.

## Plan

Done: all of the modules above, their runs, and the proofs listed. What is left, in
the order of its worth:

1. `UBS` with calls by two threads at once.
2. The log ring in FRAM and the pages that edit triggers and timers while they run.
3. `alarm_net` merged into `alarm_core`, to make room for `MCAlarmDeaf.cfg` as a run with a finding.
