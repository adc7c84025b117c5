# A TLA+ verification project for the GD32VW553H-EVAL RT-Thread port

The repository is the RT-Thread board support package of the GD32VW553H-EVAL
board (one RISC-V core, Wi-Fi 6 and BLE): the RT-Thread kernel
(`src/rt-thread/src`), its device frameworks (`src/rt-thread/components`), the
board code (`src/board`), drivers (`src/libraries`) and two small applications
(`src/applications`).  The configuration that matters is `src/rtconfig.h`: 32
priorities, 1000 ticks per second, soft timers at priority 4, semaphores,
mutexes, events, mailboxes and message queues; no SMP, no `RT_USING_SMART`, no
message priorities.

This directory models the parts whose correctness depends on the order of
events: in the kernel the scheduler, the mutex with priority inheritance, the
semaphore, the event set, the mailbox, the message queue and the timers; above
it the work queue with its completion, the station side of the WLAN management
layer on the board's driver, and the application that provisions Wi-Fi
credentials over BLE.  TLC checks them on small instances; TLAPS proves, for
every value of the constants, the safety of the mutex with its priority
inheritance, of the semaphore, the event set, the mailbox, the message queue,
the timers and the work queue, that the mutex, the semaphore, the mailbox, the message
queue and the work queue implement what they promise, and what provisioning relies on in
the WLAN layer.  Every invariant and every action property that a run checks is proved;
what stays with TLC alone is liveness.

Paths below are relative to `src/rt-thread/src` unless they say otherwise.

## 1. The system

### Components, their state, operations and hazards

| component | source | state | operations | hard behaviour | what makes it correct |
|---|---|---|---|---|---|
| scheduler | `scheduler_up.c`, `scheduler_comm.c`, `cpu_up.c` | ready queues and bitmap, current thread, lock nesting, remembered switch | insert, remove, change priority, schedule, lock, unlock | switches asked for by interrupts while the scheduler is locked; a thread that has suspended itself and still has the CPU | the highest ready thread runs; a thread's one list node is on one list |
| mutex | `ipc.c` 826–1746 | owner, hold, wait list, priority, ceiling; per thread the taken list and the pending object | take, release, ceiling, detach, delete, drop of a thread | priority inheritance along chains; timeout against release; exit and deletion of owners and waiters | one owner, recorded three times alike; no waiter forgotten; boosts transitive and exact; no unbounded inversion |
| semaphore | `ipc.c` 315–824 | value, limit, wait list | take, try, release, reset, set limit, detach | release against timeout; release from interrupts | no unit lost, made up or granted twice |
| event set | `ipc.c` 1748–2300 | set; per thread the asked or received events and option | recv, send, reset, detach | one send wakes many; `event_set` is request and result | what is received satisfies the request; no event is made up, lost, or both given away and kept |
| mailbox | `ipc.c` 2302–3047 | ring, offsets, entry, two wait lists | send, urgent, recv, control, detach | woken threads get nothing and must look again | bounded queue; nobody sleeps beside a word or a free slot |
| message queue | `ipc.c` 3049–4039 | three linked lists in a pool of blocks, two wait lists | send, urgent, recv, control, detach | blocks are copied with interrupts enabled and are on no list | bounded queue; no block lost |
| thread management | `thread.c`, `idle.c`, `defunct.c` | state, error, thread timer | sleep, yield, priority, suspend, resume, exit, delete | all of these in the middle of another thread's operation | see mutex |
| timers | `timer.c`, `clock.c` | tick, two lists, flags, a semaphore | init, start, stop, control, detach, tick interrupt, timer thread | wrap of the tick; callbacks that change the timer being called; the thread falling asleep | hard timers in their tick; soft timers never early, never slept through |
| work queue | `components/drivers/ipc/workqueue.c` | work list, delayed list, running item, a completion to sleep on, a semaphore to acknowledge with | submit (also delayed, urgent), cancel, cancel and wait, cancel all, destroy; the thread of the queue | calls from interrupts between the thread's look at the lists and its sleep; wrap of the tick; executions against those who wait for them | each request executed once, not early, or dropped by a call that cancels it; the thread never sleeps through an item; who waits is released by the execution it waits for |
| completion | `components/drivers/ipc/completion_up.c`, `completion_comm.c` | a flag and a waiter | wait, done | done against the timeout of the waiter | a done is kept for the next wait |
| other device IPC | `components/drivers/ipc` | ring buffers, data queues, pipes, wait queues, condition variables | put, get, wait, wake | readers and writers at the limits | counts and offsets; no wake-up lost |
| memory | `mem.c`, `memheap.c`, `mempool.c` | free lists, suspended takers | alloc, free | takers that wait for blocks; splitting and merging | blocks disjoint; nobody waits beside a free block |
| object container | `object.c` | lists by class | init, detach, find | objects that go away while they are in use | |
| Wi-Fi driver, WLAN management | `src/board/drv_wlan.c`, `src/board/wifi.c`, `components/drivers/wlan` | flags CONNECT and CONNECTING, saved credentials, a recursive mutex, the link in the SDK | connect, connect with saved info, disconnect, scan, events of the driver | callers at the same time, some looks without the mutex; calls that time out; links that break | no link but the one the layer tells of or is about to be told of; a success is the caller's own |
| BLE provisioning | `src/applications/ble_wifi_provision.c` | credentials, JSON buffer, semaphore, connection index | receive, submit, connect, answer | BLE callbacks against the worker thread, connections that close in the middle of a message | messages are not mixed; the last accepted credentials are tried |
| peripheral drivers | `src/libraries/gd32_drivers` | registers | | serial framework above them | |
| SMP scheduler | `scheduler_mp.c`, `cpu_mp.c` | | | not in this build | |
| network, file systems, USB, POSIX | `components/net`, `dfs`, `usb`, `libc` | | | third-party or without code for this board | |
| interrupt entry, start-up | `src/board` | | | assembly; vendor SDK is a submodule, empty here | |

### How they interact

All of the IPC objects suspend and ready threads through the scheduler
(`rt_thread_suspend_to_list`, `rt_sched_thread_ready`) and give a waiter a
timeout through its thread timer, a hard timer whose callback
(`_thread_timeout`) runs in the tick interrupt.  The mutex changes priorities in
the scheduler and follows other mutexes.  Soft timers run in a thread that sleeps on a
semaphore.  The thread of a work queue sleeps on a completion with a timeout and
acknowledges through a semaphore.  The WLAN management layer is entered through
one recursive mutex by every thread that uses it: the provisioning worker, which a
semaphore released by the BLE task wakes up, and the shell.  The driver
reports to the layer from within the call it serves.

### Where the interleavings are

On one core `rt_spin_lock_irqsave` disables interrupts and `rt_sched_lock`
does too, but plain `rt_spin_lock` (used by the mutex) only locks the scheduler:
interrupts, and with them timeouts and releases, come in between.  What runs with
interrupts disabled is one action in the models; everything else is cut at the
points where an interrupt or another thread can come in.  The `pc` of a thread
names the points.

## 2. Modules

| module | what | extends / uses |
|---|---|---|
| `KSched` | operators on the scheduler state (a record): `Insert`, `Suspend`, `ChangePrio`, `Schedule`, `ExitCritical`, ... | |
| `Mutex` | mutex, scheduler and thread operations composed, one action per stretch of code between interrupt windows | `KSched` |
| `HandoverLock` | what the mutex promises: a recursive lock that goes from owner to waiter without being free in between | |
| `KSchedProofs` | lemmas on lists and on the scheduler operators | `TLAPS` |
| `MutexProofs` | inductive invariants and theorems of the mutex | `KSchedProofs` |
| `KWait` | waiting and being woken for the objects whose code is cut only at `rt_schedule`: `Block`, `Switch`, `WakeOne`, `TimerExpires`, `Resume` | `KSched` |
| `Semaphore`, `Event`, `Mailbox`, `MessageQueue` | the objects, composed with scheduler and timeouts | `KWait` |
| `KWaitProofs` | lemmas on the steps of `KWait`: what each does to the waits; and to the two wait lists of an object that can be empty and full | `KSchedProofs` |
| `SignalProofs` | inductive invariants and theorems of semaphore and event set | `KWaitProofs` |
| `MailboxProofs`, `MessageQueueProofs` | the same of mailbox and message queue | `KWaitProofs` |
| `CountingSem` | what the semaphore promises | |
| `Channel` | what mailbox and message queue promise: a bounded queue with urgent words | |
| `Clock` | the tick counter, how ticks are subtracted, and which times can be compared | |
| `Timer` | hard and soft timers, the tick interrupt and the timer thread | `Clock` |
| `WorkQueue` | the work queue, its thread and its completion, the clients that wait for executions | `Clock` |
| `WorkBag` | what the work queue promises: a bag of requests with due times, dropped only by calls that cancel them | |
| `Wlan` | the station side of `dev_wlan_mgnt.c` on `drv_wlan.c`: one `pc` for each calling thread, the mutex, the flags, the link | |
| `Provision` | BLE task, worker and shell, composed with `Wlan` | `Wlan` |
| `ClockProofs` | wrapping ticks, lists in the order of due times; inductive invariants and theorems of timers and work queue | `Timer`, `WorkQueue`, the lemmas on lists of `KSchedProofs` |
| `ProvisionProofs` | inductive invariants and theorems of the WLAN layer and provisioning | `TLAPS` |
| `MC*` | instances for TLC: names of threads, priorities, the order of locking | |

`PROJECT.json` maps each definition to the lines it translates.  Constants are
parameters of the program (threads, priorities, sizes, what callers ask for) and
`Features` switches groups of operations on in a run.

**Faults.**  A definition `X_Fault` stands before `X` and is `X` with a plausible
bug, for instance `CanReady_NeedsTimer`.  No definition uses it.  Replacing `X` by it
must violate the property that `PROJECT.json` names under "mutants"; this is how each
property is known to be able to fail.

### How state and actions correspond to the code

- `sched.stat`, `.prio`, `.ready`, `.cur`, `.yield` are the fields of the thread
  and the scheduler; `sched.pend` is the switch remembered in
  `rt_scheduler_critical_switch_flag`.  The bitmap is the set of non-empty queues.
- `timer[t]` says that the thread timer is active, `ttmr[t]` is
  `sched_flag_ttmr_set`.  Ticks are not counted in the IPC models: a running
  timeout may expire at any moment when interrupts are enabled.
- `_thread_update_priority` loops with interrupts disabled: `Propagate` is one
  iteration, and no other action is enabled while `chain` names the thread the
  loop is at.
- `_rt_mutex_take` is `TakeAgain`, `TakeFree` or `TakeBlock`, `TakeArm`,
  `TakeSwitch`, then `TakeGranted` or `TakeFailed`, `TakeUnlock`, `TakeReturn`.  Calls
  that fail at once (timeout 0, hold count at its limit) change nothing and are
  not actions.
- `WakeOne` in `KWait` is `rt_susp_list_dequeue` with the `rt_schedule`
  that follows it.  In between, interrupts may be taken, but nothing they do there
  can be told from doing it just before or after, so the two are one action.
- `err[t]` is reset to "ok" when a call of the `KWait` modules returns, because
  nothing reads the old value afterwards.
- A call from an interrupt is one action; interrupts do not nest.
- In `WorkQueue` what runs under the spin lock is one action (`work_list`,
  `delayed_list` and `work_current` change together), and the thread's way from the lists to its sleep is
  cut where interrupts are enabled: `wpc` names the points.  `due` is
  `timeout_tick`, compared modulo `TickMax + 1` as the code compares
  `RT_TICK_MAX / 2`.  `lag` counts the ticks between the computation of the delay and
  the start of the timer, which the code loses too.  A client is a thread in
  `rt_workqueue_cancel_work_sync`, `rt_workqueue_cancel_all_work` or
  `rt_workqueue_destroy`; submissions and
  cancellations come from anywhere.  `rt_workqueue_cancel_all_work` is cut between
  `rt_list_isempty`, `rt_list_first_entry` and `_workqueue_cancel_work` (`CancelAllTest`,
  `CancelAllFirst`, `CancelAllRemove`); `Stray` is the list head that it gets for an item when
  an interrupt has emptied the list after the test, and `CancelAllHead` what
  `_workqueue_cancel_work` then writes into the queue.  `running` is the thread's own
  pointer to the item it executes, since `work_current` may be damaged by that.
- In `Wlan`, `pc[t]` is where thread `t` stands in the layer and `owner`, `hold` are
  the mutex; `connect`, `connecting` and `info` are the state of `_sta_mgnt`,
  `link` is the network of the SDK.  `Enter` is MGNT_LOCK, `Check` to `Clear` are
  `rt_wlan_connect_adv`, `Nested` its call from `rt_wlan_connect`, `ConnectUnlock` the end of
  that.  Between `JoinSucceeds`, the SDK's connect, and `ReportConnect`, the event that sets
  CONNECT, there is a link without the flag, and others may look at the flag or the link may
  be lost.  The other answers of the SDK change link and flags together (`DropLink`,
  `JoinFails`): a link that goes before its flag is what `LinkLost` does at any time.
  The two reads at the beginning of `rt_wlan_connect` (`dev_wlan_mgnt.c:905`), which hold
  no mutex, are one step; they change nothing.
- In `Provision`, `buf` is what the JSON buffer amounts to (nothing, the part with
  the ssid, or something that will not parse), with the connection it came from; `cell`
  is `gd_prov_ssid` and `gd_prov_password`, `sem` the value of `gd_prov_sem`, `wpc` and
  `wcred` the worker and its copy.  One BLE connection is open at a time (the guard of
  `Opened`): `gd_prov_ble_conn_evt` does not look whether there is another one, and with two the
  parts of two messages could meet in the buffer.
- `saw` (`WorkQueue`), `left` (`Timer`), `untried` and the `from` of `buf` (`Provision`) are in no code:
  they remember what a property speaks of, and no guard but that of the
  environment reads them.
- In `Timer`, callbacks are any sequence of the interface's own calls.  The old
  `timeout_tick` of a timer in no list is forgotten; nothing compares it.

## 3. Runs

Each run answers one question.  Threads are `lo`, `mid`, `hi` (and `top`), in this order of
priority, above `idle`.

| run | question | instance | properties |
|---|---|---|---|
| `MutexChain` | inheritance along chains | 4 threads, 2 mutexes taken in order, hold count 2 | `WaitSorted`, `ExactBoost`, `Inherits`, `HighestRuns`, `HandoverToHighest` |
| `MutexClose` | exits, priority changes and detached mutexes in the middle of takes and releases | 3 threads, 2 mutexes | `WaitersListed`, `NobodyWaitsForFree`, `OneList`, `IInv` |
| `MutexRefine` | timeouts, foreign resumes, ceilings, exits, deletions, a detach; refinement of `HandoverLock` | 3 threads, 1 mutex, hold count 2 | `CleanEnd`, `ImplementsLock` |
| `MutexLive` | no unbounded inversion; the priority loop ends on a cycle | 3 threads, 2 mutexes taken in both orders | `HighestGets`, `LoopEnds` |
| `MutexDeadOwner` | does deletion free what the thread holds? (no) | 3 threads | `NoDeadOwner` violated |
| `Semaphore` | units neither lost nor made up; refinement of `CountingSem` | 3 threads, interrupts, limit 2 | `SemInv`, `NobodyWaitsForUnits`, `ImplementsCounting` |
| `Event` | requests, sends and clears | 2 threads, interrupts, 2 bits, FIFO | `EventInv`, `ReceivedAsAsked`, `EventsAccounted`, `SendReachesAll` |
| `Mailbox` | no lost wake-up; refinement of `Channel` | 2 threads, interrupts, ring of 2, 2 values | `MailboxInv`, `NoWordForgotten`, `NoRoomForgotten`, `ImplementsChannel` |
| `MessageQueue` | the same with blocks in flight | 2 threads, interrupts, 2 blocks, 2 messages | `QueueInv`, `NoMessageForgotten`, `NoRoomForgotten`, `ImplementsChannel` |
| `Timer` | in time across the wrap; nothing slept through, nothing lost | 1 hard and 2 soft timers, 8 ticks, timeouts 0, 1 and 2 (soft timers: 1 and 2) | `TimerInv`, `OnTime`, `NeverLost` |
| `WorkQueue` | every request executed once, in time, or dropped by a call that cancels it; who waits is released, and not before; refinement of `WorkBag` | 2 items, 2 clients, 7 ticks, delays 1 and 2, 4 calls | `WorkQueueInv`, `SyncWaitsOut`, `ImplementsBag`, `PendingServed`, `WaitersReleased` |
| `Provision` | BLE clients that come and go, a worker that connects, a shell that interferes, links that break | 2 connections, 2 messages, 4 credentials, 2 shell calls | `StationInv`, `OneSender`, `ConnectedIsTheirs`, `LatestTried` |

The invariant of a module is the conjunction of its type invariant and of the parts that
make its data structures agree: `SemInv` of `SuspendedListed` and `TimersAgree`, `EventInv` of
`NobodyWaitsForEvents`, `MailboxInv` of `OffsetsAgree`, `PlacesFilled`, `WaitersListed` and
`TimersAgree`, `QueueInv` of `BlocksAccounted` and `TailIsLast`, `TimerInv` of `DueIsServed`,
`WorkQueueInv` of `SleepsNoLonger` and `NoUnitLeft`, `StationInv` of `WlanInv` and
`CallIsOwn`.  `CleanEnd` is `GrantedCleanly` and
`TimerOnlyWhenSuspended`; `IInv` of `Mutex` is listed in section 4.

**Bounds and why they are enough.**  Four threads and two mutexes are the
least in which a thread waits among others on one mutex while it is itself lent a
priority through another, so that a wait list has to be sorted again; three threads
give an owner, a waiter and one that interferes.  `MutexClose` leaves timeouts out
and `MutexRefine` uses one mutex with recursion: what the second mutex adds, the
chain, only moves priorities, and the lock's promise does not mention them.  That the
four properties of `MutexClose` hold with timeouts, deletions and two mutexes at once
is not run but proved, for any of these (section 4).
`SetPrios = {1}` is a priority between the two others.  Two blocks or words, and two
senders or receivers, are the least with both ends of a list, a full and an empty
queue, and a word stolen from a woken thread; the interrupt is the third actor.
The message queue runs with finite timeouts only (`Forever = FALSE`); waiting for
ever differs in not starting a timer, and is checked in `Mailbox`.  In `Timer`,
eight ticks make `RT_TICK_MAX / 2` equal 3, timeouts 0, 1 and 2 are all that
`rt_timer_init` accepts, and `MaxLate = 2` is the most lateness at
which the comparison is still meant to work; the two soft timers are symmetric.  Soft
timers are not given the timeout 0, for the reason in section 5.
In `WorkQueue`, seven ticks make half the range 3, delays 1 and 2 stay below it with
one tick of lateness, and the counter wraps.  Two items are the least with an
order in each list, two clients the least with several waiters for one execution;
four calls let an item be submitted, cancelled between the test and the read of the other
client's `rt_workqueue_cancel_all_work`, and submitted again.  `LowCleared` says what
`work_current` is when its lower half is set to 0: in the run no item, in the proofs any item or none.
In `Provision`, the credentials are two passwords for one network, one for another, and a
password longer than the WLAN layer accepts: enough to tell a connection to the
wrong network, a connection with the wrong password and a refusal.  Two
connections let one leave something behind for the other; two messages make one
that is newer than the one being tried; with two calls the shell can connect and then
disconnect, or lock the layer and be called again.

Runs with `CHECK_DEADLOCK FALSE` are those in which all threads may rightly stop:
after a detach, an exit, a deletion, or a deadlock of the program.  The others check it.

**Fairness.**  `MutexLive`: weak fairness of the priority loop, of the next
step of a thread inside an operation (the processor runs code), and of timeouts; strong
fairness of the release of a mutex by a thread that gets the CPU again and again.
Nothing is assumed of a thread outside of critical sections: the middle thread may
compute for ever, which is the point.  `WorkQueue`: weak fairness of the thread of the
queue (it has a priority of its own and nothing above it computes for ever), of the
tick, and of each client inside its call; none of whoever submits or
cancels.  `Provision`: weak fairness of the release of the semaphore that the BLE
task is about to do, of the worker, and of each call under way, whose waits in the SDK and for
events are bounded by timeouts; strong fairness of taking the mutex, because
the wait list of `rt_mutex` hands it to the waiter.  Nothing is assumed of the shell's
next call, of BLE clients or of the network.

## 4. Proofs

Each theorem holds for every value of the constants that satisfies the named
assumptions of the modules concerned, and rests on nothing else.  `ThreadAssumption`
says that the idle thread has the lowest priority, `FiniteThreads` that there are
finitely many threads (so that every wait list ends), `MutexAssumption`,
`WaitAssumption`, `SemAssumption`, `EventAssumption`, `MailboxAssumption` and
`MessageQueueAssumption` that parameters are of the right kind (the last one also that
the pool has a block, and finitely many).  `ClockAssumption`, `TimerAssumption` and
`WorkQueueAssumption` are about ticks and are discussed with the timers.  Each proof finds an inductive invariant, has a
lemma for each action (or for a group of them that do alike) and ends in a temporal step.

`KSchedProofs` says what each list operation returns (`Unlink`, `EnqueuePrio`,
`Without`, ...) and that each scheduler operator turns a state with `SchedInv` into one with
`SchedInv`: a thread is on the ready queue of its priority exactly while it is ready,
once, and only the current thread is running.  `Without` and `InsertAll` are recursive
functions; what they return is proved by looking at the least number for which it would
be wrong (`NatInduct`).

### The mutex

`MutexProofs` proves `THEOREM Inductive == Spec => []IInv` for any threads, priorities,
mutexes, timeouts and features, and from it:

- `TypeCorrect`: `[]TypeOK`;
- `OwnersAgree`: `[]OwnerConsistent`, the three records of ownership agree;
- `NoWaiterForgotten`: `[]WaitersListed`, a thread suspended on a mutex is on its
  wait list and the mutex has an owner; this is why `_thread_update_priority` may
  dereference `mutex->owner` without a test;
- `SchedulerLockHolds`: `[]OnlyRunningHoldsLock`, no other thread gets the CPU while
  one has the scheduler locked;
- `OneListAlways`: `[]OneList`, the one list node of a thread is where its state says;
- `NoLostHandover`: `[]NobodyWaitsForFree`;
- `OneEndOfAWait`: `[]CleanEnd`, the assertions of `_rt_mutex_take` and
  `_thread_timeout` hold;
- `MutexImplementsLock`: `ImplementsLock`, every step is a step of `HandoverLock` or
  leaves it alone.  The waiters of the abstract lock are the threads on the wait list,
  the thread it knows to be closing is `victim`.  The proof needs, beside `IInv`, that nobody
  calls the kernel while a thread is being closed (`VictimFreed`).

`IInv` is `OwnersInv /\ ListsInv`.  Of the first half, `OwnerConsistent` and
`WaitersListed` are not inductive alone; it adds what the
code relies on silently: a thread in an operation knows its mutex (`WantKnown`);
`pending_object` is set only during a take that was not granted
(`PendingOnlyInTake`), so a hand-over and a timeout do not mix; the flag
`sched_flag_ttmr_set` agrees with the timer of a suspended thread
(`TimersAgree`), so `rt_sched_thread_ready` never refuses a waiter and a release
skips nobody; and the scheduler lock keeps its holder on the CPU
(`OnlyRunningHoldsLock`), so that the two halves of an operation are not torn apart.
The second half is about the lists: `SchedInv` for the ready queues, `ListRight` for each
wait list (who is on it is suspended there, and is on it once) and `WaitRight` for each
thread.  `WaitRight` is what makes the others inductive: it says where in the code a thread
can be suspended, that it has then no error and is not the owner of what it waits for, and that a
timeout runs only for a suspended thread whose take has come past `rt_timer_start`.  Without
it a timer could find its thread in the middle of something else.  `MutexClose` checks `IInv`
with TLC.

*Priority inheritance* is exact only where nothing undoes it from the side.  The
hypothesis `PlainTakes` says that takes wait until they succeed and that no ceiling,
change of base priority, deletion or detach is made; threads may sleep, wait, exit, nest mutexes
in any order, also in circles.  This is what `MutexChain` runs.  With a timeout the property
is false: see "A lent priority may stay" in section 5.  Under it:

- `ListsSorted`: `[]WaitSorted`; `BoostIsExact`: `[]ExactBoost`;
  `InheritsAlways`: `[]Inherits`; `HighestAlwaysRuns`: `[]HighestRuns`;
- `HandsToHighest`: `HandoverToHighest`, a mutex goes to a waiter that no other one
  outranks.

These speak of states in which `_thread_update_priority` is not under way.  What holds in the
middle of its loop is `BoostInv`: all wait lists are sorted, all `mutex->priority` are those of
the first waiter and all threads have the priority their mutexes call for, except at one
place, `LoopAt`, the mutex that the thread just changed waits for: there the list would be sorted
without that thread, and the owner may be wrong.  An iteration moves the thread to its
place, which repairs the mutex, and then the owner, which moves the exception to the mutex that the owner
waits for, or ends the loop because nothing changed.  On a circle of owners the exception may come
round, and the invariant is the same.  `HighestRuns` is inductive together with `BoostInv` and
`PlainInv`.

### Waiting and waking

`KWaitProofs` has one lemma for each operator of `KWait` that the objects are made of
(`Block`, `Switch`, `Return`, `WakeOne`, `WakeAs`, `TimerExpires`, `Resume`, ...): the
operator keeps `WaitInv`, and the lemma says which threads leave a wait list or enter one and what
happens to their errors.  `WaitInv` is `SchedInv`, `ListsAgree` (a thread is on a wait list, on one and
once, exactly while it is suspended in a call, and its error is then still the preset one) and
`TimersAgree` (each waiter can be readied).  The proofs about the objects use only
these lemmas, never the scheduler.

Mailbox and message queue have two wait lists each, and neither list is given anything when it is
woken: a thread that was woken looks again, and what it was woken for may be gone.  "No lost
wake-up" is therefore a count.  `WaitsFor(L, n)` says it for both lists alike, with
`n["recv"]` and `n["send"]` for what there is to take and to fill: if anyone sleeps on list
`q`, then no fewer than `n[q]` threads of that list are on their way to look (`Bound(q)`).  One
lemma for each kind of step keeps it, whatever the object is: a thread lies down (`BlockSide`,
needs that `n[q]` is 0), leaves the call or goes on with what it found (`MoveSide`, needs that
`n[q]` has become smaller or is 0, or that the thread was not counted), is switched away
(`SwitchSide`); one more thing is there and one thread is woken for it (`WakeSide`); everybody
is woken (`EndSide`); a timeout, a foreign resume or the end of a time slice
(`ElsewhereSide`).  The object only shows what happens to `n`.

### The semaphore

`SignalProofs` proves, for any threads, limit and initial value:

- `SemaphoreState`: `[]SemInv`, and `NoLostUnit`: `[]NobodyWaitsForUnits`;
- `SemaphoreImplementsCounting`: `ImplementsCounting`.

The invariant adds to `WaitInv` that nobody is on the wait list of a detached semaphore.  The
preset error of a suspended thread (`ListsAgree`) is what the refinement needs: `err` is "ok" for a
thread in the call exactly from the moment `rt_sem_release` dequeues it, so that the
abstract unit is granted there and not where the take returns.

### The event set

`SignalProofs` also proves, for any threads and events:

- `EventState`: `[]EventInv`, with `NobodyWaitsForEvents`: nobody waits for events that are there;
- `EventsAsAsked`: `[]ReceivedAsAsked`;
- `EventsConserved`: `EventsAccounted`, an action property: only what a send sends enters the
  set, a receiver is given nothing that is not there or sent, and what leaves the set was given to a
  receiver that clears, or the set was reset;
- `EventsReachAll`: `SendReachesAll`, an action property: a send reaches exactly those whom it satisfies.

`rt_event_send` walks over the waiters and wakes those whose request is satisfied.  `Served` says who
they are and `Without` what is left of the list; the lemmas show that who is left is not
satisfied by the set before the clears, and so not by what the clears leave.  The invariant
keeps apart the two uses of `thread->event_set`: on the wait list it is the request
(`WaitersAsk`), and after a wake-up without an error it is a receipt for that request
(`FieldsMeanReceipt`).

### The mailbox

`MailboxProofs` proves, for any threads, words and size of the ring:

- `MailboxState`: `[]MailboxInv`; `NoLostWord`: `[]NoWordForgotten`;
  `NoLostRoom`: `[]NoRoomForgotten`;
- `MailboxImplementsChannel`: `ImplementsChannel`.

The invariant is `WaitsFor`, with the offsets (`RingIs`): each send or receive changes the
number of words by one and wakes one thread of the other side, or there is none to wake.
The refinement maps the ring to the sequence of words from the first offset
on; lemmas say that writing at the second offset appends to it, writing before the first one puts a word in
front, and moving the first one takes the tail.  That the places between the offsets hold words that
were sent (`WordsSent`) then follows from the bounded queue, into which nothing else is put
(`SentWords`).

### The message queue

`MessageQueueProofs` proves, for any threads, messages and any pool of blocks:

- `MessageQueueState`: `[]QueueInv`, with `BlocksAccounted` (each block is on the free list, in
  the queue or with one thread, once) and `TailIsLast`;
- `NoLostMessage`: `[]NoMessageForgotten`; `NoLostFreeBlock`: `[]NoRoomForgotten`;
- `MessageQueueImplementsChannel`: `ImplementsChannel`.

The state holds links, not lists.  `Chain` follows the links from a block on; it always
returns something, so what it returns is proved only for links that are known to
be a list (`IsList`, `ChainIs`).  The invariant therefore names the lists: there are sequences
`fq` and `hq` of blocks and a set `W` with `ListsAre`, that is, the links lead from
`msg_queue_free` through `fq` and from `msg_queue_head` through `hq`, both end in RT_NULL, `tail` is
the last of `hq` and `entry` its length, and `fq`, `hq` and `W` share no block and leave none out.
`Owners` makes `W` the blocks that threads copy to or from.  Each place of the code that moves
a block has one lemma about these values: off the free list (`PopLists`), back to it
(`PushLists`), behind the last or before the first of the queue (`LastLists`, `FirstLists`), the first
one out (`UnlinkLists`), all of them to the free list in reverse (`RequeueLists`, RT_IPC_CMD_RESET),
and the list that `rt_mq_init` builds (`InitLists`).  A link is written only in a block that is on
the list concerned or in `W`, which is why the other list does not notice (`SameList`).
That `CopiersOwn`, a thread owns a block exactly while it copies, survives a reset or a
detach in the middle of a copy is what makes the block reach a list again.  The
refinement maps the queue to the messages in the blocks of `hq`; since `mq->max_msgs`
blocks exist, a message that enters finds fewer than that in the queue.

### The timers

`ClockProofs` proves, for any timers, any timeouts below half of the counter (from one tick on
for soft timers), any width of the counter and any lateness, under `ClockAssumption` and
`TimerAssumption` only:

- `TimersServed`: `[]TimerInv`, with `DueIsServed`: a timer that is due is about to be
  called, since the tick interrupt is in `rt_timer_check` or the thread "timer" will look again,
  or it is a hard timer started with the timeout 0 after the interrupt of this tick, which the next will call;
- `TimersOnTime`: `OnTime`, hard timers are called in the tick in which they are due (with
  timeout 0, at the latest in the next), soft timers never before it;
- `TimersNeverLost`: `NeverLost`, a timer leaves its list only to be called or because it
  is stopped.

Due times are compared modulo `TickMax + 1`.
`Age(d, t)` puts a due time `d` on a line, measured from the oldest one that
may be pending at tick `t`: ages run from 0, `MaxLate` is "due now", and one tick of the
counter lowers each age by one, also where the counter wraps.  `DueIs`, `BeforeIs` and
`BehindIs` show
that, for ages in the range that the assumptions leave (`Ages`), the
comparisons of the code, a difference against half the range, are the comparisons of the
ages; from there on the proofs are about integers.  The inductive invariant
`TimerIInv` consists of

- `TimersOK`: each list is in the order of the ages, and the age of each timer on it is what
  it really has left (`left`), which no code knows;
- `TimerFlags`: what is on a list is activated, and the timer being called is on neither list while
  the temporary list of `_timer_check` holds it;
- `HardOnTime`: a hard timer is due only inside the tick interrupt, because the
  interrupt does not return while the head of the list is due, and none is late; but for those with
  the timeout 0, which may be due between two interrupts and one tick late in the second;
- `SoftAwake`: while a soft timer is due, the thread "timer" is at its loop or its semaphore
  holds a unit.

`_timer_check` looks at the head of a list only; `TimersOK` is why that is enough, and the
insertion stops at the first later timer, so the order must hold before for it to hold after.
Two bounds stand for something the code cannot do without.  `MaxLate` is how long the thread
"timer" may be kept from the CPU while a soft timer is due (the guard of `TickInterrupt`): beyond
half the range the comparison would call a very late timer one that is not due yet.
`Comparable` keeps timeouts below half the range, which `rt_timer_init` asserts, and asks also that
the longest timeout and `MaxLate` leave a new and a late timer comparable with each other:
otherwise the new one would be inserted before the late one, and the list would be out of order, which TLC
shows as soon as the assumption is dropped.  At 1000 Hz and 32 bits, half the range is 25 days.

### The work queue

`ClockProofs` also proves, for any items, clients, delays, tick width and number of
calls, under `ClockAssumption` and `WorkQueueAssumption` only:

- `SyncNotEarly`: `[]SyncWaitsOut`, a call of `rt_workqueue_cancel_work_sync` that
  found its item executing returns only after that execution;
- `SemaphoreEmpty`: `[]NoUnitLeft`, what the comment "keep the sem value = 0" in
  `_workqueue_work_completion` claims;
- `WorkQueueState`: `[]WorkQueueInv`, with `SleepsNoLonger`: the thread of the queue never sleeps
  over an item on the work list, nor past the time of a delayed one;
- `WorkQueueImplementsBag`: `ImplementsBag`, every step is a step of `WorkBag` or leaves
  it alone: an item starts at most once for each time it was asked for, not early, and is dropped only
  by a call that was made to cancel it.  That it starts at all is `PendingServed`, which is model-checked.

All of this holds also where `rt_workqueue_cancel_all_work` takes the head of a list for an item.

`SyncWaitsOut` alone is not inductive: the call returns as soon as it finds a unit in
`queue->sem`, so one has to know that there is none while an item executes.
`NoUnitLeft` says where the thread of the queue can be while there is a unit, and that
a client is remembered in `saw` only while an item runs; together with the ranges of
`wpc`, `cpc` and `waiters` (`SyncType`) it is.

The other two theorems are about due times, and use the ages and the lemmas about ordered lists that
the timers use.  The invariant consists of

- `ListsOK`: each item is on one list at most and once, the delayed list is in the order of
  the ages, and no age is out of range.  The loop that inserts an item stops
  at the first later one, so the order must hold before for it to hold after;
- `SleepOK`: while the thread sleeps, or has looked and is about to, its delay is no
  longer than what the head of the delayed list has left plus the time since the look,
  unless the completion is already signalled.  The code computes
  the delay before it unlocks (line 91), and only a submission that signals may break the bound;
- `WaitersOK` and `WorkerType`: who is on the list of the semaphore, and the ranges.

`Left` maps both lists to the ticks that each item has left, and `ListsOK` is stated over
values, so that each operation on the lists has one lemma for what it keeps and what it does to
`Left`.  Both theorems rest on a guard of `Tick`: the clock does not move on while an item is
`MaxLate` late.  As for the timers, this stands for a thread that gets the CPU before half
the range of the counter has passed, and `WorkQueueAssumption` asks that delays are `Comparable`.

### The WLAN layer and provisioning

`ProvisionProofs` proves, for any credentials, connections, messages and calls of the
shell, under the assumptions of `Wlan` and `Provision` only:

- `StationAgrees`: `[]StationInv`;
- `MessagesNotMixed`: `[]OneSender`;
- `SuccessIsOwn`: `ConnectedIsTheirs`, an action property.

The first part is about the WLAN layer alone, with any number of callers: each step of a
call keeps `WlanInv`.  `LinkMatchesInfo`, which says that a link is to the saved network and
that CONNECT tells of it, unless the call that joined has still to report it, is not inductive without `LockHeld` (nobody changes the flags while another call is
between its look at them and the answer of the SDK) and `InfoIsOwn` (what the call saved is
still there when the SDK answers).  `LockHeld` in turn needs the count: a call nested in
`rt_wlan_connect` holds the mutex twice, or its MGNT_UNLOCK would give it away.  It holds
also after a failed scan has left a count behind.  The second part composes the layer
with the worker, whose call is the one it made (`CallIsOwn`); the credentials in `cell` are
those of one message because both parts came over one connection (`OneSender`).
`ConnectedIsTheirs` follows from the invariant and from the fact that only the end of
the worker's own call takes it from `advUnlock` to `idle`.

### What is only model-checked

- Liveness (`HighestGets`, `LoopEnds`, `PendingServed`, `WaitersReleased`, `LatestTried`), which
  rests on fairness and ENABLED: out of the proof system's reach.
- The run `MutexDeadOwner`, which shows a violation.
- Priority inheritance beyond `PlainTakes` is neither checked nor proved: it does not hold there.

No module declares a RECURSIVE operator, so that each can be proved about.

## 5. What was found

**A deleted owner keeps its mutexes** (run `MutexDeadOwner`, `thread.c:106`).
`rt_thread_delete` calls `rt_mutex_release` in the name of the caller, which fails
because the caller is not the owner.

The following are in the models too; the properties are stated so that they hold up to
these cases, and say so.

*Kernel.*

- **A lent priority may stay** (`ipc.c:1488`).  The failure path of `_rt_mutex_take`
  lowers the owner only if the owner's priority equals the current priority of the
  thread that timed out.  If that thread is itself boosted between its timeout and its
  next step, they differ; the owner keeps a raised priority with no mutex held.  The tests expect a "rollback to init_priority"
  (`utest/mutex_pi_tc.c:27`), in cases without the second boost.
- **A reset looks like a message** (`ipc.c:3857`).  Waiting receivers are woken with the
  positive `RT_ERROR`, and `rt_mq_recv` returns it where it returns a length
  (`ipc.c:3761`).

*Work queue* (`components/drivers/ipc/workqueue.c`).

- `rt_workqueue_cancel_work_sync` reads `work_current` with no lock (line 365), while its
  comment promises to block until an executing item is done (line 352).  If
  the item starts after the look, the call returns while it executes.  If the execution
  ends between the look and `rt_sem_take`, the call waits for the end of the next item,
  perhaps for ever.  Called from the work function itself it always does.
- `rt_workqueue_cancel_all_work` tests a list (line 394) and reads its head (line 396) with interrupts
  enabled.  If an interrupt cancels the only item in between, the "item" is the list
  head, and `_workqueue_cancel_work` writes into the queue (`CancelAllHead`).  Unlinking
  the head empties the list, which the call is about to do anyway; `work->flags = 0`
  clears the lower half of `work_current`, or bytes of the name of `queue->sem` in the case of the delayed
  list; `work->workqueue` lies in that name too.  While an item is executed,
  `work_current` is then not this item's address: `rt_workqueue_cancel_work` returns
  RT_EOK for it and not -RT_EBUSY, and `rt_workqueue_cancel_work_sync` returns at once and not when it is
  done (line 352).  The end of the execution sets `work_current` again.  The
  properties hold through all of this (`SyncWaitsOut` speaks of clients whose look found their item).

*WLAN and provisioning* (`components/drivers/wlan/dev_wlan_mgnt.c`, `board/drv_wlan.c`,
`applications/ble_wifi_provision.c`).

- `rt_wlan_connect` returns without MGNT_UNLOCK when its scan fails
  (`dev_wlan_mgnt.c:930`), and the driver never reports a failed scan (`drv_wlan.c:218`), so the
  wait for it times out.  After that only the thread that called gets into the layer:
  `Stuck` in `Wlan`.
- The handler it registers for scan reports keeps the address of a local variable and
  is never unregistered (`dev_wlan_mgnt.c:919`).
- A link that breaks is reported to nobody (the driver registers only for the end of a scan, `drv_wlan.c:232`), although the porting notes list the disconnect event among those mapped
  (`doc/gd_sdk_wifi_ble_porting_notes.md:472`): CONNECT stays set, and the same
  credentials sent again succeed at once with no link.
- The worker stores the default credentials as its first step, when advertising has
  begun: credentials that came before are overwritten (`ble_wifi_provision.c:307`).
- A password of 33 to 64 characters is accepted (`ble_wifi_provision.c:236`) and refused
  later by `rt_wlan_connect_adv` (`dev_wlan_mgnt.c:997`).
- The answer goes to the connection index read when the worker starts
  (`ble_wifi_provision.c:326`), and the result of its second wait for an address is not looked
  at (line 334).

Observations that contradict no document:

- Hand-over in `rt_mutex_release` (`ipc.c:1669`) does not raise the new owner to the
  ceiling; a first take does.
- `rt_mutex_setprioceiling` and `rt_mutex_detach` (`ipc.c:952`) may lower the running
  thread below a ready one without a reschedule; `HighestRuns` is
  checked without ceilings, detach and priority changes for this reason.
- `rt_thread_control` does not re-sort the wait list the thread is in and overwrites
  a boost.
- A receiver woken just before `rt_mb_detach` looks again, finds nothing and waits on
  the dead mailbox.
- Never reached: the branch of `RT_IPC_CMD_SET_VLIMIT` that resumes waiters
  (by `NobodyWaitsForUnits`), the `-RT_EINVAL` branch of `rt_event_send`
  (by `EventTypeOK`), the overflow of the entry counter in mailbox and queue, and the
  retry in `rt_mutex_release` (by `TimersAgree`).
- A soft timer with timeout 0 started when the tick stands at `RT_TICK_MAX` is not
  noticed by `rt_timer_check` after the wrap (`timer.c:765`), though the assertion of `rt_timer_init` permits it
  (`timer.c:277`); timeouts of at least 1 are safe (`DueIsServed`).  Soft timers with timeout 0
  are therefore left out of `Timer` (`TimesOf`); hard timers with timeout 0 are in it, and are
  called in the interrupt after their start.
- `RT_TIMER_CTRL_SET_ONESHOT` in the callback of a periodic timer leaves it
  `ACTIVATED` on no list.
- A periodic hard timer with timeout 0 never lets the tick interrupt return.

## 6. Not modelled

In the modelled parts: hooks, names, the object container's lists, signals, stack checks,
more than 32 priorities, nesting of critical sections deeper than one, thread creation,
`rt_thread_delay_until`, the defunct list; try-calls on semaphores and events from
interrupts; exit and deletion of threads that wait on anything but a mutex (a
receiver deleted after it was woken loses its wake-up); nested interrupts; the skip
list with more than one level; starvation of waiters on a FIFO semaphore; of the
completion, a timeout of 0 and an error number handed to the waiter; of the WLAN layer,
the access point, the protocol layer and lwIP, saved configurations, user event
handlers, automatic reconnection, power save; of provisioning, the JSON text, the
answers and the wait for an address beyond the fact that it ends.

Components that are not modelled at all are in the table of section 1, with the reason in
`PROJECT.json`: memory management and the other device IPC are planned; the GD32
peripheral drivers are register accesses; `scheduler_mp.c` is not part of this build; the
network stack, file systems, USB and POSIX layers are third-party code with
nothing specific to this board, and most of the repository's lines; the interrupt entry is assembly, and
the vendor SDK is an empty submodule.

## 7. Plan

Modules are written in the order of how much depends on them.

| step | modules | abstract specification | theorems | state |
|---|---|---|---|---|
| A | `KSched`, `Mutex` | `HandoverLock` | all safety properties and the refinement (done) | modelled, checked, proved |
| B | `KWait`, `Semaphore`, `Event`, `Mailbox` | `CountingSem`, `Channel` | all safety properties and the refinements (done) | modelled, checked, proved |
| C | `MessageQueue` | `Channel` | all safety properties and the refinement (done) | modelled, checked, proved |
| D | `Clock`, `Timer` | | all safety properties (done); liveness of started timers on a smaller instance is left | modelled, checked, proved |
| E | `WorkQueue` | `WorkBag` | all safety properties and the refinement (done) | modelled, checked, proved |
| F | `Wlan`, `Provision` | | `WlanInv`, messages not mixed, own success (done) | station modelled, checked, proved |
| G | ring buffer, data queue, wait queue, condition variable | bounded queue | counts and offsets | |
| H | memory pool, small memory allocator | free blocks | blocks disjoint | |
| I | serial framework; exit and deletion in `KWait`; idle and the defunct list | | | |
