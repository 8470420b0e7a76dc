# TLA+ models of skiboot

skiboot is the OPAL firmware of OpenPOWER machines. It boots the machine, and
stays resident: every CPU of the running OS calls into it, concurrently, with
interrupts off and without preemption. This directory holds TLA+ specifications
of the concurrent core of that firmware, TLC configurations that check them on
small instances, and TLAPS proofs of what matters most.

Everything here is translated from the C and assembly code. Definitions carry
the names of the functions and variables they model; `PROJECT.json` ("map")
gives the lines of each.

## 1. Inventory

### Parts that are modelled

| Part | State it keeps | Operations | Interacts with |
|---|---|---|---|
| Spinlocks (`core/lock.c`) | `lock_val` of each lock, per-CPU `locks_held`, `con_suspend`, `requested_lock`; `dl_lock`, `bust_locks` | `lock`, `try_lock`, `lock_recursive`, `unlock`, `drop_my_locks`, `init_locks`, the deadlock walk | everything; the console through `con_suspend` |
| Timer core (`core/timer.c`) | ordered list, poll list, a private list while polling, `t->running`, `t->target` | `schedule_timer`, `cancel_timer`, `cancel_timer_async`, `sync_timer`, `check_timers` | pollers and interrupts call `check_timers`; it tells the SBE the next expiry |
| SBE mailbox (`hw/sbe-p9.c`) | message queue, mailbox state, message states | queue, cancel and sync of messages, doorbell handling, timeout poll | the SBE through a doorbell; completion functions of the users |
| SBE timer (`hw/sbe-p9.c`) | one reused message, `sbe_timer_in_progress`, `has_new_target`, `timer_update_cnt`, targets | `p9_sbe_update_timer_expiry`, completion of the message, expiry | timer core above, mailbox below |
| CPU jobs and idle (`core/cpu.c`) | job queues and counts, `in_idle`, `in_sleep`, `in_job_sleep`, `nr_cpus_idle`, `reconfigure_idle`, `pm_enabled` | queueing, waiting and running of jobs, idle and sleep, switching of sleep states, start and return of CPUs | IPIs, the OS |
| OPAL entry and quiesce (`asm/head.S`, `core/opal.c`) | `in_opal_call` and `quiesce_opal_call` of each CPU, `opal_quiesce_state`, `_owner`, `_target`, `bust_locks` | `opal_entry`, `opal_quiesce`, its use for a reboot | every OPAL call; locks; fast reboot |
| OPAL messages and events (`core/opal-msg.c`, `core/ipmi-opal.c`, `core/opal.c`) | free and pending lists, the queue of IPMI responses, `opal_pending_events`, the dummy interrupt | `_opal_queue_msg`, `opal_get_msg`, `opal_check_completion`, `opal_send_complete`, `opal_ipmi_recv`, event updates, polling | the OS, which learns of messages by events; consumed callbacks |
| Console output (`core/console.c`) | the ring, `in_flush`, `more_flush`, `con_suspend` and `con_need_flush` of each CPU | `console_write`, `flush_console`, `set_console`, suspend and resume by locks | a slow driver, written to with `con_lock` dropped; locks |
| IPMI and BT (`core/ipmi.c`, `hw/bt.c`) | two queues, the message in flight, sequence numbers, `sync_msg` | queueing, synchronous messages, poll, responses, timeouts, retries, reset of the interface | the BMC over LPC; completion functions of the users |
| Flash behind the BMC (`libflash/ipmi-hiomap.c`) | `bmc_state`, `window_state`, the current window | initialisation, read, write, erase, events, recovery, exit | the BMC by IPMI commands, SEL events and the LPC window |

### Parts that are not (yet)

`PROJECT.json` lists every part of the repository with the reason why it is left
out. In short: *in the plan* (section 7) are the allocators, trace buffers, I2C,
PCI slots and the rendezvous of fast reboot and of HMI recovery.
*Out of reach* are register sequences of PHB, NPU, NX and the like, for which
there is no model of the device to check them against. *Sequential* code that
parses or builds records and trees (device tree, HDAT, VPD, nvram, PEL, secure
boot) is better tested than model-checked. Vendored code is left alone. These are
by far the larger part of the repository: what is modelled here is its concurrent
core, a small part of its lines.

### What is hard in this code

* Interleavings between CPUs that synchronise by plain loads and stores: the
  sleep and wake-up handshake, the entry and quiesce handshake, the deadlock walk
  that reads other CPUs' lock words, the unlocked wait in `sync_timer`.
* Locks dropped in the middle: around expiry functions and around completion functions of
  SBE and IPMI messages, and around the console driver. What was looked at before is stale
  afterwards.
* An SBE that is slow, dead or reset, and acknowledges messages the driver has
  given up.
* Expiries that must not be lost between three layers (timer core, SBE timer,
  mailbox), none of which waits for the others.
* A BMC that answers late, twice or not at all, and that resets what the host
  relies on without waiting for it.
* Events that tell of a queue and the queue itself, changed under different locks.
* Everybody waiting for everybody: reconfiguring idle, quiescing, deadlocks.

`PROJECT.json` ("hazards") has one entry per such place, with the line where it
bites and the properties that would notice.

## 2. Modules

| Module | What it is |
|---|---|
| `Cpus` | the set of CPUs that `SbeMbox`, `SbeTimer`, `OpalMsg` and `Quiesce` are about |
| `Lock` | `core/lock.c` with `DEBUG_LOCKS` and `DEADLOCK_CHECKER`, as the firmware is built |
| `LockProof` | TLAPS proofs about `Lock` |
| `TimerService` | abstract: what `include/timer.h` promises to the users of timers |
| `Timer` | `core/timer.c`; implements `TimerService` |
| `TimerProof` | TLAPS proofs about `Timer`, the refinement included |
| `SbeMbox` | the mailbox part of `hw/sbe-p9.c` |
| `SbeTimer` | the timer part of `hw/sbe-p9.c`, between `Timer` and `SbeMbox` |
| `SbeProof` | TLAPS proofs about `SbeMbox` and `SbeTimer` |
| `CpuJobs` | jobs, idle and sleep of `core/cpu.c` |
| `CpuJobsProof` | TLAPS proofs about `CpuJobs` |
| `Quiesce` | `opal_entry`, `opal_quiesce` and their use by a reboot |
| `OpalMsg` | messages, IPMI responses and the event word for the host |
| `OpalProof` | TLAPS proofs about `OpalMsg` and `Quiesce` |
| `Console` | the output side of `core/console.c` |
| `ConsoleProof` | TLAPS proofs about `Console` |
| `IpmiBt` | `core/ipmi.c` on top of `hw/bt.c` |
| `IpmiBtProof` | TLAPS proofs about `IpmiBt` |
| `Hiomap` | `libflash/ipmi-hiomap.c` against a BMC |
| `HiomapProof` | TLAPS proofs about `Hiomap` |
| `MC...` | symmetry sets, sets of troubles and inputs for TLC |

All modules follow the same pattern. A CPU is a process with a program counter
`pc[c]`. A step makes at most one access to memory that other CPUs access without
a common lock; a critical section that is not interrupted is one step. The syncs
in the code justify that the steps of one CPU take effect in program order
(sequential consistency); the models say nothing about missing barriers.
Definitions commented "Mutant of" are deliberate mistakes; TLC has to find each of
them by the property it is listed with in `PROJECT.json`.

### Lock

`Acquire` is `__try_lock` with the bookkeeping of `try_lock_caller`. `unlock` is two steps,
because of its two stores: `UnlockBegin` unlinks the lock from the list, `UnlockEnd` clears
`lock_val`, after which `con_suspend` is counted down. `add_lock_request`, `WalkTest`,
`WalkOwner`, `WalkNext`, `RequestDone` are the deadlock checker, one step per read: the walk
reads a lock word twice, to see whether it is held (`WalkTest`) and whose it is
(`WalkOwner`). A lock released in between has owner 0, which is that of the CPU with PIR 0
(`Pir0`), and the history variable `torn` notes it. Clients call anything in any order,
correct or not, since the debug checks are there for the incorrect ones; `lock_error` stops
the CPU for good. `owned` is a history variable: the locks the client got and has not
released.
*Abstractions*: `locks_held` is a set, its order is of no importance; `bust_locks` is only
cleared, by `init_locks` (quiescing sets it, see `Quiesce`); timestamps of `lock_timeout`
are a free choice.

### Timer and TimerService

`CheckPeek` is the look at the lists without the lock, `PollRun`, `PollSkip`, `PollDone` are
`__check_poll_timers`, `TimersRun`, `CheckTells`, `CheckDone` are `__check_timers`, `Relock`
is what follows an expiry function. While an expiry function runs, its CPU may make any
call, `check_timers` included, so frames nest (`depth`, at most `MaxDepth`). `sync_timer`
and `cancel_timer` unlock, watch `t->running`, and lock again (`SyncBody`, `SyncSees`,
`SyncRelock`). The SBE is a contract: told a time, it interrupts no later (`SbeInterrupt`).
`TimerService` has neither lists nor locks; `scheduled` maps to the union of the three
lists.
*Abstractions*: the last instant stands for any later one; an expiry function
does not cancel or synchronise with timers (the code would wait for itself when it
is its own).

### SbeMbox

`sbe->lock` is held over several steps and dropped where the code drops it, around
`msg->complete`. `send_*` is the loop of `p9_sbe_process_queue`, `complete_*` is
`p9_sbe_msg_complete`, `doorbell_*` the loop of `__p9_sbe_interrupt`, `timeout_*`
the rest of `p9_sbe_timeout_poll_one`. `SbeRead`, `SbeRespond`, `SbeReset` are the
SBE, external.
A message is its owner's again, to queue or to free, from the change of its state on,
before its completion function is called.
*Abstractions*: sequence numbers and the contents of responses are left out. The driver
compares the number of a response with that of the head of the queue
(`hw/sbe-p9.c:520-531`), but a mismatch only puts an error into the response: the head is
completed either way. The limit of retries is 1 instead of 3. The variable `trouble`,
chosen once, says what may go wrong in a behaviour (`"xscom"`, `"timeout"`,
`"reset"`), so that one run shows which property holds under which trouble.

### SbeTimer

Of the mailbox only the fate of the one message is kept (`MsgDone`, `MsgTimeout`,
`QueueMsgFails`), of the timer core only the target of the first timer.
`p9_sbe_timer_resp` is three steps, as it touches three things without a common
lock. The message carries its `tick` into the registers of the SBE (`timer_cmd`) when it
is queued. As in `SbeMbox`, `timer_trouble` says what may happen: `"fail"` lets the message
fail or time out, `"overtake"` lets one CPU handle the expiry before another one has
run the completion of the message.
*Left out*: `sbe_timer_good`, which only chooses how often the OS is asked to poll,
and the self test at boot.

### CpuJobs

`queue_job_on_cpu` and `queue_kick`, `process_pop`, `process_done` and `process_complete`,
are the two ends of a queue. The job is counted down first and complete after that, which is
the last use of it: from there on the CPU that waits may free it. `idle_mark`,
`idle_recheck`, `idle_recheck_jobs`, `icp_prep_for_pm`, `idle_wake`, `idle_unmark` are the
steps of `cpu_idle_pm` for POWER8 and POWER9. `reconfigure_idle_start`, `reconfigure_kick`,
`set_enable`, `reconfigure_idle_end` switch sleep states.
*Abstractions*: `cpu_find_job_target` may return any available CPU with the fewest
jobs, and its scan is one step (the preference for primary threads and nearby CPUs
only breaks ties); `idle_lock` is held within steps; a job is used once.
*Left out*: `opal_reinit_cpus`, `cpu_queue_job_on_node`.

### Quiesce

`entry_count`, `entry_check`, `entry_holdoff`, `entry_spin`, `entry_exit` are
`opal_entry`; `call_work` stands for any call that does not quiesce.
`quiesce_begin`, `_own`, `_set`, `_wait`, `_done` are HOLD and REJECT, `resume_*` is
RESUME, `quiesce_break` is LOCK_BREAK. `QuiesceReturns` says what the callers do
with the result: the OS, `opal_cec_reboot`, `fast_reboot`. `force` and `quiet` are
what the OS on a CPU has asked for and been told. The OS may call RESUME and LOCK_BREAK
without a quiesce of its own. `opal_quiesce` turns such a call down with `OPAL_BUSY` if
`opal_quiesce_owner` is another CPU; but the owner is the CPU that quiesced last, or PIR 0
after boot, whether or not it quiesces now. `stale` is a history variable: such a call was
let through. With `Disciplined` no CPU quiesces itself, and one that has quiesced resumes
with the same target.
*Left out*: re-entry of OPAL on one CPU, `QUIESCE_RESUME_FAST_REBOOT`, and the fast
reboot after the quiesce.

### OpalMsg

Both queues share the event word. `opal_update_pending_evt` and `store_events` are
the two halves of its change, with the dummy interrupt in between; the queue's lock
is held over both. `Return` is the end of `opal_poll_events` and
`opal_handle_interrupt`, which read the word without a lock. `taken` is the common
end of `opal_get_msg` and `opal_check_completion`: the event, then the consumed
callback with the lock released, for which the entry's data were saved. An entry is an
address, and an extended one goes back to the allocator. The host's buffer may be too
small: `opal_get_msg` then says so, `opal_check_completion` takes the message all the same
(`lost`).
*Abstractions*: messages are numbered; contents are left out, and a message is extended or
not. Completions are not: all callers in the firmware pass at most five parameters
(`core/test/run-msg.c:121` and `:134` queue the type with nine). *Left out*: events of
other users of the word.

### Console

Characters are numbered as they are written, so that order and loss can be told
from what the driver got. `console_write`, `write_more` are `write_char`,
`flush_console` begins `__flush_console`; the steps after it are the loop that drops
`con_lock` for the driver. `trouble` allows short writes of the driver and writes
from within the console code. `overrun` notes that the ring overflowed during a
flush.
*Left out*: input, `memcons` for external readers, the OPAL consoles, and a driver
that is replaced or removed while another CPU writes to it (`fsp-console.c`).

### IpmiBt

`bt_add_msg` makes room and `bt_link` queues, since `bt.lock` is dropped in between
to complete a message that is thrown out. A poll is `bt_get_resp`,
`bt_expire_old_msg`, then `bt_send_and_unlock`; `callback` and `cmd_done` complete a
message, with the lock dropped, and then the poll goes on. `ipmi_queue_msg_sync` and
`sync_wait` are the synchronous messages. The BMC (`bmc_*`) and time (`tick`) are
external. Messages are addresses that may be used again ("reuse").
`BT_MAX_QUEUE_LEN` is the variable `max_queue`, chosen once. With more CPUs than places, all
places may be taken by CPUs that are about to link their messages, and both queues empty:
`bt_add_msg` then throws out the very message it is adding, completes it, and links it
afterwards (`selfout`, a history variable).
*Abstractions*: a timeout is a free choice once a message is first; the eight bits of
sequence numbers are `Seqs` values, those of `send_count` and `max_retries` are `Counts`.
*Left out*: `ipmi_dequeue_msg`, which nobody calls, an LPC bus that is down, and
capabilities.

### Hiomap

An operation is one process; `core/flash.c` sees to it that there is one at a time.
`hiomap_event` is another. `handle_events` and `restore` are the two critical sections of
`ipmi_hiomap_handle_events`, with the commands of the recovery between them. Every command
is `queue_msg_sync` (the test of the BMC's state), the BMC's `bmc_serve` or `bmc_lose`, and
the action of its answer (`Acked`, `GotInfo`, `GotFlashInfo`, `Created`, `Dirtied`,
`Flushed`, or `Failed`), which stands for the callback and what its caller does next. The
window is accessed byte by byte, so that it may go in the middle; an access may fail on the
LPC bus (`lpc_fw_fails`). The BMC is external: it refuses commands that need a window or a
negotiated protocol it does not have, drops what was not flushed when it closes a window,
and announces only what is new, as in `libflash/test/test-ipmi-hiomap.c`.
*Abstractions*: contents are left out; `done` is what really got through. Error codes are
one, and sequence numbers are left out: `IpmiBt` shows that a message gets its own response.
*Assumed*: the window the BMC says it has opened contains the first byte asked for
(`libflash/ipmi-hiomap.c:346-350`). *Left out*: the block size does not change with a new
negotiation.

## 3. Runs

`cd tla; tlc -config X.cfg M`. All runs say `CHECK_DEADLOCK FALSE`: the systems
really stop, when a CPU has aborted, when the bounded calls are used up, or when
the machine reboots. That waiting CPUs do get on is said by the liveness
properties.

| Run | Instance | Shows |
|---|---|---|
| `lock` | 3 CPUs, one with PIR 0, 2 locks and one of the console path | `MutualExclusion`, `OwnerMayUnlock`, `ConSuspendCount`; the deadlock checker neither cries wolf (`NoFalseDeadlock`, unless a lock was released between its two reads and taken for that of PIR 0) nor misses a cycle (`DeadlockFound`), and its walk ends, also outside a cycle it leads into (`WalkProgress`) |
| `timer` | 2 CPUs, 2 timers, 3 calls, nesting 1 or 2 | `ListsSound`, `NoLostExpiry`; `ImplementsService` (refinement: one run of an expiry function at a time, a cancelled timer does not run); `AllExpire` (liveness, where interrupts do not nest) by SBE interrupts alone |
| `sbe_mbox` | 2 CPUs, 3 messages (2 where they may time out), every mix of xscom failures, timeouts and a reset | `GivenBackMeansGone` always; `HeadInFlight` and `AllComplete` (liveness, even with a dead SBE) if xscom works; `OneCommandCalm` without trouble |
| `sbe_timer` | 2 CPUs, 3 timers, every mix of failing messages and overtaking | `QueuedOnce`, `NoSelfDeadlock` always; `AllRun` (liveness) without trouble |
| `cpu_jobs` | POWER9, boot CPU and 2 others, 2 jobs, 2 reconfigurations | `NoLostWakeup`, `KickedOut`, `FreedUnused`, and the liveness property `JobsComplete`, of jobs and of reconfigurations |
| `cpu_os_p8` | POWER8, CPUs of an OS, a job that returns and one that does not, 2 reconfigurations | `JobCount`, `ReconfigureAlone`, `AssertsHold` |
| `quiesce` | 3 CPUs, one with PIR 0, any calls, also of CPUs that quiesce nothing, targets that time out, reboots | `Quiesced`, `Resumed`, `KeeperIsFree`, up to the first call that a stale `opal_quiesce_owner` lets through |
| `opal_msg` | 2 CPUs, 2 messages and 2 responses, a pool of 1 or none, buffers of any size | `QueuesSound` (lists, events and pool agree), `GivenOnce` (but for what a small buffer loses), and `AllFetched` (liveness) |
| `console` | 2 CPUs, a ring of 4, 6 characters, short and nested writes | `OutInOrder`, `NothingLeft`, and `AllOut` (liveness) without trouble |
| `ipmi_bt` | 2 CPUs, 1 to 3 messages, a queue of 2 or 1, a BMC that drops, is late, asks for attention, or tells the host to retry for ever | `OnePlace`, `OwnResponse`, `SyncDone` until a message is thrown out by its own addition, and `AllAnswered` (liveness), whatever the BMC does but for endless retries |
| `hiomap` | a flash of 2 blocks of 2 bytes, any window, 3 faults: resets, failed commands, LPC errors | `ReadTrusted`, `WriteReached`, and `Recovers` (liveness) |

`quiesce_reboot` is expected to fail: a disagreement between the code and what its
comments say (section 6). A property named for a module's soundness includes the
module's `TypeOK` where the proofs do not have it.

### Bounds

Locks: three CPUs and three locks allow a cycle of two with a third CPU walking into it, and
a cycle of three; `cpu_max_pir` is not below the number of CPUs, as on machines with sparse
PIRs. Timers: two timers and two CPUs give every combination of running, rescheduled and
being cancelled elsewhere; three calls are one to schedule each and one to reschedule or to
cancel one of them. SBE: three messages, of the kinds with a response, with a completion
function and neither, so that a message is in flight, one is queued and one is about to be
queued. `SbeTimer`: three timers, one more than the limit of updates, which is 2 instead of
3; the horizon is above the largest tick. Jobs: one CPU that queues, two that may be asleep,
two jobs that may go to the same CPU. Quiesce: a quiescer, a target, and a CPU that races
with either; a behaviour is followed up to the first stale call (`UntilStale`), after which
no property says anything. Messages to the host: two of any kind suffice to have an entry
used again while its callback is outstanding, and the pool exhausted. Console: six
characters overflow a ring of four in the middle of a flush. IPMI: a message in flight, one
queued and one that makes the queue overflow, and three sequence numbers, so that a late
response meets the next message; with one place, one CPU waits for it when the other adds
its message, so that both queues are empty and full at once; three values of the counters,
so that the largest is a number of retries that is never reached. Flash: a chunk that
crosses two windows; three faults are a reset, a failure of its recovery, and one more.

### Fairness

* Weak fairness of the steps of a CPU in OPAL: nothing preempts it there.
* `Timer`: strong fairness of `Relock`. After an expiry function the CPU spins for
  `timer_lock`, which is left free between two SBE interrupts for much longer than
  it takes to notice. Time passes, the SBE interrupts; nobody has to poll.
* `SbeMbox`: the OS keeps polling, and a poll that looks at an overdue message over
  and over finds it expired. Nothing is assumed of the SBE.
* `SbeTimer`: the SBE works and its interrupts are handled.
* `CpuJobs`: weak fairness per CPU; a CPU with a pending IPI wakes up.
* `OpalMsg`: the host polls at intervals (`ibm,heartbeat-ms` of the device tree) and
  serves the events it was told of. Without the polling, `AllFetched` fails: see
  section 6.
* `Console`: CPUs release the locks that suspend the console, and a CPU that spins for
  `con_lock` gets it.
* `IpmiBt`: strong fairness of the CPUs, who get their locks in the end, and of time.
  Of the BMC it is assumed that it has not asked for 255 retries, the largest number: the
  eight-bit `send_count` never exceeds it (`hw/bt.c:378`).
* `Hiomap`: the host tries again, the BMC answers, delivers its events, and comes back
  after it has stopped; the number of faults is bounded.
* `Lock` and `Quiesce` state no fairness. Instead of liveness, `WalkProgress` says that
  a bound goes down with every step, and `KeeperIsFree` that whoever is to resume a
  CPU that is kept out can do so.

## 4. Proofs

Checked by tlapm, for every value of the constants that the named assumptions of the
modules allow: any number of CPUs, locks, timers, jobs, any ring, any flash. Each
`...Proof` module states an inductive invariant as a conjunction of named parts, one
lemma per part with one step per action, and derives the results from it. TLC has
checked the invariants on the instances of section 3. Every invariant and every action
property that a passing run checks, and the refinement, is stated by a theorem.

`SbeProof` and `OpalProof` extend two modules each, the two halves of `hw/sbe-p9.c` and of
the OPAL interface. They are separate state machines that share the CPUs (`Cpus`) and no
name besides: the specifications of `SbeTimer` and `Quiesce` are `SbeTimerSpec` and
`QuiesceSpec`, where the other modules say `Spec`. What holds of the lists that the drivers
keep (adding at the end, taking the first or any element) is proved at the head of each
module that needs it.

**`LockProof`** from `LockAssumption` (finite sets, distinct null values). The
inductive invariant `LockInv` adds to the types and `ConSuspendCount`

* `ArgOK`: a CPU inside a call knows its lock, and owns the one it releases; a walk
  that follows an owner is within its bound;
* `HeldExact`: the list of a CPU, what its client owns, and the lock words agree,
  but for the lock between the two stores of `unlock`.

`MutualExclusion` by itself is not inductive: that an `unlock` frees only a lock
of its own caller follows from the lists, which have to be exact for that.
`ConSuspendCount` is a cardinality; each of the two steps that change it adds or
removes one element. Results: `TypeCorrect`, `LockMutualExclusion`,
`LockConSuspend`, `LockHeldExact`, `LockOwnerMayUnlock`, and the action property
`LockWalkProgress`.

`WalkInv` is about `check_deadlock`, which reads the locks of other CPUs one after the other
while these go on. Paths along owners would need induction; the invariant speaks of sets of
CPUs instead. For *no false alarm* (`WalkSound`): if there is a set of CPUs that all wait
for one another and lead to the walking CPU, and the walk has come to a member, then the CPU
waits for nobody but CPUs that wait as well. It holds as long as no walk was `torn`, and
`LockNeverTorn` says that none is where no CPU has PIR 0. It survives every step of the
others, since a CPU that waits neither releases what it holds nor withdraws its request, and
a new request is announced under `dl_lock`, which the walking CPU has. A CPU that was
stopped for a deadlock leaves its request behind, so `StoppedOK` says that those it depends
on are there for good. For *no deadlock missed* (`WalkComplete`): the walk of the CPU that
closes a cycle stays within it and has met as many different CPUs as it has counted, so it
is back before it gives up if the cycle has at most `cpu_max_pir` CPUs. Results:
`LockNoFalseDeadlock`, `LockNeverTorn`; `LockDeadlockFoundWithin`, no deadlock of at most
`cpu_max_pir` CPUs goes unnoticed, on any machine; and from it `LockDeadlockFound`, with the
hypothesis that there are no more CPUs than that. Without it the property is false, see
section 6.

**`TimerProof`** from `TimerAssumption`. `TimerInv` has the lists (`ListInv`: each without
repetition, disjoint, the ordered one `Sorted`), `PollList` (the private list is in
use during a poll only), `FrameInv` and `NoLostExpiry`. `FrameInv` is what ties
`t->running` to the nested calls of `check_timers`: a timer runs on a CPU exactly if one
frame of that CPU is about it. It is needed for `NoLostExpiry`: the last CPU to leave
`check_timers` may find the first timer expired and still running, which would leave
the SBE with a time that is too late; but then that timer has a frame, and the CPU is
not the last one. Removing from, inserting into and splitting lists are lemmas about
sequences. Results: `TimerListsSound`, `TimerNoLostExpiry`, and the refinement
`TimerImplementsService`: every step is a step of `TimerService` or a stutter, with
`Linked` for `scheduled` (`RefineStep`).

**`SbeProof`**, the mailbox, from `SbeMboxAssumption`. `MboxInv` says who has
`sbe->lock` (`OwnerOK`), that the queue has no message twice, all of them in use, and only
its head sent (`ListOK`), and what a CPU knows of the message it completes, which changes
when it is unlinked and again when the lock is dropped for its completion function
(`CompletingOK`). `FlightOK` ties the state of the mailbox to the head; it holds as long as
xscom works, since then the sending loop never comes back from a completion. `SbeOK`, for
behaviours in which nothing goes wrong, lists the situations in which the SBE and the
mailbox can be. Results: `MboxGivenBackMeansGone`, `MboxHeadInFlight`, and the action property
`MboxOneCommandCalm`.

The timer, from `SbeTimerAssumption`: `TimerInv` says who has `sbe_timer_lock`
(`TimerLockOK`), and that a CPU on its way to queue the message has seen it free and no
target recorded (`TimerSendOK`), which nobody can change without the lock. Results:
`SbeTimerQueuedOnce`, `SbeTimerNoSelfDeadlock`. The assumption that the shortest
tick is not longer than the longest one holds in `hw/sbe-p9.c`: `SBE_TIMER_MIN_US_P9`
and `SBE_TIMER_MIN_US_P10` are 500 and 100 us, `SBE_TIMER_MAX_US` is 10 s.

**`CpuJobsProof`** from `CpuJobsAssumption`. `IdleInv` says that the flags of a CPU
tell where it is (`Flags`), that one CPU at most reconfigures (`Turns`), that
`nr_cpus_idle` is the number of CPUs in idle (`IdleCount`), and so that nobody is idle
once `reconfigure_idle_start` has seen it at zero (`NobodyIdle`). Results, on all
processors: `ReconfigurationAlone`, `IdleAsserts`. `WakeInv` adds the two handshakes,
from the last look a CPU takes before it sleeps (`KickedSoon`). Results, where IPIs are
not cleared on the way to sleep (`~P8`): `NoWakeupLost`, `KickedOutOfIdle`. Without that
assumption they are false, see section 6. `JobInv` follows the jobs: each is on one
queue, once, or in one CPU's hands (`OncePlaced`), not complete as long as it is
(`PlacedNotComplete`), and waited for, and freed, by the CPU that queued it alone (`Waited`).
Results, on all processors: `JobsFreedUnused`, `JobsCounted`, and with them the types
of all state: that `job_count` does not drop below zero follows from the count.

**`OpalProof`**, messages and events, from `OpalMsgAssumption`, for any pool, number of
entries, messages and responses. `MsgInv` says who has the locks (`LocksOK`) and what the
bits of the event word mean (`BitsOK`): unless its queue's lock is held, a bit tells whether
the queue is empty; the CPU that holds it is about to make the bit say so; and the word that
a CPU has computed and is about to store still differs from the present one in its own bit
only, because `evt_lock` is held from one to the other. `EntriesOK` is about the lists: no
entry twice, the free ones not extended, at least the pool's entries linked.
`opal_check_completion` puts the entry it takes back on the free list without asking whether
it is an extended one; that no completion is in an extended entry is part of the invariant.
`OrderOK` says that what is pending is in the order of queueing, younger than all that
`opal_get_msg` has returned, and together with what the host has got, and what
`opal_check_completion` has lost, all there was. `DueOK` says that the callback of a message
the host has got was called or is due on one CPU. Results: `OpalQueuesSound`,
`OpalGivenOnce`.

Quiescing, from `QuiesceAssumption`. `QuiesceTypes` holds whatever the OS does. The rest is
for an OS that is `Disciplined`: no CPU quiesces itself, and one that has quiesced resumes
what it has quiesced. It may call RESUME and LOCK_BREAK at any time without a quiesce, and
the results hold up to the first such call that passes (`stale`). A RESUME that does so may
come between another CPU's cmpxchg of `opal_quiesce_state` and its store of the owner, and
break everything. `QuiesceInv` says that, unless `stale`, the handshake is `Orderly`: that
one CPU at most is active, from the cmpxchg to the last store of RESUME, and is the owner
with its target recorded (`OneActive`); that those it has told see it (`ToldSees`) and those
kept out were told by somebody (`KeptBySomeone`); and that a target seen outside stays
outside (`SeenOut`), the handshake of two stores and two loads with `opal_entry`. Results:
`QuiesceExcludes`, `QuiesceResumed`, `QuiesceKeeper`.

**`ConsoleProof`** from `ConsoleAssumption`. `FlushInv` is about who has to flush: the last
write to the driver of a flush ends at `con_in`, or `more_flush` is set, or somebody has
promised to flush (`LastTurn`). Result: `ConsoleNothingLeft`. `OrderInv` is about what is in
the ring, unless it was overrun: between `con_out` and `con_in` are the last characters
in their order (`RingExact`), a driver's write is of these (`WriteExact`), and the driver
has the ones before that were not passed over (`Delivered`), also while `con_out` is yet
to be moved. Result: `ConsoleOutInOrder`.

**`HiomapProof`** from `HiomapAssumption`, for any block size, flash, operations of at least
one byte, and faults, errors of the LPC bus included. `HiomapInv` says where an operation
may be (`Flow`), that what is left of it is within the flash and a chunk within the window
(`Left`, `Chunk`), that a window open on both sides is the same one (`SameWindow`) and one
that the BMC alone has closed has its reset pending (`ClosedIsPending`), what has been done
with the bytes of the chunk at each step (`Accessed`), and that all before it has got
through (`Progress`). Results: `HiomapReadTrusted`, `HiomapWriteReached`.

**`IpmiBtProof`** from `IpmiBtAssumption`, for any number of CPUs, places, messages, retries
and troubles. `BtInv` says that a message is thrown out by its own addition (`selfout`) only
if there are more CPUs than places, and that until then all is `Sound`: which messages a CPU
has in hand at each place (`Locals`), that a message in use is in exactly one place, a queue
or one CPU's hands (`QueuesOK`, `Places`), that `queue_len` counts what is queued and what
waits for the room it was given (`Counted`), that a CPU waiting for a message waits for
`sync_msg` unless the message is used up (`Waits`), and that a sequence number on the wire
is that of the message which has it (`Numbers`). `Counted` is what shows that a full queue
has a message to throw out if no more CPUs than places are at work, since only other CPUs
can be waiting for room; `Numbers` needs the count of the messages that were made and have
no number yet, in order to know that the next number is new. Results: `MessageInOnePlace`,
`SyncReturnsDone`, and, with no more messages than sequence numbers,
`MessageGetsItsResponse`.

## 5. Only model-checked

* Liveness, everywhere: fairness is beyond the prover.
  These are `AllExpire`, `AllComplete`, `AllRun`, `JobsComplete`, `AllFetched`, `AllOut`,
  `AllAnswered` and `Recovers`.
* `FastRebootAlone`, which is violated.

## 6. Disagreements found

`quiesce_reboot` shows that `fast_reboot` takes the error codes of `opal_quiesce` for
success and goes on with other CPUs in OPAL.

The following have no run of their own; they are why some properties or fairness
assumptions state a condition, and dropping the condition, or changing the constant,
shows them.

| Property | Condition | What the code does without it |
|---|---|---|
| `DeadlockFound` of `Lock` | `cpu_max_pir` not below the number of CPUs | `check_deadlock` stops after `cpu_max_pir` iterations, one short of `cpu_max_pir + 1` CPUs: with PIRs 0 and 1 a deadlock of the two is not found (`core/lock.c:115`) |
| `OneCommandCalm` of `SbeMbox` | `trouble = {}` | the sending loop goes on after `sbe->lock` was dropped and sends the message another CPU has just sent (`hw/sbe-p9.c:386`; the comment at `:415` promises one command at a time). Also, the late acknowledgement of a message that has timed out completes the next one (`hw/sbe-p9.c:367`) |
| `AllRun` of `SbeTimer` | no `"overtake"` | an expiry handled before the completion function has stored its result leaves `sbe_timer_in_progress` set (`hw/sbe-p9.c:798`) |
| `AllRun` of `SbeTimer` | no `"fail"` | messages that fail use up the limit of updates with no timer in flight (`hw/sbe-p9.c:836`) |
| `NoLostWakeup` of `CpuJobs` | `P8 = FALSE` | `icp_prep_for_pm` clears an IPI that came after the last look at the queue (`core/cpu.c:387`) |
| `NoFalseDeadlock` of `Lock` | `~torn` | `check_deadlock` tests the locked bit (`core/lock.c:120`) and reads the owner (`:123`) in two accesses; a lock released in between has owner 0, and the CPU with PIR 0 takes itself for the owner and reports a deadlock that is none |
| `Resumed`, `Quiesced`, `KeeperIsFree` of `Quiesce` | `~stale` | `opal_quiesce_owner` outlives its quiesce and is 0 after boot: RESUME and LOCK_BREAK of that CPU pass with nothing quiesced, or in the middle of another CPU's quiesce (`core/opal.c:231`). `doc/opal-api/opal-quiesce-158.rst:68-72` promises `OPAL_BUSY` |
| `GivenOnce` of `OpalMsg` | messages that are not `lost` | `opal_check_completion` returns `OPAL_SUCCESS` and frees the message without copying it if the host's buffer is too small (`core/opal-msg.c:160`). `doc/opal-api/opal-check-async-completion-86.rst:32-33` says "message successfully copied to buffer"; `opal_get_msg` says `OPAL_PARTIAL` |
| `OnePlace`, `OwnResponse`, `SyncDone`, `AllAnswered` of `IpmiBt` | `~selfout` | with more CPUs than places (ten) that are adding messages while nothing is queued, `bt_add_msg` completes the message that it is adding, and then links it (`hw/bt.c:552-558`) |
| `AllAnswered` of `IpmiBt` | not the largest `max_retries` | with 255 retries, as a BMC may tell (`hw/bt.c:171`), the eight-bit `send_count` (`:89`) wraps and never exceeds it: the message is sent for ever, and all behind it waits (`:378`) |
| `AllFetched` of `OpalMsg` | the host polls | the dummy interrupt that is to make the host look is sent before `opal_pending_events` is stored (`core/opal.c:449`); a host that is quick sees no event, and gets no second interrupt |
| `OutInOrder` of `Console` | `~overrun` | a ring that overflows while the driver writes may repeat or skip characters (`core/console.c:155`) |
| `SyncDone` of `IpmiBt` | no `"reuse"` | `ipmi_cmd_done` compares `sync_msg` with a message that its callback has freed; when the address has come back as the next synchronous message, that one's sender goes on too early (`core/ipmi.c:155`) |
| `OwnResponse` of `IpmiBt` | `messages <= Seqs` | a response that comes 256 messages late completes the message that has its sequence number now (`hw/bt.c:329`) |
| `ReadTrusted` of `Hiomap` | no event on its way | what was read from a window that the BMC has closed is trusted if the BMC's event is late; the protocol gives the host no means to know |

Others were met while modelling and are not stated as properties.

* `bt_add_msg` is said to remove the oldest messages from a full queue (`hw/bt.c:549`); it
  takes the tail of the queue, the newest one.
* `bt_expire_old_msg` resends with the comment that the data will still be in the FIFO,
  which is not so after `bt_reset_interface` or a flush of it.
* `ipmi_hiomap_exit`, and `ipmi_hiomap_init` when it fails, free the device and leave
  `hiomap_event` registered with it (`libflash/ipmi-hiomap.c:900`, `:932`).

And two in the layers above. A target
recorded in `has_new_target` just after `p9_sbe_timer_resp` has looked at it without
the lock (`hw/sbe-p9.c:801`) waits for the expiry of the old timer; `AllRun` holds
all the same. `cpu_callin` clears `job_has_no_return` after the CPU is available
(`core/cpu.c:1415`), and so that of a job queued in between.

## 7. Plan

Built so far, in the order of importance: locks, timers with their two lower
layers, jobs and idle, quiesce, messages to the host, console, IPMI, the flash
behind the BMC. Next:

1. `FastReboot` after `Quiesce`, and the rendezvous of HMI recovery.
2. `Trace` with its lockless reader; the allocators against reference definitions.
3. `P8I2c`, `PcieSlot`.
4. An abstract message service that `SbeMbox` and `IpmiBt` both implement.

To prove: nothing that is stated is left but liveness. The next modules should come with
their invariants, and an abstract message service with the two refinements.
