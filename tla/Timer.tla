------------------------------- MODULE Timer --------------------------------
(***************************************************************************)
(* The timer core (core/timer.c): timers kept on a list ordered by target, *)
(* poll timers on a list of their own, expiry functions run with the lock  *)
(* dropped, by any CPU that calls check_timers().                          *)
(*                                                                         *)
(* A critical section of timer_lock that makes no loop is one step; the    *)
(* loops of check_timers() take one step per iteration with the lock held. *)
(* The two accesses outside the lock (the peek of check_timers and the     *)
(* wait of __sync_timer) are steps of their own.                           *)
(*                                                                         *)
(* The SBE timer is external: it answers an update_timer_expiry(target)    *)
(* with an interrupt no later than that, and runs check_timers(true).      *)
(***************************************************************************)
EXTENDS Naturals, SequencesExt

CONSTANTS
  CPUs, Timers,
  NoCpu, NoTimer,
  TIMER_POLL,  \* the target of a poll timer
  Horizon,     \* bound: the last instant; stands for any later time, too
  MaxDepth,    \* bound: check_timers() nested in expiry functions
  MaxCalls     \* bound: schedule and cancel calls in a behaviour

ASSUME TimerAssumption ==
  /\ NoCpu \notin CPUs
  /\ NoTimer \notin Timers
  /\ {Horizon, MaxDepth, MaxCalls} \subseteq Nat
  /\ TIMER_POLL \notin 0..Horizon + 1

Times == 0..Horizon
Never == Horizon + 1

VARIABLES
  timer_lock,       \* owner of the lock
  timer_list,       \* ordered list of timers
  timer_poll_list,  \* list of poll timers
  list,             \* private list of __check_poll_timers
  timer_in_poll,    \* some CPU is in __check_poll_timers
  target,           \* t->target
  running,          \* t->running
  running_timer,    \* this_cpu()->running_timer
  expiry,           \* the instant of the next SBE interrupt, or Never
  now,              \* the time base
  pc,               \* where each CPU is; "run" is client code
  frames,           \* calls of check_timers each CPU is in, newest first
  arg,              \* the sync_timer or cancel_timer call a CPU is in
  calls,            \* client calls made
  cancelled,        \* timers cancelled and not scheduled since
  depth             \* how deep check_timers() may nest in this behaviour

core == <<timer_list, timer_poll_list, list, timer_in_poll, target, running,
          running_timer, expiry, cancelled>>
moving == <<timer_lock, core, now, pc, frames, arg, calls>>
vars == <<moving, depth>>

Init ==
  /\ timer_lock = NoCpu
  /\ timer_list = <<>> /\ timer_poll_list = <<>> /\ list = <<>>
  /\ timer_in_poll = FALSE
  /\ target = [t \in Timers |-> 0]
  /\ running = [t \in Timers |-> NoCpu]
  /\ running_timer = [c \in CPUs |-> FALSE]
  /\ expiry = Never
  /\ now = 0
  /\ pc = [c \in CPUs |-> "run"]
  /\ frames = [c \in CPUs |-> <<>>]
  /\ arg = [c \in CPUs |-> [t |-> NoTimer, cancel |-> FALSE]]
  /\ calls = 0
  /\ cancelled = {}
  /\ depth \in 1..MaxDepth

-----------------------------------------------------------------------------
Goto(c, where) == pc' = [pc EXCEPT ![c] = where]

\* Client code of c enters a critical section of timer_lock.
ClientCall(c) ==
  /\ pc[c] = "run"
  /\ timer_lock = NoCpu
  /\ calls < MaxCalls
  /\ calls' = calls + 1

\* __remove_timer(): list_del() from whichever list the timer is on.
__remove_timer(t) ==
  /\ timer_list' = RemoveFirst(timer_list, t)
  /\ timer_poll_list' = RemoveFirst(timer_poll_list, t)
  /\ list' = RemoveFirst(list, t)

\* The SBE is told about a target: its interrupt comes no later than that.
update_timer_expiry(when) == expiry' = IF when < expiry THEN when ELSE expiry

\* t goes before the first timer with a later target, or to the end.
Insert(s, t, when) ==
  LET i == SelectInSeq(s, LAMBDA lt : when < target[lt])
  IN  IF i = 0 THEN Append(s, t) ELSE InsertAt(s, i, t)

\* Mutant of TellSbe: only when the list was empty before.
TellSbeOnce(c, t, when) ==
  IF when # TIMER_POLL /\ ~running_timer[c] /\ Len(timer_list') = 1
  THEN update_timer_expiry(target'[Head(timer_list')])
  ELSE UNCHANGED expiry

\* The end of __schedule_timer_at: if t is the first timer now the SBE is
\* told, unless this CPU runs a timer and will tell it later.
TellSbe(c, t, when) ==
  IF /\ when # TIMER_POLL /\ ~running_timer[c]
     /\ LET lt == Head(timer_list') IN lt = t \/ when < target[lt]
  THEN update_timer_expiry(target'[Head(timer_list')])
  ELSE UNCHANGED expiry

\* Mutant of __schedule_timer_at: a timer already scheduled stays linked.
ScheduleTwice(c, t, when) ==
  /\ timer_list' = IF when = TIMER_POLL THEN timer_list
                   ELSE Insert(timer_list, t, when)
  /\ timer_poll_list' = IF when = TIMER_POLL THEN Append(timer_poll_list, t)
                        ELSE timer_poll_list
  /\ UNCHANGED list
  /\ TellSbe(c, t, when)

(***************************************************************************)
(* __schedule_timer_at: unlink, then link on the poll list or at the right *)
(* place of the ordered list.                                              *)
(***************************************************************************)
__schedule_timer_at(c, t, when) ==
  /\ timer_list' = IF when = TIMER_POLL THEN RemoveFirst(timer_list, t)
                   ELSE Insert(RemoveFirst(timer_list, t), t, when)
  /\ timer_poll_list' = RemoveFirst(timer_poll_list, t)
                          \o IF when = TIMER_POLL THEN <<t>> ELSE <<>>
  /\ list' = RemoveFirst(list, t)
  /\ TellSbe(c, t, when)

\* schedule_timer(), schedule_timer_at(): for now or later, or for polling.
schedule_timer(c, t) ==
  \E when \in {w \in Times : w >= now} \cup {TIMER_POLL} :
    /\ ClientCall(c)
    /\ target' = [target EXCEPT ![t] = when]
    /\ __schedule_timer_at(c, t, when)
    /\ cancelled' = cancelled \ {t}
    /\ UNCHANGED <<timer_lock, timer_in_poll, running, running_timer, now, pc,
                   frames, arg>>

cancel_timer_async(c, t) ==
  /\ ClientCall(c)
  /\ __remove_timer(t)
  /\ UNCHANGED <<timer_lock, timer_in_poll, target, running, running_timer,
                 expiry, now, pc, frames, arg, cancelled>>

-----------------------------------------------------------------------------
\* sync_timer() or cancel_timer() that finds the timer not running.
Synced(c, t, cancel) ==
  /\ running[t] = NoCpu
  /\ IF cancel
     THEN __remove_timer(t) /\ cancelled' = cancelled \cup {t}
     ELSE UNCHANGED <<timer_list, timer_poll_list, list, cancelled>>
  /\ Goto(c, "run")
  /\ arg' = [arg EXCEPT ![c] = [t |-> NoTimer, cancel |-> FALSE]]

\* ... or running on another CPU: drop the lock and watch t->running.  (On
\* this CPU it is the assertion of __sync_timer; clients do not call these
\* from an expiry function.)
MustWait(c, t, cancel) ==
  /\ running[t] \notin {NoCpu, c}
  /\ Goto(c, "sync")
  /\ arg' = [arg EXCEPT ![c] = [t |-> t, cancel |-> cancel]]
  /\ UNCHANGED <<timer_list, timer_poll_list, list, cancelled>>

SyncBody(c, t, cancel) ==
  /\ Synced(c, t, cancel) \/ MustWait(c, t, cancel)
  /\ UNCHANGED <<timer_lock, timer_in_poll, target, running, running_timer,
                 expiry, now, frames>>

sync_timer(c, t) ==
  frames[c] = <<>> /\ ClientCall(c) /\ SyncBody(c, t, FALSE)

cancel_timer(c, t) ==
  frames[c] = <<>> /\ ClientCall(c) /\ SyncBody(c, t, TRUE)

\* The inner loop of __sync_timer, without the lock.
SyncSees(c) ==
  /\ pc[c] = "sync"
  /\ running[arg[c].t] = NoCpu
  /\ Goto(c, "resync")
  /\ UNCHANGED <<timer_lock, core, now, frames, arg, calls>>

\* Mutant of SyncRelock: t->running is not looked at again under the lock.
SyncRelockTrusts(c) ==
  /\ pc[c] = "resync"
  /\ timer_lock = NoCpu
  /\ IF arg[c].cancel
     THEN __remove_timer(arg[c].t) /\ cancelled' = cancelled \cup {arg[c].t}
     ELSE UNCHANGED <<timer_list, timer_poll_list, list, cancelled>>
  /\ Goto(c, "run")
  /\ arg' = [arg EXCEPT ![c] = [t |-> NoTimer, cancel |-> FALSE]]
  /\ UNCHANGED <<timer_lock, timer_in_poll, target, running, running_timer,
                 expiry, now, frames, calls>>

\* The outer loop of __sync_timer: lock and look again.
SyncRelock(c) ==
  /\ pc[c] = "resync"
  /\ timer_lock = NoCpu
  /\ SyncBody(c, arg[c].t, arg[c].cancel)
  /\ UNCHANGED calls

-----------------------------------------------------------------------------
\* The frame of a call of check_timers: the timer whose expiry function runs,
\* whether __check_poll_timers runs it, the time stamp and the argument.
Frame(stamp, from_interrupt) ==
  [t |-> NoTimer, poll |-> FALSE, stamp |-> stamp, intr |-> from_interrupt]

top(c) == Head(frames[c])
SetTop(c, f) == frames' = [frames EXCEPT ![c] = <<f>> \o Tail(@)]

\* check_timers up to lock(): the time stamp and the peek without the lock.
CheckPeek(c, from_interrupt) ==
  IF timer_list = <<>> /\ timer_poll_list = <<>>
  THEN UNCHANGED <<pc, frames>>
  ELSE /\ Goto(c, "peeked")
       /\ frames' = [frames EXCEPT ![c] = <<Frame(now, from_interrupt)>> \o @]

\* check_timers(false), from the pollers; also from an expiry function that
\* runs the pollers while it waits for something.
check_timers(c) ==
  /\ pc[c] = "run" /\ Len(frames[c]) < depth
  /\ CheckPeek(c, FALSE)
  /\ UNCHANGED <<timer_lock, core, now, arg, calls>>

\* The SBE interrupt and its handler's check_timers(true).
SbeInterrupt(c) ==
  /\ pc[c] = "run" /\ Len(frames[c]) < depth
  /\ expiry <= now
  /\ expiry' = Never
  /\ CheckPeek(c, TRUE)
  /\ UNCHANGED <<timer_lock, timer_list, timer_poll_list, list, timer_in_poll,
                 target, running, running_timer, cancelled, now, arg, calls>>

\* lock(), and the start of __check_poll_timers unless some CPU is in it.
CheckLock(c) ==
  /\ pc[c] = "peeked"
  /\ timer_lock = NoCpu
  /\ timer_lock' = c
  /\ \/ /\ top(c).intr \/ timer_in_poll
        /\ Goto(c, "timers")
        /\ UNCHANGED <<timer_in_poll, list, timer_poll_list, frames>>
     \/ /\ ~top(c).intr /\ ~timer_in_poll
        /\ timer_in_poll' = TRUE
        /\ list' = timer_poll_list
        /\ timer_poll_list' = <<>>
        /\ SetTop(c, [top(c) EXCEPT !.poll = TRUE])
        /\ Goto(c, "poll")
  /\ UNCHANGED <<timer_list, target, running, running_timer, expiry, cancelled,
                 now, arg, calls>>

\* Unlink t, mark it running, unlock and call t->expiry.
RunExpiry(c, t) ==
  /\ __remove_timer(t)
  /\ running' = [running EXCEPT ![t] = c]
  /\ running_timer' = [running_timer EXCEPT ![c] = TRUE]
  /\ timer_lock' = NoCpu
  /\ SetTop(c, [top(c) EXCEPT !.t = t])
  /\ Goto(c, "run")
  /\ UNCHANGED <<timer_in_poll, target, expiry, cancelled, now, arg, calls>>

\* __check_poll_timers: the top of the private list is still running, it
\* waits for the next poll.
PollSkip(c) ==
  /\ pc[c] = "poll" /\ list # <<>> /\ running[Head(list)] # NoCpu
  /\ list' = Tail(list)
  /\ timer_poll_list' = Append(timer_poll_list, Head(list))
  /\ UNCHANGED <<timer_lock, timer_list, timer_in_poll, target, running,
                 running_timer, expiry, cancelled, now, pc, frames, arg, calls>>

PollRun(c) ==
  /\ pc[c] = "poll" /\ list # <<>> /\ running[Head(list)] = NoCpu
  /\ RunExpiry(c, Head(list))

\* The end of __check_poll_timers.
PollDone(c) ==
  /\ pc[c] = "poll" /\ list = <<>>
  /\ timer_in_poll' = FALSE
  /\ SetTop(c, [top(c) EXCEPT !.poll = FALSE])
  /\ Goto(c, "timers")
  /\ UNCHANGED <<timer_lock, timer_list, timer_poll_list, list, target, running,
                 running_timer, expiry, cancelled, now, arg, calls>>

\* __check_timers: the first timer has expired.
TimersRun(c) ==
  /\ pc[c] = "timers" /\ timer_list # <<>>
  /\ target[Head(timer_list)] <= top(c).stamp
  /\ running[Head(timer_list)] = NoCpu
  /\ RunExpiry(c, Head(timer_list))

\* What __check_timers tells the SBE when it ends: the target of the first
\* timer, or if that one has expired and is still running, 1 us from now.
CheckTells(c) ==
  LET t == Head(timer_list) IN
  IF timer_list = <<>> THEN UNCHANGED expiry
  ELSE IF target[t] > top(c).stamp THEN update_timer_expiry(target[t])
  ELSE update_timer_expiry(IF top(c).stamp < Horizon THEN top(c).stamp + 1 ELSE Horizon)

\* __check_timers has nothing to run: tell the SBE, unlock and return.
CheckDone(c) ==
  /\ pc[c] = "timers"
  /\ timer_list # <<>> =>
       \/ target[Head(timer_list)] > top(c).stamp
       \/ running[Head(timer_list)] # NoCpu
  /\ CheckTells(c)
  /\ timer_lock' = NoCpu
  /\ frames' = [frames EXCEPT ![c] = Tail(@)]
  /\ Goto(c, "run")
  /\ UNCHANGED <<timer_list, timer_poll_list, list, timer_in_poll, target,
                 running, running_timer, cancelled, now, arg, calls>>

\* The expiry function returns ...
ExpiryReturns(c) ==
  /\ pc[c] = "run" /\ frames[c] # <<>>
  /\ Goto(c, "relock")
  /\ UNCHANGED <<timer_lock, core, now, frames, arg, calls>>

\* Mutant of Relock: t->running stays set.
RelockStillRunning(c) ==
  /\ pc[c] = "relock"
  /\ timer_lock = NoCpu
  /\ timer_lock' = c
  /\ running_timer' = [running_timer EXCEPT ![c] = FALSE]
  /\ SetTop(c, [top(c) EXCEPT !.t = NoTimer,
                              !.stamp = IF top(c).poll THEN @ ELSE now])
  /\ Goto(c, IF top(c).poll THEN "poll" ELSE "timers")
  /\ UNCHANGED <<timer_list, timer_poll_list, list, timer_in_poll, target, running,
                 expiry, cancelled, now, arg, calls>>

\* ... re-lock and mark not running; the loop goes on, the one of
\* __check_timers with a new time stamp.
Relock(c) ==
  /\ pc[c] = "relock"
  /\ timer_lock = NoCpu
  /\ timer_lock' = c
  /\ running_timer' = [running_timer EXCEPT ![c] = FALSE]
  /\ running' = [running EXCEPT ![top(c).t] = NoCpu]
  /\ SetTop(c, [top(c) EXCEPT !.t = NoTimer,
                              !.stamp = IF top(c).poll THEN @ ELSE now])
  /\ Goto(c, IF top(c).poll THEN "poll" ELSE "timers")
  /\ UNCHANGED <<timer_list, timer_poll_list, list, timer_in_poll, target,
                 expiry, cancelled, now, arg, calls>>

Tick ==
  /\ now < Horizon
  /\ now' = now + 1
  /\ UNCHANGED <<timer_lock, core, pc, frames, arg, calls>>

-----------------------------------------------------------------------------
\* Steps of code a CPU is in the middle of.
CpuStep(c) ==
  \/ SyncSees(c) \/ SyncRelock(c)
  \/ CheckLock(c) \/ PollSkip(c) \/ PollRun(c) \/ PollDone(c)
  \/ TimersRun(c) \/ CheckDone(c) \/ ExpiryReturns(c) \/ Relock(c)

Next ==
  /\ \/ Tick
     \/ \E c \in CPUs :
          \/ CpuStep(c) \/ SbeInterrupt(c) \/ check_timers(c)
          \/ \E t \in Timers :
               \/ schedule_timer(c, t) \/ cancel_timer_async(c, t)
               \/ sync_timer(c, t) \/ cancel_timer(c, t)
  /\ UNCHANGED depth

Spec == Init /\ [][Next]_vars

\* Started code goes on, time passes and the SBE interrupts somebody; nobody
\* has to poll.  timer_lock is left free between two SBE interrupts, at least
\* sbe_timer_min_us apart, for much longer than it takes a CPU that spins on
\* it to notice, so that the CPU does not lose every race for it.
FairSpec ==
  /\ Spec
  /\ WF_moving(Tick)
  /\ WF_moving(\E c \in CPUs : SbeInterrupt(c))
  /\ \A c \in CPUs : WF_moving(CpuStep(c)) /\ SF_moving(Relock(c))

-----------------------------------------------------------------------------
Frames == [t: Timers \cup {NoTimer}, poll: BOOLEAN, stamp: Times, intr: BOOLEAN]

\* The types of the lists, the timers and the CPUs.
TypeOK ==
  /\ timer_lock \in CPUs \cup {NoCpu}
  /\ {timer_list, timer_poll_list, list} \subseteq Seq(Timers)
  /\ timer_in_poll \in BOOLEAN
  /\ target \in [Timers -> Times \cup {TIMER_POLL}]
  /\ running \in [Timers -> CPUs \cup {NoCpu}]
  /\ running_timer \in [CPUs -> BOOLEAN]
  /\ expiry \in Times \cup {Never}
  /\ now \in Times
  /\ pc \in [CPUs -> {"run", "peeked", "poll", "timers", "relock", "sync", "resync"}]
  /\ frames \in [CPUs -> Seq(Frames)]
  /\ arg \in [CPUs -> [t: Timers \cup {NoTimer}, cancel: BOOLEAN]]
  /\ calls \in 0..MaxCalls
  /\ cancelled \subseteq Timers

\* All timers that are on one of the lists.
Linked == ToSet(timer_list \o timer_poll_list \o list)

\* The lists hold timers and every timer is linked at most once, over the
\* three lists it may be on, although it may be scheduled and cancelled while
\* it runs or is about to; and the list of timers is in the order of their
\* targets, so that its top is the timer to wait for.
ListsSound ==
  LET s == timer_list \o timer_poll_list \o list IN
  /\ TypeOK
  /\ \A i, j \in 1..Len(s) : s[i] = s[j] => i = j
  /\ \A i \in 1..Len(timer_list) : target[timer_list[i]] # TIMER_POLL
  /\ \A i, j \in 1..Len(timer_list) :
       i < j => target[timer_list[i]] <= target[timer_list[j]]

\* No expiry is lost: when no CPU is in check_timers() the SBE will interrupt
\* no later than the target of the first timer.
NoLostExpiry ==
  (\A c \in CPUs : frames[c] = <<>>) /\ timer_list # <<>>
    => expiry <= target[Head(timer_list)]

\* The lists, locks and waits implement the service promised to the users:
\* an expiry function runs on one CPU at a time, although it may schedule its
\* own timer before it returns and other CPUs run whatever has expired; and
\* "cancel_timer() will ensure the timer isn't concurrently running so the
\* cancellation is guaranteed even if the timer reschedules itself": once it
\* has returned nothing refers to the timer, which may be freed.
Service == INSTANCE TimerService WITH scheduled <- Linked
ImplementsService == Service!Spec

\* With no more calls to come every timer gets its turn, by SBE interrupts
\* alone, as long as these do not interrupt expiry functions.
AllExpire == depth = 1 => []<>(timer_list = <<>>)
=============================================================================
