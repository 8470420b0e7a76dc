------------------------------ MODULE SbeTimer ------------------------------
(***************************************************************************)
(* The SBE timer (hw/sbe-p9.c): one reused message, timer_ctrl_msg, starts *)
(* or shortens the one-shot timer of the SBE of the master chip.           *)
(*                                                                         *)
(* Three kinds of code meet here.  p9_sbe_update_timer_expiry, called by   *)
(* the timer core with timer_lock held; p9_sbe_timer_resp, the completion  *)
(* function of the message, called without locks by whichever CPU handles  *)
(* the mailbox, or with both locks held when sending fails at once; and    *)
(* p9_sbe_timer_response, which handles the expiry and calls the timer     *)
(* core.  Every access to a variable outside the lock that protects it is  *)
(* a step of its own.                                                      *)
(*                                                                         *)
(* Of the mailbox (module SbeMbox) only the fate of timer_ctrl_msg is kept *)
(* and of the timer core (module Timer) the target of its first timer.     *)
(***************************************************************************)
EXTENDS Naturals, Cpus

CONSTANTS
  SBE_TIMER_UPDATE_MAX,
  MinTick,       \* sbe_timer_min_tb
  MaxTick,       \* SBE_TIMER_MAX_US
  Horizon,       \* bound: the last instant; stands for any later time, too
  MaxSchedules,  \* bound: timers scheduled in a behaviour
  TimerTroubles  \* the sets of troubles a behaviour may meet, see timer_trouble

ASSUME SbeTimerAssumption ==
  /\ NoCpu \notin CPUs
  /\ {SBE_TIMER_UPDATE_MAX, MinTick, MaxTick} \subseteq Nat \ {0}
  /\ MinTick <= MaxTick
  /\ {Horizon, MaxSchedules} \subseteq Nat
  /\ TimerTroubles \subseteq SUBSET {"fail", "overtake"}

Times == 0..Horizon
Never == Horizon + MaxTick + 1   \* ~0ull
NoTick == 0

VARIABLES
  timer_trouble,               \* what may happen: timer_ctrl_msg fails or times
                               \* out; a CPU handles the expiry while another
                               \* one is still to run p9_sbe_timer_resp
  timer_lock, sbe_timer_lock,  \* owners of the locks
  in_progress,                 \* sbe_timer_in_progress
  has_new_target,
  current_tb,                  \* sbe_current_timer_tb
  sbe_target,                  \* sbe_timer_target
  timer_update_cnt,
  msg, tick,                   \* timer_ctrl_msg: its state, and its tick_us
                               \* until it is queued
  timer_cmd,                   \* tick_us on its way to the SBE, or NoTick
  hw,                          \* when the SBE timer expires
  bell,                        \* SBE_HOST_TIMER_EXPIRY
  want,                        \* target of the first timer of the timer core
  now,
  timer_pc, new,               \* where each CPU is, and its new_target
  schedules

locks == <<timer_lock, sbe_timer_lock>>
timer_driver == <<in_progress, has_new_target, current_tb, sbe_target,
                  timer_update_cnt, msg, tick>>
sbe_timer == <<timer_cmd, hw, bell>>
core == <<want, now, schedules>>
timer_moving == <<locks, timer_driver, sbe_timer, core, timer_pc, new>>
SbeTimerVars == <<timer_trouble, timer_moving>>

SbeTimerInit ==
  /\ timer_trouble \in TimerTroubles
  /\ timer_lock = NoCpu /\ sbe_timer_lock = NoCpu
  /\ in_progress = FALSE /\ has_new_target = FALSE
  /\ current_tb = Never /\ sbe_target = Never
  /\ timer_update_cnt = 0
  /\ msg = "unused" /\ tick = NoTick
  /\ timer_cmd = NoTick /\ hw = Never /\ bell = FALSE
  /\ want = Never /\ now = 0 /\ schedules = 0
  /\ timer_pc = [c \in CPUs |-> "run"]
  /\ new = [c \in CPUs |-> Never]

-----------------------------------------------------------------------------
TimerGoto(c, where) == timer_pc' = [timer_pc EXCEPT ![c] = where]

\* Return to the caller, with the locks taken on the way given back.
Leave(c) ==
  /\ TimerGoto(c, "run")
  /\ new' = [new EXCEPT ![c] = Never]
  /\ timer_lock' = IF timer_lock = c THEN NoCpu ELSE timer_lock
  /\ sbe_timer_lock' = IF sbe_timer_lock = c THEN NoCpu ELSE sbe_timer_lock

timer_msg_busy == msg = "busy"

\* The SBE has read the message: SBE_HOST_MSG_READ is set.
AckWaiting == timer_msg_busy /\ timer_cmd = NoTick

\* The timer core schedules a timer that becomes its first one.
ScheduleFirst(c) ==
  /\ timer_pc[c] = "run" /\ timer_lock = NoCpu
  /\ schedules < MaxSchedules /\ schedules' = schedules + 1
  /\ timer_lock' = c
  /\ \E w \in Times :
       w >= now /\ w < want /\ want' = w /\ new' = [new EXCEPT ![c] = w]
  /\ TimerGoto(c, "update")
  /\ UNCHANGED <<sbe_timer_lock, timer_driver, sbe_timer, now>>

\* The timer core runs its timers and names the first of the others, if any.
check_timers(c) ==
  /\ timer_pc[c] = "check" /\ timer_lock = NoCpu
  /\ want' \in IF want <= now THEN {Never} \cup {w \in Times : w > now} ELSE {want}
  /\ \/ /\ want' # Never
        /\ timer_lock' = c
        /\ new' = [new EXCEPT ![c] = want']
        /\ TimerGoto(c, "update")
     \/ want' = Never /\ TimerGoto(c, "run") /\ UNCHANGED <<timer_lock, new>>
  /\ UNCHANGED <<sbe_timer_lock, timer_driver, sbe_timer, now, schedules>>

\* p9_sbe_update_timer_expiry: the look at sbe_timer_target without the lock.
UpdatePeek(c) ==
  /\ timer_pc[c] = "update"
  /\ \/ new[c] = sbe_target /\ Leave(c)
     \/ new[c] # sbe_target /\ TimerGoto(c, "updlock") /\ UNCHANGED <<locks, new>>
  /\ UNCHANGED <<timer_driver, sbe_timer, core>>

\* Mutant of UpdateLock: a message in flight is not looked for.
UpdateLockBlind(c) ==
  /\ timer_pc[c] = "updlock" /\ sbe_timer_lock = NoCpu
  /\ sbe_timer_lock' = c
  /\ TimerGoto(c, IF has_new_target THEN "record" ELSE "fresh")
  /\ UNCHANGED <<timer_lock, timer_driver, sbe_timer, core, new>>

\* ... lock, and see if the message is in flight.
UpdateLock(c) ==
  /\ timer_pc[c] = "updlock" /\ sbe_timer_lock = NoCpu
  /\ sbe_timer_lock' = c
  /\ TimerGoto(c, IF timer_msg_busy \/ has_new_target THEN "record" ELSE "fresh")
  /\ UNCHANGED <<timer_lock, timer_driver, sbe_timer, core, new>>

\* "Timer message is in flight.  Record new timer and schedule later".
Record(c) ==
  /\ timer_pc[c] = "record"
  /\ IF new[c] < sbe_target
     THEN sbe_target' = new[c] /\ has_new_target' = TRUE
     ELSE UNCHANGED <<sbe_target, has_new_target>>
  /\ Leave(c)
  /\ UNCHANGED <<in_progress, current_tb, timer_update_cnt, msg, tick, sbe_timer, core>>

\* No message is in flight: send it for the new target.
Fresh(c) ==
  /\ timer_pc[c] = "fresh"
  /\ sbe_target' = new[c]
  /\ TimerGoto(c, "schedule")
  /\ UNCHANGED <<locks, in_progress, has_new_target, current_tb,
                 timer_update_cnt, msg, tick, sbe_timer, core, new>>

-----------------------------------------------------------------------------
\* The early returns of p9_sbe_timer_schedule: too many updates, or the
\* running timer is early enough.
NothingToSend ==
  \/ timer_update_cnt = SBE_TIMER_UPDATE_MAX
  \/ /\ in_progress
     /\ \/ sbe_target >= current_tb
        \/ now >= current_tb
        \/ current_tb - now <= MinTick

\* The time the SBE is asked for; the last update allowed takes the minimum.
Tick ==
  IF timer_update_cnt + 1 < SBE_TIMER_UPDATE_MAX /\ now < sbe_target
     /\ sbe_target - now > MinTick
  THEN IF sbe_target - now > MaxTick THEN MaxTick ELSE sbe_target - now
  ELSE MinTick

\* Mutant of p9_sbe_timer_schedule: an early return forgets sbe_timer_lock.
ScheduleKeepsLock(c) ==
  /\ timer_pc[c] = "schedule"
  /\ \/ /\ NothingToSend
        /\ TimerGoto(c, "run")
        /\ new' = [new EXCEPT ![c] = Never]
        /\ timer_lock' = IF timer_lock = c THEN NoCpu ELSE timer_lock
        /\ UNCHANGED <<sbe_timer_lock, current_tb, timer_update_cnt, tick>>
     \/ /\ ~NothingToSend
        /\ timer_update_cnt' = timer_update_cnt + 1
        /\ current_tb' = now + Tick
        /\ tick' = Tick
        /\ TimerGoto(c, "queue")
        /\ UNCHANGED <<locks, new>>
  /\ UNCHANGED <<in_progress, has_new_target, sbe_target, msg, sbe_timer, core>>

\* p9_sbe_timer_schedule up to p9_sbe_queue_msg.
p9_sbe_timer_schedule(c) ==
  /\ timer_pc[c] = "schedule"
  /\ \/ /\ NothingToSend
        /\ Leave(c)
        /\ UNCHANGED <<current_tb, timer_update_cnt, tick>>
     \/ /\ ~NothingToSend
        /\ timer_update_cnt' = timer_update_cnt + 1
        /\ current_tb' = now + Tick
        /\ tick' = Tick
        /\ TimerGoto(c, "queue")
        /\ UNCHANGED <<locks, new>>
  /\ UNCHANGED <<in_progress, has_new_target, sbe_target, msg, sbe_timer, core>>

\* p9_sbe_queue_msg: the message is queued; it may be sent any time later.
QueueMsg(c) ==
  /\ timer_pc[c] = "queue"
  /\ msg' = "busy" /\ timer_cmd' = tick /\ tick' = NoTick
  /\ Leave(c)
  /\ UNCHANGED <<in_progress, has_new_target, current_tb, sbe_target,
                 timer_update_cnt, hw, bell, core>>

\* ... or cannot be sent and is completed at once, with the locks held.
QueueMsgFails(c) ==
  /\ "fail" \in timer_trouble
  /\ timer_pc[c] = "queue"
  /\ msg' = "error" /\ tick' = NoTick
  /\ TimerGoto(c, "comp")
  /\ UNCHANGED <<locks, in_progress, has_new_target, current_tb, sbe_target,
                 timer_update_cnt, sbe_timer, core, new>>

-----------------------------------------------------------------------------
\* A CPU that handles the mailbox completes the message: acknowledged ...
MsgDone(c) ==
  /\ timer_pc[c] = "run"
  /\ AckWaiting
  /\ msg' = "done"
  /\ TimerGoto(c, "comp")
  /\ UNCHANGED <<locks, in_progress, has_new_target, current_tb, sbe_target,
                 timer_update_cnt, tick, sbe_timer, core, new>>

\* ... or timed out; the SBE may still read it later.
MsgTimeout(c) ==
  /\ "fail" \in timer_trouble
  /\ timer_pc[c] = "run"
  /\ timer_msg_busy
  /\ msg' = "timeout"
  /\ TimerGoto(c, "comp")
  /\ UNCHANGED <<locks, in_progress, has_new_target, current_tb, sbe_target,
                 timer_update_cnt, tick, sbe_timer, core, new>>

\* p9_sbe_timer_resp: the timer runs now, if the message got through.
RespStore(c) ==
  /\ timer_pc[c] = "comp"
  /\ in_progress' = (in_progress \/ msg = "done")
  /\ TimerGoto(c, "comppeek")
  /\ UNCHANGED <<locks, has_new_target, current_tb, sbe_target,
                 timer_update_cnt, msg, tick, sbe_timer, core, new>>

\* ... the look at has_new_target without the lock.
RespPeek(c) ==
  /\ timer_pc[c] = "comppeek"
  /\ \/ ~has_new_target /\ Leave(c)
     \/ has_new_target /\ TimerGoto(c, "complock") /\ UNCHANGED <<locks, new>>
  /\ UNCHANGED <<timer_driver, sbe_timer, core>>

\* Mutant of RespLock: has_new_target stays set while the message is queued.
RespLockKeeps(c) ==
  /\ timer_pc[c] = "complock" /\ sbe_timer_lock = NoCpu
  /\ \/ /\ has_new_target /\ ~timer_msg_busy
        /\ sbe_timer_lock' = c
        /\ TimerGoto(c, "schedule")
        /\ UNCHANGED <<timer_lock, has_new_target, new>>
     \/ /\ ~has_new_target \/ timer_msg_busy
        /\ Leave(c)
        /\ UNCHANGED has_new_target
  /\ UNCHANGED <<in_progress, current_tb, sbe_target, timer_update_cnt, msg,
                 tick, sbe_timer, core>>

\* ... lock and look again: schedule the recorded timer.
RespLock(c) ==
  /\ timer_pc[c] = "complock" /\ sbe_timer_lock = NoCpu
  /\ \/ /\ has_new_target /\ ~timer_msg_busy
        /\ has_new_target' = FALSE
        /\ sbe_timer_lock' = c
        /\ TimerGoto(c, "schedule")
        /\ UNCHANGED <<timer_lock, new>>
     \/ /\ ~has_new_target \/ timer_msg_busy
        /\ Leave(c)
        /\ UNCHANGED has_new_target
  /\ UNCHANGED <<in_progress, current_tb, sbe_target, timer_update_cnt, msg,
                 tick, sbe_timer, core>>

-----------------------------------------------------------------------------
\* p9_sbe_timer_response: the timer has expired; the acknowledgement of the
\* message, if there is one, is handled before ...
p9_sbe_timer_response(c) ==
  /\ timer_pc[c] = "run" /\ bell
  /\ ~AckWaiting
  /\ "overtake" \in timer_trouble \/ \A d \in CPUs : timer_pc[d] # "comp"
  /\ bell' = FALSE
  /\ in_progress' = FALSE
  /\ TimerGoto(c, "expired")
  /\ UNCHANGED <<locks, has_new_target, current_tb, sbe_target,
                 timer_update_cnt, msg, tick, timer_cmd, hw, core, new>>

\* ... forget the targets, then check_timers(true).
ExpiryReset(c) ==
  /\ timer_pc[c] = "expired" /\ sbe_timer_lock = NoCpu
  /\ timer_update_cnt' = 0
  /\ sbe_target' = Never
  /\ has_new_target' = FALSE
  /\ TimerGoto(c, "check")
  /\ UNCHANGED <<locks, in_progress, current_tb, msg, tick, sbe_timer, core, new>>

\* The SBE reads the message and starts its timer.
SbeStart ==
  /\ timer_cmd # NoTick
  /\ hw' = now + timer_cmd
  /\ timer_cmd' = NoTick
  /\ UNCHANGED <<locks, timer_driver, bell, core, timer_pc, new>>

\* The SBE timer expires.
SbeExpire ==
  /\ hw # Never /\ (hw <= now \/ now = Horizon)
  /\ hw' = Never
  /\ bell' = TRUE
  /\ UNCHANGED <<locks, timer_driver, timer_cmd, core, timer_pc, new>>

Clock ==
  /\ now < Horizon
  /\ now' = now + 1
  /\ UNCHANGED <<locks, timer_driver, sbe_timer, want, schedules, timer_pc, new>>

-----------------------------------------------------------------------------
\* Steps of code a CPU is in the middle of.
SbeTimerStep(c) ==
  \/ check_timers(c) \/ UpdatePeek(c) \/ UpdateLock(c) \/ Record(c) \/ Fresh(c)
  \/ p9_sbe_timer_schedule(c) \/ QueueMsg(c) \/ QueueMsgFails(c)
  \/ RespStore(c) \/ RespPeek(c) \/ RespLock(c) \/ ExpiryReset(c)

Mailbox(c) == MsgDone(c) \/ MsgTimeout(c) \/ p9_sbe_timer_response(c)

SbeTimerNext ==
  /\ \/ SbeStart \/ SbeExpire \/ Clock
     \/ \E c \in CPUs : ScheduleFirst(c) \/ SbeTimerStep(c) \/ Mailbox(c)
  /\ UNCHANGED timer_trouble

SbeTimerSpec == SbeTimerInit /\ [][SbeTimerNext]_SbeTimerVars

\* Code that runs goes on, the SBE works, its interrupts are handled, time
\* passes.
SbeTimerFairSpec ==
  /\ SbeTimerSpec
  /\ WF_timer_moving(SbeStart) /\ WF_timer_moving(SbeExpire) /\ WF_timer_moving(Clock)
  /\ WF_timer_moving(\E c \in CPUs : Mailbox(c))
  /\ \A c \in CPUs : WF_timer_moving(SbeTimerStep(c))

-----------------------------------------------------------------------------
\* The types of the driver's variables and of the CPUs.
SbeTimerTypeOK ==
  /\ timer_trouble \in TimerTroubles
  /\ {timer_lock, sbe_timer_lock} \subseteq CPUs \cup {NoCpu}
  /\ {in_progress, has_new_target, bell} \subseteq BOOLEAN
  /\ {current_tb, sbe_target, hw, want} \subseteq 0..Never
  /\ timer_update_cnt \in 0..SBE_TIMER_UPDATE_MAX
  /\ msg \in {"unused", "busy", "done", "error", "timeout"}
  /\ {tick, timer_cmd} \subseteq 0..MaxTick
  /\ now \in Times /\ schedules \in 0..MaxSchedules
  /\ timer_pc \in [CPUs -> {"run", "check", "update", "updlock", "record", "fresh",
                      "schedule", "queue", "comp", "comppeek", "complock", "expired"}]
  /\ new \in [CPUs -> 0..Never]

\* The types; and timer_ctrl_msg is never put on the queue of the mailbox while it is on it,
\* which would tie the list into a knot: both users look at its state under
\* sbe_timer_lock, and only completion, after list_del(), resets it.
QueuedOnce == SbeTimerTypeOK /\ \A c \in CPUs : timer_pc[c] = "queue" => ~timer_msg_busy

\* The completion function never waits for sbe_timer_lock on the CPU that
\* holds it: when sending fails at once it runs inside
\* p9_sbe_timer_schedule(), and must find has_new_target unset.
NoSelfDeadlock ==
  \A c \in CPUs : timer_pc[c] = "complock" => sbe_timer_lock # c

\* With no more timers scheduled all of them run in the end, by SBE
\* interrupts alone, if neither trouble occurs.
AllRun == timer_trouble = {} => []<>(want = Never)
=============================================================================
