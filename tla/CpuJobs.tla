------------------------------- MODULE CpuJobs ------------------------------
(***************************************************************************)
(* Jobs and idle CPUs (core/cpu.c).  A CPU that is in OPAL and has nothing *)
(* to do sits in the loop of __secondary_cpu_entry, idle and mostly        *)
(* asleep, until another CPU puts a job on its queue and sends it an IPI;  *)
(* a CPU that waits for a job it has queued is idle for a while, too.      *)
(* cpu_set_ipi_enable and cpu_set_sreset_enable change the way CPUs sleep, *)
(* and kick everybody out of idle before.                                  *)
(*                                                                         *)
(* Every access to a variable that another CPU reads or writes without the *)
(* lock is a step of its own; the syncs of the code are what makes their   *)
(* order the order of the program.  idle_lock is held within steps only,   *)
(* job_lock of a CPU from one step to another only by the CPU itself, when *)
(* it is at "done" or "pop".                                               *)
(***************************************************************************)
EXTENDS Naturals, FiniteSets, SequencesExt

CONSTANTS
  CPUs, NoCpu,
  Callers,    \* CPUs that run code which uses jobs, at the beginning; the
              \* others are in the loop of __secondary_cpu_entry
  Booting,    \* the one caller is the boot CPU; otherwise callers belong to
              \* the OS and are in OPAL calls
  Jobs, NoJob,
  NoReturns,  \* jobs that do not return: opal_start_thread_job
  P8,         \* proc_gen == proc_gen_p8
  MaxReconf   \* bound: calls of cpu_set_ipi_enable, cpu_set_sreset_enable

ASSUME CpuJobsAssumption ==
  /\ IsFiniteSet(CPUs) /\ NoCpu \notin CPUs /\ Callers \subseteq CPUs
  /\ NoJob \notin Jobs /\ NoReturns \subseteq Jobs
  /\ {Booting, P8} \subseteq BOOLEAN
  /\ MaxReconf \in Nat

Features == {"ipi", "sreset"}

VARIABLES
  state,              \* cpu->state: "active" (in OPAL) or "os"
  job_queue, job_count, job_has_no_return,
  alloc, freed,       \* jobs allocated and freed so far
  complete,           \* jobs with job->complete set
  mine,               \* jobs a CPU is yet to wait for
  in_idle, in_sleep, in_job_sleep, nr_cpus_idle,
  reconfigure_idle,
  enabled,            \* ipi_enabled and sreset_enabled
  pm_enabled,
  ipi,                \* pending IPIs or doorbells
  pc,                 \* where each CPU is; "run" is code outside cpu.c
  kind,               \* wake_on: "job" or "delay" (cpu_wake_on_dec)
  tgt, job,           \* the CPU and the job queue_job_on_cpu is called for;
                      \* job is the one cpu_process_jobs runs, too
  kicks,              \* CPUs the loop of reconfigure_idle_start is yet to see
  reconfs

jobs == <<state, job_queue, job_count, job_has_no_return, alloc, freed,
          complete, mine>>
idle == <<in_idle, in_sleep, in_job_sleep, nr_cpus_idle>>
reconf == <<reconfigure_idle, enabled, pm_enabled, kicks, reconfs>>
locals == <<kind, tgt, job>>
vars == <<jobs, idle, reconf, ipi, pc, locals>>

Init ==
  /\ state = [c \in CPUs |-> IF c \in Callers /\ ~Booting THEN "os" ELSE "active"]
  /\ job_queue = [c \in CPUs |-> <<>>]
  /\ job_count = [c \in CPUs |-> 0]
  /\ job_has_no_return = [c \in CPUs |-> FALSE]
  /\ alloc = {} /\ freed = {} /\ complete = {}
  /\ mine = [c \in CPUs |-> {}]
  /\ in_idle = [c \in CPUs |-> FALSE]
  /\ in_sleep = [c \in CPUs |-> FALSE]
  /\ in_job_sleep = [c \in CPUs |-> FALSE]
  /\ nr_cpus_idle = 0
  /\ reconfigure_idle = FALSE
  /\ enabled = [f \in Features |-> TRUE]
  /\ pm_enabled = TRUE
  /\ ipi = [c \in CPUs |-> FALSE]
  /\ pc = [c \in CPUs |-> IF c \in Callers THEN "run" ELSE "loop"]
  /\ kind = [c \in CPUs |-> "job"]
  /\ tgt = [c \in CPUs |-> NoCpu]
  /\ job = [c \in CPUs |-> NoJob]
  /\ kicks = [c \in CPUs |-> {}]
  /\ reconfs = 0

-----------------------------------------------------------------------------
Goto(c, where) == pc' = [pc EXCEPT ![c] = where]

cpu_is_available(c) == state[c] = "active"
cpu_check_jobs(c) == job_queue[c] # <<>>

\* cpu_find_job_target: the CPUs its scan may return, the ones with the fewest
\* jobs.
cpu_find_job_target(c) ==
  LET fit == {d \in CPUs \ {c} : cpu_is_available(d) /\ ~job_has_no_return[d]}
  IN  {d \in fit : \A e \in fit : job_count[d] <= job_count[e]}

\* Call of queue_job_on_cpu(d, j).
QueueOn(c, j, d) ==
  /\ alloc' = alloc \cup {j}
  /\ tgt' = [tgt EXCEPT ![c] = d]
  /\ job' = [job EXCEPT ![c] = j]
  /\ Goto(c, "queue")

\* __cpu_queue_job for a job that returns: on one of the CPUs given, or at
\* once.
__cpu_queue_job(c, j, targets) ==
  /\ pc[c] = "run" /\ j \notin alloc \cup NoReturns
  /\ mine' = [mine EXCEPT ![c] = @ \cup {j}]
  /\ \/ /\ \E d \in targets \ {c} : QueueOn(c, j, d)
        /\ UNCHANGED complete
     \/ /\ targets \subseteq {c}
        /\ alloc' = alloc \cup {j}
        /\ complete' = complete \cup {j}
        /\ UNCHANGED <<tgt, job, pc>>
  /\ UNCHANGED <<state, job_queue, job_count, job_has_no_return, freed, idle,
                 reconf, ipi, kind>>

cpu_queue_job_any(c, j) == Booting /\ __cpu_queue_job(c, j, cpu_find_job_target(c))

cpu_queue_job_on(c, j, d) == cpu_is_available(d) /\ __cpu_queue_job(c, j, {d})

\* opal_start_cpu_thread: a job that does not return and that nobody waits
\* for.
opal_start_cpu_thread(c, j, d) ==
  /\ pc[c] = "run" /\ state[c] = "os" /\ d # c
  /\ j \in NoReturns \ alloc
  /\ cpu_is_available(d)
  /\ QueueOn(c, j, d)
  /\ UNCHANGED <<state, job_queue, job_count, job_has_no_return, freed, complete,
                 mine, idle, reconf, ipi, kind>>

\* Mutant of queue_job_on_cpu: jobs that do not return are counted, too.
QueueCountsAll(c) ==
  LET d == tgt[c] j == job[c] IN
  /\ pc[c] = "queue" /\ pc[d] \notin {"done", "pop"}
  /\ job_queue' = [job_queue EXCEPT ![d] = Append(@, j)]
  /\ job_count' = [job_count EXCEPT ![d] = @ + 1]
  /\ Goto(c, "kick")
  /\ UNCHANGED <<state, job_has_no_return, alloc, freed, complete, mine, idle,
                 reconf, ipi, locals>>

\* queue_job_on_cpu up to its sync.
queue_job_on_cpu(c) ==
  LET d == tgt[c] j == job[c] IN
  /\ pc[c] = "queue" /\ pc[d] \notin {"done", "pop"}
  /\ job_queue' = [job_queue EXCEPT ![d] = Append(@, j)]
  /\ IF j \in NoReturns
     THEN /\ job_has_no_return' = [job_has_no_return EXCEPT ![d] = TRUE]
          /\ UNCHANGED job_count
     ELSE /\ job_count' = [job_count EXCEPT ![d] = @ + 1]
          /\ UNCHANGED job_has_no_return
  /\ Goto(c, "kick")
  /\ UNCHANGED <<state, alloc, freed, complete, mine, idle, reconf, ipi, locals>>

\* ... the look at the CPU, and cpu_send_ipi.
queue_kick(c) ==
  /\ pc[c] = "kick"
  /\ ipi' = [ipi EXCEPT ![tgt[c]] = @ \/ in_job_sleep[tgt[c]]]
  /\ tgt' = [tgt EXCEPT ![c] = NoCpu]
  /\ job' = [job EXCEPT ![c] = NoJob]
  /\ Goto(c, "run")
  /\ UNCHANGED <<jobs, idle, reconf, kind>>

\* cpu_wait_job: time_wait_ms() until the job is complete, then free.
cpu_wait_job(c, j) ==
  /\ pc[c] = "run" /\ j \in mine[c]
  /\ \/ /\ j \in complete
        /\ mine' = [mine EXCEPT ![c] = @ \ {j}]
        /\ freed' = freed \cup {j}
        /\ UNCHANGED <<kind, pc>>
     \/ /\ j \notin complete
        /\ kind' = [kind EXCEPT ![c] = "delay"]
        /\ Goto(c, "enter")
        /\ UNCHANGED <<mine, freed>>
  /\ UNCHANGED <<state, job_queue, job_count, job_has_no_return, alloc, complete,
                 idle, reconf, ipi, tgt, job>>

-----------------------------------------------------------------------------
\* The loop of __secondary_cpu_entry.
secondary_loop(c) ==
  /\ pc[c] = "loop"
  /\ kind' = [kind EXCEPT ![c] = "job"]
  /\ Goto(c, IF cpu_check_jobs(c) THEN "pop" ELSE "enter")
  /\ UNCHANGED <<jobs, idle, reconf, ipi, tgt, job>>

\* Mutant of process_pop: a job counts as complete before it runs.
PopCompletes(c) ==
  /\ pc[c] = "pop"
  /\ \/ /\ ~cpu_check_jobs(c)
        /\ Goto(c, "loop")
        /\ UNCHANGED <<job_queue, freed, complete, job>>
     \/ /\ cpu_check_jobs(c)
        /\ job' = [job EXCEPT ![c] = Head(job_queue[c])]
        /\ job_queue' = [job_queue EXCEPT ![c] = Tail(@)]
        /\ freed' = freed \cup ({Head(job_queue[c])} \cap NoReturns)
        /\ complete' = complete \cup {Head(job_queue[c])}
        /\ Goto(c, "job")
  /\ UNCHANGED <<state, job_count, job_has_no_return, alloc, mine, idle, reconf,
                 ipi, kind, tgt>>

\* cpu_process_jobs: the next job, if there is one.
process_pop(c) ==
  /\ pc[c] = "pop"
  /\ \/ /\ ~cpu_check_jobs(c)
        /\ Goto(c, "loop")
        /\ UNCHANGED <<job_queue, freed, job>>
     \/ /\ cpu_check_jobs(c)
        /\ job' = [job EXCEPT ![c] = Head(job_queue[c])]
        /\ job_queue' = [job_queue EXCEPT ![c] = Tail(@)]
        /\ freed' = freed \cup ({Head(job_queue[c])} \cap NoReturns)
        /\ Goto(c, "job")
  /\ UNCHANGED <<state, job_count, job_has_no_return, alloc, complete, mine,
                 idle, reconf, ipi, kind, tgt>>

\* The job runs and returns; job_lock is taken again, for the count ...
process_done(c) ==
  /\ pc[c] = "job" /\ job[c] \notin NoReturns
  /\ job_count' = [job_count EXCEPT ![c] = @ - 1]
  /\ Goto(c, "done")
  /\ UNCHANGED <<state, job_queue, job_has_no_return, alloc, freed, complete, mine,
                 idle, reconf, ipi, locals>>

\* ... and, after an lwsync, job->complete, the last use of the job.
process_complete(c) ==
  /\ pc[c] = "done"
  /\ complete' = complete \cup {job[c]}
  /\ job' = [job EXCEPT ![c] = NoJob]
  /\ Goto(c, "pop")
  /\ UNCHANGED <<state, job_queue, job_count, job_has_no_return, alloc, freed, mine,
                 idle, reconf, ipi, kind, tgt>>

\* opal_start_thread_job: the CPU belongs to the OS.
opal_start_thread_job(c) ==
  /\ pc[c] = "job" /\ job[c] \in NoReturns
  /\ state' = [state EXCEPT ![c] = "os"]
  /\ job' = [job EXCEPT ![c] = NoJob]
  /\ Goto(c, "run")
  /\ UNCHANGED <<job_queue, job_count, job_has_no_return, alloc, freed, complete,
                 mine, idle, reconf, ipi, kind, tgt>>

\* opal_return_cpu: it comes back, cpu_callin marks it active ...
opal_return_cpu(c) ==
  /\ pc[c] = "run" /\ state[c] = "os"
  /\ mine[c] = {}
  /\ state' = [state EXCEPT ![c] = "active"]
  /\ Goto(c, "callin")
  /\ UNCHANGED <<job_queue, job_count, job_has_no_return, alloc, freed, complete,
                 mine, idle, reconf, ipi, locals>>

\* ... and resets job_has_no_return.
cpu_callin(c) ==
  /\ pc[c] = "callin"
  /\ job_has_no_return' = [job_has_no_return EXCEPT ![c] = FALSE]
  /\ Goto(c, "loop")
  /\ UNCHANGED <<state, job_queue, job_count, alloc, freed, complete, mine, idle,
                 reconf, ipi, locals>>

-----------------------------------------------------------------------------
\* enter_idle waits while somebody reconfigures idle.
enter_idle(c) ==
  /\ pc[c] = "enter" /\ ~reconfigure_idle
  /\ nr_cpus_idle' = nr_cpus_idle + 1
  /\ in_idle' = [in_idle EXCEPT ![c] = TRUE]
  /\ Goto(c, "idle")
  /\ UNCHANGED <<jobs, in_sleep, in_job_sleep, reconf, ipi, locals>>

\* cpu_idle_job and cpu_idle_delay: sleep or spin; a short delay is spun.
idle_how(c) ==
  /\ pc[c] = "idle"
  /\ \/ pm_enabled /\ Goto(c, "mark")
     \/ (~pm_enabled \/ kind[c] = "delay") /\ Goto(c, "spin")
  /\ UNCHANGED <<jobs, idle, reconf, ipi, locals>>

\* ... the loop without sleep; the time of a delay may be over.
idle_spin(c) ==
  /\ pc[c] = "spin"
  /\ \/ kind[c] = "delay"
     \/ cpu_check_jobs(c)
     \/ reconfigure_idle
  /\ Goto(c, "exit")
  /\ UNCHANGED <<jobs, idle, reconf, ipi, locals>>

\* cpu_idle_pm: the marks other CPUs look at ...
idle_mark(c) ==
  /\ pc[c] = "mark"
  /\ in_sleep' = [in_sleep EXCEPT ![c] = TRUE]
  /\ in_job_sleep' = [in_job_sleep EXCEPT ![c] = kind[c] = "job"]
  /\ Goto(c, "recheck")
  /\ UNCHANGED <<jobs, in_idle, nr_cpus_idle, reconf, ipi, locals>>

\* Mutant of idle_recheck: reconfigure_idle is not looked at again.
RecheckForgets(c) ==
  /\ pc[c] = "recheck"
  /\ Goto(c, "rejobs")
  /\ UNCHANGED <<jobs, idle, reconf, ipi, locals>>

\* Mutant of idle_recheck_jobs: the queue is not looked at again.
RecheckForgetsJobs(c) ==
  /\ pc[c] = "rejobs"
  /\ Goto(c, IF P8 THEN "prep" ELSE "asleep")
  /\ UNCHANGED <<jobs, idle, reconf, ipi, locals>>

\* ... the second look at the reasons to be awake ...
idle_recheck(c) ==
  /\ pc[c] = "recheck"
  /\ Goto(c, IF reconfigure_idle THEN "unmark" ELSE "rejobs")
  /\ UNCHANGED <<jobs, idle, reconf, ipi, locals>>

idle_recheck_jobs(c) ==
  /\ pc[c] = "rejobs"
  /\ Goto(c, IF kind[c] = "job" /\ cpu_check_jobs(c) THEN "unmark"
             ELSE IF P8 THEN "prep" ELSE "asleep")
  /\ UNCHANGED <<jobs, idle, reconf, ipi, locals>>

\* ... on P8, icp_prep_for_pm, which clears pending IPIs ...
icp_prep_for_pm(c) ==
  /\ pc[c] = "prep"
  /\ ipi' = [ipi EXCEPT ![c] = FALSE]
  /\ Goto(c, "asleep")
  /\ UNCHANGED <<jobs, idle, reconf, locals>>

\* ... asleep, until there is an IPI, or the decrementer wakes it ...
idle_wake(c) ==
  /\ pc[c] = "asleep"
  /\ ipi[c] \/ kind[c] = "delay"
  /\ Goto(c, "woken")
  /\ UNCHANGED <<jobs, idle, reconf, ipi, locals>>

\* ... p9_dbell_receive or reset_cpu_icp clears it ...
idle_receive(c) ==
  /\ pc[c] = "woken"
  /\ ipi' = [ipi EXCEPT ![c] = FALSE]
  /\ Goto(c, "unmark")
  /\ UNCHANGED <<jobs, idle, reconf, locals>>

\* Mutant of idle_unmark: one of the marks stays.
UnmarkHalf(c) ==
  /\ pc[c] = "unmark"
  /\ in_sleep' = [in_sleep EXCEPT ![c] = FALSE]
  /\ Goto(c, "exit")
  /\ UNCHANGED <<jobs, in_idle, in_job_sleep, nr_cpus_idle, reconf, ipi, locals>>

\* ... and the marks are removed.
idle_unmark(c) ==
  /\ pc[c] = "unmark"
  /\ in_sleep' = [in_sleep EXCEPT ![c] = FALSE]
  /\ in_job_sleep' = [in_job_sleep EXCEPT ![c] = FALSE]
  /\ Goto(c, "exit")
  /\ UNCHANGED <<jobs, in_idle, nr_cpus_idle, reconf, ipi, locals>>

exit_idle(c) ==
  /\ pc[c] = "exit"
  /\ nr_cpus_idle' = nr_cpus_idle - 1
  /\ in_idle' = [in_idle EXCEPT ![c] = FALSE]
  /\ Goto(c, "again")
  /\ UNCHANGED <<jobs, in_sleep, in_job_sleep, reconf, ipi, locals>>

\* Mutant of idle_again: the loop does not look at the queue.
AgainForgets(c) ==
  /\ pc[c] = "again"
  /\ \/ kind[c] = "job" /\ Goto(c, "enter")
     \/ kind[c] = "delay" /\ \E where \in {"run", "enter"} : Goto(c, where)
  /\ UNCHANGED <<jobs, idle, reconf, ipi, locals>>

\* The end of the loops of cpu_idle_job and cpu_idle_delay.
idle_again(c) ==
  /\ pc[c] = "again"
  /\ \/ kind[c] = "job" /\ Goto(c, IF cpu_check_jobs(c) THEN "loop" ELSE "enter")
     \/ kind[c] = "delay" /\ \E where \in {"run", "enter"} : Goto(c, where)
  /\ UNCHANGED <<jobs, idle, reconf, ipi, locals>>

-----------------------------------------------------------------------------
\* cpu_set_ipi_enable, cpu_set_sreset_enable: reconfigure_idle_start waits for
\* its turn.
reconfigure_idle_start(c) ==
  /\ pc[c] = "run" /\ ~reconfigure_idle
  /\ reconfs < MaxReconf /\ reconfs' = reconfs + 1
  /\ reconfigure_idle' = TRUE
  /\ kicks' = [kicks EXCEPT ![c] = CPUs]
  /\ Goto(c, "kickall")
  /\ UNCHANGED <<jobs, idle, enabled, pm_enabled, ipi, locals>>

\* ... kicks everyone out of idle ...
reconfigure_kick(c) ==
  /\ pc[c] = "kickall"
  /\ \E d \in kicks[c] :
       /\ kicks' = [kicks EXCEPT ![c] = @ \ {d}]
       /\ ipi' = [ipi EXCEPT ![d] = @ \/ (cpu_is_available(d) /\ in_sleep[d])]
  /\ UNCHANGED <<jobs, idle, reconfigure_idle, enabled, pm_enabled, reconfs, pc,
                 locals>>

\* Mutant of set_enable: nobody is waited for.
SetAtOnce(c, f) ==
  /\ pc[c] = "kickall" /\ kicks[c] = {}
  /\ enabled' = [enabled EXCEPT ![f] = ~@]
  /\ pm_enabled' = (enabled'["ipi"] /\ (P8 => enabled'["sreset"]))
  /\ Goto(c, "reconfend")
  /\ UNCHANGED <<jobs, idle, reconfigure_idle, kicks, reconfs, ipi, locals>>

\* ... and waits until they are out; then the change and recalc_pm_enabled.
set_enable(c, f) ==
  /\ pc[c] = "kickall" /\ kicks[c] = {}
  /\ nr_cpus_idle = 0
  /\ enabled' = [enabled EXCEPT ![f] = ~@]
  /\ pm_enabled' = (enabled'["ipi"] /\ (P8 => enabled'["sreset"]))
  /\ Goto(c, "reconfend")
  /\ UNCHANGED <<jobs, idle, reconfigure_idle, kicks, reconfs, ipi, locals>>

reconfigure_idle_end(c) ==
  /\ pc[c] = "reconfend"
  /\ reconfigure_idle' = FALSE
  /\ Goto(c, "run")
  /\ UNCHANGED <<jobs, idle, enabled, pm_enabled, kicks, reconfs, ipi, locals>>

-----------------------------------------------------------------------------
\* Steps of code a CPU is in the middle of.
CpuStep(c) ==
  \/ queue_job_on_cpu(c) \/ queue_kick(c)
  \/ secondary_loop(c) \/ process_pop(c) \/ process_done(c) \/ process_complete(c)
  \/ opal_start_thread_job(c) \/ cpu_callin(c)
  \/ enter_idle(c) \/ idle_how(c) \/ idle_spin(c) \/ idle_mark(c)
  \/ idle_recheck(c) \/ idle_recheck_jobs(c) \/ icp_prep_for_pm(c)
  \/ idle_wake(c) \/ idle_receive(c) \/ idle_unmark(c) \/ exit_idle(c)
  \/ idle_again(c)
  \/ reconfigure_kick(c) \/ (\E f \in Features : set_enable(c, f))
  \/ reconfigure_idle_end(c)

\* What the code around cpu.c may call.
Call(c) ==
  \/ \E j \in Jobs :
       \/ cpu_queue_job_any(c, j) \/ cpu_wait_job(c, j)
       \/ \E d \in CPUs : cpu_queue_job_on(c, j, d) \/ opal_start_cpu_thread(c, j, d)
  \/ opal_return_cpu(c)
  \/ reconfigure_idle_start(c)

Next == \E c \in CPUs : CpuStep(c) \/ Call(c)

Spec == Init /\ [][Next]_vars

\* Nothing preempts code in OPAL, and sleeping CPUs that get an IPI wake up.
FairSpec == Spec /\ \A c \in CPUs : WF_vars(CpuStep(c))

-----------------------------------------------------------------------------
\* The types of the fields of struct cpu_thread and of the variables of cpu.c.
TypeOK ==
  /\ state \in [CPUs -> {"active", "os"}]
  /\ job_queue \in [CPUs -> Seq(Jobs)]
  /\ job_count \in [CPUs -> Nat]
  /\ {alloc, freed, complete} \subseteq SUBSET Jobs
  /\ mine \in [CPUs -> SUBSET Jobs]
  /\ {job_has_no_return, in_idle, in_sleep, in_job_sleep, ipi} \subseteq [CPUs -> BOOLEAN]
  /\ nr_cpus_idle \in Nat
  /\ {reconfigure_idle, pm_enabled} \subseteq BOOLEAN
  /\ enabled \in [Features -> BOOLEAN]
  /\ pc \in [CPUs -> {"run", "queue", "kick", "loop", "pop", "job", "done",
                      "callin", "enter", "idle", "spin", "mark", "recheck", "rejobs", "prep",
                      "asleep", "woken", "unmark", "exit", "again", "kickall",
                      "reconfend"}]
  /\ kind \in [CPUs -> {"job", "delay"}]
  /\ tgt \in [CPUs -> CPUs \cup {NoCpu}]
  /\ job \in [CPUs -> Jobs \cup {NoJob}]
  /\ kicks \in [CPUs -> SUBSET CPUs]
  /\ reconfs \in 0..MaxReconf

\* "Mark ourselves in sleep so other CPUs know to send an IPI, then re-check
\* the wake conditions": a CPU never sleeps on a job, unless an IPI is pending
\* or the CPU that queued the job is still to look whether one is needed.
NoLostWakeup ==
  \A c \in CPUs :
    pc[c] = "asleep" /\ kind[c] = "job" /\ cpu_check_jobs(c) =>
      ipi[c] \/ \E d \in CPUs : pc[d] = "kick" /\ tgt[d] = c

\* The same for reconfigure_idle_start.
KickedOut ==
  \A c \in CPUs :
    pc[c] = "asleep" /\ kind[c] = "job" /\ reconfigure_idle =>
      ipi[c] \/ \E d \in CPUs : pc[d] = "kickall" /\ c \in kicks[d]

\* While idle is reconfigured nobody is idle and nobody else reconfigures it:
\* no CPU sleeps in a way that is not enabled any more.
ReconfigureAlone ==
  \A c \in CPUs : pc[c] = "reconfend" =>
    \A d \in CPUs : ~in_idle[d] /\ (pc[d] \in {"kickall", "reconfend"} => d = c)

\* The asserts of enter_idle, exit_idle and reconfigure_idle_end.
AssertsHold ==
  \A c \in CPUs :
    /\ pc[c] = "enter" => ~in_idle[c] /\ ~in_sleep[c] /\ ~in_job_sleep[c]
    /\ pc[c] = "exit" => in_idle[c] /\ ~in_sleep[c] /\ ~in_job_sleep[c] /\ nr_cpus_idle > 0
    /\ pc[c] = "reconfend" => reconfigure_idle

\* "the job count on the target CPUs [...] is decremented *after* a job has
\* been completed": job_count is the number of jobs queued or running, those
\* that do not return left out.
JobCount ==
  \A c \in CPUs :
    job_count[c] =
      Cardinality(ToSet(job_queue[c]) \ NoReturns)
        + (IF pc[c] = "job" /\ job[c] \notin NoReturns THEN 1 ELSE 0)

\* The types; and a job is freed by the CPU that waits for it without any lock: nobody runs
\* it, and it is on no queue any more.
FreedUnused ==
  /\ TypeOK
  /\ \A j \in freed \ NoReturns : \A c \in CPUs :
       ~Contains(job_queue[c], j) /\ job[c] # j

\* Every job is complete in the end, whatever idle CPUs do in the meantime
\* (time and again there is none that is not), and a reconfiguration of idle
\* ends, although CPUs enter and leave idle, sleep and are queued jobs.
JobsComplete ==
  []<>(alloc \ NoReturns \subseteq complete) /\ []<>~reconfigure_idle
=============================================================================
