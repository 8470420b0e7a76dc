---------------------------- MODULE CpuJobsProof ----------------------------
(***************************************************************************)
(* Proofs about CpuJobs, for any set of CPUs and of jobs.                  *)
(***************************************************************************)
EXTENDS CpuJobs, FiniteSetTheorems, TLAPS

Where == {"run", "queue", "kick", "loop", "pop", "job", "done", "callin", "enter",
          "idle", "spin", "mark", "recheck", "rejobs", "prep", "asleep", "woken",
          "unmark", "exit", "again", "kickall", "reconfend"}

\* The types of what the handshakes are about.
Types ==
  /\ state \in [CPUs -> {"active", "os"}]
  /\ job_queue \in [CPUs -> Seq(Jobs)]
  /\ in_idle \in [CPUs -> BOOLEAN] /\ in_sleep \in [CPUs -> BOOLEAN]
  /\ in_job_sleep \in [CPUs -> BOOLEAN] /\ ipi \in [CPUs -> BOOLEAN]
  /\ reconfigure_idle \in BOOLEAN
  /\ pc \in [CPUs -> Where]
  /\ kind \in [CPUs -> {"job", "delay"}]
  /\ tgt \in [CPUs -> CPUs \cup {NoCpu}]
  /\ job \in [CPUs -> Jobs \cup {NoJob}]
  /\ kicks \in [CPUs -> SUBSET CPUs]

\* A CPU about to queue a job knows the job and the CPU.
Queueing ==
  \A c \in CPUs : pc[c] \in {"queue", "kick"} => tgt[c] \in CPUs /\ job[c] \in Jobs

Idling(c) == pc[c] \in {"idle", "spin", "mark", "recheck", "rejobs", "prep",
                        "asleep", "woken", "unmark", "exit"}
Marked(c) == pc[c] \in {"recheck", "rejobs", "prep", "asleep", "woken", "unmark"}

\* The flags of a CPU say where it is.
Flags ==
  \A c \in CPUs :
    /\ in_idle[c] <=> Idling(c)
    /\ in_sleep[c] <=> Marked(c)
    /\ in_job_sleep[c] <=> Marked(c) /\ kind[c] = "job"

\* reconfigure_idle says whether somebody reconfigures idle, and there is one
\* such CPU at most.
Reconfiguring(c) == pc[c] \in {"kickall", "reconfend"}
Turns ==
  /\ reconfigure_idle <=> \E c \in CPUs : Reconfiguring(c)
  /\ \A c, d \in CPUs : Reconfiguring(c) /\ Reconfiguring(d) => c = d

\* A CPU in the loop of __secondary_cpu_entry is available.
InLoop(c) ==
  \/ pc[c] \in {"loop", "pop", "job", "done", "callin"}
  \/ kind[c] = "job" /\ (Idling(c) \/ pc[c] \in {"enter", "again"})
LoopActive == \A c \in CPUs : InLoop(c) => state[c] = "active"

\* While idle is reconfigured nobody is in idle.
NobodyIdle ==
  \A c \in CPUs : pc[c] = "reconfend" => \A d \in CPUs : ~Idling(d)

\* KickedOut already from the look at reconfigure_idle on.
KickedSoon ==
  \A c \in CPUs :
    pc[c] \in {"rejobs", "asleep"} /\ kind[c] = "job" /\ reconfigure_idle =>
      ipi[c] \/ \E d \in CPUs : pc[d] = "kickall" /\ c \in kicks[d]

\* nr_cpus_idle counts the CPUs in idle.
IdleCount ==
  /\ nr_cpus_idle \in Nat
  /\ nr_cpus_idle = Cardinality({c \in CPUs : in_idle[c]})

\* The part of the inductive invariant that holds on every processor.
IdleInv ==
  Types /\ Queueing /\ Flags /\ Turns /\ LoopActive /\ NobodyIdle /\ IdleCount

\* The initial state is as the invariant says: all flags are down.
LEMMA InitInv == Init => IdleInv
<1> SUFFICES ASSUME Init PROVE IdleInv
  OBVIOUS
<1> USE CpuJobsAssumption DEF Init
<1>1. Types
  <2>1. <<>> \in Seq(Jobs)
    OBVIOUS
  <2>2. job_queue \in [CPUs -> Seq(Jobs)]
    BY <2>1
  <2>3. pc \in [CPUs -> Where] /\ state \in [CPUs -> {"active", "os"}]
    BY DEF Where
  <2> QED
    BY <2>2, <2>3 DEF Types
<1>2. Queueing /\ Flags /\ Turns /\ LoopActive /\ NobodyIdle
  BY DEF Queueing, Flags, Idling, Marked, Turns, Reconfiguring, LoopActive, InLoop,
         NobodyIdle
<1>3. IdleCount
  <2>1. {c \in CPUs : in_idle[c]} = {}
    OBVIOUS
  <2> QED
    BY <2>1, FS_EmptySet DEF IdleCount
<1> QED
  BY <1>1, <1>2, <1>3 DEF IdleInv

\* When nr_cpus_idle is zero nobody is in idle.
LEMMA NobodyCounted ==
  IdleCount /\ nr_cpus_idle = 0 => \A c \in CPUs : ~in_idle[c]
<1> SUFFICES ASSUME IdleCount, nr_cpus_idle = 0 PROVE {c \in CPUs : in_idle[c]} = {}
  OBVIOUS
<1>1. IsFiniteSet({c \in CPUs : in_idle[c]})
  BY CpuJobsAssumption, FS_Subset
<1> QED
  BY <1>1, FS_EmptySet DEF IdleCount

\* Every step keeps the types.
LEMMA TypesStep == IdleInv /\ [Next]_vars => (Types /\ Queueing)'
<1> SUFFICES ASSUME IdleInv, [Next]_vars PROVE (Types /\ Queueing)'
  OBVIOUS
<1> USE CpuJobsAssumption
    DEF IdleInv, Types, Queueing, Where, Goto, jobs, idle, reconf, locals
<1>1. ASSUME NEW c \in CPUs, queue_job_on_cpu(c)
      PROVE  (Types /\ Queueing)'
  BY <1>1 DEF queue_job_on_cpu, Queueing
<1>2. ASSUME NEW c \in CPUs, queue_kick(c)
      PROVE  (Types /\ Queueing)'
  BY <1>2 DEF queue_kick, Queueing
<1>3. ASSUME NEW c \in CPUs, secondary_loop(c)
      PROVE  (Types /\ Queueing)'
  BY <1>3 DEF secondary_loop
<1>4. ASSUME NEW c \in CPUs, process_pop(c)
      PROVE  (Types /\ Queueing)'
  <2>1. /\ pc[c] = "pop"
        /\ UNCHANGED <<state, in_idle, in_sleep, in_job_sleep, nr_cpus_idle,
                       reconfigure_idle, kicks, ipi, kind, tgt>>
    BY <1>4 DEF process_pop
  <2>2. CASE ~cpu_check_jobs(c)
    <3>1. pc' = [pc EXCEPT ![c] = "loop"] /\ UNCHANGED <<job_queue, job>>
      BY <1>4, <2>2 DEF process_pop
    <3> QED
      BY <2>1, <3>1
  <2>3. CASE cpu_check_jobs(c)
    <3>1. Head(job_queue[c]) \in Jobs /\ Tail(job_queue[c]) \in Seq(Jobs)
      BY <2>3 DEF cpu_check_jobs
    <3>2. /\ job' = [job EXCEPT ![c] = Head(job_queue[c])]
          /\ job_queue' = [job_queue EXCEPT ![c] = Tail(job_queue[c])]
          /\ pc' = [pc EXCEPT ![c] = "job"]
      BY <1>4, <2>3 DEF process_pop
    <3> QED
      BY <2>1, <3>1, <3>2
  <2> QED
    BY <2>2, <2>3
<1>5. ASSUME NEW c \in CPUs, process_done(c)
      PROVE  (Types /\ Queueing)'
  BY <1>5 DEF process_done
<1>31. ASSUME NEW c \in CPUs, process_complete(c)
      PROVE  (Types /\ Queueing)'
  BY <1>31 DEF process_complete
<1>6. ASSUME NEW c \in CPUs, opal_start_thread_job(c)
      PROVE  (Types /\ Queueing)'
  BY <1>6 DEF opal_start_thread_job
<1>7. ASSUME NEW c \in CPUs, cpu_callin(c)
      PROVE  (Types /\ Queueing)'
  BY <1>7 DEF cpu_callin
<1>8. ASSUME NEW c \in CPUs, enter_idle(c)
      PROVE  (Types /\ Queueing)'
  BY <1>8 DEF enter_idle
<1>9. ASSUME NEW c \in CPUs, idle_how(c)
      PROVE  (Types /\ Queueing)'
  <2>1. CASE pc' = [pc EXCEPT ![c] = "mark"]
    BY <1>9, <2>1 DEF idle_how
  <2>2. CASE pc' = [pc EXCEPT ![c] = "spin"]
    BY <1>9, <2>2 DEF idle_how
  <2> QED
    BY <1>9, <2>1, <2>2 DEF idle_how
<1>10. ASSUME NEW c \in CPUs, idle_spin(c)
      PROVE  (Types /\ Queueing)'
  BY <1>10 DEF idle_spin
<1>11. ASSUME NEW c \in CPUs, idle_mark(c)
      PROVE  (Types /\ Queueing)'
  BY <1>11 DEF idle_mark
<1>12. ASSUME NEW c \in CPUs, idle_recheck(c)
      PROVE  (Types /\ Queueing)'
  BY <1>12 DEF idle_recheck
<1>13. ASSUME NEW c \in CPUs, idle_recheck_jobs(c)
      PROVE  (Types /\ Queueing)'
  BY <1>13 DEF idle_recheck_jobs
<1>14. ASSUME NEW c \in CPUs, icp_prep_for_pm(c)
      PROVE  (Types /\ Queueing)'
  BY <1>14 DEF icp_prep_for_pm
<1>15. ASSUME NEW c \in CPUs, idle_wake(c)
      PROVE  (Types /\ Queueing)'
  BY <1>15 DEF idle_wake
<1>16. ASSUME NEW c \in CPUs, idle_receive(c)
      PROVE  (Types /\ Queueing)'
  BY <1>16 DEF idle_receive
<1>17. ASSUME NEW c \in CPUs, idle_unmark(c)
      PROVE  (Types /\ Queueing)'
  BY <1>17 DEF idle_unmark
<1>18. ASSUME NEW c \in CPUs, exit_idle(c)
      PROVE  (Types /\ Queueing)'
  BY <1>18 DEF exit_idle
<1>19. ASSUME NEW c \in CPUs, idle_again(c)
      PROVE  (Types /\ Queueing)'
  <2>1. /\ pc[c] = "again"
        /\ UNCHANGED <<state, job_queue, in_idle, in_sleep, in_job_sleep,
                       nr_cpus_idle, reconfigure_idle, kicks, ipi, kind, tgt, job>>
    BY <1>19 DEF idle_again
  <2>2. \/ kind[c] = "job" /\ pc' = [pc EXCEPT ![c] = "loop"]
        \/ pc' = [pc EXCEPT ![c] = "enter"]
        \/ kind[c] = "delay" /\ pc' = [pc EXCEPT ![c] = "run"]
    BY <1>19 DEF idle_again
  <2>3. CASE kind[c] = "job" /\ pc' = [pc EXCEPT ![c] = "loop"]
    BY <2>1, <2>3
  <2>4. CASE pc' = [pc EXCEPT ![c] = "enter"]
    BY <2>1, <2>4
  <2>5. CASE kind[c] = "delay" /\ pc' = [pc EXCEPT ![c] = "run"]
    BY <2>1, <2>5
  <2> QED
    BY <2>2, <2>3, <2>4, <2>5
<1>20. ASSUME NEW c \in CPUs, reconfigure_kick(c)
      PROVE  (Types /\ Queueing)'
  BY <1>20 DEF reconfigure_kick, cpu_is_available
<1>21. ASSUME NEW c \in CPUs, NEW f \in Features, set_enable(c, f)
      PROVE  (Types /\ Queueing)'
  <2>1. \A d \in CPUs : ~in_idle[d]
    BY <1>21, NobodyCounted DEF set_enable
  <2> QED
    BY <1>21, <2>1 DEF set_enable
<1>22. ASSUME NEW c \in CPUs, reconfigure_idle_end(c)
      PROVE  (Types /\ Queueing)'
  BY <1>22 DEF reconfigure_idle_end
<1>23. ASSUME NEW c \in CPUs, NEW j \in Jobs, NEW T \in SUBSET CPUs, __cpu_queue_job(c, j, T)
      PROVE  (Types /\ Queueing)'
  <2>1. CASE UNCHANGED <<tgt, job, pc>>
    BY <1>23, <2>1 DEF __cpu_queue_job
  <2>2. ASSUME NEW d \in T \ {c}, QueueOn(c, j, d)
        PROVE  (Types /\ Queueing)'
    BY <1>23, <2>2 DEF __cpu_queue_job, QueueOn
  <2> QED
    BY <1>23, <2>1, <2>2 DEF __cpu_queue_job
<1>24. ASSUME NEW c \in CPUs, NEW j \in Jobs, cpu_wait_job(c, j)
      PROVE  (Types /\ Queueing)'
  <2>1. /\ pc[c] = "run"
        /\ UNCHANGED <<state, job_queue, in_idle, in_sleep, in_job_sleep,
                       nr_cpus_idle, reconfigure_idle, kicks, ipi, tgt, job>>
    BY <1>24 DEF cpu_wait_job
  <2>2. \/ UNCHANGED <<kind, pc>>
        \/ /\ kind' = [kind EXCEPT ![c] = "delay"]
           /\ pc' = [pc EXCEPT ![c] = "enter"]
    BY <1>24 DEF cpu_wait_job
  <2>3. CASE UNCHANGED <<kind, pc>>
    BY <2>1, <2>3
  <2>4. CASE kind' = [kind EXCEPT ![c] = "delay"] /\ pc' = [pc EXCEPT ![c] = "enter"]
    BY <2>1, <2>4
  <2> QED
    BY <2>2, <2>3, <2>4
<1>25. ASSUME NEW c \in CPUs, NEW j \in Jobs, NEW d \in CPUs, opal_start_cpu_thread(c, j, d)
      PROVE  (Types /\ Queueing)'
  BY <1>25 DEF opal_start_cpu_thread, QueueOn
<1>26. ASSUME NEW c \in CPUs, opal_return_cpu(c)
      PROVE  (Types /\ Queueing)'
  BY <1>26 DEF opal_return_cpu
<1>27. ASSUME NEW c \in CPUs, reconfigure_idle_start(c)
      PROVE  (Types /\ Queueing)'
  BY <1>27 DEF reconfigure_idle_start
<1>28. CASE UNCHANGED vars
  BY <1>28 DEF vars
<1>29. ASSUME NEW c \in CPUs, NEW j \in Jobs, cpu_queue_job_any(c, j)
      PROVE  (Types /\ Queueing)'
  <2>1. cpu_find_job_target(c) \in SUBSET CPUs
    BY DEF cpu_find_job_target
  <2> QED
    BY <1>23, <1>29, <2>1 DEF cpu_queue_job_any
<1>30. ASSUME NEW c \in CPUs, NEW j \in Jobs, NEW d \in CPUs, cpu_queue_job_on(c, j, d)
      PROVE  (Types /\ Queueing)'
  <2>1. {d} \in SUBSET CPUs /\ __cpu_queue_job(c, j, {d})
    BY <1>30 DEF cpu_queue_job_on
  <2> QED
    BY <1>23, <2>1
<1> QED
  BY <1>1, <1>2, <1>3, <1>4, <1>5, <1>6, <1>7, <1>8, <1>9, <1>10, <1>11, <1>12, <1>13, <1>14, <1>15, <1>16, <1>17, <1>18, <1>19, <1>20, <1>21, <1>22, <1>23, <1>24, <1>25, <1>26, <1>27, <1>28, <1>29, <1>30, <1>31 DEF Next, CpuStep, Call

\* Every step moves the flags of a CPU along with it.
LEMMA FlagsStep ==
  IdleInv /\ [Next]_vars => (Flags /\ Turns /\ LoopActive /\ NobodyIdle)'
<1> SUFFICES ASSUME IdleInv, [Next]_vars
             PROVE  (Flags /\ Turns /\ LoopActive /\ NobodyIdle)'
  OBVIOUS
<1> USE CpuJobsAssumption
    DEF IdleInv, Types, Flags, Turns, LoopActive, NobodyIdle, Idling, Marked, InLoop,
        Reconfiguring, Where, Goto, jobs, idle, reconf, locals
<1>1. ASSUME NEW c \in CPUs, queue_job_on_cpu(c)
      PROVE  (Flags /\ Turns /\ LoopActive /\ NobodyIdle)'
  BY <1>1 DEF queue_job_on_cpu, Queueing
<1>2. ASSUME NEW c \in CPUs, queue_kick(c)
      PROVE  (Flags /\ Turns /\ LoopActive /\ NobodyIdle)'
  BY <1>2 DEF queue_kick, Queueing
<1>3. ASSUME NEW c \in CPUs, secondary_loop(c)
      PROVE  (Flags /\ Turns /\ LoopActive /\ NobodyIdle)'
  BY <1>3 DEF secondary_loop
<1>4. ASSUME NEW c \in CPUs, process_pop(c)
      PROVE  (Flags /\ Turns /\ LoopActive /\ NobodyIdle)'
  <2>1. /\ pc[c] = "pop"
        /\ UNCHANGED <<state, in_idle, in_sleep, in_job_sleep, nr_cpus_idle,
                       reconfigure_idle, kicks, ipi, kind, tgt>>
    BY <1>4 DEF process_pop
  <2>2. CASE ~cpu_check_jobs(c)
    <3>1. pc' = [pc EXCEPT ![c] = "loop"] /\ UNCHANGED <<job_queue, job>>
      BY <1>4, <2>2 DEF process_pop
    <3> QED
      BY <2>1, <3>1
  <2>3. CASE cpu_check_jobs(c)
    <3>1. Head(job_queue[c]) \in Jobs /\ Tail(job_queue[c]) \in Seq(Jobs)
      BY <2>3 DEF cpu_check_jobs
    <3>2. /\ job' = [job EXCEPT ![c] = Head(job_queue[c])]
          /\ job_queue' = [job_queue EXCEPT ![c] = Tail(job_queue[c])]
          /\ pc' = [pc EXCEPT ![c] = "job"]
      BY <1>4, <2>3 DEF process_pop
    <3> QED
      BY <2>1, <3>1, <3>2
  <2> QED
    BY <2>2, <2>3
<1>5. ASSUME NEW c \in CPUs, process_done(c)
      PROVE  (Flags /\ Turns /\ LoopActive /\ NobodyIdle)'
  BY <1>5 DEF process_done
<1>31. ASSUME NEW c \in CPUs, process_complete(c)
      PROVE  (Flags /\ Turns /\ LoopActive /\ NobodyIdle)'
  BY <1>31 DEF process_complete
<1>6. ASSUME NEW c \in CPUs, opal_start_thread_job(c)
      PROVE  (Flags /\ Turns /\ LoopActive /\ NobodyIdle)'
  BY <1>6 DEF opal_start_thread_job
<1>7. ASSUME NEW c \in CPUs, cpu_callin(c)
      PROVE  (Flags /\ Turns /\ LoopActive /\ NobodyIdle)'
  BY <1>7 DEF cpu_callin
<1>8. ASSUME NEW c \in CPUs, enter_idle(c)
      PROVE  (Flags /\ Turns /\ LoopActive /\ NobodyIdle)'
  BY <1>8 DEF enter_idle
<1>9. ASSUME NEW c \in CPUs, idle_how(c)
      PROVE  (Flags /\ Turns /\ LoopActive /\ NobodyIdle)'
  <2>1. CASE pc' = [pc EXCEPT ![c] = "mark"]
    BY <1>9, <2>1 DEF idle_how
  <2>2. CASE pc' = [pc EXCEPT ![c] = "spin"]
    BY <1>9, <2>2 DEF idle_how
  <2> QED
    BY <1>9, <2>1, <2>2 DEF idle_how
<1>10. ASSUME NEW c \in CPUs, idle_spin(c)
      PROVE  (Flags /\ Turns /\ LoopActive /\ NobodyIdle)'
  BY <1>10 DEF idle_spin
<1>11. ASSUME NEW c \in CPUs, idle_mark(c)
      PROVE  (Flags /\ Turns /\ LoopActive /\ NobodyIdle)'
  BY <1>11 DEF idle_mark
<1>12. ASSUME NEW c \in CPUs, idle_recheck(c)
      PROVE  (Flags /\ Turns /\ LoopActive /\ NobodyIdle)'
  BY <1>12 DEF idle_recheck
<1>13. ASSUME NEW c \in CPUs, idle_recheck_jobs(c)
      PROVE  (Flags /\ Turns /\ LoopActive /\ NobodyIdle)'
  BY <1>13 DEF idle_recheck_jobs
<1>14. ASSUME NEW c \in CPUs, icp_prep_for_pm(c)
      PROVE  (Flags /\ Turns /\ LoopActive /\ NobodyIdle)'
  BY <1>14 DEF icp_prep_for_pm
<1>15. ASSUME NEW c \in CPUs, idle_wake(c)
      PROVE  (Flags /\ Turns /\ LoopActive /\ NobodyIdle)'
  BY <1>15 DEF idle_wake
<1>16. ASSUME NEW c \in CPUs, idle_receive(c)
      PROVE  (Flags /\ Turns /\ LoopActive /\ NobodyIdle)'
  BY <1>16 DEF idle_receive
<1>17. ASSUME NEW c \in CPUs, idle_unmark(c)
      PROVE  (Flags /\ Turns /\ LoopActive /\ NobodyIdle)'
  BY <1>17 DEF idle_unmark
<1>18. ASSUME NEW c \in CPUs, exit_idle(c)
      PROVE  (Flags /\ Turns /\ LoopActive /\ NobodyIdle)'
  BY <1>18 DEF exit_idle
<1>19. ASSUME NEW c \in CPUs, idle_again(c)
      PROVE  (Flags /\ Turns /\ LoopActive /\ NobodyIdle)'
  <2>1. /\ pc[c] = "again"
        /\ UNCHANGED <<state, job_queue, in_idle, in_sleep, in_job_sleep,
                       nr_cpus_idle, reconfigure_idle, kicks, ipi, kind, tgt, job>>
    BY <1>19 DEF idle_again
  <2>2. \/ kind[c] = "job" /\ pc' = [pc EXCEPT ![c] = "loop"]
        \/ pc' = [pc EXCEPT ![c] = "enter"]
        \/ kind[c] = "delay" /\ pc' = [pc EXCEPT ![c] = "run"]
    BY <1>19 DEF idle_again
  <2>3. CASE kind[c] = "job" /\ pc' = [pc EXCEPT ![c] = "loop"]
    BY <2>1, <2>3
  <2>4. CASE pc' = [pc EXCEPT ![c] = "enter"]
    BY <2>1, <2>4
  <2>5. CASE kind[c] = "delay" /\ pc' = [pc EXCEPT ![c] = "run"]
    BY <2>1, <2>5
  <2> QED
    BY <2>2, <2>3, <2>4, <2>5
<1>20. ASSUME NEW c \in CPUs, reconfigure_kick(c)
      PROVE  (Flags /\ Turns /\ LoopActive /\ NobodyIdle)'
  BY <1>20 DEF reconfigure_kick, cpu_is_available
<1>21. ASSUME NEW c \in CPUs, NEW f \in Features, set_enable(c, f)
      PROVE  (Flags /\ Turns /\ LoopActive /\ NobodyIdle)'
  <2>1. \A d \in CPUs : ~in_idle[d]
    BY <1>21, NobodyCounted DEF set_enable
  <2> QED
    BY <1>21, <2>1 DEF set_enable
<1>22. ASSUME NEW c \in CPUs, reconfigure_idle_end(c)
      PROVE  (Flags /\ Turns /\ LoopActive /\ NobodyIdle)'
  BY <1>22 DEF reconfigure_idle_end
<1>23. ASSUME NEW c \in CPUs, NEW j \in Jobs, NEW T \in SUBSET CPUs, __cpu_queue_job(c, j, T)
      PROVE  (Flags /\ Turns /\ LoopActive /\ NobodyIdle)'
  <2>1. CASE UNCHANGED <<tgt, job, pc>>
    BY <1>23, <2>1 DEF __cpu_queue_job
  <2>2. ASSUME NEW d \in T \ {c}, QueueOn(c, j, d)
        PROVE  (Flags /\ Turns /\ LoopActive /\ NobodyIdle)'
    BY <1>23, <2>2 DEF __cpu_queue_job, QueueOn
  <2> QED
    BY <1>23, <2>1, <2>2 DEF __cpu_queue_job
<1>24. ASSUME NEW c \in CPUs, NEW j \in Jobs, cpu_wait_job(c, j)
      PROVE  (Flags /\ Turns /\ LoopActive /\ NobodyIdle)'
  <2>1. /\ pc[c] = "run"
        /\ UNCHANGED <<state, job_queue, in_idle, in_sleep, in_job_sleep,
                       nr_cpus_idle, reconfigure_idle, kicks, ipi, tgt, job>>
    BY <1>24 DEF cpu_wait_job
  <2>2. \/ UNCHANGED <<kind, pc>>
        \/ /\ kind' = [kind EXCEPT ![c] = "delay"]
           /\ pc' = [pc EXCEPT ![c] = "enter"]
    BY <1>24 DEF cpu_wait_job
  <2>3. CASE UNCHANGED <<kind, pc>>
    BY <2>1, <2>3
  <2>4. CASE kind' = [kind EXCEPT ![c] = "delay"] /\ pc' = [pc EXCEPT ![c] = "enter"]
    BY <2>1, <2>4
  <2> QED
    BY <2>2, <2>3, <2>4
<1>25. ASSUME NEW c \in CPUs, NEW j \in Jobs, NEW d \in CPUs, opal_start_cpu_thread(c, j, d)
      PROVE  (Flags /\ Turns /\ LoopActive /\ NobodyIdle)'
  BY <1>25 DEF opal_start_cpu_thread, QueueOn
<1>26. ASSUME NEW c \in CPUs, opal_return_cpu(c)
      PROVE  (Flags /\ Turns /\ LoopActive /\ NobodyIdle)'
  BY <1>26 DEF opal_return_cpu
<1>27. ASSUME NEW c \in CPUs, reconfigure_idle_start(c)
      PROVE  (Flags /\ Turns /\ LoopActive /\ NobodyIdle)'
  BY <1>27 DEF reconfigure_idle_start
<1>28. CASE UNCHANGED vars
  BY <1>28 DEF vars
<1>29. ASSUME NEW c \in CPUs, NEW j \in Jobs, cpu_queue_job_any(c, j)
      PROVE  (Flags /\ Turns /\ LoopActive /\ NobodyIdle)'
  <2>1. cpu_find_job_target(c) \in SUBSET CPUs
    BY DEF cpu_find_job_target
  <2> QED
    BY <1>23, <1>29, <2>1 DEF cpu_queue_job_any
<1>30. ASSUME NEW c \in CPUs, NEW j \in Jobs, NEW d \in CPUs, cpu_queue_job_on(c, j, d)
      PROVE  (Flags /\ Turns /\ LoopActive /\ NobodyIdle)'
  <2>1. {d} \in SUBSET CPUs /\ __cpu_queue_job(c, j, {d})
    BY <1>30 DEF cpu_queue_job_on
  <2> QED
    BY <1>23, <2>1
<1> QED
  BY <1>1, <1>2, <1>3, <1>4, <1>5, <1>6, <1>7, <1>8, <1>9, <1>10, <1>11, <1>12, <1>13, <1>14, <1>15, <1>16, <1>17, <1>18, <1>19, <1>20, <1>21, <1>22, <1>23, <1>24, <1>25, <1>26, <1>27, <1>28, <1>29, <1>30, <1>31 DEF Next, CpuStep, Call

\* enter_idle and exit_idle, the only steps that change the set of CPUs in
\* idle, keep count of it.
LEMMA CountStep == IdleInv /\ [Next]_vars => IdleCount'
<1> SUFFICES ASSUME IdleInv, [Next]_vars PROVE IdleCount'
  OBVIOUS
<1> USE CpuJobsAssumption DEF IdleInv
<1> DEFINE S == {c \in CPUs : in_idle[c]}
<1>1. IsFiniteSet(S)
  BY FS_Subset
<1>2. ASSUME NEW c \in CPUs, enter_idle(c) PROVE IdleCount'
  <2>1. c \notin S
    BY <1>2 DEF enter_idle, Flags, Idling
  <2>2. S' = S \cup {c}
    BY <1>2 DEF enter_idle, Types
  <2>3. Cardinality(S \cup {c}) = Cardinality(S) + 1
    BY <1>1, <2>1, FS_AddElement
  <2> QED
    BY <1>2, <2>2, <2>3 DEF enter_idle, IdleCount
<1>3. ASSUME NEW c \in CPUs, exit_idle(c) PROVE IdleCount'
  <2>1. c \in S
    BY <1>3 DEF exit_idle, Flags, Idling
  <2>2. S' = S \ {c}
    BY <1>3 DEF exit_idle, Types
  <2>3. Cardinality(S \ {c}) = Cardinality(S) - 1
    BY <1>1, <2>1, FS_RemoveElement
  <2>4. Cardinality(S \ {c}) \in Nat
    BY <1>1, FS_RemoveElement, FS_CardinalityType
  <2> QED
    BY <1>3, <2>2, <2>3, <2>4 DEF exit_idle, IdleCount
<1>4. CASE UNCHANGED <<in_idle, nr_cpus_idle>>
  BY <1>4 DEF IdleCount
<1>5. ASSUME NEW c \in CPUs, CpuStep(c) \/ Call(c), ~enter_idle(c), ~exit_idle(c)
      PROVE  UNCHANGED <<in_idle, nr_cpus_idle>>
  BY <1>5 DEF CpuStep, Call, idle, queue_job_on_cpu, queue_kick, secondary_loop,
     process_pop, process_done, process_complete, opal_start_thread_job, cpu_callin, idle_how,
     idle_spin, idle_mark, idle_recheck, idle_recheck_jobs, icp_prep_for_pm,
     idle_wake, idle_receive, idle_unmark, idle_again, reconfigure_kick, set_enable,
     reconfigure_idle_end, __cpu_queue_job, cpu_queue_job_any, cpu_queue_job_on,
     cpu_wait_job, opal_start_cpu_thread, opal_return_cpu, reconfigure_idle_start
<1>6. CASE UNCHANGED vars
  BY <1>4, <1>6 DEF vars, idle
<1> QED
  BY <1>2, <1>3, <1>4, <1>5, <1>6 DEF Next

\* IdleInv is an invariant, on every processor.
THEOREM IdleInvariant == Spec => []IdleInv
<1>1. IdleInv /\ [Next]_vars => IdleInv'
  BY TypesStep, FlagsStep, CountStep DEF IdleInv
<1> QED
  BY <1>1, InitInv, PTL DEF Spec

\* One CPU at a time changes the way CPUs sleep, and nobody is idle then: the
\* last part of IdleInv, by the count of idle CPUs that
\* reconfigure_idle_start waits for.
THEOREM ReconfigurationAlone == Spec => []ReconfigureAlone
<1>1. IdleInv => ReconfigureAlone
  BY DEF IdleInv, ReconfigureAlone, NobodyIdle, Flags, Turns, Reconfiguring
<1> QED
  BY <1>1, IdleInvariant, PTL

\* The asserts of enter_idle, exit_idle and reconfigure_idle_end never fail.
THEOREM IdleAsserts == Spec => []AssertsHold
<1>1. ASSUME IdleInv, NEW c \in CPUs, pc[c] = "exit" PROVE nr_cpus_idle > 0
  <2>1. in_idle[c]
    BY <1>1 DEF IdleInv, Flags, Idling
  <2>2. nr_cpus_idle # 0
    BY <1>1, <2>1, NobodyCounted DEF IdleInv
  <2> QED
    BY <1>1, <2>2 DEF IdleInv, IdleCount
<1>2. IdleInv => AssertsHold
  BY <1>1 DEF IdleInv, AssertsHold, Flags, Idling, Marked, Turns, Reconfiguring
<1> QED
  BY <1>2, IdleInvariant, PTL

-----------------------------------------------------------------------------
\* From here on the processor is not a P8: nothing clears an IPI on the way
\* into sleep.
NoPrep == \A c \in CPUs : pc[c] # "prep"
WakeInv == IdleInv /\ NoPrep /\ NoLostWakeup /\ KickedSoon

\* A CPU falls asleep after a look at its queue and at reconfigure_idle, with
\* its flags up; whoever gives it a reason to be awake later looks at the
\* flags later.
LEMMA WakeStep ==
  ASSUME ~P8 PROVE WakeInv /\ [Next]_vars => (NoPrep /\ NoLostWakeup /\ KickedSoon)'
<1> SUFFICES ASSUME WakeInv, [Next]_vars
             PROVE  (NoPrep /\ NoLostWakeup /\ KickedSoon)'
  OBVIOUS
<1> USE CpuJobsAssumption
    DEF WakeInv, NoPrep, NoLostWakeup, KickedSoon, cpu_check_jobs, IdleInv, Types,
        Queueing, Flags, Turns, LoopActive, Idling, Marked, InLoop, Reconfiguring,
        Where, Goto, jobs, idle, reconf, locals
<1>1. ASSUME NEW c \in CPUs, queue_job_on_cpu(c)
      PROVE  (NoPrep /\ NoLostWakeup /\ KickedSoon)'
  BY <1>1 DEF queue_job_on_cpu, Queueing
<1>2. ASSUME NEW c \in CPUs, queue_kick(c)
      PROVE  (NoPrep /\ NoLostWakeup /\ KickedSoon)'
  BY <1>2 DEF queue_kick, Queueing
<1>3. ASSUME NEW c \in CPUs, secondary_loop(c)
      PROVE  (NoPrep /\ NoLostWakeup /\ KickedSoon)'
  BY <1>3 DEF secondary_loop
<1>4. ASSUME NEW c \in CPUs, process_pop(c)
      PROVE  (NoPrep /\ NoLostWakeup /\ KickedSoon)'
  <2>1. /\ pc[c] = "pop"
        /\ UNCHANGED <<state, in_idle, in_sleep, in_job_sleep, nr_cpus_idle,
                       reconfigure_idle, kicks, ipi, kind, tgt>>
    BY <1>4 DEF process_pop
  <2>2. CASE ~cpu_check_jobs(c)
    <3>1. pc' = [pc EXCEPT ![c] = "loop"] /\ UNCHANGED <<job_queue, job>>
      BY <1>4, <2>2 DEF process_pop
    <3> QED
      BY <2>1, <3>1
  <2>3. CASE cpu_check_jobs(c)
    <3>1. Head(job_queue[c]) \in Jobs /\ Tail(job_queue[c]) \in Seq(Jobs)
      BY <2>3 DEF cpu_check_jobs
    <3>2. /\ job' = [job EXCEPT ![c] = Head(job_queue[c])]
          /\ job_queue' = [job_queue EXCEPT ![c] = Tail(job_queue[c])]
          /\ pc' = [pc EXCEPT ![c] = "job"]
      BY <1>4, <2>3 DEF process_pop
    <3> QED
      BY <2>1, <3>1, <3>2
  <2> QED
    BY <2>2, <2>3
<1>5. ASSUME NEW c \in CPUs, process_done(c)
      PROVE  (NoPrep /\ NoLostWakeup /\ KickedSoon)'
  BY <1>5 DEF process_done
<1>31. ASSUME NEW c \in CPUs, process_complete(c)
      PROVE  (NoPrep /\ NoLostWakeup /\ KickedSoon)'
  BY <1>31 DEF process_complete
<1>6. ASSUME NEW c \in CPUs, opal_start_thread_job(c)
      PROVE  (NoPrep /\ NoLostWakeup /\ KickedSoon)'
  BY <1>6 DEF opal_start_thread_job
<1>7. ASSUME NEW c \in CPUs, cpu_callin(c)
      PROVE  (NoPrep /\ NoLostWakeup /\ KickedSoon)'
  BY <1>7 DEF cpu_callin
<1>8. ASSUME NEW c \in CPUs, enter_idle(c)
      PROVE  (NoPrep /\ NoLostWakeup /\ KickedSoon)'
  BY <1>8 DEF enter_idle
<1>9. ASSUME NEW c \in CPUs, idle_how(c)
      PROVE  (NoPrep /\ NoLostWakeup /\ KickedSoon)'
  <2>1. CASE pc' = [pc EXCEPT ![c] = "mark"]
    BY <1>9, <2>1 DEF idle_how
  <2>2. CASE pc' = [pc EXCEPT ![c] = "spin"]
    BY <1>9, <2>2 DEF idle_how
  <2> QED
    BY <1>9, <2>1, <2>2 DEF idle_how
<1>10. ASSUME NEW c \in CPUs, idle_spin(c)
      PROVE  (NoPrep /\ NoLostWakeup /\ KickedSoon)'
  BY <1>10 DEF idle_spin
<1>11. ASSUME NEW c \in CPUs, idle_mark(c)
      PROVE  (NoPrep /\ NoLostWakeup /\ KickedSoon)'
  BY <1>11 DEF idle_mark
<1>12. ASSUME NEW c \in CPUs, idle_recheck(c)
      PROVE  (NoPrep /\ NoLostWakeup /\ KickedSoon)'
  BY <1>12 DEF idle_recheck
<1>13. ASSUME NEW c \in CPUs, idle_recheck_jobs(c)
      PROVE  (NoPrep /\ NoLostWakeup /\ KickedSoon)'
  BY <1>13 DEF idle_recheck_jobs
<1>14. ASSUME NEW c \in CPUs, icp_prep_for_pm(c)
      PROVE  (NoPrep /\ NoLostWakeup /\ KickedSoon)'
  BY <1>14 DEF icp_prep_for_pm
<1>15. ASSUME NEW c \in CPUs, idle_wake(c)
      PROVE  (NoPrep /\ NoLostWakeup /\ KickedSoon)'
  BY <1>15 DEF idle_wake
<1>16. ASSUME NEW c \in CPUs, idle_receive(c)
      PROVE  (NoPrep /\ NoLostWakeup /\ KickedSoon)'
  BY <1>16 DEF idle_receive
<1>17. ASSUME NEW c \in CPUs, idle_unmark(c)
      PROVE  (NoPrep /\ NoLostWakeup /\ KickedSoon)'
  BY <1>17 DEF idle_unmark
<1>18. ASSUME NEW c \in CPUs, exit_idle(c)
      PROVE  (NoPrep /\ NoLostWakeup /\ KickedSoon)'
  BY <1>18 DEF exit_idle
<1>19. ASSUME NEW c \in CPUs, idle_again(c)
      PROVE  (NoPrep /\ NoLostWakeup /\ KickedSoon)'
  <2>1. /\ pc[c] = "again"
        /\ UNCHANGED <<state, job_queue, in_idle, in_sleep, in_job_sleep,
                       nr_cpus_idle, reconfigure_idle, kicks, ipi, kind, tgt, job>>
    BY <1>19 DEF idle_again
  <2>2. \/ kind[c] = "job" /\ pc' = [pc EXCEPT ![c] = "loop"]
        \/ pc' = [pc EXCEPT ![c] = "enter"]
        \/ kind[c] = "delay" /\ pc' = [pc EXCEPT ![c] = "run"]
    BY <1>19 DEF idle_again
  <2>3. CASE kind[c] = "job" /\ pc' = [pc EXCEPT ![c] = "loop"]
    BY <2>1, <2>3
  <2>4. CASE pc' = [pc EXCEPT ![c] = "enter"]
    BY <2>1, <2>4
  <2>5. CASE kind[c] = "delay" /\ pc' = [pc EXCEPT ![c] = "run"]
    BY <2>1, <2>5
  <2> QED
    BY <2>2, <2>3, <2>4, <2>5
<1>20. ASSUME NEW c \in CPUs, reconfigure_kick(c)
      PROVE  (NoPrep /\ NoLostWakeup /\ KickedSoon)'
  BY <1>20 DEF reconfigure_kick, cpu_is_available
<1>21. ASSUME NEW c \in CPUs, NEW f \in Features, set_enable(c, f)
      PROVE  (NoPrep /\ NoLostWakeup /\ KickedSoon)'
  <2>1. \A d \in CPUs : ~in_idle[d]
    BY <1>21, NobodyCounted DEF set_enable
  <2> QED
    BY <1>21, <2>1 DEF set_enable
<1>22. ASSUME NEW c \in CPUs, reconfigure_idle_end(c)
      PROVE  (NoPrep /\ NoLostWakeup /\ KickedSoon)'
  BY <1>22 DEF reconfigure_idle_end
<1>23. ASSUME NEW c \in CPUs, NEW j \in Jobs, NEW T \in SUBSET CPUs, __cpu_queue_job(c, j, T)
      PROVE  (NoPrep /\ NoLostWakeup /\ KickedSoon)'
  <2>1. CASE UNCHANGED <<tgt, job, pc>>
    BY <1>23, <2>1 DEF __cpu_queue_job
  <2>2. ASSUME NEW d \in T \ {c}, QueueOn(c, j, d)
        PROVE  (NoPrep /\ NoLostWakeup /\ KickedSoon)'
    BY <1>23, <2>2 DEF __cpu_queue_job, QueueOn
  <2> QED
    BY <1>23, <2>1, <2>2 DEF __cpu_queue_job
<1>24. ASSUME NEW c \in CPUs, NEW j \in Jobs, cpu_wait_job(c, j)
      PROVE  (NoPrep /\ NoLostWakeup /\ KickedSoon)'
  <2>1. /\ pc[c] = "run"
        /\ UNCHANGED <<state, job_queue, in_idle, in_sleep, in_job_sleep,
                       nr_cpus_idle, reconfigure_idle, kicks, ipi, tgt, job>>
    BY <1>24 DEF cpu_wait_job
  <2>2. \/ UNCHANGED <<kind, pc>>
        \/ /\ kind' = [kind EXCEPT ![c] = "delay"]
           /\ pc' = [pc EXCEPT ![c] = "enter"]
    BY <1>24 DEF cpu_wait_job
  <2>3. CASE UNCHANGED <<kind, pc>>
    BY <2>1, <2>3
  <2>4. CASE kind' = [kind EXCEPT ![c] = "delay"] /\ pc' = [pc EXCEPT ![c] = "enter"]
    BY <2>1, <2>4
  <2> QED
    BY <2>2, <2>3, <2>4
<1>25. ASSUME NEW c \in CPUs, NEW j \in Jobs, NEW d \in CPUs, opal_start_cpu_thread(c, j, d)
      PROVE  (NoPrep /\ NoLostWakeup /\ KickedSoon)'
  BY <1>25 DEF opal_start_cpu_thread, QueueOn
<1>26. ASSUME NEW c \in CPUs, opal_return_cpu(c)
      PROVE  (NoPrep /\ NoLostWakeup /\ KickedSoon)'
  BY <1>26 DEF opal_return_cpu
<1>27. ASSUME NEW c \in CPUs, reconfigure_idle_start(c)
      PROVE  (NoPrep /\ NoLostWakeup /\ KickedSoon)'
  BY <1>27 DEF reconfigure_idle_start
<1>28. CASE UNCHANGED vars
  BY <1>28 DEF vars
<1>29. ASSUME NEW c \in CPUs, NEW j \in Jobs, cpu_queue_job_any(c, j)
      PROVE  (NoPrep /\ NoLostWakeup /\ KickedSoon)'
  <2>1. cpu_find_job_target(c) \in SUBSET CPUs
    BY DEF cpu_find_job_target
  <2> QED
    BY <1>23, <1>29, <2>1 DEF cpu_queue_job_any
<1>30. ASSUME NEW c \in CPUs, NEW j \in Jobs, NEW d \in CPUs, cpu_queue_job_on(c, j, d)
      PROVE  (NoPrep /\ NoLostWakeup /\ KickedSoon)'
  <2>1. {d} \in SUBSET CPUs /\ __cpu_queue_job(c, j, {d})
    BY <1>30 DEF cpu_queue_job_on
  <2> QED
    BY <1>23, <2>1
<1> QED
  BY <1>1, <1>2, <1>3, <1>4, <1>5, <1>6, <1>7, <1>8, <1>9, <1>10, <1>11, <1>12, <1>13, <1>14, <1>15, <1>16, <1>17, <1>18, <1>19, <1>20, <1>21, <1>22, <1>23, <1>24, <1>25, <1>26, <1>27, <1>28, <1>29, <1>30, <1>31 DEF Next, CpuStep, Call

\* WakeInv is an invariant on processors after P8.
THEOREM WakeInvariant == ASSUME ~P8 PROVE Spec => []WakeInv
<1>1. Init => WakeInv
  BY InitInv DEF Init, WakeInv, NoPrep, NoLostWakeup, KickedSoon
<1>2. WakeInv /\ [Next]_vars => WakeInv'
  BY WakeStep, TypesStep, FlagsStep, CountStep DEF WakeInv, IdleInv
<1> QED
  BY <1>1, <1>2, PTL DEF Spec

\* No CPU sleeps on a job that nobody will wake it up for.
THEOREM NoWakeupLost == ASSUME ~P8 PROVE Spec => []NoLostWakeup
<1>1. WakeInv => NoLostWakeup
  BY DEF WakeInv
<1> QED
  BY <1>1, WakeInvariant, PTL

\* No CPU sleeps through a reconfiguration of idle.
THEOREM KickedOutOfIdle == ASSUME ~P8 PROVE Spec => []KickedOut
<1>1. WakeInv => KickedOut
  BY DEF WakeInv, KickedSoon, KickedOut
<1> QED
  BY <1>1, WakeInvariant, PTL

-----------------------------------------------------------------------------
(* Jobs.  Each is in one place at a time until it is complete, on every    *)
(* processor.                                                              *)

\* The types of what jobs are about, and of what is left.
JobTypes ==
  /\ job_count \in [CPUs -> Nat]
  /\ job_has_no_return \in [CPUs -> BOOLEAN]
  /\ alloc \subseteq Jobs /\ freed \subseteq Jobs /\ complete \subseteq Jobs
  /\ mine \in [CPUs -> SUBSET Jobs]
  /\ pm_enabled \in BOOLEAN /\ enabled \in [Features -> BOOLEAN]
  /\ reconfs \in 0..MaxReconf

\* No element occurs twice.
Distinct(s) == \A i, k \in 1..Len(s) : s[i] = s[k] => i = k

On(c) == ToSet(job_queue[c])

\* A CPU is about to queue the job, runs it, or has run it.
Has(c, j) == pc[c] \in {"queue", "job", "done"} /\ job[c] = j

\* A CPU with a job is about to queue it, has done so, or runs it.
HasJob ==
  \A c \in CPUs :
    /\ job[c] # NoJob => pc[c] \in {"queue", "kick", "job", "done"}
    /\ pc[c] \in {"queue", "kick", "job", "done"} => job[c] \in Jobs

\* A job is on one queue, once, or with one CPU.
OncePlaced ==
  /\ \A c \in CPUs : Distinct(job_queue[c]) /\ IsFiniteSet(On(c))
  /\ \A j \in Jobs, c, d \in CPUs :
       /\ j \in On(c) /\ j \in On(d) => c = d
       /\ ~(j \in On(c) /\ Has(d, j))
       /\ Has(c, j) /\ Has(d, j) => c = d

\* Nobody has completed such a job.
PlacedNotComplete ==
  \A j \in Jobs, c \in CPUs : j \in On(c) \/ Has(c, j) => j \in alloc /\ j \notin complete

\* The CPU that queues a job is the one that will wait for it, and frees it.
Waited ==
  /\ \A c \in CPUs : pc[c] \in {"queue", "kick"} /\ job[c] \notin NoReturns => job[c] \in mine[c]
  /\ \A j \in Jobs, c \in CPUs : j \in mine[c] => j \in alloc /\ j \notin freed /\ j \notin NoReturns
  /\ \A j \in Jobs, c, d \in CPUs : j \in mine[c] /\ j \in mine[d] => c = d

Fates == complete \subseteq alloc /\ freed \ NoReturns \subseteq complete

PlaceInv == HasJob /\ OncePlaced /\ PlacedNotComplete /\ Waited /\ Fates

JobInv == JobTypes /\ PlaceInv /\ JobCount

\* The jobs on a queue.
LEMMA ToSetSeq ==
  ASSUME NEW T, NEW s \in Seq(T)
  PROVE  /\ ToSet(s) = {s[i] : i \in 1..Len(s)} /\ ToSet(s) \subseteq T /\ Len(s) \in Nat
         /\ s = <<>> <=> ToSet(s) = {}
<1>1. DOMAIN s = 1..Len(s) /\ Len(s) \in Nat /\ \A i \in 1..Len(s) : s[i] \in T
  OBVIOUS
<1>2. ToSet(s) = {s[i] : i \in 1..Len(s)}
  BY <1>1 DEF ToSet
<1>3. s # <<>> => 1 \in 1..Len(s)
  BY <1>1
<1>4. s = <<>> => Len(s) = 0
  OBVIOUS
<1> QED
  BY <1>1, <1>2, <1>3, <1>4

\* Taking a job off the top of a queue.
LEMMA TailFacts ==
  ASSUME NEW T, NEW s \in Seq(T), s # <<>>, Distinct(s)
  PROVE  /\ Head(s) \in T /\ Head(s) = s[1] /\ 1 \in 1..Len(s) /\ Head(s) \in ToSet(s)
         /\ Tail(s) \in Seq(T) /\ Distinct(Tail(s)) /\ ToSet(Tail(s)) = ToSet(s) \ {Head(s)}
<1>1. Len(s) \in Nat /\ Len(s) > 0 /\ Head(s) = s[1] /\ s[1] \in T
  OBVIOUS
<1>2. /\ Tail(s) \in Seq(T) /\ Len(Tail(s)) = Len(s) - 1
      /\ \A i \in 1..Len(s) - 1 : Tail(s)[i] = s[i + 1]
  BY <1>1
<1>3. Distinct(Tail(s))
  BY <1>1, <1>2 DEF Distinct
<1>4. ToSet(Tail(s)) = {Tail(s)[i] : i \in 1..Len(s) - 1} /\ ToSet(s) = {s[i] : i \in 1..Len(s)}
  <2>1. ToSet(Tail(s)) = {Tail(s)[i] : i \in 1..Len(Tail(s))}
    BY <1>2, ToSetSeq
  <2> QED
    BY <1>2, <2>1, ToSetSeq
<1>5. ToSet(Tail(s)) \subseteq ToSet(s) \ {Head(s)}
  BY <1>1, <1>2, <1>4 DEF Distinct
<1>6. ASSUME NEW x \in 1..Len(s), s[x] # Head(s) PROVE s[x] \in ToSet(Tail(s))
  <2>1. x - 1 \in 1..Len(s) - 1 /\ (x - 1) + 1 = x
    BY <1>1, <1>6
  <2>2. Tail(s)[x - 1] = s[x]
    BY <1>2, <2>1
  <2> QED
    BY <1>4, <2>1, <2>2
<1> QED
  BY <1>1, <1>2, <1>3, <1>4, <1>5, <1>6

\* Queueing a job.
LEMMA AppendFacts ==
  ASSUME NEW T, NEW s \in Seq(T), NEW t \in T, t \notin ToSet(s), Distinct(s)
  PROVE  Append(s, t) \in Seq(T) /\ Distinct(Append(s, t)) /\ ToSet(Append(s, t)) = ToSet(s) \cup {t}
<1>1. /\ Append(s, t) \in Seq(T) /\ Len(Append(s, t)) = Len(s) + 1 /\ Len(s) \in Nat
      /\ Append(s, t)[Len(s) + 1] = t /\ \A i \in 1..Len(s) : Append(s, t)[i] = s[i]
  OBVIOUS
<1>2. \A i \in 1..Len(s) : s[i] # t
  BY ToSetSeq
<1>3. Distinct(Append(s, t))
  BY <1>1, <1>2 DEF Distinct
<1>4. /\ ToSet(Append(s, t)) = {Append(s, t)[i] : i \in 1..Len(s) + 1}
      /\ ToSet(s) = {s[i] : i \in 1..Len(s)}
  <2>1. ToSet(Append(s, t)) = {Append(s, t)[i] : i \in 1..Len(Append(s, t))}
    BY <1>1, ToSetSeq
  <2> QED
    BY <1>1, <2>1, ToSetSeq
<1>5. 1..Len(s) + 1 = 1..Len(s) \cup {Len(s) + 1}
  BY <1>1
<1> QED
  BY <1>1, <1>3, <1>4, <1>5

\* The number of jobs to come back, when one more job is queued, ...
LEMMA CountAdd ==
  ASSUME NEW S, IsFiniteSet(S), NEW j, j \notin S
  PROVE  /\ IsFiniteSet(S \cup {j}) /\ Cardinality(S \ NoReturns) \in Nat
         /\ j \in NoReturns => Cardinality((S \cup {j}) \ NoReturns) = Cardinality(S \ NoReturns)
         /\ j \notin NoReturns =>
              Cardinality((S \cup {j}) \ NoReturns) = Cardinality(S \ NoReturns) + 1
<1> DEFINE R == S \ NoReturns
<1>1. IsFiniteSet(R) /\ IsFiniteSet(S \cup {j})
  BY FS_Subset, FS_AddElement
<1>2. j \in NoReturns => (S \cup {j}) \ NoReturns = R
  OBVIOUS
<1>3. j \notin NoReturns => (S \cup {j}) \ NoReturns = R \cup {j} /\ j \notin R
  OBVIOUS
<1>4. Cardinality(R) \in Nat
  BY <1>1, FS_CardinalityType
<1>5. j \notin R => Cardinality(R \cup {j}) = Cardinality(R) + 1
  BY <1>1, FS_AddElement
<1> QED
  BY <1>1, <1>2, <1>3, <1>4, <1>5

\* ... and when one is taken off.
LEMMA CountRemove ==
  ASSUME NEW S, IsFiniteSet(S), NEW j \in S
  PROVE  /\ IsFiniteSet(S \ {j}) /\ Cardinality((S \ {j}) \ NoReturns) \in Nat
         /\ j \in NoReturns => Cardinality((S \ {j}) \ NoReturns) = Cardinality(S \ NoReturns)
         /\ j \notin NoReturns =>
              Cardinality(S \ NoReturns) = Cardinality((S \ {j}) \ NoReturns) + 1
<1> DEFINE R == S \ {j}
<1>1. IsFiniteSet(R) /\ j \notin R /\ R \cup {j} = S
  BY FS_Subset
<1> HIDE DEF R
<1> QED
  BY <1>1, CountAdd DEF R

\* Where a CPU has a job in hand.
Busy == {"queue", "kick", "job", "done"}

\* A step that has nothing to do with jobs.
LEMMA JobsAside ==
  ASSUME Types, PlaceInv, JobCount,
         UNCHANGED <<job_queue, job_count, job, alloc, freed, complete, mine>>,
         \A d \in CPUs : pc'[d] = pc[d] \/ (pc[d] \notin Busy /\ pc'[d] \notin Busy)
  PROVE  PlaceInv' /\ JobCount'
<1>1. \A d \in CPUs : /\ pc'[d] = "queue" <=> pc[d] = "queue"
                      /\ pc'[d] = "kick" <=> pc[d] = "kick"
                      /\ pc'[d] = "job" <=> pc[d] = "job"
                      /\ pc'[d] = "done" <=> pc[d] = "done"
  BY DEF Busy
<1>2. JobCount'
  BY <1>1 DEF JobCount
<1>3. \A c \in CPUs, j \in Jobs : Has(c, j)' = Has(c, j)
  BY <1>1 DEF Has
<1>4. HasJob'
  BY <1>1 DEF PlaceInv, HasJob
<1>5. OncePlaced' /\ PlacedNotComplete'
  BY <1>3 DEF PlaceInv, OncePlaced, PlacedNotComplete, On
<1>6. Waited' /\ Fates'
  BY <1>1 DEF PlaceInv, Waited, Fates
<1> QED
  BY <1>2, <1>4, <1>5, <1>6 DEF PlaceInv

\* queue_job_on_cpu() is called for a new job.
LEMMA JobMade ==
  ASSUME Types, PlaceInv, JobTypes, JobCount, NEW c \in CPUs, NEW d \in CPUs,
         NEW j \in Jobs \ alloc, pc[c] = "run", QueueOn(c, j, d),
         UNCHANGED <<job_queue, job_count, freed, complete>>,
         IF j \in NoReturns THEN UNCHANGED mine ELSE mine' = [mine EXCEPT ![c] = @ \cup {j}]
  PROVE  PlaceInv' /\ JobCount'
<1>1. /\ alloc' = alloc \cup {j}
      /\ \A x \in CPUs : job'[x] = IF x = c THEN j ELSE job[x]
      /\ \A x \in CPUs : pc'[x] = IF x = c THEN "queue" ELSE pc[x]
  BY DEF QueueOn, Goto, Types
<1>2. \A x \in CPUs : mine'[x] = mine[x] \/ (x = c /\ j \notin NoReturns /\ mine'[x] = mine[x] \cup {j})
  BY DEF JobTypes
<1>3. j \notin NoReturns => mine'[c] = mine[c] \cup {j}
  BY DEF JobTypes
<1>4. \A x \in CPUs : j \notin On(x) /\ ~Has(x, j) /\ j \notin mine[x]
  BY DEF PlaceInv, PlacedNotComplete, Waited
<1>5. j \notin complete /\ (j \in freed => j \in NoReturns)
  BY DEF PlaceInv, Fates
<1>6. \A x \in CPUs, i \in Jobs : /\ x = c => (Has(x, i)' <=> i = j)
                                  /\ x # c => (Has(x, i)' <=> Has(x, i))
  BY <1>1 DEF Has
<1>7. \A x \in CPUs : On(x)' = On(x)
  BY DEF On
<1>8. HasJob'
  BY <1>1, CpuJobsAssumption DEF PlaceInv, HasJob
<1>9. OncePlaced'
  <2>1. \A x \in CPUs : Distinct(job_queue[x])' /\ IsFiniteSet(On(x))'
    BY <1>7 DEF PlaceInv, OncePlaced, Distinct
  <2>2. \A i \in Jobs, x, y \in CPUs :
          /\ i \in On(x)' /\ i \in On(y)' => x = y
          /\ ~(i \in On(x)' /\ Has(y, i)')
          /\ Has(x, i)' /\ Has(y, i)' => x = y
    BY <1>4, <1>6, <1>7 DEF PlaceInv, OncePlaced
  <2> QED
    BY <2>1, <2>2 DEF OncePlaced
<1>10. PlacedNotComplete'
  BY <1>1, <1>4, <1>5, <1>6, <1>7 DEF PlaceInv, PlacedNotComplete
<1>11. Waited'
  <2>1. \A x \in CPUs : pc'[x] \in {"queue", "kick"} /\ job'[x] \notin NoReturns => job'[x] \in mine'[x]
    BY <1>1, <1>2, <1>3 DEF PlaceInv, Waited
  <2>2. \A i \in Jobs, x \in CPUs : i \in mine'[x] => i \in alloc' /\ i \notin freed' /\ i \notin NoReturns
    BY <1>1, <1>2, <1>5 DEF PlaceInv, Waited
  <2>3. \A i \in Jobs, x, y \in CPUs : i \in mine'[x] /\ i \in mine'[y] => x = y
    BY <1>2, <1>4 DEF PlaceInv, Waited
  <2> QED
    BY <2>1, <2>2, <2>3 DEF Waited
<1>12. Fates'
  BY <1>1 DEF PlaceInv, Fates
<1>13. JobCount'
  <2>1. \A x \in CPUs : /\ (pc'[x] = "job") = (pc[x] = "job")
                        /\ pc[x] = "job" => job'[x] = job[x]
    BY <1>1
  <2> QED
    BY <2>1 DEF JobCount
<1> QED
  BY <1>8, <1>9, <1>10, <1>11, <1>12, <1>13 DEF PlaceInv

\* A CPU is done with the job it had in hand, which is complete if it ran.
LEMMA JobLeft ==
  ASSUME Types, PlaceInv, JobTypes, JobCount, NEW c \in CPUs, NEW w, w \notin Busy,
         pc' = [pc EXCEPT ![c] = w], job' = [job EXCEPT ![c] = NoJob],
         UNCHANGED <<job_queue, alloc, freed, mine>>,
         \/ pc[c] = "kick" /\ UNCHANGED complete
         \/ pc[c] = "job" /\ job[c] \in NoReturns /\ UNCHANGED complete
         \/ pc[c] = "done" /\ complete' = complete \cup {job[c]}
  PROVE  PlaceInv'
<1>1. /\ \A x \in CPUs : job'[x] = IF x = c THEN NoJob ELSE job[x]
      /\ \A x \in CPUs : pc'[x] = IF x = c THEN w ELSE pc[x]
  BY DEF Types
<1>2. \A x \in CPUs, i \in Jobs : Has(x, i)' <=> x # c /\ Has(x, i)
  BY <1>1, CpuJobsAssumption DEF Has, Busy
<1>3. \A x \in CPUs : On(x)' = On(x)
  BY DEF On
<1>4. HasJob'
  BY <1>1 DEF PlaceInv, HasJob, Busy
<1>5. OncePlaced'
  BY <1>2, <1>3 DEF PlaceInv, OncePlaced
<1>6. PlacedNotComplete'
  <2>1. CASE UNCHANGED complete
    BY <1>2, <1>3, <2>1 DEF PlaceInv, PlacedNotComplete
  <2>2. CASE pc[c] = "done" /\ complete' = complete \cup {job[c]}
    <3>1. \A x \in CPUs : job[c] \notin On(x) /\ (x # c => ~Has(x, job[c]))
      <4>1. Has(c, job[c]) /\ job[c] \in Jobs
        BY <2>2 DEF Has, PlaceInv, HasJob
      <4> QED
        BY <4>1 DEF PlaceInv, OncePlaced
    <3> QED
      BY <1>2, <1>3, <2>2, <3>1 DEF PlaceInv, PlacedNotComplete
  <2> QED
    BY <2>1, <2>2
<1>7. Waited'
  BY <1>1 DEF PlaceInv, Waited, Busy
<1>8. Fates'
  <2>1. CASE UNCHANGED complete
    BY <2>1 DEF PlaceInv, Fates
  <2>2. CASE pc[c] = "done" /\ complete' = complete \cup {job[c]}
    <3>1. job[c] \in alloc
      BY <2>2 DEF PlaceInv, PlacedNotComplete, HasJob, Has
    <3> QED
      BY <2>2, <3>1 DEF PlaceInv, Fates
  <2> QED
    BY <2>1, <2>2
<1> QED
  BY <1>4, <1>5, <1>6, <1>7, <1>8 DEF PlaceInv


\* Every step keeps the jobs in their places, and their count.
LEMMA JobStep == IdleInv /\ JobInv /\ [Next]_vars => JobInv'
<1> SUFFICES ASSUME IdleInv, JobInv, [Next]_vars PROVE JobInv'
  OBVIOUS
<1>0. Types /\ Queueing /\ JobTypes /\ PlaceInv /\ JobCount
  BY DEF IdleInv, JobInv
<1>1. ASSUME NEW c \in CPUs, queue_job_on_cpu(c) PROVE JobInv'
  <2> DEFINE d == tgt[c]  j == job[c]
  <2>1. /\ pc[c] = "queue" /\ d \in CPUs /\ j \in Jobs
        /\ job_queue' = [job_queue EXCEPT ![d] = Append(@, j)]
        /\ pc' = [pc EXCEPT ![c] = "kick"]
        /\ UNCHANGED <<job, alloc, freed, complete, mine>>
    BY <1>0, <1>1 DEF queue_job_on_cpu, Goto, Queueing, locals
  <2>2. /\ j \in NoReturns => UNCHANGED job_count
        /\ j \notin NoReturns => job_count' = [job_count EXCEPT ![d] = @ + 1]
    BY <1>1 DEF queue_job_on_cpu
  <2> HIDE DEF d, j
  <2>3. \A x \in CPUs : pc'[x] = IF x = c THEN "kick" ELSE pc[x]
    BY <1>0, <2>1 DEF Types
  <2>4. Has(c, j)
    BY <2>1 DEF Has, j
  <2>5. \A x \in CPUs : j \notin On(x) /\ (x # c => ~Has(x, j))
    BY <1>0, <2>1, <2>4 DEF PlaceInv, OncePlaced
  <2>6. /\ Append(job_queue[d], j) \in Seq(Jobs) /\ Distinct(Append(job_queue[d], j))
        /\ ToSet(Append(job_queue[d], j)) = On(d) \cup {j}
    <3>1. job_queue[d] \in Seq(Jobs) /\ Distinct(job_queue[d]) /\ j \notin ToSet(job_queue[d])
      BY <1>0, <2>1, <2>5 DEF Types, PlaceInv, OncePlaced, On
    <3> QED
      BY <2>1, <3>1, AppendFacts DEF On
  <2>7. \A x \in CPUs : job_queue'[x] = IF x = d THEN Append(job_queue[d], j) ELSE job_queue[x]
    BY <1>0, <2>1 DEF Types
  <2>8. \A x \in CPUs : On(x)' = IF x = d THEN On(d) \cup {j} ELSE On(x)
    BY <2>6, <2>7 DEF On
  <2>9. \A x \in CPUs, i \in Jobs : Has(x, i)' <=> x # c /\ Has(x, i)
    BY <2>1, <2>3 DEF Has
  <2>10. HasJob'
    BY <1>0, <2>1, <2>3 DEF PlaceInv, HasJob
  <2>11. IsFiniteSet(On(d)) /\ IsFiniteSet(On(d) \cup {j}) /\ j \notin On(d)
    BY <1>0, <2>1, <2>5, CountAdd DEF PlaceInv, OncePlaced
  <2>12. OncePlaced'
    <3>1. \A x \in CPUs : Distinct(job_queue[x])' /\ IsFiniteSet(On(x))'
      BY <1>0, <2>6, <2>7, <2>8, <2>11 DEF PlaceInv, OncePlaced, Distinct
    <3>2. \A i \in Jobs, x, y \in CPUs :
            /\ i \in On(x)' /\ i \in On(y)' => x = y
            /\ ~(i \in On(x)' /\ Has(y, i)')
            /\ Has(x, i)' /\ Has(y, i)' => x = y
      BY <1>0, <2>1, <2>5, <2>8, <2>9 DEF PlaceInv, OncePlaced
    <3> QED
      BY <3>1, <3>2 DEF OncePlaced
  <2>13. PlacedNotComplete'
    BY <1>0, <2>1, <2>4, <2>8, <2>9 DEF PlaceInv, PlacedNotComplete
  <2>14. Waited' /\ Fates'
    BY <1>0, <2>1, <2>3 DEF PlaceInv, Waited, Fates
  <2>15. JobTypes'
    <3>1. job_count' \in [CPUs -> Nat]
      BY <1>0, <2>1, <2>2 DEF JobTypes
    <3>2. job_has_no_return' \in [CPUs -> BOOLEAN]
      BY <1>0, <1>1, <2>1 DEF queue_job_on_cpu, JobTypes
    <3>3. UNCHANGED <<pm_enabled, enabled, reconfs>>
      BY <1>1 DEF queue_job_on_cpu, reconf
    <3> QED
      BY <1>0, <2>1, <3>1, <3>2, <3>3 DEF JobTypes
  <2>16. JobCount'
    <3> SUFFICES ASSUME NEW x \in CPUs
                 PROVE  job_count'[x] = Cardinality(On(x)' \ NoReturns)
                          + (IF pc'[x] = "job" /\ job'[x] \notin NoReturns THEN 1 ELSE 0)
      BY DEF JobCount, On
    <3>1. job_count[x] = Cardinality(On(x) \ NoReturns)
                          + (IF pc[x] = "job" /\ job[x] \notin NoReturns THEN 1 ELSE 0)
      BY <1>0 DEF JobCount, On
    <3>2. (pc'[x] = "job") = (pc[x] = "job") /\ job'[x] = job[x]
      BY <2>1, <2>3
    <3>3. CASE x # d \/ j \in NoReturns
      <4>1. job_count'[x] = job_count[x]
        BY <1>0, <2>1, <2>2, <3>3 DEF JobTypes
      <4>2. Cardinality(On(x)' \ NoReturns) = Cardinality(On(x) \ NoReturns)
        BY <2>8, <2>11, <3>3, CountAdd
      <4> QED
        BY <3>1, <3>2, <4>1, <4>2
    <3>4. CASE x = d /\ j \notin NoReturns
      <4>1. job_count'[x] = job_count[x] + 1
        BY <1>0, <2>1, <2>2, <3>4 DEF JobTypes
      <4>2. /\ Cardinality(On(x)' \ NoReturns) = Cardinality(On(x) \ NoReturns) + 1
            /\ Cardinality(On(x) \ NoReturns) \in Nat
        BY <2>8, <2>11, <3>4, CountAdd
      <4> QED
        BY <3>1, <3>2, <4>1, <4>2
    <3> QED
      BY <3>3, <3>4
  <2> QED
    BY <2>10, <2>12, <2>13, <2>14, <2>15, <2>16 DEF JobInv, PlaceInv
<1>2. ASSUME NEW c \in CPUs, queue_kick(c) PROVE JobInv'
  <2>1. /\ pc[c] = "kick" /\ pc' = [pc EXCEPT ![c] = "run"] /\ job' = [job EXCEPT ![c] = NoJob]
        /\ UNCHANGED <<job_queue, job_count, job_has_no_return, alloc, freed, complete, mine,
                       pm_enabled, enabled, reconfs>>
    BY <1>2 DEF queue_kick, Goto, jobs, reconf
  <2>2. JobTypes'
    BY <1>0, <2>1 DEF JobTypes
  <2>3. PlaceInv'
    BY <1>0, <2>1, JobLeft DEF Busy
  <2>4. JobCount'
    <3>1. \A x \in CPUs : /\ (pc'[x] = "job") = (pc[x] = "job")
                          /\ pc[x] = "job" => job'[x] = job[x]
      BY <1>0, <2>1 DEF Types
    <3> QED
      BY <1>0, <2>1, <3>1 DEF JobCount
  <2> QED
    BY <2>2, <2>3, <2>4 DEF JobInv
<1>3. ASSUME NEW c \in CPUs, process_pop(c) PROVE JobInv'
  <2>0. /\ pc[c] = "pop"
        /\ UNCHANGED <<job_count, job_has_no_return, alloc, complete, mine, pm_enabled, enabled,
                       reconfs>>
    BY <1>3 DEF process_pop, reconf
  <2>1. CASE ~cpu_check_jobs(c)
    <3>1. UNCHANGED <<job_queue, freed, job>> /\ pc' = [pc EXCEPT ![c] = "loop"]
      BY <1>3, <2>1 DEF process_pop, Goto
    <3>2. \A d \in CPUs : pc'[d] = pc[d] \/ (pc[d] \notin Busy /\ pc'[d] \notin Busy)
      BY <1>0, <2>0, <3>1 DEF Busy, Types
    <3>3. JobTypes'
      BY <1>0, <2>0, <3>1 DEF JobTypes
    <3> QED
      BY <1>0, <2>0, <3>1, <3>2, <3>3, JobsAside DEF JobInv
  <2>2. CASE cpu_check_jobs(c)
    <3> DEFINE j == Head(job_queue[c])  q == Tail(job_queue[c])
    <3>1. /\ job' = [job EXCEPT ![c] = j] /\ job_queue' = [job_queue EXCEPT ![c] = q]
          /\ freed' = freed \cup ({j} \cap NoReturns) /\ pc' = [pc EXCEPT ![c] = "job"]
      BY <1>3, <2>2 DEF process_pop, Goto
    <3>2. /\ j \in Jobs /\ j \in On(c) /\ q \in Seq(Jobs) /\ Distinct(q)
          /\ ToSet(q) = On(c) \ {j}
      <4>1. job_queue[c] \in Seq(Jobs) /\ job_queue[c] # <<>> /\ Distinct(job_queue[c])
        BY <1>0, <2>2 DEF Types, PlaceInv, OncePlaced, cpu_check_jobs
      <4> QED
        BY <4>1, TailFacts DEF On
    <3> HIDE DEF j, q
    <3>3. \A x \in CPUs : /\ job'[x] = IF x = c THEN j ELSE job[x]
                          /\ job_queue'[x] = IF x = c THEN q ELSE job_queue[x]
                          /\ pc'[x] = IF x = c THEN "job" ELSE pc[x]
      BY <1>0, <3>1 DEF Types
    <3>4. \A x \in CPUs : On(x)' = IF x = c THEN On(c) \ {j} ELSE On(x)
      BY <3>2, <3>3 DEF On
    <3>5. \A x \in CPUs, i \in Jobs : Has(x, i)' <=> IF x = c THEN i = j ELSE Has(x, i)
      BY <3>3 DEF Has
    <3>6. \A x \in CPUs : (x # c => j \notin On(x)) /\ ~Has(x, j)
      BY <1>0, <3>2 DEF PlaceInv, OncePlaced
    <3>7. j \in alloc /\ j \notin complete
      BY <1>0, <3>2 DEF PlaceInv, PlacedNotComplete
    <3>8. IsFiniteSet(On(c)) /\ IsFiniteSet(On(c) \ {j})
      BY <1>0, <3>2, CountRemove DEF PlaceInv, OncePlaced
    <3>9. HasJob'
      BY <1>0, <3>2, <3>3 DEF PlaceInv, HasJob
    <3>10. OncePlaced'
      <4>1. \A x \in CPUs : Distinct(job_queue[x])' /\ IsFiniteSet(On(x))'
        BY <1>0, <3>2, <3>3, <3>4, <3>8 DEF PlaceInv, OncePlaced, Distinct
      <4>2. \A i \in Jobs, x, y \in CPUs :
              /\ i \in On(x)' /\ i \in On(y)' => x = y
              /\ ~(i \in On(x)' /\ Has(y, i)')
              /\ Has(x, i)' /\ Has(y, i)' => x = y
        BY <1>0, <3>4, <3>5, <3>6 DEF PlaceInv, OncePlaced
      <4> QED
        BY <4>1, <4>2 DEF OncePlaced
    <3>11. PlacedNotComplete'
      BY <1>0, <2>0, <3>4, <3>5, <3>7 DEF PlaceInv, PlacedNotComplete
    <3>12. Waited'
      BY <1>0, <2>0, <3>1, <3>3 DEF PlaceInv, Waited
    <3>13. Fates'
      BY <1>0, <2>0, <3>1 DEF PlaceInv, Fates
    <3>14. JobTypes'
      BY <1>0, <2>0, <3>1, <3>2 DEF JobTypes
    <3>15. JobCount'
      <4> SUFFICES ASSUME NEW x \in CPUs
                   PROVE  job_count'[x] = Cardinality(On(x)' \ NoReturns)
                            + (IF pc'[x] = "job" /\ job'[x] \notin NoReturns THEN 1 ELSE 0)
        BY DEF JobCount, On
      <4>1. job_count'[x] = Cardinality(On(x) \ NoReturns)
                            + (IF pc[x] = "job" /\ job[x] \notin NoReturns THEN 1 ELSE 0)
        BY <1>0, <2>0 DEF JobCount, On
      <4>2. CASE x # c
        BY <3>3, <3>4, <4>1, <4>2
      <4>3. CASE x = c
        <5>1. job_count'[c] = Cardinality(On(c) \ NoReturns) + 0
          BY <2>0, <4>1, <4>3
        <5>2. /\ Cardinality((On(c) \ {j}) \ NoReturns) \in Nat
              /\ j \in NoReturns =>
                   Cardinality((On(c) \ {j}) \ NoReturns) = Cardinality(On(c) \ NoReturns)
              /\ j \notin NoReturns =>
                   Cardinality(On(c) \ NoReturns) = Cardinality((On(c) \ {j}) \ NoReturns) + 1
          BY <3>2, <3>8, CountRemove
        <5>3. pc'[c] = "job" /\ job'[c] = j /\ On(c)' = On(c) \ {j}
          BY <3>3, <3>4
        <5>4. CASE j \in NoReturns
          BY <4>3, <5>1, <5>2, <5>3, <5>4
        <5>5. CASE j \notin NoReturns
          BY <4>3, <5>1, <5>2, <5>3, <5>5
        <5> QED
          BY <5>4, <5>5
      <4> QED
        BY <4>2, <4>3
    <3> QED
      BY <3>9, <3>10, <3>11, <3>12, <3>13, <3>14, <3>15 DEF JobInv, PlaceInv
  <2> QED
    BY <2>1, <2>2
<1>4. ASSUME NEW c \in CPUs, process_done(c) PROVE JobInv'
  <2>1. /\ pc[c] = "job" /\ job[c] \notin NoReturns /\ job[c] \in Jobs
        /\ job_count' = [job_count EXCEPT ![c] = @ - 1]
        /\ pc' = [pc EXCEPT ![c] = "done"]
        /\ UNCHANGED <<job_queue, job, job_has_no_return, alloc, freed, complete, mine,
                       pm_enabled, enabled, reconfs>>
    BY <1>0, <1>4 DEF process_done, Goto, reconf, locals, PlaceInv, HasJob
  <2>2. PlaceInv'
    <3>1. \A x \in CPUs : pc'[x] = IF x = c THEN "done" ELSE pc[x]
      BY <1>0, <2>1 DEF Types
    <3>2. \A x \in CPUs, i \in Jobs : Has(x, i)' = Has(x, i)
      BY <2>1, <3>1 DEF Has
    <3>3. HasJob'
      BY <1>0, <2>1, <3>1 DEF PlaceInv, HasJob
    <3>4. OncePlaced' /\ PlacedNotComplete'
      BY <1>0, <2>1, <3>2 DEF PlaceInv, OncePlaced, PlacedNotComplete, On
    <3>5. Waited' /\ Fates'
      BY <1>0, <2>1, <3>1 DEF PlaceInv, Waited, Fates
    <3> QED
      BY <3>3, <3>4, <3>5 DEF PlaceInv
  <2>3. job_count[c] = Cardinality(On(c) \ NoReturns) + 1
    BY <1>0, <2>1 DEF JobCount, On
  <2>4. Cardinality(On(c) \ NoReturns) \in Nat
    <3>1. IsFiniteSet(On(c) \ NoReturns)
      BY <1>0, FS_Subset DEF PlaceInv, OncePlaced
    <3> QED
      BY <3>1, FS_CardinalityType
  <2>5. job_count[c] - 1 = Cardinality(On(c) \ NoReturns)
    BY <2>3, <2>4
  <2>6. \A x \in CPUs : job_count'[x] = IF x = c THEN Cardinality(On(c) \ NoReturns) ELSE job_count[x]
    BY <1>0, <2>1, <2>5 DEF JobTypes
  <2>7. JobTypes'
    <3>1. job_count' \in [CPUs -> Nat]
      BY <1>0, <2>1, <2>4, <2>5 DEF JobTypes
    <3> QED
      BY <1>0, <2>1, <3>1 DEF JobTypes
  <2>8. JobCount'
    <3>1. \A x \in CPUs : /\ pc'[x] = IF x = c THEN "done" ELSE pc[x]
                          /\ job'[x] = job[x]
      BY <1>0, <2>1 DEF Types
    <3>2. ASSUME NEW x \in CPUs, x # c
          PROVE  job_count'[x] = Cardinality(ToSet(job_queue'[x]) \ NoReturns)
                          + (IF pc'[x] = "job" /\ job'[x] \notin NoReturns THEN 1 ELSE 0)
      BY <1>0, <2>1, <2>6, <3>1, <3>2 DEF JobCount
    <3>3. job_count'[c] = Cardinality(ToSet(job_queue'[c]) \ NoReturns) + 0
      <4>1. job_count'[c] = Cardinality(On(c) \ NoReturns)
        BY <2>6
      <4>2. On(c) = ToSet(job_queue'[c])
        BY <2>1 DEF On
      <4>3. Cardinality(On(c) \ NoReturns) = Cardinality(On(c) \ NoReturns) + 0
        BY <2>4
      <4> QED
        BY <4>1, <4>2, <4>3
    <3> QED
      BY <3>1, <3>2, <3>3 DEF JobCount
  <2> QED
    BY <2>2, <2>7, <2>8 DEF JobInv
<1>31. ASSUME NEW c \in CPUs, process_complete(c) PROVE JobInv'
  <2>1. /\ pc[c] = "done" /\ job[c] \in Jobs /\ complete' = complete \cup {job[c]}
        /\ pc' = [pc EXCEPT ![c] = "pop"] /\ job' = [job EXCEPT ![c] = NoJob]
        /\ UNCHANGED <<job_queue, job_count, job_has_no_return, alloc, freed, mine,
                       pm_enabled, enabled, reconfs>>
    BY <1>0, <1>31 DEF process_complete, Goto, reconf, PlaceInv, HasJob
  <2>2. JobTypes'
    BY <1>0, <2>1 DEF JobTypes
  <2>3. PlaceInv'
    BY <1>0, <2>1, JobLeft DEF Busy
  <2>4. JobCount'
    <3>1. \A x \in CPUs : /\ (pc'[x] = "job") = (pc[x] = "job")
                          /\ pc[x] = "job" => job'[x] = job[x]
      BY <1>0, <2>1 DEF Types
    <3> QED
      BY <1>0, <2>1, <3>1 DEF JobCount
  <2> QED
    BY <2>2, <2>3, <2>4 DEF JobInv
<1>5. ASSUME NEW c \in CPUs, opal_start_thread_job(c) PROVE JobInv'
  <2>1. /\ pc[c] = "job" /\ job[c] \in NoReturns
        /\ pc' = [pc EXCEPT ![c] = "run"] /\ job' = [job EXCEPT ![c] = NoJob]
        /\ UNCHANGED <<job_queue, job_count, job_has_no_return, alloc, freed, complete, mine,
                       pm_enabled, enabled, reconfs>>
    BY <1>5 DEF opal_start_thread_job, Goto, reconf
  <2>2. JobTypes'
    BY <1>0, <2>1 DEF JobTypes
  <2>3. PlaceInv'
    BY <1>0, <2>1, JobLeft DEF Busy
  <2>4. JobCount'
    <3>1. \A x \in CPUs : (pc'[x] = "job" /\ job'[x] \notin NoReturns)
                            = (pc[x] = "job" /\ job[x] \notin NoReturns)
      BY <1>0, <2>1 DEF Types
    <3> QED
      BY <1>0, <2>1, <3>1 DEF JobCount
  <2> QED
    BY <2>2, <2>3, <2>4 DEF JobInv
<1>6. ASSUME NEW c \in CPUs, NEW j \in Jobs, NEW T \in SUBSET CPUs, __cpu_queue_job(c, j, T)
      PROVE  JobInv'
  <2>1. /\ pc[c] = "run" /\ j \in Jobs \ alloc /\ j \notin NoReturns
        /\ mine' = [mine EXCEPT ![c] = @ \cup {j}] /\ alloc' = alloc \cup {j}
        /\ UNCHANGED <<job_queue, job_count, job_has_no_return, freed, pm_enabled, enabled, reconfs>>
    BY <1>6 DEF __cpu_queue_job, QueueOn, reconf
  <2>2. complete' = complete \/ complete' = complete \cup {j}
    BY <1>6 DEF __cpu_queue_job
  <2>3. JobTypes'
    BY <1>0, <2>1, <2>2 DEF JobTypes
  <2>4. ASSUME NEW d \in T \ {c}, QueueOn(c, j, d), UNCHANGED complete
        PROVE  PlaceInv' /\ JobCount'
    BY <1>0, <2>1, <2>4, JobMade
  <2>5. ASSUME complete' = complete \cup {j}, UNCHANGED <<job, pc>>
        PROVE  PlaceInv' /\ JobCount'
    <3>1. \A x \in CPUs : mine'[x] = IF x = c THEN mine[c] \cup {j} ELSE mine[x]
      BY <1>0, <2>1 DEF JobTypes
    <3>2. \A x \in CPUs : j \notin On(x) /\ ~Has(x, j) /\ j \notin mine[x]
      BY <1>0, <2>1 DEF PlaceInv, PlacedNotComplete, Waited
    <3>3. j \notin freed
      BY <1>0, <2>1 DEF PlaceInv, Fates
    <3>4. \A x \in CPUs : On(x)' = On(x)
      BY <2>1 DEF On
    <3>5. \A x \in CPUs, i \in Jobs : Has(x, i)' = Has(x, i)
      BY <2>5 DEF Has
    <3>6. HasJob' /\ OncePlaced'
      BY <1>0, <2>1, <2>5, <3>4, <3>5 DEF PlaceInv, HasJob, OncePlaced
    <3>7. PlacedNotComplete'
      BY <1>0, <2>1, <2>5, <3>2, <3>4, <3>5 DEF PlaceInv, PlacedNotComplete
    <3>8. Waited'
      BY <1>0, <2>1, <2>5, <3>1, <3>2, <3>3 DEF PlaceInv, Waited
    <3>9. Fates' /\ JobCount'
      BY <1>0, <2>1, <2>5 DEF PlaceInv, Fates, JobCount
    <3> QED
      BY <3>6, <3>7, <3>8, <3>9 DEF PlaceInv
  <2> QED
    BY <1>6, <2>3, <2>4, <2>5 DEF __cpu_queue_job, JobInv
<1>7. ASSUME NEW c \in CPUs, NEW j \in Jobs, cpu_queue_job_any(c, j) PROVE JobInv'
  <2>1. cpu_find_job_target(c) \in SUBSET CPUs
    BY DEF cpu_find_job_target
  <2> QED
    BY <1>6, <1>7, <2>1 DEF cpu_queue_job_any
<1>8. ASSUME NEW c \in CPUs, NEW j \in Jobs, NEW d \in CPUs, cpu_queue_job_on(c, j, d)
      PROVE  JobInv'
  <2>1. {d} \in SUBSET CPUs /\ __cpu_queue_job(c, j, {d})
    BY <1>8 DEF cpu_queue_job_on
  <2> QED
    BY <1>6, <2>1
<1>9. ASSUME NEW c \in CPUs, NEW j \in Jobs, NEW d \in CPUs, opal_start_cpu_thread(c, j, d)
      PROVE  JobInv'
  <2>1. /\ pc[c] = "run" /\ j \in Jobs \ alloc /\ j \in NoReturns /\ QueueOn(c, j, d)
        /\ UNCHANGED <<job_queue, job_count, job_has_no_return, freed, complete, mine, pm_enabled,
                       enabled, reconfs>>
    BY <1>9 DEF opal_start_cpu_thread, reconf
  <2>2. alloc' = alloc \cup {j}
    BY <2>1 DEF QueueOn
  <2>3. JobTypes'
    BY <1>0, <2>1, <2>2 DEF JobTypes
  <2>4. PlaceInv' /\ JobCount'
    BY <1>0, <2>1, JobMade
  <2> QED
    BY <2>3, <2>4 DEF JobInv
<1>10. ASSUME NEW c \in CPUs, NEW j \in Jobs, cpu_wait_job(c, j) PROVE JobInv'
  <2>1. /\ pc[c] = "run" /\ j \in mine[c]
        /\ UNCHANGED <<job_queue, job_count, job_has_no_return, job, alloc, complete, pm_enabled,
                       enabled, reconfs>>
    BY <1>10 DEF cpu_wait_job, reconf
  <2>2. CASE pc' = [pc EXCEPT ![c] = "enter"] /\ UNCHANGED <<mine, freed>>
    <3>1. \A d \in CPUs : pc'[d] = pc[d] \/ (pc[d] \notin Busy /\ pc'[d] \notin Busy)
      BY <1>0, <2>1, <2>2 DEF Busy, Types
    <3>2. JobTypes'
      BY <1>0, <2>1, <2>2 DEF JobTypes
    <3> QED
      BY <1>0, <2>1, <2>2, <3>1, <3>2, JobsAside DEF JobInv
  <2>3. CASE /\ j \in complete /\ mine' = [mine EXCEPT ![c] = @ \ {j}]
             /\ freed' = freed \cup {j} /\ UNCHANGED pc
    <3>1. \A x \in CPUs : mine'[x] = IF x = c THEN mine[c] \ {j} ELSE mine[x]
      BY <1>0, <2>3 DEF JobTypes
    <3>2. \A x \in CPUs : x # c => j \notin mine[x]
      BY <1>0, <2>1 DEF PlaceInv, Waited
    <3>3. \A x \in CPUs : On(x)' = On(x)
      BY <2>1 DEF On
    <3>4. \A x \in CPUs, i \in Jobs : Has(x, i)' = Has(x, i)
      BY <2>1, <2>3 DEF Has
    <3>5. HasJob' /\ OncePlaced' /\ PlacedNotComplete'
      BY <1>0, <2>1, <2>3, <3>3, <3>4 DEF PlaceInv, HasJob, OncePlaced, PlacedNotComplete
    <3>6. Waited'
      BY <1>0, <2>1, <2>3, <3>1, <3>2 DEF PlaceInv, Waited
    <3>7. Fates' /\ JobCount' /\ JobTypes'
      BY <1>0, <2>1, <2>3 DEF PlaceInv, Fates, JobCount, JobTypes
    <3> QED
      BY <3>5, <3>6, <3>7 DEF JobInv, PlaceInv
  <2> QED
    BY <1>10, <2>2, <2>3 DEF cpu_wait_job, Goto
<1>11. ASSUME NEW c \in CPUs, secondary_loop(c) PROVE JobInv'
  <2>1. UNCHANGED <<job_queue, job_count, job, alloc, freed, complete, mine>>
    BY <1>11 DEF secondary_loop, jobs, locals
  <2>2. \A d \in CPUs : pc'[d] = pc[d] \/ (pc[d] \notin Busy /\ pc'[d] \notin Busy)
    BY <1>0, <1>11 DEF secondary_loop, Goto, Busy, Types
  <2>3. JobTypes'
    BY <1>0, <1>11 DEF secondary_loop, JobTypes, jobs, reconf
  <2> QED
    BY <1>0, <2>1, <2>2, <2>3, JobsAside DEF JobInv
<1>12. ASSUME NEW c \in CPUs, cpu_callin(c) PROVE JobInv'
  <2>1. UNCHANGED <<job_queue, job_count, job, alloc, freed, complete, mine>>
    BY <1>12 DEF cpu_callin, jobs, locals
  <2>2. \A d \in CPUs : pc'[d] = pc[d] \/ (pc[d] \notin Busy /\ pc'[d] \notin Busy)
    BY <1>0, <1>12 DEF cpu_callin, Goto, Busy, Types
  <2>3. JobTypes'
    BY <1>0, <1>12 DEF cpu_callin, JobTypes, jobs, reconf
  <2> QED
    BY <1>0, <2>1, <2>2, <2>3, JobsAside DEF JobInv
<1>13. ASSUME NEW c \in CPUs, enter_idle(c) PROVE JobInv'
  <2>1. UNCHANGED <<job_queue, job_count, job, alloc, freed, complete, mine>>
    BY <1>13 DEF enter_idle, jobs, locals
  <2>2. \A d \in CPUs : pc'[d] = pc[d] \/ (pc[d] \notin Busy /\ pc'[d] \notin Busy)
    BY <1>0, <1>13 DEF enter_idle, Goto, Busy, Types
  <2>3. JobTypes'
    BY <1>0, <1>13 DEF enter_idle, JobTypes, jobs, reconf
  <2> QED
    BY <1>0, <2>1, <2>2, <2>3, JobsAside DEF JobInv
<1>14. ASSUME NEW c \in CPUs, idle_how(c) PROVE JobInv'
  <2>1. UNCHANGED <<job_queue, job_count, job, alloc, freed, complete, mine>>
    BY <1>14 DEF idle_how, jobs, locals
  <2>2. \A d \in CPUs : pc'[d] = pc[d] \/ (pc[d] \notin Busy /\ pc'[d] \notin Busy)
    BY <1>0, <1>14 DEF idle_how, Goto, Busy, Types
  <2>3. JobTypes'
    BY <1>0, <1>14 DEF idle_how, JobTypes, jobs, reconf
  <2> QED
    BY <1>0, <2>1, <2>2, <2>3, JobsAside DEF JobInv
<1>15. ASSUME NEW c \in CPUs, idle_spin(c) PROVE JobInv'
  <2>1. UNCHANGED <<job_queue, job_count, job, alloc, freed, complete, mine>>
    BY <1>15 DEF idle_spin, jobs, locals
  <2>2. \A d \in CPUs : pc'[d] = pc[d] \/ (pc[d] \notin Busy /\ pc'[d] \notin Busy)
    BY <1>0, <1>15 DEF idle_spin, Goto, Busy, Types
  <2>3. JobTypes'
    BY <1>0, <1>15 DEF idle_spin, JobTypes, jobs, reconf
  <2> QED
    BY <1>0, <2>1, <2>2, <2>3, JobsAside DEF JobInv
<1>16. ASSUME NEW c \in CPUs, idle_mark(c) PROVE JobInv'
  <2>1. UNCHANGED <<job_queue, job_count, job, alloc, freed, complete, mine>>
    BY <1>16 DEF idle_mark, jobs, locals
  <2>2. \A d \in CPUs : pc'[d] = pc[d] \/ (pc[d] \notin Busy /\ pc'[d] \notin Busy)
    BY <1>0, <1>16 DEF idle_mark, Goto, Busy, Types
  <2>3. JobTypes'
    BY <1>0, <1>16 DEF idle_mark, JobTypes, jobs, reconf
  <2> QED
    BY <1>0, <2>1, <2>2, <2>3, JobsAside DEF JobInv
<1>17. ASSUME NEW c \in CPUs, idle_recheck(c) PROVE JobInv'
  <2>1. UNCHANGED <<job_queue, job_count, job, alloc, freed, complete, mine>>
    BY <1>17 DEF idle_recheck, jobs, locals
  <2>2. \A d \in CPUs : pc'[d] = pc[d] \/ (pc[d] \notin Busy /\ pc'[d] \notin Busy)
    BY <1>0, <1>17 DEF idle_recheck, Goto, Busy, Types
  <2>3. JobTypes'
    BY <1>0, <1>17 DEF idle_recheck, JobTypes, jobs, reconf
  <2> QED
    BY <1>0, <2>1, <2>2, <2>3, JobsAside DEF JobInv
<1>18. ASSUME NEW c \in CPUs, idle_recheck_jobs(c) PROVE JobInv'
  <2>1. UNCHANGED <<job_queue, job_count, job, alloc, freed, complete, mine>>
    BY <1>18 DEF idle_recheck_jobs, jobs, locals
  <2>2. \A d \in CPUs : pc'[d] = pc[d] \/ (pc[d] \notin Busy /\ pc'[d] \notin Busy)
    BY <1>0, <1>18 DEF idle_recheck_jobs, Goto, Busy, Types
  <2>3. JobTypes'
    BY <1>0, <1>18 DEF idle_recheck_jobs, JobTypes, jobs, reconf
  <2> QED
    BY <1>0, <2>1, <2>2, <2>3, JobsAside DEF JobInv
<1>19. ASSUME NEW c \in CPUs, icp_prep_for_pm(c) PROVE JobInv'
  <2>1. UNCHANGED <<job_queue, job_count, job, alloc, freed, complete, mine>>
    BY <1>19 DEF icp_prep_for_pm, jobs, locals
  <2>2. \A d \in CPUs : pc'[d] = pc[d] \/ (pc[d] \notin Busy /\ pc'[d] \notin Busy)
    BY <1>0, <1>19 DEF icp_prep_for_pm, Goto, Busy, Types
  <2>3. JobTypes'
    BY <1>0, <1>19 DEF icp_prep_for_pm, JobTypes, jobs, reconf
  <2> QED
    BY <1>0, <2>1, <2>2, <2>3, JobsAside DEF JobInv
<1>20. ASSUME NEW c \in CPUs, idle_wake(c) PROVE JobInv'
  <2>1. UNCHANGED <<job_queue, job_count, job, alloc, freed, complete, mine>>
    BY <1>20 DEF idle_wake, jobs, locals
  <2>2. \A d \in CPUs : pc'[d] = pc[d] \/ (pc[d] \notin Busy /\ pc'[d] \notin Busy)
    BY <1>0, <1>20 DEF idle_wake, Goto, Busy, Types
  <2>3. JobTypes'
    BY <1>0, <1>20 DEF idle_wake, JobTypes, jobs, reconf
  <2> QED
    BY <1>0, <2>1, <2>2, <2>3, JobsAside DEF JobInv
<1>21. ASSUME NEW c \in CPUs, idle_receive(c) PROVE JobInv'
  <2>1. UNCHANGED <<job_queue, job_count, job, alloc, freed, complete, mine>>
    BY <1>21 DEF idle_receive, jobs, locals
  <2>2. \A d \in CPUs : pc'[d] = pc[d] \/ (pc[d] \notin Busy /\ pc'[d] \notin Busy)
    BY <1>0, <1>21 DEF idle_receive, Goto, Busy, Types
  <2>3. JobTypes'
    BY <1>0, <1>21 DEF idle_receive, JobTypes, jobs, reconf
  <2> QED
    BY <1>0, <2>1, <2>2, <2>3, JobsAside DEF JobInv
<1>22. ASSUME NEW c \in CPUs, idle_unmark(c) PROVE JobInv'
  <2>1. UNCHANGED <<job_queue, job_count, job, alloc, freed, complete, mine>>
    BY <1>22 DEF idle_unmark, jobs, locals
  <2>2. \A d \in CPUs : pc'[d] = pc[d] \/ (pc[d] \notin Busy /\ pc'[d] \notin Busy)
    BY <1>0, <1>22 DEF idle_unmark, Goto, Busy, Types
  <2>3. JobTypes'
    BY <1>0, <1>22 DEF idle_unmark, JobTypes, jobs, reconf
  <2> QED
    BY <1>0, <2>1, <2>2, <2>3, JobsAside DEF JobInv
<1>23. ASSUME NEW c \in CPUs, exit_idle(c) PROVE JobInv'
  <2>1. UNCHANGED <<job_queue, job_count, job, alloc, freed, complete, mine>>
    BY <1>23 DEF exit_idle, jobs, locals
  <2>2. \A d \in CPUs : pc'[d] = pc[d] \/ (pc[d] \notin Busy /\ pc'[d] \notin Busy)
    BY <1>0, <1>23 DEF exit_idle, Goto, Busy, Types
  <2>3. JobTypes'
    BY <1>0, <1>23 DEF exit_idle, JobTypes, jobs, reconf
  <2> QED
    BY <1>0, <2>1, <2>2, <2>3, JobsAside DEF JobInv
<1>24. ASSUME NEW c \in CPUs, idle_again(c) PROVE JobInv'
  <2>1. UNCHANGED <<job_queue, job_count, job, alloc, freed, complete, mine>>
    BY <1>24 DEF idle_again, jobs, locals
  <2>2. \A d \in CPUs : pc'[d] = pc[d] \/ (pc[d] \notin Busy /\ pc'[d] \notin Busy)
    BY <1>0, <1>24 DEF idle_again, Goto, Busy, Types
  <2>3. JobTypes'
    BY <1>0, <1>24 DEF idle_again, JobTypes, jobs, reconf
  <2> QED
    BY <1>0, <2>1, <2>2, <2>3, JobsAside DEF JobInv
<1>25. ASSUME NEW c \in CPUs, reconfigure_kick(c) PROVE JobInv'
  <2>1. UNCHANGED <<job_queue, job_count, job, alloc, freed, complete, mine>>
    BY <1>25 DEF reconfigure_kick, jobs, locals
  <2>2. \A d \in CPUs : pc'[d] = pc[d] \/ (pc[d] \notin Busy /\ pc'[d] \notin Busy)
    BY <1>0, <1>25 DEF reconfigure_kick, Goto, Busy, Types
  <2>3. JobTypes'
    BY <1>0, <1>25 DEF reconfigure_kick, JobTypes, jobs, reconf
  <2> QED
    BY <1>0, <2>1, <2>2, <2>3, JobsAside DEF JobInv
<1>26. ASSUME NEW c \in CPUs, reconfigure_idle_end(c) PROVE JobInv'
  <2>1. UNCHANGED <<job_queue, job_count, job, alloc, freed, complete, mine>>
    BY <1>26 DEF reconfigure_idle_end, jobs, locals
  <2>2. \A d \in CPUs : pc'[d] = pc[d] \/ (pc[d] \notin Busy /\ pc'[d] \notin Busy)
    BY <1>0, <1>26 DEF reconfigure_idle_end, Goto, Busy, Types
  <2>3. JobTypes'
    BY <1>0, <1>26 DEF reconfigure_idle_end, JobTypes, jobs, reconf
  <2> QED
    BY <1>0, <2>1, <2>2, <2>3, JobsAside DEF JobInv
<1>27. ASSUME NEW c \in CPUs, opal_return_cpu(c) PROVE JobInv'
  <2>1. UNCHANGED <<job_queue, job_count, job, alloc, freed, complete, mine>>
    BY <1>27 DEF opal_return_cpu, jobs, locals
  <2>2. \A d \in CPUs : pc'[d] = pc[d] \/ (pc[d] \notin Busy /\ pc'[d] \notin Busy)
    BY <1>0, <1>27 DEF opal_return_cpu, Goto, Busy, Types
  <2>3. JobTypes'
    BY <1>0, <1>27 DEF opal_return_cpu, JobTypes, jobs, reconf
  <2> QED
    BY <1>0, <2>1, <2>2, <2>3, JobsAside DEF JobInv
<1>28. ASSUME NEW c \in CPUs, reconfigure_idle_start(c) PROVE JobInv'
  <2>1. UNCHANGED <<job_queue, job_count, job, alloc, freed, complete, mine>>
    BY <1>28 DEF reconfigure_idle_start, jobs, locals
  <2>2. \A d \in CPUs : pc'[d] = pc[d] \/ (pc[d] \notin Busy /\ pc'[d] \notin Busy)
    BY <1>0, <1>28 DEF reconfigure_idle_start, Goto, Busy, Types
  <2>3. JobTypes'
    BY <1>0, <1>28, CpuJobsAssumption DEF reconfigure_idle_start, JobTypes, jobs, reconf
  <2> QED
    BY <1>0, <2>1, <2>2, <2>3, JobsAside DEF JobInv
<1>29. ASSUME NEW c \in CPUs, NEW f \in Features, set_enable(c, f) PROVE JobInv'
  <2>1. UNCHANGED <<job_queue, job_count, job, alloc, freed, complete, mine, job_has_no_return, reconfs>>
    BY <1>29 DEF set_enable, jobs, locals
  <2>2. \A d \in CPUs : pc'[d] = pc[d] \/ (pc[d] \notin Busy /\ pc'[d] \notin Busy)
    BY <1>0, <1>29 DEF set_enable, Goto, Busy, Types
  <2>3. enabled' \in [Features -> BOOLEAN] /\ pm_enabled' \in BOOLEAN
    <3>1. enabled' = [enabled EXCEPT ![f] = ~enabled[f]] /\ enabled \in [Features -> BOOLEAN]
      BY <1>0, <1>29 DEF set_enable, JobTypes
    <3>2. enabled' \in [Features -> BOOLEAN]
      BY <3>1
    <3>3. pm_enabled' = (enabled'["ipi"] /\ (P8 => enabled'["sreset"]))
      BY <1>29 DEF set_enable
    <3>4. (enabled'["ipi"] /\ (P8 => enabled'["sreset"])) \in BOOLEAN
      OBVIOUS
    <3> QED
      BY <3>2, <3>3, <3>4
  <2>4. JobTypes'
    BY <1>0, <2>1, <2>3 DEF JobTypes
  <2> QED
    BY <1>0, <2>1, <2>2, <2>4, JobsAside DEF JobInv
<1>30. CASE UNCHANGED vars
  <2>1. UNCHANGED <<job_queue, job_count, job, alloc, freed, complete, mine, pc>>
    BY <1>30 DEF vars, jobs, locals
  <2>2. JobTypes'
    BY <1>0, <1>30 DEF JobTypes, vars, jobs, reconf
  <2> QED
    BY <1>0, <2>1, <2>2, JobsAside DEF JobInv
<1> QED
  BY <1>1, <1>2, <1>3, <1>4, <1>5, <1>6, <1>7, <1>8, <1>9, <1>10, <1>11, <1>12, <1>13,
     <1>14, <1>15, <1>16, <1>17, <1>18, <1>19, <1>20, <1>21, <1>22, <1>23, <1>24, <1>25,
     <1>26, <1>27, <1>28, <1>29, <1>30, <1>31
  DEF Next, CpuStep, Call

\* At the beginning there are no jobs.
LEMMA InitJobs == Init => JobInv
<1> SUFFICES ASSUME Init PROVE JobInv
  OBVIOUS
<1> USE CpuJobsAssumption DEF Init
<1>1. JobTypes
  BY DEF JobTypes, Features
<1>2. \A c \in CPUs : On(c) = {} /\ Distinct(job_queue[c]) /\ job_queue[c] = <<>>
  BY DEF On, ToSet, Distinct
<1>3. IsFiniteSet({}) /\ Cardinality({}) = 0
  BY FS_EmptySet
<1>4. HasJob /\ OncePlaced /\ PlacedNotComplete /\ Waited /\ Fates
  BY <1>2, <1>3 DEF HasJob, OncePlaced, PlacedNotComplete, Waited, Fates, Has
<1>5. JobCount
  <2>1. ASSUME NEW c \in CPUs
        PROVE  /\ job_count[c] = 0 /\ Cardinality(ToSet(job_queue[c]) \ NoReturns) = 0
               /\ pc[c] # "job"
    <3>1. ToSet(job_queue[c]) \ NoReturns = {}
      BY <1>2 DEF On
    <3> QED
      BY <1>3, <3>1
  <2>2. ASSUME NEW c \in CPUs
        PROVE  job_count[c] = Cardinality(ToSet(job_queue[c]) \ NoReturns)
                 + (IF pc[c] = "job" /\ job[c] \notin NoReturns THEN 1 ELSE 0)
    <3>1. (IF pc[c] = "job" /\ job[c] \notin NoReturns THEN 1 ELSE 0) = 0
      BY <2>1
    <3> HIDE DEF Init
    <3> QED
      BY <2>1, <3>1
  <2> QED
    BY <2>2 DEF JobCount
<1> QED
  BY <1>1, <1>4, <1>5 DEF JobInv, PlaceInv

\* JobInv is an invariant, on every processor.
THEOREM JobInvariant == Spec => [](IdleInv /\ JobInv)
<1>1. IdleInv /\ JobInv /\ [Next]_vars => JobInv'
  BY JobStep
<1> QED
  BY <1>1, InitJobs, IdleInvariant, PTL DEF Spec

\* A job that cpu_wait_job has freed is on no queue, and no CPU has it in hand:
\* it is freed without a lock, but after it is complete.
THEOREM JobsFreedUnused == Spec => []FreedUnused
<1>1. IdleInv /\ JobInv => FreedUnused
  <2> SUFFICES ASSUME IdleInv, JobInv PROVE FreedUnused
    OBVIOUS
  <2>1. Types /\ IdleCount /\ JobTypes /\ PlaceInv
    BY DEF IdleInv, JobInv
  <2>2. TypeOK
    BY <2>1 DEF Types, Where, JobTypes, IdleCount, TypeOK
  <2>3. ASSUME NEW j \in freed \ NoReturns, NEW c \in CPUs
        PROVE  ~Contains(job_queue[c], j) /\ job[c] # j
    <3>1. j \in Jobs /\ j \in complete /\ j # NoJob
      BY <2>1, CpuJobsAssumption DEF PlaceInv, Fates, JobTypes
    <3>2. j \notin On(c) /\ ~Has(c, j)
      BY <2>1, <3>1 DEF PlaceInv, PlacedNotComplete
    <3>3. ~Contains(job_queue[c], j)
      <4>1. job_queue[c] \in Seq(Jobs)
        BY <2>1 DEF Types
      <4>2. On(c) = {job_queue[c][i] : i \in 1..Len(job_queue[c])}
        BY <4>1, ToSetSeq DEF On
      <4> QED
        BY <3>2, <4>2 DEF Contains
    <3>4. job[c] # j
      <4>1. CASE pc[c] \in {"queue", "kick"}
        BY <2>1, <3>1, <4>1 DEF PlaceInv, Waited
      <4>2. CASE pc[c] \in {"job", "done"}
        BY <3>2, <4>2 DEF Has
      <4>3. CASE pc[c] \notin {"queue", "kick", "job", "done"}
        BY <2>1, <3>1, <4>3 DEF PlaceInv, HasJob
      <4> QED
        BY <4>1, <4>2, <4>3
    <3> QED
      BY <3>3, <3>4
  <2> QED
    BY <2>2, <2>3 DEF FreedUnused
<1> QED
  BY <1>1, JobInvariant, PTL

\* job_count of a CPU is the number of jobs on its queue and in its hands,
\* those that do not return left out.
THEOREM JobsCounted == Spec => []JobCount
<1>1. IdleInv /\ JobInv => JobCount
  BY DEF JobInv
<1> QED
  BY <1>1, JobInvariant, PTL
=============================================================================
