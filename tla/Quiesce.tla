------------------------------- MODULE Quiesce ------------------------------
(***************************************************************************)
(* Entering OPAL and keeping CPUs out of it: opal_entry (asm/head.S) and   *)
(* opal_quiesce (core/opal.c), with its use by opal_cec_reboot and         *)
(* fast_reboot.                                                            *)
(*                                                                         *)
(* An entering CPU raises in_opal_call and then looks at quiesce_opal_call *)
(* ; a quiescing CPU sets quiesce_opal_call of the others and then waits   *)
(* until their in_opal_call is zero.  Every access to one of these is a    *)
(* step; the syncs of the code put the steps in their order.               *)
(***************************************************************************)
EXTENDS Naturals, FiniteSets, Cpus

CONSTANTS
  All,          \* cpu_target = -1
  Pir0,         \* the CPU with PIR 0, if there is one
  Disciplined   \* no CPU of the OS quiesces itself, and one that has quiesced
                \* resumes with the same target

ASSUME QuiesceAssumption ==
  /\ All \notin CPUs /\ NoCpu \notin CPUs /\ All # NoCpu
  /\ Pir0 \in CPUs \cup {NoCpu}
  /\ Disciplined \in BOOLEAN

VARIABLES
  in_opal_call, quiesce_opal_call,     \* of each CPU
  opal_quiesce_state, opal_quiesce_owner, opal_quiesce_target,
  bust_locks,
  pc,      \* where each CPU is; "os" is outside of OPAL
  op,      \* its call: "work" stands for any that does not quiesce
  tgt,     \* cpu_target of the call
  todo,    \* CPUs a loop of opal_quiesce is yet to see
  stuck,   \* its local of that name
  force,   \* what the OS on a CPU has quiesced: a target or NoCpu
  quiet,   \* ... and was told OPAL_SUCCESS
  stale    \* history: a RESUME or LOCK_BREAK without a quiesce of its own has
           \* passed for that of the owner

percpu == <<in_opal_call, quiesce_opal_call>>
global == <<opal_quiesce_state, opal_quiesce_owner, opal_quiesce_target, bust_locks>>
locals == <<op, tgt, todo, stuck>>
os == <<force, quiet, stale>>
QuiesceVars == <<percpu, global, pc, locals, os>>

QuiesceInit ==
  /\ in_opal_call = [c \in CPUs |-> 0]
  /\ quiesce_opal_call = [c \in CPUs |-> "none"]
  /\ opal_quiesce_state = "none"
  /\ opal_quiesce_owner = Pir0
  /\ opal_quiesce_target = Pir0
  /\ bust_locks = FALSE
  /\ pc = [c \in CPUs |-> "os"]
  /\ op = [c \in CPUs |-> "work"]
  /\ tgt = [c \in CPUs |-> NoCpu]
  /\ todo = [c \in CPUs |-> {}]
  /\ stuck = [c \in CPUs |-> FALSE]
  /\ force = [c \in CPUs |-> NoCpu]
  /\ quiet = [c \in CPUs |-> FALSE]
  /\ stale = FALSE

-----------------------------------------------------------------------------
QuiesceGoto(c, where) == pc' = [pc EXCEPT ![c] = where]

\* The CPUs a quiesce call of c is about.
Targets(c) == IF tgt[c] = All THEN CPUs \ {c} ELSE {tgt[c]}

\* The OS calls OPAL; a RESUME or LOCK_BREAK may come without a quiesce of its own.
\* LOCK_BREAK does not use its target.
os_call(c) ==
  /\ pc[c] = "os"
  /\ \E o \in {"work", "hold", "reject", "resume", "break", "reboot"},
        t \in CPUs \cup {All} :
       /\ o \in {"work", "break", "reboot"} => t = All
       /\ Disciplined => /\ o \in {"hold", "reject"} => t # c
                         /\ o = "resume" => force[c] \in {t, NoCpu}
       /\ op' = [op EXCEPT ![c] = o]
       /\ tgt' = [tgt EXCEPT ![c] = t]
  /\ QuiesceGoto(c, "entry")
  /\ UNCHANGED <<percpu, global, todo, stuck, os>>

\* opal_entry: count first ...
entry_count(c) ==
  /\ pc[c] = "entry"
  /\ in_opal_call' = [in_opal_call EXCEPT ![c] = @ + 1]
  /\ QuiesceGoto(c, "check")
  /\ UNCHANGED <<quiesce_opal_call, global, locals, os>>

\* ... then look.
entry_check(c) ==
  /\ pc[c] = "check"
  /\ \/ quiesce_opal_call[c] = "none" /\ QuiesceGoto(c, "inside")
     \/ quiesce_opal_call[c] = "reject" /\ QuiesceGoto(c, "exit")
     \/ quiesce_opal_call[c] = "hold" /\ QuiesceGoto(c, "holdoff")
  /\ UNCHANGED <<percpu, global, locals, os>>

\* Held: out again, spin, retry.
entry_holdoff(c) ==
  /\ pc[c] = "holdoff"
  /\ in_opal_call' = [in_opal_call EXCEPT ![c] = @ - 1]
  /\ QuiesceGoto(c, "held")
  /\ UNCHANGED <<quiesce_opal_call, global, locals, os>>

entry_spin(c) ==
  /\ pc[c] = "held" /\ quiesce_opal_call[c] # "hold"
  /\ QuiesceGoto(c, "entry")
  /\ UNCHANGED <<percpu, global, locals, os>>

\* The call itself, if it does not quiesce.
call_work(c) ==
  /\ pc[c] = "inside" /\ op[c] = "work"
  /\ QuiesceGoto(c, "exit")
  /\ UNCHANGED <<percpu, global, locals, os>>

\* .Lreturn, .Lreject; the locals go with the stack frame.
entry_exit(c) ==
  /\ pc[c] = "exit"
  /\ in_opal_call' = [in_opal_call EXCEPT ![c] = @ - 1]
  /\ op' = [op EXCEPT ![c] = "work"]
  /\ tgt' = [tgt EXCEPT ![c] = NoCpu]
  /\ stuck' = [stuck EXCEPT ![c] = FALSE]
  /\ QuiesceGoto(c, "os")
  /\ UNCHANGED <<quiesce_opal_call, global, todo, os>>

-----------------------------------------------------------------------------
\* opal_quiesce returns rc: to the OS; to opal_cec_reboot, which ignores it and
\* calls fast_reboot, which quiesces once more; or to fast_reboot, which gives
\* up on OPAL_SUCCESS, as "if (!opal_quiesce(...))" has it.
QuiesceReturns(c, rc) ==
  \/ /\ op[c] \notin {"reboot", "fastreboot"}
     /\ QuiesceGoto(c, "exit")
     /\ UNCHANGED op
  \/ /\ op[c] = "reboot"
     /\ op' = [op EXCEPT ![c] = "fastreboot"]
     /\ QuiesceGoto(c, "inside")
  \/ /\ op[c] = "fastreboot"
     /\ QuiesceGoto(c, IF rc = "success" THEN "fullreboot" ELSE "fastreboot")
     /\ UNCHANGED op

Quiescing == {"hold", "reject", "reboot", "fastreboot"}
QuiesceType(c) == IF op[c] = "reject" THEN "reject" ELSE "hold"

\* cmpxchg32(&opal_quiesce_state): somebody is quiescing already ...
quiesce_busy(c) ==
  /\ pc[c] = "inside" /\ op[c] \in Quiescing
  /\ opal_quiesce_state # "none"
  /\ QuiesceReturns(c, "busy")
  /\ UNCHANGED <<percpu, global, tgt, todo, stuck, os>>

\* Mutant of quiesce_begin: a quiesce in force is not noticed.
BeginAnyway(c) ==
  /\ pc[c] = "inside" /\ op[c] \in Quiescing
  /\ opal_quiesce_state' = QuiesceType(c)
  /\ QuiesceGoto(c, "own")
  /\ UNCHANGED <<percpu, opal_quiesce_owner, opal_quiesce_target, bust_locks, locals, os>>

\* ... or nobody.
quiesce_begin(c) ==
  /\ pc[c] = "inside" /\ op[c] \in Quiescing
  /\ opal_quiesce_state = "none"
  /\ opal_quiesce_state' = QuiesceType(c)
  /\ QuiesceGoto(c, "own")
  /\ UNCHANGED <<percpu, opal_quiesce_owner, opal_quiesce_target, bust_locks, locals, os>>

quiesce_own(c) ==
  /\ pc[c] = "own"
  /\ opal_quiesce_owner' = c
  /\ opal_quiesce_target' = tgt[c]
  /\ todo' = [todo EXCEPT ![c] = Targets(c)]
  /\ QuiesceGoto(c, "set")
  /\ UNCHANGED <<percpu, opal_quiesce_state, bust_locks, op, tgt, stuck, os>>

\* Mutant of quiesce_set: one target is left out.
SetAllButOne(c) ==
  /\ pc[c] = "set"
  /\ \/ /\ \E d \in todo[c] :
             /\ quiesce_opal_call' = [quiesce_opal_call EXCEPT ![d] = QuiesceType(c)]
             /\ todo' = [todo EXCEPT ![c] = @ \ {d}]
        /\ UNCHANGED pc
     \/ /\ Cardinality(todo[c]) <= 1
        /\ todo' = [todo EXCEPT ![c] = Targets(c)]
        /\ QuiesceGoto(c, "wait")
        /\ UNCHANGED quiesce_opal_call
  /\ UNCHANGED <<in_opal_call, global, op, tgt, stuck, os>>

\* The targets are told ...
quiesce_set(c) ==
  /\ pc[c] = "set"
  /\ \/ /\ \E d \in todo[c] :
             /\ quiesce_opal_call' = [quiesce_opal_call EXCEPT ![d] = QuiesceType(c)]
             /\ todo' = [todo EXCEPT ![c] = @ \ {d}]
        /\ UNCHANGED pc
     \/ /\ todo[c] = {}
        /\ todo' = [todo EXCEPT ![c] = Targets(c)]
        /\ QuiesceGoto(c, "wait")
        /\ UNCHANGED quiesce_opal_call
  /\ UNCHANGED <<in_opal_call, global, op, tgt, stuck, os>>

\* ... and waited for, up to a second: a call may take longer.
quiesce_wait(c) ==
  /\ pc[c] = "wait"
  /\ \E d \in todo[c] :
       /\ todo' = [todo EXCEPT ![c] = @ \ {d}]
       /\ \/ in_opal_call[d] = 0 /\ UNCHANGED stuck
          \/ in_opal_call[d] # 0 /\ stuck' = [stuck EXCEPT ![c] = TRUE]
  /\ UNCHANGED <<percpu, global, pc, op, tgt, os>>

quiesce_done(c) ==
  /\ pc[c] = "wait" /\ todo[c] = {}
  /\ QuiesceReturns(c, IF stuck[c] THEN "partial" ELSE "success")
  /\ force' = [force EXCEPT ![c] = tgt[c]]
  /\ quiet' = [quiet EXCEPT ![c] = ~stuck[c]]
  /\ UNCHANGED <<percpu, global, tgt, todo, stuck, stale>>

\* QUIESCE_RESUME and QUIESCE_LOCK_BREAK are for the owner.  opal_quiesce_owner
\* is not cleared by QUIESCE_RESUME, and says PIR 0 to begin with: a CPU that
\* has quiesced nothing may be found the owner.
quiesce_not_owner(c) ==
  /\ pc[c] = "inside" /\ op[c] \in {"resume", "break"}
  /\ \/ opal_quiesce_owner # c
     \/ op[c] = "break" /\ opal_quiesce_target # All
  /\ QuiesceGoto(c, "exit")
  /\ UNCHANGED <<percpu, global, locals, os>>

quiesce_break(c) ==
  /\ pc[c] = "inside" /\ op[c] = "break"
  /\ opal_quiesce_owner = c /\ opal_quiesce_target = All
  /\ bust_locks' = TRUE
  /\ stale' = (stale \/ force[c] = NoCpu)
  /\ QuiesceGoto(c, "exit")
  /\ UNCHANGED <<percpu, opal_quiesce_state, opal_quiesce_owner, opal_quiesce_target,
                 locals, force, quiet>>

\* Mutant of quiesce_resume: the owner is not asked for.
ResumeByAnyone(c) ==
  /\ pc[c] = "inside" /\ op[c] = "resume"
  /\ bust_locks' = FALSE
  /\ todo' = [todo EXCEPT ![c] = Targets(c)]
  /\ force' = [force EXCEPT ![c] = NoCpu]
  /\ quiet' = [quiet EXCEPT ![c] = FALSE]
  /\ stale' = (stale \/ (opal_quiesce_owner = c /\ force[c] = NoCpu))
  /\ QuiesceGoto(c, "release")
  /\ UNCHANGED <<percpu, opal_quiesce_state, opal_quiesce_owner, opal_quiesce_target,
                 op, tgt, stuck>>

quiesce_resume(c) ==
  /\ pc[c] = "inside" /\ op[c] = "resume"
  /\ opal_quiesce_owner = c
  /\ bust_locks' = FALSE
  /\ todo' = [todo EXCEPT ![c] = Targets(c)]
  /\ force' = [force EXCEPT ![c] = NoCpu]
  /\ quiet' = [quiet EXCEPT ![c] = FALSE]
  /\ stale' = (stale \/ force[c] = NoCpu)
  /\ QuiesceGoto(c, "release")
  /\ UNCHANGED <<percpu, opal_quiesce_state, opal_quiesce_owner, opal_quiesce_target,
                 op, tgt, stuck>>

resume_one(c) ==
  /\ pc[c] = "release"
  /\ \E d \in todo[c] :
       /\ quiesce_opal_call' = [quiesce_opal_call EXCEPT ![d] = "none"]
       /\ todo' = [todo EXCEPT ![c] = @ \ {d}]
  /\ UNCHANGED <<in_opal_call, global, pc, op, tgt, stuck, os>>

resume_done(c) ==
  /\ pc[c] = "release" /\ todo[c] = {}
  /\ opal_quiesce_state' = "none"
  /\ QuiesceGoto(c, "exit")
  /\ UNCHANGED <<percpu, opal_quiesce_owner, opal_quiesce_target, bust_locks, locals, os>>

-----------------------------------------------------------------------------
\* Steps of a CPU in OPAL.
OpalStep(c) ==
  \/ entry_count(c) \/ entry_check(c) \/ entry_holdoff(c) \/ entry_spin(c)
  \/ call_work(c) \/ entry_exit(c)
  \/ quiesce_busy(c) \/ quiesce_begin(c) \/ quiesce_own(c) \/ quiesce_set(c)
  \/ quiesce_wait(c) \/ quiesce_done(c)
  \/ quiesce_not_owner(c) \/ quiesce_break(c) \/ quiesce_resume(c)
  \/ resume_one(c) \/ resume_done(c)

QuiesceNext == \E c \in CPUs : os_call(c) \/ OpalStep(c)

QuiesceSpec == QuiesceInit /\ [][QuiesceNext]_QuiesceVars

-----------------------------------------------------------------------------
\* The CPU runs code of OPAL.
Inside(c) == pc[c] \in {"inside", "own", "set", "wait", "release", "fullreboot",
                        "fastreboot"}

\* The types of the fields of struct cpu_thread and of the variables of opal.c.
QuiesceTypeOK ==
  /\ in_opal_call \in [CPUs -> {0, 1}]
  /\ quiesce_opal_call \in [CPUs -> {"none", "hold", "reject"}]
  /\ opal_quiesce_state \in {"none", "hold", "reject"}
  /\ opal_quiesce_owner \in CPUs \cup {NoCpu}
  /\ opal_quiesce_target \in CPUs \cup {All, NoCpu}
  /\ bust_locks \in BOOLEAN
  /\ pc \in [CPUs -> {"os", "entry", "check", "inside", "exit", "holdoff", "held",
                      "own", "set", "wait", "release", "fullreboot", "fastreboot"}]
  /\ op \in [CPUs -> {"work", "hold", "reject", "resume", "break", "reboot", "fastreboot"}]
  /\ tgt \in [CPUs -> CPUs \cup {All, NoCpu}]
  /\ todo \in [CPUs -> SUBSET CPUs]
  /\ stuck \in [CPUs -> BOOLEAN]
  /\ force \in [CPUs -> CPUs \cup {All, NoCpu}]
  /\ quiet \in [CPUs -> BOOLEAN]
  /\ stale \in BOOLEAN

\* "quiescing can behave as mutual exclusion": from the moment opal_quiesce
\* returns OPAL_SUCCESS until the CPU resumes, none of its targets runs code of
\* OPAL; unless a CPU without a quiesce has been taken for the owner of this one.
Quiesced ==
  \/ stale
  \/ \A c \in CPUs : quiet[c] =>
       \A d \in CPUs : Inside(d) => d # force[c] /\ (force[c] = All => d = c)

\* The types; and QUIESCE_RESUME undoes the effects of the other calls: when nobody
\* quiesces, no CPU is kept out; locks are skipped only while a CPU keeps all the
\* others out; and the CPU that resumes all others is not kept out itself, as it
\* asserts.  A RESUME or LOCK_BREAK of any other CPU does not disturb this, "because
\* it has not successfully called QUIESCE_HOLD or QUIESCE_REJECT" and gets
\* OPAL_BUSY; but opal_quiesce_owner is only the CPU that quiesced last, and once
\* that one, or PIR 0, calls again without a quiesce, nothing holds.
Resumed ==
  /\ QuiesceTypeOK
  /\ \/ stale
     \/ /\ opal_quiesce_state = "none" => \A c \in CPUs : quiesce_opal_call[c] = "none"
        /\ bust_locks => opal_quiesce_state # "none" /\ \E c \in CPUs : force[c] = All
        /\ \A c \in CPUs : pc[c] = "release" /\ tgt[c] = All => quiesce_opal_call[c] = "none"

\* "Ensure all other CPUs have left OPAL calls": nobody else runs code of OPAL
\* during a fast reboot.
FastRebootAlone ==
  \A c, d \in CPUs : pc[c] = "fastreboot" /\ Inside(d) => c = d

\* c has told d to keep out and is on its way to, or able to, resume it.
Keeps(c, d) ==
  \/ force[c] = d
  \/ force[c] = All /\ d # c
  \/ pc[c] \in {"set", "wait"} /\ d \in Targets(c)
  \/ pc[c] = "release" /\ d \in todo[c]

\* No CPU is kept out of OPAL for good: the one that keeps it out is not kept
\* out itself, so that it can call QUIESCE_RESUME, which would spin or be
\* rejected in opal_entry otherwise; unless a CPU without a quiesce has been taken
\* for the owner.
KeeperIsFree ==
  \/ stale
  \/ \A d \in CPUs : quiesce_opal_call[d] # "none" =>
       \E c \in CPUs : Keeps(c, d) /\ quiesce_opal_call[c] = "none"
=============================================================================
