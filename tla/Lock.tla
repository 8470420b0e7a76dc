-------------------------------- MODULE Lock --------------------------------
(***************************************************************************)
(* The skiboot spinlock (core/lock.c), in the configuration the firmware   *)
(* is built with: DEBUG_LOCKS and DEADLOCK_CHECKER (include/config.h).     *)
(*                                                                         *)
(* Every CPU runs arbitrary client code: it may call lock, try_lock,       *)
(* lock_recursive and unlock on any lock at any moment, wrongly nested or  *)
(* wrongly paired calls included, because catching those is what the       *)
(* debug checks are for.  One step of the model is at most one access to   *)
(* memory another CPU may write (lock_val, dl_lock, requested_lock); what  *)
(* is private to the CPU (con_suspend, locks_held, locals) rides along.    *)
(***************************************************************************)
EXTENDS Naturals, FiniteSets

CONSTANTS
  CPUs,         \* the cpu_threads; a CPU stands for its PIR
  Locks,        \* the struct locks of the clients
  ConLocks,     \* those with in_con_path set
  ActiveCPUs,   \* CPUs in cpu_state_active or cpu_state_os
  cpu_max_pir,  \* the largest PIR
  Pir0,         \* the CPU with PIR 0, NoCpu if there is none
  NoCpu, NoLock \* lock_val 0 and the NULL lock

ASSUME LockAssumption ==
  /\ IsFiniteSet(CPUs) /\ IsFiniteSet(Locks)
  /\ ConLocks \subseteq Locks
  /\ ActiveCPUs \subseteq CPUs
  /\ NoCpu \notin CPUs
  /\ Pir0 \in CPUs \cup {NoCpu}
  /\ NoLock \notin Locks
  /\ cpu_max_pir \in Nat
  /\ Cardinality(CPUs) <= cpu_max_pir + 1

VARIABLES
  bust_locks,      \* locking is switched off
  lock_val,        \* owner of each lock, NoCpu when lock_val is 0
  dl_lock,         \* owner of the lock of the deadlock checker
  requested_lock,  \* the lock each CPU has announced it waits for
  locks_held,      \* the per-CPU list of owned locks (as a set)
  con_suspend,     \* per-CPU count of reasons not to flush the console
  pc,              \* where each CPU is
  arg,             \* the lock its current call is about
  walk,            \* locals of check_deadlock: lock looked at, owner read,
                   \* iterations, verdict
  timeout_warn,    \* local of lock_caller
  dropping,        \* inside drop_my_locks
  owned,           \* locks the client code of the CPU believes it owns
  torn             \* history: a walk took the owner of a lock that was released
                   \* under it for the CPU with PIR 0

vars == <<bust_locks, lock_val, dl_lock, requested_lock, locks_held,
          con_suspend, pc, arg, walk, timeout_warn, dropping, owned, torn>>

Where == {"run", "request", "walk", "walkowner", "walknext", "undl", "spin",
          "wait", "got", "release", "abort"}

NoWalk == [next |-> NoLock, owner |-> NoCpu, i |-> 0, dead |-> FALSE]

Init ==
  /\ bust_locks = TRUE
  /\ lock_val = [l \in Locks |-> NoCpu]
  /\ dl_lock = NoCpu
  /\ requested_lock = [c \in CPUs |-> NoLock]
  /\ locks_held = [c \in CPUs |-> {}]
  /\ con_suspend = [c \in CPUs |-> 0]
  /\ pc = [c \in CPUs |-> "run"]
  /\ arg = [c \in CPUs |-> NoLock]
  /\ walk = [c \in CPUs |-> NoWalk]
  /\ timeout_warn = [c \in CPUs |-> FALSE]
  /\ dropping = [c \in CPUs |-> FALSE]
  /\ owned = [c \in CPUs |-> {}]
  /\ torn = FALSE

-----------------------------------------------------------------------------
\* Where a CPU's control goes.
Goto(c, where) == pc' = [pc EXCEPT ![c] = where]

\* The client code of c is free to make its next call.
ClientRuns(c) == pc[c] = "run" /\ ~dropping[c] /\ ~bust_locks

\* lock_error(): print and abort(); the CPU does nothing any more.
lock_error(c) ==
  /\ Goto(c, "abort")
  /\ UNCHANGED <<bust_locks, torn, lock_val, requested_lock, locks_held,
                 con_suspend, arg, timeout_warn, dropping, owned>>

\* init_locks(): per-CPU data is available, locks start to work.
init_locks ==
  /\ bust_locks
  /\ bust_locks' = FALSE
  /\ UNCHANGED <<torn, lock_val, dl_lock, requested_lock, locks_held, con_suspend,
                 pc, arg, walk, timeout_warn, dropping, owned>>

\* Mutant of Acquire: list_add() is missing.
AcquireUnlinked(c, l) ==
  /\ lock_val[l] = NoCpu
  /\ lock_val' = [lock_val EXCEPT ![l] = c]
  /\ con_suspend' = [con_suspend EXCEPT ![c] = IF l \in ConLocks THEN @ + 1 ELSE @]
  /\ owned' = [owned EXCEPT ![c] = @ \cup {l}]
  /\ UNCHANGED locks_held

\* Mutant of Acquire: con_suspend is raised only for the first lock held.
AcquireSuspendsOnce(c, l) ==
  /\ lock_val[l] = NoCpu
  /\ lock_val' = [lock_val EXCEPT ![l] = c]
  /\ con_suspend' = [con_suspend EXCEPT
       ![c] = IF l \in ConLocks /\ locks_held[c] = {} THEN @ + 1 ELSE @]
  /\ locks_held' = [locks_held EXCEPT ![c] = @ \cup {l}]
  /\ owned' = [owned EXCEPT ![c] = @ \cup {l}]

(***************************************************************************)
(* try_lock_caller when its cmpxchg of lock_val from 0 succeeds.  When the *)
(* cmpxchg fails con_suspend is put back and nothing has changed.          *)
(***************************************************************************)
Acquire(c, l) ==
  /\ lock_val[l] = NoCpu
  /\ lock_val' = [lock_val EXCEPT ![l] = c]
  /\ con_suspend' = [con_suspend EXCEPT ![c] = IF l \in ConLocks THEN @ + 1 ELSE @]
  /\ locks_held' = [locks_held EXCEPT ![c] = @ \cup {l}]
  /\ owned' = [owned EXCEPT ![c] = @ \cup {l}]

\* try_lock() that succeeds; also the first attempt of lock().
try_lock(c, l) ==
  /\ ClientRuns(c)
  /\ Acquire(c, l)
  /\ UNCHANGED <<bust_locks, torn, dl_lock, requested_lock, pc, arg, walk,
                 timeout_warn, dropping>>

\* lock() that finds the lock taken; only CPUs in cpu_state_active or
\* cpu_state_os announce what they wait for.
LockBusy(c, l) ==
  /\ ClientRuns(c)
  /\ lock_val[l] \notin {NoCpu, c}
  /\ Goto(c, IF c \in ActiveCPUs THEN "request" ELSE "spin")
  /\ arg' = [arg EXCEPT ![c] = l]
  /\ timeout_warn' = [timeout_warn EXCEPT ![c] = FALSE]
  /\ UNCHANGED <<bust_locks, torn, lock_val, dl_lock, requested_lock, locks_held,
                 con_suspend, walk, dropping, owned>>

\* lock_check(): taking a lock this CPU already owns.
LockCheckFails(c, l) ==
  /\ ClientRuns(c)
  /\ lock_val[l] = c
  /\ lock_error(c)
  /\ UNCHANGED <<dl_lock, walk>>

\* lock_caller() up to its first attempt.
lock_caller(c, l) == try_lock(c, l) \/ LockBusy(c, l) \/ LockCheckFails(c, l)

\* lock_recursive_caller(): does nothing if the CPU owns the lock already.
lock_recursive_caller(c, l) == lock_val[l] # c /\ lock_caller(c, l)

-----------------------------------------------------------------------------
\* Mutant of add_lock_request: the request is not recorded before the walk.
RequestUnrecorded(c) ==
  /\ pc[c] = "request"
  /\ dl_lock = NoCpu
  /\ dl_lock' = c
  /\ walk' = [walk EXCEPT ![c] = [NoWalk EXCEPT !.next = arg[c]]]
  /\ Goto(c, "walk")
  /\ UNCHANGED <<bust_locks, torn, lock_val, requested_lock, locks_held,
                 con_suspend, arg, timeout_warn, dropping, owned>>

(***************************************************************************)
(* add_lock_request: announce the wanted lock and look for a cycle, with   *)
(* dl_lock held so that no CPU announces a request during the walk.        *)
(***************************************************************************)
add_lock_request(c) ==
  /\ pc[c] = "request"
  /\ dl_lock = NoCpu
  /\ dl_lock' = c
  /\ requested_lock' = [requested_lock EXCEPT ![c] = arg[c]]
  /\ walk' = [walk EXCEPT ![c] = [NoWalk EXCEPT !.next = arg[c]]]
  /\ Goto(c, "walk")
  /\ UNCHANGED <<bust_locks, torn, lock_val, locks_held, con_suspend, arg,
                 timeout_warn, dropping, owned>>

\* check_deadlock: the walk leaves its loop with this verdict.
Verdict(c, dead) ==
  /\ walk' = [walk EXCEPT ![c].dead = dead]
  /\ Goto(c, "undl")

\* check_deadlock: one iteration up to the test of the locked bit.
WalkTest(c) ==
  LET w == walk[c] IN
  /\ pc[c] = "walk"
  /\ \/ /\ \/ w.i >= cpu_max_pir
           \/ w.next = NoLock
           \/ w.next \in Locks /\ (lock_val[w.next] = NoCpu \/ w.next \in ConLocks)
        /\ Verdict(c, FALSE)
     \/ /\ w.i < cpu_max_pir
        /\ w.next \in Locks \ ConLocks
        /\ lock_val[w.next] # NoCpu
        /\ Goto(c, "walkowner")
        /\ UNCHANGED walk
  /\ UNCHANGED <<bust_locks, torn, lock_val, dl_lock, requested_lock, locks_held,
                 con_suspend, arg, timeout_warn, dropping, owned>>

\* What "lock_val >> 32" makes of the lock word.
lock_owner(l) == IF lock_val[l] = NoCpu THEN Pir0 ELSE lock_val[l]

(***************************************************************************)
(* check_deadlock: lock_val is read a second time for the owner.  By now   *)
(* the lock may belong to another CPU, or to nobody: then the owner reads  *)
(* as PIR 0.                                                               *)
(***************************************************************************)
WalkOwner(c) ==
  LET l == walk[c].next IN
  /\ pc[c] = "walkowner"
  /\ torn' = (torn \/ (lock_val[l] = NoCpu /\ Pir0 # NoCpu))
  /\ \/ lock_owner(l) = c /\ Verdict(c, TRUE)
     \/ lock_owner(l) = NoCpu /\ Verdict(c, FALSE)
     \/ /\ lock_owner(l) \notin {NoCpu, c}
        /\ walk' = [walk EXCEPT ![c].owner = lock_owner(l)]
        /\ Goto(c, "walknext")
  /\ UNCHANGED <<bust_locks, lock_val, dl_lock, requested_lock, locks_held,
                 con_suspend, arg, timeout_warn, dropping, owned>>

\* Mutant of WalkNext: the iteration counter does not advance.
WalkNextUncounted(c) ==
  /\ pc[c] = "walknext"
  /\ walk' = [walk EXCEPT ![c].next = requested_lock[walk[c].owner]]
  /\ Goto(c, "walk")
  /\ UNCHANGED <<bust_locks, torn, lock_val, dl_lock, requested_lock, locks_held,
                 con_suspend, arg, timeout_warn, dropping, owned>>

\* check_deadlock: follow the owner to the lock it has requested.
WalkNext(c) ==
  /\ pc[c] = "walknext"
  /\ walk' = [walk EXCEPT ![c].next = requested_lock[walk[c].owner],
                          ![c].i = @ + 1]
  /\ Goto(c, "walk")
  /\ UNCHANGED <<bust_locks, torn, lock_val, dl_lock, requested_lock, locks_held,
                 con_suspend, arg, timeout_warn, dropping, owned>>

\* The end of add_lock_request: drop dl_lock, abort on a deadlock.
RequestDone(c) ==
  /\ pc[c] = "undl"
  /\ dl_lock' = NoCpu
  /\ walk' = [walk EXCEPT ![c] = NoWalk]
  /\ \/ walk[c].dead /\ lock_error(c)
     \/ /\ ~walk[c].dead
        /\ Goto(c, "spin")
        /\ UNCHANGED <<bust_locks, torn, lock_val, requested_lock, locks_held,
                       con_suspend, arg, timeout_warn, dropping, owned>>

-----------------------------------------------------------------------------
\* lock_caller's loop: the attempt that succeeds.
SpinAcquire(c) ==
  /\ pc[c] = "spin"
  /\ Acquire(c, arg[c])
  /\ Goto(c, "got")
  /\ UNCHANGED <<bust_locks, torn, dl_lock, requested_lock, arg, walk,
                 timeout_warn, dropping>>

\* lock_caller's loop: the attempt fails, watch lock_val until it is 0.
SpinFail(c) ==
  /\ pc[c] = "spin"
  /\ lock_val[arg[c]] # NoCpu
  /\ Goto(c, "wait")
  /\ UNCHANGED <<bust_locks, torn, lock_val, dl_lock, requested_lock, locks_held,
                 con_suspend, arg, walk, timeout_warn, dropping, owned>>

\* lock_val was seen 0: try again, or after LOCK_TIMEOUT_MS drop the request,
\* print the warning (once) and announce the request again.
WaitOver(c) ==
  /\ pc[c] = "wait"
  /\ lock_val[arg[c]] = NoCpu
  /\ \/ Goto(c, "spin") /\ UNCHANGED <<requested_lock, timeout_warn>>
     \/ /\ ~timeout_warn[c]
        /\ timeout_warn' = [timeout_warn EXCEPT ![c] = TRUE]
        /\ requested_lock' = [requested_lock EXCEPT ![c] = NoLock]
        /\ Goto(c, IF c \in ActiveCPUs THEN "request" ELSE "spin")
  /\ UNCHANGED <<bust_locks, torn, lock_val, dl_lock, locks_held, con_suspend,
                 arg, walk, dropping, owned>>

\* Mutant of remove_lock_request: the request stays announced.
RequestStays(c) ==
  /\ pc[c] = "got"
  /\ arg' = [arg EXCEPT ![c] = NoLock]
  /\ Goto(c, "run")
  /\ UNCHANGED <<bust_locks, torn, lock_val, dl_lock, requested_lock, locks_held,
                 con_suspend, walk, timeout_warn, dropping, owned>>

\* remove_lock_request() after the lock was taken; lock_caller returns.
remove_lock_request(c) ==
  /\ pc[c] = "got"
  /\ requested_lock' = [requested_lock EXCEPT ![c] = NoLock]
  /\ arg' = [arg EXCEPT ![c] = NoLock]
  /\ Goto(c, "run")
  /\ UNCHANGED <<bust_locks, torn, lock_val, dl_lock, locks_held, con_suspend,
                 walk, timeout_warn, dropping, owned>>

-----------------------------------------------------------------------------
\* Mutant of UnlockCheckPasses: it is enough that the lock is taken.
UnlockCheckTaken(c, l) ==
  /\ lock_val[l] # NoCpu
  /\ l \in ConLocks => con_suspend[c] # 0
  /\ locks_held[c] # {}

\* The four tests of unlock_check().
UnlockCheckPasses(c, l) ==
  /\ lock_val[l] = c
  /\ l \in ConLocks => con_suspend[c] # 0
  /\ locks_held[c] # {}

\* unlock() up to the store to lock_val: the lock leaves the list it is
\* linked on while it is still taken.
UnlockBegin(c, l) ==
  /\ UnlockCheckPasses(c, l)
  /\ locks_held' = [d \in CPUs |-> locks_held[d] \ {l}]
  /\ owned' = [owned EXCEPT ![c] = @ \ {l}]
  /\ arg' = [arg EXCEPT ![c] = l]
  /\ Goto(c, "release")
  /\ UNCHANGED <<bust_locks, torn, lock_val, dl_lock, requested_lock, con_suspend,
                 walk, timeout_warn, dropping>>

\* The body of unlock(), up to the store to lock_val.
UnlockBody(c, l) ==
  \/ UnlockBegin(c, l)
  \/ ~UnlockCheckPasses(c, l) /\ lock_error(c) /\ UNCHANGED <<dl_lock, walk>>

\* unlock() called by the client code.
unlock(c, l) == ClientRuns(c) /\ UnlockBody(c, l)

\* The rest of unlock(): lock_val = 0, then the console is resumed.
UnlockEnd(c) ==
  /\ pc[c] = "release"
  /\ lock_val' = [lock_val EXCEPT ![arg[c]] = NoCpu]
  /\ con_suspend' = [con_suspend EXCEPT
                       ![c] = IF arg[c] \in ConLocks THEN @ - 1 ELSE @]
  /\ arg' = [arg EXCEPT ![c] = NoLock]
  /\ Goto(c, "run")
  /\ UNCHANGED <<bust_locks, torn, dl_lock, requested_lock, locks_held, walk,
                 timeout_warn, dropping, owned>>

\* drop_my_locks(): called when an OPAL call or a job ends with locks held.
DropStart(c) ==
  /\ ClientRuns(c)
  /\ locks_held[c] # {}
  /\ dropping' = [dropping EXCEPT ![c] = TRUE]
  /\ UNCHANGED <<bust_locks, torn, lock_val, dl_lock, requested_lock, locks_held,
                 con_suspend, pc, arg, walk, timeout_warn, owned>>

DropOne(c) ==
  /\ dropping[c] /\ pc[c] = "run"
  /\ \E l \in locks_held[c] : UnlockBody(c, l)

DropDone(c) ==
  /\ dropping[c] /\ pc[c] = "run" /\ locks_held[c] = {}
  /\ dropping' = [dropping EXCEPT ![c] = FALSE]
  /\ UNCHANGED <<bust_locks, torn, lock_val, dl_lock, requested_lock, locks_held,
                 con_suspend, pc, arg, walk, timeout_warn, owned>>

drop_my_locks(c) == DropStart(c) \/ DropOne(c) \/ DropDone(c)

-----------------------------------------------------------------------------
ClientCall(c) ==
  \E l \in Locks :
    \/ try_lock(c, l)
    \/ lock_caller(c, l)
    \/ lock_recursive_caller(c, l)
    \/ unlock(c, l)

CpuStep(c) ==
  \/ add_lock_request(c)
  \/ WalkTest(c)
  \/ WalkOwner(c)
  \/ WalkNext(c)
  \/ RequestDone(c)
  \/ SpinAcquire(c)
  \/ SpinFail(c)
  \/ WaitOver(c)
  \/ remove_lock_request(c)
  \/ UnlockEnd(c)

Next ==
  \/ init_locks
  \/ \E c \in CPUs : ClientCall(c) \/ CpuStep(c) \/ drop_my_locks(c)

Spec == Init /\ [][Next]_vars

-----------------------------------------------------------------------------
Walk == [next: Locks \cup {NoLock}, owner: CPUs \cup {NoCpu}, i: Nat,
         dead: BOOLEAN]

\* The types of the lock words, the per-CPU state and the locals.
TypeOK ==
  /\ bust_locks \in BOOLEAN
  /\ lock_val \in [Locks -> CPUs \cup {NoCpu}]
  /\ dl_lock \in CPUs \cup {NoCpu}
  /\ requested_lock \in [CPUs -> Locks \cup {NoLock}]
  /\ locks_held \in [CPUs -> SUBSET Locks]
  /\ con_suspend \in [CPUs -> Nat]
  /\ pc \in [CPUs -> Where]
  /\ arg \in [CPUs -> Locks \cup {NoLock}]
  /\ walk \in [CPUs -> Walk]
  /\ timeout_warn \in [CPUs -> BOOLEAN]
  /\ dropping \in [CPUs -> BOOLEAN]
  /\ owned \in [CPUs -> SUBSET Locks]
  /\ torn \in BOOLEAN

\* No lock is ever owned by the code of two CPUs, however wrongly clients
\* nest and pair their calls: unlock_check() stops an unlock() by a CPU that
\* is not the owner before it frees the lock.
MutualExclusion ==
  \A c, d \in CPUs : c # d => owned[c] \cap owned[d] = {}

\* unlock() of a lock the CPU really owns never trips over unlock_check():
\* the owner field, the console suspension and the list of held locks that
\* try_lock_caller() and unlock() maintain separately stay in agreement.
OwnerMayUnlock ==
  \A c \in CPUs : \A l \in owned[c] : UnlockCheckPasses(c, l)

\* con_suspend counts exactly the console-path locks the CPU has taken and
\* not yet released: the console is never left suspended for ever, nor
\* flushed while such a lock is held.
ConSuspendCount ==
  \A c \in CPUs :
    con_suspend[c] = Cardinality({l \in ConLocks : lock_val[l] = c})

\* CPUs of S are each inside lock() for a lock owned by another CPU of S, so
\* none of them can ever leave.
Stuck(S) ==
  \A c \in S :
    /\ pc[c] \in {"request", "walk", "walkowner", "walknext", "undl", "spin", "wait"}
    /\ lock_val[arg[c]] \in S

\* check_deadlock() cries wolf never, but for one case: when it returns true the
\* CPU is part of a real cycle, although the walk reads other CPUs' locks one by
\* one while they are being taken, released and withdrawn.  The case is the lock
\* released between the test of its locked bit and the read of its owner, which
\* then reads as PIR 0; it cannot happen where no CPU has that PIR.
NoFalseDeadlock ==
  \A c \in CPUs :
    ~torn /\ pc[c] = "undl" /\ walk[c].dead => \E S \in SUBSET CPUs : c \in S /\ Stuck(S)

\* "Find circular dependencies in the lock requests": CPUs that are checked
\* never all get past add_lock_request() and spin in a cycle.
DeadlockFound ==
  ~\E S \in SUBSET ActiveCPUs :
     /\ S # {} /\ Stuck(S)
     /\ \A c \in S : pc[c] \in {"spin", "wait"} /\ arg[c] \notin ConLocks

\* The accesses to memory check_deadlock() has left, at most.
WalkLeft(c) ==
  3 * (cpu_max_pir - walk[c].i)
    + (CASE pc[c] = "walk" -> 2 [] pc[c] = "walkowner" -> 1 [] OTHER -> 0)

\* A step of a walk that does not end it uses up some of what it has left.
WalkAdvances ==
  \A c \in CPUs :
    pc'[c] # pc[c] /\ {pc[c], pc'[c]} \subseteq {"walk", "walkowner", "walknext"} =>
      WalkLeft(c)' \in 0..(WalkLeft(c) - 1)

\* The walk of check_deadlock() ends, so that dl_lock, which every CPU that
\* waits for any lock has to take first, is released again: also when the
\* walk runs into a cycle it is not itself part of, each step brings it
\* closer to the bound, and never past it.
WalkProgress == [][WalkAdvances]_vars
=============================================================================
