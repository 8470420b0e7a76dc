----------------------------- MODULE LockProof ------------------------------
(***************************************************************************)
(* Proofs about Lock, for any set of CPUs and of locks.                    *)
(***************************************************************************)
EXTENDS Lock, FiniteSetTheorems, TLAPS

\* A CPU inside a call knows which lock the call is about, the one it is
\* about to release or has just taken is its own, and a walk that reads or follows
\* an owner does so within the bound on its iterations.
ArgOK ==
  \A c \in CPUs :
    /\ pc[c] \in {"request", "walk", "walkowner", "walknext", "undl", "spin", "wait", "got",
                  "release"} => arg[c] \in Locks
    /\ pc[c] = "release" => lock_val[arg[c]] = c
    /\ pc[c] = "walkowner" => walk[c].next \in Locks \ ConLocks /\ walk[c].i < cpu_max_pir
    /\ pc[c] = "walknext" => walk[c].owner \in CPUs /\ walk[c].i < cpu_max_pir

\* What the client believes it owns is what is on its list, and that is what
\* the lock words say, except for the lock that is just being released.
HeldExact ==
  \A c \in CPUs :
    /\ owned[c] = locks_held[c]
    /\ locks_held[c] = {l \in Locks : lock_val[l] = c
                                        /\ ~(pc[c] = "release" /\ arg[c] = l)}

\* The console-path locks a CPU has taken, in the current state.
ConHeld(c) == {l \in ConLocks : lock_val[l] = c}

\* The inductive invariant.
LockInv == TypeOK /\ ArgOK /\ HeldExact /\ ConSuspendCount

\* Before init_locks() no lock is taken and every list is empty.
LEMMA InitInv == Init => LockInv
<1> SUFFICES ASSUME Init PROVE LockInv
  OBVIOUS
<1> USE LockAssumption DEF Init
<1>1. TypeOK
  BY DEF TypeOK, Where, Walk, NoWalk
<1>2. ArgOK
  BY DEF ArgOK
<1>3. HeldExact
  BY DEF HeldExact
<1>4. ConSuspendCount
  <2>1. \A c \in CPUs : {l \in ConLocks : lock_val[l] = c} = {}
    OBVIOUS
  <2> QED
    BY <2>1, FS_EmptySet DEF ConSuspendCount
<1> QED
  BY <1>1, <1>2, <1>3, <1>4 DEF LockInv

\* Every step keeps the types: con_suspend, the only counter that goes down,
\* is decremented only by a CPU that owns a console-path lock.
LEMMA TypeStep == LockInv /\ [Next]_vars => TypeOK'
<1> SUFFICES ASSUME LockInv, [Next]_vars PROVE TypeOK'
  OBVIOUS
<1> USE LockAssumption DEF LockInv, TypeOK, Where
<1>1. CASE init_locks
  BY <1>1 DEF init_locks
<1>2. ASSUME NEW c \in CPUs, NEW l \in Locks, try_lock(c, l) PROVE TypeOK'
  BY <1>2 DEF try_lock, Acquire
<1>3. ASSUME NEW c \in CPUs, NEW l \in Locks, LockBusy(c, l) PROVE TypeOK'
  BY <1>3 DEF LockBusy, Goto
<1>4. ASSUME NEW c \in CPUs, NEW l \in Locks, LockCheckFails(c, l) PROVE TypeOK'
  BY <1>4 DEF LockCheckFails, lock_error, Goto
<1>5. ASSUME NEW c \in CPUs, NEW l \in Locks, UnlockBody(c, l) PROVE TypeOK'
  <2>1. CASE UnlockBegin(c, l)
    BY <2>1 DEF UnlockBegin, Goto
  <2>2. CASE lock_error(c) /\ UNCHANGED <<dl_lock, walk>>
    BY <2>2 DEF lock_error, Goto
  <2> QED
    BY <1>5, <2>1, <2>2 DEF UnlockBody
<1>6. ASSUME NEW c \in CPUs, add_lock_request(c) PROVE TypeOK'
  BY <1>6 DEF add_lock_request, Goto, ArgOK, Walk, NoWalk
<1>w. ASSUME NEW c \in CPUs, WalkTest(c) PROVE TypeOK'
  <2>1. walk[c] \in Walk
    OBVIOUS
  <2>2. CASE Verdict(c, FALSE)
    BY <1>w, <2>1, <2>2 DEF WalkTest, Verdict, Goto, Walk
  <2>3. CASE walk' = walk /\ Goto(c, "walkowner")
    BY <1>w, <2>3 DEF WalkTest, Goto
  <2> QED
    BY <1>w, <2>2, <2>3 DEF WalkTest
<1>7. ASSUME NEW c \in CPUs, WalkOwner(c) PROVE TypeOK'
  <2>1. walk[c] \in Walk /\ walk[c].next \in Locks
    BY <1>7 DEF WalkOwner, ArgOK
  <2>4. torn' \in BOOLEAN
    BY <1>7 DEF WalkOwner
  <2>2. CASE \E dead \in BOOLEAN : Verdict(c, dead)
    BY <1>7, <2>1, <2>2, <2>4 DEF WalkOwner, Verdict, Goto, Walk
  <2>3. CASE /\ walk' = [walk EXCEPT ![c].owner = lock_owner(walk[c].next)]
             /\ Goto(c, "walknext")
    <3>1. lock_owner(walk[c].next) \in CPUs \cup {NoCpu}
      BY <2>1 DEF lock_owner
    <3> QED
      BY <1>7, <2>1, <2>3, <2>4, <3>1 DEF WalkOwner, Goto, Walk
  <2> QED
    BY <1>7, <2>2, <2>3 DEF WalkOwner
<1>8. ASSUME NEW c \in CPUs, WalkNext(c) PROVE TypeOK'
  BY <1>8 DEF WalkNext, Goto, Walk, ArgOK
<1>9. ASSUME NEW c \in CPUs, RequestDone(c) PROVE TypeOK'
  BY <1>9 DEF RequestDone, lock_error, Goto, Walk, NoWalk
<1>10. ASSUME NEW c \in CPUs, SpinAcquire(c) PROVE TypeOK'
  BY <1>10 DEF SpinAcquire, Acquire, Goto, ArgOK
<1>11. ASSUME NEW c \in CPUs, SpinFail(c) PROVE TypeOK'
  BY <1>11 DEF SpinFail, Goto
<1>12. ASSUME NEW c \in CPUs, WaitOver(c) PROVE TypeOK'
  BY <1>12 DEF WaitOver, Goto
<1>13. ASSUME NEW c \in CPUs, remove_lock_request(c) PROVE TypeOK'
  BY <1>13 DEF remove_lock_request, Goto
<1>14. ASSUME NEW c \in CPUs, UnlockEnd(c) PROVE TypeOK'
  <2>1. arg[c] \in ConLocks => con_suspend[c] - 1 \in Nat
    <3> SUFFICES ASSUME arg[c] \in ConLocks PROVE con_suspend[c] - 1 \in Nat
      OBVIOUS
    <3>1. arg[c] \in ConHeld(c)
      BY <1>14 DEF UnlockEnd, ArgOK, ConHeld
    <3>2. IsFiniteSet(ConHeld(c))
      BY FS_Subset DEF ConHeld
    <3>3. Cardinality(ConHeld(c)) # 0
      BY <3>1, <3>2, FS_EmptySet
    <3> QED
      BY <3>3 DEF ConSuspendCount, ConHeld
  <2> QED
    BY <1>14, <2>1 DEF UnlockEnd, Goto, ArgOK
<1>15. ASSUME NEW c \in CPUs, drop_my_locks(c) PROVE TypeOK'
  BY <1>5, <1>15 DEF drop_my_locks, DropStart, DropOne, DropDone
<1>16. CASE UNCHANGED vars
  BY <1>16 DEF vars
<1> QED
  BY <1>1, <1>2, <1>3, <1>4, <1>5, <1>6, <1>7, <1>8, <1>9, <1>10, <1>11,
     <1>12, <1>13, <1>14, <1>15, <1>16, <1>w
  DEF Next, ClientCall, CpuStep, lock_caller, lock_recursive_caller, unlock

\* Only Acquire and UnlockEnd write lock words, only UnlockBegin moves a CPU
\* to "release": the argument of a call and the lists survive the others.
LEMMA ArgStep == LockInv /\ [Next]_vars => ArgOK'
<1> SUFFICES ASSUME LockInv, [Next]_vars PROVE ArgOK'
  OBVIOUS
<1> USE LockAssumption DEF LockInv, TypeOK, Where, ArgOK
<1>1. CASE init_locks
  BY <1>1 DEF init_locks
<1>2. ASSUME NEW c \in CPUs, NEW l \in Locks, try_lock(c, l) PROVE ArgOK'
  BY <1>2 DEF try_lock, Acquire, ClientRuns
<1>3. ASSUME NEW c \in CPUs, NEW l \in Locks, LockBusy(c, l) PROVE ArgOK'
  BY <1>3 DEF LockBusy, Goto
<1>4. ASSUME NEW c \in CPUs, NEW l \in Locks, LockCheckFails(c, l) PROVE ArgOK'
  BY <1>4 DEF LockCheckFails, lock_error, Goto
<1>5. ASSUME NEW c \in CPUs, NEW l \in Locks, UnlockBody(c, l) PROVE ArgOK'
  <2>1. CASE UnlockBegin(c, l)
    BY <2>1 DEF UnlockBegin, UnlockCheckPasses, Goto
  <2>2. CASE lock_error(c) /\ UNCHANGED <<dl_lock, walk>>
    BY <2>2 DEF lock_error, Goto
  <2> QED
    BY <1>5, <2>1, <2>2 DEF UnlockBody
<1>6. ASSUME NEW c \in CPUs, add_lock_request(c) PROVE ArgOK'
  BY <1>6 DEF add_lock_request, Goto
<1>w. ASSUME NEW c \in CPUs, WalkTest(c) PROVE ArgOK'
  <2>1. walk[c] \in Walk
    OBVIOUS
  <2>2. CASE Verdict(c, FALSE)
    BY <1>w, <2>1, <2>2 DEF WalkTest, Verdict, Goto, Walk
  <2>3. CASE /\ walk[c].next \in Locks \ ConLocks /\ walk[c].i < cpu_max_pir
             /\ walk' = walk /\ Goto(c, "walkowner")
    BY <1>w, <2>3 DEF WalkTest, Goto
  <2> QED
    BY <1>w, <2>2, <2>3 DEF WalkTest
<1>7. ASSUME NEW c \in CPUs, WalkOwner(c) PROVE ArgOK'
  <2>1. walk[c] \in Walk /\ walk[c].next \in Locks /\ walk[c].i < cpu_max_pir
    BY <1>7 DEF WalkOwner
  <2>2. CASE \E dead \in BOOLEAN : Verdict(c, dead)
    BY <1>7, <2>1, <2>2 DEF WalkOwner, Verdict, Goto, Walk
  <2>3. CASE /\ lock_owner(walk[c].next) # NoCpu
             /\ walk' = [walk EXCEPT ![c].owner = lock_owner(walk[c].next)]
             /\ Goto(c, "walknext")
    <3>1. lock_owner(walk[c].next) \in CPUs
      BY <2>1, <2>3 DEF lock_owner
    <3> QED
      BY <1>7, <2>1, <2>3, <3>1 DEF WalkOwner, Goto, Walk
  <2> QED
    BY <1>7, <2>2, <2>3 DEF WalkOwner
<1>8. ASSUME NEW c \in CPUs, WalkNext(c) PROVE ArgOK'
  BY <1>8 DEF WalkNext, Goto, Walk
<1>9. ASSUME NEW c \in CPUs, RequestDone(c) PROVE ArgOK'
  BY <1>9 DEF RequestDone, lock_error, Goto
<1>10. ASSUME NEW c \in CPUs, SpinAcquire(c) PROVE ArgOK'
  BY <1>10 DEF SpinAcquire, Acquire, Goto
<1>11. ASSUME NEW c \in CPUs, SpinFail(c) PROVE ArgOK'
  BY <1>11 DEF SpinFail, Goto
<1>12. ASSUME NEW c \in CPUs, WaitOver(c) PROVE ArgOK'
  BY <1>12 DEF WaitOver, Goto
<1>13. ASSUME NEW c \in CPUs, remove_lock_request(c) PROVE ArgOK'
  BY <1>13 DEF remove_lock_request, Goto
<1>14. ASSUME NEW c \in CPUs, UnlockEnd(c) PROVE ArgOK'
  BY <1>14 DEF UnlockEnd, Goto
<1>15. ASSUME NEW c \in CPUs, drop_my_locks(c) PROVE ArgOK'
  BY <1>5, <1>15 DEF drop_my_locks, DropStart, DropOne, DropDone
<1>16. CASE UNCHANGED vars
  BY <1>16 DEF vars
<1> QED
  BY <1>1, <1>2, <1>3, <1>4, <1>5, <1>6, <1>7, <1>8, <1>9, <1>10, <1>11,
     <1>12, <1>13, <1>14, <1>15, <1>16, <1>w
  DEF Next, ClientCall, CpuStep, lock_caller, lock_recursive_caller, unlock

\* Taking a lock that is free adds it to the list of the CPU that takes it.
LEMMA AcquireHeld ==
  ASSUME LockInv, NEW c \in CPUs, NEW l \in Locks, Acquire(c, l),
         pc'[c] # "release", arg' = arg,
         \A d \in CPUs \ {c} : pc'[d] = pc[d],
         pc[c] # "release"
  PROVE  HeldExact'
<1> USE LockAssumption DEF LockInv, TypeOK, HeldExact, Acquire
<1>1. ASSUME NEW d \in CPUs, d # c
      PROVE /\ owned'[d] = locks_held'[d]
            /\ locks_held'[d] = {m \in Locks : lock_val'[m] = d
                                   /\ ~(pc'[d] = "release" /\ arg'[d] = m)}
  <2>1. locks_held'[d] = locks_held[d] /\ owned'[d] = owned[d]
    BY <1>1
  <2>2. ASSUME NEW m \in Locks PROVE lock_val'[m] = d <=> lock_val[m] = d
    BY <1>1
  <2> QED
    BY <1>1, <2>1, <2>2
<1>2. /\ owned'[c] = locks_held'[c]
      /\ locks_held'[c] = {m \in Locks : lock_val'[m] = c
                             /\ ~(pc'[c] = "release" /\ arg'[c] = m)}
  <2>1. locks_held[c] = {m \in Locks : lock_val[m] = c} /\ owned[c] = locks_held[c]
    OBVIOUS
  <2>2. locks_held'[c] = locks_held[c] \cup {l} /\ owned'[c] = owned[c] \cup {l}
    OBVIOUS
  <2>3. ASSUME NEW m \in Locks
        PROVE  lock_val'[m] = c <=> m = l \/ lock_val[m] = c
    OBVIOUS
  <2> QED
    BY <2>1, <2>2, <2>3
<1> QED
  <2> SUFFICES ASSUME NEW d \in CPUs
               PROVE /\ owned'[d] = locks_held'[d]
                     /\ locks_held'[d] = {m \in Locks : lock_val'[m] = d
                                   /\ ~(pc'[d] = "release" /\ arg'[d] = m)}
    BY DEF HeldExact
  <2>1. CASE d = c
    BY <1>2, <2>1
  <2>2. CASE d # c
    BY <1>1, <2>2, Zenon
  <2> QED
    BY <2>1, <2>2

\* Every step keeps the lists exact: only a lock in the window between the two
\* stores of unlock() is owned without being on a list.
LEMMA HeldStep == LockInv /\ [Next]_vars => HeldExact'
<1> SUFFICES ASSUME LockInv, [Next]_vars PROVE HeldExact'
  OBVIOUS
<1> USE LockAssumption DEF LockInv, TypeOK, Where, HeldExact
<1>1. CASE init_locks
  BY <1>1 DEF init_locks
<1>2. ASSUME NEW c \in CPUs, NEW l \in Locks, try_lock(c, l) PROVE HeldExact'
  BY <1>2, AcquireHeld DEF try_lock, ClientRuns
<1>3. ASSUME NEW c \in CPUs, NEW l \in Locks, LockBusy(c, l) PROVE HeldExact'
  BY <1>3 DEF LockBusy, ClientRuns, Goto
<1>4. ASSUME NEW c \in CPUs, NEW l \in Locks, LockCheckFails(c, l) PROVE HeldExact'
  BY <1>4 DEF LockCheckFails, lock_error, ClientRuns, Goto
<1>5. ASSUME NEW c \in CPUs, NEW l \in Locks, pc[c] = "run", UnlockBody(c, l)
      PROVE HeldExact'
  <2>1. CASE UnlockBegin(c, l)
    BY <1>5, <2>1 DEF UnlockBegin, UnlockCheckPasses, Goto
  <2>2. CASE lock_error(c) /\ UNCHANGED <<dl_lock, walk>>
    BY <1>5, <2>2 DEF lock_error, Goto
  <2> QED
    BY <1>5, <2>1, <2>2 DEF UnlockBody
<1>6. ASSUME NEW c \in CPUs, add_lock_request(c) PROVE HeldExact'
  BY <1>6 DEF add_lock_request, Goto
<1>w. ASSUME NEW c \in CPUs, WalkTest(c) PROVE HeldExact'
  BY <1>w DEF WalkTest, Verdict, Goto
<1>7. ASSUME NEW c \in CPUs, WalkOwner(c) PROVE HeldExact'
  BY <1>7 DEF WalkOwner, Verdict, Goto
<1>8. ASSUME NEW c \in CPUs, WalkNext(c) PROVE HeldExact'
  BY <1>8 DEF WalkNext, Goto
<1>9. ASSUME NEW c \in CPUs, RequestDone(c) PROVE HeldExact'
  BY <1>9 DEF RequestDone, lock_error, Goto
<1>10. ASSUME NEW c \in CPUs, SpinAcquire(c) PROVE HeldExact'
  BY <1>10, AcquireHeld DEF SpinAcquire, Goto, ArgOK
<1>11. ASSUME NEW c \in CPUs, SpinFail(c) PROVE HeldExact'
  BY <1>11 DEF SpinFail, Goto
<1>12. ASSUME NEW c \in CPUs, WaitOver(c) PROVE HeldExact'
  BY <1>12 DEF WaitOver, Goto
<1>13. ASSUME NEW c \in CPUs, remove_lock_request(c) PROVE HeldExact'
  BY <1>13 DEF remove_lock_request, Goto
<1>14. ASSUME NEW c \in CPUs, UnlockEnd(c) PROVE HeldExact'
  BY <1>14 DEF UnlockEnd, Goto, ArgOK
<1>15. ASSUME NEW c \in CPUs, drop_my_locks(c) PROVE HeldExact'
  BY <1>5, <1>15 DEF drop_my_locks, DropStart, DropOne, DropDone, ClientRuns
<1>16. CASE UNCHANGED vars
  BY <1>16 DEF vars
<1> QED
  BY <1>1, <1>2, <1>3, <1>4, <1>5, <1>6, <1>7, <1>8, <1>9, <1>10, <1>11,
     <1>12, <1>13, <1>14, <1>15, <1>16, <1>w
  DEF Next, ClientCall, CpuStep, lock_caller, lock_recursive_caller, unlock,
      ClientRuns

\* The two steps that change a set of console-path locks change the count of
\* the same CPU by one.
LEMMA AcquireCount ==
  ASSUME LockInv, NEW c \in CPUs, NEW l \in Locks, Acquire(c, l)
  PROVE  ConSuspendCount'
<1> USE LockAssumption DEF LockInv, TypeOK, ConSuspendCount
<1>1. ASSUME NEW d \in CPUs, d # c
      PROVE con_suspend'[d] = Cardinality(ConHeld(d)')
  <2>1. ConHeld(d)' = ConHeld(d)
    BY <1>1 DEF Acquire, ConHeld
  <2> QED
    BY <1>1, <2>1 DEF Acquire, ConHeld
<1>2. con_suspend'[c] = Cardinality(ConHeld(c)')
  <2>1. IsFiniteSet(ConHeld(c)) /\ l \notin ConHeld(c)
    BY FS_Subset DEF ConHeld, Acquire
  <2>2. CASE l \in ConLocks
    <3>1. ConHeld(c)' = ConHeld(c) \cup {l}
      BY <2>2 DEF Acquire, ConHeld
    <3>2. Cardinality(ConHeld(c) \cup {l}) = Cardinality(ConHeld(c)) + 1
      <4> DEFINE H == ConHeld(c)
      <4> HIDE DEF H
      <4>1. IsFiniteSet(H) /\ l \notin H
        BY <2>1 DEF H
      <4>2. Cardinality(H \cup {l}) = Cardinality(H) + 1
        BY <4>1, FS_AddElement
      <4> QED
        BY <4>2 DEF H
    <3>3. Cardinality(ConHeld(c)') = Cardinality(ConHeld(c)) + 1
      BY <3>1, <3>2
    <3> QED
      BY <2>2, <3>3 DEF Acquire, ConHeld
  <2>3. CASE l \notin ConLocks
    <3>1. ConHeld(c)' = ConHeld(c)
      BY <2>3 DEF Acquire, ConHeld
    <3> QED
      BY <2>3, <3>1 DEF Acquire, ConHeld
  <2> QED
    BY <2>2, <2>3
<1> QED
  BY <1>1, <1>2 DEF ConHeld

\* The second half of unlock() resumes the console of the CPU that releases.
LEMMA ReleaseCount ==
  ASSUME LockInv, NEW c \in CPUs, UnlockEnd(c)
  PROVE  ConSuspendCount'
<1> USE LockAssumption DEF LockInv, TypeOK, ConSuspendCount
<1>0. arg[c] \in Locks /\ lock_val[arg[c]] = c
  BY DEF ArgOK, UnlockEnd
<1>1. ASSUME NEW d \in CPUs, d # c
      PROVE con_suspend'[d] = Cardinality(ConHeld(d)')
  <2>1. ConHeld(d)' = ConHeld(d)
    BY <1>0, <1>1 DEF UnlockEnd, ConHeld
  <2> QED
    BY <1>1, <2>1 DEF UnlockEnd, ConHeld
<1>2. con_suspend'[c] = Cardinality(ConHeld(c)')
  <2>1. IsFiniteSet(ConHeld(c))
    BY FS_Subset DEF ConHeld
  <2>2. CASE arg[c] \in ConLocks
    <3>1. ConHeld(c)' = ConHeld(c) \ {arg[c]} /\ arg[c] \in ConHeld(c)
      BY <1>0, <2>2 DEF UnlockEnd, ConHeld
    <3>a. Cardinality(ConHeld(c) \ {arg[c]}) = Cardinality(ConHeld(c)) - 1
      <4> HIDE DEF LockInv, TypeOK, ConSuspendCount
      <4> QED
        BY <2>1, <3>1, FS_RemoveElement, Zenon
    <3>2. Cardinality(ConHeld(c)') = Cardinality(ConHeld(c)) - 1
      BY <3>1, <3>a, Zenon
    <3> QED
      BY <2>2, <3>2 DEF UnlockEnd, ConHeld
  <2>3. CASE arg[c] \notin ConLocks
    <3>1. ConHeld(c)' = ConHeld(c)
      BY <2>3 DEF UnlockEnd, ConHeld
    <3> QED
      BY <2>3, <3>1 DEF UnlockEnd, ConHeld
  <2> QED
    BY <2>2, <2>3
<1> QED
  BY <1>1, <1>2 DEF ConHeld

\* Every step keeps con_suspend equal to the number of console-path locks owned.
LEMMA CountStep == LockInv /\ [Next]_vars => ConSuspendCount'
<1> SUFFICES ASSUME LockInv, [Next]_vars PROVE ConSuspendCount'
  OBVIOUS
<1>1. CASE UNCHANGED <<lock_val, con_suspend>>
  BY <1>1 DEF LockInv, ConSuspendCount
<1>2. ASSUME NEW c \in CPUs, NEW l \in Locks, Acquire(c, l)
      PROVE ConSuspendCount'
  BY <1>2, AcquireCount
<1>3. ASSUME NEW c \in CPUs, UnlockEnd(c) PROVE ConSuspendCount'
  BY <1>3, ReleaseCount
<1>4. ASSUME NEW c \in CPUs, ClientCall(c) PROVE ConSuspendCount'
  <2>1. PICK l \in Locks : \/ try_lock(c, l) \/ lock_caller(c, l)
                           \/ lock_recursive_caller(c, l) \/ unlock(c, l)
    BY <1>4 DEF ClientCall
  <2>2. CASE try_lock(c, l)
    BY <1>2, <2>2 DEF try_lock
  <2>3. CASE LockBusy(c, l) \/ LockCheckFails(c, l)
    BY <1>1, <2>3 DEF LockBusy, LockCheckFails, lock_error
  <2>4. CASE unlock(c, l)
    BY <1>1, <2>4 DEF unlock, UnlockBody, UnlockBegin, lock_error
  <2> QED
    BY <2>1, <2>2, <2>3, <2>4 DEF lock_caller, lock_recursive_caller
<1>5. ASSUME NEW c \in CPUs, CpuStep(c) PROVE ConSuspendCount'
  <2>1. CASE SpinAcquire(c)
    BY <1>2, <2>1 DEF SpinAcquire, LockInv, ArgOK
  <2>2. CASE \/ add_lock_request(c) \/ WalkTest(c) \/ WalkOwner(c) \/ WalkNext(c)
             \/ RequestDone(c) \/ SpinFail(c) \/ WaitOver(c)
             \/ remove_lock_request(c)
    BY <1>1, <2>2 DEF add_lock_request, WalkTest, WalkOwner, WalkNext, RequestDone,
       SpinFail, WaitOver, remove_lock_request, lock_error
  <2> QED
    BY <1>3, <1>5, <2>1, <2>2 DEF CpuStep
<1>6. ASSUME NEW c \in CPUs, drop_my_locks(c) PROVE ConSuspendCount'
  BY <1>1, <1>6 DEF drop_my_locks, DropStart, DropOne, DropDone, UnlockBody,
     UnlockBegin, lock_error
<1>7. CASE init_locks \/ UNCHANGED vars
  BY <1>1, <1>7 DEF init_locks, vars
<1> QED
  BY <1>4, <1>5, <1>6, <1>7 DEF Next

\* The invariant holds in every state of every behaviour.
THEOREM LockInvariant == Spec => []LockInv
<1>1. LockInv /\ [Next]_vars => LockInv'
  BY TypeStep, ArgStep, HeldStep, CountStep DEF LockInv
<1> QED
  BY InitInv, <1>1, PTL DEF Spec

\* The variables keep their types.
THEOREM TypeCorrect == Spec => []TypeOK
BY LockInvariant, PTL DEF LockInv

\* No two CPUs own the same lock, whatever calls their clients make.
THEOREM LockMutualExclusion == Spec => []MutualExclusion
<1>1. LockInv => MutualExclusion
  BY DEF LockInv, HeldExact, MutualExclusion
<1> QED
  BY LockInvariant, <1>1, PTL

\* con_suspend is the number of console-path locks the CPU owns.
THEOREM LockConSuspend == Spec => []ConSuspendCount
BY LockInvariant, PTL DEF LockInv

\* The lists of unlock() and drop_my_locks() never hold a lock of another CPU,
\* and miss none but the one between the two stores of unlock().
THEOREM LockHeldExact == Spec => []HeldExact
BY LockInvariant, PTL DEF LockInv

\* unlock() by the owner passes all four tests of unlock_check().
THEOREM LockOwnerMayUnlock == Spec => []OwnerMayUnlock
<1>1. LockInv => OwnerMayUnlock
  <2> SUFFICES ASSUME LockInv, NEW c \in CPUs, NEW l \in owned[c]
               PROVE UnlockCheckPasses(c, l)
    BY DEF OwnerMayUnlock
  <2>1. lock_val[l] = c /\ locks_held[c] # {}
    BY DEF LockInv, HeldExact
  <2>2. ASSUME l \in ConLocks PROVE con_suspend[c] # 0
    <3>1. l \in ConHeld(c) /\ IsFiniteSet(ConHeld(c))
      BY <2>1, <2>2, FS_Subset, LockAssumption DEF ConHeld
    <3> QED
      BY <3>1, FS_EmptySet DEF LockInv, ConSuspendCount, ConHeld
  <2> QED
    BY <2>1, <2>2 DEF UnlockCheckPasses
<1> QED
  BY LockInvariant, <1>1, PTL

\* Each step of the walk of check_deadlock() uses up some of the bound.
THEOREM LockWalkProgress == Spec => WalkProgress
<1> DEFINE Walks(c) == /\ pc'[c] # pc[c]
                       /\ {pc[c], pc'[c]} \subseteq {"walk", "walkowner", "walknext"}
<1>1. ASSUME LockInv, [Next]_vars, NEW c \in CPUs, Walks(c)
      PROVE WalkLeft(c)' \in 0..(WalkLeft(c) - 1)
  <2> USE <1>1, LockAssumption DEF LockInv, TypeOK, ArgOK
  <2>1. walk[c] \in Walk
    OBVIOUS
  <2>2. ~UNCHANGED pc
    OBVIOUS
  <2>3. PICK d \in CPUs :
          (\E l \in Locks : LockBusy(d, l) \/ LockCheckFails(d, l) \/ UnlockBody(d, l))
          \/ CpuStep(d)
    BY <2>2 DEF Next, vars, init_locks, ClientCall, try_lock, lock_caller,
       lock_recursive_caller, unlock, drop_my_locks, DropStart, DropOne, DropDone
  <2>4. ASSUME NEW l \in Locks,
               LockBusy(d, l) \/ LockCheckFails(d, l) \/ UnlockBody(d, l)
        PROVE FALSE
    BY <2>4 DEF LockBusy, LockCheckFails, UnlockBody, UnlockBegin, lock_error, Goto
  <2>5. CASE add_lock_request(d) \/ RequestDone(d) \/ SpinAcquire(d) \/ SpinFail(d)
             \/ WaitOver(d) \/ remove_lock_request(d) \/ UnlockEnd(d)
    BY <2>5 DEF add_lock_request, RequestDone, SpinAcquire, SpinFail, WaitOver,
       remove_lock_request, UnlockEnd, lock_error, Goto
  <2>w. CASE WalkTest(d)
    <3>1. /\ pc[c] = "walk" /\ pc'[c] = "walkowner"
          /\ walk[c].i < cpu_max_pir
          /\ walk'[c].i = walk[c].i
      BY <2>1, <2>w DEF WalkTest, Verdict, Goto, Walk
    <3> QED
      BY <2>1, <3>1 DEF WalkLeft, Walk
  <2>6. CASE WalkOwner(d)
    <3>1. /\ pc[c] = "walkowner" /\ pc'[c] = "walknext"
          /\ walk[c].i < cpu_max_pir
          /\ walk'[c].i = walk[c].i
      BY <2>1, <2>6 DEF WalkOwner, Verdict, Goto, Walk
    <3> QED
      BY <2>1, <3>1 DEF WalkLeft, Walk
  <2>7. CASE WalkNext(d)
    <3>1. /\ pc[c] = "walknext" /\ pc'[c] = "walk"
          /\ walk[c].i < cpu_max_pir
          /\ walk'[c].i = walk[c].i + 1
      BY <2>1, <2>7 DEF WalkNext, Goto, Walk
    <3> QED
      BY <2>1, <3>1 DEF WalkLeft, Walk
  <2> QED
    BY <2>3, <2>4, <2>5, <2>6, <2>7, <2>w DEF CpuStep
<1>2. LockInv /\ [Next]_vars => [WalkAdvances]_vars
  BY <1>1 DEF WalkAdvances
<1> QED
  BY LockInvariant, <1>2, PTL DEF Spec, WalkProgress

\* The places of add_lock_request() in which a CPU holds dl_lock.
Walking == {"walk", "walkowner", "walknext", "undl"}

\* dl_lock belongs to the CPU inside of add_lock_request(), so that at most one
\* walks and nobody announces a request meanwhile; the owner it follows is
\* another CPU.
WalkerOK ==
  \A c \in CPUs : /\ dl_lock = c <=> pc[c] \in Walking
                  /\ pc[c] = "walknext" => walk[c].owner # c

\* A request is announced for the lock the CPU waits for, is withdrawn before it
\* goes on, and stays behind only when the CPU aborts; a CPU that is checked has
\* announced its request before it spins.
RequestOK ==
  \A c \in CPUs :
    /\ requested_lock[c] # NoLock =>
         /\ requested_lock[c] = arg[c]
         /\ pc[c] \in Walking \cup {"spin", "wait", "got", "abort"}
    /\ pc[c] \in Walking => c \in ActiveCPUs /\ requested_lock[c] = arg[c]
    /\ pc[c] = "request" => c \in ActiveCPUs
    /\ c \in ActiveCPUs /\ pc[c] \in {"spin", "wait"} => requested_lock[c] = arg[c]
    /\ pc[c] = "got" => lock_val[arg[c]] = c

\* The CPU has announced a request, was not found in a cycle and waits.
Waits(c) == requested_lock[c] # NoLock /\ pc[c] \in {"spin", "wait"}

\* The owner of the lock that the CPU is in lock() for.
Blocker(c) == lock_val[arg[c]]

\* All in T except for c wait for a lock of a CPU in T ...
Chain(c, T) == c \in T /\ \A s \in T \ {c} : Waits(s) /\ Blocker(s) \in T

\* ... and from all of them that leads to c.
Leads(c, T) == \A U \in SUBSET T : U # {} /\ c \notin U => \E u \in U : Blocker(u) \notin U

\* The CPU waits, directly or not, for nobody but CPUs that wait as well.
Caught(c) == \E S \in SUBSET CPUs : Chain(c, S) /\ Blocker(c) \in S

\* If the place that the walk of c has come to leads back to c now, then c is caught:
\* what the walk has read of the CPUs on the way is still so.
WalkSound(c) ==
  /\ \A T \in SUBSET CPUs :
       Chain(c, T) /\ Leads(c, T) =>
         /\ pc[c] \in {"walk", "walkowner"} =>
              (walk[c].next \in Locks /\ lock_val[walk[c].next] \in T => Caught(c))
         /\ pc[c] = "walknext" /\ walk[c].owner \in T => Caught(c)
  /\ pc[c] = "undl" /\ walk[c].dead => Caught(c)

\* A CPU that was stopped for a deadlock is one of a set of CPUs that wait for each
\* other, or were stopped too, and none of which will ever walk again.
StoppedOK ==
  \A d \in CPUs :
    pc[d] = "abort" /\ requested_lock[d] # NoLock =>
      \E S \in SUBSET CPUs :
        /\ d \in S
        /\ \A s \in S : /\ pc[s] \in {"spin", "wait", "abort"}
                        /\ requested_lock[s] # NoLock
                        /\ Blocker(s) \in S

\* The CPU is one of those that DeadlockFound is about.
Spins(c) == c \in ActiveCPUs /\ pc[c] \in {"spin", "wait"} /\ arg[c] \notin ConLocks

\* S is a deadlock that the walk can get around within its bound, and of which
\* nobody but c has still to spin.
Ring(c, S) ==
  /\ c \in S /\ pc[c] \in Walking /\ arg[c] \notin ConLocks
  /\ Cardinality(S) <= cpu_max_pir
  /\ \A s \in S \ {c} : Spins(s)
  /\ \A s \in S : Blocker(s) \in S

\* The walk of the CPU that closes a deadlock stays within it, and has met as many CPUs
\* as it has counted, so that it gets around before it has to give up.
WalkComplete(c, S) ==
  /\ pc[c] \in {"walk", "walkowner"} =>
       /\ walk[c].next \in Locks \ ConLocks /\ lock_val[walk[c].next] \in S
       /\ \E V \in SUBSET (S \ {c}) :
            /\ Cardinality(V) = walk[c].i
            /\ \A v \in V : Blocker(v) \in V \/ arg[v] = walk[c].next
  /\ pc[c] = "walknext" =>
       /\ walk[c].owner \in S
       /\ \E V \in SUBSET (S \ {c, walk[c].owner}) :
            /\ Cardinality(V) = walk[c].i
            /\ \A v \in V : Blocker(v) \in V \cup {walk[c].owner}
  /\ pc[c] = "undl" => walk[c].dead

\* No deadlock of at most cpu_max_pir CPUs goes unnoticed.
DeadlockFoundWithin ==
  \A S \in SUBSET CPUs :
    S # {} /\ Cardinality(S) <= cpu_max_pir => \E s \in S : ~Spins(s) \/ Blocker(s) \notin S

\* What makes the verdict of check_deadlock() exact, unless some walk took the owner of a
\* lock released under it for PIR 0.
WalkInv ==
  /\ WalkerOK /\ RequestOK /\ DeadlockFoundWithin
  /\ ~torn => StoppedOK /\ \A c \in CPUs : WalkSound(c)
  /\ \A c \in CPUs : \A S \in SUBSET CPUs : Ring(c, S) => WalkComplete(c, S)

\* The places from which a CPU neither takes nor releases a lock but the one it waits for.
Stays == Walking \cup {"spin", "wait", "abort"}

\* What the steps other than those of add_lock_request() do to a CPU ...
CalmCpu(s) ==
  /\ pc[s] \in Walking \/ pc'[s] \in Walking => pc'[s] = pc[s] /\ arg'[s] = arg[s]
  /\ Waits(s)' => Waits(s) /\ arg'[s] = arg[s]
  /\ Waits(s) /\ Blocker(s) # NoCpu => Waits(s)' /\ arg'[s] = arg[s]
  /\ pc[s] = "abort" => /\ pc'[s] = "abort" /\ arg'[s] = arg[s]
                        /\ requested_lock'[s] = requested_lock[s]
  /\ pc'[s] = "abort" /\ requested_lock'[s] # NoLock => pc[s] = "abort"
  /\ Spins(s)' => Spins(s) /\ arg'[s] = arg[s]

\* ... and to a lock: no CPU that stays where it is loses it, or has just got it.
CalmLock(l) ==
  /\ lock_val'[l] \in CPUs /\ pc'[lock_val'[l]] \in Stays => lock_val[l] = lock_val'[l]
  /\ lock_val[l] \in CPUs /\ pc[lock_val[l]] \in Stays => lock_val'[l] = lock_val[l]

Calm ==
  /\ UNCHANGED <<dl_lock, walk>>
  /\ \A s \in CPUs : CalmCpu(s)
  /\ \A l \in Locks : CalmLock(l)

\* The steps of add_lock_request().
RequestStep(c) ==
  add_lock_request(c) \/ WalkTest(c) \/ WalkOwner(c) \/ WalkNext(c) \/ RequestDone(c)

\* A step that writes no lock word is calm if it is for the CPU that takes it.
LEMMA CalmOne ==
  ASSUME NEW c \in CPUs, UNCHANGED <<dl_lock, walk, lock_val>>, CalmCpu(c),
         \A s \in CPUs \ {c} : pc'[s] = pc[s] /\ arg'[s] = arg[s]
                               /\ requested_lock'[s] = requested_lock[s]
  PROVE  Calm
BY DEF Calm, CalmCpu, CalmLock, Waits, Blocker, Spins

\* Every step is one of add_lock_request() or calm.
LEMMA Steps ==
  ASSUME LockInv, RequestOK, [Next]_vars
  PROVE  Calm \/ \E c \in CPUs : RequestStep(c)
<1> USE LockAssumption DEF LockInv, TypeOK, Where, RequestOK, Walking
<1>1. CASE init_locks \/ UNCHANGED vars
  BY <1>1 DEF init_locks, vars, Calm, CalmCpu, CalmLock, Waits, Blocker, Spins
<1>2. ASSUME NEW c \in CPUs, NEW l \in Locks, try_lock(c, l) PROVE Calm
  BY <1>2 DEF try_lock, Acquire, ClientRuns, Calm, CalmCpu, CalmLock, Waits, Blocker,
     Spins, Stays
<1>3. ASSUME NEW c \in CPUs, NEW l \in Locks, LockBusy(c, l) PROVE Calm
  <2>1. CalmCpu(c)
    BY <1>3 DEF LockBusy, ClientRuns, Goto, CalmCpu, Waits, Spins
  <2> QED
    BY <1>3, <2>1, CalmOne DEF LockBusy, Goto
<1>4. ASSUME NEW c \in CPUs, pc[c] = "run", lock_error(c), UNCHANGED <<dl_lock, walk>>
      PROVE Calm
  <2>1. CalmCpu(c)
    BY <1>4 DEF lock_error, Goto, CalmCpu, Waits, Spins
  <2> QED
    BY <1>4, <2>1, CalmOne DEF lock_error, Goto
<1>5. ASSUME NEW c \in CPUs, NEW l \in Locks, pc[c] = "run", UnlockBody(c, l) PROVE Calm
  <2>1. CASE UnlockBegin(c, l)
    <3>1. CalmCpu(c)
      BY <1>5, <2>1 DEF UnlockBegin, Goto, CalmCpu, Waits, Spins
    <3> QED
      BY <2>1, <3>1, CalmOne DEF UnlockBegin, Goto
  <2> QED
    BY <1>4, <1>5, <2>1 DEF UnlockBody
<1>6. ASSUME NEW c \in CPUs, SpinAcquire(c) PROVE Calm
  <2>1. arg[c] \in Locks
    BY <1>6 DEF SpinAcquire, ArgOK
  <2>2. \A s \in CPUs : CalmCpu(s)
    BY <1>6, <2>1 DEF SpinAcquire, Acquire, Goto, CalmCpu, Waits, Blocker, Spins
  <2>3. \A l \in Locks : CalmLock(l)
    BY <1>6, <2>1 DEF SpinAcquire, Acquire, Goto, CalmLock, Stays
  <2> QED
    BY <1>6, <2>2, <2>3 DEF SpinAcquire, Calm
<1>7. ASSUME NEW c \in CPUs, SpinFail(c) PROVE Calm
  <2>1. CalmCpu(c)
    BY <1>7 DEF SpinFail, Goto, CalmCpu, Waits, Spins
  <2> QED
    BY <1>7, <2>1, CalmOne DEF SpinFail, Goto
<1>8. ASSUME NEW c \in CPUs, WaitOver(c) PROVE Calm
  <2>1. CalmCpu(c)
    BY <1>8 DEF WaitOver, Goto, CalmCpu, Waits, Spins, Blocker
  <2> QED
    BY <1>8, <2>1, CalmOne DEF WaitOver, Goto
<1>9. ASSUME NEW c \in CPUs, remove_lock_request(c) PROVE Calm
  <2>1. CalmCpu(c)
    BY <1>9 DEF remove_lock_request, Goto, CalmCpu, Waits, Spins
  <2> QED
    BY <1>9, <2>1, CalmOne DEF remove_lock_request, Goto
<1>10. ASSUME NEW c \in CPUs, UnlockEnd(c) PROVE Calm
  <2>1. arg[c] \in Locks /\ lock_val[arg[c]] = c
    BY <1>10 DEF UnlockEnd, ArgOK
  <2>2. \A s \in CPUs : CalmCpu(s)
    BY <1>10, <2>1 DEF UnlockEnd, Goto, CalmCpu, Waits, Spins
  <2>3. \A l \in Locks : CalmLock(l)
    BY <1>10, <2>1 DEF UnlockEnd, Goto, CalmLock, Stays
  <2> QED
    BY <1>10, <2>2, <2>3 DEF UnlockEnd, Calm
<1>11. ASSUME NEW c \in CPUs, drop_my_locks(c) PROVE Calm
  <2>1. CASE DropStart(c) \/ DropDone(c)
    BY <2>1 DEF DropStart, DropDone, Calm, CalmCpu, CalmLock, Waits, Blocker, Spins
  <2> QED
    BY <1>5, <1>11, <2>1 DEF drop_my_locks, DropOne
<1>12. ASSUME NEW c \in CPUs, ClientCall(c) PROVE Calm
  BY <1>2, <1>3, <1>4, <1>5, <1>12 DEF ClientCall, lock_caller, lock_recursive_caller,
     LockCheckFails, unlock, ClientRuns
<1> QED
  BY <1>1, <1>6, <1>7, <1>8, <1>9, <1>10, <1>11, <1>12 DEF Next, CpuStep, RequestStep

\* Every step keeps dl_lock with the CPU that walks.
LEMMA WalkerStep == LockInv /\ RequestOK /\ WalkerOK /\ [Next]_vars => WalkerOK'
<1> SUFFICES ASSUME LockInv, RequestOK, WalkerOK, [Next]_vars PROVE WalkerOK'
  OBVIOUS
<1> USE LockAssumption DEF WalkerOK, Walking
<1>1. CASE Calm
  BY <1>1 DEF Calm, CalmCpu
<1>2. ASSUME NEW c \in CPUs, add_lock_request(c) PROVE WalkerOK'
  BY <1>2 DEF add_lock_request, Goto, LockInv, TypeOK
<1>w. ASSUME NEW c \in CPUs, WalkTest(c) PROVE WalkerOK'
  BY <1>w DEF WalkTest, Verdict, Goto, LockInv, TypeOK, Walk
<1>3. ASSUME NEW c \in CPUs, WalkOwner(c) PROVE WalkerOK'
  BY <1>3 DEF WalkOwner, Verdict, Goto, LockInv, TypeOK, Walk
<1>4. ASSUME NEW c \in CPUs, WalkNext(c) PROVE WalkerOK'
  BY <1>4 DEF WalkNext, Goto, LockInv, TypeOK
<1>5. ASSUME NEW c \in CPUs, RequestDone(c) PROVE WalkerOK'
  BY <1>5 DEF RequestDone, lock_error, Goto, LockInv, TypeOK
<1> QED
  BY Steps, <1>1, <1>2, <1>3, <1>4, <1>5, <1>w DEF RequestStep

\* Every step keeps the requests in agreement with what the CPUs wait for.
LEMMA RequestsStep == LockInv /\ RequestOK /\ [Next]_vars => RequestOK'
<1> SUFFICES ASSUME LockInv, RequestOK, [Next]_vars PROVE RequestOK'
  OBVIOUS
<1> USE LockAssumption DEF LockInv, TypeOK, Where, RequestOK, Walking
<1>1. CASE init_locks \/ UNCHANGED vars
  BY <1>1 DEF init_locks, vars
<1>2. ASSUME NEW c \in CPUs, NEW l \in Locks, try_lock(c, l) PROVE RequestOK'
  BY <1>2 DEF try_lock, Acquire, ClientRuns, ArgOK
<1>3. ASSUME NEW c \in CPUs, NEW l \in Locks, LockBusy(c, l) PROVE RequestOK'
  BY <1>3 DEF LockBusy, ClientRuns, Goto
<1>4. ASSUME NEW c \in CPUs, pc[c] = "run", lock_error(c), UNCHANGED <<dl_lock, walk>>
      PROVE RequestOK'
  BY <1>4 DEF lock_error, Goto
<1>5. ASSUME NEW c \in CPUs, NEW l \in Locks, pc[c] = "run", UnlockBody(c, l)
      PROVE RequestOK'
  <2>1. CASE UnlockBegin(c, l)
    BY <1>5, <2>1 DEF UnlockBegin, Goto
  <2> QED
    BY <1>4, <1>5, <2>1 DEF UnlockBody
<1>6. ASSUME NEW c \in CPUs, add_lock_request(c) PROVE RequestOK'
  BY <1>6 DEF add_lock_request, Goto
<1>w. ASSUME NEW c \in CPUs, WalkTest(c) PROVE RequestOK'
  BY <1>w DEF WalkTest, Verdict, Goto
<1>7. ASSUME NEW c \in CPUs, WalkOwner(c) PROVE RequestOK'
  BY <1>7 DEF WalkOwner, Verdict, Goto
<1>8. ASSUME NEW c \in CPUs, WalkNext(c) PROVE RequestOK'
  BY <1>8 DEF WalkNext, Goto
<1>9. ASSUME NEW c \in CPUs, RequestDone(c) PROVE RequestOK'
  BY <1>9 DEF RequestDone, lock_error, Goto
<1>10. ASSUME NEW c \in CPUs, SpinAcquire(c) PROVE RequestOK'
  BY <1>10 DEF SpinAcquire, Acquire, Goto, ArgOK
<1>11. ASSUME NEW c \in CPUs, SpinFail(c) PROVE RequestOK'
  BY <1>11 DEF SpinFail, Goto
<1>12. ASSUME NEW c \in CPUs, WaitOver(c) PROVE RequestOK'
  BY <1>12 DEF WaitOver, Goto
<1>13. ASSUME NEW c \in CPUs, remove_lock_request(c) PROVE RequestOK'
  BY <1>13 DEF remove_lock_request, Goto
<1>14. ASSUME NEW c \in CPUs, UnlockEnd(c) PROVE RequestOK'
  BY <1>14 DEF UnlockEnd, Goto, ArgOK
<1>15. ASSUME NEW c \in CPUs, drop_my_locks(c) PROVE RequestOK'
  BY <1>5, <1>15 DEF drop_my_locks, DropStart, DropOne, DropDone
<1>16. ASSUME NEW c \in CPUs, ClientCall(c) PROVE RequestOK'
  BY <1>2, <1>3, <1>4, <1>5, <1>16 DEF ClientCall, lock_caller, lock_recursive_caller,
     LockCheckFails, unlock, ClientRuns
<1> QED
  BY <1>1, <1>6, <1>7, <1>8, <1>9, <1>10, <1>11, <1>12, <1>13, <1>14, <1>15, <1>16,
     <1>w
  DEF Next, CpuStep

\* The lock that a CPU waits for is one.
LEMMA WaitsFor ==
  ASSUME LockInv, NEW s \in CPUs, pc[s] \in Walking \cup {"spin", "wait"}
  PROVE  arg[s] \in Locks
BY DEF LockInv, ArgOK, Walking

\* What waits after a calm step, for CPUs that wait as well, did so before.
LEMMA ChainBack ==
  ASSUME LockInv, LockInv', Calm, NEW c \in CPUs, pc[c] \in Walking,
         NEW T \in SUBSET CPUs, Chain(c, T)'
  PROVE  /\ Chain(c, T)
         /\ \A s \in T \ {c} : Blocker(s)' = Blocker(s)
<1>1. pc'[c] \in Walking
  BY DEF Calm, CalmCpu
<1>2. \A d \in T : d \in CPUs /\ pc'[d] \in Stays
  BY <1>1 DEF Chain, Waits, Stays
<1>3. ASSUME NEW s \in T \ {c}
      PROVE Waits(s) /\ Blocker(s)' = Blocker(s) /\ Blocker(s)' \in T
  <2>1. s \in CPUs /\ Waits(s)' /\ lock_val'[arg'[s]] \in T
    BY DEF Chain, Blocker
  <2>2. Waits(s) /\ arg'[s] = arg[s]
    BY <2>1 DEF Calm, CalmCpu
  <2>3. arg[s] \in Locks
    BY <2>1, <2>2, WaitsFor DEF Waits
  <2>4. lock_val[arg[s]] = lock_val'[arg[s]]
    BY <1>2, <2>1, <2>2, <2>3 DEF Calm, CalmLock
  <2> QED
    BY <2>1, <2>2, <2>4 DEF Blocker
<1> QED
  BY <1>3 DEF Chain

\* A calm step sets nobody free who is caught.
LEMMA CaughtForward ==
  ASSUME LockInv, Calm, NEW c \in CPUs, pc[c] \in Walking, Caught(c)
  PROVE  Caught(c)'
<1>1. PICK S \in SUBSET CPUs : Chain(c, S) /\ Blocker(c) \in S
  BY DEF Caught
<1>2. \A d \in S : d \in CPUs /\ pc[d] \in Stays
  BY <1>1 DEF Chain, Waits, Stays
<1>3. ASSUME NEW s \in S
      PROVE Blocker(s)' = Blocker(s) /\ Blocker(s) \in S /\ (s # c => Waits(s)')
  <2>1. Blocker(s) \in S /\ s \in CPUs /\ (s # c => Waits(s))
    BY <1>1 DEF Chain
  <2>2. arg[s] \in Locks
    BY <2>1, WaitsFor DEF Waits
  <2>3. arg'[s] = arg[s] /\ (s # c => Waits(s)')
    BY <2>1, LockAssumption DEF Calm, CalmCpu
  <2>4. lock_val'[arg[s]] = lock_val[arg[s]]
    BY <1>2, <2>1, <2>2 DEF Calm, CalmLock, Blocker
  <2> QED
    BY <2>1, <2>3, <2>4 DEF Blocker
<1>4. Chain(c, S)' /\ Blocker(c)' \in S
  BY <1>1, <1>3 DEF Chain
<1> QED
  BY <1>4 DEF Caught

\* A calm step does not make the walk of another CPU unsound: nobody comes to own a
\* lock and waits already, and nobody announces a request.
LEMMA CalmSound ==
  ASSUME LockInv, LockInv', Calm, NEW c \in CPUs, WalkSound(c)
  PROVE  WalkSound(c)'
<1>1. CASE pc[c] \notin Walking
  <2>1. pc'[c] \notin Walking
    BY <1>1 DEF Calm, CalmCpu
  <2> QED
    BY <2>1 DEF WalkSound, Walking
<1>2. CASE pc[c] \in Walking
  <2>1. pc'[c] = pc[c] /\ walk' = walk /\ arg'[c] = arg[c]
    BY <1>2 DEF Calm, CalmCpu
  <2>2. Caught(c) => Caught(c)'
    BY <1>2, CaughtForward
  <2>3. ASSUME NEW T \in SUBSET CPUs, Chain(c, T)', Leads(c, T)'
        PROVE /\ pc'[c] \in {"walk", "walkowner"} =>
                   (walk'[c].next \in Locks /\ lock_val'[walk'[c].next] \in T => Caught(c)')
              /\ pc'[c] = "walknext" /\ walk'[c].owner \in T => Caught(c)'
    <3>1. Chain(c, T) /\ \A s \in T \ {c} : Blocker(s)' = Blocker(s)
      BY <1>2, <2>3, ChainBack
    <3>2. Leads(c, T)
      BY <2>3, <3>1 DEF Leads
    <3>3. \A d \in T : d \in CPUs /\ pc'[d] \in Stays
      BY <1>2, <2>1, <2>3 DEF Chain, Waits, Stays
    <3>4. ASSUME walk[c].next \in Locks, lock_val'[walk[c].next] \in T
          PROVE lock_val[walk[c].next] \in T
      BY <3>3, <3>4 DEF Calm, CalmLock
    <3> QED
      BY <2>1, <2>2, <3>1, <3>2, <3>4 DEF WalkSound
  <2>4. pc'[c] = "undl" /\ walk'[c].dead => Caught(c)'
    BY <2>1, <2>2 DEF WalkSound
  <2> QED
    BY <2>3, <2>4 DEF WalkSound
<1> QED
  BY <1>1, <1>2

\* add_lock_request() begins the walk at the lock that the CPU waits for.
LEMMA RequestSound ==
  ASSUME LockInv, NEW c \in CPUs, add_lock_request(c)
  PROVE  WalkSound(c)'
<1>1. walk'[c].next = arg'[c] /\ pc'[c] = "walk"
  BY DEF add_lock_request, Goto, NoWalk, LockInv, TypeOK
<1>2. ASSUME NEW T \in SUBSET CPUs, Chain(c, T)', lock_val'[walk'[c].next] \in T
      PROVE Caught(c)'
  BY <1>1, <1>2 DEF Caught, Blocker
<1> QED
  BY <1>1, <1>2 DEF WalkSound

\* What the steps of a walk leave alone.
LEMMA WalkFrame ==
  ASSUME LockInv, NEW c \in CPUs, WalkTest(c) \/ WalkOwner(c) \/ WalkNext(c)
  PROVE  /\ \A s \in CPUs : Blocker(s)' = Blocker(s) /\ arg'[s] = arg[s]
         /\ \A s \in CPUs \ {c} : /\ Waits(s)' = Waits(s) /\ pc'[s] = pc[s]
                                  /\ Spins(s)' = Spins(s) /\ walk'[s] = walk[s]
         /\ UNCHANGED <<lock_val, requested_lock, arg>>
<1>1. UNCHANGED <<lock_val, requested_lock, arg>>
  BY DEF WalkTest, WalkOwner, WalkNext
<1>2. \A s \in CPUs \ {c} : pc'[s] = pc[s] /\ walk'[s] = walk[s]
  BY DEF WalkTest, WalkOwner, WalkNext, Verdict, Goto, LockInv, TypeOK
<1> QED
  BY <1>1, <1>2 DEF Blocker, Waits, Spins

\* During the walk the sets of CPUs that wait, and c being caught, do not change.
LEMMA WalkKeeps ==
  ASSUME LockInv, NEW c \in CPUs, WalkTest(c) \/ WalkOwner(c) \/ WalkNext(c)
  PROVE  /\ \A T \in SUBSET CPUs : Chain(c, T)' = Chain(c, T) /\ Leads(c, T)' = Leads(c, T)
         /\ Caught(c)' = Caught(c)
<1>1. \A s \in CPUs : Blocker(s)' = Blocker(s)
  BY WalkFrame
<1>2. \A s \in CPUs \ {c} : Waits(s)' = Waits(s)
  BY WalkFrame
<1>3. ASSUME NEW T \in SUBSET CPUs
      PROVE (Chain(c, T)' <=> Chain(c, T)) /\ (Leads(c, T)' <=> Leads(c, T))
  BY <1>1, <1>2 DEF Chain, Leads
<1>4. Caught(c)' <=> Caught(c)
  BY <1>1, <1>3 DEF Caught
<1> QED
  BY <1>3, <1>4 DEF Chain, Leads, Caught

\* The test of the locked bit: the walk is where it was, or gives up.
LEMMA TestSound ==
  ASSUME LockInv, NEW c \in CPUs, WalkTest(c), WalkSound(c)
  PROVE  WalkSound(c)'
<1>1. \A T \in SUBSET CPUs : Chain(c, T)' = Chain(c, T) /\ Leads(c, T)' = Leads(c, T)
  BY WalkKeeps
<1>2. Caught(c)' = Caught(c) /\ lock_val' = lock_val
  BY WalkKeeps, WalkFrame
<1>3. pc[c] = "walk" /\ walk[c] \in Walk
  BY DEF WalkTest, LockInv, TypeOK
<1>4. CASE Verdict(c, FALSE)
  <2>1. pc'[c] = "undl" /\ ~walk'[c].dead
    BY <1>3, <1>4 DEF Verdict, Goto, LockInv, TypeOK, Walk
  <2> QED
    BY <2>1 DEF WalkSound
<1>5. CASE walk' = walk /\ Goto(c, "walkowner")
  <2>1. pc'[c] = "walkowner"
    BY <1>5 DEF Goto, LockInv, TypeOK
  <2>2. ASSUME NEW T \in SUBSET CPUs, Chain(c, T)', Leads(c, T)',
               walk'[c].next \in Locks, lock_val'[walk'[c].next] \in T
        PROVE Caught(c)'
    BY <1>1, <1>2, <1>3, <1>5, <2>2 DEF WalkSound
  <2> QED
    BY <2>1, <2>2 DEF WalkSound
<1> QED
  BY <1>4, <1>5 DEF WalkTest

\* Reading an owner: it is c itself, and c is caught; or the walk goes on from a CPU
\* that leads back to c if the lock did.
LEMMA OwnerSound ==
  ASSUME LockInv, NEW c \in CPUs, WalkOwner(c), ~torn', WalkSound(c)
  PROVE  WalkSound(c)'
<1>1. \A T \in SUBSET CPUs : Chain(c, T)' = Chain(c, T) /\ Leads(c, T)' = Leads(c, T)
  BY WalkKeeps
<1>2. Caught(c)' = Caught(c)
  BY WalkKeeps
<1>3. pc[c] = "walkowner" /\ walk[c] \in Walk /\ walk[c].next \in Locks
  BY DEF WalkOwner, LockInv, TypeOK, ArgOK
<1>o. lock_owner(walk[c].next) = lock_val[walk[c].next]
  BY DEF WalkOwner, lock_owner
<1>4. CASE Verdict(c, FALSE)
  <2>1. pc'[c] = "undl" /\ ~walk'[c].dead
    BY <1>3, <1>4 DEF Verdict, Goto, LockInv, TypeOK, Walk
  <2> QED
    BY <2>1 DEF WalkSound
<1>5. CASE walk[c].next \in Locks /\ lock_val[walk[c].next] = c /\ Verdict(c, TRUE)
  <2>1. pc'[c] = "undl"
    BY <1>5 DEF Verdict, Goto, LockInv, TypeOK
  <2>2. Chain(c, {c}) /\ Leads(c, {c})
    BY DEF Chain, Leads
  <2>3. Caught(c)
    BY <1>3, <1>5, <2>2 DEF WalkSound
  <2> QED
    BY <1>2, <2>1, <2>3 DEF WalkSound
<1>6. CASE /\ walk[c].next \in Locks
           /\ walk' = [walk EXCEPT ![c].owner = lock_val[walk[c].next]]
           /\ Goto(c, "walknext")
  <2>1. pc'[c] = "walknext" /\ walk'[c].owner = lock_val[walk[c].next]
    BY <1>3, <1>6 DEF Goto, LockInv, TypeOK, Walk
  <2>2. ASSUME NEW T \in SUBSET CPUs, Chain(c, T)', Leads(c, T)', walk'[c].owner \in T
        PROVE Caught(c)'
    BY <1>1, <1>2, <1>3, <1>6, <2>1, <2>2 DEF WalkSound
  <2> QED
    BY <2>1, <2>2 DEF WalkSound
<1> QED
  BY <1>3, <1>4, <1>5, <1>6, <1>o DEF WalkOwner

\* Following an owner to the lock it has requested.  While c holds dl_lock nobody
\* announces anything, so that the owner has waited for that lock since before it was
\* found to own the lock before, unless it has got it, or was stopped.
LEMMA NextSound ==
  ASSUME LockInv, WalkerOK, RequestOK, StoppedOK,
         NEW c \in CPUs, WalkNext(c), WalkSound(c)
  PROVE  WalkSound(c)'
<1> DEFINE d == walk[c].owner
<1>1. \A T \in SUBSET CPUs : Chain(c, T)' = Chain(c, T) /\ Leads(c, T)' = Leads(c, T)
  BY WalkKeeps
<1>2. Caught(c)' = Caught(c)
  BY WalkKeeps
<1>3. pc[c] = "walknext" /\ walk[c] \in Walk /\ d \in CPUs \ {c}
  BY DEF WalkNext, LockInv, TypeOK, ArgOK, WalkerOK
<1>4. pc'[c] = "walk" /\ walk'[c].next = requested_lock[d]
  BY <1>3 DEF WalkNext, Goto, LockInv, TypeOK, Walk
<1>5. lock_val' = lock_val
  BY DEF WalkNext
<1> HIDE DEF d
<1>6. ASSUME NEW T \in SUBSET CPUs, Chain(c, T), Leads(c, T),
             requested_lock[d] \in Locks, lock_val[requested_lock[d]] \in T
      PROVE Caught(c)
  <2>1. requested_lock[d] = arg[d] /\ Blocker(d) \in T
    BY <1>3, <1>6, LockAssumption DEF RequestOK, Blocker
  <2>2. CASE d \in T
    BY <1>3, <1>6, <2>2 DEF WalkSound, d
  <2>3. CASE d \notin T
    <3>1. pc[d] \in {"spin", "wait", "got", "abort"}
      BY <1>3, <1>6, LockAssumption DEF RequestOK, WalkerOK, Walking
    <3>2. pc[d] # "got"
      BY <1>3, <2>1, <2>3 DEF RequestOK, Blocker
    <3>3. pc[d] # "abort"
      <4> SUFFICES ASSUME pc[d] = "abort" PROVE FALSE
        OBVIOUS
      <4>1. PICK S \in SUBSET CPUs :
              d \in S /\ \A s \in S : pc[s] \in {"spin", "wait", "abort"} /\ Blocker(s) \in S
        BY <1>3, <1>6, LockAssumption DEF StoppedOK
      <4>2. c \notin S
        BY <1>3, <4>1
      <4>3. S \cap T # {}
        BY <2>1, <4>1
      <4>4. PICK u \in S \cap T : Blocker(u) \notin S \cap T
        BY <1>6, <4>2, <4>3 DEF Leads
      <4> QED
        BY <1>6, <4>1, <4>2, <4>4 DEF Chain
    <3>4. Waits(d)
      BY <1>6, <3>1, <3>2, <3>3, LockAssumption DEF Waits
    <3> DEFINE X == T \cup {d}
    <3>5. Chain(c, X)
      BY <1>3, <1>6, <2>1, <3>4 DEF Chain
    <3>6. Leads(c, X)
      <4> SUFFICES ASSUME NEW U \in SUBSET X, U # {}, c \notin U
                   PROVE \E u \in U : Blocker(u) \notin U
        BY DEF Leads
      <4>1. CASE U \ {d} = {}
        BY <2>1, <2>3, <4>1
      <4>2. CASE U \ {d} # {}
        <5>1. PICK u \in U \ {d} : Blocker(u) \notin U \ {d}
          BY <1>6, <4>2 DEF Leads
        <5>2. u \in T \ {c}
          BY <5>1
        <5>3. Blocker(u) \in T
          BY <1>6, <5>2 DEF Chain
        <5>4. Blocker(u) # d
          BY <2>3, <5>3
        <5> QED
          BY <5>1, <5>4
      <4> QED
        BY <4>1, <4>2
    <3>7. X \in SUBSET CPUs /\ d \in X
      BY <1>3
    <3> HIDE DEF X
    <3> QED
      BY <1>3, <3>5, <3>6, <3>7 DEF WalkSound, d
  <2> QED
    BY <2>2, <2>3
<1> QED
  BY <1>1, <1>2, <1>4, <1>5, <1>6 DEF WalkSound

\* The steps of add_lock_request() change neither the owner of a lock nor what other
\* CPUs do.
LEMMA RequestFrame ==
  ASSUME LockInv, NEW c \in CPUs, RequestStep(c)
  PROVE  /\ \A s \in CPUs : Blocker(s)' = Blocker(s) /\ arg'[s] = arg[s]
         /\ \A s \in CPUs \ {c} : /\ pc'[s] = pc[s]
                                  /\ requested_lock'[s] = requested_lock[s]
                                  /\ walk'[s] = walk[s]
                                  /\ Spins(s)' = Spins(s)
<1>1. UNCHANGED <<lock_val, arg>>
  BY DEF RequestStep, add_lock_request, WalkTest, WalkOwner, WalkNext, RequestDone, lock_error
<1>2. \A s \in CPUs \ {c} : /\ pc'[s] = pc[s] /\ walk'[s] = walk[s]
                            /\ requested_lock'[s] = requested_lock[s]
  BY DEF RequestStep, add_lock_request, WalkTest, WalkOwner, WalkNext, RequestDone, lock_error,
     Verdict, Goto, LockInv, TypeOK
<1> QED
  BY <1>1, <1>2 DEF Blocker, Spins

\* Who is stopped for a deadlock leaves the others of it where they are, for good.
LEMMA StoppedStep == LockInv /\ WalkInv /\ ~torn /\ [Next]_vars => StoppedOK'
<1> SUFFICES ASSUME LockInv, WalkInv, ~torn, [Next]_vars,
                    NEW d \in CPUs, pc'[d] = "abort", requested_lock'[d] # NoLock
             PROVE \E S \in SUBSET CPUs :
                     /\ d \in S
                     /\ \A s \in S : /\ pc'[s] \in {"spin", "wait", "abort"}
                                     /\ requested_lock'[s] # NoLock
                                     /\ Blocker(s)' \in S
  BY DEF StoppedOK
<1> DEFINE Halted(S) == /\ d \in S
                        /\ \A s \in S : /\ pc[s] \in {"spin", "wait", "abort"}
                                        /\ requested_lock[s] # NoLock
                                        /\ Blocker(s) \in S
<1>1. pc[d] = "abort" /\ requested_lock[d] # NoLock => \E S \in SUBSET CPUs : Halted(S)
  BY DEF WalkInv, StoppedOK
<1>2. CASE Calm
  <2>1. pc[d] = "abort" /\ requested_lock[d] # NoLock
    BY <1>2 DEF Calm, CalmCpu
  <2>2. PICK S \in SUBSET CPUs : Halted(S)
    BY <1>1, <2>1
  <2>3. ASSUME NEW s \in S
        PROVE /\ pc'[s] \in {"spin", "wait", "abort"} /\ requested_lock'[s] # NoLock
              /\ Blocker(s)' \in S
    <3>1. /\ s \in CPUs /\ pc[s] \in {"spin", "wait", "abort"} /\ requested_lock[s] # NoLock
          /\ Blocker(s) \in S
      BY <2>2
    <3>2. /\ pc'[s] \in {"spin", "wait", "abort"} /\ requested_lock'[s] # NoLock
          /\ arg'[s] = arg[s]
      BY <1>2, <3>1, LockAssumption DEF Calm, CalmCpu, Waits
    <3>3. arg[s] \in Locks
      BY <3>1 DEF WalkInv, RequestOK, LockInv, TypeOK
    <3>4. Blocker(s) \in CPUs /\ pc[Blocker(s)] \in Stays
      BY <2>2, <3>1 DEF Stays
    <3>5. lock_val'[arg[s]] = lock_val[arg[s]]
      BY <1>2, <3>3, <3>4 DEF Calm, CalmLock, Blocker
    <3> QED
      BY <3>1, <3>2, <3>5 DEF Blocker
  <2> QED
    BY <2>2, <2>3
<1>3. ASSUME NEW c \in CPUs, RequestStep(c), pc[d] = "abort"
      PROVE \E S \in SUBSET CPUs :
              /\ d \in S
              /\ \A s \in S : /\ pc'[s] \in {"spin", "wait", "abort"}
                              /\ requested_lock'[s] # NoLock
                              /\ Blocker(s)' \in S
  <2>1. pc[c] \in {"request", "walk", "walkowner", "walknext", "undl"}
    BY <1>3 DEF RequestStep, add_lock_request, WalkTest, WalkOwner, WalkNext, RequestDone
  <2>2. requested_lock[d] # NoLock
    BY <1>3, <2>1, RequestFrame
  <2>3. PICK S \in SUBSET CPUs : Halted(S)
    BY <1>1, <1>3, <2>2
  <2>4. c \notin S
    BY <2>1, <2>3
  <2> QED
    BY <1>3, <2>3, <2>4, RequestFrame
<1>4. ASSUME NEW c \in CPUs, RequestStep(c), pc[d] # "abort"
      PROVE \E S \in SUBSET CPUs :
              /\ d \in S
              /\ \A s \in S : /\ pc'[s] \in {"spin", "wait", "abort"}
                              /\ requested_lock'[s] # NoLock
                              /\ Blocker(s)' \in S
  <2>1. d = c
    BY <1>4, RequestFrame
  <2>2. RequestDone(c) /\ walk[c].dead
    BY <1>4, <2>1 DEF RequestStep, add_lock_request, WalkTest, WalkOwner, WalkNext, RequestDone,
       Verdict, Goto, LockInv, TypeOK
  <2>3. pc[c] = "undl"
    BY <2>2 DEF RequestDone
  <2>4. PICK S \in SUBSET CPUs : Chain(c, S) /\ Blocker(c) \in S
    BY <2>2, <2>3 DEF WalkInv, WalkSound, Caught
  <2>5. \A s \in S \ {c} : pc[s] \in {"spin", "wait"} /\ requested_lock[s] # NoLock
    BY <2>4 DEF Chain, Waits
  <2>6. \A s \in S : Blocker(s) \in S
    BY <2>4 DEF Chain
  <2>7. c \in S
    BY <2>4 DEF Chain
  <2>8. \A s \in S : Blocker(s)' = Blocker(s)
    BY <1>4, RequestFrame
  <2>9. \A s \in S \ {c} : pc'[s] = pc[s] /\ requested_lock'[s] = requested_lock[s]
    BY <1>4, RequestFrame
  <2> QED
    BY <2>1, <2>5, <2>6, <2>7, <2>8, <2>9
<1> QED
  BY <1>2, <1>3, <1>4, Steps DEF WalkInv

\* A deadlock that is there after a calm step, but for one CPU, was there before.
LEMMA RingBack ==
  ASSUME LockInv, LockInv', Calm, NEW c \in CPUs, NEW S \in SUBSET CPUs, Ring(c, S)'
  PROVE  Ring(c, S) /\ \A s \in S : Blocker(s)' = Blocker(s) /\ arg'[s] = arg[s]
<1>1. pc[c] = pc'[c] /\ arg'[c] = arg[c]
  BY DEF Ring, Calm, CalmCpu
<1>2. ASSUME NEW s \in S \ {c} PROVE Spins(s) /\ arg'[s] = arg[s]
  BY DEF Ring, Calm, CalmCpu
<1>3. \A s \in S : arg[s] \in Locks
  BY <1>1, <1>2, WaitsFor DEF Spins, Ring
<1>4. \A s \in S : s \in CPUs /\ pc'[s] \in Stays
  BY DEF Ring, Spins, Stays
<1>5. ASSUME NEW s \in S PROVE Blocker(s)' = Blocker(s) /\ arg'[s] = arg[s]
  <2>1. arg'[s] = arg[s]
    BY <1>1, <1>2
  <2>2. lock_val'[arg[s]] \in S
    BY <2>1 DEF Ring, Blocker
  <2>3. lock_val[arg[s]] = lock_val'[arg[s]]
    BY <1>3, <1>4, <2>2 DEF Calm, CalmLock
  <2> QED
    BY <2>1, <2>3 DEF Blocker
<1>6. Ring(c, S)
  <2>1. c \in S /\ pc[c] \in Walking /\ arg[c] \notin ConLocks /\ Cardinality(S) <= cpu_max_pir
    BY <1>1 DEF Ring
  <2>2. \A s \in S : Blocker(s) \in S
    BY <1>5 DEF Ring
  <2> QED
    BY <1>2, <2>1, <2>2 DEF Ring
<1> QED
  BY <1>5, <1>6

\* A calm step leads no walk astray.
LEMMA CalmComplete ==
  ASSUME LockInv, LockInv', Calm, NEW c \in CPUs, NEW S \in SUBSET CPUs,
         Ring(c, S) => WalkComplete(c, S), Ring(c, S)'
  PROVE  WalkComplete(c, S)'
<1>1. Ring(c, S) /\ \A s \in S : Blocker(s)' = Blocker(s) /\ arg'[s] = arg[s]
  BY RingBack
<1>2. pc'[c] = pc[c] /\ walk' = walk
  BY DEF Ring, Calm, CalmCpu
<1>3. WalkComplete(c, S)
  BY <1>1
<1>4. \A s \in S : s \in CPUs /\ pc[s] \in Stays
  BY <1>1 DEF Ring, Spins, Stays
<1>5. ASSUME pc[c] \in {"walk", "walkowner"} PROVE lock_val'[walk[c].next] = lock_val[walk[c].next]
  <2>1. walk[c].next \in Locks /\ lock_val[walk[c].next] \in S
    BY <1>3, <1>5 DEF WalkComplete
  <2> QED
    BY <1>4, <2>1 DEF Calm, CalmLock
<1>6. ASSUME pc[c] \in {"walk", "walkowner"}
      PROVE \E V \in SUBSET (S \ {c}) :
              /\ Cardinality(V) = walk[c].i
              /\ \A v \in V : Blocker(v)' \in V \/ arg'[v] = walk[c].next
  BY <1>1, <1>3, <1>6 DEF WalkComplete
<1>7. ASSUME pc[c] = "walknext"
      PROVE /\ walk[c].owner \in S
            /\ \E V \in SUBSET (S \ {c, walk[c].owner}) :
                 /\ Cardinality(V) = walk[c].i
                 /\ \A v \in V : Blocker(v)' \in V \cup {walk[c].owner}
  BY <1>1, <1>3, <1>7 DEF WalkComplete
<1>8. pc[c] \in {"walk", "walkowner"} =>
        walk[c].next \in Locks \ ConLocks /\ lock_val'[walk[c].next] \in S
  BY <1>3, <1>5 DEF WalkComplete
<1>9. pc[c] = "undl" => walk[c].dead
  BY <1>3 DEF WalkComplete
<1> QED
  BY <1>2, <1>6, <1>7, <1>8, <1>9 DEF WalkComplete

\* The walk begins within the deadlock, and has met nobody.
LEMMA RequestComplete ==
  ASSUME LockInv, NEW c \in CPUs, NEW S \in SUBSET CPUs, add_lock_request(c), Ring(c, S)'
  PROVE  WalkComplete(c, S)'
<1>1. pc'[c] = "walk" /\ walk'[c].next = arg'[c] /\ walk'[c].i = 0
  BY DEF add_lock_request, Goto, NoWalk, LockInv, TypeOK
<1>2. arg'[c] \in Locks \ ConLocks /\ lock_val'[arg'[c]] \in S
  BY DEF Ring, Blocker, add_lock_request, LockInv, ArgOK
<1>3. Cardinality({}) = walk'[c].i
  BY <1>1, FS_EmptySet
<1>4. \E V \in SUBSET (S \ {c}) :
         /\ Cardinality(V) = walk'[c].i
         /\ \A v \in V : Blocker(v)' \in V \/ arg'[v] = walk'[c].next
  BY <1>3
<1> QED
  BY <1>1, <1>2, <1>4 DEF WalkComplete

\* Within its bound the walk finds the next lock of the deadlock taken.
LEMMA TestComplete ==
  ASSUME LockInv, NEW c \in CPUs, NEW S \in SUBSET CPUs, WalkTest(c),
         Ring(c, S), WalkComplete(c, S)
  PROVE  WalkComplete(c, S)'
<1>1. pc[c] = "walk" /\ walk[c] \in Walk
  BY DEF WalkTest, LockInv, TypeOK
<1>2. walk[c].next \in Locks \ ConLocks /\ lock_val[walk[c].next] \in S
  BY <1>1 DEF WalkComplete
<1>3. PICK V \in SUBSET (S \ {c}) :
        /\ Cardinality(V) = walk[c].i
        /\ \A v \in V : Blocker(v) \in V \/ arg[v] = walk[c].next
  BY <1>1 DEF WalkComplete
<1>4. IsFiniteSet(S) /\ Cardinality(S) \in Nat /\ Cardinality(S) <= cpu_max_pir
  BY LockAssumption, FS_Subset, FS_CardinalityType DEF Ring
<1>5. IsFiniteSet(S \ {c}) /\ Cardinality(S \ {c}) = Cardinality(S) - 1
  BY <1>4, FS_RemoveElement DEF Ring
<1>6. Cardinality(V) <= Cardinality(S \ {c}) /\ IsFiniteSet(V)
  BY <1>5, FS_Subset
<1>7. Cardinality(V) < cpu_max_pir
  BY <1>4, <1>5, <1>6, LockAssumption, FS_CardinalityType
<1>8. walk[c].i < cpu_max_pir
  BY <1>3, <1>7
<1>9. \A s \in CPUs : Blocker(s)' = Blocker(s) /\ arg'[s] = arg[s]
  BY WalkFrame
<1>10. NoCpu \notin S /\ walk[c].next # NoLock
  BY <1>2, LockAssumption
<1>11. ~(walk[c].i >= cpu_max_pir)
  BY <1>1, <1>8, LockAssumption DEF Walk
<1>12. Goto(c, "walkowner") /\ walk' = walk /\ lock_val' = lock_val
  BY <1>2, <1>10, <1>11 DEF WalkTest
<1>13. pc'[c] = "walkowner"
  BY <1>12 DEF Goto, LockInv, TypeOK
<1>14. \E W \in SUBSET (S \ {c}) :
         /\ Cardinality(W) = walk'[c].i
         /\ \A v \in W : Blocker(v)' \in W \/ arg'[v] = walk'[c].next
  BY <1>3, <1>9, <1>12
<1> QED
  BY <1>2, <1>12, <1>13, <1>14 DEF WalkComplete

\* The walk reads the next owner of the deadlock: one that it has not
\* met before, since those it has met would be a deadlock already, or c.
LEMMA OwnerComplete ==
  ASSUME LockInv, DeadlockFoundWithin, NEW c \in CPUs, NEW S \in SUBSET CPUs, WalkOwner(c),
         Ring(c, S), WalkComplete(c, S)
  PROVE  WalkComplete(c, S)'
<1>1. pc[c] = "walkowner" /\ walk[c] \in Walk
  BY DEF WalkOwner, LockInv, TypeOK
<1>2. walk[c].next \in Locks \ ConLocks /\ lock_val[walk[c].next] \in S
  BY <1>1 DEF WalkComplete
<1>3. PICK V \in SUBSET (S \ {c}) :
        /\ Cardinality(V) = walk[c].i
        /\ \A v \in V : Blocker(v) \in V \/ arg[v] = walk[c].next
  BY <1>1 DEF WalkComplete
<1>4. IsFiniteSet(S) /\ Cardinality(S) \in Nat /\ Cardinality(S) <= cpu_max_pir
  BY LockAssumption, FS_Subset, FS_CardinalityType DEF Ring
<1>5. IsFiniteSet(S \ {c}) /\ Cardinality(S \ {c}) = Cardinality(S) - 1
  BY <1>4, FS_RemoveElement DEF Ring
<1>6. Cardinality(V) <= Cardinality(S \ {c}) /\ IsFiniteSet(V)
  BY <1>5, FS_Subset
<1>7. Cardinality(V) < cpu_max_pir
  BY <1>4, <1>5, <1>6, LockAssumption, FS_CardinalityType
<1>9. \A s \in CPUs : Blocker(s)' = Blocker(s) /\ arg'[s] = arg[s]
  BY WalkFrame
<1>10. NoCpu \notin S /\ walk[c].next # NoLock
  BY <1>2, LockAssumption
<1>a. lock_owner(walk[c].next) = lock_val[walk[c].next]
  BY <1>2, <1>10 DEF lock_owner
<1>11. CASE lock_val[walk[c].next] = c
  <2>1. Verdict(c, TRUE)
    BY <1>2, <1>10, <1>11, <1>a DEF WalkOwner
  <2>2. pc'[c] = "undl" /\ walk'[c].dead
    BY <1>1, <2>1 DEF Verdict, Goto, LockInv, TypeOK, Walk
  <2> QED
    BY <2>2 DEF WalkComplete
<1>12. CASE lock_val[walk[c].next] # c
  <2> DEFINE d == lock_val[walk[c].next]
  <2>1. walk' = [walk EXCEPT ![c].owner = d] /\ Goto(c, "walknext")
    BY <1>2, <1>10, <1>12, <1>a DEF WalkOwner
  <2>2. pc'[c] = "walknext" /\ walk'[c].owner = d /\ walk'[c].i = walk[c].i
    BY <1>1, <2>1 DEF Goto, LockInv, TypeOK, Walk
  <2>3. d \in S
    BY <1>2
  <2> HIDE DEF d
  <2>4. \A v \in V : Blocker(v) \in V \cup {d}
    BY <1>3 DEF Blocker, d
  <2>5. d \notin V
    <3> SUFFICES ASSUME d \in V PROVE FALSE
      OBVIOUS
    <3>1. \A v \in V : Spins(v) /\ Blocker(v) \in V
      BY <2>4 DEF Ring
    <3>2. V # {} /\ V \in SUBSET CPUs
      OBVIOUS
    <3>3. Cardinality(V) <= cpu_max_pir
      BY <1>6, <1>7, FS_CardinalityType, LockAssumption
    <3> QED
      BY <3>1, <3>2, <3>3 DEF DeadlockFoundWithin
  <2>6. V \in SUBSET (S \ {c, d})
    BY <2>5
  <2>7. \E W \in SUBSET (S \ {c, d}) :
          Cardinality(W) = walk'[c].i /\ \A v \in W : Blocker(v)' \in W \cup {d}
    BY <1>3, <1>9, <2>2, <2>4, <2>6
  <2> QED
    BY <2>2, <2>3, <2>7 DEF WalkComplete
<1> QED
  BY <1>11, <1>12

\* The owner has announced the lock it waits for, and is one more that the walk has met.
LEMMA NextComplete ==
  ASSUME LockInv, RequestOK, NEW c \in CPUs, NEW S \in SUBSET CPUs, WalkNext(c),
         Ring(c, S), WalkComplete(c, S), walk[c].owner # c
  PROVE  WalkComplete(c, S)'
<1> DEFINE d == walk[c].owner
<1>1. pc[c] = "walknext" /\ walk[c] \in Walk
  BY DEF WalkNext, LockInv, TypeOK
<1>2. d \in S \ {c}
  BY <1>1 DEF WalkComplete
<1>3. PICK V \in SUBSET (S \ {c, d}) :
        Cardinality(V) = walk[c].i /\ \A v \in V : Blocker(v) \in V \cup {d}
  BY <1>1 DEF WalkComplete
<1>4. /\ pc'[c] = "walk" /\ walk'[c].next = requested_lock[d]
      /\ walk'[c].i = walk[c].i + 1
  BY <1>1 DEF WalkNext, Goto, LockInv, TypeOK, Walk
<1> HIDE DEF d
<1>5. Spins(d) /\ Blocker(d) \in S /\ d \in CPUs
  BY <1>2 DEF Ring
<1>6. requested_lock[d] = arg[d] /\ arg[d] \in Locks \ ConLocks
  BY <1>5, WaitsFor DEF RequestOK, Spins
<1>7. \A s \in CPUs : Blocker(s)' = Blocker(s) /\ arg'[s] = arg[s]
  BY WalkFrame
<1>8. lock_val'[walk'[c].next] \in S
  BY <1>4, <1>5, <1>6, <1>7 DEF Blocker
<1> DEFINE W == V \cup {d}
<1>9. W \in SUBSET (S \ {c}) /\ \A v \in W : Blocker(v)' \in W \/ arg'[v] = walk'[c].next
  BY <1>2, <1>3, <1>4, <1>6, <1>7
<1>10. Cardinality(W) = walk'[c].i
  <2>1. IsFiniteSet(V)
    BY FS_Subset, LockAssumption
  <2>2. Cardinality(W) = Cardinality(V) + 1
    BY <2>1, FS_AddElement
  <2> QED
    BY <1>3, <1>4, <2>2
<1> HIDE DEF W
<1> QED
  BY <1>4, <1>6, <1>8, <1>9, <1>10 DEF WalkComplete

\* No deadlock is complete before its last CPU has been told.
LEMMA FoundStep == LockInv /\ LockInv' /\ WalkInv /\ [Next]_vars => DeadlockFoundWithin'
<1> SUFFICES ASSUME LockInv, LockInv', WalkInv, [Next]_vars,
                    NEW S \in SUBSET CPUs, S # {}, Cardinality(S) <= cpu_max_pir,
                    \A s \in S : Spins(s)' /\ Blocker(s)' \in S
             PROVE FALSE
  BY DEF DeadlockFoundWithin
<1>1. ~\A s \in S : Spins(s) /\ Blocker(s) \in S
  BY DEF WalkInv, DeadlockFoundWithin
<1>2. CASE Calm
  <2>1. \A s \in S : s \in CPUs /\ pc'[s] \in Stays
    BY DEF Spins, Stays
  <2>2. ASSUME NEW s \in S PROVE Spins(s) /\ Blocker(s) \in S
    <3>1. Spins(s) /\ arg'[s] = arg[s]
      BY <1>2 DEF Calm, CalmCpu
    <3>2. arg[s] \in Locks
      BY <3>1, WaitsFor DEF Spins
    <3>3. lock_val'[arg[s]] \in S
      BY <3>1 DEF Blocker
    <3>4. lock_val[arg[s]] = lock_val'[arg[s]]
      BY <1>2, <2>1, <3>2, <3>3 DEF Calm, CalmLock
    <3> QED
      BY <3>1, <3>3, <3>4 DEF Blocker
  <2> QED
    BY <1>1, <2>2
<1>3. ASSUME NEW c \in CPUs, RequestStep(c) PROVE FALSE
  <2>1. \A s \in S : Blocker(s) \in S
    BY <1>3, RequestFrame
  <2>2. \A s \in S \ {c} : Spins(s)
    BY <1>3, RequestFrame
  <2>3. c \in S /\ ~Spins(c)
    BY <1>1, <2>1, <2>2
  <2>4. pc'[c] \in {"spin", "wait"}
    BY <2>3 DEF Spins
  <2>5. RequestDone(c) /\ ~walk[c].dead
    BY <1>3, <2>4 DEF RequestStep, add_lock_request, WalkTest, WalkOwner, WalkNext, RequestDone,
       Verdict, lock_error, Goto, LockInv, TypeOK
  <2>6. pc[c] = "undl" /\ arg'[c] = arg[c]
    BY <1>3, <2>5, RequestFrame DEF RequestDone
  <2>7. Ring(c, S)
    BY <2>1, <2>2, <2>3, <2>6 DEF Ring, Spins, Walking
  <2>8. WalkComplete(c, S)
    BY <2>7 DEF WalkInv
  <2> QED
    BY <2>5, <2>6, <2>8 DEF WalkComplete
<1> QED
  BY <1>2, <1>3, Steps DEF WalkInv

\* The history of torn reads is never forgotten.
LEMMA TornStep == [Next]_vars => (torn => torn')
<1> SUFFICES ASSUME [Next]_vars, torn PROVE torn'
  OBVIOUS
<1>1. ASSUME NEW c \in CPUs, NEW l \in Locks,
             try_lock(c, l) \/ LockBusy(c, l) \/ LockCheckFails(c, l) \/ UnlockBody(c, l)
      PROVE torn'
  BY <1>1 DEF try_lock, LockBusy, LockCheckFails, UnlockBody, UnlockBegin, lock_error
<1>2. ASSUME NEW c \in CPUs, CpuStep(c) PROVE torn'
  BY <1>2 DEF CpuStep, add_lock_request, WalkTest, WalkOwner, WalkNext, RequestDone, SpinAcquire,
     SpinFail, WaitOver, remove_lock_request, UnlockEnd, lock_error
<1>3. ASSUME NEW c \in CPUs, drop_my_locks(c) PROVE torn'
  BY <1>1, <1>3 DEF drop_my_locks, DropStart, DropOne, DropDone, UnlockBody, UnlockBegin,
     lock_error
<1>4. CASE init_locks \/ UNCHANGED vars
  BY <1>4 DEF init_locks, vars
<1>5. ASSUME NEW c \in CPUs, ClientCall(c) PROVE torn'
  BY <1>1, <1>5 DEF ClientCall, lock_caller, lock_recursive_caller, unlock
<1> QED
  BY <1>2, <1>3, <1>4, <1>5 DEF Next

\* Every step keeps what is true of the walks.
LEMMA WalksStep ==
  ASSUME LockInv, LockInv', WalkInv, WalkerOK', [Next]_vars, NEW c \in CPUs
  PROVE  /\ ~torn /\ ~torn' => WalkSound(c)'
         /\ \A S \in SUBSET CPUs : Ring(c, S)' => WalkComplete(c, S)'
<1>0. /\ \A S \in SUBSET CPUs : Ring(c, S) => WalkComplete(c, S)
      /\ WalkerOK /\ RequestOK /\ DeadlockFoundWithin
      /\ ~torn => StoppedOK /\ WalkSound(c)
  BY DEF WalkInv
<1>1. CASE Calm
  BY <1>0, <1>1, CalmSound, CalmComplete
<1>2. CASE pc'[c] \notin Walking
  BY <1>2 DEF WalkSound, Ring, Walking
<1>3. ASSUME NEW d \in CPUs, RequestStep(d), pc'[c] \in Walking
      PROVE  /\ ~torn /\ ~torn' => WalkSound(c)'
             /\ \A S \in SUBSET CPUs : Ring(c, S)' => WalkComplete(c, S)'
  <2>1. dl_lock' = c
    BY <1>3 DEF WalkerOK
  <2>2. dl_lock' = d \/ dl_lock' = NoCpu
    BY <1>0, <1>3 DEF RequestStep, add_lock_request, WalkTest, WalkOwner, WalkNext, RequestDone,
       WalkerOK, Walking
  <2>3. c = d /\ ~RequestDone(c)
    BY <1>3, <2>1, <2>2, LockAssumption DEF RequestDone
  <2>4. CASE add_lock_request(c)
    BY <2>4, RequestSound, RequestComplete
  <2>5. ASSUME WalkTest(c) \/ WalkOwner(c) \/ WalkNext(c), NEW S \in SUBSET CPUs, Ring(c, S)'
        PROVE Ring(c, S)
    <3>1. \A s \in CPUs : Blocker(s)' = Blocker(s) /\ arg'[s] = arg[s]
      BY <2>5, WalkFrame
    <3>2. \A s \in CPUs \ {c} : Spins(s)' = Spins(s)
      BY <2>5, WalkFrame
    <3>3. pc[c] \in Walking
      BY <2>5 DEF WalkTest, WalkOwner, WalkNext, Walking
    <3>4. \A s \in S : Blocker(s) \in S
      BY <2>5, <3>1 DEF Ring
    <3>5. \A s \in S \ {c} : Spins(s)
      BY <2>5, <3>2 DEF Ring
    <3> QED
      BY <2>5, <3>1, <3>3, <3>4, <3>5 DEF Ring
  <2>t. CASE WalkTest(c)
    BY <1>0, <2>5, <2>t, TestSound, TestComplete
  <2>6. CASE WalkOwner(c)
    BY <1>0, <2>5, <2>6, OwnerSound, OwnerComplete
  <2>7. CASE WalkNext(c)
    <3>1. walk[c].owner # c
      BY <1>0, <2>7 DEF WalkNext, WalkerOK
    <3> QED
      BY <1>0, <2>5, <2>7, <3>1, NextSound, NextComplete
  <2> QED
    BY <1>3, <2>3, <2>4, <2>6, <2>7, <2>t DEF RequestStep
<1> QED
  BY <1>0, <1>1, <1>2, <1>3, Steps

\* Nobody walks and nobody has asked for a lock at boot.
LEMMA InitWalk == Init => WalkInv
<1> SUFFICES ASSUME Init PROVE WalkInv
  OBVIOUS
<1> USE LockAssumption DEF Init
<1>1. WalkerOK /\ RequestOK /\ StoppedOK
  BY DEF WalkerOK, RequestOK, StoppedOK, Walking
<1>2. DeadlockFoundWithin
  BY DEF DeadlockFoundWithin, Spins
<1>3. \A c \in CPUs : WalkSound(c)
  BY DEF WalkSound
<1>4. \A c \in CPUs : \A S \in SUBSET CPUs : ~Ring(c, S)
  BY DEF Ring, Walking
<1> QED
  BY <1>1, <1>2, <1>3, <1>4 DEF WalkInv

\* What makes the verdicts exact holds in every state.
THEOREM WalkInvariant == Spec => []WalkInv
<1>1. LockInv /\ LockInv' /\ WalkInv /\ [Next]_vars => WalkInv'
  <2> SUFFICES ASSUME LockInv, LockInv', WalkInv, [Next]_vars PROVE WalkInv'
    OBVIOUS
  <2>1. WalkerOK' /\ RequestOK'
    BY WalkerStep, RequestsStep DEF WalkInv
  <2>2. DeadlockFoundWithin' /\ (~torn => StoppedOK')
    BY StoppedStep, FoundStep
  <2>3. \A c \in CPUs : /\ ~torn /\ ~torn' => WalkSound(c)'
                        /\ \A S \in SUBSET CPUs : Ring(c, S)' => WalkComplete(c, S)'
    BY <2>1, WalksStep
  <2>4. ~torn' => ~torn
    BY TornStep
  <2> QED
    BY <2>1, <2>2, <2>3, <2>4 DEF WalkInv
<1> QED
  BY LockInvariant, InitWalk, <1>1, PTL DEF Spec

\* check_deadlock() cries wolf only after a torn read: when it returns true otherwise, the
\* CPU is one of a set of CPUs in lock() of which each waits for another, so that it could
\* never have gone on.
THEOREM LockNoFalseDeadlock == Spec => []NoFalseDeadlock
<1>1. WalkInv => NoFalseDeadlock
  <2> SUFFICES ASSUME WalkInv, NEW c \in CPUs, ~torn, pc[c] = "undl", walk[c].dead
               PROVE \E S \in SUBSET CPUs : c \in S /\ Stuck(S)
    BY DEF NoFalseDeadlock
  <2>1. PICK S \in SUBSET CPUs : Chain(c, S) /\ Blocker(c) \in S
    BY DEF WalkInv, WalkSound, Caught
  <2>2. c \in S /\ Stuck(S)
    BY <2>1 DEF Chain, Waits, Stuck, Blocker
  <2> QED
    BY <2>2
<1> QED
  BY WalkInvariant, <1>1, PTL

\* Where no CPU has PIR 0 there are no torn reads, and no false verdict at all.
THEOREM LockNeverTorn ==
  ASSUME Pir0 = NoCpu
  PROVE  Spec => []~torn
<1>1. Init => ~torn
  BY DEF Init
<1>2. ~torn /\ [Next]_vars => ~torn'
  <2> SUFFICES ASSUME ~torn, [Next]_vars PROVE ~torn'
    OBVIOUS
  <2>1. ASSUME NEW c \in CPUs, NEW l \in Locks,
               try_lock(c, l) \/ LockBusy(c, l) \/ LockCheckFails(c, l) \/ UnlockBody(c, l)
        PROVE ~torn'
    BY <2>1 DEF try_lock, LockBusy, LockCheckFails, UnlockBody, UnlockBegin, lock_error
  <2>2. ASSUME NEW c \in CPUs, CpuStep(c) PROVE ~torn'
    BY <2>2 DEF CpuStep, add_lock_request, WalkTest, WalkOwner, WalkNext, RequestDone,
       SpinAcquire, SpinFail, WaitOver, remove_lock_request, UnlockEnd, lock_error
  <2>3. ASSUME NEW c \in CPUs, drop_my_locks(c) PROVE ~torn'
    BY <2>1, <2>3 DEF drop_my_locks, DropStart, DropOne, DropDone, UnlockBody, UnlockBegin,
       lock_error
  <2>4. CASE init_locks \/ UNCHANGED vars
    BY <2>4 DEF init_locks, vars
  <2>5. ASSUME NEW c \in CPUs, ClientCall(c) PROVE ~torn'
    BY <2>1, <2>5 DEF ClientCall, lock_caller, lock_recursive_caller, unlock
  <2> QED
    BY <2>2, <2>3, <2>4, <2>5 DEF Next
<1> QED
  BY <1>1, <1>2, PTL DEF Spec

\* No deadlock outside of the console path goes unnoticed among CPUs that are checked, as
\* long as there are no more CPUs than cpu_max_pir, the bound of the walk.
THEOREM LockDeadlockFound ==
  ASSUME Cardinality(CPUs) <= cpu_max_pir
  PROVE  Spec => []DeadlockFound
<1>1. WalkInv => DeadlockFound
  <2> SUFFICES ASSUME WalkInv, NEW S \in SUBSET ActiveCPUs, S # {}, Stuck(S),
                      \A c \in S : pc[c] \in {"spin", "wait"} /\ arg[c] \notin ConLocks
               PROVE FALSE
    BY DEF DeadlockFound
  <2>1. S \in SUBSET CPUs
    BY LockAssumption
  <2>2. Cardinality(S) <= Cardinality(CPUs) /\ IsFiniteSet(S)
    BY <2>1, LockAssumption, FS_Subset
  <2>3. Cardinality(S) <= cpu_max_pir
    BY <2>2, LockAssumption, FS_CardinalityType
  <2>4. \A s \in S : Spins(s) /\ Blocker(s) \in S
    BY DEF Spins, Blocker, Stuck
  <2> QED
    BY <2>1, <2>3, <2>4 DEF WalkInv, DeadlockFoundWithin
<1> QED
  BY WalkInvariant, <1>1, PTL

\* On any machine, no deadlock of at most cpu_max_pir CPUs does.
THEOREM LockDeadlockFoundWithin == Spec => []DeadlockFoundWithin
BY WalkInvariant, PTL DEF WalkInv
=============================================================================
