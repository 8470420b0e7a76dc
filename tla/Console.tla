------------------------------- MODULE Console ------------------------------
(***************************************************************************)
(* The output side of the console (core/console.c): a ring in memory that  *)
(* every CPU writes under con_lock, and the flush of it into the console   *)
(* driver, for which the lock is dropped.                                  *)
(*                                                                         *)
(* Characters are numbered in the order of writing.  con_buf holds numbers;*)
(* the driver gets them one by one, while other CPUs go on writing.        *)
(***************************************************************************)
EXTENDS Integers, Sequences, FiniteSets, SequencesExt

CONSTANTS
  CPUs, NoCpu,
  OutLen,      \* INMEM_CON_OUT_LEN
  MaxChars     \* bound: characters written in a behaviour

ASSUME ConsoleAssumption ==
  /\ NoCpu \notin CPUs
  /\ OutLen \in Nat /\ OutLen > 2
  /\ MaxChars \in Nat

VARIABLES
  con_buf, con_in, con_out,
  con_driver,                   \* set_console has been called
  con_lock,
  in_flush, more_flush,
  con_suspend, con_need_flush,  \* of each CPU
  pc, flush_to_drivers, from, req, len,   \* of each CPU: locals
  trouble,     \* what may happen in this behaviour: short writes, nested ones
  chars,       \* characters written so far
  out,         \* what the driver got
  lost,        \* characters that were passed over in the ring
  failed,      \* the last flush ended with a short write
  overrun      \* the ring overflowed during a flush

ring == <<con_buf, con_in, con_out>>
flags == <<in_flush, more_flush>>
percpu == <<con_suspend, con_need_flush>>
locals == <<flush_to_drivers, from, req, len>>
ghost == <<chars, out, lost, failed, overrun>>
moving == <<ring, con_driver, con_lock, flags, percpu, pc, locals, ghost>>
vars == <<moving, trouble>>

Slots == 0..OutLen - 1

Init ==
  /\ con_buf = [i \in Slots |-> 0] /\ con_in = 0 /\ con_out = 0
  /\ con_driver = FALSE /\ con_lock = NoCpu
  /\ in_flush = FALSE /\ more_flush = FALSE
  /\ con_suspend = [c \in CPUs |-> FALSE]
  /\ con_need_flush = [c \in CPUs |-> FALSE]
  /\ pc = [c \in CPUs |-> "idle"]
  /\ flush_to_drivers = [c \in CPUs |-> TRUE]
  /\ from = [c \in CPUs |-> 0]
  /\ req = [c \in CPUs |-> 0]
  /\ len = [c \in CPUs |-> 0]
  /\ trouble \in SUBSET {"short", "nested"}
  /\ chars = 0 /\ out = <<>> /\ lost = {} /\ failed = FALSE /\ overrun = FALSE

Goto(c, where) == pc' = [pc EXCEPT ![c] = where]

\* The characters between con_out and con_in.
Waiting == {con_buf[(con_out + i) % OutLen] : i \in 0..((con_in - con_out) % OutLen) - 1}

-----------------------------------------------------------------------------
(* Writing. *)

\* One character.  If the head reaches the tail, the tail is pushed on.
inmem_write ==
  /\ chars < MaxChars
  /\ chars' = chars + 1
  /\ con_buf' = [con_buf EXCEPT ![con_in] = chars + 1]
  /\ con_in' = (con_in + 1) % OutLen
  /\ \/ con_in' # con_out /\ UNCHANGED <<con_out, lost, overrun>>
     \/ /\ con_in' = con_out
        /\ con_out' = (con_in' + 1) % OutLen
        /\ lost' = lost \cup {con_buf[con_out]}
        /\ overrun' = (overrun \/ in_flush)

\* console_write takes the lock; the flush has to follow.
console_write(c) ==
  /\ pc[c] = "idle" /\ con_lock = NoCpu
  /\ con_lock' = c
  /\ inmem_write
  /\ flush_to_drivers' \in {[flush_to_drivers EXCEPT ![c] = b] : b \in BOOLEAN}
  /\ Goto(c, "write")
  /\ UNCHANGED <<con_driver, flags, percpu, from, req, len, trouble, out, failed>>

\* Further characters of the same write.
write_more(c) ==
  /\ pc[c] = "write" /\ inmem_write
  /\ UNCHANGED <<con_driver, con_lock, flags, percpu, pc, locals, trouble, out, failed>>

\* A write by the CPU that already holds con_lock (debug code): its
\* __flush_console is left for later.
nested_write(c) ==
  /\ pc[c] = "end" /\ "nested" \in trouble /\ inmem_write
  /\ con_need_flush' = [con_need_flush EXCEPT ![c] = @ \/ (con_driver /\ con_in' # con_out')]
  /\ UNCHANGED <<con_driver, con_lock, flags, con_suspend, pc, locals, trouble, out, failed>>

-----------------------------------------------------------------------------
(* Flushing. *)

\* flush_console takes the lock.
flush_console(c) ==
  /\ pc[c] = "flush" /\ con_lock = NoCpu
  /\ con_lock' = c
  /\ flush_to_drivers' = [flush_to_drivers EXCEPT ![c] = TRUE]
  /\ Goto(c, "check")
  /\ UNCHANGED <<ring, con_driver, flags, percpu, from, req, len, trouble, ghost>>

\* __flush_console, up to its loop: nothing to do, ...
flush_none(c) ==
  /\ pc[c] \in {"write", "check"}
  /\ con_in = con_out \/ ~con_driver
  /\ Goto(c, "end")
  /\ UNCHANGED <<ring, con_driver, con_lock, flags, percpu, locals, trouble, ghost>>

Flushable(c) == pc[c] \in {"write", "check"} /\ con_in # con_out /\ con_driver

\* ... not on this CPU now, ...
flush_suspended(c) ==
  /\ Flushable(c) /\ con_suspend[c]
  /\ con_need_flush' = [con_need_flush EXCEPT ![c] = TRUE]
  /\ Goto(c, "end")
  /\ UNCHANGED <<ring, con_driver, con_lock, flags, con_suspend, locals, trouble, ghost>>

\* Mutant of flush_left: the flushing CPU is not told.
LeftSilently(c) ==
  /\ Flushable(c) /\ ~con_suspend[c] /\ in_flush
  /\ con_need_flush' = [con_need_flush EXCEPT ![c] = FALSE]
  /\ Goto(c, "end")
  /\ UNCHANGED <<ring, con_driver, con_lock, flags, con_suspend, locals, trouble, ghost>>

\* ... left to the CPU that is flushing, ...
flush_left(c) ==
  /\ Flushable(c) /\ ~con_suspend[c] /\ in_flush
  /\ con_need_flush' = [con_need_flush EXCEPT ![c] = FALSE]
  /\ more_flush' = TRUE
  /\ Goto(c, "end")
  /\ UNCHANGED <<ring, con_driver, con_lock, in_flush, con_suspend, locals, trouble, ghost>>

\* ... for the ring only, ...
flush_skip(c) ==
  /\ Flushable(c) /\ ~con_suspend[c] /\ ~in_flush /\ ~flush_to_drivers[c]
  /\ con_need_flush' = [con_need_flush EXCEPT ![c] = FALSE]
  /\ con_out' = con_in
  /\ lost' = lost \cup Waiting
  /\ Goto(c, "end")
  /\ UNCHANGED <<con_buf, con_in, con_driver, con_lock, flags, con_suspend, locals, trouble,
                 chars, out, failed, overrun>>

\* Mutant of flush_begin: in_flush is not looked at.
BeginTogether(c) ==
  /\ Flushable(c) /\ ~con_suspend[c] /\ flush_to_drivers[c]
  /\ con_need_flush' = [con_need_flush EXCEPT ![c] = FALSE]
  /\ in_flush' = TRUE
  /\ failed' = FALSE
  /\ Goto(c, "loop")
  /\ UNCHANGED <<ring, con_driver, con_lock, more_flush, con_suspend, locals, trouble,
                 chars, out, lost, overrun>>

\* ... or by this CPU.
flush_begin(c) ==
  /\ Flushable(c) /\ ~con_suspend[c] /\ ~in_flush /\ flush_to_drivers[c]
  /\ con_need_flush' = [con_need_flush EXCEPT ![c] = FALSE]
  /\ in_flush' = TRUE
  /\ failed' = FALSE
  /\ Goto(c, "loop")
  /\ UNCHANGED <<ring, con_driver, con_lock, more_flush, con_suspend, locals, trouble,
                 chars, out, lost, overrun>>

\* A turn of the loop: up to the ring's end or to con_in; the lock is dropped.
flush_loop(c) ==
  /\ pc[c] = "loop"
  /\ more_flush' = (con_out > con_in)
  /\ req' = [req EXCEPT ![c] = IF con_out > con_in THEN OutLen - con_out
                                                   ELSE con_in - con_out]
  /\ con_lock' = NoCpu
  /\ Goto(c, "unlocked")
  /\ UNCHANGED <<ring, con_driver, in_flush, percpu, flush_to_drivers, from, len, trouble,
                 ghost>>

\* con_buf + con_out is computed without the lock.
driver_call(c) ==
  /\ pc[c] = "unlocked"
  /\ from' = [from EXCEPT ![c] = con_out]
  /\ len' = [len EXCEPT ![c] = 0]
  /\ Goto(c, "driver")
  /\ UNCHANGED <<ring, con_driver, con_lock, flags, percpu, flush_to_drivers, req, trouble,
                 ghost>>

\* The driver takes a character; behind the ring is something else.
driver_char(c) ==
  /\ pc[c] = "driver" /\ len[c] < req[c]
  /\ LET i == from[c] + len[c]
     IN out' = Append(out, IF i \in Slots THEN con_buf[i] ELSE 0)
  /\ len' = [len EXCEPT ![c] = @ + 1]
  /\ UNCHANGED <<ring, con_driver, con_lock, flags, percpu, pc, flush_to_drivers, from, req,
                 trouble, chars, lost, failed, overrun>>

\* It returns, possibly early, and the lock is taken again.
driver_return(c) ==
  /\ pc[c] = "driver" /\ con_lock = NoCpu
  /\ len[c] = req[c] \/ "short" \in trouble
  /\ con_lock' = c
  /\ con_out' = (con_out + len[c]) % OutLen
  /\ \/ /\ len[c] < req[c] \/ ~more_flush
        /\ in_flush' = FALSE
        /\ failed' = (len[c] < req[c])
        /\ Goto(c, "end")
     \/ /\ len[c] = req[c] /\ more_flush
        /\ Goto(c, "loop")
        /\ UNCHANGED <<in_flush, failed>>
  /\ UNCHANGED <<con_buf, con_in, con_driver, more_flush, percpu, locals, trouble, chars,
                 out, lost, overrun>>

\* The end of console_write or flush_console.
con_unlock(c) ==
  /\ pc[c] = "end"
  /\ con_lock' = NoCpu
  /\ Goto(c, "idle")
  /\ flush_to_drivers' = [flush_to_drivers EXCEPT ![c] = TRUE]
  /\ from' = [from EXCEPT ![c] = 0]
  /\ req' = [req EXCEPT ![c] = 0]
  /\ len' = [len EXCEPT ![c] = 0]
  /\ UNCHANGED <<ring, con_driver, flags, percpu, trouble, ghost>>

-----------------------------------------------------------------------------
set_console(c) ==
  /\ pc[c] = "idle" /\ ~con_driver
  /\ con_driver' = TRUE
  /\ Goto(c, "flush")
  /\ UNCHANGED <<ring, con_lock, flags, percpu, locals, trouble, ghost>>

\* A lock of the console path is taken ...
suspend(c) ==
  /\ pc[c] = "idle" /\ ~con_suspend[c]
  /\ con_suspend' = [con_suspend EXCEPT ![c] = TRUE]
  /\ UNCHANGED <<ring, con_driver, con_lock, flags, con_need_flush, pc, locals, trouble, ghost>>

\* Mutant of resume: what was put off is forgotten.
ResumeOnly(c) ==
  /\ pc[c] = "idle" /\ con_suspend[c]
  /\ con_suspend' = [con_suspend EXCEPT ![c] = FALSE]
  /\ UNCHANGED <<ring, con_driver, con_lock, flags, con_need_flush, pc, locals, trouble, ghost>>

\* ... and released: unlock flushes what was put off.
resume(c) ==
  /\ pc[c] = "idle" /\ con_suspend[c]
  /\ con_suspend' = [con_suspend EXCEPT ![c] = FALSE]
  /\ IF con_need_flush[c] THEN Goto(c, "flush") ELSE UNCHANGED pc
  /\ UNCHANGED <<ring, con_driver, con_lock, flags, con_need_flush, locals, trouble, ghost>>

Work(c) ==
  \/ flush_console(c) \/ flush_none(c) \/ flush_suspended(c) \/ flush_left(c)
  \/ flush_skip(c) \/ flush_begin(c) \/ flush_loop(c)
  \/ driver_call(c) \/ driver_char(c) \/ driver_return(c) \/ con_unlock(c)

Next == \E c \in CPUs :
  \/ Work(c) \/ set_console(c) \/ suspend(c) \/ resume(c)
  \/ console_write(c) \/ write_more(c) \/ nested_write(c)

Spec == Init /\ [][Next]_vars

\* Every CPU goes on with its work and releases its locks; boot sets a driver.
FairSpec ==
  /\ Spec
  /\ \A c \in CPUs : WF_moving(Work(c)) /\ WF_moving(resume(c))
                     /\ SF_moving(flush_console(c)) /\ SF_moving(driver_return(c))
  /\ WF_moving(\E c \in CPUs : set_console(c))

-----------------------------------------------------------------------------
(* Properties. *)

TypeOK ==
  /\ con_buf \in [Slots -> 0..MaxChars] /\ con_in \in Slots /\ con_out \in Slots
  /\ con_lock \in CPUs \cup {NoCpu}
  /\ \A f \in {in_flush, more_flush, con_driver, failed, overrun} : f \in BOOLEAN
  /\ con_suspend \in [CPUs -> BOOLEAN] /\ con_need_flush \in [CPUs -> BOOLEAN]
  /\ pc \in [CPUs -> {"idle", "write", "flush", "check", "loop", "unlocked", "driver",
                    "end"}]
  /\ from \in [CPUs -> Slots] /\ req \in [CPUs -> Slots] /\ len \in [CPUs -> Slots]

\* What a flush under way has given to the driver and not yet counted.
Uncounted == UNION {{con_buf[(from[c] + i) % OutLen] : i \in 0..len[c] - 1} :
                      c \in {x \in CPUs : pc[x] = "driver"}}

\* Unless the ring overflows while the driver is writing, the driver gets
\* the characters in order, none twice, none from outside of the ring, and
\* every character written is with the driver, waiting in the ring, or was
\* passed over (the oldest one when the ring was full, or by a write that is
\* not meant for the driver): dropping con_lock around the driver's write
\* does no harm.
OutInOrder ==
  /\ TypeOK
  /\ ~overrun =>
       /\ \A i \in 1..Len(out) - 1 : out[i] < out[i + 1]
       /\ ToSet(out) \cap lost = {}
       /\ ToSet(out) \cap Waiting = Uncounted
       /\ ToSet(out) \cup lost \cup Waiting = 1..chars

\* When nobody is flushing, output waits in the ring only before there is a
\* driver, after a failed write of the driver, or on behalf of a CPU that is
\* going to flush or has con_need_flush set: a CPU that leaves its output to
\* the flushing one is not let down.
NothingLeft ==
  con_lock = NoCpu /\ ~in_flush /\ con_in # con_out =>
    \/ ~con_driver \/ failed
    \/ \E c \in CPUs : con_need_flush[c] \/ pc[c] = "flush"

\* With a driver that accepts everything and no write from within the
\* console code, the ring is emptied again and again.
AllOut == trouble = {} => []<>(con_in = con_out)
=============================================================================
